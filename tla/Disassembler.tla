------------------------------ MODULE Disassembler ------------------------------
(***************************************************************************)
(* DilithiumDisasm: finding the program in a DXIL container or in a file   *)
(* without one, and listing the container's other parts.                   *)
(*                                                                         *)
(* Bytes are counted; what they hold is a record for each kind of part.    *)
(* WORD stands for 2^32 and MAX_SIZE for the limit of 2^31.                *)
(***************************************************************************)
EXTENDS Integers, Sequences, FiniteSets
LOCAL INSTANCE SequencesExt

CONSTANTS
  Files,          \* the files that are read
  WORD, MAX_SIZE,
  Null

VARIABLES
  file,
  todo,           \* what Disassemble has still to do
  program,        \* the header chosen, and where it is
  il,             \* the bitcode: where it starts, and its length
  oss,            \* the listing
  outcome

vars == <<file, todo, program, il, oss, outcome>>

HEADER      == 32
OFFSET      == 4
PART_HEADER == 8
PROGRAM     == 24
BITCODE     == 16

Init ==
  /\ file \in Files
  /\ todo = <<"start">> /\ program = Null /\ il = Null /\ oss = <<>> /\ outcome = Null

-----------------------------------------------------------------------------
IsDxilContainerLike(f) == f.length >= 4 /\ f.container # Null

IsValidDxilContainer(c, length) ==
  /\ length >= HEADER
  /\ c.major = 1
  /\ c.size <= length /\ c.size <= MAX_SIZE
  /\ OFFSET * c.count + HEADER <= c.size
  /\ \A i \in 1..c.count :
       /\ c.parts[i].offset <= c.size - PART_HEADER
       /\ c.parts[i].offset + PART_HEADER + c.parts[i].size <= c.size

(* Mutated: the sum of offset and size is not seen to wrap.                *)
IsBitcodeHeaderInRange(h, length) ==
  /\ length > BITCODE
  /\ length >= (h.offset + h.size) % WORD
  /\ h.magic = "DXIL"

IsValidDxilBitcodeHeader(h, length) ==
  /\ length > BITCODE
  /\ (h.offset + h.size) % WORD > h.offset
  /\ length >= (h.offset + h.size) % WORD
  /\ h.magic = "DXIL"

IsValidDxilProgramHeader(h, length) ==
  /\ length >= PROGRAM /\ length >= h.words * 4
  /\ IsValidDxilBitcodeHeader(h, length - (PROGRAM - BITCODE))

(* The parts of a kind, and the data of the one that is listed.            *)
PartsOf(c, fourcc) == {i \in 1..c.count : c.parts[i].fourcc = fourcc}
FirstOf(c, fourcc) == CHOOSE i \in PartsOf(c, fourcc) : \A j \in PartsOf(c, fourcc) : i <= j
GetDxilPartData(part) == part.offset + PART_HEADER

GetDxilProgramBitcode(h, place) ==
  [start |-> place + (PROGRAM - BITCODE) + h.offset, length |-> h.size]

GetVersionShaderType(version) == version.kind

-----------------------------------------------------------------------------
DSFI ==
  [Doubles |-> 0, ComputeShadersPlusRawAndStructuredBuffersViaShader4X |-> 1,
   UAVsAtEveryStage |-> 2, UAVs64 |-> 3, MininumPrecision |-> 4, DoubleExtensions |-> 5,
   ShaderExtensions |-> 6, Level9ComparisonFiltering |-> 7, TiledResources |-> 8,
   StencilRef |-> 9, InnerCoverage |-> 10, TypedUAVLoadAdditionalFormats |-> 11, ROVs |-> 12,
   ViewportAndRTArrayIndexFromAnyShaderFeedingRasterizer |-> 13, WaveOps |-> 14, Int64Ops |-> 15]

DSFI_Count == 16

feature_info_names ==
  << "Doubles", "ComputeShadersPlusRawAndStructuredBuffersViaShader4X", "UAVsAtEveryStage",
     "UAVs64", "MininumPrecision", "DoubleExtensions", "ShaderExtensions",
     "Level9ComparisonFiltering", "TiledResources", "StencilRef", "InnerCoverage",
     "TypedUAVLoadAdditionalFormats", "ROVs",
     "ViewportAndRTArrayIndexFromAnyShaderFeedingRasterizer", "WaveOps", "Int64Ops" >>

PrintFeatureInfo(flags) ==
  IF flags = {} THEN <<>>
  ELSE <<"features", SelectSeq(feature_info_names, LAMBDA n : DSFI[n] \in flags)>>

DxilProgramSigSemantic ==
  [Undefined |-> 0, Position |-> 1, ClipDistance |-> 2, CullDistance |-> 3,
   RenderTargetArrayIndex |-> 4, ViewPortArrayIndex |-> 5, VertexID |-> 6, PrimitiveID |-> 7,
   InstanceID |-> 8, IsFrontFace |-> 9, SampleIndex |-> 10, FinalQuadEdgeTessfactor |-> 11,
   FinalQuadInsideTessfactor |-> 12, FinalTriEdgeTessfactor |-> 13,
   FinalTriInsideTessfactor |-> 14, FinalLineDetailTessfactor |-> 15,
   FinalLineDensityTessfactor |-> 16, Target |-> 64, Depth |-> 65, Coverage |-> 66,
   DepthGE |-> 67, DepthLE |-> 68, StencilRef |-> 69, InnerCoverage |-> 70]

(* The table goes on without the gap that the values have; what is read    *)
(* behind its end may be anything.                                         *)
sys_value_names ==
  << "Undefined", "Position", "ClipDistance", "CullDistance", "RenderTargetArrayIndex",
     "ViewPortArrayIndex", "VertexID", "PrimitiveID", "InstanceID", "IsFrontFace",
     "SampleIndex", "FinalQuadEdgeTessfactor", "FinalQuadInsideTessfactor",
     "FinalTriEdgeTessfactor", "FinalTriInsideTessfactor", "FinalLineDetailTessfactor",
     "FinalLineDensityTessfactor", "Target", "Depth", "Coverage", "DepthGE", "DepthLE",
     "StencilRef", "InnerCoverage" >>

SysValueName(v) ==
  IF v < Len(sys_value_names) THEN sys_value_names[v + 1] ELSE "anything"

comp_type_names ==
  <<"unknown", "uint", "int", "float", "min16u", "min16i", "min16f", "uint64", "int64", "double">>

(* What stands for the register of an element that has none.               *)
Special ==
  [SV_Depth |-> "oDepth", SV_DepthGreaterEqual |-> "oDepthGE", SV_DepthLessEqual |-> "oDepthLE",
   SV_Coverage |-> "oMask", SV_StencilRef |-> "oStencilRef"]

SpecialRegister(e) ==
  CASE e.name \in DOMAIN Special                              -> Special[e.name]
    [] e.name \notin DOMAIN Special
       /\ e.value = DxilProgramSigSemantic.PrimitiveID        -> "primID"
    [] OTHER                                                  -> "special"

(* The components of a mask, and those used: the ones an input always      *)
(* reads, the ones an output may write.                                    *)
Components(mask) == SelectSeq(<<0, 1, 2, 3>>, LAMBDA i : i \in mask)
RwMask(e, is_input) == IF is_input THEN e.rw ELSE 0..7 \ e.rw

PrintElement(e, is_input, has_streams) ==
  [stream |-> IF has_streams THEN e.stream ELSE Null, name |-> e.name, index |-> e.index,
   mask |-> IF e.register = -1 THEN Null ELSE Components(e.mask),
   register |-> IF e.register = -1 THEN SpecialRegister(e) ELSE e.register,
   value |-> SysValueName(e.value), type |-> comp_type_names[e.type + 1],
   used |-> IF e.register = -1
              THEN IF RwMask(e, is_input) # {} THEN "YES" ELSE "NO"
              ELSE Components(RwMask(e, is_input))]

PrintSignature(sig, is_input) ==
  LET has_streams == \E n \in DOMAIN sig : sig[n].stream # 0
  IN  [n \in DOMAIN sig |-> PrintElement(sig[n], is_input, has_streams)]

(* What the state validation holds: the fields of each stage, which share  *)
(* their place, and the numbers in them.                                   *)
PSVRuntimeInfo0 ==
  [Vertex |-> {"position"}, Hull |-> {"inputs", "outputs", "domain", "primitive"},
   Domain |-> {"inputs", "position", "domain"},
   Geometry |-> {"primitive", "topology", "streams", "position"}, Pixel |-> {"depth", "sample"}]

InputPrimitive ==
  <<"Undefined", "Point", "Line", "Triangle", "Reserved4", "Reserved5", "LineWithAdjacency",
    "TriangleWithAdjacency">> \o [n \in 1..32 |-> <<"ControlPointPatch", n>>]
PrimitiveTopology ==
  <<"Undefined", "PointList", "LineList", "LineStrip", "TriangleList", "TriangleStrip">>
TessellatorDomain == <<"Undefined", "IsoLine", "Tri", "Quad">>
TessellatorOutputPrimitive == <<"Undefined", "Point", "Line", "TriangleCW", "TriangleCCW">>

(* The names they are listed under; "invalid" is one of them.              *)
input_primitive_names ==
  <<"invalid", "point", "line", "triangle", "invalid", "invalid", "lineadj", "triangleadj">>
    \o [n \in 1..32 |-> <<"patch", n>>]
primitive_topology_names == <<"invalid", "point", "invalid", "line", "invalid", "triangle">>
tessellator_domain_names == <<"invalid", "isoline", "tri", "quad">>
tessellator_output_primitive_names ==
  <<"invalid", "point", "line", "triangle_cw", "triangle_ccw">>

PrintPipelineStateValidationRuntimeInfo(info, kind) ==
  CASE kind = "Vertex"   -> <<kind, info.position>>
    [] kind = "Pixel"    -> <<kind, info.depth, info.sample>>
    [] kind = "Geometry" -> <<kind, input_primitive_names[info.primitive + 1],
                              primitive_topology_names[info.topology + 1], info.streams,
                              info.position>>
    [] kind = "Hull"     -> <<kind, info.inputs, info.outputs,
                              tessellator_domain_names[info.domain + 1],
                              tessellator_output_primitive_names[info.primitive + 1]>>
    [] kind = "Domain"   -> <<kind, info.inputs, info.position>>
    [] OTHER             -> <<>>

-----------------------------------------------------------------------------
Doing(what) == outcome = Null /\ todo # <<>> /\ Head(todo) = what
Fail ==
  /\ outcome' = "error" /\ todo' = <<>>
  /\ UNCHANGED <<file, program, il, oss>>

(* Of a file that is no container the program header may be missing too.   *)
Start ==
  /\ Doing("start")
  /\ IF IsDxilContainerLike(file)
       THEN IF IsValidDxilContainer(file.container, file.length)
              THEN /\ todo' = <<"SFI0", "ISG1", "OSG1", "PSG1", "program", "PSV0", "load">>
                   /\ UNCHANGED <<file, program, il, oss, outcome>>
              ELSE Fail
       ELSE /\ LET valid == /\ file.program # Null
                            /\ IsValidDxilProgramHeader(file.program, file.length)
               IN  /\ il' = IF valid THEN GetDxilProgramBitcode(file.program, 0)
                                     ELSE [start |-> 0, length |-> file.length]
                   /\ program' = IF valid THEN [header |-> file.program, place |-> 0] ELSE Null
            /\ todo' = <<"load">>
            /\ UNCHANGED <<file, oss, outcome>>

Section(fourcc, data) ==
  CASE fourcc = "SFI0" -> PrintFeatureInfo(data)
    [] fourcc = "PSV0" -> PrintPipelineStateValidationRuntimeInfo(data, GetVersionShaderType(program.header.version))
    [] OTHER           -> PrintSignature(data, fourcc = "ISG1")

(* The first part of the kind, if there is one, is listed.                 *)
List(fourcc) ==
  /\ Doing(fourcc)
  /\ LET c == file.container
     IN  oss' = IF PartsOf(c, fourcc) = {} THEN oss
                ELSE Append(oss, [of |-> fourcc,
                                  text |-> Section(fourcc, c.parts[FirstOf(c, fourcc)][fourcc])])
  /\ todo' = Tail(todo)
  /\ UNCHANGED <<file, program, il, outcome>>

ListFeatureInfo   == List("SFI0")
ListInput         == List("ISG1")
ListOutput        == List("OSG1")
ListPatchConstant == List("PSG1")

(* A container must have a program, but one for debugging is preferred.    *)
FindProgram ==
  /\ Doing("program")
  /\ LET c    == file.container
         kind == IF PartsOf(c, "ILDB") # {} THEN "ILDB" ELSE "DXIL"
         part == c.parts[FirstOf(c, kind)]
     IN  IF PartsOf(c, "DXIL") # {} /\ IsValidDxilProgramHeader(part[kind], part.size)
           THEN /\ program' = [header |-> part[kind], place |-> GetDxilPartData(part)]
                /\ il' = GetDxilProgramBitcode(part[kind], GetDxilPartData(part))
                /\ todo' = Tail(todo)
                /\ UNCHANGED <<file, oss, outcome>>
           ELSE Fail

ListRuntimeInfo == List("PSV0")

(* The module is loaded and printed, behind the listing of its DxilModule  *)
(* if it has the metadata of one.  No exception the load can throw is of   *)
(* the type that is caught.                                                *)
LoadAndPrint ==
  /\ Doing("load")
  /\ LET module == IF program = Null THEN file.module ELSE program.header.module
     IN  IF module = "bad" THEN Fail
         ELSE /\ oss' = oss \o (IF module = "dxil" THEN <<[of |-> "dx.version", text |-> <<>>]>>
                                                   ELSE <<>>)
                            \o <<[of |-> "module", text |-> <<>>]>>
              /\ outcome' = "text" /\ todo' = <<>>
              /\ UNCHANGED <<file, program, il>>

Next ==
  \/ Start \/ ListFeatureInfo \/ ListInput \/ ListOutput \/ ListPatchConstant
  \/ FindProgram \/ ListRuntimeInfo \/ LoadAndPrint

Spec == Init /\ [][Next]_vars

-----------------------------------------------------------------------------
(* The bytes from first on lie within those of a container and part.       *)
Within(first, length, start, size) == first >= start /\ first + length <= start + size

(* Whether the row says what is written for the element.                   *)
TellsOf(row, e, is_input) ==
  /\ e.value \in 0..16 => DxilProgramSigSemantic[row.value] = e.value
  /\ e.register # -1 =>
       /\ row.mask = Components(e.mask)
       /\ ToSet(row.used) = {i \in 0..3 : (i \in e.rw) = is_input}

(* What an enumerator is listed as: a topology that is a list is not one a  *)
(* shader writes.                                                          *)
Shown ==
  [Point |-> "point", Line |-> "line", Triangle |-> "triangle", LineWithAdjacency |-> "lineadj",
   TriangleWithAdjacency |-> "triangleadj", PointList |-> "point", LineStrip |-> "line",
   TriangleStrip |-> "triangle", IsoLine |-> "isoline", Tri |-> "tri", Quad |-> "quad",
   TriangleCW |-> "triangle_cw", TriangleCCW |-> "triangle_ccw"]

ShownAs(enumerators, n, name) ==
  IF enumerators = InputPrimitive /\ n >= 8 THEN name = <<"patch", InputPrimitive[n + 1][2]>>
  ELSE name = IF enumerators[n + 1] \in DOMAIN Shown THEN Shown[enumerators[n + 1]] ELSE "invalid"

TellsOfState(row, info) ==
  CASE row[1] = "Geometry" -> /\ ShownAs(InputPrimitive, info.primitive, row[2])
                              /\ ShownAs(PrimitiveTopology, info.topology, row[3])
    [] row[1] = "Hull"     -> /\ ShownAs(TessellatorDomain, info.domain, row[4])
                              /\ ShownAs(TessellatorOutputPrimitive, info.primitive, row[5])
    [] OTHER -> TRUE

(***************************************************************************)
(* The bitcode given to the reader lies within the part it was found in    *)
(* and this within the file, or within the file if it is no container.     *)
(* Bitcode found by a header is not empty; without a header it is the      *)
(* whole file, whatever its length: an empty file is handed on unchecked.  *)
(* What is listed comes in a fixed order and once, each section from the   *)
(* first part of its kind: every feature flag under its own name, the      *)
(* primitives and domains of a stage under the names of their numbers, and *)
(* for every element of a signature the components that are its own and    *)
(* those an input reads or an output writes.                               *)
(***************************************************************************)
ListsWhatIsThere ==
  LET c == file.container
      order == <<"SFI0", "ISG1", "OSG1", "PSG1", "PSV0", "dx.version", "module">>
      Rank(s) == CHOOSE n \in DOMAIN order : order[n] = s.of
  IN  /\ il # Null =>
           /\ Within(il.start, il.length, 0, file.length)
           /\ program # Null => il.length > 0
           /\ program = Null => c = Null /\ il = [start |-> 0, length |-> file.length]
           /\ c # Null => \E i \in PartsOf(c, IF PartsOf(c, "ILDB") # {} THEN "ILDB" ELSE "DXIL") :
                LET part == c.parts[i] IN
                /\ Within(il.start, il.length, GetDxilPartData(part), part.size)
                /\ Within(GetDxilPartData(part), part.size, 0, c.size)
      /\ \A m, n \in DOMAIN oss : m < n => Rank(oss[m]) < Rank(oss[n])
      /\ \A n \in DOMAIN oss :
           LET data == c.parts[FirstOf(c, oss[n].of)][oss[n].of]
           IN  /\ oss[n].of = "SFI0" /\ data # {} =>
                    {DSFI[f] : f \in ToSet(oss[n].text[2])} = data \cap (0..15)
               /\ oss[n].of = "PSV0" /\ oss[n].text # <<>> => TellsOfState(oss[n].text, data)
               /\ oss[n].of \in {"ISG1", "OSG1", "PSG1"} =>
                    \A k \in DOMAIN data : TellsOf(oss[n].text[k], data[k], oss[n].of = "ISG1")
=============================================================================
