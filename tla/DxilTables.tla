------------------------------- MODULE DxilTables -------------------------------
(***************************************************************************)
(* The tables of DXIL: shader models (DxilShaderModel.cpp), signature      *)
(* points and how each semantic is interpreted there (DxilSigPoint.cpp),   *)
(* and the semantics by kind and by name (DxilSemantic.cpp).               *)
(***************************************************************************)
EXTENDS Integers, Sequences

ShaderKinds    == {"Pixel", "Vertex", "Geometry", "Hull", "Domain", "Compute"}
SignatureKinds == {"Input", "Output", "PatchConstant"}

-----------------------------------------------------------------------------
(* The versions there are of each kind of shader.                          *)
SHADER_MODELS ==
  LET Models(kinds, versions) ==
        {[kind |-> k, major |-> v[1], minor |-> v[2]] : k \in kinds, v \in versions}
      From4 == {<<4, 0>>, <<4, 1>>}
      From5 == {<<5, 0>>, <<5, 1>>, <<6, 0>>}
  IN  Models(ShaderKinds, From5) \cup Models(ShaderKinds \ {"Hull", "Domain"}, From4)

Stages == [ps |-> "Pixel", vs |-> "Vertex", gs |-> "Geometry",
           hs |-> "Hull", ds |-> "Domain", cs |-> "Compute"]

(* The name is read digit by digit: one for the major version, and the     *)
(* first one of the minor, which is at most two digits long here.          *)
GetByName(stage, major, minor) ==
  LET digit == IF minor < 10 THEN minor ELSE minor \div 10
  IN  {sm \in SHADER_MODELS : /\ stage \in DOMAIN Stages /\ sm.kind = Stages[stage]
                              /\ sm.major = major /\ sm.minor = digit}

-----------------------------------------------------------------------------
SigPoint(related, shader, sig) == [related |-> related, shader |-> shader, sig |-> sig]

SIG_POINTS ==
  [VSIn    |-> SigPoint("Invalid", "Vertex", "Input"),
   VSOut   |-> SigPoint("Invalid", "Vertex", "Output"),
   PCIn    |-> SigPoint("HSCPIn", "Hull", "Invalid"),
   HSIn    |-> SigPoint("HSCPIn", "Hull", "Invalid"),
   HSCPIn  |-> SigPoint("Invalid", "Hull", "Input"),
   HSCPOut |-> SigPoint("Invalid", "Hull", "Output"),
   PCOut   |-> SigPoint("Invalid", "Hull", "PatchConstant"),
   DSIn    |-> SigPoint("Invalid", "Domain", "PatchConstant"),
   DSCPIn  |-> SigPoint("Invalid", "Domain", "Input"),
   DSOut   |-> SigPoint("Invalid", "Domain", "Output"),
   GSVIn   |-> SigPoint("Invalid", "Geometry", "Input"),
   GSIn    |-> SigPoint("GSVIn", "Geometry", "Invalid"),
   GSOut   |-> SigPoint("Invalid", "Geometry", "Output"),
   PSIn    |-> SigPoint("Invalid", "Pixel", "Input"),
   PSOut   |-> SigPoint("Invalid", "Pixel", "Output"),
   CSIn    |-> SigPoint("Invalid", "Compute", "Invalid"),
   Invalid |-> SigPoint("Invalid", "Invalid", "Invalid")]

Points == DOMAIN SIG_POINTS

(* The point of a signature of a shader.  A compute shader's inputs have   *)
(* one, though the table gives the point no signature.                     *)
GetKind(shader, sig) ==
  CASE shader = "Vertex"   /\ sig = "Input"         -> "VSIn"
    [] shader = "Vertex"   /\ sig = "Output"        -> "VSOut"
    [] shader = "Hull"     /\ sig = "Input"         -> "HSCPIn"
    [] shader = "Hull"     /\ sig = "Output"        -> "HSCPOut"
    [] shader = "Hull"     /\ sig = "PatchConstant" -> "PCOut"
    [] shader = "Domain"   /\ sig = "Input"         -> "DSCPIn"
    [] shader = "Domain"   /\ sig = "Output"        -> "DSOut"
    [] shader = "Domain"   /\ sig = "PatchConstant" -> "DSIn"
    [] shader = "Geometry" /\ sig = "Input"         -> "GSVIn"
    [] shader = "Geometry" /\ sig = "Output"        -> "GSOut"
    [] shader = "Pixel"    /\ sig = "Input"         -> "PSIn"
    [] shader = "Pixel"    /\ sig = "Output"        -> "PSOut"
    [] shader = "Compute"  /\ sig = "Input"         -> "CSIn"
    [] OTHER                                        -> "Invalid"

-----------------------------------------------------------------------------
(* The interpretation of a semantic at the points where it is not NA, and  *)
(* the shader version it needs.                                            *)
At(k, points)        == [p \in points |-> [kind |-> k, since |-> <<0, 0>>]]
Since(k, v, points)  == [p \in points |-> [kind |-> k, since |-> v]]
Both(f, g)           == [p \in DOMAIN f \cup DOMAIN g |-> IF p \in DOMAIN f THEN f[p] ELSE g[p]]

Rasterized ==
  Both(At("SV", {"VSOut", "HSCPIn", "HSCPOut", "DSCPIn", "DSOut", "GSVIn", "GSOut", "PSIn"}),
       At("Arb", {"VSIn", "PCOut", "DSIn"}))
PixelOut(k, v)  == Since(k, v, {"PSOut"})
ComputeIn       == At("NotInSig", {"CSIn"})
PatchFactor     == At("TessFactor", {"PCOut", "DSIn"})

SEMANTIC_INTERPRETATION_TABLE ==
  [Arbitrary |-> At("Arb", Points \ {"PCIn", "HSIn", "GSIn", "PSOut", "CSIn", "Invalid"}),
   VertexID |-> At("SV", {"VSIn"}),
   InstanceID |-> Both(At("SV", {"VSIn"}),
                       At("Arb", {"VSOut", "HSCPIn", "HSCPOut", "DSCPIn", "DSOut", "GSVIn",
                                  "GSOut", "PSIn"})),
   Position |-> Rasterized, RenderTargetArrayIndex |-> Rasterized,
   ViewPortArrayIndex |-> Rasterized, ClipDistance |-> Rasterized, CullDistance |-> Rasterized,
   OutputControlPointID |-> At("NotInSig", {"HSIn"}),
   DomainLocation |-> At("NotInSig", {"DSIn"}),
   PrimitiveID |-> Both(At("NotInSig", {"PCIn", "HSIn", "DSIn"}),
                        Both(At("Shadow", {"GSIn"}), At("SGV", {"GSOut", "PSIn"}))),
   GSInstanceID |-> At("NotInSig", {"GSIn"}),
   SampleIndex |-> Since("Shadow", <<4, 1>>, {"PSIn"}),
   IsFrontFace |-> At("SGV", {"GSOut", "PSIn"}),
   Coverage |-> Both(Since("NotInSig", <<5, 0>>, {"PSIn"}), PixelOut("NotPacked", <<4, 1>>)),
   InnerCoverage |-> Since("NotInSig", <<5, 0>>, {"PSIn"}),
   Target |-> PixelOut("Target", <<0, 0>>), Depth |-> PixelOut("NotPacked", <<0, 0>>),
   DepthLessEqual |-> PixelOut("NotPacked", <<5, 0>>),
   DepthGreaterEqual |-> PixelOut("NotPacked", <<5, 0>>),
   StencilRef |-> PixelOut("NotPacked", <<5, 0>>),
   DispatchThreadID |-> ComputeIn, GroupID |-> ComputeIn, GroupIndex |-> ComputeIn,
   GroupThreadID |-> ComputeIn,
   TessFactor |-> PatchFactor, InsideTessFactor |-> PatchFactor]

SemanticKinds == DOMAIN SEMANTIC_INTERPRETATION_TABLE

(* The kinds by their numbers, from zero.                                  *)
SemanticKind ==
  <<"Arbitrary", "VertexID", "InstanceID", "Position", "RenderTargetArrayIndex",
    "ViewPortArrayIndex", "ClipDistance", "CullDistance", "OutputControlPointID",
    "DomainLocation", "PrimitiveID", "GSInstanceID", "SampleIndex", "IsFrontFace", "Coverage",
    "InnerCoverage", "Target", "Depth", "DepthLessEqual", "DepthGreaterEqual", "StencilRef",
    "DispatchThreadID", "GroupID", "GroupIndex", "GroupThreadID", "TessFactor",
    "InsideTessFactor">>

AtLeast(v, w) == v[1] > w[1] \/ (v[1] = w[1] /\ v[2] >= w[2])

GetInterpretation(kind, point, version) ==
  IF /\ kind \in SemanticKinds /\ point \in DOMAIN SEMANTIC_INTERPRETATION_TABLE[kind]
     /\ AtLeast(version, SEMANTIC_INTERPRETATION_TABLE[kind][point].since)
    THEN SEMANTIC_INTERPRETATION_TABLE[kind][point].kind
    ELSE "NA"

(* An element of a geometry shader's vertices that stands for an input of  *)
(* the shader itself.                                                      *)
RecoverKind(kind, point) ==
  IF kind = "PrimitiveID" /\ point = "GSVIn" THEN "GSIn" ELSE point

-----------------------------------------------------------------------------
(* DxilSemantic::Get of a kind at a point, for the highest version.        *)
HIGHEST == <<6, 0>>

Get(kind, point) ==
  IF point = "Invalid" THEN "Invalid"
  ELSE LET si == GetInterpretation(kind, point, HIGHEST)
       IN  CASE si = "NA"  -> "Invalid"
             [] si = "Arb" -> "Arbitrary"
             [] OTHER      -> kind

(* A name is the kind whose SV_ name it is, in whatever case, or "SV_" for *)
(* one of no kind, or "user" for one without the prefix.                   *)
KindOfName(name) ==
  CASE name = "user"                             -> "Arbitrary"
    [] name \in SemanticKinds \ {"Arbitrary"}    -> name
    [] OTHER                                     -> "Invalid"
=============================================================================
