------------------------------- MODULE DxilModule -------------------------------
(***************************************************************************)
(* Reading the metadata of a DXIL module (DxilModule.cpp, DxilMdHelper.cpp)*)
(* and listing its signatures.  Metadata that is not as it should be, or   *)
(* asks for what is not implemented, ends the load with an exception; the  *)
(* DxilModule made so far is dropped, and the next call starts again.      *)
(*                                                                         *)
(* An operand is a tuple, a name, a number, or Null; one of another kind   *)
(* than expected is Odd.                                                   *)
(***************************************************************************)
EXTENDS DxilTables, DxilKinds, FiniteSets
LOCAL INSTANCE SequencesExt

CONSTANTS
  Inputs,    \* the metadata of the modules read
  MaxCalls,  \* bound: calls of GetOrCreateDxilModule
  Null, Odd

VARIABLES
  md,        \* the named metadata of the module
  made,      \* dxil_module_ of the LLVMModule
  dm,        \* the DxilModule being loaded
  todo,      \* what LoadDxilMetadata has still to do
  text,      \* the elements listed
  calls

vars == <<md, made, dm, todo, text, calls>>

IsTuple(x) == x \notin {Null, Odd}

Blank == [version |-> Null, sm |-> Null, entry |-> Null, signatures |-> <<>>, flags |-> 0,
          threads |-> <<>>, annotated |-> <<>>]

Init ==
  /\ md \in Inputs
  /\ made = Null /\ dm = Null /\ todo = <<>> /\ text = <<>> /\ calls = 0

-----------------------------------------------------------------------------
Do(what, with) == [what |-> what, with |-> with]

(* GetOrCreateDxilModule.  dm is a local until the load is done.           *)
Call ==
  /\ calls < MaxCalls /\ dm = Null
  /\ calls' = calls + 1
  /\ IF made # Null THEN UNCHANGED <<dm, todo>>
     ELSE dm' = Blank /\ todo' = <<Do("version", Null), Do("model", Null), Do("entry", Null)>>
  /\ UNCHANGED <<md, made, text>>

ResetDxilModule ==
  /\ dm = Null /\ made # Null
  /\ made' = Null /\ text' = <<>>
  /\ UNCHANGED <<md, dm, todo, calls>>

Loading(what) == dm # Null /\ todo # <<>> /\ Head(todo).what = what

(* The step fails unless ok holds; then dm is after, and more is to do.    *)
Step(ok, after, more) ==
  /\ dm' = IF ok THEN after ELSE Null
  /\ todo' = IF ok THEN more \o Tail(todo) ELSE <<>>
  /\ UNCHANGED <<md, made, text, calls>>

LoadDxilVersion ==
  /\ Loading("version")
  /\ LET ok == md.version # Null /\ Len(md.version) = 1 /\ Len(md.version[1]) = 2
     IN  Step(ok, [dm EXCEPT !.version = md.version[1]], <<>>)

LoadDxilShaderModel ==
  /\ Loading("model")
  /\ LET m  == md.model[1]
         sm == GetByName(m[1], m[2], m[3])
         ok == /\ md.model # Null /\ Len(md.model) = 1 /\ Len(m) = 3 /\ m[1] # Odd
               /\ sm # {}
     IN  Step(ok, [dm EXCEPT !.sm = CHOOSE s \in sm : TRUE], <<>>)

(* The five operands of the only entry point, and what is to be read of    *)
(* them: each signature that is there, the resources, the properties.      *)
GetDxilEntryPoint ==
  /\ Loading("entry")
  /\ LET e  == md.entries[1]
         ok == /\ md.entries # Null /\ Len(md.entries) = 1 /\ Len(e) = 5
               /\ e[1] # Odd /\ IsTuple(e[2])
               /\ e[3] # Null => IsTuple(e[3]) /\ Len(e[3]) = 3
         Elements(k, sig) == [n \in DOMAIN sig |-> Do("element", [sig |-> k, md |-> sig[n]])]
         Signature(k) == IF e[3] = Null \/ e[3][k] = Null THEN <<>>
                         ELSE IF e[3][k] = Odd THEN <<Do("odd", Null)>> ELSE Elements(k, e[3][k])
         Properties == IF e[5] = Null THEN <<>>
                       ELSE IF e[5] = Odd THEN <<Do("odd", Null)>>
                       ELSE [n \in DOMAIN e[5] |-> Do("property", e[5][n])]
     IN  Step(ok, [dm EXCEPT !.entry = e[1], !.signatures = <<<<>>, <<>>, <<>>>>],
              Signature(1) \o Signature(2) \o Signature(3) \o <<Do("resources", e[4])>>
                \o Properties \o <<Do("types", Null)>>)

(* What should be a tuple is not.                                          *)
NotATuple == Loading("odd") /\ Step(FALSE, dm, <<>>)

-----------------------------------------------------------------------------
Sigs == <<"Input", "Output", "PatchConstant">>

PointOf(k) == GetKind(dm.sm.kind, Sigs[k])

(* DxilSignatureElement::Initialize and SetKind: the semantic found by     *)
(* name is given up for the one of the kind that is written.               *)
Initialize(e, point) ==
  [point |-> point, semantic |-> Get(KindOfName(e.name), point), id |-> e.id, name |-> e.name,
   start |-> IF e.index # <<>> THEN e.index[1] ELSE 0, index |-> e.index,
   rows |-> e.rows, stream |-> 0, type |-> ComponentType[e.type + 1], mode |-> ModeOfNumber(e.mode)]

(* Mutated: the point is left as it is.                                    *)
SetKindAtPoint(se, kind) == [se EXCEPT !.semantic = Get(kind, se.point)]

SetKind(se, kind) ==
  LET point == RecoverKind(kind, se.point)
  IN  [se EXCEPT !.point = point, !.semantic = Get(kind, point)]

(* The pairs of tag and value: an output stream, or a global symbol.       *)
Extended(se, pairs) ==
  FoldLeft(LAMBDA s, p : IF p[1] = 0 THEN [s EXCEPT !.stream = p[2]] ELSE s, se, pairs)

(* The id that is written gives way to the place in the signature.         *)
AppendElement(sig, se) == Append(sig, [se EXCEPT !.id = Len(sig)])

LoadSignatureElement ==
  /\ Loading("element")
  /\ LET k  == Head(todo).with.sig
         e  == Head(todo).with.md
         se == Extended(SetKind(Initialize(e, PointOf(k)), SemanticKind[e.kind + 1]),
                        IF e.more = Null THEN <<>> ELSE e.more)
         ok == /\ IsTuple(e) /\ e.name # Odd /\ e.index # Odd
               /\ e.more # Null => /\ IsTuple(e.more)
                                   /\ \A n \in DOMAIN e.more : e.more[n][1] \in {0, 1}
     IN  Step(ok, [dm EXCEPT !.signatures[k] = AppendElement(@, se)], <<>>)

(* Four tuples or Nulls.  The properties of a resource, whatever its       *)
(* class, are not implemented.                                             *)
LoadDxilResources ==
  /\ Loading("resources")
  /\ LET r  == Head(todo).with
         ok == r # Null => /\ IsTuple(r) /\ Len(r) = 4
                           /\ \A n \in 1..4 : r[n] \in {Null, <<>>}
     IN  Step(ok, dm, <<>>)

(* A tag and its value.  Only the flags and the numbers of threads of a    *)
(* shader can be read: the states of the tessellation and geometry stages  *)
(* are not implemented, and there are no constants to hold a root          *)
(* signature.                                                              *)
LoadDxilShaderProperties ==
  /\ Loading("property")
  /\ LET tag == Head(todo).with[1]
         x   == Head(todo).with[2]
     IN  Step(x # Null /\ tag \in {"flags", "threads"},
              IF tag = "flags" THEN [dm EXCEPT !.flags = x] ELSE [dm EXCEPT !.threads = x], <<>>)

(* The annotation of a field: pairs of tag and value, the last of a tag    *)
(* counting.  A tag that is not known, or has no value, is an error.       *)
Unsaid ==
  [precise |-> FALSE, matrix |-> <<0, 0, 0>>, offset |-> Null, semantic |-> Null,
   interpolation |-> Null, name |-> Null, type |-> Null]

FieldValid(pairs) ==
  /\ IsTuple(pairs)
  /\ \A n \in DOMAIN pairs :
       /\ pairs[n][1] \in DOMAIN Unsaid /\ pairs[n][2] # Null
       /\ pairs[n][1] = "matrix" => IsTuple(pairs[n][2]) /\ Len(pairs[n][2]) = 3

LoadDxilFieldAnnotation(pairs) ==
  FoldLeft(LAMBDA fa, p : [fa EXCEPT ![p[1]] = p[2]], Unsaid, pairs)

(* A parameter's is how it is passed, its field and its semantic indices.  *)
(* There are no parameters to annotate, ParameterAnnotation not being      *)
(* implemented, so a function may only have the one for its result.        *)
FunctionValid(f) ==
  /\ f.params = 0
  /\ IsTuple(f.result) /\ Len(f.result) = 3
  /\ FieldValid(f.result[2]) /\ IsTuple(f.result[3])

LoadDxilFunctionAnnotation(f) ==
  [qual |-> f.result[1], field |-> LoadDxilFieldAnnotation(f.result[2]), index |-> f.result[3]]

(* Nodes of annotations: of structs, which are the types of global         *)
(* variables and so cannot be there, or of functions.                      *)
LoadDxilTypeSystem ==
  /\ Loading("types")
  /\ LET A  == IF md.annotations = Null THEN <<>> ELSE md.annotations
         ok == /\ Len(A) <= 2
               /\ \A n \in DOMAIN A :
                    /\ IsTuple(A[n]) /\ A[n].tag \in {"struct", "function"}
                    /\ A[n].tag = "struct" => A[n].of = <<>>
                    /\ \A f \in DOMAIN A[n].of : FunctionValid(A[n].of[f])
         functions == FlattenSeq([n \in DOMAIN A |-> A[n].of])
     IN  Step(ok, [dm EXCEPT !.annotated = [n \in DOMAIN functions |->
                                              LoadDxilFunctionAnnotation(functions[n])]], <<>>)

(* GetOrCreateDxilModule returns, and Disassemble lists the signatures.    *)
(* An element is shown under its own name if its kind is arbitrary or      *)
(* invalid, and under that of its kind otherwise.  A mode that is invalid  *)
(* has no name to show, and the listing is given up.                       *)
GetName(se) == IF se.semantic \in {"Arbitrary", "Invalid"} THEN se.name ELSE se.semantic

PrintDxilSignature(sig) ==
  [n \in DOMAIN sig |-> [name |-> GetName(sig[n]), index |-> sig[n].index[1],
                         mode |-> ModeName(sig[n].mode)]]

Finish ==
  /\ dm # Null /\ todo = <<>>
  /\ made' = dm /\ dm' = Null
  /\ text' = IF \E k \in 1..3 : \E n \in DOMAIN dm.signatures[k] : dm.signatures[k][n].mode = "Invalid"
             THEN <<>> ELSE [k \in 1..3 |-> PrintDxilSignature(dm.signatures[k])]
  /\ UNCHANGED <<md, todo, calls>>

Next ==
  \/ Call \/ ResetDxilModule \/ LoadDxilVersion \/ LoadDxilShaderModel \/ GetDxilEntryPoint
  \/ NotATuple \/ LoadSignatureElement \/ LoadDxilResources \/ LoadDxilShaderProperties
  \/ LoadDxilTypeSystem \/ Finish

Spec == Init /\ [][Next]_vars

-----------------------------------------------------------------------------
(* An element of the metadata also tells, here, the name of its type and   *)
(* the words it was declared with, from which a compiler makes the numbers *)
(* it writes.                                                              *)
Written(k) ==
  LET sigs == md.entries[1][3] IN IF sigs = Null \/ sigs[k] = Null THEN <<>> ELSE sigs[k]

(* The points at which an element of the signature may be interpreted: its *)
(* own, and those the element only casts a shadow of.                      *)
Readings(kind, point) ==
  {GetInterpretation(kind, p, HIGHEST) :
     p \in {q \in Points : \/ q = point
                           \/ /\ SIG_POINTS[q].related = point /\ point # "Invalid"
                              /\ GetInterpretation(kind, q, HIGHEST) = "Shadow"}} \ {"NA"}

(***************************************************************************)
(* Once a load has succeeded, each signature has the elements that are     *)
(* written, in that order and numbered by it.  An element has the kind     *)
(* written if that can be at this point of the shader, though it be only   *)
(* the shadow of an input, or is arbitrary if it can be only that; its     *)
(* type is one that fits; and it is listed under the name, the index and   *)
(* the words of interpolation written, unless these exclude each other.    *)
(* A function's result has the annotation written last under each tag.  A  *)
(* load that fails leaves no half of a module behind.                      *)
(***************************************************************************)
LoadedAsWritten ==
  made # Null =>
    /\ made.version = md.version[1] /\ made.sm.kind = Stages[md.model[1][1]]
    /\ \A n \in DOMAIN made.annotated :
         LET said == md.annotations[1].of[n].result[2]
         IN  \A tag \in DOMAIN Unsaid :
               LET of == {k \in DOMAIN said : said[k][1] = tag}
               IN  made.annotated[n].field[tag] =
                     IF of = {} THEN Unsaid[tag]
                     ELSE said[CHOOSE k \in of : \A j \in of : j <= k][2]
    /\ \A k \in 1..3 :
         /\ Len(made.signatures[k]) = Len(Written(k))
         /\ \A n \in DOMAIN Written(k) :
              LET e  == Written(k)[n]
                  se == made.signatures[k][n]
                  kind == SemanticKind[e.kind + 1]
                  R  == Readings(kind, GetKind(made.sm.kind, Sigs[k]))
              IN  /\ se.id = n - 1
                  /\ R # {} => se.semantic = IF R = {"Arb"} THEN "Arbitrary" ELSE kind
                  /\ TypeFits(se.type) /\ TypeName(se.type) = e.typeName
                  /\ ModeFits(e.words, se.mode)
                  /\ se.mode = "Invalid" => text = <<>>
                  /\ text # <<>> => text[k][n] = [name |-> e.name, index |-> e.index[1],
                                                 mode |-> ModeName(se.mode)]
=============================================================================
