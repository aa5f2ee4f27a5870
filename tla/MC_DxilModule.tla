----------------------------- MODULE MC_DxilModule -----------------------------
(* Metadata for TLC: every shader with one or two elements of every kind   *)
(* in each of its signatures, and what can be wrong with the rest.         *)
EXTENDS DxilModule

Place(s, x) == (CHOOSE n \in DOMAIN s : s[n] = x) - 1

(* The number a compiler writes for the words of a declaration.            *)
Mode(words) ==
  LET m == ModeOfWords(words) IN IF m = "Invalid" THEN Len(InterpolationMode) ELSE Place(InterpolationMode, m)

Declared(name, kind, id, more, type, words) ==
  [name |-> name, kind |-> Place(SemanticKind, kind), id |-> id, index |-> <<id>>, rows |-> 1,
   type |-> Place(type_kind_names, type), typeName |-> type,
   mode |-> Mode(words), words |-> words, more |-> more]

Element(name, kind, id, more) == Declared(name, kind, id, more, "f32", {})

(* The compiler writes a kind of its own only where it means something.    *)
Own(kind, more) == Element(IF kind = "Arbitrary" THEN "user" ELSE kind, kind, 1, more)
Arbitrary(name) == Element(name, "Arbitrary", 2, Null)

SignaturesWritten ==
  { <<<<Own(kind, Null)>>, Null, <<>>>> : kind \in SemanticKinds }
  \cup { <<Null, <<Arbitrary("Position"), Own(kind, <<<<0, 1>>>>)>>, Null>> : kind \in SemanticKinds }
  \cup { <<Null, Null, <<Own(kind, <<>>), Arbitrary("user")>>>> : kind \in SemanticKinds }

(* Inputs of every type, and of every choice of the words.                 *)
VaryingsWritten ==
  { <<<<Declared("user", "Arbitrary", 0, Null, type_kind_names[n], {"linear"})>>, Null, Null>> :
      n \in 2..Len(type_kind_names) }
  \cup { <<<<Declared("user", "Arbitrary", 0, Null, "u16", words), Arbitrary("Position")>>, Null, Null>> :
           words \in SUBSET DOMAIN Bits }

Result(field) == [params |-> 0, result |-> <<"in", field, <<0>>>>]

Metadata(stage, signatures) ==
  [version |-> <<<<1, 0>>>>, model |-> <<<<stage, 5, 1>>>>,
   entries |-> <<<<"main", <<"name">>, signatures, Null, <<<<"flags", 1>>, <<"threads", <<8, 8, 1>>>>>>>>>>,
   annotations |-> <<[tag |-> "function", of |-> <<Result(<<<<"precise", TRUE>>, <<"name", "a">>>>)>>]>>]

Plain == Metadata("ps", Null)

Wrong ==
  { [Plain EXCEPT !.version = Null], [Plain EXCEPT !.version = <<<<1>>>>],
    [Plain EXCEPT !.model = Null], [Plain EXCEPT !.model[1][1] = "xs"],
    [Plain EXCEPT !.model[1][3] = 2], [Plain EXCEPT !.model[1] = <<"hs", 4, 0>>],
    [Plain EXCEPT !.entries = Null], [Plain EXCEPT !.entries = <<>>],
    [Plain EXCEPT !.entries[1][2] = Null], [Plain EXCEPT !.entries[1][3] = <<Null>>],
    [Plain EXCEPT !.entries[1][3] = <<Odd, Null, Null>>],
    [Plain EXCEPT !.entries[1][3] = <<<<Odd>>, Null, Null>>],
    [Plain EXCEPT !.entries[1][3] = <<<<Own("Position", Odd)>>, Null, Null>>],
    [Plain EXCEPT !.entries[1][3] = <<<<Own("Position", Null), Own("Depth", <<<<2, 1>>>>)>>, Null, Null>>],
    [Plain EXCEPT !.entries[1][4] = <<Null, Null, Null, <<Null>>>>],
    [Plain EXCEPT !.entries[1][5] = Odd], [Plain EXCEPT !.entries[1][5] = <<<<"hull", 1>>>>],
    [Plain EXCEPT !.annotations = <<Odd>>],
    [Plain EXCEPT !.annotations[1].of[1].params = 1],
    [Plain EXCEPT !.annotations[1].of[1].result = Odd],
    [Plain EXCEPT !.annotations[1].of[1] = Result(Odd)],
    [Plain EXCEPT !.annotations[1].of[1] = Result(<<<<"weight", 1>>>>)],
    [Plain EXCEPT !.annotations[1].of[1] = Result(<<<<"name", Null>>>>)],
    [Plain EXCEPT !.annotations[1].of[1] = Result(<<<<"matrix", <<4, 4>>>>>>)] }

Right ==
  { [Plain EXCEPT !.annotations = Null], [Plain EXCEPT !.entries[1][5] = Null],
    [Plain EXCEPT !.entries[1][4] = <<Null, <<>>, Null, Null>>],
    [Plain EXCEPT !.annotations[1].of[1] =
       Result(<<<<"matrix", <<4, 4, 1>>>>, <<"offset", 16>>, <<"name", "a">>, <<"name", "b">>>>)],
    [Plain EXCEPT !.annotations[1] = [tag |-> "struct", of |-> <<>>]] }

MetadataRead ==
  Wrong \cup Right \cup { Metadata("ps", s) : s \in VaryingsWritten }
  \cup { Metadata(stage, s) : stage \in DOMAIN Stages, s \in SignaturesWritten }
=============================================================================
