----------------------------- MODULE MC_Records -----------------------------
(* Modules for TLC: a preamble of functions, constants and metadata, and   *)
(* one or two bodies of a few records, in both numberings.                 *)
EXTENDS Records

I32 == [kind |-> "int", range |-> 16]
Void == [kind |-> "void"]
Meta == [kind |-> "metadata"]
Label == [kind |-> "label"]
Fn(result, params, vararg) == [kind |-> "fn", result |-> result, params |-> params, vararg |-> vararg]
Plain == Fn(Void, <<>>, FALSE)
Takes == Fn(I32, <<I32, Meta>>, FALSE)
Many == Fn(I32, <<Label>>, TRUE)

TypesRead ==
  <<I32, [kind |-> "float"], Void, Meta, Plain, PointerTo(Plain), Takes, Many, PointerTo(I32)>>

Item(c, r) == [code |-> c, rec |-> r]
Enter(block) == Item("Enter", block)
End == Item("End", <<>>)
Block(name, items) == <<Enter(name)>> \o items \o <<End>>

Version(n) == <<Item("Version", <<n>>)>>

(* A function of the given type, a declaration or not; and what else its   *)
(* record may say.                                                         *)
Function(type, proto) == Item("Function", <<type, 0, proto, 0, 1, 3, 0, 0>>)
FunctionsWritten ==
  { <<4, 0, 0, 3, 0, 30, 0, 1>>, <<5, 0, 0, 0, 1, 0, 0, 2, 0, 1, 0, 2, 0>>,
    <<4, 8192, 0, 5, 1, 1, 0, 1>>, <<4, 0, 0, 9, 2, 5, 0, 2, 0, 0, 0, 1>> }
WrongFunctions ==
  { <<4, 0, 0, 0, 0, 0, 0>>, <<9, 0, 0, 0, 0, 0, 0, 0>>, <<0, 0, 0, 0, 0, 0, 0, 0>>, <<8, 0, 0, 0, 0, 0, 0, 0>>,
    <<4, 1, 0, 0, 0, 0, 0, 0>>, <<4, 0, 0, 0, 0, 31, 0, 0>>, <<4, 0, 0, 0, 0, 0, 1, 0>>,
    <<4, 0, 0, 0, 0, 0, 0, 0, 1>>, <<4, 0, 0, 10, 0, 0, 0, 0>>, <<4, 0, 0, 0, 0, 0, 0, 0, 0, 0, 0, 0, 1>> }

(* Values 0 to 3 are functions: a body without arguments, a body with an   *)
(* integer and metadata, a declaration taking them, one taking any number. *)
Functions(f) == <<Item("Function", f), Function(6, 0), Function(6, 1), Function(7, 1)>>
ConstantsWritten == Block("Constants", <<Item("SetType", <<0>>), Item("Integer", <<5>>), Item("Null", <<>>)>>)
KindsWritten == <<Item("Kind", <<7, "tbaa">>), Item("Kind", <<0, "mine">>), Item("Kind", <<1, "mine">>)>>
MetadataWritten ==
  Block("Metadata", <<Item("String", <<>>), Item("Value", <<0, 4>>), Item("Node", <<1, 0, 2>>),
                      Item("DistinctNode", <<>>), Item("NamedNode", <<"dx", <<2, 3>>>>)>> \o KindsWritten)
NamesWritten == Block("ValueSymTab", <<Item("Entry", <<0, "main">>), Item("Entry", <<2, "take">>)>>)

Preamble(version, f) == Version(version) \o Functions(f) \o ConstantsWritten \o MetadataWritten \o NamesWritten

(* The number of value v where n are known, as the numbering writes it.    *)
Number(version, n, v) == IF version = 1 THEN (n - v) % WORD ELSE v

(* A first body: a constant, metadata, and calls of both declarations.     *)
First(version, cc, arg) ==
  LET N(n, v) == Number(version, n, v) IN
  Block("Function",
    <<Item("DeclareBlocks", <<2>>)>>
    \o Block("Constants", <<Item("SetType", <<0>>), Item("Integer", <<1>>), Item("SetType", <<1>>), Item("Undef", <<>>)>>)
    \o Block("Metadata", <<Item("Value", <<0, 6>>), Item("Node", <<5>>)>>)
    \o <<Item("Call", <<0, cc, 6, N(8, 2), N(8, arg), N(8, 4)>>),
         Item("Ret", <<>>),
         Item("Call", <<1, cc, 7, N(9, 3), 1, N(9, 8), N(9, 6)>>),
         Item("Call", <<1, cc % 2^15, 0, N(10, 0)>>),
         Item("Ret", <<>>)>>
    \o Block("ValueSymTab", <<Item("BbEntry", <<1, "exit">>), Item("Entry", <<8, "r">>)>>))

(* A second one with arguments, over the tables of the module.             *)
Second(version, md) ==
  LET N(n, v) == Number(version, n, v) IN
  Block("Function",
    <<Item("DeclareBlocks", <<1>>), Item("Call", <<0, 2^15, 6, N(8, 1), N(8, 6), N(8, md)>>), Item("Ret", <<>>)>>)

Good(version, f, cc) == Preamble(version, f) \o First(version, cc, 5) \o Second(version, 3)

DocumentsWritten ==
  {Good(version, f, cc) : version \in {0, 1}, f \in FunctionsWritten, cc \in {2^15, 2^15 + 2^14 + 2^5, 2^15 + 2^13 + 1}}

(* Modules that must be rejected at some record.                           *)
DocumentsWrong ==
  LET f == <<4, 0, 0, 0, 0, 0, 0, 0>>
      start == Preamble(1, f)
      block(name, items) == start \o Block(name, items)
  IN {Version(1) \o <<Item("Function", w)>> : w \in WrongFunctions}
     \cup {Version(2), <<Item("Version", <<>>)>>}
     \cup {block("Constants", <<i>>) : i \in {Item("SetType", <<9>>), Item("SetType", <<>>), Item("Integer", <<>>), Item("Float", <<>>)}}
     \cup {block("Constants", <<Item("SetType", <<1>>), i>>) : i \in {Item("Integer", <<4>>), Item("Null", <<>>)}}
     \cup {block("ValueSymTab", <<i>>) : i \in {Item("Entry", <<6, "x">>), Item("BbEntry", <<0, "x">>), Item("Entry", <<>>)}}
     \cup {block("Metadata", <<i>>) :
             i \in {Item("Value", <<0>>), Item("Value", <<3, 4>>), Item("Value", <<0, 6>>), Item("Node", <<6>>),
                    Item("NamedNode", <<"dx", <<0>>>>), Item("NamedNode", <<"dx", <<4>>>>), Item("Kind", <<7, "mine">>), Item("Kind", <<2>>)}}
     \cup {block("Function", <<i>>) :
             i \in {Item("DeclareBlocks", <<0>>), Item("Ret", <<>>), Item("Call", <<0, 0, 4, 6>>)}}
     \cup {block("Function", <<Item("DeclareBlocks", <<1>>), i>>) :
             i \in {Item("Ret", <<0>>), Item("Call", <<0, 0>>), Item("Call", <<0, 2^15, 0, 6>>), Item("Call", <<0, 0, 4, 7, 3>>),
                    Item("Call", <<0, 0, 4, 7>>), Item("Call", <<0, 0, 4>>),
                    Item("Call", <<0, 0, 4, 1>>), Item("Call", <<0, 0, 4, 5>>), Item("Call", <<0, 0, 6, 4>>),
                    Item("Call", <<0, 0, 4, 6, 1>>), Item("Call", <<0, 0, 7, 3, 1>>), Item("Call", <<0, 0, 6, 4, 0, 1>>)}}
     \cup {start \o Block("Function", <<Item("DeclareBlocks", <<1>>), Item("Ret", <<>>)>>) \o Block("Function", <<Item("DeclareBlocks", <<1>>), Item("Ret", <<>>)>>)}
     \cup {start \o Block("Function", <<>>) \o Block("Function", <<>>) \o Block("Function", <<>>)}

DocumentsRead == DocumentsWritten \cup DocumentsWrong

(* A call whose integer argument is a float.                               *)
DocumentsMistyped == {Preamble(1, f) \o First(1, 2^15, 7) : f \in FunctionsWritten}
=============================================================================
