------------------------------- MODULE MC_Parts -------------------------------
(***************************************************************************)
(* The models of the components that work one after the other, in one run: *)
(* a behaviour of this module is a behaviour of one of them.  Metadata has *)
(* its own variables, which stay as they are at the start in the other     *)
(* parts; the variables of the other components are v1, v2, ... here,      *)
(* those a component does not have being Null.  The inputs of each are     *)
(* here, or in its MC module, which is instantiated for them alone: they   *)
(* do not depend on the constants that receive them.                       *)
(***************************************************************************)
EXTENDS Metadata, TLC

CONSTANTS Odd, c1, c2, l1, l2

VARIABLES part, v1, v2, v3, v4, v5, v6, v7, v8, v9, v10, v11, v12, v13, v14, v15

Pr0 == INSTANCE MC_Printer WITH Modules <- {}, mod <- v1, machine <- v2, types <- v3, text <- v4, todo <- v5
Pr == INSTANCE Printer WITH Modules <- Pr0!ModulesPrinted, mod <- v1, machine <- v2, types <- v3, text <- v4,
       todo <- v5

(* Two constants, and a local value of each of two functions.              *)
ValuesKept == {c1, c2, l1, l2}
FunctionOfValue == (c1 :> "constant") @@ (c2 :> "constant") @@ (l1 :> "f") @@ (l2 :> "g")

(* Attribute groups of one to three records, and lists that name groups in *)
(* every order, unknown ones too.                                          *)
At0 == INSTANCE Attributes WITH Documents <- {}, doc <- v1, context <- v2, groups <- v3, attribs <- v4
Group(id, idx, codes) == [id |-> id, idx |-> idx, codes |-> codes]
CodeSets == {{2}, {2, 20}, {34}, {44, 45}}
EntrySet == {<<>>, <<7>>, <<9>>, <<7, 9>>, <<9, 7>>, <<9, 3, 7>>, <<3, 7, 9>>, <<3>>}
AllCodes == DOMAIN At0!AttributeKindCode \ {1, 25, 41, 42}
AttributesRead ==
  { [groups |-> <<Group(7, At0!AI_FunctionIndex, a), Group(9, 0, b), Group(3, 2, c)>>, entries |-> <<e1, e2>>] :
       a \in CodeSets, b \in CodeSets, c \in CodeSets, e1 \in EntrySet, e2 \in EntrySet }
  \cup { [groups |-> <<Group(1, At0!AI_FunctionIndex, {c}), Group(2, At0!AI_FunctionIndex, {d})>>, entries |-> <<<<1>>, <<2>>>>] :
           c \in AllCodes, d \in AllCodes }
At == INSTANCE Attributes WITH Documents <- AttributesRead, doc <- v1, context <- v2, groups <- v3,
       attribs <- v4

(* Records of every type there is, with parts that come before and after   *)
(* them, or nowhere.                                                       *)
Record(code, ops) == [code |-> code, ops |-> ops]
TypeRecordsRead ==
  {Record("void", <<>>), Record("integer", <<32>>), Record("integer", <<7>>), Record("integer", <<0>>),
   Record("integer", <<128>>)}
    \cup {Record("pointer", <<p>>) : p \in 0 .. 3} \cup {Record("pointer", <<p, s>>) : p \in 0 .. 1, s \in 0 .. 1}
    \cup {Record("function", <<0, p>>) : p \in 0 .. 1} \cup {Record("function", <<v, p, q>>) : v \in {0, 1}, p \in 0 .. 1, q \in 0 .. 1}
    \cup {Record(c, <<0, p>>) : c \in {"struct", "named struct", "array"}, p \in {0, 3}}
    \cup {Record("vector", <<n, 0>>) : n \in {0, 2}}

Ty == INSTANCE Types WITH TypeRecords <- TypeRecordsRead, NumEntry <- 3, MaxRecords <- 4, document <- v1,
       context <- v2, typeList <- v3, status <- v4

Re0 == INSTANCE MC_Records WITH Documents <- {}, Types <- <<>>, Attribs <- 0, WORD <- 1048576,
       LONG <- 16777216, doc <- v1, at <- v2, scope <- v3, relative <- v4, values <- v5,
       mds <- v6, context <- v7, kinds <- v8, named <- v9, functions <- v10,
       bodies <- v11, constants <- v12, body <- v13, names <- v14, failed <- v15
Re == INSTANCE Records WITH Documents <- Re0!DocumentsRead, Types <- Re0!TypesRead, Attribs <- 1,
       WORD <- 1048576, LONG <- 16777216, doc <- v1, at <- v2,
       scope <- v3, relative <- v4, values <- v5, mds <- v6, context <- v7, kinds <- v8,
       named <- v9, functions <- v10, bodies <- v11, constants <- v12, body <- v13,
       names <- v14, failed <- v15

(* Every order of five uses, orders that do not tell uses apart, records   *)
(* that are too short or do not fit, and long lists of operands.           *)
Orders(n) == {r \in [1..n -> 0..n - 1] : \A i, j \in 1..n : r[i] = r[j] => i = j}
UseListsWritten ==
  {<<5, Append(r, 7)>> : r \in Orders(5)} \cup {<<n, Append(r, 7)>> : n \in 3..4, r \in [1..4 -> 0..1]}
  \cup {<<9, Append([i \in 1..9 |-> (i * 5) % 9], 7)>>}
  \cup {<<2, <<1, 7>>>>, <<2, <<0, 1, 7>>>>, <<2, <<1, 0, 7>>>>} \cup {<<n, <<1, 0, 7>>>> : n \in (3..64) \cup {120}}

Uo == INSTANCE UseOrder WITH Inputs <- UseListsWritten, operands <- v1, record <- v2, phase <- v3,
       list <- v4, prev <- v5, slots <- v6, order <- v7

(* Halves of both signs, around the ends of the exponents and mantissas.   *)
HalvesRead ==
  {s * 32768 + e * 1024 + m : s \in {0, 1}, e \in {0, 1, 2, 15, 16, 29, 30, 31},
                              m \in {0, 1, 2, 3, 511, 512, 513, 1022, 1023}} \ {0, 32768}

Ar == INSTANCE Arithmetic WITH Bits <- 5, MaxOps <- 2, Halves <- HalvesRead, acc <- v1, exact <- v2,
       done <- v3

(* Every letter of a layout string, right and wrong, and spaces and widths *)
(* below, between and above those already there.                           *)
Specified(letter, n, rest) == [letter |-> letter, n |-> n, rest |-> rest]
SpecsRead ==
  { Specified("e", 0, <<>>), Specified("E", 0, <<>>), Specified("p", 0, <<32, 32, 32>>),
    Specified("p", 2, <<16, 16>>), Specified("p", 1, <<64, 32, 64>>), Specified("p", 2, <<32, 16, 8>>),
    Specified("i", 24, <<32>>), Specified("i", 48, <<16, 64>>), Specified("i", 128, <<128>>),
    Specified("i", 64, <<64>>), Specified("f", 80, <<128>>), Specified("a", 0, <<0, 64>>),
    Specified("v", 96, <<128>>), Specified("i", 40, <<12>>), Specified("n", 8, <<16, 32>>),
    Specified("S", 32, <<>>), Specified("m", 0, <<"e">>), Specified("m", 0, <<"q">>) }

Dl == INSTANCE DataLayout WITH Specs <- SpecsRead, MaxSpecs <- 3, layout <- v1, given <- v2, failed <- v3

Dx0 == INSTANCE MC_DxilModule WITH Inputs <- {}, MaxCalls <- 0, md <- v1, made <- v2, dm <- v3, todo <- v4,
       text <- v5, calls <- v6
Dx == INSTANCE DxilModule WITH Inputs <- Dx0!MetadataRead, MaxCalls <- 2, md <- v1, made <- v2, dm <- v3,
       todo <- v4, text <- v5, calls <- v6

(* Every opcode and some that are none.                                    *)
Op == INSTANCE DxilOperations WITH Values <- 0..155, call <- v1, note <- v2

Di0 == INSTANCE MC_Disassembler WITH Files <- {}, WORD <- 1024, MAX_SIZE <- 512, file <- v1, todo <- v2,
       program <- v3, il <- v4, oss <- v5, outcome <- v6
Di == INSTANCE Disassembler WITH Files <- Di0!FilesRead, WORD <- 1024, MAX_SIZE <- 512, file <- v1, todo <- v2,
       program <- v3, il <- v4, oss <- v5, outcome <- v6

(* The variables a component does not have, from the n-th on.              *)
None8 == v8 = Null /\ v9 = Null /\ v10 = Null /\ v11 = Null /\ v12 = Null /\ v13 = Null /\ v14 = Null /\ v15 = Null
None7 == v7 = Null /\ None8
None6 == v6 = Null /\ None7
None5 == v5 = Null /\ None6
None4 == v4 = Null /\ None5
None3 == v3 = Null /\ None4
None1 == v1 = Null /\ v2 = Null /\ None3
Same8 == UNCHANGED <<part, v8, v9, v10, v11, v12, v13, v14, v15>>
Same7 == UNCHANGED v7 /\ Same8
Same6 == UNCHANGED v6 /\ Same7
Same5 == UNCHANGED v5 /\ Same6
Same4 == UNCHANGED v4 /\ Same5
Same3 == UNCHANGED v3 /\ Same4
Same1 == UNCHANGED <<v1, v2>> /\ Same3

PartsInit ==
  /\ Init
  /\ \/ part = "metadata" /\ None1
     \/ part = "printer" /\ Pr!Init /\ None6
     \/ part = "attributes" /\ At!Init /\ None5
     \/ part = "types" /\ Ty!Init /\ None5
     \/ part = "records" /\ Re!Init
     \/ part = "use order" /\ Uo!Init /\ None8
     \/ part = "arithmetic" /\ Ar!Init /\ None4
     \/ part = "layout" /\ Dl!Init /\ None4
     \/ part = "dxil" /\ Dx!Init /\ None7
     \/ part = "notes" /\ Op!Init /\ None3
     \/ part = "container" /\ Di!Init /\ None7

Others ==
  \/ part = "printer" /\ Pr!Next /\ Same6
  \/ part = "attributes" /\ At!Next /\ Same5
  \/ part = "types" /\ Ty!Next /\ Same5
  \/ part = "records" /\ Re!Next /\ UNCHANGED part
  \/ part = "use order" /\ Uo!Next /\ Same8
  \/ part = "arithmetic" /\ Ar!Next /\ Same4
  \/ part = "layout" /\ Dl!ParseSpecifier /\ Same4
  \/ part = "dxil" /\ Dx!Next /\ Same7
  \/ part = "notes" /\ Op!PrintInfoComment /\ Same3
  \/ part = "container" /\ Di!Next /\ Same7

PartsNext ==
  \/ part = "metadata" /\ Next /\ Same1
  \/ Others /\ UNCHANGED vars

partsVars == <<part, vars, v1, v2, v3, v4, v5, v6, v7, v8, v9, v10, v11, v12, v13, v14, v15>>
PartsSpec == PartsInit /\ [][PartsNext]_partsVars

Interchangeable == Permutations({c1, c2})

-----------------------------------------------------------------------------
(* The printer: a number in the text is that of what it stands for, in the *)
(* machine that wrote it, whatever was printed before (AsmWriter.cpp:1431) *)
NumbersResolve == part = "printer" => Pr!NumbersResolve

(* The printer: what is numbered gets the numbers 0, 1, 2 and so on, once  *)
(* each, in the order of its appearance (AsmWriter.cpp:766).               *)
NumbersInOrder == part = "printer" => Pr!NumbersInOrder

(* Attributes: lists are canonical, and mean what the groups of the entry  *)
(* say (Attributes.cpp:452).                                               *)
AttributesCanonical == part = "attributes" => At!AttributesCanonical

(* Types: equal records give one type, different ones different types      *)
(* (DerivedType.cpp:46).                                                   *)
TypesCanonical == part = "types" => Ty!TypesCanonical

(* Records: the tables and the instructions are what the module wrote, at  *)
(* every place (BitcodeReader.cpp:2285).                                   *)
ReadAsWritten == part = "records" => Re!ReadAsWritten

(* Use lists: sorted as the record asks, and every use finds its user      *)
(* (Value.cpp:387, Use.cpp:127).                                           *)
UsesFound == part = "use order" => Uo!UsesFound

(* Arithmetic: integers of any width and half floats are exact, but for    *)
(* the cases the module names (MPInt.cpp).                                 *)
NumbersExact == part = "arithmetic" => Ar!NumbersExact

(* Data layout: sizes and alignments are those of the string, and sound    *)
(* (DataLayout.cpp:399).                                                   *)
LayoutSound == part = "layout" => Dl!LayoutSound

(* DXIL: what is loaded is what the metadata says (DxilMdHelper.cpp:93).   *)
LoadedAsWritten == part = "dxil" => Dx!LoadedAsWritten

(* The tool: the listing shows what the container holds                    *)
(* (DilithiumDisasm.cpp:1089), and the notes of calls fit them (:222).     *)
ListingTrue ==
  /\ part = "container" => Di!ListsWhatIsThere
  /\ part = "notes" => Op!NotesFit
=============================================================================
