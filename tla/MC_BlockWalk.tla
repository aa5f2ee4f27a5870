---------------------------- MODULE MC_BlockWalk ----------------------------
(* Walks of the sample documents.  The first is a document in the shape of *)
(* a module: block information, types with abbreviations of their own, two *)
(* function bodies with blocks inside them, and a blob.                    *)
EXTENDS BlockWalk, BlockWriter, TLC

Record(by, vals)       == [kind |-> "record", by |-> by, vals |-> vals]
Define(ops)            == [kind |-> "abbrev", ops |-> ops]
Block(id, width, items) == [kind |-> "block", id |-> id, width |-> width, items |-> items]

(* 8 is the module, 17 types, 11 constants, 12 a function body.            *)
Info ==
  Block(0, 2, <<Record(3, <<1, 11>>), Define(<<Op("Literal", 4), Op("VBR", 4)>>),
                Record(3, <<1, 12>>), Define(<<Op("Fixed", 3), Op("Fixed", 7), Op("VBR", 6)>>),
                Record(3, <<1, 11>>), Define(<<Op("Fixed", 3)>>)>>)

Types ==
  Block(17, 4, <<Define(<<Op("Literal", 21), Op("Fixed", 1), Op("Array", 0), Op("Fixed", 5)>>),
                 Record(3, <<1, 40>>), Record(4, <<21, 0, 3, 30, 17>>),
                 Define(<<Op("Literal", 19), Op("Array", 0), Op("Char6", 0)>>),
                 Record(5, <<19, 100, 120, 95, 57>>)>>)

Constants(n) == Block(11, 4, <<Record(4, <<4, n>>), Record(5, <<2>>), Record(3, <<1, 9>>)>>)

Body(n) ==
  Block(12, 3, <<Record(3, <<1, 2>>), Constants(n), Record(4, <<2, 100, 70>>),
                 Define(<<Op("Fixed", 3), Op("Blob", 0)>>), Record(5, <<5, 255, n, 1, 2, 3>>)>>)

Module(items) == <<Block(8, 3, items)>>

Lazy == Module(<<Record(3, <<1, 1>>), Info, Types, Record(3, <<8, 64>>),
                 Info, Body(77), Constants(3), Body(130), Record(3, <<7, 0>>),
                 Record(3, <<7, 9, 9, 9, 9>>)>>)

(* One with its symbol table at the end, an odd number of four bytes long. *)
Symbols == Block(14, 4, <<Record(3, <<1, 0, 97>>)>>)

Old == Module(<<Record(3, <<1, 1>>), Info, Body(77), Record(3, <<7, 9>>), Symbols>>)

LazyInfos == InfosOf(Info.items)

(* Their streams, byte by byte.                                            *)
LazyBytes == <<
  66, 67, 192, 222, 33, 12, 0, 0, 53, 0, 0, 0, 11, 130, 32, 0, 2, 0, 0, 0,
  5, 0, 0, 0, 7, 193, 162, 72, 64, 228, 32, 96, 28, 50, 228, 144, 57, 8, 22, 131,
  12, 0, 0, 0, 137, 32, 0, 0, 5, 0, 0, 0, 66, 86, 72, 48, 41, 19, 4, 104,
  64, 134, 225, 163, 140, 19, 134, 69, 12, 215, 223, 3, 67, 2, 80, 8, 128, 0, 0, 0,
  5, 0, 0, 0, 7, 193, 162, 72, 64, 228, 32, 96, 28, 50, 228, 144, 57, 8, 22, 131,
  12, 0, 0, 0, 97, 24, 0, 0, 10, 0, 0, 0, 11, 2, 33, 11, 4, 0, 0, 0,
  2, 0, 0, 0, 212, 25, 165, 9, 130, 4, 0, 0, 20, 217, 20, 36, 100, 104, 91, 0,
  255, 77, 1, 2, 3, 0, 0, 0, 0, 0, 0, 0, 89, 32, 0, 0, 2, 0, 0, 0,
  52, 165, 9, 130, 4, 0, 0, 0, 97, 24, 0, 0, 10, 0, 0, 0, 11, 2, 33, 11,
  4, 0, 0, 0, 2, 0, 0, 0, 164, 40, 165, 9, 130, 4, 0, 0, 20, 217, 20, 36,
  100, 104, 91, 0, 255, 130, 1, 2, 3, 0, 0, 0, 0, 0, 0, 0, 59, 2, 96, 7,
  145, 36, 73, 2>>

OldBytes == <<
  66, 67, 192, 222, 33, 12, 0, 0, 26, 0, 0, 0, 11, 130, 32, 0, 2, 0, 0, 0,
  5, 0, 0, 0, 7, 193, 162, 72, 64, 228, 32, 96, 28, 50, 228, 144, 57, 8, 22, 131,
  12, 0, 0, 0, 97, 24, 0, 0, 10, 0, 0, 0, 11, 2, 33, 11, 4, 0, 0, 0,
  2, 0, 0, 0, 212, 25, 165, 9, 130, 4, 0, 0, 20, 217, 20, 36, 100, 104, 91, 0,
  255, 77, 1, 2, 3, 0, 0, 0, 0, 0, 0, 0, 59, 130, 36, 14, 4, 0, 0, 0,
  2, 0, 0, 0, 19, 8, 64, 56, 0, 0, 0, 0, 0, 0, 0, 0>>

BitsOf(bytes) == [i \in 1 .. 8 * Len(bytes) |-> (bytes[1 + (i - 1) \div 8] \div 2 ^ ((i - 1) % 8)) % 2]

LazyStream == BitsOf(LazyBytes)
OldStream  == BitsOf(OldBytes)

ASSUME StreamsAreWritten ==
  /\ LazyStream = WriteDocument(Lazy, LazyInfos)
  /\ OldStream = WriteDocument(Old, LazyInfos)
=============================================================================
