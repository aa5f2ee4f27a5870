---------------------------- MODULE MC_Disassembler ----------------------------
(* Files for TLC: containers with the parts in several orders, twice or    *)
(* missing, of sizes around the limits, and files that are no container.   *)
EXTENDS Disassembler, TLC

Header(kind, offset, size, module) ==
  [version |-> [kind |-> kind], words |-> 8, offset |-> offset, size |-> size,
   magic |-> "DXIL", module |-> module]

(* A part's data begins 24 bytes into the bitcode header's part of 60.      *)
Good(kind) == Header(kind, 16, 20, "dxil")
Headers ==
  {Good("Pixel"), Header("Vertex", 16, 36, "plain"), Header("Hull", 16, 37, "plain"),
   Header("Domain", 1000, 70, "plain"), Header("Domain", 1000, 90, "plain"),
   Header("Geometry", 16, 0, "plain"), Header("Pixel", 52, 1, "bad"),
   [Good("Pixel") EXCEPT !.words = 16], [Good("Pixel") EXCEPT !.magic = "other"]}

Element(value, register, mask, rw, stream) ==
  [stream |-> stream, name |-> IF register = -1 THEN "SV_Depth" ELSE "A", index |-> 0,
   value |-> value, type |-> value % 10, register |-> register, mask |-> mask, rw |-> rw]
SignaturesWritten ==
  {<<>>, <<Element(0, 0, {0, 1}, {0}, 0), Element(7, -1, {}, {}, 0)>>,
   <<Element(16, 1, {2, 3}, {0, 1}, 0), Element(64, 0, {0}, 0..3, 1)>>,
   <<[Element(7, -1, {}, 0..7, 0) EXCEPT !.name = "A"], [Element(1, -1, {}, {}, 0) EXCEPT !.name = "A"]>>}

(* The state of a stage, its primitives and domains by numbers up to n.    *)
Info(kind, n) ==
  LET all == [position |-> TRUE, depth |-> FALSE, sample |-> TRUE, topology |-> n % 6,
              primitive |-> IF kind = "Hull" THEN n % 5 ELSE n % 40, streams |-> 1, inputs |-> 3,
              outputs |-> 3, domain |-> n % 4]
  IN  IF kind = "Compute" THEN <<>> ELSE [f \in PSVRuntimeInfo0[kind] |-> all[f]]

(* What a part holds is under its name.                                    *)
Part(fourcc, data) == [fourcc |-> fourcc, size |-> 60] @@ (fourcc :> data)

(* The parts one after another behind the header and the offsets.          *)
LaidOut(parts) ==
  [i \in DOMAIN parts |->
     [offset |-> 32 + 4 * Len(parts) + 68 * (i - 1)] @@ parts[i]]
Bytes(parts) == 32 + 72 * Len(parts)
Container(parts) ==
  [length |-> Bytes(parts), program |-> Null, module |-> "bad",
   container |-> [major |-> 1, size |-> Bytes(parts), count |-> Len(parts),
                  parts |-> LaidOut(parts)]]

Dxil(h) == Part("DXIL", h)
Plain == Container(<<Dxil(Good("Pixel"))>>)
Damaged ==
  {[Plain EXCEPT !.length = n] : n \in {4, 31, 103}}
  \cup {[Plain EXCEPT !.container.major = 2],
        [Plain EXCEPT !.container.size = 103], [Plain EXCEPT !.container.count = 19],
        [Plain EXCEPT !.container.parts[1].offset = 97],
        [Plain EXCEPT !.container.parts[1].size = 61],
        [Plain EXCEPT !.container.parts[1].size = 23],
        [Plain EXCEPT !.container.parts[1].offset = 0],
        Container(<<Part("ILDB", Good("Pixel"))>>), Container(<<>>),
        [length |-> 600, program |-> Null, module |-> "bad",
         container |-> [Plain.container EXCEPT !.size = 513]]}
(* Files that are no container: too short for anything, the empty one too, *)
(* or with and without a header.                                           *)
Short ==
  {[length |-> n, container |-> Null, program |-> Null, module |-> "bad"] : n \in {0, 3}}
Raw ==
  {[length |-> n, container |-> Null, program |-> h, module |-> "plain"] :
     n \in {24, 25, 60}, h \in Headers \cup {Null}}

FilesRead ==
  Damaged \cup Short \cup Raw
  \cup {Container(<<Dxil(h)>>) : h \in Headers}
  \cup {Container(<<Dxil(h), Part("ILDB", Good("Hull")), Part("SFI0", {4, 15, 40})>>) : h \in Headers}
  \cup {Container(<<Part("PSV0", Info(k, n)), Dxil(Good(k))>>) : k \in {"Geometry", "Hull"}, n \in 0..39}
  \cup {Container(<<Part("PSV0", Info(k, 3)), Part("PSG1", s), Dxil(Good(k))>>) :
          s \in SignaturesWritten, k \in {"Pixel", "Vertex", "Geometry", "Hull", "Domain", "Compute"}}
  \cup {Container(<<Part("OSG1", s), Part("ISG1", t), Dxil(Good("Pixel"))>>) :
          s, t \in SignaturesWritten}
  \cup {Container(<<Part("ISG1", s), Part("SFI0", f), Dxil(Header("Pixel", 16, 20, "bad")),
                    Part("ISG1", t)>>) :
          s, t \in SignaturesWritten, f \in {{}, {0}, {3, 14}}}
=============================================================================
