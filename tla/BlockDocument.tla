--------------------------- MODULE BlockDocument ----------------------------
(***************************************************************************)
(* A document of the bitstream format as its writer sees it: a sequence of *)
(* records [kind, by, vals], abbreviations [kind, ops] and blocks [kind,   *)
(* id, width, items], and what is in force at a place in it.               *)
(***************************************************************************)
EXTENDS Integers, Sequences

None == [kind |-> "none"]

Frame(block, inherited) ==
  [items |-> block.items, next |-> 1, width |-> block.width, inherited |-> inherited]

(* The first item from the next on that is of one of the kinds, or none.   *)
NextOf(f, kinds) ==
  LET later == {i \in f.next .. Len(f.items) : f.items[i].kind \in kinds}
  IN  IF later = {} THEN 0 ELSE CHOOSE i \in later : \A j \in later : i <= j

AbbrevsOf(items) ==
  LET from[i \in 0 .. Len(items)] ==
        IF i = 0 THEN << >>
        ELSE from[i - 1] \o (IF items[i].kind = "abbrev" THEN <<items[i].ops>> ELSE << >>)
  IN  from[Len(items)]

(* The abbreviations a BLOCKINFO block gives to each block id, in the order*)
(* the ids were first set: a record with code 1 sets the id of those after.*)
Chosen(items, i) ==
  LET sets == {j \in 1 .. i : items[j].kind = "record" /\ items[j].vals[1] = 1}
  IN  items[CHOOSE j \in sets : \A k \in sets : k <= j].vals[2]

InfosOf(items) ==
  LET isSet(i) == items[i].kind = "record" /\ items[i].vals[1] = 1
      abbrevs(id) ==
        AbbrevsOf(SelectSeq([i \in DOMAIN items |->
                    IF items[i].kind = "abbrev" /\ Chosen(items, i) = id THEN items[i] ELSE None],
                  LAMBDA x : x # None))
      from[i \in 0 .. Len(items)] ==
        IF i = 0 THEN << >>
        ELSE IF isSet(i) /\ \A j \in DOMAIN from[i - 1] : from[i - 1][j].id # items[i].vals[2]
        THEN Append(from[i - 1], [id |-> items[i].vals[2], abbrevs |-> abbrevs(items[i].vals[2])])
        ELSE from[i - 1]
  IN  from[Len(items)]

InheritedBy(id, infos) ==
  LET is == {i \in DOMAIN infos : infos[i].id = id}
  IN  IF is = {} THEN << >> ELSE infos[CHOOSE i \in is : TRUE].abbrevs
=============================================================================
