------------------------------ MODULE UseOrder ------------------------------
(***************************************************************************)
(* The order of a value's uses as the module was written with, and how a   *)
(* use finds its user.  A user has a number of operands, all of them the   *)
(* same value here: its use list is the list of the places of those        *)
(* operands, the last one set in front.  A use-list record gives the       *)
(* order, and the list is sorted by merging runs of doubling length;       *)
(* next_ pointers are sequences here, and prev_ptr_ is stale until the end *)
(* of the sort.  The tags of the operands encode, in binary and from right *)
(* to left, how far the end of the array is.                               *)
(***************************************************************************)
EXTENDS Integers, Sequences
LOCAL INSTANCE SequencesExt

CONSTANTS
  Inputs,   \* pairs of a number of operands and a use-list record
  Null      \* no use, the head of the list

VARIABLES
  operands,   \* the number of operands of the user
  record,     \* the use-list record: the new place of each use, and the value
  phase,      \* where SortUseList is
  list,       \* use_list_, by its next_ pointers
  prev,       \* prev_ptr_ of each use
  slots,      \* the sorted runs, <<>> an open slot
  order       \* what the record says of each use

vars == <<operands, record, phase, list, prev, slots, order>>

(* InitTags: twenty tags from a table, from the last operand down, then    *)
(* the digits of how far it was to the last stop, lowest first.            *)
StopTag == 2
FullStopTag == 3
tags == <<FullStopTag, 1, StopTag, 1, 1, StopTag, 0, 1, 1, StopTag, 0, 1, 0, 1, StopTag, 1, 1, 1, 1, StopTag>>

DigitOrStop(s) ==
  IF s.count = 0 THEN [done |-> s.done + 1, count |-> s.done + 1, tags |-> Append(s.tags, StopTag)]
  ELSE [done |-> s.done + 1, count |-> s.count \div 2, tags |-> Append(s.tags, s.count % 2)]

InitTags(n) ==
  LET table == SubSeq(tags, 1, IF n < 20 THEN n ELSE 20)
      after == FoldLeft(LAMBDA s, place : DigitOrStop(s), [done |-> 20, count |-> 20, tags |-> table],
                        [place \in 1..n - 20 |-> place])
  IN Reverse(after.tags)

(* GetImpliedUser: to the next stop, then read the number that follows it. *)
NextStop(marks, from) == CHOOSE k \in from..Len(marks) : marks[k] > 1 /\ \A j \in from..k - 1 : marks[j] <= 1

GetImpliedUser(marks, use) ==
  LET stop == NextStop(marks, use)
      next == NextStop(marks, stop + 2)
      offset == FoldLeft(LAMBDA n, digit : 2 * n + digit, 1, SubSeq(marks, stop + 2, next - 1))
  IN IF marks[stop] = FullStopTag THEN stop + 1 ELSE next + offset

-----------------------------------------------------------------------------
Before(u, w) == order[u] < order[w]

(* MergeUseListsImpl: the right list goes first only where it must.        *)
RECURSIVE MergeUseLists(_, _), MergeRightFirst(_, _)
MergeRightFirst(l, r) ==      \* mutant: uses that compare equal change places
  IF l = <<>> THEN r ELSE IF r = <<>> THEN l
  ELSE IF ~Before(l[1], r[1]) THEN <<r[1]>> \o MergeRightFirst(l, Tail(r))
  ELSE <<l[1]>> \o MergeRightFirst(Tail(l), r)

MergeUseLists(l, r) ==
  IF l = <<>> THEN r ELSE IF r = <<>> THEN l
  ELSE IF Before(r[1], l[1]) THEN <<r[1]>> \o MergeUseLists(l, Tail(r))
  ELSE <<l[1]>> \o MergeUseLists(Tail(l), r)

MergeInto(runs, current) == FoldLeft(LAMBDA merged, run : MergeUseLists(run, merged), current, runs)

Links(s) == [u \in 1..operands |->
               LET i == CHOOSE k \in DOMAIN s : s[k] = u IN IF i = 1 THEN Null ELSE s[i - 1]]

Init ==
  /\ \E input \in Inputs : operands = input[1] /\ record = input[2]
  /\ list = Reverse([i \in 1..operands |-> i])
  /\ prev = Links(list)
  /\ phase = "record" /\ slots = <<>> /\ order = <<>>

(* ParseUseLists: a record that is too short is an error; one that does    *)
(* not fit the uses is left aside.                                         *)
Places == SubSeq(record, 1, Len(record) - 1)

ReadUseList ==
  /\ phase = "record"
  /\ order' = IF Len(Places) = operands
              THEN [u \in 1..operands |-> Places[CHOOSE k \in DOMAIN list : list[k] = u]] ELSE order
  /\ phase' = IF Len(record) < 3 THEN "failed" ELSE IF Len(Places) # operands THEN "ignored" ELSE "first"
  /\ UNCHANGED <<operands, record, list, prev, slots>>

FirstRun ==
  /\ phase = "first"
  /\ slots' = <<<<list[1]>>>> /\ list' = Tail(list)
  /\ phase' = "collect"
  /\ UNCHANGED <<operands, record, prev, order>>

(* All but the last use, each merged with the runs before the first open   *)
(* slot.                                                                   *)
Collect ==
  /\ phase = "collect" /\ Len(list) > 1
  /\ LET open == CHOOSE i \in 1..Len(slots) + 1 :
                   (i \notin DOMAIN slots \/ slots[i] = <<>>) /\ \A j \in 1..i - 1 : slots[j] # <<>>
     IN slots' = [i \in 1..(IF open > Len(slots) THEN open ELSE Len(slots)) |->
                    IF i < open THEN <<>>
                    ELSE IF i = open THEN MergeInto(SubSeq(slots, 1, open - 1), <<list[1]>>) ELSE slots[i]]
  /\ list' = Tail(list)
  /\ UNCHANGED <<operands, record, phase, prev, order>>

MergeAll ==
  /\ phase = "collect" /\ Len(list) = 1
  /\ list' = MergeInto(SelectSeq(slots, LAMBDA run : run # <<>>), list)
  /\ slots' = <<>> /\ phase' = "merged"
  /\ UNCHANGED <<operands, record, prev, order>>

FixPrev ==
  /\ phase = "merged"
  /\ prev' = Links(list)
  /\ phase' = "sorted"
  /\ UNCHANGED <<operands, record, list, slots, order>>

Next == ReadUseList \/ FirstRun \/ Collect \/ MergeAll \/ FixPrev
Spec == Init /\ [][Next]_vars

-----------------------------------------------------------------------------
(* Once a value's uses have been sorted they are all there, in the order   *)
(* the record asks for, those it does not tell apart in the order they     *)
(* had, linked both ways (Value.cpp:387); a record that does not fit       *)
(* leaves them alone (BitcodeReader.cpp:2663).  And from every one of them *)
(* the tags lead to the end of the operands, where the user is, however    *)
(* many there are (Use.cpp:127).                                           *)
UsesFound ==
  /\ phase \in {"ignored", "failed", "sorted"} => prev = Links(list)
  /\ phase \in {"ignored", "failed"} => list = Reverse([i \in 1..operands |-> i])
  /\ phase = "sorted" =>
       /\ ToSet(list) = 1..operands /\ Len(list) = operands
       /\ \A i, j \in DOMAIN list : i < j =>
            order[list[i]] < order[list[j]] \/ (order[list[i]] = order[list[j]] /\ list[i] > list[j])
  /\ phase = "record" =>
       LET marks == InitTags(operands) IN \A u \in 1..operands : GetImpliedUser(marks, u) = operands + 1
=============================================================================
