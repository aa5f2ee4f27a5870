---------------------------- MODULE ValueHandles ----------------------------
(***************************************************************************)
(* Value handles (ValueHandle.cpp): objects that refer to a Value and are  *)
(* told when it is deleted or replaced.  The handles of a value form an    *)
(* intrusive list whose head sits in LLVMContextImpl::value_handles, and   *)
(* the value's has_value_handle_ bit says that the map has an entry.       *)
(*                                                                         *)
(* Deleting or replacing a value walks its list with an iterator that is   *)
(* itself an (Assert) handle linked into the list, because visiting a      *)
(* Callback handle calls a virtual function that may do anything: create,  *)
(* destroy or redirect handles of this list or another one, or delete and  *)
(* replace other values, which starts a walk inside the walk.  A walk is   *)
(* therefore modelled visit by visit, on a stack of walks; everything else *)
(* is one step per member function.                                        *)
(***************************************************************************)
EXTENDS IntrusiveList, Integers, Sequences

CONSTANTS
  Tombstone,   \* TombstonePointer<Value>(), the value -2
  Iters,       \* the iterators of nested walks, outermost first (bounds the depth)
  Kind,        \* kind_ of every handle
  Overriding   \* the Callback handles whose class overrides the virtual functions

Kinds == {"Assert", "Callback", "Tracking", "Weak"}

ItersSet == {Iters[i] : i \in 1 .. Len(Iters)}
Handles  == Nodes \ ItersSet

Values    == Owners
Referents == Values \cup {Null, Tombstone}

ASSUME HandleAssumption ==
  /\ Tombstone \notin Owners /\ Tombstone # Null
  /\ Iters \in Seq(Nodes)
  /\ \A i, j \in 1 .. Len(Iters) : Iters[i] = Iters[j] => i = j
  /\ Kind \in [Nodes -> Kinds]
  /\ \A i \in 1 .. Len(Iters) : Kind[Iters[i]] = "Assert"
  /\ Overriding \subseteq {n \in Handles : Kind[n] = "Callback"}

VARIABLES
  table,    \* the lists, the keys of value_handles and the has_value_handle_ bits
  alive,    \* the handles that are constructed and not destroyed
  life,     \* of each value: "none", "live", or "dying" while ~Value runs
  walks,    \* the walks in progress, innermost last
  outcome   \* "ok", or "failed" once a DILITHIUM_UNREACHABLE is reached

vars == <<table, alive, life, walks, outcome>>

-----------------------------------------------------------------------------
(* The private helpers of ValueHandleBase, on the table.                   *)

IsValid(v) == v \in Values

WithList(T, L) == [list |-> L, keys |-> T.keys, marked |-> T.marked]

AddToExistingUseList(T, loc, n) == WithList(T, Insert(T.list, loc, n))

AddToExistingUseListAfter(T, k, n) == WithList(T, InsertAfter(T.list, k, n))

(* The loop that points the prev_ of every head back at its map entry.     *)
RefreshHeads(L, keys) ==
  [val |-> L.val, next |-> L.next, head |-> L.head,
   prev |-> [m \in Nodes |->
              IF L.val[m] \in keys /\ L.head[L.val[m]] = m
                THEN HeadOf(L.val[m]) ELSE L.prev[m]]]

(* Mutated: the has_value_handle_ bit is not set for a new entry.          *)
AddToUseListLeavesBit(T, n) ==
  LET v == T.list.val[n]
      L == Insert(T.list, HeadOf(v), n)
  IN  IF v \in T.marked
        THEN WithList(T, L)
        ELSE [list |-> RefreshHeads(L, T.keys \cup {v}), keys |-> T.keys \cup {v},
              marked |-> T.marked]

AddToUseList(T, n) ==
  LET v == T.list.val[n]
      L == Insert(T.list, HeadOf(v), n)
  IN  IF v \in T.marked
        THEN WithList(T, L)
        ELSE [list   |-> RefreshHeads(L, T.keys \cup {v}),
              keys   |-> T.keys \cup {v},
              marked |-> T.marked \cup {v}]

(* Mutated: the last handle of a list is taken for the only one.           *)
RemoveFromUseListEager(T, n) ==
  IF T.list.next[n] # Null
    THEN WithList(T, Unlink(T.list, n))
    ELSE [list |-> Unlink(T.list, n), keys |-> T.keys \ {T.list.val[n]},
          marked |-> T.marked \ {T.list.val[n]}]

(* A list may have become empty only when n had no successor; its entry is *)
(* found by searching the map for a null head.                             *)
RemoveFromUseList(T, n) ==
  LET L     == Unlink(T.list, n)
      empty == {v \in T.keys : L.head[v] = Null}
  IN  IF T.list.next[n] # Null \/ empty = {}
        THEN WithList(T, L)
        ELSE [list   |-> L,
              keys   |-> T.keys \ {CHOOSE v \in empty : TRUE},
              marked |-> T.marked \ {T.list.val[n]}]

Point(T, n, v) == WithList(T, SetVal(T.list, n, v))

(* A destroyed handle has no fields any more.                              *)
Forget(T, n) == WithList(T, SetPrev(SetNext(SetVal(T.list, n, Null), n, Null), n, Null))

Release(T, n) == IF IsValid(T.list.val[n]) THEN RemoveFromUseList(T, n) ELSE T

Assign(T, n, v) ==
  IF T.list.val[n] = v THEN T
  ELSE LET U == Point(Release(T, n), n, v)
       IN  IF IsValid(v) THEN AddToUseList(U, n) ELSE U

Construct(T, n, v) ==
  LET U == Point(T, n, v) IN IF IsValid(v) THEN AddToUseList(U, n) ELSE U

CopyConstruct(T, n, m) ==
  LET U == Point(T, n, T.list.val[m])
  IN  IF IsValid(T.list.val[m]) THEN AddToExistingUseList(U, U.list.prev[m], n) ELSE U

CopyAssign(T, n, m) ==
  IF T.list.val[n] = T.list.val[m] THEN T
  ELSE CopyConstruct(Release(T, n), n, m)

-----------------------------------------------------------------------------
Depth == Len(walks)
Top   == walks[Depth]
Iter  == Iters[Depth]

(* Client code runs between the library's calls, and inside a callback.    *)
ClientRuns == outcome = "ok" /\ (walks # << >> => Top.pc = "callback")

(* A history kept for the properties: the handles linked to a value after  *)
(* a walk over its list began.                                             *)
NoteLate(n, v) ==
  [i \in DOMAIN walks |->
    IF walks[i].val = v /\ table.list.val[n] # v THEN [walks[i] EXCEPT !.late = @ \cup {n}] ELSE walks[i]]

Reachable(v) == v \in {Null} \/ (v \in Values /\ life[v] # "none")

NewHandle(n, v) ==
  /\ ClientRuns /\ n \in Handles \ alive /\ Reachable(v)
  /\ table' = Construct(table, n, v)
  /\ alive' = alive \cup {n}
  /\ walks' = NoteLate(n, v)
  /\ UNCHANGED <<life, outcome>>

CopyHandle(n, m) ==
  /\ ClientRuns /\ n \in Handles \ alive /\ m \in alive \cap Handles
  /\ table' = CopyConstruct(table, n, m)
  /\ alive' = alive \cup {n}
  /\ walks' = NoteLate(n, table.list.val[m])
  /\ UNCHANGED <<life, outcome>>

DropHandle(n) ==
  /\ ClientRuns /\ n \in alive \cap Handles
  /\ table' = Forget(Release(table, n), n)
  /\ alive' = alive \ {n}
  /\ UNCHANGED <<life, walks, outcome>>

AssignHandle(n, v) ==
  /\ ClientRuns /\ n \in alive \cap Handles /\ Reachable(v)
  /\ table.list.val[n] # v
  /\ table' = Assign(table, n, v)
  /\ walks' = NoteLate(n, v)
  /\ UNCHANGED <<alive, life, outcome>>

CopyAssignHandle(n, m) ==
  /\ ClientRuns /\ {n, m} \subseteq alive \cap Handles
  /\ table.list.val[n] # table.list.val[m]
  /\ table' = CopyAssign(table, n, m)
  /\ walks' = NoteLate(n, table.list.val[m])
  /\ UNCHANGED <<alive, life, outcome>>

NewValue(v) ==
  /\ ClientRuns /\ life[v] = "none"
  /\ life' = [life EXCEPT ![v] = "live"]
  /\ UNCHANGED <<table, alive, walks, outcome>>

(***************************************************************************)
(* ValueHandleBase iter(Assert, *entry): the walk starts with its iterator *)
(* linked before the first handle.                                         *)
(***************************************************************************)
StartWalk(op, v, w) ==
  LET it == Iters[Depth + 1]
      T  == Point(table, it, v)
  IN  /\ Depth < Len(Iters)
      /\ table' = AddToExistingUseList(T, T.list.prev[table.list.head[v]], it)
      /\ alive' = alive \cup {it}
      /\ walks' = Append(walks, [op |-> op, val |-> v, to |-> w,
                                 entry |-> table.list.head[v],
                                 pc |-> "visit", late |-> {}])

(***************************************************************************)
(* ~Value: handles first (ValueIsDeleted), and nothing else of it matters  *)
(* here.  Client code does not delete a value twice, nor the replacement   *)
(* of a ReplaceAllUsesWith that is still running.                          *)
(***************************************************************************)
DeleteValue(v) ==
  /\ ClientRuns /\ life[v] = "live"
  /\ \A i \in DOMAIN walks : walks[i].to # v
  /\ IF v \in table.marked
       THEN StartWalk("delete", v, Null) /\ life' = [life EXCEPT ![v] = "dying"]
       ELSE life' = [life EXCEPT ![v] = "none"] /\ UNCHANGED <<table, alive, walks>>
  /\ UNCHANGED outcome

ReplaceValue(v, w) ==
  /\ ClientRuns /\ v # w /\ life[v] = "live" /\ life[w] = "live"
  /\ v \in table.marked
  /\ StartWalk("replace", v, w)
  /\ UNCHANGED <<life, outcome>>

(* A walk is between two visits, or at its end.                            *)
InLoop == outcome = "ok" /\ walks # << >> /\ Top.pc = "visit"

(* Mutated: the iterator stays before the handle it visits.                *)
MoveIterBefore(T, it, entry) ==
  LET U == RemoveFromUseList(T, it)
  IN  AddToExistingUseList(U, U.list.prev[entry], it)

(* iter.RemoveFromUseList(); iter.AddToExistingUseListAfter(entry).        *)
MoveIter(T, it, entry) == AddToExistingUseListAfter(RemoveFromUseList(T, it), entry, it)

(* entry = iter.next_; mutated, the field next to it.                      *)
SuccessorReadsPrev(T, it) == T.list.prev[it]
Successor(T, it) == T.list.next[it]

(* Mutated: a weak handle is not told of a replacement.                    *)
NotifyWeakOfDeletion(T, n, w) ==
  CASE Kind[n] = "Weak"     -> IF w.op = "delete" THEN Assign(T, n, Null) ELSE T
    [] Kind[n] = "Tracking" -> Assign(T, n, IF w.op = "delete" THEN Tombstone ELSE w.to)
    [] Kind[n] = "Callback" -> IF w.op = "delete" THEN Assign(T, n, Null) ELSE T
    [] Kind[n] = "Assert"   -> T

(* Mutated: a tracking handle is not told of a deletion.                   *)
NotifyTrackingOfReplacement(T, n, w) ==
  CASE Kind[n] = "Weak"     -> Assign(T, n, w.to)
    [] Kind[n] = "Tracking" -> IF w.op = "delete" THEN T ELSE Assign(T, n, w.to)
    [] Kind[n] = "Callback" -> IF w.op = "delete" THEN Assign(T, n, Null) ELSE T
    [] Kind[n] = "Assert"   -> T

(* What visiting the handle n does when no client code is involved.        *)
Notify(T, n, w) ==
  CASE Kind[n] = "Weak"     -> Assign(T, n, w.to)
    [] Kind[n] = "Tracking" -> Assign(T, n, IF w.op = "delete" THEN Tombstone ELSE w.to)
    [] Kind[n] = "Callback" -> IF w.op = "delete" THEN Assign(T, n, Null) ELSE T
    [] Kind[n] = "Assert"   -> T

(* One iteration of the loop over a handle that runs no client code; the   *)
(* loop variable then takes the successor of the iterator.                 *)
Visit ==
  /\ InLoop
  /\ Top.entry # Null /\ Top.entry \notin Overriding
  /\ \E T \in {MoveIter(table, Iter, Top.entry)} :
     \E U \in {Notify(T, Top.entry, Top)} :
       /\ table' = U
       /\ walks' = [NoteLate(Top.entry, U.list.val[Top.entry])
                      EXCEPT ![Depth].entry = Successor(U, Iter)]
  /\ UNCHANGED <<alive, life, outcome>>

(* The iteration calls an overridden Deleted or AllUsesReplacedWith: from  *)
(* here on client code runs, until it returns.                             *)
EnterCallback ==
  /\ InLoop
  /\ Top.entry \in Overriding
  /\ table' = MoveIter(table, Iter, Top.entry)
  /\ walks' = [walks EXCEPT ![Depth].pc = "callback"]
  /\ UNCHANGED <<alive, life, outcome>>

(* Mutated: the loop goes on from the handle it visited, not the iterator. *)
ReturnToVisited ==
  /\ outcome = "ok" /\ walks # << >> /\ Top.pc = "callback"
  /\ walks' = [walks EXCEPT ![Depth].pc = "visit",
                            ![Depth].entry = table.list.next[Top.entry]]
  /\ UNCHANGED <<table, alive, life, outcome>>

ReturnFromCallback ==
  /\ outcome = "ok" /\ walks # << >> /\ Top.pc = "callback"
  /\ walks' = [walks EXCEPT ![Depth].pc = "visit",
                            ![Depth].entry = Successor(table, Iter)]
  /\ UNCHANGED <<table, alive, life, outcome>>

(* The loop is over: the iterator is destroyed, and then a deleted value   *)
(* must have no handle left, a replaced one no weak or tracking handle.    *)
AtEnd == InLoop /\ Top.entry = Null

AfterWalk == Forget(RemoveFromUseList(table, Iter), Iter)

(* Mutated: the value is freed whatever is left on its list.               *)
FinishDeleteUnchecked ==
  /\ AtEnd /\ Top.op = "delete"
  /\ table' = AfterWalk
  /\ alive' = alive \ {Iter}
  /\ walks' = SubSeq(walks, 1, Depth - 1)
  /\ life' = [life EXCEPT ![Top.val] = "none"] /\ UNCHANGED outcome

FinishDelete ==
  /\ AtEnd /\ Top.op = "delete"
  /\ table' = AfterWalk
  /\ alive' = alive \ {Iter}
  /\ walks' = SubSeq(walks, 1, Depth - 1)
  /\ IF Top.val \in AfterWalk.marked
       THEN outcome' = "failed" /\ UNCHANGED life
       ELSE life' = [life EXCEPT ![Top.val] = "none"] /\ UNCHANGED outcome

FinishReplace ==
  /\ AtEnd /\ Top.op = "replace"
  /\ table' = AfterWalk
  /\ alive' = alive \ {Iter}
  /\ walks' = SubSeq(walks, 1, Depth - 1)
  /\ outcome' = IF \E n \in alive : /\ AfterWalk.list.val[n] = Top.val
                                    /\ Kind[n] \in {"Tracking", "Weak"}
                  THEN "failed" ELSE "ok"
  /\ UNCHANGED life

-----------------------------------------------------------------------------
Init ==
  /\ table = [list   |-> [val  |-> [n \in Nodes |-> Null],
                          prev |-> [n \in Nodes |-> Null],
                          next |-> [n \in Nodes |-> Null],
                          head |-> [v \in Owners |-> Null]],
              keys   |-> {},
              marked |-> {}]
  /\ alive = {}
  /\ life = [v \in Values |-> "none"]
  /\ walks = << >>
  /\ outcome = "ok"

ClientStep ==
  \/ \E n \in Handles, v \in Referents : NewHandle(n, v) \/ AssignHandle(n, v)
  \/ \E n, m \in Handles : CopyHandle(n, m) \/ CopyAssignHandle(n, m)
  \/ \E n \in Handles : DropHandle(n)
  \/ \E v \in Values : NewValue(v) \/ DeleteValue(v)
  \/ \E v, w \in Values : ReplaceValue(v, w)

WalkStep == Visit \/ EnterCallback \/ FinishDelete \/ FinishReplace

Next == ClientStep \/ WalkStep \/ ReturnFromCallback

Spec == Init /\ [][Next]_vars

(***************************************************************************)
(* A walk is one C++ call: once begun, its loop runs on.  This is weak     *)
(* fairness of WalkStep with ENABLED <<WalkStep>>_vars written out, since  *)
(* TLC evaluates ENABLED of these actions very slowly: the loop can move   *)
(* unless it would visit the same handle again and change nothing.         *)
(***************************************************************************)
Visited == Notify(MoveIter(table, Iter, Top.entry), Top.entry, Top)

CanMove ==
  /\ InLoop
  /\ Top.entry \in {Null} \cup Overriding \/ Visited # table \/ Successor(Visited, Iter) # Top.entry

WalkRunsOn == []<>~CanMove \/ []<><<WalkStep>>_vars

FairSpec == Spec /\ WalkRunsOn

-----------------------------------------------------------------------------
Frames ==
  [op : {"delete", "replace"}, val : Values, to : Values \cup {Null},
   entry : Nodes \cup {Null}, pc : {"visit", "callback"}, late : SUBSET Nodes]

(* The types of the variables.                                             *)
TypeOK ==
  /\ table \in [list : Lists(Referents), keys : SUBSET Values, marked : SUBSET Values]
  /\ alive \in SUBSET Nodes
  /\ life \in [Values -> {"none", "live", "dying"}]
  /\ walks \in Seq(Frames) /\ Len(walks) <= Len(Iters)
  /\ outcome \in {"ok", "failed"}

(* The handles that must be on a list: those that refer to a value.        *)
Members == {n \in alive : table.list.val[n] \in Values}

(***************************************************************************)
(* However walks and client code interleave, the handles that refer to a   *)
(* value are exactly the ones on its list, the list has no detached part,  *)
(* and the map entry and the has_value_handle_ bit agree with it: the      *)
(* "List invariant broken" and "Value bit set but no entries exist"        *)
(* assertions of ValueHandle.cpp, for every list at once.                  *)
(***************************************************************************)
ListIntegrity ==
  /\ Linked(table.list, Members)
  /\ Anchored(table.list, Members)
  /\ table.marked = table.keys
  /\ table.keys = {v \in Values : table.list.head[v] # Null}

(* Whatever a callback does, every walk in progress keeps its place: its   *)
(* iterator is linked on the list of the value it walks, the successor of  *)
(* the iterator is the handle to be visited next, and the value that       *)
(* replaces another one lives.  A walk that resumed at a destroyed handle  *)
(* would be the use after free the iterator exists to prevent.             *)
WalkKeepsPlace ==
  /\ \A i \in 1 .. Len(Iters) : Iters[i] \in alive <=> i <= Depth
  /\ \A i \in 1 .. Depth :
       /\ table.list.val[Iters[i]] = walks[i].val
       /\ walks[i].pc = "callback" <=> (i < Depth \/ Top.pc = "callback")
       /\ walks[i].pc = "visit" => walks[i].entry = table.list.next[Iters[i]]
       /\ IF walks[i].op = "delete"
            THEN walks[i].to = Null /\ (outcome = "ok" => life[walks[i].val] = "dying")
            ELSE walks[i].to \in Values /\ life[walks[i].to] = "live"

(* A handle never refers to a value that has been destroyed: what handles  *)
(* are for.                                                                *)
NoDanglingHandle ==
  outcome = "ok" => \A n \in Members : life[table.list.val[n]] # "none"

(* When the loop of a walk ends, the only handles still on the value's     *)
(* list are the ones linked after the walk began, the iterators of walks   *)
(* further out, and those whose class keeps the reference on purpose.      *)
WalkClears ==
  AtEnd => \A n \in Members \ {Iter} :
    table.list.val[n] = Top.val /\ n \notin Top.late =>
      \/ Kind[n] = "Assert" \/ n \in Overriding
      \/ Kind[n] = "Callback" /\ Top.op = "replace"

(* Without client code inside a walk, "All references to V were not        *)
(* removed?" is never reached.                                             *)
NeverFails == outcome = "ok"

(* Every deletion or replacement completes.                                *)
WalkEnds == walks # << >> ~> walks = << >>

-----------------------------------------------------------------------------
(* The abstraction: what each client handle refers to.                     *)
Referent(n) == IF n \in alive THEN table.list.val[n] ELSE Null

Contract == INSTANCE HandleContract
              WITH ref <- [n \in Handles |-> Referent(n)]

(* The lists, the bit and the walks implement the contract of a handle: a  *)
(* value is freed only when no handle refers to it.                        *)
ImplementsContract == Contract!ContractSpec
=============================================================================
