---------------------------- MODULE IntrusiveList ----------------------------
(***************************************************************************)
(* The intrusive doubly linked lists that hang off every Dilithium::Value. *)
(* A node holds the value it belongs to, the next node and prev: the       *)
(* address of the pointer that points at the node, which is either the     *)
(* list head of a value or the next field of another node.  Value handles  *)
(* (ValueHandle.cpp) and operand uses (Use.cpp) are both kept this way.    *)
(*                                                                         *)
(* A list state is a record [val, prev, next, head].  The operators below  *)
(* are the pointer surgery of the two sources, one operator per member     *)
(* function, so that a component composes them as its code does.           *)
(***************************************************************************)

CONSTANTS
  Nodes,   \* the objects that can be linked (handles, uses)
  Owners,  \* the values whose lists they are linked on
  Null     \* nullptr

ASSUME NullAssumption == Null \notin Nodes /\ Null \notin Owners

(***************************************************************************)
(* A pointer to a pointer: &head[v] or &n->next_.                          *)
(***************************************************************************)
HeadOf(v) == <<"head", v>>
NextOf(n) == <<"next", n>>

Locations == {HeadOf(v) : v \in Owners} \cup {NextOf(n) : n \in Nodes}

Deref(L, loc) ==
  IF loc[1] = "head" THEN L.head[loc[2]] ELSE L.next[loc[2]]

(* The four assignments a list can undergo.                                *)
SetVal(L, n, v) ==
  [val |-> [L.val EXCEPT ![n] = v], prev |-> L.prev, next |-> L.next, head |-> L.head]

SetPrev(L, n, loc) ==
  [val |-> L.val, prev |-> [L.prev EXCEPT ![n] = loc], next |-> L.next, head |-> L.head]

SetNext(L, n, x) ==
  [val |-> L.val, prev |-> L.prev, next |-> [L.next EXCEPT ![n] = x], head |-> L.head]

SetHead(L, v, x) ==
  [val |-> L.val, prev |-> L.prev, next |-> L.next, head |-> [L.head EXCEPT ![v] = x]]

(* The assignment *loc = x.                                                *)
Store(L, loc, x) ==
  IF loc[1] = "head" THEN SetHead(L, loc[2], x) ELSE SetNext(L, loc[2], x)

(* next_->prev_ = loc, when there is a next node.                          *)
FixPrev(L, m, loc) == IF m = Null THEN L ELSE SetPrev(L, m, loc)

(***************************************************************************)
(* Insert n at the location loc, before whatever loc points at.            *)
(***************************************************************************)
Insert(L, loc, n) ==
  LET m == Deref(L, loc)
  IN  FixPrev(Store(SetPrev(SetNext(L, n, m), n, loc), loc, n), m, NextOf(n))

(* Insert n after the node k.                                              *)
InsertAfter(L, k, n) == Insert(L, NextOf(k), n)

(***************************************************************************)
(* Unlink n: the pointer that pointed at n now points at its successor.    *)
(* The fields of n itself keep their old contents.                         *)
(***************************************************************************)
Unlink(L, n) ==
  FixPrev(Store(L, L.prev[n], L.next[n]), L.next[n], L.prev[n])

-----------------------------------------------------------------------------

(* The lists whose nodes hold members of Vals in their val field.          *)
Lists(Vals) ==
  [val  : [Nodes -> Vals],
   prev : [Nodes -> Locations \cup {Null}],
   next : [Nodes -> Nodes \cup {Null}],
   head : [Owners -> Nodes \cup {Null}]]

(***************************************************************************)
(* The nodes of M are exactly the linked ones, and every pointer between   *)
(* them has its converse: what ValueHandle.cpp asserts piecemeal with      *)
(* "List invariant broken", "Added to wrong list?" and "Value bit set but  *)
(* no entries exist".                                                      *)
(***************************************************************************)
NodeLinked(L, M, n) ==
  /\ L.val[n] \in Owners
  /\ \/ L.prev[n] = HeadOf(L.val[n]) /\ L.head[L.val[n]] = n
     \/ \E k \in M : L.prev[n] = NextOf(k) /\ L.next[k] = n
  /\ \/ L.next[n] = Null
     \/ /\ L.next[n] \in M
        /\ L.prev[L.next[n]] = NextOf(n)
        /\ L.val[L.next[n]] = L.val[n]

HeadLinked(L, M, v) ==
  \/ L.head[v] = Null
  \/ L.head[v] \in M /\ L.prev[L.head[v]] = HeadOf(v) /\ L.val[L.head[v]] = v

Linked(L, M) ==
  /\ M \subseteq Nodes
  /\ \A n \in M : NodeLinked(L, M, n)
  /\ \A v \in Owners : HeadLinked(L, M, v)

(***************************************************************************)
(* No set of nodes is a ring of its own: some member of it hangs on a list *)
(* head or on a node outside.  With Linked, every node of M is then        *)
(* reached from the head of its value.                                     *)
(***************************************************************************)
Anchored(L, M) ==
  \A S \in SUBSET M : S # {} =>
    \E n \in S : \A k \in S : L.prev[n] # NextOf(k)
=============================================================================
