---------------------------- MODULE UseListsProofs ----------------------------
(***************************************************************************)
(* Use lists stay whole, and a replacement keeps its place on the list it  *)
(* walks, for every module, every order of operations and every teardown.  *)
(***************************************************************************)
EXTENDS UseLists, IntrusiveListProofs, SequenceProofs

Targets == Values \cup {Null}

(* The uses that refer to a value.                                         *)
Linkable(L) == {u \in Uses : L.val[u] # Null}

(***************************************************************************)
(* The fields of a node that is not linked are nobody's business.          *)
(***************************************************************************)
LEMMA UnlinkedFieldsFree ==
  ASSUME NEW L, NEW M, WellLinked(L, M, Targets), NEW u \in Uses, u \notin M,
         NEW R \in Lists(Targets), R.head = L.head,
         \A n \in Uses : n # u =>
           R.val[n] = L.val[n] /\ R.prev[n] = L.prev[n] /\ R.next[n] = L.next[n]
  PROVE  WellLinked(R, M, Targets)
<1> USE DEF WellLinked, Uses
<1>1. M \subseteq Nodes /\ u \notin M
  BY DEF Linked
<1>2. ASSUME NEW n \in M PROVE NodeLinked(R, M, n)
  <2>1. NodeLinked(L, M, n)
    BY DEF Linked
  <2>2. /\ R.val[n] = L.val[n] /\ R.prev[n] = L.prev[n] /\ R.next[n] = L.next[n]
        /\ \A k \in M : R.next[k] = L.next[k] /\ R.prev[k] = L.prev[k] /\ R.val[k] = L.val[k]
    BY <1>1
  <2>3. QED BY <2>1, <2>2 DEF NodeLinked
<1>3. ASSUME NEW v \in Owners PROVE HeadLinked(R, M, v)
  BY <1>1 DEF Linked, HeadLinked
<1>4. Anchored(R, M)
  <2> SUFFICES ASSUME NEW S \in SUBSET M, S # {}
               PROVE  \E n \in S : \A k \in S : R.prev[n] # NextOf(k)
    BY DEF Anchored
  <2>1. PICK n \in S : \A k \in S : L.prev[n] # NextOf(k)
    BY DEF Anchored
  <2>2. R.prev[n] = L.prev[n]
    BY <1>1
  <2>3. QED BY <2>1, <2>2
<1>5. QED BY <1>1, <1>2, <1>3, <1>4 DEF Linked

(***************************************************************************)
(* RemoveFromList takes a use off the list it is on, if any.               *)
(***************************************************************************)
LEMMA RemoveLinked ==
  ASSUME NEW L, NEW M, WellLinked(L, M, Targets), NEW u \in Uses,
         u \in M <=> L.val[u] # Null, NEW R, R = RemoveFromList(L, u)
  PROVE  WellLinked(R, M \ {u}, Targets) /\ R.val = L.val
<1>1. CASE L.val[u] = Null
  <2>1. M \ {u} = M /\ R = L
    BY <1>1 DEF RemoveFromList
  <2>2. QED BY <2>1
<1>2. CASE L.val[u] # Null
  <2>1. R = Unlink(L, u) /\ u \in M
    BY <1>2 DEF RemoveFromList
  <2>2. QED BY <2>1, UnlinkLinked
<1>3. QED BY <1>1, <1>2

(***************************************************************************)
(* Put makes an unlinked use refer to a value, or to nothing.              *)
(***************************************************************************)
LEMMA PutLinked ==
  ASSUME NEW L, NEW M, WellLinked(L, M, Targets), NEW u \in Uses, u \notin M,
         NEW v \in Targets, NEW R, R = Put(L, u, v)
  PROVE  /\ WellLinked(R, IF v = Null THEN M ELSE M \cup {u}, Targets)
         /\ R.val = [L.val EXCEPT ![u] = v]
<1> USE DEF Uses, Values
<1>0. L \in Lists(Targets)
  BY DEF WellLinked
<1>1. CASE v = Null
  <2>1. R = [val |-> [L.val EXCEPT ![u] = Null], prev |-> [L.prev EXCEPT ![u] = Null],
             next |-> [L.next EXCEPT ![u] = Null], head |-> L.head]
    BY <1>1 DEF Put, Detach, SetVal, SetNext, SetPrev
  <2>2. R \in Lists(Targets)
    BY <2>1, <1>0 DEF Lists, Targets
  <2>3. /\ R.head = L.head /\ R.val = [L.val EXCEPT ![u] = Null]
        /\ \A n \in Uses : n # u =>
             R.val[n] = L.val[n] /\ R.prev[n] = L.prev[n] /\ R.next[n] = L.next[n]
    BY <2>1, <1>0 DEF Lists
  <2>4. WellLinked(R, M, Targets)
    BY <2>2, <2>3, UnlinkedFieldsFree, ZenonT(30)
  <2>5. QED BY <1>1, <2>3, <2>4
<1>2. CASE v # Null
  <2> DEFINE K == SetVal(L, u, v)
  <2>1. K = [val |-> [L.val EXCEPT ![u] = v], prev |-> L.prev, next |-> L.next, head |-> L.head]
    BY DEF SetVal
  <2>2. v \in Owners /\ R = Insert(K, HeadOf(v), u)
    BY <1>2 DEF Put, Targets
  <2>3. K \in Lists(Targets) /\ K.val[u] = v
    BY <2>1, <1>0 DEF Lists
  <2>4. WellLinked(K, M, Targets)
    <3>1. /\ K.head = L.head
          /\ \A n \in Uses : n # u =>
               K.val[n] = L.val[n] /\ K.prev[n] = L.prev[n] /\ K.next[n] = L.next[n]
      BY <2>1, <1>0 DEF Lists
    <3>2. QED BY <2>3, <3>1, UnlinkedFieldsFree
  <2>5. K.val = [L.val EXCEPT ![u] = v]
    BY <2>1
  <2> HIDE DEF K
  <2>6. WellLinked(R, M \cup {u}, Targets) /\ R.val = K.val
    <3>1. u \in Nodes /\ u \notin M
      OBVIOUS
    <3>2. v \in Owners /\ K.val[u] = v /\ R = Insert(K, HeadOf(v), u)
      BY <2>2, <2>3
    <3> HIDE DEF Targets
    <3>3. /\ WellLinked(R, M \cup {u}, Targets) /\ R.val = K.val
          /\ R.head = [K.head EXCEPT ![v] = u] /\ R.next[u] = K.head[v]
      BY ONLY <2>4, <3>1, <3>2, InsertAtHeadLinked, SMTT(30)
    <3>4. QED BY <3>3
  <2>7. QED BY <1>2, <2>5, <2>6
<1>3. QED BY <1>1, <1>2

-----------------------------------------------------------------------------
(* Every use that refers to a value is linked, and no other.               *)
Whole(L) == WellLinked(L, Linkable(L), Targets)

(***************************************************************************)
(* Use::Set moves one use and leaves every list whole.                     *)
(***************************************************************************)
LEMMA SetWhole ==
  ASSUME NEW L, Whole(L), NEW u \in Uses, NEW v \in Targets, NEW R, R = Set(L, u, v)
  PROVE  Whole(R) /\ R.val = [L.val EXCEPT ![u] = v]
<1> DEFINE K == RemoveFromList(L, u)
           M == Linkable(L)
           N == M \ {u}
<1>1. WellLinked(L, M, Targets) /\ (u \in M <=> L.val[u] # Null)
  BY DEF Whole, Linkable
<1>2. WellLinked(K, N, Targets) /\ K.val = L.val
  BY <1>1, RemoveLinked
<1>3. R = Put(K, u, v) /\ u \notin N
  BY DEF Set
<1>4. L.val \in [Uses -> Targets]
  BY <1>1 DEF WellLinked, Lists, Uses
<1> HIDE DEF K
<1>5. /\ WellLinked(R, IF v = Null THEN N ELSE N \cup {u}, Targets)
      /\ R.val = [L.val EXCEPT ![u] = v]
  BY <1>2, <1>3, PutLinked
<1>6. Linkable(R) = IF v = Null THEN N ELSE N \cup {u}
  BY <1>4, <1>5 DEF Linkable
<1>7. QED BY <1>5, <1>6 DEF Whole

(***************************************************************************)
(* Use::Swap exchanges what two uses refer to.                             *)
(***************************************************************************)
LEMMA SwapWhole ==
  ASSUME NEW L, Whole(L), NEW u \in Uses, NEW w \in Uses, NEW R, R = Swap(L, u, w)
  PROVE  Whole(R) /\ R.val = [L.val EXCEPT ![u] = L.val[w], ![w] = L.val[u]]
<1> DEFINE M == Linkable(L)
           A == RemoveFromList(L, u)
           B == RemoveFromList(A, w)
           C == Put(B, u, L.val[w])
           P == IF L.val[w] = Null THEN M \ {u, w} ELSE (M \ {u, w}) \cup {u}
<1>1. /\ WellLinked(L, M, Targets) /\ (u \in M <=> L.val[u] # Null)
      /\ (w \in M <=> L.val[w] # Null)
  BY DEF Whole, Linkable
<1>2. L.val \in [Uses -> Targets]
  BY <1>1 DEF WellLinked, Lists, Uses
<1>3. CASE L.val[u] = L.val[w]
  <2>1. R = L
    BY <1>3 DEF Swap
  <2>2. QED BY <2>1, <1>2, <1>3
<1>4. CASE L.val[u] # L.val[w]
  <2>1. u # w
    BY <1>4
  <2>2. WellLinked(A, M \ {u}, Targets) /\ A.val = L.val
    BY <1>1, RemoveLinked
  <2>3. w \in M \ {u} <=> A.val[w] # Null
    BY <2>1, <2>2, <1>1
  <2>4. WellLinked(B, (M \ {u}) \ {w}, Targets) /\ B.val = L.val
    <3> HIDE DEF A
    <3>1. QED BY <2>2, <2>3, RemoveLinked
  <2>5. (M \ {u}) \ {w} = M \ {u, w} /\ u \notin M \ {u, w}
    OBVIOUS
  <2>6. WellLinked(C, P, Targets) /\ C.val = [L.val EXCEPT ![u] = L.val[w]]
    <3> HIDE DEF B
    <3>1. L.val[w] \in Targets
      BY <1>2
    <3>2. C = Put(B, u, L.val[w])
      OBVIOUS
    <3> HIDE DEF C
    <3>3. /\ WellLinked(C, IF L.val[w] = Null THEN M \ {u, w} ELSE (M \ {u, w}) \cup {u}, Targets)
          /\ C.val = [B.val EXCEPT ![u] = L.val[w]]
      <4> HIDE DEF M
      <4>1. WellLinked(B, M \ {u, w}, Targets) /\ u \notin M \ {u, w} /\ u \in Uses
        BY <2>4, <2>5
      <4>2. QED BY ONLY <4>1, <3>1, <3>2, PutLinked
    <3>4. QED BY <2>4, <3>3
  <2>7. w \notin P
    BY <2>1
  <2>8. R = Put(C, w, L.val[u])
    BY <1>4 DEF Swap
  <2>9. /\ WellLinked(R, IF L.val[u] = Null THEN P ELSE P \cup {w}, Targets)
        /\ R.val = [[L.val EXCEPT ![u] = L.val[w]] EXCEPT ![w] = L.val[u]]
    <3> HIDE DEF C, P
    <3>1. L.val[u] \in Targets /\ w \in Uses
      BY <1>2
    <3>2. /\ WellLinked(R, IF L.val[u] = Null THEN P ELSE P \cup {w}, Targets)
          /\ R.val = [C.val EXCEPT ![w] = L.val[u]]
      BY ONLY <2>6, <2>7, <2>8, <3>1, PutLinked
    <3>3. QED BY <2>6, <3>2
  <2>10. R.val = [L.val EXCEPT ![u] = L.val[w], ![w] = L.val[u]]
    BY <2>9
  <2>11. Linkable(R) = IF L.val[u] = Null THEN P ELSE P \cup {w}
    BY <2>1, <2>10, <1>2 DEF Linkable
  <2>12. QED BY <2>9, <2>10, <2>11 DEF Whole
<1>5. QED BY <1>3, <1>4

-----------------------------------------------------------------------------
(***************************************************************************)
(* The inductive invariant.  WalkStaysOnList alone is not inductive: that  *)
(* the next use still refers to the old value follows from the pairing of  *)
(* next_ and prev_ and from the list not being a ring; and no replacement  *)
(* is going on in a module that is being destroyed.                        *)
(***************************************************************************)
WalkFrom == walk.kind # "idle" => walk.from \in Values

WalkInOpenModule == walk.kind # "idle" => errands = Open

IInv ==
  /\ Whole(list)
  /\ alive \subseteq Values
  /\ walk \in Walks
  /\ WalkFrom
  /\ WalkInOpenModule
  /\ WalkStaysOnList

(***************************************************************************)
(* The operations before the teardown leave values only, and every use of  *)
(* a walk is one of the module's.                                          *)
(***************************************************************************)
LEMMA InstsAreValues ==
  ASSUME NEW b \in Blocks, NEW k \in DOMAIN InstsOf[b]
  PROVE  InstsOf[b][k] \in Values
<1>1. PICK f \in Functions : b \in Elems(BlocksOf[f])
  BY DEF Blocks
<1>2. InstsOf[b][k] \in Elems(InstsOf[b])
  BY DEF Elems
<1>3. InstsOf[b][k] \in InstsIn[f]
  BY <1>1, <1>2 DEF InstsIn
<1>4. InstsOf[b][k] \in LocalTo[f]
  BY <1>1, <1>3 DEF LocalTo
<1>5. LocalTo[f] \subseteq Values
  BY <1>1, UseAssumption
<1>6. QED BY <1>4, <1>5

(***************************************************************************)
(* The use after a use of the walk is another use of the same value.       *)
(***************************************************************************)
LEMMA NextOnSameList ==
  ASSUME NEW L, Whole(L), NEW u \in Uses, L.val[u] # Null, L.next[u] # Null
  PROVE  /\ L.next[u] \in Uses /\ L.next[u] # u
         /\ L.val[L.next[u]] = L.val[u]
<1> DEFINE M == Linkable(L)
<1>1. Linked(L, M) /\ Anchored(L, M) /\ u \in M
  BY DEF Whole, WellLinked, Linkable
<1>2. NodeLinked(L, M, u)
  BY <1>1 DEF Linked
<1>3. L.next[u] \in M /\ L.prev[L.next[u]] = NextOf(u) /\ L.val[L.next[u]] = L.val[u]
  BY <1>2 DEF NodeLinked
<1>4. L.next[u] # u
  <2>1. {u} \in SUBSET M /\ {u} # {}
    BY <1>1
  <2>2. PICK n \in {u} : \A k \in {u} : L.prev[n] # NextOf(k)
    BY <1>1, <2>1 DEF Anchored
  <2>3. QED BY <2>2, <1>3
<1>5. QED BY <1>3, <1>4 DEF Linkable

(***************************************************************************)
(* The invariant holds of an empty module.                                 *)
(***************************************************************************)
LEMMA InitIInv == Init => IInv
<1> SUFFICES ASSUME Init PROVE IInv
  OBVIOUS
<1>1. Linkable(list) = {}
  BY DEF Init, Linkable
<1>2. list \in Lists(Targets)
  BY DEF Init, Lists, Targets, Uses, Values
<1>3. Linked(list, {}) /\ Anchored(list, {})
  BY DEF Init, Linked, Anchored, HeadLinked, Values
<1>4. Whole(list)
  BY <1>1, <1>2, <1>3 DEF Whole, WellLinked
<1>5. alive \subseteq Values
  BY DEF Init
<1>6. walk \in Walks /\ WalkFrom /\ WalkInOpenModule /\ WalkStaysOnList
  BY DEF Init, Idle, Walks, WalkFrom, WalkInOpenModule, WalkStaysOnList
<1>7. QED BY <1>4, <1>5, <1>6 DEF IInv

(***************************************************************************)
(* Outside a replacement, a whole list is all an operation has to keep.    *)
(***************************************************************************)
LEMMA StillIdle ==
  ASSUME IInv, walk.kind # "outside", walk' = walk, alive' \subseteq Values, Whole(list'),
         errands' = errands \/ walk.kind = "idle"
  PROVE  IInv'
BY DEF IInv, WalkFrom, WalkInOpenModule, WalkStaysOnList, Whole, WellLinked, Linkable

(***************************************************************************)
(* Every operation, visit and errand keeps the invariant.                  *)
(***************************************************************************)
LEMMA NextIInv == IInv /\ [Next]_vars => IInv'
<1> SUFFICES ASSUME IInv, [Next]_vars PROVE IInv'
  OBVIOUS
<1>0. /\ Whole(list) /\ alive \subseteq Values /\ walk \in Walks /\ WalkFrom
      /\ WalkInOpenModule /\ WalkStaysOnList
  BY DEF IInv
<1>1. InClient => walk.kind = "idle" /\ errands = Open
  BY DEF InClient, Idle
<1>2. list.val \in [Uses -> Targets] /\ list.next \in [Uses -> Uses \cup {Null}]
      /\ list.head \in [Values -> Uses \cup {Null}]
  BY <1>0 DEF Whole, WellLinked, Lists, Uses, Values
<1>3. ASSUME NEW b \in Blocks, NEW k \in DOMAIN InstsOf[b], CreateInst(b, k) PROVE IInv'
  <2>1. alive' \subseteq Values
    BY <1>0, <1>3, InstsAreValues DEF CreateInst
  <2>2. walk.kind = "idle" /\ walk' = walk /\ list' = list
    BY <1>1, <1>3 DEF CreateInst
  <2>3. Whole(list')
    BY <1>0, <2>2
  <2>4. QED BY <2>1, <2>2, <2>3, StillIdle
<1>4. ASSUME NEW u \in Uses, NEW v \in Values \cup {Null}, SetOperand(u, v) PROVE IInv'
  <2>1. walk.kind = "idle" /\ walk' = walk /\ alive' = alive /\ list' = Set(list, u, v)
    BY <1>1, <1>4 DEF SetOperand
  <2>2. Whole(list')
    <3>1. v \in Targets
      BY DEF Targets
    <3>2. QED BY <1>0, <2>1, <3>1, SetWhole
  <2>3. QED BY <1>0, <2>1, <2>2, StillIdle
<1>5. ASSUME NEW u \in Uses, NEW w \in Uses, SwapOperands(u, w) PROVE IInv'
  <2>1. walk.kind = "idle" /\ walk' = walk /\ alive' = alive /\ list' = Swap(list, u, w)
    BY <1>1, <1>5 DEF SwapOperands
  <2>2. Whole(list')
    BY <1>0, <2>1, SwapWhole
  <2>3. QED BY <1>0, <2>1, <2>2, StillIdle
<1>6. ASSUME NEW v \in Values, NEW w \in Values, ReplaceAllUsesWith(v, w) PROVE IInv'
  <2>1. /\ walk' = [kind |-> "all", from |-> v, to |-> w, block |-> Null, at |-> Null]
        /\ list' = list /\ alive' = alive /\ errands' = Open
    BY <1>1, <1>6 DEF ReplaceAllUsesWith
  <2>2. QED BY <1>0, <2>1 DEF IInv, Walks, WalkFrom, WalkInOpenModule, WalkStaysOnList
<1>7. ASSUME NEW v \in Values, NEW w \in Values, NEW b \in Blocks,
             ReplaceUsesOutsideBlock(v, w, b)
      PROVE  IInv'
  <2>1. /\ walk' = [kind |-> "outside", from |-> v, to |-> w, block |-> b,
                    at |-> list.head[v]]
        /\ list' = list /\ alive' = alive /\ errands' = Open
    BY <1>1, <1>7 DEF ReplaceUsesOutsideBlock, UseBegin
  <2>2. list.head[v] \in Uses \cup {Null}
    BY <1>2
  <2>3. list.head[v] # Null => list.val[list.head[v]] = v
    BY <1>0 DEF Whole, WellLinked, Linked, HeadLinked, Values
  <2>4. walk' \in Walks /\ WalkFrom' /\ WalkInOpenModule'
    BY <2>1, <2>2 DEF Walks, WalkFrom, WalkInOpenModule
  <2>5. WalkStaysOnList'
    BY <2>1, <2>3 DEF WalkStaysOnList
  <2>6. QED BY <1>0, <2>1, <2>4, <2>5 DEF IInv
<1>8. ASSUME LetGoOfModule PROVE IInv'
  <2>1. walk.kind = "idle" /\ walk' = walk /\ list' = list /\ alive' = alive
    BY <1>1, <1>8 DEF LetGoOfModule
  <2>2. QED BY <1>0, <2>1, StillIdle
<1>9. ASSUME NEW answer \in Answers, ReplaceNext(answer) PROVE IInv'
  <2>1. walk.kind = "all" /\ alive' = alive /\ errands' = errands
    BY <1>9 DEF ReplaceNext
  <2>2. list.head[walk.from] \in Uses
    BY <1>0, <1>2, <1>9, <2>1 DEF ReplaceNext, WalkFrom
  <2>3. walk.to \in Targets
    BY <1>0 DEF Walks, Targets
  <2>4. CASE answer = "constant"
    <3>1. walk' = Idle /\ list' = list
      BY <1>9, <2>4 DEF ReplaceNext
    <3>2. QED BY <1>0, <2>1, <3>1 DEF IInv, Idle, Walks, WalkFrom, WalkInOpenModule, WalkStaysOnList
  <2>5. CASE answer # "constant"
    <3>1. walk' = walk /\ list' = Set(list, list.head[walk.from], walk.to)
      BY <1>9, <2>5 DEF ReplaceNext
    <3>2. Whole(list')
      BY <1>0, <2>2, <2>3, <3>1, SetWhole
    <3>3. QED BY <1>0, <2>1, <3>1, <3>2, StillIdle
  <2>6. QED BY <2>4, <2>5
<1>10. ASSUME NEW answer \in Answers, OutsideNext(answer) PROVE IInv'
  <2> DEFINE u == walk.at
  <2>1. walk.kind = "outside" /\ u # Null /\ alive' = alive /\ errands' = errands
    BY <1>10 DEF OutsideNext
  <2>2. walk' = [walk EXCEPT !.at = list.next[u]]
    BY <1>10 DEF OutsideNext, Advance
  <2>3. u \in Uses /\ walk.to \in Targets /\ walk.from \in Values
    BY <1>0, <2>1 DEF Walks, Targets, WalkFrom
  <2>4. list.val[u] = walk.from /\ walk.from # Null
    BY <1>0, <2>1, <2>3, NullAssumption DEF WalkStaysOnList, Values
  <2>5. list' = list \/ list' = Set(list, u, walk.to)
    BY <1>10 DEF OutsideNext
  <2>6. Whole(list') /\ \A n \in Uses : n # u => list'.val[n] = list.val[n]
    <3>1. CASE list' = list
      BY <1>0, <3>1
    <3>2. CASE list' = Set(list, u, walk.to)
      <4>1. Whole(list') /\ list'.val = [list.val EXCEPT ![u] = walk.to]
        BY <1>0, <2>3, <3>2, SetWhole
      <4>2. QED BY <4>1, <1>2
    <3>3. QED BY <2>5, <3>1, <3>2
  <2>7. list.next[u] # Null => list'.val[list.next[u]] = walk.from
    BY <1>0, <2>3, <2>4, <2>6, NextOnSameList
  <2>8. /\ walk' \in Walks /\ walk'.kind = "outside" /\ walk'.from = walk.from
        /\ walk'.at = list.next[u]
    BY <1>0, <1>2, <2>1, <2>2, <2>3 DEF Walks
  <2>9. WalkStaysOnList' /\ WalkFrom' /\ WalkInOpenModule'
    BY <1>0, <2>1, <2>3, <2>7, <2>8 DEF WalkStaysOnList, WalkFrom, WalkInOpenModule
  <2>10. QED BY <1>0, <2>1, <2>6, <2>8, <2>9 DEF IInv
<1>11. ASSUME ReplaceDone \/ OutsideDone PROVE IInv'
  <2>1. walk' = Idle /\ list' = list /\ alive' = alive
    BY <1>11 DEF ReplaceDone, OutsideDone
  <2>2. QED BY <1>0, <2>1 DEF IInv, Idle, Walks, WalkFrom, WalkInOpenModule, WalkStaysOnList
<1>12. ASSUME NEW u \in Uses, DropUse(u) PROVE IInv'
  <2>1. walk.kind = "idle"
    <3>1. Head(errands) = Drop(u)
      BY <1>12 DEF DropUse
    <3>2. errands # Open
      BY <3>1 DEF Open, Drop
    <3>3. QED BY <1>0, <3>2 DEF WalkInOpenModule
  <2>2. walk' = walk /\ alive' = alive /\ list' = Set(list, u, Null) /\ Null \in Targets
    BY <1>12 DEF DropUse, Targets
  <2>3. Whole(list')
    BY <1>0, <2>2, SetWhole
  <2>4. QED BY <1>0, <2>1, <2>2, <2>3, StillIdle
<1>13. ASSUME NEW v \in Values, DestroyValue(v) PROVE IInv'
  <2>1. walk.kind = "idle"
    <3>1. Head(errands) = Destroy(v)
      BY <1>13 DEF DestroyValue
    <3>2. errands # Open
      BY <3>1 DEF Open, Destroy
    <3>3. QED BY <1>0, <3>2 DEF WalkInOpenModule
  <2>2. walk' = walk /\ list' = list /\ alive' \subseteq Values
    BY <1>0, <1>13 DEF DestroyValue
  <2>3. QED BY <1>0, <2>1, <2>2, StillIdle
<1>14. CASE UNCHANGED vars
  BY <1>0, <1>14 DEF vars, IInv, WalkFrom, WalkInOpenModule, WalkStaysOnList
<1>15. QED
  BY <1>3, <1>4, <1>5, <1>6, <1>7, <1>8, <1>9, <1>10, <1>11, <1>12, <1>13, <1>14
  DEF Next, Client, Visit, Teardown, TeardownValue

-----------------------------------------------------------------------------
(***************************************************************************)
(* The invariant holds in every reachable state.                           *)
(***************************************************************************)
LEMMA SpecIInv == Spec => []IInv
<1>1. Init => IInv
  BY InitIInv
<1>2. IInv /\ [Next]_vars => IInv'
  BY NextIInv
<1>3. QED BY <1>1, <1>2, PTL DEF Spec

(***************************************************************************)
(* The variables keep their types in every module.                         *)
(***************************************************************************)
THEOREM UseTypes == Spec => []TypeOK
<1>1. IInv => TypeOK
  BY DEF IInv, TypeOK, Whole, WellLinked, Targets
<1>2. QED BY <1>1, SpecIInv, PTL

(***************************************************************************)
(* Setting, swapping, replacing and tearing down leave every use list      *)
(* holding exactly the uses of its value, whatever the module.             *)
(***************************************************************************)
THEOREM UseListsWhole == Spec => []ListIntegrity
<1>1. IInv => ListIntegrity
  <2>1. Used = Linkable(list)
    BY DEF Used, Linkable
  <2>2. QED BY <2>1 DEF IInv, ListIntegrity, Whole, WellLinked
<1>2. QED BY <1>1, SpecIInv, PTL

(***************************************************************************)
(* The iterator of ReplaceUsesOutsideBlock never strays from the use list  *)
(* of the old value, however many uses there are.                          *)
(***************************************************************************)
THEOREM WalkKeepsPlace == Spec => []WalkStaysOnList
<1>1. IInv => WalkStaysOnList
  BY DEF IInv
<1>2. QED BY <1>1, SpecIInv, PTL

-----------------------------------------------------------------------------
(***************************************************************************)
(* The errands of the teardown: the operands it resets, and those with the *)
(* values of V it destroys.                                                *)
(***************************************************************************)
DropErrands       == {Drop(u) : u \in Uses}
DestroyErrands(V) == DropErrands \cup {Destroy(v) : v \in V}

(***************************************************************************)
(* A sequence over a set is one over a larger set.                         *)
(***************************************************************************)
LEMMA SeqWider ==
  ASSUME NEW A, NEW B, A \subseteq B, NEW s \in Seq(A)
  PROVE  s \in Seq(B)
<1>1. Len(s) \in Nat /\ \A k \in 1 .. Len(s) : s[k] \in B
  OBVIOUS
<1>2. s = [k \in 1 .. Len(s) |-> s[k]]
  OBVIOUS
<1>3. QED BY <1>1, <1>2

(***************************************************************************)
(* To reset an operand is not to destroy a value.                          *)
(***************************************************************************)
LEMMA DropsDestroyNothing ==
  ASSUME NEW e \in DropErrands, NEW v
  PROVE  e # Destroy(v)
BY DEF DropErrands, Drop, Destroy

(***************************************************************************)
(* A use is an operand of its user, and of no other.                       *)
(***************************************************************************)
LEMMA UserHasUse ==
  ASSUME NEW u \in Uses
  PROVE  UserOf[u] \in Functions \cup Insts /\ u \in Elems(OperandsOf[UserOf[u]])
<1>1. \E v \in Functions \cup Insts : u \in Elems(OperandsOf[v])
  BY UseAssumption
<1>2. UserOf[u] = CHOOSE v \in Functions \cup Insts : u \in Elems(OperandsOf[v])
  BY DEF UserOf
<1>3. QED BY <1>1, <1>2

(***************************************************************************)
(* dropAllReferences of a user resets every operand it has.                *)
(***************************************************************************)
LEMMA DropsAll ==
  ASSUME NEW x \in Functions \cup Insts
  PROVE  /\ Drops(x) \in Seq(DropErrands)
         /\ \A u \in Uses : UserOf[u] = x => Has(Drops(x), Drop(u))
<1>1. OperandsOf[x] \in Seq(Uses)
  BY ListAssumption
<1>2. Drops(x) = [k \in 1 .. Len(OperandsOf[x]) |-> Drop(OperandsOf[x][k])]
  BY <1>1 DEF Drops
<1>3. \A k \in 1 .. Len(OperandsOf[x]) : Drop(OperandsOf[x][k]) \in DropErrands
  BY <1>1 DEF DropErrands
<1>4. Drops(x) \in Seq(DropErrands) /\ Len(Drops(x)) = Len(OperandsOf[x])
  BY <1>1, <1>2, <1>3
<1>5. ASSUME NEW u \in Uses, UserOf[u] = x PROVE Has(Drops(x), Drop(u))
  <2>1. u \in Elems(OperandsOf[x])
    BY <1>5, UserHasUse
  <2>2. PICK k \in 1 .. Len(OperandsOf[x]) : OperandsOf[x][k] = u
    BY <2>1, <1>1 DEF Elems
  <2>3. Drops(x)[k] = Drop(u)
    BY <2>2, <1>2
  <2>4. QED BY <2>2, <2>3, <1>4 DEF Has
<1>6. QED BY <1>4, <1>5

(***************************************************************************)
(* The instructions created in a block are instructions of the block, and  *)
(* all of those that exist.                                                *)
(***************************************************************************)
LEMMA CreatedAll ==
  ASSUME NEW b \in Blocks
  PROVE  /\ Created(b) \in Seq(Elems(InstsOf[b]))
         /\ \A i \in Elems(InstsOf[b]) : i \in alive => Has(Created(b), i)
<1> DEFINE s == InstsOf[b]
           E == Elems(s)
           ss == [k \in DOMAIN s |-> IF s[k] \in alive THEN <<s[k]>> ELSE << >>]
<1>1. s \in Seq(Values)
  BY ListAssumption
<1>2. DOMAIN s = 1 .. Len(s) /\ Len(s) \in Nat /\ E = {s[k] : k \in 1 .. Len(s)}
  BY <1>1 DEF Elems
<1>3. Created(b) = FlattenSeq(ss)
  BY DEF Created, Each
<1>4. ss \in Seq(Seq(E)) /\ Len(ss) = Len(s)
  <2>1. \A k \in 1 .. Len(s) : s[k] \in E
    BY <1>2
  <2> HIDE DEF E
  <2>2. \A k \in 1 .. Len(s) : (IF s[k] \in alive THEN <<s[k]>> ELSE << >>) \in Seq(E)
    BY <2>1
  <2>3. QED BY <1>2, <2>2
<1>5. ASSUME NEW k \in 1 .. Len(s), s[k] \in alive PROVE Has(ss[k], s[k])
  <2>1. ss[k] = <<s[k]>>
    BY <1>2, <1>5
  <2>2. Has(<<s[k]>>, s[k])
    <3>1. 1 \in 1 .. Len(<<s[k]>>) /\ <<s[k]>>[1] = s[k]
      OBVIOUS
    <3>2. QED BY <3>1 DEF Has
  <2>3. QED BY <2>1, <2>2
<1> HIDE DEF ss
<1>6. FlattenSeq(ss) \in Seq(E) /\ MadeOf(FlattenSeq(ss), ss, Len(ss))
  BY <1>4, FlattenMadeOf
<1>7. ASSUME NEW i \in E, i \in alive PROVE Has(Created(b), i)
  <2>1. PICK k \in 1 .. Len(s) : s[k] = i
    BY <1>2
  <2>2. Has(ss[k], i) /\ k \in 1 .. Len(ss)
    BY <1>4, <1>5, <1>7, <2>1
  <2>3. QED BY <1>3, <1>6, <2>2 DEF MadeOf
<1>8. QED BY <1>3, <1>6, <1>7

(***************************************************************************)
(* A block and what it contains are of one function.                       *)
(***************************************************************************)
LEMMA BlockLocals ==
  ASSUME NEW f \in Functions, NEW b \in Elems(BlocksOf[f])
  PROVE  /\ b \in Blocks /\ b \in LocalTo[f]
         /\ Elems(InstsOf[b]) \subseteq InstsIn[f] /\ InstsIn[f] \subseteq LocalTo[f]
         /\ Elems(InstsOf[b]) \subseteq Insts
<1>1. b \in Blocks
  BY DEF Blocks
<1>2. Elems(InstsOf[b]) \subseteq InstsIn[f]
  BY DEF InstsIn
<1>3. InstsIn[f] \subseteq Insts
  BY DEF Insts
<1>4. b \in LocalTo[f] /\ InstsIn[f] \subseteq LocalTo[f]
  BY DEF LocalTo
<1>5. QED BY <1>1, <1>2, <1>3, <1>4

(***************************************************************************)
(* dropAllReferences of a block resets the operands of its instructions.   *)
(***************************************************************************)
LEMMA DropBlockAll ==
  ASSUME NEW b \in Blocks
  PROVE  /\ DropBlock(b) \in Seq(DropErrands)
         /\ \A u \in Uses : UserOf[u] \in Elems(InstsOf[b]) \cap alive => Has(DropBlock(b), Drop(u))
<1> DEFINE c == Created(b)
           ss == [k \in DOMAIN c |-> Drops(c[k])]
<1>1. /\ c \in Seq(Elems(InstsOf[b]))
      /\ \A i \in Elems(InstsOf[b]) : i \in alive => Has(c, i)
  BY CreatedAll
<1>2. Elems(InstsOf[b]) \subseteq Functions \cup Insts
  BY BlockLocals DEF Blocks
<1>3. DropBlock(b) = FlattenSeq(ss)
  BY DEF DropBlock, Each
<1> HIDE DEF c
<1>4. DOMAIN c = 1 .. Len(c) /\ Len(c) \in Nat /\ \A k \in 1 .. Len(c) : c[k] \in Functions \cup Insts
  BY <1>1, <1>2
<1>5. ss \in Seq(Seq(DropErrands)) /\ Len(ss) = Len(c)
  <2>1. \A k \in 1 .. Len(c) : Drops(c[k]) \in Seq(DropErrands)
    BY <1>4, DropsAll
  <2>2. QED BY <1>4, <2>1
<1>6. \A k \in 1 .. Len(c) : ss[k] = Drops(c[k])
  BY <1>4
<1> HIDE DEF ss
<1>7. FlattenSeq(ss) \in Seq(DropErrands) /\ MadeOf(FlattenSeq(ss), ss, Len(ss))
  BY <1>5, FlattenMadeOf
<1>8. ASSUME NEW u \in Uses, UserOf[u] \in Elems(InstsOf[b]) \cap alive
      PROVE  Has(DropBlock(b), Drop(u))
  <2>1. PICK k \in 1 .. Len(c) : c[k] = UserOf[u]
    BY <1>1, <1>8 DEF Has
  <2>2. Has(Drops(c[k]), Drop(u))
    BY <2>1, <1>4, DropsAll
  <2>3. Has(ss[k], Drop(u)) /\ k \in 1 .. Len(ss)
    BY <2>2, <1>5, <1>6
  <2>4. QED BY <2>3, <1>3, <1>7 DEF MadeOf
<1>9. QED BY <1>3, <1>7, <1>8

(***************************************************************************)
(* ~BasicBlock destroys the block and instructions of it, no other value.  *)
(***************************************************************************)
LEMMA DestroyBlockOwn ==
  ASSUME NEW b \in Blocks, NEW V, b \in V, Elems(InstsOf[b]) \subseteq V
  PROVE  DestroyBlock(b) \in Seq(DestroyErrands(V))
<1> DEFINE c == Created(b)
           D == DestroyErrands(V)
           ss == [k \in DOMAIN c |-> DestroyInst(c[k])]
<1>1. DropBlock(b) \in Seq(D)
  BY DropBlockAll, SeqWider DEF DestroyErrands
<1>2. c \in Seq(Elems(InstsOf[b]))
  BY CreatedAll
<1>3. Elems(InstsOf[b]) \subseteq Functions \cup Insts
  BY BlockLocals DEF Blocks
<1>4. DestroyBlock(b) = (DropBlock(b) \o FlattenSeq(ss)) \o <<Destroy(b)>>
  BY DEF DestroyBlock, Each
<1> HIDE DEF c
<1>5. DOMAIN c = 1 .. Len(c) /\ Len(c) \in Nat
  BY <1>2
<1>6. ASSUME NEW k \in 1 .. Len(c) PROVE DestroyInst(c[k]) \in Seq(D)
  <2>1. c[k] \in Functions \cup Insts /\ c[k] \in V
    BY <1>2, <1>3
  <2>2. Drops(c[k]) \in Seq(D)
    BY <2>1, DropsAll, SeqWider DEF DestroyErrands
  <2>3. Destroy(c[k]) \in D
    BY <2>1 DEF DestroyErrands
  <2> HIDE DEF D
  <2>4. QED BY <2>2, <2>3 DEF DestroyInst
<1>7. Destroy(b) \in D
  BY DEF DestroyErrands
<1> HIDE DEF D
<1>8. ss \in Seq(Seq(D))
  BY <1>5, <1>6
<1> HIDE DEF ss
<1>9. FlattenSeq(ss) \in Seq(D)
  BY <1>8, FlattenMadeOf
<1>10. QED BY <1>1, <1>4, <1>7, <1>9 DEF D

(***************************************************************************)
(* Every instruction belongs to a block of its function.                   *)
(***************************************************************************)
LEMMA InstHasBlock ==
  ASSUME NEW f \in Functions, NEW i \in InstsIn[f]
  PROVE  \E n \in 1 .. Len(BlocksOf[f]) : i \in Elems(InstsOf[BlocksOf[f][n]])
<1>1. BlocksOf[f] \in Seq(Values)
  BY ListAssumption
<1>2. PICK b \in Elems(BlocksOf[f]) : i \in Elems(InstsOf[b])
  BY DEF InstsIn
<1>3. PICK n \in DOMAIN BlocksOf[f] : BlocksOf[f][n] = b
  BY DEF Elems
<1>4. DOMAIN BlocksOf[f] = 1 .. Len(BlocksOf[f])
  BY <1>1
<1>5. QED BY <1>2, <1>3, <1>4

(***************************************************************************)
(* dropAllReferences of a function destroys blocks and instructions of the *)
(* function only, after the operands of all its instructions are reset.    *)
(***************************************************************************)
LEMMA DropFunctionInOrder ==
  ASSUME NEW f \in Functions, NEW d, d = DropFunction(f)
  PROVE  /\ d \in Seq(DestroyErrands(LocalTo[f]))
         /\ \A u \in Uses : UserOf[u] \in {f} \cup (InstsIn[f] \cap alive) => Has(d, Drop(u))
         /\ \A k \in 1 .. Len(d) : \A v : d[k] = Destroy(v) =>
              \A u \in Uses : UserOf[u] \in InstsIn[f] \cap alive =>
                \E j \in 1 .. (k - 1) : d[j] = Drop(u)
<1> DEFINE bs == BlocksOf[f]
           D  == DestroyErrands(LocalTo[f])
           xs == [k \in DOMAIN bs |-> DropBlock(bs[k])]
           ys == [k \in DOMAIN bs |-> DestroyBlock(bs[k])]
           X  == FlattenSeq(xs)
           Y  == FlattenSeq(ys)
           Z  == Drops(f)
<1>1. bs \in Seq(Values)
  BY ListAssumption
<1>2. DOMAIN bs = 1 .. Len(bs) /\ Len(bs) \in Nat
  BY <1>1
<1>3. \A k \in 1 .. Len(bs) : bs[k] \in Elems(bs)
  BY <1>2 DEF Elems
<1>4. d = (X \o Y) \o Z
  BY DEF DropFunction, Each
<1>5. xs \in Seq(Seq(DropErrands)) /\ Len(xs) = Len(bs) /\ \A k \in 1 .. Len(bs) : xs[k] = DropBlock(bs[k])
  <2>1. \A k \in 1 .. Len(bs) : DropBlock(bs[k]) \in Seq(DropErrands)
    BY <1>3, BlockLocals, DropBlockAll
  <2>2. QED BY <1>2, <2>1
<1>6. ys \in Seq(Seq(D))
  <2>1. \A k \in 1 .. Len(bs) : DestroyBlock(bs[k]) \in Seq(D)
    <3> SUFFICES ASSUME NEW k \in 1 .. Len(bs) PROVE DestroyBlock(bs[k]) \in Seq(D)
      OBVIOUS
    <3>1. bs[k] \in Blocks /\ bs[k] \in LocalTo[f] /\ Elems(InstsOf[bs[k]]) \subseteq LocalTo[f]
      BY <1>3, BlockLocals
    <3>2. QED BY <3>1, DestroyBlockOwn
  <2> HIDE DEF D
  <2>2. QED BY <1>2, <2>1
<1> HIDE DEF xs, ys
<1>7. X \in Seq(DropErrands) /\ MadeOf(X, xs, Len(bs))
  BY <1>5, FlattenMadeOf
<1>8. Y \in Seq(D)
  <2> HIDE DEF D
  <2>1. QED BY <1>6, FlattenMadeOf
<1>9. Z \in Seq(DropErrands) /\ \A u \in Uses : UserOf[u] = f => Has(Z, Drop(u))
  BY DropsAll
<1>10. ASSUME NEW u \in Uses, UserOf[u] \in InstsIn[f] \cap alive PROVE Has(X, Drop(u))
  <2>1. PICK n \in 1 .. Len(bs) : UserOf[u] \in Elems(InstsOf[bs[n]])
    BY <1>10, InstHasBlock
  <2>2. bs[n] \in Blocks
    BY <1>3, BlockLocals
  <2>3. Has(xs[n], Drop(u))
    BY <2>1, <2>2, <1>5, <1>10, DropBlockAll
  <2>4. QED BY <2>3, <1>7 DEF MadeOf
<1> HIDE DEF X, Y, Z
<1>11. X \in Seq(D) /\ Z \in Seq(D)
  BY <1>7, <1>9, SeqWider DEF DestroyErrands
<1>12. DropErrands \subseteq D
  BY DEF DestroyErrands
<1> HIDE DEF D
<1>13. /\ d \in Seq(D) /\ Len(d) = (Len(X) + Len(Y)) + Len(Z)
       /\ Len(X) \in Nat /\ Len(Y) \in Nat /\ Len(Z) \in Nat
  BY <1>4, <1>8, <1>11
<1>14. \A k \in 1 .. Len(X) : k \in 1 .. Len(d) /\ d[k] = X[k]
  <2>1. \A k \in 1 .. Len(X) : k \in 1 .. Len(X \o Y) /\ (X \o Y)[k] = X[k]
    BY <1>8, <1>11
  <2>2. X \o Y \in Seq(D)
    BY <1>8, <1>11
  <2>3. \A k \in 1 .. Len(X \o Y) : k \in 1 .. Len(d) /\ d[k] = (X \o Y)[k]
    BY <1>4, <1>11, <2>2
  <2>4. QED BY <2>1, <2>3
<1>15. \A k \in 1 .. Len(Z) : Len(X) + Len(Y) + k \in 1 .. Len(d) /\ d[Len(X) + Len(Y) + k] = Z[k]
  <2>1. X \o Y \in Seq(D) /\ Len(X \o Y) = Len(X) + Len(Y)
    BY <1>8, <1>11
  <2>2. \A k \in 1 .. Len(Z) : Len(X \o Y) + k \in 1 .. Len(d) /\ d[Len(X \o Y) + k] = Z[k]
    <3> DEFINE W == X \o Y
    <3>1. d = W \o Z /\ W \in Seq(D)
      BY <1>4, <2>1
    <3> HIDE DEF W
    <3>2. \A k \in 1 .. Len(Z) : Len(W) + k \in 1 .. Len(d) /\ d[Len(W) + k] = Z[k]
      BY ONLY <3>1, <1>11
    <3>3. QED BY <3>2 DEF W
  <2>3. QED BY <2>1, <2>2
<1>16. ASSUME NEW u \in Uses, UserOf[u] \in {f} \cup (InstsIn[f] \cap alive) PROVE Has(d, Drop(u))
  <2>1. CASE UserOf[u] = f
    <3>1. PICK k \in 1 .. Len(Z) : Z[k] = Drop(u)
      BY <1>9, <2>1 DEF Has
    <3>2. QED BY <3>1, <1>15 DEF Has
  <2>2. CASE UserOf[u] # f
    <3>1. PICK k \in 1 .. Len(X) : X[k] = Drop(u)
      BY <1>10, <1>16, <2>2 DEF Has
    <3>2. QED BY <3>1, <1>14 DEF Has
  <2>3. QED BY <2>1, <2>2
<1>17. ASSUME NEW k \in 1 .. Len(d), NEW v, d[k] = Destroy(v),
              NEW u \in Uses, UserOf[u] \in InstsIn[f] \cap alive
       PROVE  \E j \in 1 .. (k - 1) : d[j] = Drop(u)
  <2>1. PICK j \in 1 .. Len(X) : X[j] = Drop(u)
    BY <1>10, <1>17 DEF Has
  <2>2. ~ (k <= Len(X))
    <3> SUFFICES ASSUME k <= Len(X) PROVE FALSE
      OBVIOUS
    <3>1. k \in 1 .. Len(X)
      BY <1>13
    <3>2. d[k] = X[k] /\ X[k] \in DropErrands
      BY <3>1, <1>7, <1>14
    <3>3. QED BY <3>2, <1>17, DropsDestroyNothing
  <2>3. j \in 1 .. (k - 1)
    BY <2>1, <2>2, <1>13
  <2>4. d[j] = Drop(u)
    BY <2>1, <1>14
  <2>5. QED BY <2>3, <2>4
<1>18. QED BY <1>13, <1>16, <1>17 DEF D

(***************************************************************************)
(* ~Function destroys the function and its arguments, and what it resets   *)
(* was reset before.                                                       *)
(***************************************************************************)
LEMMA DestroyFunctionTypes ==
  ASSUME NEW f \in Functions
  PROVE  DestroyFunction(f) \in Seq(DestroyErrands(Values))
<1> DEFINE D == DestroyErrands(Values)
           ds == [n \in DOMAIN ArgsOf[f] |-> Destroy(ArgsOf[f][n])]
<1>1. ArgsOf[f] \in Seq(Values)
  BY ListAssumption
<1>2. \A n \in 1 .. Len(ArgsOf[f]) : Destroy(ArgsOf[f][n]) \in D
  BY <1>1 DEF DestroyErrands
<1>3. Drops(f) \in Seq(D)
  BY DropsAll, SeqWider DEF DestroyErrands
<1>4. Destroy(f) \in D
  BY UseAssumption DEF DestroyErrands, Globals
<1>5. DestroyFunction(f) = (Drops(f) \o ds) \o <<Destroy(f)>>
  BY DEF DestroyFunction
<1> HIDE DEF D
<1>6. ds \in Seq(D)
  BY <1>1, <1>2
<1> HIDE DEF ds
<1>7. DestroyFunction(f) \in Seq(D)
  <2> DEFINE rs == Drops(f)
  <2>1. rs \in Seq(D)
    BY <1>3
  <2>2. DestroyFunction(f) = (rs \o ds) \o <<Destroy(f)>>
    BY <1>5
  <2> HIDE DEF rs
  <2>3. QED BY <1>4, <1>6, <2>1, <2>2
<1>8. QED BY <1>7 DEF D

-----------------------------------------------------------------------------
(* What an operand refers to is in its user's scope.                       *)
InScope == \A u \in Used : list.val[u] \in Globals \cup Locals[UserOf[u]]

(* Nothing is destroyed before the operands that refer to it, and its own, *)
(* are reset.                                                              *)
DropsFirst(e) ==
  \A k \in 1 .. Len(e) : \A v \in Values : e[k] = Destroy(v) =>
    \A u \in Used : list.val[u] = v \/ UserOf[u] = v => \E j \in 1 .. (k - 1) : e[j] = Drop(u)

(***************************************************************************)
(* The user of a local value, or of its operands, is in the same function. *)
(***************************************************************************)
LEMMA UserOfLocal ==
  ASSUME InScope, NEW u \in Used, NEW g \in Functions, NEW v \in LocalTo[g],
         list.val[u] = v \/ UserOf[u] = v
  PROVE  UserOf[u] \in InstsIn[g]
<1> DEFINE x == UserOf[u]
<1>1. x \in Functions \cup Insts
  BY UserHasUse DEF Used
<1>2. v \notin Globals
  BY ParentAssumption
<1>3. \A f \in Functions : InstsIn[f] \subseteq LocalTo[f]
  BY DEF LocalTo
<1>4. CASE x = v
  <2>1. PICK f \in Functions : x \in InstsIn[f]
    BY <1>1, <1>2, <1>4 DEF Globals, Insts
  <2>2. f = g
    BY <1>3, <1>4, <2>1, ParentAssumption
  <2>3. QED BY <2>1, <2>2
<1>5. CASE list.val[u] = v
  <2>1. v \in Locals[x]
    BY <1>2, <1>5 DEF InScope
  <2>2. x \notin Functions
    <3>1. x \in Functions => Locals[x] = {}
      BY DEF Locals
    <3>2. QED BY <2>1, <3>1
  <2>3. Locals[x] = LocalTo[CHOOSE f \in Functions : x \in InstsIn[f]]
    BY <1>1, <2>2 DEF Locals
  <2>4. PICK f : f = CHOOSE h \in Functions : x \in InstsIn[h]
    OBVIOUS
  <2>5. f \in Functions /\ x \in InstsIn[f]
    <3>1. \E h \in Functions : x \in InstsIn[h]
      BY <1>1, <2>2 DEF Insts
    <3>2. QED BY <3>1, <2>4
  <2>6. f = g
    BY <2>1, <2>3, <2>4, <2>5, ParentAssumption
  <2>7. QED BY <2>5, <2>6
<1>6. QED BY <1>4, <1>5

(***************************************************************************)
(* An errand that destroys is one of those named.                          *)
(***************************************************************************)
LEMMA DestroysNamed ==
  ASSUME NEW V, NEW v, Destroy(v) \in DestroyErrands(V)
  PROVE  v \in V
BY DEF DestroyErrands, DropErrands, Drop, Destroy

(***************************************************************************)
(* ~LLVMModule resets every operand that refers to a value, and those of   *)
(* the value, before it destroys the value.                                *)
(***************************************************************************)
LEMMA ModuleDropsFirst ==
  ASSUME InScope, \A u \in Used : UserOf[u] \in alive, NEW e, e = DestroyModule
  PROVE  e \in Seq(DestroyErrands(Values)) /\ DropsFirst(e)
<1> DEFINE fs == FunctionList
           D  == DestroyErrands(Values)
           ps == [k \in DOMAIN fs |-> DropFunction(fs[k])]
           qs == [k \in DOMAIN fs |-> DestroyFunction(fs[k])]
           P  == FlattenSeq(ps)
           Q  == FlattenSeq(qs)
<1>1. DOMAIN fs = 1 .. Len(fs) /\ Len(fs) \in Nat
  BY ListAssumption
<1>2. Functions = {fs[k] : k \in 1 .. Len(fs)}
  BY <1>1 DEF Functions, Elems
<1>3. e = P \o Q
  BY DEF DestroyModule, Each
<1>4. \A f \in Functions : LocalTo[f] \subseteq Values
  BY UseAssumption
<1>5. ps \in Seq(Seq(D)) /\ Len(ps) = Len(fs) /\ \A k \in 1 .. Len(fs) : ps[k] = DropFunction(fs[k])
  <2>1. ASSUME NEW k \in 1 .. Len(fs) PROVE DropFunction(fs[k]) \in Seq(D)
    <3>1. fs[k] \in Functions
      BY <1>2
    <3>2. DropFunction(fs[k]) \in Seq(DestroyErrands(LocalTo[fs[k]]))
      BY <3>1, DropFunctionInOrder
    <3>3. DestroyErrands(LocalTo[fs[k]]) \subseteq D
      BY <1>4, <3>1 DEF DestroyErrands
    <3>4. QED BY <3>2, <3>3, SeqWider
  <2> HIDE DEF D
  <2>2. QED BY <1>1, <2>1
<1>6. qs \in Seq(Seq(D))
  <2>1. \A k \in 1 .. Len(fs) : DestroyFunction(fs[k]) \in Seq(D)
    BY <1>2, DestroyFunctionTypes
  <2> HIDE DEF D
  <2>2. QED BY <1>1, <2>1
<1> HIDE DEF ps, qs, D
<1>7. P \in Seq(D) /\ MadeOf(P, ps, Len(fs))
  BY <1>5, FlattenMadeOf
<1>8. Q \in Seq(D)
  BY <1>6, FlattenMadeOf
<1>9. ASSUME NEW u \in Used PROVE Has(P, Drop(u))
  <2>1. u \in Uses /\ UserOf[u] \in (Functions \cup Insts) \cap alive
    BY UserHasUse DEF Used
  <2>2. PICK f \in Functions : UserOf[u] \in {f} \cup (InstsIn[f] \cap alive)
    BY <2>1 DEF Insts
  <2>3. Has(DropFunction(f), Drop(u))
    BY <2>1, <2>2, DropFunctionInOrder
  <2>4. PICK k \in 1 .. Len(fs) : f = fs[k]
    BY <1>2
  <2>5. Has(ps[k], Drop(u))
    BY <2>3, <2>4, <1>5
  <2>6. QED BY <2>5, <1>7 DEF MadeOf
<1> HIDE DEF P, Q
<1>10. /\ e \in Seq(D) /\ Len(e) = Len(P) + Len(Q) /\ Len(P) \in Nat /\ Len(Q) \in Nat
       /\ \A k \in 1 .. Len(P) : e[k] = P[k]
  BY <1>3, <1>7, <1>8
<1>11. ASSUME NEW k \in 1 .. Len(e), NEW v \in Values, e[k] = Destroy(v),
              NEW u \in Used, list.val[u] = v \/ UserOf[u] = v
       PROVE  \E j \in 1 .. (k - 1) : e[j] = Drop(u)
  <2>1. CASE k <= Len(P)
    <3>1. k \in 1 .. Len(P) /\ P[k] = Destroy(v)
      BY <2>1, <1>10, <1>11
    <3>2. PICK n \in 1 .. Len(fs) : CopyAround(P, k, ps[n])
      BY <3>1, <1>7 DEF MadeOf
    <3> DEFINE g == fs[n]
               d == DropFunction(g)
    <3>3. g \in Functions /\ ps[n] = d
      BY <1>2, <1>5
    <3>4. /\ d \in Seq(DestroyErrands(LocalTo[g]))
          /\ \A i \in 1 .. Len(d) : \A w : d[i] = Destroy(w) =>
               \A x \in Uses : UserOf[x] \in InstsIn[g] \cap alive =>
                 \E j \in 1 .. (i - 1) : d[j] = Drop(x)
      BY <3>3, DropFunctionInOrder
    <3> HIDE DEF d
    <3>5. PICK o \in Nat : /\ k - o \in 1 .. Len(d) /\ o + Len(d) <= Len(P)
                           /\ \A q \in 1 .. Len(d) : P[o + q] = d[q]
      BY <3>2, <3>3 DEF CopyAround
    <3>6. d[k - o] = Destroy(v)
      <4>1. o + (k - o) = k
        BY <3>1
      <4>2. QED BY <3>1, <3>5, <4>1
    <3>7. v \in LocalTo[g]
      <4>1. Destroy(v) \in DestroyErrands(LocalTo[g])
        BY <3>4, <3>5, <3>6
      <4>2. QED BY <4>1, DestroysNamed
    <3>8. u \in Uses /\ UserOf[u] \in InstsIn[g] \cap alive
      <4>1. UserOf[u] \in InstsIn[g]
        <5> HIDE DEF g
        <5>1. QED BY <3>3, <3>7, <1>11, UserOfLocal
      <4>2. QED BY <4>1 DEF Used
    <3>9. PICK j \in 1 .. ((k - o) - 1) : d[j] = Drop(u)
      BY <3>4, <3>5, <3>6, <3>8
    <3>10. Len(d) \in Nat
      BY <3>4
    <3>11. j \in 1 .. Len(d) /\ o + j \in 1 .. (k - 1) /\ o + j \in 1 .. Len(P)
      BY <3>1, <3>5, <3>9, <3>10
    <3>12. e[o + j] = Drop(u)
      BY <3>5, <3>9, <3>11, <1>10
    <3>13. QED BY <3>11, <3>12
  <2>2. CASE ~ (k <= Len(P))
    <3>1. PICK j \in 1 .. Len(P) : P[j] = Drop(u)
      BY <1>9 DEF Has
    <3>2. j \in 1 .. (k - 1) /\ e[j] = Drop(u)
      BY <3>1, <2>2, <1>10
    <3>3. QED BY <3>2
  <2>3. QED BY <2>1, <2>2
<1>12. QED BY <1>10, <1>11 DEF D, DropsFirst

-----------------------------------------------------------------------------
(* A replacement puts a value that exists where it may be referred to.     *)
WalkInScope ==
  walk.kind # "idle" =>
    /\ walk.to \in alive
    /\ \/ walk.to \in Globals
       \/ \E f \in Functions : {walk.from, walk.to} \subseteq LocalTo[f]

TInv ==
  /\ IInv
  /\ NoUseOfDestroyed
  /\ errands = Open => InScope /\ WalkInScope
  /\ errands # Open => errands \in Seq(DestroyErrands(Values)) /\ DropsFirst(errands)

(***************************************************************************)
(* The errands of a teardown are not those of an open module.              *)
(***************************************************************************)
LEMMA ErrandsNotOpen ==
  ASSUME NEW e \in Seq(DestroyErrands(Values))
  PROVE  e # Open
<1>1. Len(Open) = 1 /\ Open[1] = [what |-> "open", which |-> Null]
  BY DEF Open
<1>2. Len(e) = 1 => e[1] \in DestroyErrands(Values)
  OBVIOUS
<1>3. [what |-> "open", which |-> Null] \notin DestroyErrands(Values)
  BY DEF DestroyErrands, DropErrands, Drop, Destroy
<1>4. QED BY <1>1, <1>2, <1>3

(***************************************************************************)
(* While the module is open, what matters is where each operand refers to. *)
(***************************************************************************)
LEMMA StillOpen ==
  ASSUME TInv, errands = Open, errands' = Open, alive \subseteq alive',
         \A u \in Uses : list'.val[u] # Null /\ list'.val[u] # list.val[u] =>
            /\ UserOf[u] \in alive /\ list'.val[u] \in alive
            /\ list'.val[u] \in Globals \cup Locals[UserOf[u]]
  PROVE  NoUseOfDestroyed' /\ InScope'
<1>1. NoUseOfDestroyed /\ InScope
  BY DEF TInv
<1>2. ASSUME NEW u \in Uses, list'.val[u] # Null
      PROVE  /\ UserOf[u] \in alive' /\ list'.val[u] \in alive'
             /\ list'.val[u] \in Globals \cup Locals[UserOf[u]]
  <2>1. CASE list'.val[u] = list.val[u]
    BY <1>1, <1>2, <2>1 DEF NoUseOfDestroyed, InScope, Used
  <2>2. CASE list'.val[u] # list.val[u]
    BY <1>2, <2>2
  <2>3. QED BY <2>1, <2>2
<1>3. QED BY <1>2 DEF NoUseOfDestroyed, InScope, Used

(***************************************************************************)
(* The old value of a replacement is in scope of a use; so is the new one. *)
(***************************************************************************)
LEMMA ReplacementInScope ==
  ASSUME TInv, walk.kind # "idle", NEW u \in Uses, list.val[u] = walk.from, walk.from # Null
  PROVE  /\ UserOf[u] \in alive /\ walk.to \in alive
         /\ walk.to \in Globals \cup Locals[UserOf[u]]
<1>1. errands = Open
  BY DEF TInv, IInv, WalkInOpenModule
<1>2. InScope /\ WalkInScope /\ NoUseOfDestroyed
  BY <1>1 DEF TInv
<1>3. u \in Used
  BY DEF Used
<1>4. UserOf[u] \in alive /\ walk.to \in alive
  BY <1>2, <1>3 DEF NoUseOfDestroyed, WalkInScope
<1>5. CASE walk.to \in Globals
  BY <1>4, <1>5
<1>6. CASE \E f \in Functions : {walk.from, walk.to} \subseteq LocalTo[f]
  <2>1. PICK f \in Functions : {walk.from, walk.to} \subseteq LocalTo[f]
    BY <1>6
  <2>2. UserOf[u] \in InstsIn[f]
    <3>1. walk.from \in LocalTo[f]
      BY <2>1
    <3>2. QED BY <1>2, <1>3, <3>1, UserOfLocal
  <2>3. UserOf[u] \in Insts /\ UserOf[u] \notin Functions
    <3>1. UserOf[u] \in LocalTo[f]
      BY <2>2 DEF LocalTo
    <3>2. UserOf[u] \notin Globals
      BY <3>1, ParentAssumption
    <3>3. QED BY <2>2, <3>2 DEF Insts, Globals
  <2>4. Locals[UserOf[u]] = LocalTo[CHOOSE h \in Functions : UserOf[u] \in InstsIn[h]]
    BY <2>3 DEF Locals
  <2>5. PICK g : g = CHOOSE h \in Functions : UserOf[u] \in InstsIn[h]
    OBVIOUS
  <2>6. g \in Functions /\ UserOf[u] \in InstsIn[g]
    BY <2>2, <2>5
  <2>7. g = f
    <3>1. UserOf[u] \in LocalTo[g] /\ UserOf[u] \in LocalTo[f]
      BY <2>2, <2>6 DEF LocalTo
    <3>2. QED BY <2>6, <3>1, ParentAssumption
  <2>8. QED BY <1>4, <2>1, <2>4, <2>5, <2>7
<1>7. QED BY <1>2, <1>5, <1>6 DEF WalkInScope

(***************************************************************************)
(* Once an operand is reset, it need not be reset again.                   *)
(***************************************************************************)
LEMMA DropUseKeeps ==
  ASSUME TInv, NEW u \in Uses, DropUse(u)
  PROVE  NoUseOfDestroyed' /\ errands' \in Seq(DestroyErrands(Values)) /\ DropsFirst(errands)'
<1> DEFINE D == DestroyErrands(Values)
<1>1. errands # <<>> /\ Head(errands) = Drop(u) /\ errands' = Tail(errands) /\ alive' = alive
  BY DEF DropUse
<1>2. errands # Open
  BY <1>1 DEF Open, Drop
<1>3. errands \in Seq(D) /\ DropsFirst(errands) /\ NoUseOfDestroyed /\ Whole(list)
  BY <1>2 DEF TInv, IInv
<1>4. list'.val = [list.val EXCEPT ![u] = Null]
  <2>1. list' = Set(list, u, Null) /\ Null \in Targets
    BY DEF DropUse, Targets
  <2>2. QED BY <1>3, <2>1, SetWhole
<1>5. list.val \in [Uses -> Targets]
  BY <1>3 DEF Whole, WellLinked, Lists, Uses
<1>6. \A x \in Used' : x \in Used /\ x # u /\ list'.val[x] = list.val[x]
  BY <1>4, <1>5 DEF Used
<1>7. NoUseOfDestroyed'
  BY <1>1, <1>3, <1>6 DEF NoUseOfDestroyed
<1> HIDE DEF D
<1>8. /\ errands' \in Seq(D) /\ Len(errands') = Len(errands) - 1 /\ Len(errands) \in Nat \ {0}
      /\ errands[1] = Drop(u) /\ \A k \in 1 .. Len(errands') : errands'[k] = errands[k + 1]
  BY <1>1, <1>3
<1>9. ASSUME NEW k \in 1 .. Len(errands'), NEW v \in Values, errands'[k] = Destroy(v),
             NEW x \in Used', list'.val[x] = v \/ UserOf[x] = v
      PROVE  \E j \in 1 .. (k - 1) : errands'[j] = Drop(x)
  <2>1. k + 1 \in 1 .. Len(errands) /\ errands[k + 1] = Destroy(v)
    BY <1>8, <1>9
  <2>2. PICK j \in 1 .. ((k + 1) - 1) : errands[j] = Drop(x)
    BY <1>3, <1>6, <1>9, <2>1 DEF DropsFirst
  <2>3. j # 1
    BY <1>6, <1>8, <2>2 DEF Drop
  <2>4. j - 1 \in 1 .. (k - 1) /\ j - 1 \in 1 .. Len(errands')
    BY <1>8, <2>2, <2>3
  <2>5. errands'[j - 1] = Drop(x)
    BY <1>8, <2>2, <2>4
  <2>6. QED BY <2>4, <2>5
<1>10. DropsFirst(errands)'
  BY <1>9 DEF DropsFirst
<1>11. QED BY <1>7, <1>8, <1>10 DEF D

(***************************************************************************)
(* When a value's turn comes, nothing refers to it any more.               *)
(***************************************************************************)
LEMMA DestroyValueKeeps ==
  ASSUME TInv, NEW v0 \in Values, DestroyValue(v0)
  PROVE  NoUseOfDestroyed' /\ errands' \in Seq(DestroyErrands(Values)) /\ DropsFirst(errands)'
<1> DEFINE D == DestroyErrands(Values)
<1>1. /\ errands # <<>> /\ Head(errands) = Destroy(v0) /\ errands' = Tail(errands)
      /\ alive' = alive \ {v0} /\ list' = list
  BY DEF DestroyValue
<1>2. errands # Open
  BY <1>1 DEF Open, Destroy
<1>3. errands \in Seq(D) /\ DropsFirst(errands) /\ NoUseOfDestroyed
  BY <1>2 DEF TInv
<1> HIDE DEF D
<1>4. /\ errands' \in Seq(D) /\ Len(errands') = Len(errands) - 1 /\ Len(errands) \in Nat \ {0}
      /\ errands[1] = Destroy(v0) /\ \A k \in 1 .. Len(errands') : errands'[k] = errands[k + 1]
  BY <1>1, <1>3
<1>5. \A x \in Used : list.val[x] # v0 /\ UserOf[x] # v0
  <2>1. 1 \in 1 .. Len(errands) /\ ~ \E j \in 1 .. (1 - 1) : TRUE
    BY <1>4
  <2>2. QED BY <1>3, <1>4, <2>1 DEF DropsFirst
<1>6. Used' = Used
  BY <1>1 DEF Used
<1>7. NoUseOfDestroyed'
  BY <1>1, <1>3, <1>5, <1>6 DEF NoUseOfDestroyed
<1>8. ASSUME NEW k \in 1 .. Len(errands'), NEW v \in Values, errands'[k] = Destroy(v),
             NEW x \in Used', list'.val[x] = v \/ UserOf[x] = v
      PROVE  \E j \in 1 .. (k - 1) : errands'[j] = Drop(x)
  <2>1. k + 1 \in 1 .. Len(errands) /\ errands[k + 1] = Destroy(v)
    BY <1>4, <1>8
  <2>2. PICK j \in 1 .. ((k + 1) - 1) : errands[j] = Drop(x)
    BY <1>1, <1>3, <1>6, <1>8, <2>1 DEF DropsFirst
  <2>3. j # 1
    BY <1>4, <2>2 DEF Drop, Destroy
  <2>4. j - 1 \in 1 .. (k - 1) /\ j - 1 \in 1 .. Len(errands')
    BY <1>4, <2>2, <2>3
  <2>5. errands'[j - 1] = Drop(x)
    BY <1>4, <2>2, <2>4
  <2>6. QED BY <2>4, <2>5
<1>9. DropsFirst(errands)'
  BY <1>8 DEF DropsFirst
<1>10. QED BY <1>4, <1>7, <1>9 DEF D

(***************************************************************************)
(* An empty module has no operand that refers to anything.                 *)
(***************************************************************************)
LEMMA InitTInv == Init => TInv
<1> SUFFICES ASSUME Init PROVE TInv
  OBVIOUS
<1>1. IInv
  BY InitIInv
<1>2. Used = {} /\ walk.kind = "idle" /\ errands = Open
  BY DEF Init, Used, Idle
<1>3. QED BY <1>1, <1>2 DEF TInv, NoUseOfDestroyed, InScope, WalkInScope

(***************************************************************************)
(* Every operation, visit and errand keeps what the teardown relies on.    *)
(***************************************************************************)
LEMMA NextTInv == TInv /\ [Next]_vars => TInv'
<1> SUFFICES ASSUME TInv, [Next]_vars PROVE TInv'
  OBVIOUS
<1>0. /\ IInv /\ IInv' /\ NoUseOfDestroyed
      /\ Whole(list) /\ list.val \in [Uses -> Targets]
      /\ list.head \in [Values -> Uses \cup {Null}]
  BY NextIInv DEF TInv, IInv, Whole, WellLinked, Lists, Uses, Values
<1>1. InClient => walk.kind = "idle" /\ errands = Open
  BY DEF InClient, Idle
<1>2. walk.kind # "idle" => errands = Open /\ WalkInScope
  BY <1>0 DEF TInv, IInv, WalkInOpenModule
<1>3. ASSUME errands' = Open, NoUseOfDestroyed', InScope', WalkInScope' PROVE TInv'
  BY <1>0, <1>3 DEF TInv
<1>4. ASSUME errands # Open, walk' = walk, NoUseOfDestroyed',
             errands' \in Seq(DestroyErrands(Values)), DropsFirst(errands)'
      PROVE  TInv'
  <2>1. errands' # Open
    BY <1>4, ErrandsNotOpen
  <2>2. QED BY <1>0, <1>4, <2>1 DEF TInv
<1>5. ASSUME NEW b \in Blocks, NEW k \in DOMAIN InstsOf[b], CreateInst(b, k) PROVE TInv'
  <2>1. /\ errands = Open /\ errands' = Open /\ alive \subseteq alive' /\ list' = list
        /\ walk'.kind = "idle"
    BY <1>1, <1>5 DEF CreateInst
  <2>2. NoUseOfDestroyed' /\ InScope'
    BY <2>1, StillOpen
  <2>3. QED BY <1>3, <2>1, <2>2 DEF WalkInScope
<1>6. ASSUME NEW u \in Uses, NEW v \in Values \cup {Null}, SetOperand(u, v) PROVE TInv'
  <2>1. /\ errands = Open /\ errands' = Open /\ alive' = alive /\ list' = Set(list, u, v)
        /\ walk'.kind = "idle" /\ MayRefer(u, v)
    BY <1>1, <1>6 DEF SetOperand
  <2>2. list'.val = [list.val EXCEPT ![u] = v]
    <3>1. v \in Targets
      BY DEF Targets
    <3>2. QED BY <1>0, <2>1, <3>1, SetWhole
  <2>3. NoUseOfDestroyed' /\ InScope'
    <3>1. \A x \in Uses : list'.val[x] # Null /\ list'.val[x] # list.val[x] =>
             /\ UserOf[x] \in alive /\ list'.val[x] \in alive
             /\ list'.val[x] \in Globals \cup Locals[UserOf[x]]
      BY <1>0, <2>1, <2>2 DEF MayRefer
    <3>2. QED BY <2>1, <3>1, StillOpen
  <2>4. QED BY <1>3, <2>1, <2>3 DEF WalkInScope
<1>7. ASSUME NEW u \in Uses, NEW w \in Uses, SwapOperands(u, w) PROVE TInv'
  <2>1. /\ errands = Open /\ errands' = Open /\ alive' = alive /\ list' = Swap(list, u, w)
        /\ walk'.kind = "idle" /\ MayRefer(u, list.val[w]) /\ MayRefer(w, list.val[u])
    BY <1>1, <1>7 DEF SwapOperands
  <2>2. list'.val = [list.val EXCEPT ![u] = list.val[w], ![w] = list.val[u]]
    BY <1>0, <2>1, SwapWhole
  <2>3. NoUseOfDestroyed' /\ InScope'
    <3>1. ASSUME NEW x \in Uses, list'.val[x] # Null, list'.val[x] # list.val[x]
          PROVE  /\ UserOf[x] \in alive /\ list'.val[x] \in alive
                 /\ list'.val[x] \in Globals \cup Locals[UserOf[x]]
      <4>1. \/ x = w /\ list'.val[x] = list.val[u]
            \/ x = u /\ list'.val[x] = list.val[w]
        BY <1>0, <2>2, <3>1
      <4>2. QED BY <2>1, <3>1, <4>1 DEF MayRefer
    <3>2. QED BY <2>1, <3>1, StillOpen
  <2>4. QED BY <1>3, <2>1, <2>3 DEF WalkInScope
<1>8. ASSUME NEW v \in Values, NEW w \in Values,
             \/ ReplaceAllUsesWith(v, w)
             \/ \E b \in Blocks : ReplaceUsesOutsideBlock(v, w, b)
      PROVE  TInv'
  <2>1. /\ errands = Open /\ errands' = Open /\ alive' = alive /\ list' = list
        /\ walk'.from = v /\ walk'.to = w /\ MayReplace(v, w)
    BY <1>1, <1>8 DEF ReplaceAllUsesWith, ReplaceUsesOutsideBlock
  <2>2. NoUseOfDestroyed' /\ InScope'
    BY <2>1, StillOpen
  <2>3. WalkInScope'
    BY <2>1 DEF MayReplace, WalkInScope
  <2>4. QED BY <1>3, <2>1, <2>2, <2>3
<1>9. ASSUME LetGoOfModule PROVE TInv'
  <2>1. /\ errands = Open /\ errands' = DestroyModule /\ list' = list /\ alive' = alive
        /\ walk' = walk
    BY <1>1, <1>9 DEF LetGoOfModule
  <2>2. InScope /\ \A u \in Used : UserOf[u] \in alive
    BY <1>0, <2>1 DEF TInv, NoUseOfDestroyed
  <2>3. PICK e : e = DestroyModule
    OBVIOUS
  <2>4. e \in Seq(DestroyErrands(Values)) /\ DropsFirst(e)
    BY <2>2, <2>3, ModuleDropsFirst
  <2>5. e # Open
    BY <2>4, ErrandsNotOpen
  <2>6. Used' = Used /\ errands' = e
    BY <2>1, <2>3 DEF Used
  <2>7. DropsFirst(errands)' /\ NoUseOfDestroyed'
    BY <1>0, <2>1, <2>4, <2>6 DEF DropsFirst, NoUseOfDestroyed
  <2>8. QED BY <1>0, <2>4, <2>5, <2>6, <2>7 DEF TInv
<1>10. ASSUME NEW u \in Uses, walk.kind # "idle", list.val[u] = walk.from,
              list' = list \/ list' = Set(list, u, walk.to),
              alive' = alive, errands' = errands,
              walk'.kind = "idle" \/ (walk'.from = walk.from /\ walk'.to = walk.to)
       PROVE  TInv'
  <2>1. walk.from # Null /\ walk.to \in Targets
    BY <1>0, <1>10, NullAssumption DEF IInv, WalkFrom, Walks, Targets, Values
  <2>2. list' = list \/ list'.val = [list.val EXCEPT ![u] = walk.to]
    BY <1>0, <1>10, <2>1, SetWhole
  <2>3. /\ UserOf[u] \in alive /\ walk.to \in alive
        /\ walk.to \in Globals \cup Locals[UserOf[u]]
    BY <1>10, <2>1, ReplacementInScope
  <2>4. errands = Open /\ WalkInScope
    BY <1>2, <1>10
  <2>5. NoUseOfDestroyed' /\ InScope'
    <3>1. \A x \in Uses : list'.val[x] # Null /\ list'.val[x] # list.val[x] =>
             /\ UserOf[x] \in alive /\ list'.val[x] \in alive
             /\ list'.val[x] \in Globals \cup Locals[UserOf[x]]
      BY <1>0, <2>2, <2>3
    <3>2. QED BY <1>10, <2>4, <3>1, StillOpen
  <2>6. WalkInScope'
    BY <1>10, <2>4 DEF WalkInScope
  <2>7. QED BY <1>3, <1>10, <2>4, <2>5, <2>6
<1>11. ASSUME NEW answer \in Answers, ReplaceNext(answer) PROVE TInv'
  <2> DEFINE u == list.head[walk.from]
  <2>1. walk.kind = "all" /\ u # Null /\ alive' = alive /\ errands' = errands
    BY <1>11 DEF ReplaceNext
  <2>2. walk.from \in Values
    BY <1>0, <2>1 DEF IInv, WalkFrom
  <2>3. u \in Uses /\ list.val[u] = walk.from
    BY <1>0, <2>1, <2>2 DEF Whole, WellLinked, Linked, HeadLinked, Values
  <2>4. \/ walk' = Idle /\ list' = list
        \/ list' = Set(list, u, walk.to) /\ walk' = walk
    BY <1>11 DEF ReplaceNext
  <2> HIDE DEF u
  <2>5. QED BY <1>10, <2>1, <2>3, <2>4 DEF Idle
<1>12. ASSUME NEW answer \in Answers, OutsideNext(answer) PROVE TInv'
  <2> DEFINE u == walk.at
  <2>1. walk.kind = "outside" /\ u # Null /\ alive' = alive /\ errands' = errands
    BY <1>12 DEF OutsideNext
  <2>2. walk' = [walk EXCEPT !.at = list.next[u]]
    BY <1>12 DEF OutsideNext, Advance
  <2>3. u \in Uses /\ list.val[u] = walk.from
    BY <1>0, <2>1 DEF IInv, Walks, WalkStaysOnList
  <2>4. list' = list \/ list' = Set(list, u, walk.to)
    BY <1>12 DEF OutsideNext
  <2>5. walk'.from = walk.from /\ walk'.to = walk.to
    BY <1>0, <2>2 DEF IInv, Walks
  <2> HIDE DEF u
  <2>6. QED BY <1>10, <2>1, <2>3, <2>4, <2>5
<1>13. ASSUME ReplaceDone \/ OutsideDone PROVE TInv'
  <2>1. /\ walk.kind # "idle" /\ walk'.kind = "idle" /\ list' = list /\ alive' = alive
        /\ errands' = errands
    BY <1>13 DEF ReplaceDone, OutsideDone, Idle
  <2>2. errands = Open /\ errands' = Open
    BY <1>2, <2>1
  <2>3. NoUseOfDestroyed' /\ InScope'
    BY <2>1, <2>2, StillOpen
  <2>4. QED BY <1>3, <2>1, <2>2, <2>3 DEF WalkInScope
<1>14. ASSUME NEW u \in Uses, DropUse(u) PROVE TInv'
  <2>1. errands # Open /\ walk' = walk
    BY <1>14 DEF DropUse, Open, Drop
  <2>2. QED BY <1>4, <1>14, <2>1, DropUseKeeps
<1>15. ASSUME NEW v \in Values, DestroyValue(v) PROVE TInv'
  <2>1. errands # Open /\ walk' = walk
    BY <1>15 DEF DestroyValue, Open, Destroy
  <2>2. QED BY <1>4, <1>15, <2>1, DestroyValueKeeps
<1>16. CASE UNCHANGED vars
  BY <1>0, <1>16
  DEF vars, TInv, NoUseOfDestroyed, Used, InScope, WalkInScope, DropsFirst
<1>17. QED
  BY <1>5, <1>6, <1>7, <1>8, <1>9, <1>11, <1>12, <1>13, <1>14, <1>15, <1>16
  DEF Next, Client, Visit, Teardown, TeardownValue

(***************************************************************************)
(* However operands were set, swapped and replaced, and in whatever order  *)
(* functions, blocks and instructions refer to each other, ~LLVMModule     *)
(* never destroys a value that is still used, nor a user before its uses.  *)
(***************************************************************************)
THEOREM NothingDestroyedInUse == Spec => []NoUseOfDestroyed
<1>1. Init => TInv
  BY InitTInv
<1>2. TInv /\ [Next]_vars => TInv'
  BY NextTInv
<1>3. TInv => NoUseOfDestroyed
  BY DEF TInv
<1>4. QED BY <1>1, <1>2, <1>3, PTL DEF Spec
=============================================================================
