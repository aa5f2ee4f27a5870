------------------------- MODULE IntrusiveListProofs -------------------------
(***************************************************************************)
(* What the list surgery of IntrusiveList preserves, for any nodes and     *)
(* values.  The components that keep such lists cite these lemmas.         *)
(***************************************************************************)
EXTENDS IntrusiveList, TLAPS

(***************************************************************************)
(* Addresses of distinct pointers are distinct.                            *)
(***************************************************************************)
LEMMA LocationFacts ==
  ASSUME NEW a, NEW b
  PROVE  /\ HeadOf(a) # NextOf(b)
         /\ HeadOf(a) = HeadOf(b) => a = b
         /\ NextOf(a) = NextOf(b) => a = b
         /\ HeadOf(a)[1] = "head" /\ HeadOf(a)[2] = a
         /\ NextOf(a)[1] = "next" /\ NextOf(a)[2] = a
BY DEF HeadOf, NextOf

(***************************************************************************)
(* Insertion at a list head, field by field.                               *)
(***************************************************************************)
InsertedAtHead(L, v, n, R) ==
  /\ R.val = L.val
  /\ R.head = [L.head EXCEPT ![v] = n]
  /\ R.next = [L.next EXCEPT ![n] = L.head[v]]
  /\ R.prev = [m \in Nodes |-> IF m = n THEN HeadOf(v)
                               ELSE IF m = L.head[v] THEN NextOf(n)
                               ELSE L.prev[m]]

(* The fields of a list after Insert at a head.                            *)
LEMMA InsertAtHeadFields ==
  ASSUME NEW Vals, NEW L \in Lists(Vals), NEW v \in Owners, NEW n \in Nodes,
         NEW R, R = Insert(L, HeadOf(v), n), L.head[v] # n
  PROVE  R \in Lists(Vals) /\ InsertedAtHead(L, v, n, R)
<1> USE DEF InsertedAtHead
<1>1. Deref(L, HeadOf(v)) = L.head[v]
  BY LocationFacts DEF Deref
<1>2. HeadOf(v) \in Locations /\ NextOf(n) \in Locations
  BY DEF Locations
<1> DEFINE L2 == SetHead(SetPrev(SetNext(L, n, L.head[v]), n, HeadOf(v)), v, n)
<1>4. R = FixPrev(L2, L.head[v], NextOf(n))
  BY <1>1, LocationFacts DEF Insert, Store
<1>5. /\ L2.val = L.val
      /\ L2.head = [L.head EXCEPT ![v] = n]
      /\ L2.next = [L.next EXCEPT ![n] = L.head[v]]
      /\ L2.prev = [L.prev EXCEPT ![n] = HeadOf(v)]
      /\ L2 = [val |-> L2.val, prev |-> L2.prev, next |-> L2.next, head |-> L2.head]
  BY DEF SetHead, SetPrev, SetNext
<1>6. L2 \in Lists(Vals)
  BY <1>5, <1>2 DEF Lists
<1> HIDE DEF L2
<1>7. L.head[v] \in Nodes \cup {Null}
  BY DEF Lists
<1>8. CASE L.head[v] = Null
  BY <1>8, <1>4, <1>5, <1>6, NullAssumption DEF FixPrev, Lists
<1>9. CASE L.head[v] \in Nodes
  <2>1. R = SetPrev(L2, L.head[v], NextOf(n))
    BY <1>9, <1>4, NullAssumption DEF FixPrev
  <2>3. QED BY <2>1, <1>5, <1>6, <1>9, <1>2 DEF Lists, SetPrev
<1>10. QED BY <1>7, <1>8, <1>9

(***************************************************************************)
(* Insertion after the node k, field by field.                             *)
(***************************************************************************)
InsertedAfter(L, k, n, R) ==
  /\ R.val = L.val
  /\ R.head = L.head
  /\ R.next = [L.next EXCEPT ![n] = L.next[k], ![k] = n]
  /\ R.prev = [m \in Nodes |-> IF m = n THEN NextOf(k)
                               ELSE IF m = L.next[k] THEN NextOf(n)
                               ELSE L.prev[m]]

(* The fields of a list after InsertAfter.                                 *)
LEMMA InsertAfterFields ==
  ASSUME NEW Vals, NEW L \in Lists(Vals), NEW k \in Nodes, NEW n \in Nodes, n # k,
         NEW R, R = InsertAfter(L, k, n), L.next[k] # n
  PROVE  R \in Lists(Vals) /\ InsertedAfter(L, k, n, R)
<1> USE DEF InsertedAfter
<1>1. Deref(L, NextOf(k)) = L.next[k]
  BY LocationFacts DEF Deref
<1>2. NextOf(k) \in Locations /\ NextOf(n) \in Locations
  BY DEF Locations
<1> DEFINE L2 == SetNext(SetPrev(SetNext(L, n, L.next[k]), n, NextOf(k)), k, n)
<1>4. R = FixPrev(L2, L.next[k], NextOf(n))
  BY <1>1, LocationFacts DEF Insert, InsertAfter, Store
<1>5. /\ L2.val = L.val
      /\ L2.head = L.head
      /\ L2.next = [L.next EXCEPT ![n] = L.next[k], ![k] = n]
      /\ L2.prev = [L.prev EXCEPT ![n] = NextOf(k)]
      /\ L2 = [val |-> L2.val, prev |-> L2.prev, next |-> L2.next, head |-> L2.head]
  BY DEF SetPrev, SetNext
<1>6. L2 \in Lists(Vals)
  BY <1>5, <1>2 DEF Lists
<1> HIDE DEF L2
<1>7. L.next[k] \in Nodes \cup {Null}
  BY DEF Lists
<1>8. CASE L.next[k] = Null
  BY <1>8, <1>4, <1>5, <1>6, NullAssumption DEF FixPrev, Lists
<1>9. CASE L.next[k] \in Nodes
  <2>1. R = SetPrev(L2, L.next[k], NextOf(n))
    BY <1>9, <1>4, NullAssumption DEF FixPrev
  <2>3. QED BY <2>1, <1>5, <1>6, <1>9, <1>2 DEF Lists, SetPrev
<1>10. QED BY <1>7, <1>8, <1>9

(***************************************************************************)
(* Unlinking, field by field: the node may hang on a head or on a node.    *)
(***************************************************************************)
Unlinked(L, n, R) ==
  /\ R.val = L.val
  /\ \A v \in Owners : L.prev[n] = HeadOf(v) =>
       /\ R.head = [L.head EXCEPT ![v] = L.next[n]]
       /\ R.next = L.next
  /\ \A k \in Nodes : L.prev[n] = NextOf(k) =>
       /\ R.head = L.head
       /\ R.next = [L.next EXCEPT ![k] = L.next[n]]
  /\ R.prev = [m \in Nodes |-> IF m = L.next[n] THEN L.prev[n] ELSE L.prev[m]]

(* The fields of a list after Unlink.                                      *)
LEMMA UnlinkFields ==
  ASSUME NEW Vals, NEW L \in Lists(Vals), NEW n \in Nodes,
         NEW R, R = Unlink(L, n), L.prev[n] \in Locations
  PROVE  R \in Lists(Vals) /\ Unlinked(L, n, R)
<1> USE DEF Unlinked
<1> DEFINE L1 == Store(L, L.prev[n], L.next[n])
<1>1. L.next[n] \in Nodes \cup {Null}
  BY DEF Lists
<1>2. /\ L1 \in Lists(Vals) /\ L1.val = L.val /\ L1.prev = L.prev
      /\ \A v \in Owners : L.prev[n] = HeadOf(v) =>
              /\ L1.head = [L.head EXCEPT ![v] = L.next[n]]
              /\ L1.next = L.next
      /\ \A k \in Nodes : L.prev[n] = NextOf(k) =>
              /\ L1.head = L.head
              /\ L1.next = [L.next EXCEPT ![k] = L.next[n]]
  <2>1. CASE \E v \in Owners : L.prev[n] = HeadOf(v)
    <3>1. PICK v \in Owners : L.prev[n] = HeadOf(v)
      BY <2>1
    <3>2. L1 = SetHead(L, v, L.next[n])
      BY <3>1, LocationFacts DEF Store
    <3>3. QED BY <3>1, <3>2, <1>1, LocationFacts DEF SetHead, Lists
  <2>2. CASE \E k \in Nodes : L.prev[n] = NextOf(k)
    <3>1. PICK k \in Nodes : L.prev[n] = NextOf(k)
      BY <2>2
    <3>2. L1 = SetNext(L, k, L.next[n])
      BY <3>1, LocationFacts DEF Store
    <3>3. QED BY <3>1, <3>2, <1>1, LocationFacts DEF SetNext, Lists
  <2>3. QED BY <2>1, <2>2 DEF Locations
<1>3. R = FixPrev(L1, L.next[n], L.prev[n])
  BY DEF Unlink
<1> HIDE DEF L1
<1>4. CASE L.next[n] = Null
  BY <1>4, <1>2, <1>3, NullAssumption DEF FixPrev, Lists
<1>5. CASE L.next[n] \in Nodes
  <2>1. R = SetPrev(L1, L.next[n], L.prev[n])
    BY <1>5, <1>3, NullAssumption DEF FixPrev
  <2>2. QED BY <2>1, <1>2, <1>5 DEF SetPrev, Lists
<1>6. QED BY <1>1, <1>4, <1>5

-----------------------------------------------------------------------------
(* A list state in which exactly the nodes of M are linked.                *)
WellLinked(L, M, Vals) == L \in Lists(Vals) /\ Linked(L, M) /\ Anchored(L, M)

(***************************************************************************)
(* A value with a linked node has a list head: the argument that a value   *)
(* whose list is empty is not referred to.                                 *)
(***************************************************************************)
LEMMA LinkedHasHead ==
  ASSUME NEW L, NEW M, NEW Vals, WellLinked(L, M, Vals), NEW n \in M
  PROVE  L.head[L.val[n]] # Null
<1> SUFFICES ASSUME L.head[L.val[n]] = Null PROVE FALSE
  OBVIOUS
<1> USE DEF WellLinked
<1> DEFINE S == {m \in M : L.val[m] = L.val[n]}
<1>1. PICK m \in S : \A j \in S : L.prev[m] # NextOf(j)
  <2>1. S \in SUBSET M /\ n \in S
    OBVIOUS
  <2>2. QED BY <2>1 DEF Anchored
<1>2. NodeLinked(L, M, m) /\ m # Null
  BY <1>1, NullAssumption DEF Linked
<1>3. PICK j \in M : L.prev[m] = NextOf(j) /\ L.next[j] = m
  BY <1>1, <1>2 DEF NodeLinked
<1>4. L.val[j] = L.val[n]
  BY <1>1, <1>2, <1>3 DEF Linked, NodeLinked
<1>5. QED BY <1>1, <1>3, <1>4

(***************************************************************************)
(* Linking a node, at the head of its value's list or after a node of it,  *)
(* keeps every pointer paired with its converse and makes no ring.         *)
(***************************************************************************)
LEMMA InsertAtHeadLinked ==
  ASSUME NEW Vals, NEW L, NEW M, WellLinked(L, M, Vals), NEW n \in Nodes, n \notin M,
         NEW v0 \in Owners, L.val[n] = v0,
         NEW R, R = Insert(L, HeadOf(v0), n)
  PROVE  /\ WellLinked(R, M \cup {n}, Vals) /\ R.val = L.val
         /\ R.head = [L.head EXCEPT ![v0] = n] /\ R.next[n] = L.head[v0]
<1> USE DEF WellLinked
<1> DEFINE N == M \cup {n}
<1>1. L.head[v0] # n
  BY NullAssumption DEF Linked, HeadLinked
<1>2. /\ R \in Lists(Vals)
      /\ R.val = L.val
      /\ R.head = [L.head EXCEPT ![v0] = n]
      /\ R.next = [L.next EXCEPT ![n] = L.head[v0]]
      /\ R.prev = [m \in Nodes |-> IF m = n THEN HeadOf(v0)
                                   ELSE IF m = L.head[v0] THEN NextOf(n)
                                   ELSE L.prev[m]]
  <2>1. R \in Lists(Vals) /\ InsertedAtHead(L, v0, n, R)
    BY <1>1, InsertAtHeadFields
  <2>2. QED BY <2>1 DEF InsertedAtHead
<1>3. M \subseteq Nodes /\ N \subseteq Nodes
  BY DEF Linked
<1>4. \A v \in Owners : HeadLinked(R, N, v)
  <2> TAKE v \in Owners
  <2>1. HeadLinked(L, M, v)
    BY DEF Linked
  <2>2. CASE v = v0
    BY <2>2, <1>2 DEF HeadLinked, Lists
  <2>3. CASE v # v0
    BY <2>1, <2>3, <1>2, <1>3, NullAssumption, LocationFacts DEF HeadLinked, Lists, Linked
  <2>4. QED BY <2>2, <2>3
<1>5. \A m \in N : NodeLinked(R, N, m)
  <2> TAKE m \in N
  <2>1. CASE m = n
    <3>1. HeadLinked(L, M, v0)
      BY DEF Linked
    <3>2. QED BY <2>1, <3>1, <1>2, <1>3 DEF HeadLinked, NodeLinked, Lists
  <2>2. CASE m # n
    <3>1. NodeLinked(L, M, m) /\ m \in M
      BY <2>2 DEF Linked
    <3>2. R.val[m] = L.val[m] /\ R.next[m] = L.next[m] /\ m \in Nodes
      BY <2>2, <3>1, <1>2, <1>3 DEF Lists
    <3>3. \/ R.prev[m] = HeadOf(R.val[m]) /\ R.head[R.val[m]] = m
          \/ \E k \in N : R.prev[m] = NextOf(k) /\ R.next[k] = m
      <4>1. CASE m = L.head[v0]
        <5>1. R.prev[m] = NextOf(n) /\ R.next[n] = m
          BY <4>1, <2>2, <1>2, <3>2 DEF Lists
        <5>2. QED BY <5>1
      <4>2. CASE m # L.head[v0]
        <5>1. R.prev[m] = L.prev[m]
          BY <4>2, <2>2, <1>2, <3>2
        <5>2. CASE L.prev[m] = HeadOf(L.val[m]) /\ L.head[L.val[m]] = m
          BY <5>1, <5>2, <4>2, <1>2, <3>1, <3>2 DEF NodeLinked, Lists
        <5>3. CASE \E k \in M : L.prev[m] = NextOf(k) /\ L.next[k] = m
          BY <5>1, <5>3, <1>2, <1>3 DEF Lists
        <5>4. QED BY <3>1, <5>2, <5>3 DEF NodeLinked
      <4>3. QED BY <4>1, <4>2
    <3>4. \/ R.next[m] = Null
          \/ /\ R.next[m] \in N
             /\ R.prev[R.next[m]] = NextOf(m)
             /\ R.val[R.next[m]] = R.val[m]
      <4>1. CASE L.next[m] = Null
        BY <4>1, <3>2
      <4>2. CASE L.next[m] # Null
        <5>1. L.next[m] \in M /\ L.prev[L.next[m]] = NextOf(m) /\ L.val[L.next[m]] = L.val[m]
          BY <4>2, <3>1 DEF NodeLinked
        <5>2. L.next[m] # L.head[v0]
          <6>1. HeadLinked(L, M, v0)
            BY DEF Linked
          <6>2. QED BY <6>1, <5>1, <4>2, LocationFacts DEF HeadLinked
        <5>3. R.prev[L.next[m]] = L.prev[L.next[m]]
          BY <5>1, <5>2, <1>2, <1>3
        <5>4. QED BY <5>1, <5>3, <3>2, <1>2
      <4>3. QED BY <4>1, <4>2
    <3>5. QED BY <3>1, <3>2, <3>3, <3>4 DEF NodeLinked
  <2>3. QED BY <2>1, <2>2
<1>6. Anchored(R, N)
  <2> SUFFICES ASSUME NEW S \in SUBSET N, S # {}
               PROVE  \E m \in S : \A k \in S : R.prev[m] # NextOf(k)
    BY DEF Anchored
  <2>1. CASE n \in S
    <3>1. R.prev[n] = HeadOf(v0)
      BY <1>2
    <3>2. \A k \in S : R.prev[n] # NextOf(k)
      BY <3>1, LocationFacts
    <3>3. QED BY <2>1, <3>2
  <2>2. CASE n \notin S
    <3>1. PICK m \in S : \A k \in S : L.prev[m] # NextOf(k)
      BY <2>2 DEF Anchored
    <3>2. m \in Nodes /\ m # n
      BY <1>3, <2>2
    <3>3. R.prev[m] = NextOf(n) \/ R.prev[m] = L.prev[m]
      BY <3>2, <1>2
    <3>4. \A k \in S : R.prev[m] # NextOf(k)
      BY <3>1, <3>3, <2>2, LocationFacts
    <3>5. QED BY <3>4
  <2>3. QED BY <2>1, <2>2
<1>8. R.next[n] = L.head[v0]
  BY <1>2 DEF Lists
<1>9. QED BY <1>2, <1>3, <1>4, <1>5, <1>6, <1>8 DEF Linked

(* Linking a node after a linked one keeps every pointer paired with its   *)
(* converse; the new node takes over the successor.                        *)
LEMMA InsertAfterLinked ==
  ASSUME NEW Vals, NEW L, NEW M, WellLinked(L, M, Vals), NEW n \in Nodes, n \notin M,
         NEW p \in M, L.val[n] = L.val[p],
         NEW R, R = InsertAfter(L, p, n)
  PROVE  /\ WellLinked(R, M \cup {n}, Vals) /\ R.val = L.val /\ R.head = L.head
         /\ R.next[p] = n /\ R.prev[n] = NextOf(p) /\ R.next[n] = L.next[p]
<1> USE DEF WellLinked
<1> DEFINE N == M \cup {n}
<1>0. p \in Nodes /\ p # n /\ n \in Nodes /\ n \notin M /\ NodeLinked(L, M, p)
  BY DEF Linked
<1>1. L.next[p] # n
  BY <1>0, NullAssumption DEF NodeLinked
<1>2. R \in Lists(Vals) /\ InsertedAfter(L, p, n, R)
  BY <1>0, <1>1, InsertAfterFields
<1>3. /\ R.val = L.val /\ R.head = L.head
      /\ R.next \in [Nodes -> Nodes \cup {Null}]
      /\ R.next[p] = n /\ R.next[n] = L.next[p]
      /\ \A m \in Nodes \ {n, p} : R.next[m] = L.next[m]
      /\ R.prev[n] = NextOf(p)
      /\ L.next[p] \in Nodes => R.prev[L.next[p]] = NextOf(n)
      /\ \A m \in Nodes \ {n} : m # L.next[p] => R.prev[m] = L.prev[m]
  BY <1>0, <1>1, <1>2 DEF InsertedAfter, Lists
<1>4. M \subseteq Nodes /\ N \subseteq Nodes
  BY DEF Linked
<1>5. \A v \in Owners : HeadLinked(R, N, v)
  <2> TAKE v \in Owners
  <2>1. HeadLinked(L, M, v)
    BY DEF Linked
  <2>2. CASE L.head[v] = Null
    BY <2>2, <1>3 DEF HeadLinked
  <2>3. CASE L.head[v] # Null
    <3>1. L.head[v] \in M /\ L.prev[L.head[v]] = HeadOf(v) /\ L.val[L.head[v]] = v
      BY <2>1, <2>3 DEF HeadLinked
    <3>2. L.head[v] # L.next[p]
      BY <3>1, <2>3, <1>0, LocationFacts DEF NodeLinked
    <3>3. R.prev[L.head[v]] = HeadOf(v)
      BY <3>1, <3>2, <1>3, <1>4
    <3>4. QED BY <3>1, <3>3, <1>3 DEF HeadLinked
  <2>4. QED BY <2>2, <2>3
<1>6. \A m \in N : NodeLinked(R, N, m)
  <2> TAKE m \in N
  <2>1. CASE m = n
    <3>1. R.val[n] \in Owners
      BY <1>0, <1>3 DEF NodeLinked
    <3>2. \/ R.next[n] = Null
          \/ R.next[n] \in N /\ R.prev[R.next[n]] = NextOf(n) /\ R.val[R.next[n]] = R.val[n]
      BY <1>0, <1>3, <1>4 DEF NodeLinked
    <3>3. QED BY <2>1, <3>1, <3>2, <1>3 DEF NodeLinked
  <2>2. CASE m # n
    <3>1. NodeLinked(L, M, m) /\ m \in M /\ m \in Nodes
      BY <2>2, <1>4 DEF Linked
    <3>3. \/ R.prev[m] = HeadOf(R.val[m]) /\ R.head[R.val[m]] = m
          \/ \E k \in N : R.prev[m] = NextOf(k) /\ R.next[k] = m
      <4>1. CASE m = L.next[p]
        BY <4>1, <1>3, <3>1
      <4>2. CASE m # L.next[p]
        <5>1. R.prev[m] = L.prev[m]
          BY <4>2, <2>2, <1>3, <3>1
        <5>2. CASE L.prev[m] = HeadOf(L.val[m]) /\ L.head[L.val[m]] = m
          BY <5>1, <5>2, <1>3
        <5>3. CASE \E k \in M : L.prev[m] = NextOf(k) /\ L.next[k] = m
          <6>1. PICK k \in M : L.prev[m] = NextOf(k) /\ L.next[k] = m
            BY <5>3
          <6>2. k # p /\ k # n
            BY <6>1, <4>2, <1>0
          <6>3. QED BY <6>1, <6>2, <5>1, <1>3, <1>4
        <5>4. QED BY <3>1, <5>2, <5>3 DEF NodeLinked
      <4>3. QED BY <4>1, <4>2
    <3>4. \/ R.next[m] = Null
          \/ R.next[m] \in N /\ R.prev[R.next[m]] = NextOf(m) /\ R.val[R.next[m]] = R.val[m]
      <4>1. CASE m = p
        BY <4>1, <1>3
      <4>2. CASE m # p
        <5>1. R.next[m] = L.next[m]
          BY <4>2, <2>2, <3>1, <1>3
        <5>2. CASE L.next[m] = Null
          BY <5>1, <5>2
        <5>3. CASE L.next[m] # Null
          <6>1. L.next[m] \in M /\ L.prev[L.next[m]] = NextOf(m) /\ L.val[L.next[m]] = L.val[m]
            BY <5>3, <3>1 DEF NodeLinked
          <6>2. L.next[m] # L.next[p]
            BY <6>1, <4>2, <1>0, <5>3, LocationFacts DEF NodeLinked
          <6>3. R.prev[L.next[m]] = NextOf(m)
            BY <6>1, <6>2, <1>0, <1>3, <1>4
          <6>4. QED BY <5>1, <6>1, <6>3, <1>3
        <5>4. QED BY <5>2, <5>3
      <4>3. QED BY <4>1, <4>2
    <3>5. QED BY <3>1, <3>3, <3>4, <1>3 DEF NodeLinked
  <2>3. QED BY <2>1, <2>2
<1>7. Anchored(R, N)
  <2> SUFFICES ASSUME NEW S \in SUBSET N, S # {}
               PROVE  \E m \in S : \A k \in S : R.prev[m] # NextOf(k)
    BY DEF Anchored
  <2> DEFINE T == S \ {n}
  <2>1. CASE T = {}
    <3>1. S = {n}
      BY <2>1
    <3>2. QED BY <3>1, <1>0, <1>3, LocationFacts
  <2>2. CASE T # {}
    <3>1. PICK m \in T : \A k \in T : L.prev[m] # NextOf(k)
      BY <2>2 DEF Anchored
    <3>2. m \in M /\ m \in Nodes /\ m # n /\ NodeLinked(L, M, m)
      BY <1>4 DEF Linked
    <3>3. CASE m # L.next[p]
      <4>1. R.prev[m] = L.prev[m] /\ L.prev[m] # NextOf(n)
        BY <3>2, <3>3, <1>0, <1>3, LocationFacts DEF NodeLinked
      <4>2. \A k \in S : R.prev[m] # NextOf(k)
        BY <4>1, <3>1
      <4>3. QED BY <4>2
    <3>4. CASE m = L.next[p]
      <4>1. p \notin T
        BY <3>1, <3>2, <3>4, <1>0, NullAssumption DEF NodeLinked
      <4>2. CASE n \in S
        <5>1. \A k \in S : R.prev[n] # NextOf(k)
          BY <4>1, <1>0, <1>3, LocationFacts
        <5>2. QED BY <4>2, <5>1
      <4>3. CASE n \notin S
        <5>1. R.prev[m] = NextOf(n)
          BY <3>2, <3>4, <1>3
        <5>2. \A k \in S : R.prev[m] # NextOf(k)
          BY <5>1, <4>3, LocationFacts
        <5>3. QED BY <5>2
      <4>4. QED BY <4>2, <4>3
    <3>5. QED BY <3>3, <3>4
  <2>3. QED BY <2>1, <2>2
<1>8. QED BY <1>2, <1>3, <1>4, <1>5, <1>6, <1>7 DEF Linked

(***************************************************************************)
(* Inserting at the location another node hangs on puts the new node just  *)
(* before that node, on the same list.                                     *)
(***************************************************************************)
LEMMA InsertBeforeLinked ==
  ASSUME NEW Vals, NEW L, NEW M, WellLinked(L, M, Vals), NEW n \in Nodes, n \notin M,
         NEW p \in M, L.val[n] = L.val[p],
         NEW R, R = Insert(L, L.prev[p], n)
  PROVE  /\ WellLinked(R, M \cup {n}, Vals) /\ R.val = L.val
         /\ \A v \in Owners : R.head[v] = Null <=> L.head[v] = Null
         /\ R.next[n] = p
<1>1. NodeLinked(L, M, p)
  BY DEF Linked, WellLinked
<1>2. CASE L.prev[p] = HeadOf(L.val[p]) /\ L.head[L.val[p]] = p
  <2>1. PICK v0 \in Owners : R = Insert(L, HeadOf(v0), n) /\ L.val[n] = v0
    BY <1>1, <1>2 DEF NodeLinked
  <2>2. /\ WellLinked(R, M \cup {n}, Vals) /\ R.val = L.val
        /\ R.head = [L.head EXCEPT ![v0] = n] /\ R.next[n] = L.head[v0]
    BY <2>1, InsertAtHeadLinked
  <2>3. p \in Nodes /\ p # Null /\ n # Null
    BY NullAssumption DEF Linked, WellLinked
  <2>4. L.head[v0] = p
    BY <2>1, <1>2, <1>1
  <2>5. QED BY <2>2, <2>3, <2>4 DEF Lists, WellLinked
<1>3. CASE \E k \in M : L.prev[p] = NextOf(k) /\ L.next[k] = p
  <2>1. PICK k \in M : L.prev[p] = NextOf(k) /\ L.next[k] = p
    BY <1>3
  <2>2. L.val[n] = L.val[k] /\ R = InsertAfter(L, k, n)
    <3>1. p # Null /\ NodeLinked(L, M, k)
      BY NullAssumption DEF Linked, WellLinked
    <3>2. QED BY <3>1, <2>1 DEF NodeLinked, InsertAfter
  <2>3. /\ WellLinked(R, M \cup {n}, Vals) /\ R.val = L.val /\ R.head = L.head
        /\ R.next[n] = L.next[k]
    BY <2>2, InsertAfterLinked
  <2>4. QED BY <2>1, <2>3
<1>4. QED BY <1>1, <1>2, <1>3 DEF NodeLinked

(***************************************************************************)
(* Unlinking a node leaves the others paired and anchored.  A head becomes *)
(* empty only when the node was alone on the list of its value.            *)
(***************************************************************************)
LEMMA UnlinkLinked ==
  ASSUME NEW Vals, NEW L, NEW M, WellLinked(L, M, Vals), NEW n \in M,
         NEW R, R = Unlink(L, n)
  PROVE  /\ WellLinked(R, M \ {n}, Vals) /\ R.val = L.val
         /\ \A v \in Owners : v # L.val[n] => R.head[v] = L.head[v]
         /\ R.head[L.val[n]] # Null \/ (L.head[L.val[n]] = n /\ L.next[n] = Null)
<1> USE DEF WellLinked
<1> DEFINE N == M \ {n}
           v0 == L.val[n]
           x  == L.next[n]
<1>0. n \in Nodes /\ NodeLinked(L, M, n) /\ v0 \in Owners /\ M \subseteq Nodes
  BY DEF Linked, NodeLinked
<1>1. L.prev[n] \in Locations
  BY <1>0 DEF NodeLinked, Locations
<1>2. R \in Lists(Vals) /\ Unlinked(L, n, R)
  BY <1>0, <1>1, UnlinkFields
<1>3. /\ R.val = L.val
      /\ x \in Nodes => R.prev[x] = L.prev[n]
      /\ \A m \in Nodes : m # x => R.prev[m] = L.prev[m]
  BY <1>2 DEF Unlinked
<1>4. x = Null \/ (x \in M /\ L.prev[x] = NextOf(n) /\ L.val[x] = v0 /\ x # n)
  <2>1. ASSUME x = n PROVE FALSE
    <3>1. L.prev[n] = NextOf(n)
      BY <2>1, <1>0, NullAssumption DEF NodeLinked
    <3>2. PICK m \in {n} : \A k \in {n} : L.prev[m] # NextOf(k)
      <4>1. {n} \in SUBSET M /\ {n} # {}
        OBVIOUS
      <4>2. QED BY <4>1 DEF Anchored
    <3>3. QED BY <3>1, <3>2
  <2>2. QED BY <2>1, <1>0 DEF NodeLinked
<1>5. \A m \in N : L.next[m] # n => (R.next[m] = L.next[m])
  BY <1>0, <1>2, LocationFacts DEF Unlinked, NodeLinked, Lists
<1>6. \A m \in N : L.next[m] = n => (R.next[m] = x /\ L.prev[n] = NextOf(m) /\ L.val[m] = v0)
  <2> TAKE m \in N
  <2> HAVE L.next[m] = n
  <2>1. L.prev[n] = NextOf(m) /\ L.val[m] = v0
    BY <1>0, NullAssumption DEF Linked, NodeLinked
  <2>2. QED BY <2>1, <1>0, <1>2 DEF Unlinked, Lists
<1>7. \A v \in Owners : L.head[v] # n => R.head[v] = L.head[v]
  BY <1>0, <1>2, LocationFacts DEF Unlinked, NodeLinked, Lists
<1>8. \A v \in Owners : L.head[v] = n => (v = v0 /\ R.head[v] = x /\ L.prev[n] = HeadOf(v0))
  <2> TAKE v \in Owners
  <2> HAVE L.head[v] = n
  <2>1. v = v0 /\ L.prev[n] = HeadOf(v)
    BY <1>0, NullAssumption DEF Linked, HeadLinked
  <2>2. QED BY <2>1, <1>0, <1>2 DEF Unlinked, Lists
<1>9. \A v \in Owners : HeadLinked(R, N, v)
  <2> TAKE v \in Owners
  <2>1. HeadLinked(L, M, v)
    BY DEF Linked
  <2>2. CASE L.head[v] = n
    BY <2>2, <1>0, <1>3, <1>4, <1>8 DEF HeadLinked
  <2>3. CASE L.head[v] # n /\ L.head[v] # Null
    <3>1. L.head[v] # x
      BY <2>1, <2>3, <1>4, LocationFacts DEF HeadLinked
    <3>2. QED BY <2>1, <2>3, <3>1, <1>0, <1>3, <1>7 DEF HeadLinked
  <2>4. CASE L.head[v] = Null
    BY <2>4, <1>0, <1>7, NullAssumption DEF HeadLinked
  <2>5. QED BY <2>2, <2>3, <2>4
<1>10. \A m \in N : NodeLinked(R, N, m)
  <2> TAKE m \in N
  <2>1. NodeLinked(L, M, m) /\ m \in Nodes /\ m # n /\ m # Null
    BY <1>0, NullAssumption DEF Linked
  <2>2. \/ R.prev[m] = HeadOf(R.val[m]) /\ R.head[R.val[m]] = m
        \/ \E k \in N : R.prev[m] = NextOf(k) /\ R.next[k] = m
    <3>1. CASE m = x
      <4>1. R.prev[m] = L.prev[n] /\ L.val[m] = v0
        BY <3>1, <2>1, <1>3, <1>4
      <4>2. CASE L.prev[n] = HeadOf(v0) /\ L.head[v0] = n
        BY <4>1, <4>2, <3>1, <1>0, <1>3, <1>8
      <4>3. CASE \E k \in M : L.prev[n] = NextOf(k) /\ L.next[k] = n
        <5>1. PICK k \in M : L.prev[n] = NextOf(k) /\ L.next[k] = n
          BY <4>3
        <5>2. k \in N
          <6>1. k # n
            BY <5>1, <1>0, <1>4, NullAssumption
          <6>2. QED BY <6>1
        <5>3. QED BY <5>1, <5>2, <4>1, <3>1, <1>6
      <4>4. QED BY <4>2, <4>3, <1>0 DEF NodeLinked
    <3>2. CASE m # x
      <4>1. R.prev[m] = L.prev[m]
        BY <3>2, <2>1, <1>3
      <4>2. CASE L.prev[m] = HeadOf(L.val[m]) /\ L.head[L.val[m]] = m
        BY <4>1, <4>2, <2>1, <1>3, <1>7 DEF NodeLinked
      <4>3. CASE \E k \in M : L.prev[m] = NextOf(k) /\ L.next[k] = m
        <5>1. PICK k \in M : L.prev[m] = NextOf(k) /\ L.next[k] = m
          BY <4>3
        <5>2. k \in N
          BY <5>1, <3>2
        <5>3. QED BY <5>1, <5>2, <4>1, <2>1, <1>5
      <4>4. QED BY <4>2, <4>3, <2>1 DEF NodeLinked
    <3>3. QED BY <3>1, <3>2
  <2>3. \/ R.next[m] = Null
        \/ R.next[m] \in N /\ R.prev[R.next[m]] = NextOf(m) /\ R.val[R.next[m]] = R.val[m]
    <3>1. CASE L.next[m] = n
      BY <3>1, <1>0, <1>3, <1>4, <1>6
    <3>2. CASE L.next[m] # n /\ L.next[m] # Null
      <4>1. L.next[m] \in N /\ L.prev[L.next[m]] = NextOf(m) /\ L.val[L.next[m]] = L.val[m]
        BY <3>2, <2>1 DEF NodeLinked
      <4>2. L.next[m] # x
        BY <4>1, <3>2, <1>4, <2>1, LocationFacts
      <4>3. QED BY <3>2, <4>1, <4>2, <1>0, <1>3, <1>5
    <3>3. CASE L.next[m] # n /\ L.next[m] = Null
      BY <3>3, <1>5
    <3>4. QED BY <3>1, <3>2, <3>3
  <2>4. QED BY <2>1, <2>2, <2>3, <1>3 DEF NodeLinked
<1>11. Anchored(R, N)
  <2> SUFFICES ASSUME NEW S \in SUBSET N, S # {}
               PROVE  \E m \in S : \A k \in S : R.prev[m] # NextOf(k)
    BY DEF Anchored
  <2> DEFINE T == S \cup {n}
  <2>1. PICK m \in T : \A k \in T : L.prev[m] # NextOf(k)
    <3>1. T \in SUBSET M /\ T # {}
      OBVIOUS
    <3>2. QED BY <3>1 DEF Anchored
  <2>2. CASE m = n
    <3>1. CASE x \in S
      <4>1. R.prev[x] = L.prev[n]
        BY <3>1, <1>0, <1>3
      <4>2. QED BY <4>1, <3>1, <2>1, <2>2
    <3>2. CASE x \notin S
      <4>1. PICK j \in S : \A k \in S : L.prev[j] # NextOf(k)
        <5>1. S \in SUBSET M
          OBVIOUS
        <5>2. QED BY <5>1 DEF Anchored
      <4>2. R.prev[j] = L.prev[j]
        BY <4>1, <3>2, <1>0, <1>3
      <4>3. QED BY <4>1, <4>2
    <3>3. QED BY <3>1, <3>2
  <2>3. CASE m # n
    <3>1. m \in S /\ m \in Nodes /\ L.prev[m] # NextOf(n)
      BY <2>1, <2>3, <1>0
    <3>2. m # x
      BY <3>1, <1>4, <1>0, NullAssumption
    <3>3. R.prev[m] = L.prev[m]
      BY <3>1, <3>2, <1>3
    <3>4. QED BY <3>1, <3>3, <2>1
  <2>4. QED BY <2>2, <2>3
<1>12. \A v \in Owners : v # v0 => R.head[v] = L.head[v]
  BY <1>7, <1>8
<1>13. R.head[v0] # Null \/ (L.head[v0] = n /\ x = Null)
  <2>1. CASE L.head[v0] = n
    BY <2>1, <1>0, <1>8
  <2>2. CASE L.head[v0] # n
    <3>1. PICK k \in M : L.prev[n] = NextOf(k) /\ L.next[k] = n
      BY <2>2, <1>0 DEF NodeLinked
    <3>2. L.head[v0] # Null
      BY LinkedHasHead
    <3>3. QED BY <3>2, <2>2, <1>0, <1>7
  <2>3. QED BY <2>1, <2>2
<1>14. Linked(R, N)
  BY <1>0, <1>9, <1>10 DEF Linked
<1>15. QED BY <1>2, <1>3, <1>11, <1>12, <1>13, <1>14
=============================================================================
