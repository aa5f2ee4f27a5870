------------------------- MODULE ValueHandlesProofs -------------------------
(***************************************************************************)
(* ListIntegrity and NoDanglingHandle of ValueHandles, then WalkClears and *)
(* NeverFails, for any handles, values, kinds and depth of nested walks.   *)
(***************************************************************************)
EXTENDS ValueHandles, IntrusiveListProofs

Tables == [list : Lists(Referents), keys : SUBSET Values, marked : SUBSET Values]

(* The table T, when exactly the handles of M are linked.                  *)
TableLinked(T, M) ==
  /\ T \in Tables
  /\ WellLinked(T.list, M, Referents)
  /\ T.marked = T.keys
  /\ T.keys = {v \in Values : T.list.head[v] # Null}

(* Writing the val_ field of a handle that is linked nowhere disturbs no   *)
(* list.                                                                   *)
LEMMA PointLinked ==
  ASSUME NEW T, NEW M, TableLinked(T, M), NEW n \in Nodes, n \notin M, NEW v \in Referents,
         NEW R, R = Point(T, n, v)
  PROVE  TableLinked(R, M) /\ R.list.val = [T.list.val EXCEPT ![n] = v]
         /\ R.list.next = T.list.next /\ R.list.prev = T.list.prev
<1>1. /\ R.list.val = [T.list.val EXCEPT ![n] = v]
      /\ R.list.prev = T.list.prev /\ R.list.next = T.list.next
      /\ R.list.head = T.list.head
      /\ R.keys = T.keys /\ R.marked = T.marked
  BY DEF Point, WithList, SetVal
<1>2. R \in Tables
  BY DEF Point, WithList, SetVal, Tables, TableLinked, Lists
<1>3. M \subseteq Nodes /\ T.list.val \in [Nodes -> Referents]
  BY DEF TableLinked, WellLinked, Linked, Tables, Lists
<1>4. \A m \in M : R.list.val[m] = T.list.val[m]
  BY <1>1, <1>3
<1>5. Linked(R.list, M)
  <2>1. \A m \in M : NodeLinked(R.list, M, m)
    BY <1>1, <1>4 DEF TableLinked, WellLinked, Linked, NodeLinked
  <2>2. \A w \in Owners : HeadLinked(R.list, M, w)
    BY <1>1, <1>4 DEF TableLinked, WellLinked, Linked, HeadLinked
  <2>3. QED BY <1>3, <2>1, <2>2 DEF Linked
<1>6. Anchored(R.list, M)
  BY <1>1 DEF TableLinked, WellLinked, Anchored
<1>7. QED BY <1>1, <1>2, <1>5, <1>6 DEF TableLinked, WellLinked, Tables

(* The loop of AddToUseList that points the heads of all lists back at     *)
(* their map entries rewrites what is there already: map entries do not    *)
(* move.                                                                   *)
LEMMA RefreshHeadsIsIdle ==
  ASSUME NEW L, NEW M, WellLinked(L, M, Referents), NEW keys \in SUBSET Values
  PROVE  RefreshHeads(L, keys) = L
<1>1. \A m \in Nodes : L.val[m] \in keys /\ L.head[L.val[m]] = m => L.prev[m] = HeadOf(L.val[m])
  BY NullAssumption DEF WellLinked, Linked, HeadLinked, Values
<1>2. [m \in Nodes |-> IF L.val[m] \in keys /\ L.head[L.val[m]] = m
                         THEN HeadOf(L.val[m]) ELSE L.prev[m]] = L.prev
  BY <1>1 DEF WellLinked, Lists
<1>3. QED BY <1>2 DEF RefreshHeads, WellLinked, Lists

(* AddToUseList links the handle at the head of its value's list, and      *)
(* makes the map entry and the bit together when the list was empty.       *)
LEMMA AddToUseListLinked ==
  ASSUME NEW T, NEW M, TableLinked(T, M), NEW n \in Nodes, n \notin M, T.list.val[n] \in Values,
         NEW R, R = AddToUseList(T, n)
  PROVE  TableLinked(R, M \cup {n}) /\ R.list.val = T.list.val
<1> DEFINE v == T.list.val[n]
           L == Insert(T.list, HeadOf(v), n)
<1>1. /\ WellLinked(L, M \cup {n}, Referents) /\ L.val = T.list.val
      /\ L.head = [T.list.head EXCEPT ![v] = n]
  <2>1. WellLinked(T.list, M, Referents) /\ v \in Owners
    BY DEF TableLinked, Values
  <2> HIDE DEF v
  <2>2. T.list.val[n] = v
    BY DEF v
  <2>3. QED BY <2>1, <2>2, InsertAtHeadLinked
<1>2. RefreshHeads(L, T.keys \cup {v}) = L
  BY <1>1, RefreshHeadsIsIdle DEF TableLinked, WellLinked, Tables
<1>3. R = [list |-> L, keys |-> T.keys \cup {v}, marked |-> T.marked \cup {v}]
  <2>1. CASE v \in T.marked
    <3>1. T.keys \cup {v} = T.keys /\ T.marked \cup {v} = T.marked
      BY <2>1 DEF TableLinked
    <3>2. QED BY <2>1, <3>1 DEF AddToUseList, WithList
  <2>2. CASE v \notin T.marked
    BY <2>2, <1>2 DEF AddToUseList
  <2>3. QED BY <2>1, <2>2
<1> HIDE DEF L
<1>4. R.keys = {w \in Values : L.head[w] # Null}
  BY <1>1, <1>3, NullAssumption DEF TableLinked, WellLinked, Tables, Lists, Values
<1>5. v \in Values /\ L \in Lists(Referents) /\ L.val = T.list.val
  BY <1>1 DEF WellLinked
<1>6. T.keys \in SUBSET Values /\ T.marked = T.keys
  BY DEF TableLinked, Tables
<1> HIDE DEF v
<1>7. R \in Tables /\ R.list = L /\ R.marked = R.keys
  BY <1>3, <1>5, <1>6 DEF Tables
<1>8. WellLinked(R.list, M \cup {n}, Referents)
  BY <1>1, <1>7
<1>9. QED BY <1>4, <1>5, <1>7, <1>8 DEF TableLinked

(* AddToExistingUseList at the location another handle hangs on links the  *)
(* new handle just before it, on the same list.                            *)
LEMMA AddToExistingLinked ==
  ASSUME NEW T, NEW M, TableLinked(T, M), NEW n \in Nodes, n \notin M, NEW p \in M,
         T.list.val[n] = T.list.val[p],
         NEW R, R = AddToExistingUseList(T, T.list.prev[p], n)
  PROVE  TableLinked(R, M \cup {n}) /\ R.list.val = T.list.val /\ R.list.next[n] = p
<1>1. R.list = Insert(T.list, T.list.prev[p], n) /\ R.keys = T.keys /\ R.marked = T.marked
      /\ R = [list |-> R.list, keys |-> R.keys, marked |-> R.marked]
  BY DEF AddToExistingUseList, WithList
<1>2. WellLinked(T.list, M, Referents)
  BY DEF TableLinked
<1> DEFINE K == T.list
           L == R.list
<1>3. /\ WellLinked(K, M, Referents) /\ K.val[n] = K.val[p] /\ L = Insert(K, K.prev[p], n)
  BY <1>1, <1>2
<1>4. R = [list |-> L, keys |-> T.keys, marked |-> T.marked]
  BY <1>1
<1>5. /\ T.keys \in SUBSET Values /\ T.marked = T.keys
      /\ T.keys = {v \in Values : K.head[v] # Null}
  BY DEF TableLinked, Tables
<1> HIDE DEF K, L
<1>6. /\ WellLinked(L, M \cup {n}, Referents) /\ L.val = K.val
      /\ \A v \in Owners : L.head[v] = Null <=> K.head[v] = Null
      /\ L.next[n] = p
  BY <1>3, InsertBeforeLinked
<1>7. TableLinked(R, M \cup {n})
  <2>1. L \in Lists(Referents)
    BY <1>6 DEF WellLinked
  <2>2. R \in Tables /\ R.list = L /\ R.marked = R.keys
    BY <2>1, <1>4, <1>5 DEF Tables
  <2>3. R.keys = {v \in Values : R.list.head[v] # Null}
    BY <2>2, <1>4, <1>5, <1>6 DEF Values
  <2>4. WellLinked(R.list, M \cup {n}, Referents)
    BY <2>2, <1>6
  <2>5. QED BY <2>2, <2>3, <2>4 DEF TableLinked
<1>8. QED BY <1>6, <1>7 DEF K, L

(* AddToExistingUseListAfter links the handle behind another one.          *)
LEMMA AddAfterLinked ==
  ASSUME NEW T, NEW M, TableLinked(T, M), NEW n \in Nodes, n \notin M, NEW p \in M,
         T.list.val[n] = T.list.val[p],
         NEW R, R = AddToExistingUseListAfter(T, p, n)
  PROVE  TableLinked(R, M \cup {n}) /\ R.list.val = T.list.val
<1>1. R.list = InsertAfter(T.list, p, n) /\ R.keys = T.keys /\ R.marked = T.marked
      /\ R = [list |-> R.list, keys |-> R.keys, marked |-> R.marked]
  BY DEF AddToExistingUseListAfter, WithList
<1>2. WellLinked(T.list, M, Referents)
  BY DEF TableLinked
<1>3. /\ WellLinked(R.list, M \cup {n}, Referents) /\ R.list.val = T.list.val
      /\ R.list.head = T.list.head
  BY <1>1, <1>2, InsertAfterLinked
<1>4. QED BY <1>1, <1>3 DEF TableLinked, WellLinked, Tables

(* RemoveFromUseList unlinks the handle, and removes the map entry and     *)
(* clears the bit exactly when the handle was the last of its value.       *)
LEMMA RemoveLinked ==
  ASSUME NEW T, NEW M, TableLinked(T, M), NEW n \in M,
         NEW R, R = RemoveFromUseList(T, n)
  PROVE  TableLinked(R, M \ {n}) /\ R.list.val = T.list.val
<1> DEFINE L == Unlink(T.list, n)
           v == T.list.val[n]
           empty == {w \in T.keys : L.head[w] = Null}
<1>1. WellLinked(T.list, M, Referents)
  BY DEF TableLinked
<1>2. /\ WellLinked(L, M \ {n}, Referents) /\ L.val = T.list.val
      /\ \A w \in Owners : w # v => L.head[w] = T.list.head[w]
      /\ L.head[v] # Null \/ (T.list.head[v] = n /\ T.list.next[n] = Null)
  BY <1>1, UnlinkLinked
<1>3. v \in Values /\ v \in T.keys
  <2>1. v \in Values
    BY <1>1 DEF WellLinked, Linked, NodeLinked, Values
  <2>2. T.list.head[v] # Null
    BY <1>1, LinkedHasHead
  <2>3. QED BY <2>1, <2>2 DEF TableLinked
<1>4. empty = IF L.head[v] = Null THEN {v} ELSE {}
  BY <1>2, <1>3 DEF TableLinked, WellLinked, Tables, Values
<1> HIDE DEF L, empty
<1>5. CASE L.head[v] = Null
  <2>1. empty = {v} /\ (CHOOSE w \in empty : TRUE) = v /\ empty # {}
    BY <1>4, <1>5
  <2>2. T.list.next[n] = Null
    BY <1>2, <1>5
  <2>3. R = [list |-> L, keys |-> T.keys \ {v}, marked |-> T.marked \ {v}]
    BY <2>1, <2>2 DEF RemoveFromUseList, L, empty
  <2>4. R.keys = {w \in Values : L.head[w] # Null}
    BY <2>3, <1>2, <1>3, <1>5 DEF TableLinked, WellLinked, Tables, Values
  <2>5. QED BY <2>3, <2>4, <1>2 DEF TableLinked, WellLinked, Tables
<1>6. CASE L.head[v] # Null
  <2>1. empty = {}
    BY <1>4, <1>6
  <2>2. R = [list |-> L, keys |-> T.keys, marked |-> T.marked]
    BY <2>1 DEF RemoveFromUseList, L, empty, WithList
  <2>3. R.keys = {w \in Values : L.head[w] # Null}
    BY <2>2, <1>2, <1>3, <1>6 DEF TableLinked, WellLinked, Tables, Values
  <2>4. QED BY <2>2, <2>3, <1>2 DEF TableLinked, WellLinked, Tables
<1>7. QED BY <1>5, <1>6

-----------------------------------------------------------------------------
(* The table T, when A are the constructed handles.                        *)
Holding(T, A) == {n \in A : T.list.val[n] \in Values}

Holds(T, A) == A \in SUBSET Nodes /\ TableLinked(T, Holding(T, A))

(***************************************************************************)
(* What the constructors do to the table: the new handle refers to the     *)
(* value given, and no other reference changes.                            *)
(***************************************************************************)
LEMMA ConstructHolds ==
  ASSUME NEW T, NEW A, Holds(T, A), NEW n \in Nodes, n \notin A, NEW v \in Referents,
         NEW R, R = Construct(T, n, v)
  PROVE  Holds(R, A \cup {n}) /\ R.list.val = [T.list.val EXCEPT ![n] = v]
<1> DEFINE U == Point(T, n, v)
           M == Holding(T, A)
<1>1. TableLinked(T, M) /\ n \notin M /\ A \subseteq Nodes
  BY DEF Holds, Holding
<1>2. T.list.val \in [Nodes -> Referents]
  BY <1>1 DEF TableLinked, WellLinked, Lists
<1>3. TableLinked(U, M) /\ U.list.val = [T.list.val EXCEPT ![n] = v]
  <2> HIDE DEF U, M
  <2>1. U = Point(T, n, v)
    BY DEF U
  <2>2. QED BY <1>1, <2>1, PointLinked
<1> HIDE DEF U
<1>4. CASE v \in Values
  <2>1. R = AddToUseList(U, n) /\ U.list.val[n] \in Values
    BY <1>2, <1>3, <1>4 DEF Construct, U, IsValid
  <2>2. TableLinked(R, M \cup {n}) /\ R.list.val = U.list.val
    <3> HIDE DEF M
    <3>1. TableLinked(U, M)
      BY <1>3
    <3>2. n \notin M /\ n \in Nodes
      BY <1>1
    <3>4. QED BY <3>1, <3>2, <2>1, AddToUseListLinked
  <2>3. Holding(R, A \cup {n}) = M \cup {n}
    BY <1>1, <1>2, <1>3, <1>4, <2>2 DEF Holding
  <2>4. QED BY <1>1, <1>3, <2>2, <2>3 DEF Holds
<1>5. CASE v \notin Values
  <2>1. R = U
    BY <1>5 DEF Construct, U, IsValid
  <2>2. Holding(R, A \cup {n}) = M
    BY <1>1, <1>2, <1>3, <1>5, <2>1 DEF Holding
  <2>3. QED BY <1>1, <1>3, <2>1, <2>2 DEF Holds
<1>6. QED BY <1>4, <1>5

(***************************************************************************)
(* A copy refers to what the original does; it is linked on the same list, *)
(* at the location the original hangs on.                                  *)
(***************************************************************************)
LEMMA CopyConstructHolds ==
  ASSUME NEW T, NEW A, Holds(T, A), NEW n \in Nodes, n \notin A, NEW m \in A,
         NEW R, R = CopyConstruct(T, n, m)
  PROVE  /\ Holds(R, A \cup {n})
         /\ R.list.val = [T.list.val EXCEPT ![n] = T.list.val[m]]
         /\ T.list.val[m] \in Values => R.list.next[n] = m
<1> DEFINE v == T.list.val[m]
           U == Point(T, n, v)
           M == Holding(T, A)
<1>1. TableLinked(T, M) /\ n \notin M /\ A \subseteq Nodes /\ m # n
  BY DEF Holds, Holding
<1>2. T.list.val \in [Nodes -> Referents] /\ v \in Referents
  BY <1>1 DEF TableLinked, WellLinked, Lists
<1>3. TableLinked(U, M) /\ U.list.val = [T.list.val EXCEPT ![n] = v]
      /\ U.list.prev = T.list.prev
  <2> HIDE DEF U, M, v
  <2>1. U = Point(T, n, v)
    BY DEF U
  <2>2. QED BY <1>1, <1>2, <2>1, PointLinked
<1>4. CASE v \in Values
  <2>1. R = AddToExistingUseList(U, U.list.prev[m], n)
    BY <1>4 DEF CopyConstruct, IsValid
  <2> HIDE DEF U
  <2>2. m \in M /\ U.list.val[n] = U.list.val[m]
    BY <1>1, <1>2, <1>3, <1>4 DEF Holding
  <2>3. TableLinked(R, M \cup {n}) /\ R.list.val = U.list.val /\ R.list.next[n] = m
    <3> HIDE DEF M, v
    <3>1. TableLinked(U, M)
      BY <1>3
    <3>2. n \notin M /\ n \in Nodes
      BY <1>1
    <3>4. QED BY <3>1, <3>2, <2>1, <2>2, AddToExistingLinked
  <2>4. Holding(R, A \cup {n}) = M \cup {n}
    BY <1>1, <1>2, <1>3, <1>4, <2>3 DEF Holding
  <2>5. QED BY <1>1, <1>3, <2>3, <2>4 DEF Holds
<1>5. CASE v \notin Values
  <2>1. R = U
    BY <1>5 DEF CopyConstruct, IsValid
  <2> HIDE DEF U
  <2>2. Holding(R, A \cup {n}) = M
    BY <1>1, <1>2, <1>3, <1>5, <2>1 DEF Holding
  <2>3. QED BY <1>1, <1>3, <1>5, <2>1, <2>2 DEF Holds
<1>6. QED BY <1>4, <1>5

(***************************************************************************)
(* A released handle is linked nowhere; the others refer to what they did. *)
(***************************************************************************)
LEMMA ReleaseHolds ==
  ASSUME NEW T, NEW A, Holds(T, A), NEW n \in A, NEW R, R = Release(T, n)
  PROVE  Holds(R, A \ {n}) /\ R.list.val = T.list.val
<1> DEFINE M == Holding(T, A)
<1>1. TableLinked(T, M) /\ A \subseteq Nodes
  BY DEF Holds
<1>2. CASE T.list.val[n] \in Values
  <2>1. n \in M /\ R = RemoveFromUseList(T, n)
    BY <1>2 DEF Holding, Release, IsValid
  <2>2. TableLinked(R, M \ {n}) /\ R.list.val = T.list.val
    <3> HIDE DEF M
    <3>1. QED BY <1>1, <2>1, RemoveLinked
  <2>3. Holding(R, A \ {n}) = M \ {n}
    BY <2>2 DEF Holding
  <2>4. QED BY <1>1, <2>2, <2>3 DEF Holds
<1>3. CASE T.list.val[n] \notin Values
  <2>1. R = T /\ Holding(R, A \ {n}) = M
    BY <1>3 DEF Holding, Release, IsValid
  <2>2. QED BY <1>1, <2>1 DEF Holds
<1>4. QED BY <1>2, <1>3

(***************************************************************************)
(* Assigning a value, or another handle, moves the handle between the      *)
(* lists of the two values and changes no other reference.                 *)
(***************************************************************************)
LEMMA AssignHolds ==
  ASSUME NEW T, NEW A, Holds(T, A), NEW n \in A, NEW v \in Referents,
         NEW R, R = Assign(T, n, v)
  PROVE  Holds(R, A) /\ R.list.val = [T.list.val EXCEPT ![n] = v]
<1>1. T.list.val \in [Nodes -> Referents] /\ n \in Nodes /\ A = (A \ {n}) \cup {n}
  BY DEF Holds, TableLinked, WellLinked, Lists
<1>2. CASE T.list.val[n] = v
  BY <1>1, <1>2 DEF Assign
<1>3. CASE T.list.val[n] # v
  <2>1. PICK U : U = Release(T, n)
    OBVIOUS
  <2>2. Holds(U, A \ {n}) /\ U.list.val = T.list.val
    BY <2>1, ReleaseHolds
  <2>3. R = Construct(U, n, v)
    BY <1>3, <2>1 DEF Assign, Construct
  <2>4. n \notin A \ {n}
    OBVIOUS
  <2>5. Holds(R, (A \ {n}) \cup {n}) /\ R.list.val = [U.list.val EXCEPT ![n] = v]
    BY <1>1, <2>2, <2>3, <2>4, ConstructHolds
  <2>6. QED BY <1>1, <2>2, <2>5
<1>4. QED BY <1>2, <1>3

(* Copying one handle to another (operator=) moves it to the list of the   *)
(* value the other refers to.                                              *)
LEMMA CopyAssignHolds ==
  ASSUME NEW T, NEW A, Holds(T, A), NEW n \in A, NEW m \in A,
         T.list.val[n] # T.list.val[m],
         NEW R, R = CopyAssign(T, n, m)
  PROVE  Holds(R, A) /\ R.list.val = [T.list.val EXCEPT ![n] = T.list.val[m]]
<1>1. n \in Nodes /\ A = (A \ {n}) \cup {n} /\ m \in A \ {n} /\ n \notin A \ {n}
  BY DEF Holds
<1>2. PICK U : U = Release(T, n)
  OBVIOUS
<1>3. Holds(U, A \ {n}) /\ U.list.val = T.list.val
  BY <1>2, ReleaseHolds
<1>4. R = CopyConstruct(U, n, m)
  BY <1>2 DEF CopyAssign
<1>5. /\ Holds(R, (A \ {n}) \cup {n})
      /\ R.list.val = [U.list.val EXCEPT ![n] = U.list.val[m]]
  BY <1>1, <1>3, <1>4, CopyConstructHolds
<1>6. QED BY <1>1, <1>3, <1>5

(***************************************************************************)
(* A destroyed handle refers to nothing; the others refer to what they did.*)
(***************************************************************************)
LEMMA DropHolds ==
  ASSUME NEW T, NEW A, Holds(T, A), NEW n \in A,
         NEW R, R = Forget(Release(T, n), n)
  PROVE  Holds(R, A \ {n}) /\ R.list.val = [T.list.val EXCEPT ![n] = Null]
<1> DEFINE B == A \ {n}
           M == Holding(T, B)
<1>1. PICK U : U = Release(T, n)
  OBVIOUS
<1>2. Holds(U, B) /\ U.list.val = T.list.val
  BY <1>1, ReleaseHolds
<1>3. TableLinked(U, M) /\ n \notin M /\ n \in Nodes /\ M \subseteq Nodes
  BY <1>2 DEF Holds, Holding
<1>4. Null \in Referents /\ Null \notin Values
  BY NullAssumption DEF Referents, Values
<1> HIDE DEF M
<1>5. /\ R = [list   |-> [val  |-> [U.list.val EXCEPT ![n] = Null],
                        prev |-> [U.list.prev EXCEPT ![n] = Null],
                        next |-> [U.list.next EXCEPT ![n] = Null],
                        head |-> U.list.head],
             keys   |-> U.keys,
             marked |-> U.marked]
  BY <1>1 DEF Forget, WithList, SetVal, SetNext, SetPrev
<1>6. U \in Tables /\ U.list \in Lists(Referents)
  BY <1>3 DEF TableLinked, WellLinked
<1>7. R \in Tables /\ R.list \in Lists(Referents)
  <2>1. [val  |-> [U.list.val EXCEPT ![n] = Null],
         prev |-> [U.list.prev EXCEPT ![n] = Null],
         next |-> [U.list.next EXCEPT ![n] = Null],
         head |-> U.list.head] \in Lists(Referents)
    BY <1>4, <1>6 DEF Lists
  <2>2. R.list \in Lists(Referents) /\ R = [list |-> R.list, keys |-> U.keys, marked |-> U.marked]
    BY <1>5, <2>1
  <2>3. U.keys \in SUBSET Values /\ U.marked \in SUBSET Values
    BY <1>6 DEF Tables
  <2>4. QED BY <2>2, <2>3 DEF Tables
<1>8. \A m \in M : /\ R.list.val[m] = U.list.val[m] /\ R.list.prev[m] = U.list.prev[m]
                   /\ R.list.next[m] = U.list.next[m]
  BY <1>3, <1>5, <1>6 DEF Lists
<1>9. R.list.head = U.list.head
  BY <1>5
<1>10. Linked(R.list, M)
  <2>1. \A m \in M : NodeLinked(R.list, M, m)
    BY <1>3, <1>8, <1>9 DEF TableLinked, WellLinked, Linked, NodeLinked
  <2>2. \A w \in Owners : HeadLinked(R.list, M, w)
    BY <1>3, <1>8, <1>9 DEF TableLinked, WellLinked, Linked, HeadLinked
  <2>3. QED BY <1>3, <2>1, <2>2 DEF Linked
<1>11. Anchored(R.list, M)
  BY <1>3, <1>8 DEF TableLinked, WellLinked, Anchored
<1>12. TableLinked(R, M)
  BY <1>3, <1>5, <1>7, <1>9, <1>10, <1>11 DEF TableLinked, WellLinked
<1>13. R.list.val = [T.list.val EXCEPT ![n] = Null]
  BY <1>2, <1>5
<1>14. Holding(R, B) = M
  BY <1>2, <1>6, <1>13 DEF Holding, M, Holds, Lists
<1>15. QED BY <1>2, <1>12, <1>13, <1>14 DEF Holds

(***************************************************************************)
(* Advancing the iterator of a walk past a handle of the same value leaves *)
(* the same handles linked, each referring to what it did.                 *)
(***************************************************************************)
LEMMA MoveIterHolds ==
  ASSUME NEW T, NEW A, Holds(T, A), NEW it \in A, NEW k \in A, k # it,
         T.list.val[it] \in Values, T.list.val[k] = T.list.val[it],
         NEW R, R = MoveIter(T, it, k)
  PROVE  Holds(R, A) /\ R.list.val = T.list.val
<1> DEFINE M == Holding(T, A)
<1>1. /\ TableLinked(T, M) /\ it \in M /\ k \in M \ {it} /\ it \in Nodes
      /\ it \notin M \ {it} /\ M = (M \ {it}) \cup {it}
  BY DEF Holds, Holding
<1> HIDE DEF M
<1>2. PICK U : U = RemoveFromUseList(T, it)
  OBVIOUS
<1>3. TableLinked(U, M \ {it}) /\ U.list.val = T.list.val
  BY <1>1, <1>2, RemoveLinked
<1>4. R = AddToExistingUseListAfter(U, k, it)
  BY <1>2 DEF MoveIter
<1>5. U.list.val[it] = U.list.val[k]
  BY <1>3
<1>6. TableLinked(R, (M \ {it}) \cup {it}) /\ R.list.val = U.list.val
  BY <1>1, <1>3, <1>4, <1>5, AddAfterLinked
<1>7. Holding(R, A) = M
  BY <1>3, <1>6 DEF Holding, M
<1>8. QED BY <1>1, <1>3, <1>6, <1>7 DEF Holds

-----------------------------------------------------------------------------
(* The inductive invariant: the lists are those of the constructed         *)
(* handles, every walk keeps its place, and no reference dangles.          *)
IInv == TypeOK /\ Holds(table, alive) /\ WalkKeepsPlace /\ NoDanglingHandle

(* U is the stack of walks with nothing but histories changed.             *)
SameWalks(U) ==
  /\ U \in Seq(Frames) /\ Len(U) = Len(walks)
  /\ \A i \in 1 .. Len(walks) :
       /\ U[i].op = walks[i].op /\ U[i].val = walks[i].val /\ U[i].to = walks[i].to
       /\ U[i].entry = walks[i].entry /\ U[i].pc = walks[i].pc

(***************************************************************************)
(* Noting a late handle changes nothing a walk acts on.                    *)
(***************************************************************************)
LEMMA NoteLateSame ==
  ASSUME TypeOK, NEW n \in Nodes, NEW v
  PROVE  SameWalks(NoteLate(n, v)) /\ SameWalks(walks)
<1>1. walks \in Seq(Frames)
  BY DEF TypeOK
<1>2. ASSUME NEW w \in Frames, NEW x, x = [w EXCEPT !.late = @ \cup {n}]
      PROVE  /\ x \in Frames /\ x.op = w.op /\ x.val = w.val /\ x.to = w.to
             /\ x.entry = w.entry /\ x.pc = w.pc
  BY <1>2 DEF Frames
<1>3. \A i \in 1 .. Len(walks) : walks[i] \in Frames
  BY <1>1
<1>4. \A i \in 1 .. Len(walks) : NoteLate(n, v)[i] \in Frames
  BY <1>1, <1>2, <1>3 DEF NoteLate
<1>5. NoteLate(n, v) \in Seq(Frames) /\ Len(NoteLate(n, v)) = Len(walks)
  <2>1. DOMAIN walks = 1 .. Len(walks) /\ Len(walks) \in Nat
    BY <1>1
  <2>2. PICK f : f = NoteLate(n, v)
    OBVIOUS
  <2>3. f \in [1 .. Len(walks) -> Frames]
    BY <1>4, <2>1, <2>2 DEF NoteLate
  <2>4. f \in Seq(Frames) /\ Len(f) = Len(walks)
    BY <2>1, <2>3
  <2>5. QED BY <2>2, <2>4
<1>6. QED BY <1>1, <1>2, <1>3, <1>5 DEF NoteLate, SameWalks

(***************************************************************************)
(* A step of client code that moves one handle to a value that exists      *)
(* keeps the invariant: no walk is inside its loop then, and client code   *)
(* does not hold the iterators.                                            *)
(***************************************************************************)
LEMMA ClientMoveKeeps ==
  ASSUME IInv, ClientRuns, NEW n \in Handles, NEW v \in Referents,
         v \in Values => life[v] # "none",
         Holds(table', alive'), table'.list.val = [table.list.val EXCEPT ![n] = v],
         alive' \ {n} = alive \ {n},
         SameWalks(walks'), UNCHANGED <<life, outcome>>
  PROVE  IInv'
<1>1. table' \in Tables /\ alive' \in SUBSET Nodes
  BY DEF Holds, TableLinked
<1>2. TypeOK'
  BY <1>1 DEF TypeOK, IInv, Tables, SameWalks
<1>3. /\ table.list.val \in [Nodes -> Referents] /\ n \in Nodes
      /\ \A m \in Nodes \ {n} : table'.list.val[m] = table.list.val[m]
      /\ table'.list.val[n] = v
  BY DEF IInv, TypeOK, Lists, Handles
<1>4. \A i \in 1 .. Len(Iters) : Iters[i] \in Nodes \ {n}
  BY HandleAssumption DEF Handles, ItersSet
<1>5. Depth \in Nat /\ Depth' = Depth /\ Depth <= Len(Iters)
  BY DEF IInv, TypeOK, SameWalks, Depth
<1>6. WalkKeepsPlace'
  <2>1. \A i \in 1 .. Len(Iters) : (Iters[i] \in alive)' <=> i <= Depth'
    BY <1>4, <1>5 DEF IInv, WalkKeepsPlace
  <2>2. ASSUME NEW i \in 1 .. Depth
        PROVE  /\ walks[i].pc = "callback" /\ walks'[i].pc = "callback"
               /\ Top.pc = "callback" /\ (Top.pc)' = "callback"
    <3>1. Depth \in 1 .. Depth /\ walks # << >>
      BY <1>5 DEF Depth
    <3>2. Top.pc = "callback"
      BY <3>1 DEF ClientRuns
    <3>3. QED BY <1>5, <3>1, <3>2 DEF IInv, WalkKeepsPlace, SameWalks, Depth, Top
  <2>3. ASSUME NEW i \in 1 .. Depth
        PROVE  /\ table'.list.val[Iters[i]] = walks'[i].val
               /\ IF walks'[i].op = "delete"
                    THEN walks'[i].to = Null /\ (outcome' = "ok" => life'[walks'[i].val] = "dying")
                    ELSE walks'[i].to \in Values /\ life'[walks'[i].to] = "live"
    BY <1>3, <1>4, <1>5 DEF IInv, WalkKeepsPlace, SameWalks, Depth
  <2>4. QED BY <1>5, <2>1, <2>2, <2>3 DEF WalkKeepsPlace
<1>7. NoDanglingHandle'
  BY <1>1, <1>3 DEF IInv, NoDanglingHandle, Members
<1>8. QED BY <1>2, <1>6, <1>7 DEF IInv

(* What a constructed handle refers to is null, the tombstone, or a value  *)
(* that exists: a copy of it may refer to the same.                        *)
LEMMA ReferenceIsSafe ==
  ASSUME IInv, outcome = "ok", NEW m \in alive
  PROVE  /\ table.list.val[m] \in Referents
         /\ table.list.val[m] \in Values => life[table.list.val[m]] # "none"
BY DEF IInv, TypeOK, Lists, NoDanglingHandle, Members

(* A step of client code that makes the handle n refer to x.              *)
ClientMove(n, x) ==
  /\ ClientRuns /\ (x \in Values => life[x] # "none")
  /\ Holds(table', alive') /\ table'.list.val = [table.list.val EXCEPT ![n] = x]
  /\ alive' \ {n} = alive \ {n} /\ (n \in alive' \/ x = Null)
  /\ SameWalks(walks') /\ UNCHANGED <<life, outcome>>

(* Every operation client code has on handles moves one handle, to a value *)
(* that exists or to none.                                                 *)
LEMMA ClientHandleMoves ==
  ASSUME IInv, NEW n \in Handles, NEW m \in Handles, NEW v \in Referents,
         \/ NewHandle(n, v) \/ AssignHandle(n, v)
         \/ CopyHandle(n, m) \/ CopyAssignHandle(n, m) \/ DropHandle(n)
  PROVE  \E x \in Referents : ClientMove(n, x)
<1> USE DEF Handles, ClientMove
<1>1. /\ TypeOK /\ Holds(table, alive) /\ n \in Nodes
      /\ \A x : SameWalks(NoteLate(n, x)) /\ SameWalks(walks)
  BY NoteLateSame DEF IInv
<1>2. CASE NewHandle(n, v)
  <2>1. Holds(table', alive') /\ table'.list.val = [table.list.val EXCEPT ![n] = v]
    BY <1>1, <1>2, ConstructHolds DEF NewHandle
  <2>2. v \in Values => life[v] # "none"
    BY <1>2, NullAssumption DEF NewHandle, Reachable, Values
  <2>3. /\ ClientRuns /\ alive' \ {n} = alive \ {n} /\ n \in alive'
        /\ SameWalks(walks') /\ UNCHANGED <<life, outcome>>
    BY <1>1, <1>2 DEF NewHandle
  <2>4. QED BY <2>1, <2>2, <2>3
<1>3. CASE AssignHandle(n, v)
  <2>1. Holds(table', alive') /\ table'.list.val = [table.list.val EXCEPT ![n] = v]
    BY <1>1, <1>3, AssignHolds DEF AssignHandle
  <2>2. v \in Values => life[v] # "none"
    BY <1>3, NullAssumption DEF AssignHandle, Reachable, Values
  <2>3. /\ ClientRuns /\ alive' \ {n} = alive \ {n} /\ n \in alive'
        /\ SameWalks(walks') /\ UNCHANGED <<life, outcome>>
    BY <1>1, <1>3 DEF AssignHandle
  <2>4. QED BY <2>1, <2>2, <2>3
<1>4. CASE CopyHandle(n, m)
  <2>1. m \in alive /\ n \notin alive /\ alive' = alive \cup {n}
        /\ table' = CopyConstruct(table, n, m)
    BY <1>4 DEF CopyHandle
  <2>2. /\ Holds(table', alive')
        /\ table'.list.val = [table.list.val EXCEPT ![n] = table.list.val[m]]
    BY <1>1, <2>1, CopyConstructHolds
  <2>3. /\ ClientRuns /\ alive' \ {n} = alive \ {n} /\ n \in alive'
        /\ SameWalks(walks') /\ UNCHANGED <<life, outcome>>
    BY <1>1, <1>4 DEF CopyHandle
  <2>4. PICK x \in Referents : x = table.list.val[m] /\ (x \in Values => life[x] # "none")
    BY <2>1, <2>3, ReferenceIsSafe DEF ClientRuns
  <2>5. QED BY <2>2, <2>3, <2>4
<1>5. CASE CopyAssignHandle(n, m)
  <2>1. m \in alive /\ n \in alive /\ alive' = alive
        /\ table' = CopyAssign(table, n, m) /\ table.list.val[n] # table.list.val[m]
    BY <1>5 DEF CopyAssignHandle
  <2>2. /\ Holds(table', alive')
        /\ table'.list.val = [table.list.val EXCEPT ![n] = table.list.val[m]]
    BY <1>1, <2>1, CopyAssignHolds
  <2>3. /\ ClientRuns /\ alive' \ {n} = alive \ {n} /\ n \in alive'
        /\ SameWalks(walks') /\ UNCHANGED <<life, outcome>>
    BY <1>1, <1>5, <2>1 DEF CopyAssignHandle
  <2>4. PICK x \in Referents : x = table.list.val[m] /\ (x \in Values => life[x] # "none")
    BY <2>1, <2>3, ReferenceIsSafe DEF ClientRuns
  <2>5. QED BY <2>2, <2>3, <2>4
<1>6. CASE DropHandle(n)
  <2>1. Holds(table', alive') /\ table'.list.val = [table.list.val EXCEPT ![n] = Null]
    BY <1>1, <1>6, DropHolds DEF DropHandle
  <2>2. Null \in Referents /\ Null \notin Values
    BY NullAssumption DEF Referents, Values
  <2>3. /\ ClientRuns /\ alive' \ {n} = alive \ {n} /\ SameWalks(walks')
        /\ UNCHANGED <<life, outcome>>
    BY <1>1, <1>6 DEF DropHandle
  <2>4. QED BY <2>1, <2>2, <2>3
<1>7. QED BY <1>2, <1>3, <1>4, <1>5, <1>6

(* Every operation client code has on handles keeps the invariant.         *)
LEMMA ClientHandlesKeep ==
  ASSUME IInv, NEW n \in Handles, NEW m \in Handles, NEW v \in Referents,
         \/ NewHandle(n, v) \/ AssignHandle(n, v)
         \/ CopyHandle(n, m) \/ CopyAssignHandle(n, m) \/ DropHandle(n)
  PROVE  IInv'
<1>1. PICK x \in Referents : ClientMove(n, x)
  BY ClientHandleMoves
<1>2. QED BY <1>1, ClientMoveKeeps DEF ClientMove

(***************************************************************************)
(* A value without the bit has no handle: it may be freed at once.         *)
(***************************************************************************)
LEMMA UnmarkedIsFree ==
  ASSUME NEW T, NEW A, Holds(T, A), NEW v \in Values, v \notin T.marked
  PROVE  \A n \in A : T.list.val[n] # v
<1> SUFFICES ASSUME NEW n \in A, T.list.val[n] = v PROVE FALSE
  OBVIOUS
<1>1. WellLinked(T.list, Holding(T, A), Referents) /\ n \in Holding(T, A)
  BY DEF Holds, TableLinked, Holding
<1>2. T.list.head[v] # Null
  BY <1>1, LinkedHasHead
<1>3. QED BY <1>2 DEF Holds, TableLinked

(* Creating a value, or deleting one that has no handle, keeps the         *)
(* invariant: no handle refers to the value.                               *)
LEMMA ClientValuesKeep ==
  ASSUME IInv, NEW v \in Values, NewValue(v) \/ (DeleteValue(v) /\ v \notin table.marked)
  PROVE  IInv'
<1>1. /\ UNCHANGED <<table, alive, walks, outcome>> /\ outcome = "ok"
      /\ life' = [life EXCEPT ![v] = "live"] \/ life' = [life EXCEPT ![v] = "none"]
  BY DEF NewValue, DeleteValue, ClientRuns
<1>2. TypeOK' /\ Holds(table', alive')
  <2>1. TypeOK'
    BY <1>1 DEF IInv, TypeOK
  <2>2. Holds(table', alive')
    BY <1>1 DEF IInv
  <2>3. QED BY <2>1, <2>2
<1>3. \A w \in Values \ {v} : life'[w] = life[w]
  BY <1>1 DEF IInv, TypeOK
<1>4. \A i \in 1 .. Depth :
        /\ walks[i] \in Frames
        /\ walks[i].op = "delete" => walks[i].val # v
        /\ walks[i].op # "delete" => walks[i].to # v
  BY <1>1 DEF IInv, TypeOK, WalkKeepsPlace, NewValue, DeleteValue, Depth
<1>5. WalkKeepsPlace'
  BY <1>1, <1>3, <1>4 DEF IInv, WalkKeepsPlace, Depth, Top, Frames
<1>6. NoDanglingHandle'
  <2>1. CASE NewValue(v)
    BY <2>1, <1>1, <1>3 DEF IInv, TypeOK, NoDanglingHandle, Members, NewValue
  <2>2. CASE DeleteValue(v) /\ v \notin table.marked
    <3>1. \A n \in alive : table.list.val[n] # v
      BY <2>2, UnmarkedIsFree DEF IInv
    <3>2. QED BY <3>1, <1>1, <1>3 DEF IInv, NoDanglingHandle, Members
  <2>3. QED BY <2>1, <2>2
<1>7. QED BY <1>2, <1>5, <1>6 DEF IInv

(***************************************************************************)
(* Starting a walk: the new iterator is linked before the first handle,    *)
(* which is the handle to visit first.                                     *)
(***************************************************************************)
LEMMA StartWalkKeeps ==
  ASSUME IInv, ClientRuns, NEW op \in {"delete", "replace"}, NEW v \in Values,
         NEW w \in Values \cup {Null}, v \in table.marked, life[v] = "live",
         StartWalk(op, v, w), outcome' = outcome,
         \/ /\ op = "delete" /\ w = Null /\ \A i \in DOMAIN walks : walks[i].to # v
            /\ life' = [life EXCEPT ![v] = "dying"]
         \/ op = "replace" /\ w \in Values /\ life[w] = "live" /\ life' = life
  PROVE  IInv'
<1> DEFINE it == Iters[Depth + 1]
           h  == table.list.head[v]
           f  == [op |-> op, val |-> v, to |-> w, entry |-> h, pc |-> "visit", late |-> {}]
<1>1. /\ Depth \in Nat /\ Depth < Len(Iters) /\ Len(Iters) \in Nat
      /\ walks \in Seq(Frames) /\ Depth = Len(walks) /\ outcome = "ok"
  BY HandleAssumption DEF IInv, TypeOK, StartWalk, Depth, ClientRuns
<1>2. it \in Nodes /\ it \notin alive
  BY <1>1, HandleAssumption DEF IInv, WalkKeepsPlace
<1>3. h \in alive /\ h \in Nodes /\ table.list.val[h] = v
  BY NullAssumption DEF IInv, Holds, TableLinked, WellLinked, Linked, HeadLinked, Holding, Values
<1>4. /\ Holds(table', alive') /\ table'.list.val = [table.list.val EXCEPT ![it] = v]
      /\ table'.list.next[it] = h /\ alive' = alive \cup {it}
  <2>1. table' = CopyConstruct(table, it, h)
    BY <1>3 DEF StartWalk, CopyConstruct, IsValid
  <2> HIDE DEF it, h
  <2>2. Holds(table, alive)
    BY DEF IInv
  <2>3. /\ Holds(table', alive \cup {it}) /\ table'.list.val = [table.list.val EXCEPT ![it] = v]
        /\ table'.list.next[it] = h
    BY <1>2, <1>3, <2>1, <2>2, CopyConstructHolds
  <2>4. alive' = alive \cup {it}
    BY DEF StartWalk, it
  <2>5. QED BY <2>3, <2>4
<1>5. /\ walks' = Append(walks, f) /\ f \in Frames
  BY <1>3 DEF StartWalk, Frames
<1>6. /\ walks' \in Seq(Frames) /\ Depth' = Depth + 1 /\ walks'[Depth + 1] = f
      /\ \A i \in 1 .. Depth : walks'[i] = walks[i]
  <2> HIDE DEF f
  <2>1. QED BY <1>1, <1>5 DEF Depth
<1>7. TypeOK'
  <2>1. table' \in Tables /\ alive' \in SUBSET Nodes
    BY <1>4 DEF Holds, TableLinked
  <2>2. life' \in [Values -> {"none", "live", "dying"}]
    BY DEF IInv, TypeOK
  <2>3. QED BY <1>1, <1>6, <2>1, <2>2 DEF TypeOK, Tables, Depth
<1>8. /\ table.list.val \in [Nodes -> Referents]
      /\ \A m \in Nodes \ {it} : table'.list.val[m] = table.list.val[m]
      /\ table'.list.val[it] = v
  BY <1>2, <1>4 DEF IInv, TypeOK, Lists
<1>9. \A i \in 1 .. Depth : Iters[i] \in Nodes \ {it}
  BY <1>1, HandleAssumption
<1>10. WalkKeepsPlace'
  <2>1. \A i \in 1 .. Len(Iters) : (Iters[i] \in alive)' <=> i <= Depth'
    BY <1>1, <1>4, <1>6, HandleAssumption DEF IInv, WalkKeepsPlace
  <2>2. (Top.pc)' = "visit"
    BY <1>6, <1>1 DEF Top
  <2>3. ASSUME NEW i \in 1 .. Depth
        PROVE  /\ walks'[i].pc = "callback" /\ i < Depth'
               /\ table'.list.val[Iters[i]] = walks'[i].val
               /\ IF walks'[i].op = "delete"
                    THEN walks'[i].to = Null /\ (outcome' = "ok" => life'[walks'[i].val] = "dying")
                    ELSE walks'[i].to \in Values /\ life'[walks'[i].to] = "live"
    <3>1. walks[i] \in Frames /\ walks'[i] = walks[i] /\ walks # << >> /\ i \in DOMAIN walks
      BY <1>1, <1>6
    <3>2. walks[i].pc = "callback" /\ i < Depth'
      BY <1>1, <1>6, <3>1 DEF IInv, WalkKeepsPlace, ClientRuns
    <3>3. table'.list.val[Iters[i]] = walks'[i].val
      BY <1>8, <1>9, <3>1 DEF IInv, WalkKeepsPlace
    <3>4. /\ walks[i].op = "delete" => walks[i].to = Null /\ life[walks[i].val] = "dying"
          /\ walks[i].op # "delete" => walks[i].to \in Values /\ life[walks[i].to] = "live"
      BY <1>1 DEF IInv, WalkKeepsPlace
    <3>5. life \in [Values -> {"none", "live", "dying"}]
      BY DEF IInv, TypeOK
    <3>6. walks[i].val \in Values
      BY <3>1 DEF Frames
    <3>7. QED BY <3>1, <3>2, <3>3, <3>4, <3>5, <3>6
  <2>4. /\ table'.list.val[Iters[Depth']] = walks'[Depth'].val
        /\ walks'[Depth'].pc = "visit"
        /\ walks'[Depth'].entry = table'.list.next[Iters[Depth']]
        /\ IF walks'[Depth'].op = "delete"
             THEN walks'[Depth'].to = Null /\ (outcome' = "ok" => life'[walks'[Depth'].val] = "dying")
             ELSE walks'[Depth'].to \in Values /\ life'[walks'[Depth'].to] = "live"
    BY <1>4, <1>6, <1>8 DEF IInv, TypeOK
  <2>5. \A i \in 1 .. Depth' : i \in 1 .. Depth \/ i = Depth'
    BY <1>1, <1>6
  <2>6. QED BY <1>1, <1>6, <2>1, <2>2, <2>3, <2>4, <2>5 DEF WalkKeepsPlace
<1>11. NoDanglingHandle'
  <2>1. \A x \in Values : life[x] # "none" => life'[x] # "none"
    BY DEF IInv, TypeOK
  <2>2. QED BY <1>1, <1>4, <1>8, <2>1 DEF IInv, TypeOK, NoDanglingHandle, Members
<1>12. QED BY <1>4, <1>7, <1>10, <1>11 DEF IInv

(***************************************************************************)
(* The innermost walk, and the handle it is about to visit.                *)
(***************************************************************************)
LEMMA TopFacts ==
  ASSUME IInv, walks # << >>
  PROVE  /\ Depth \in 1 .. Len(Iters) /\ Depth = Len(walks) /\ walks \in Seq(Frames)
         /\ Top \in Frames /\ Top = walks[Depth]
         /\ Iter \in alive /\ Iter \in Nodes /\ Kind[Iter] = "Assert"
         /\ table.list.val[Iter] = Top.val /\ Top.val \in Values
<1>1. /\ Depth \in 1 .. Len(Iters) /\ Depth = Len(walks) /\ walks \in Seq(Frames)
      /\ Top \in Frames /\ Top = walks[Depth]
  BY HandleAssumption DEF IInv, TypeOK, Depth, Top
<1>2. /\ Iter \in alive /\ Iter \in Nodes /\ Kind[Iter] = "Assert"
      /\ table.list.val[Iter] = Top.val
  BY <1>1, HandleAssumption DEF IInv, WalkKeepsPlace, Iter
<1>3. Top.val \in Values
  BY <1>1 DEF Frames
<1>4. QED BY <1>1, <1>2, <1>3

(* The handle a walk is about to visit is constructed, is not the walk's   *)
(* own iterator and refers to the value walked.                            *)
LEMMA EntryFacts ==
  ASSUME IInv, walks # << >>, Top.pc = "visit", NEW k, k = Top.entry, k # Null
  PROVE  k \in alive /\ k \in Nodes /\ k # Iter /\ table.list.val[k] = table.list.val[Iter]
<1> DEFINE M == Holding(table, alive)
<1>1. /\ Iter \in M /\ M \subseteq alive /\ M \subseteq Nodes
  BY TopFacts DEF Holding, IInv, Holds
<1>2. k = table.list.next[Iter]
  BY TopFacts DEF IInv, WalkKeepsPlace, Iter
<1>3. Linked(table.list, M) /\ Anchored(table.list, M)
  BY DEF IInv, Holds, TableLinked, WellLinked
<1> HIDE DEF M
<1>4. k \in M /\ table.list.prev[k] = NextOf(Iter) /\ table.list.val[k] = table.list.val[Iter]
  BY <1>1, <1>2, <1>3 DEF Linked, NodeLinked
<1>5. k # Iter
  <2> SUFFICES ASSUME k = Iter PROVE FALSE
    OBVIOUS
  <2>1. {Iter} \in SUBSET M /\ {Iter} # {}
    BY <1>1
  <2>2. PICK n \in {Iter} : \A j \in {Iter} : table.list.prev[n] # NextOf(j)
    BY <2>1, <1>3 DEF Anchored
  <2>3. QED BY <2>2, <1>4
<1>6. QED BY <1>1, <1>4, <1>5

(***************************************************************************)
(* Visiting a handle redirects at most that handle: to nothing, to the     *)
(* tombstone, or to the value that replaces the one it referred to.        *)
(***************************************************************************)
Notified(T, A, k, w, R) ==
  \E x \in Referents :
    /\ Holds(R, A) /\ R.list.val = [T.list.val EXCEPT ![k] = x]
    /\ x \in Values => x = T.list.val[k] \/ x = w.to
    /\ Kind[k] = "Assert" => x = T.list.val[k]

(* Visiting a handle changes what that handle refers to, and nothing       *)
(* else.                                                                   *)
LEMMA NotifyHolds ==
  ASSUME NEW T, NEW A, Holds(T, A), NEW k \in A, NEW w \in Frames,
         NEW R, R = Notify(T, k, w)
  PROVE  Notified(T, A, k, w, R)
<1> USE DEF Notified
<1>1. /\ k \in Nodes /\ Kind[k] \in Kinds /\ T.list.val \in [Nodes -> Referents]
      /\ w.to \in Referents /\ {Null, Tombstone} \subseteq Referents
      /\ Null \notin Values /\ Tombstone \notin Values
  BY HandleAssumption, NullAssumption
     DEF Holds, TableLinked, WellLinked, Lists, Frames, Referents, Values
<1>2. CASE R = T
  <2>1. [T.list.val EXCEPT ![k] = T.list.val[k]] = T.list.val /\ T.list.val[k] \in Referents
    BY <1>1
  <2>2. QED BY <1>2, <2>1
<1>3. ASSUME NEW x \in {w.to, Null, Tombstone}, R = Assign(T, k, x), Kind[k] # "Assert"
      PROVE  \E y \in Referents :
               /\ Holds(R, A) /\ R.list.val = [T.list.val EXCEPT ![k] = y]
               /\ y \in Values => y = T.list.val[k] \/ y = w.to
               /\ Kind[k] = "Assert" => y = T.list.val[k]
  <2>1. x \in Referents
    BY <1>1
  <2>2. Holds(R, A) /\ R.list.val = [T.list.val EXCEPT ![k] = x]
    BY <1>3, <2>1, AssignHolds
  <2>3. QED BY <1>1, <1>3, <2>1, <2>2
<1>4. R = T \/ (Kind[k] # "Assert" /\ \E x \in {w.to, Null, Tombstone} : R = Assign(T, k, x))
  BY <1>1 DEF Notify, Kinds
<1>5. QED BY <1>2, <1>3, <1>4

(***************************************************************************)
(* A step of the innermost walk that moves at most one handle, no iterator,*)
(* and re-reads the successor of its iterator keeps the invariant.         *)
(***************************************************************************)
LEMMA WalkMoveKeeps ==
  ASSUME IInv, outcome = "ok", walks # << >>, NEW k \in Nodes, NEW x \in Referents,
         x \in Values => life[x] # "none",
         Kind[k] = "Assert" => x = table.list.val[k],
         Holds(table', alive), table'.list.val = [table.list.val EXCEPT ![k] = x],
         walks' \in Seq(Frames), Len(walks') = Len(walks),
         \A i \in 1 .. Len(walks) :
           /\ walks'[i].op = walks[i].op /\ walks'[i].val = walks[i].val
           /\ walks'[i].to = walks[i].to
           /\ i < Depth => walks'[i].pc = walks[i].pc,
         \/ walks'[Depth].pc = "callback"
         \/ walks'[Depth].pc = "visit" /\ walks'[Depth].entry = table'.list.next[Iter],
         UNCHANGED <<alive, life, outcome>>
  PROVE  IInv'
<1>1. /\ Depth \in Nat /\ Depth' = Depth /\ Depth <= Len(Iters) /\ Depth \in 1 .. Depth
      /\ Depth = Len(walks)
  BY TopFacts DEF Depth
<1>2. TypeOK'
  <2>1. table' \in Tables
    BY DEF Holds, TableLinked
  <2>2. QED BY <2>1, <1>1 DEF IInv, TypeOK, Tables, Depth
<1>3. /\ table.list.val \in [Nodes -> Referents]
      /\ \A m \in Nodes \ {k} : table'.list.val[m] = table.list.val[m]
      /\ table'.list.val[k] = x
  BY DEF IInv, TypeOK, Lists
<1>4. \A i \in 1 .. Depth : /\ Iters[i] \in Nodes
                            /\ table'.list.val[Iters[i]] = table.list.val[Iters[i]]
  BY <1>1, <1>3, HandleAssumption
<1>5. /\ (Top.pc)' = walks'[Depth].pc /\ (Top.pc)' \in {"visit", "callback"}
  <2>1. walks'[Depth] \in Frames
    BY <1>1
  <2>2. QED BY <1>1, <2>1 DEF Top, Frames
<1>6. WalkKeepsPlace'
  <2>1. \A i \in 1 .. Len(Iters) : (Iters[i] \in alive)' <=> i <= Depth'
    BY <1>1 DEF IInv, WalkKeepsPlace
  <2>2. ASSUME NEW i \in 1 .. Depth
        PROVE  /\ table'.list.val[Iters[i]] = walks'[i].val
               /\ walks'[i].pc = "callback" <=> (i < Depth \/ (Top.pc)' = "callback")
               /\ walks'[i].pc = "visit" => walks'[i].entry = table'.list.next[Iters[i]]
               /\ IF walks'[i].op = "delete"
                    THEN walks'[i].to = Null /\ (outcome' = "ok" => life'[walks'[i].val] = "dying")
                    ELSE walks'[i].to \in Values /\ life'[walks'[i].to] = "live"
    <3>1. CASE i < Depth
      <4>1. walks'[i].pc = "callback"
        BY <1>1, <3>1 DEF IInv, WalkKeepsPlace
      <4>2. QED BY <1>1, <1>4, <3>1, <4>1 DEF IInv, WalkKeepsPlace
    <3>2. CASE i = Depth
      BY <1>1, <1>4, <1>5, <3>2 DEF IInv, WalkKeepsPlace, Iter
    <3>3. QED BY <1>1, <3>1, <3>2
  <2>3. QED BY <1>1, <2>1, <2>2 DEF WalkKeepsPlace
<1>7. NoDanglingHandle'
  BY <1>3 DEF IInv, TypeOK, NoDanglingHandle, Members
<1>8. QED BY <1>2, <1>6, <1>7 DEF IInv

(***************************************************************************)
(* Updating the innermost frame leaves the others alone.                   *)
(***************************************************************************)
FrameSet(s, d, F, p, e) ==
  /\ F \in Seq(Frames) /\ Len(F) = Len(s)
  /\ \A i \in 1 .. Len(s) :
       /\ F[i].op = s[i].op /\ F[i].val = s[i].val /\ F[i].to = s[i].to
       /\ i # d => F[i].pc = s[i].pc
  /\ F[d].pc = p /\ F[d].entry = e

(* Setting the entry or the pc of one walk leaves the other walks, and     *)
(* the rest of that one, as they were.                                     *)
LEMMA FrameUpdate ==
  ASSUME NEW s \in Seq(Frames), NEW d \in 1 .. Len(s), NEW e \in Nodes \cup {Null},
         NEW p \in {"visit", "callback"},
         NEW F, \/ F = [s EXCEPT ![d].entry = e] /\ p = s[d].pc
                \/ F = [s EXCEPT ![d].pc = p] /\ e = s[d].entry
                \/ F = [s EXCEPT ![d].pc = p, ![d].entry = e]
  PROVE  FrameSet(s, d, F, p, e)
<1> USE DEF FrameSet
<1>1. PICK f \in Frames : f = s[d]
  OBVIOUS
<1>3. \/ F = [s EXCEPT ![d] = [f EXCEPT !.entry = e]] /\ p = f.pc
      \/ F = [s EXCEPT ![d] = [f EXCEPT !.pc = p]] /\ e = f.entry
      \/ F = [s EXCEPT ![d] = [f EXCEPT !.pc = p, !.entry = e]]
  BY <1>1
<1>4. ASSUME NEW H, \/ H = [f EXCEPT !.entry = e] /\ p = f.pc
                    \/ H = [f EXCEPT !.pc = p] /\ e = f.entry
                    \/ H = [f EXCEPT !.pc = p, !.entry = e]
      PROVE  /\ H \in Frames /\ H.op = f.op /\ H.val = f.val /\ H.to = f.to
             /\ H.pc = p /\ H.entry = e
  BY <1>4 DEF Frames
<1>5. PICK H : /\ F = [s EXCEPT ![d] = H]
               /\ H \in Frames /\ H.op = f.op /\ H.val = f.val /\ H.to = f.to
               /\ H.pc = p /\ H.entry = e
  BY <1>3, <1>4
<1>6. /\ F \in Seq(Frames) /\ Len(F) = Len(s) /\ F[d] = H
      /\ \A i \in 1 .. Len(s) : i # d => F[i] = s[i]
  BY <1>5
<1>7. QED BY <1>1, <1>5, <1>6

(* A visit moves at most the handle visited, and then reads the successor  *)
(* of the iterator.                                                        *)
VisitMove(k, x) ==
  /\ k \in alive /\ k \in Nodes /\ (x \in Values => life[x] # "none")
  /\ Kind[k] = "Assert" => x = table.list.val[k]
  /\ Holds(table', alive) /\ table'.list.val = [table.list.val EXCEPT ![k] = x]
  /\ \E N : /\ SameWalks(N) /\ N = NoteLate(k, table'.list.val[k])
            /\ walks' = [N EXCEPT ![Depth].entry = table'.list.next[Iter]]

(* What an iteration of the loop changes, when it runs no client code.     *)
LEMMA VisitMoves ==
  ASSUME IInv, Visit
  PROVE  \E x \in Referents : VisitMove(Top.entry, x)
<1> DEFINE k == Top.entry
<1> USE DEF VisitMove
<1>1. /\ outcome = "ok" /\ walks # << >> /\ Holds(table, alive) /\ TypeOK
  BY DEF Visit, InLoop, IInv
<1>2. /\ Iter \in alive /\ Top \in Frames /\ table.list.val[Iter] \in Values
  BY <1>1, TopFacts
<1>3. k \in alive /\ k \in Nodes /\ k # Iter /\ table.list.val[k] = table.list.val[Iter]
  BY <1>1, EntryFacts DEF Visit, InLoop
<1>4. PICK T : T = MoveIter(table, Iter, k) /\
        \E U \in {Notify(T, k, Top)} :
           /\ table' = U
           /\ walks' = [NoteLate(k, U.list.val[k]) EXCEPT ![Depth].entry = U.list.next[Iter]]
  BY DEF Visit, InLoop, Successor
<1>5. Holds(T, alive) /\ T.list.val = table.list.val
  <2>1. T = MoveIter(table, Iter, k)
    BY <1>4
  <2> HIDE DEF k
  <2>2. QED BY <1>1, <1>2, <1>3, <2>1, MoveIterHolds
<1>6. PICK x \in Referents :
         /\ Holds(table', alive) /\ table'.list.val = [T.list.val EXCEPT ![k] = x]
         /\ x \in Values => x = T.list.val[k] \/ x = Top.to
         /\ Kind[k] = "Assert" => x = T.list.val[k]
  <2>1. table' = Notify(T, k, Top)
    BY <1>4
  <2>2. Notified(T, alive, k, Top, table')
    <3> HIDE DEF k
    <3>1. QED BY <1>2, <1>3, <1>5, <2>1, NotifyHolds
  <2>3. QED BY <2>2 DEF Notified
<1>7. x \in Values => life[x] # "none"
  <2>1. Top.to \in Values => life[Top.to] # "none"
    BY <1>1, <1>2, TopFacts, NullAssumption DEF IInv, WalkKeepsPlace, Values
  <2>2. QED BY <1>1, <1>3, <1>5, <1>6, <2>1, ReferenceIsSafe
<1>8. PICK N : N = NoteLate(k, table'.list.val[k])
  OBVIOUS
<1>9. SameWalks(N) /\ walks' = [N EXCEPT ![Depth].entry = table'.list.next[Iter]]
  BY <1>1, <1>3, <1>4, <1>8, NoteLateSame
<1> HIDE DEF k
<1>10. VisitMove(k, x)
  BY <1>3, <1>5, <1>6, <1>7, <1>8, <1>9
<1>11. QED BY <1>10 DEF k

(* A visit, a call of an overridden virtual function and its return keep   *)
(* the invariant.                                                          *)
LEMMA WalkLoopKeeps ==
  ASSUME IInv, Visit \/ EnterCallback \/ ReturnFromCallback
  PROVE  IInv'
<1> DEFINE k == Top.entry
<1>1. /\ outcome = "ok" /\ walks # << >> /\ UNCHANGED <<alive, life, outcome>>
      /\ Holds(table, alive) /\ TypeOK
  BY DEF Visit, EnterCallback, ReturnFromCallback, InLoop, IInv
<1>2. /\ Depth \in 1 .. Len(walks) /\ Depth = Len(walks) /\ walks \in Seq(Frames)
      /\ Iter \in alive /\ Iter \in Nodes /\ Top \in Frames /\ Top = walks[Depth]
      /\ table.list.val[Iter] \in Values
  BY <1>1, TopFacts
<1>3. /\ table.list.val \in [Nodes -> Referents]
      /\ \A m \in Nodes : [table.list.val EXCEPT ![m] = table.list.val[m]] = table.list.val
  BY <1>1 DEF TypeOK, Lists
<1>4. \A m \in alive : /\ table.list.val[m] \in Referents
                       /\ table.list.val[m] \in Values => life[table.list.val[m]] # "none"
  BY <1>1, ReferenceIsSafe
<1>5. CASE Visit
  <2>1. PICK x \in Referents : VisitMove(k, x)
    BY <1>5, VisitMoves
  <2>2. PICK N : /\ SameWalks(N)
                 /\ walks' = [N EXCEPT ![Depth].entry = table'.list.next[Iter]]
    BY <2>1 DEF VisitMove
  <2>3. table'.list.next[Iter] \in Nodes \cup {Null}
    BY <1>2, <2>1 DEF VisitMove, Holds, TableLinked, WellLinked, Lists
  <2>4. N \in Seq(Frames) /\ Depth \in 1 .. Len(N) /\ N[Depth].pc = "visit"
    BY <1>2, <1>5, <2>2 DEF SameWalks, Visit, InLoop
  <2>5. FrameSet(N, Depth, walks', "visit", table'.list.next[Iter])
    BY <2>2, <2>3, <2>4, FrameUpdate
  <2>6. /\ walks' \in Seq(Frames) /\ Len(walks') = Len(walks)
        /\ \A i \in 1 .. Len(walks) :
             /\ walks'[i].op = walks[i].op /\ walks'[i].val = walks[i].val
             /\ walks'[i].to = walks[i].to
             /\ i < Depth => walks'[i].pc = walks[i].pc
        /\ walks'[Depth].pc = "visit" /\ walks'[Depth].entry = table'.list.next[Iter]
    BY <1>2, <2>2, <2>5 DEF SameWalks, FrameSet
  <2> HIDE DEF k
  <2>7. /\ k \in Nodes /\ (x \in Values => life[x] # "none")
        /\ Kind[k] = "Assert" => x = table.list.val[k]
        /\ Holds(table', alive) /\ table'.list.val = [table.list.val EXCEPT ![k] = x]
    BY <2>1 DEF VisitMove
  <2>8. QED BY <1>1, <2>1, <2>6, <2>7, WalkMoveKeeps
<1>6. CASE EnterCallback
  <2>1. k # Null
    BY <1>6, HandleAssumption, NullAssumption DEF EnterCallback, Handles
  <2>2. /\ k \in alive /\ k \in Nodes /\ k # Iter /\ table.list.val[k] = table.list.val[Iter]
    BY <1>1, <1>6, <2>1, EntryFacts DEF EnterCallback, InLoop
  <2>3. table' = MoveIter(table, Iter, k)
    BY <1>6 DEF EnterCallback
  <2> HIDE DEF k
  <2>4. Holds(table', alive) /\ table'.list.val = table.list.val
    BY <1>1, <1>2, <2>2, <2>3, MoveIterHolds
  <2>5. walks' = [walks EXCEPT ![Depth].pc = "callback"]
    BY <1>6 DEF EnterCallback
  <2>6. walks[Depth].entry \in Nodes \cup {Null}
    BY <1>2 DEF Frames
  <2>9. /\ walks' \in Seq(Frames) /\ Len(walks') = Len(walks)
        /\ \A i \in 1 .. Len(walks) :
             /\ walks'[i].op = walks[i].op /\ walks'[i].val = walks[i].val
             /\ walks'[i].to = walks[i].to
             /\ i # Depth => walks'[i].pc = walks[i].pc
        /\ walks'[Depth].pc = "callback"
    <3>1. FrameSet(walks, Depth, walks', "callback", walks[Depth].entry)
      BY <1>2, <2>5, <2>6, FrameUpdate
    <3>2. QED BY <3>1 DEF FrameSet
  <2>10. PICK x \in Referents : /\ x = table.list.val[k] /\ (x \in Values => life[x] # "none")
                                /\ table'.list.val = [table.list.val EXCEPT ![k] = x]
    BY <1>3, <1>4, <2>2, <2>4
  <2>11. QED BY <1>1, <1>2, <2>2, <2>4, <2>9, <2>10, WalkMoveKeeps
<1>7. CASE ReturnFromCallback
  <2>1. table' = table /\ table'.list.next[Iter] \in Nodes \cup {Null}
    BY <1>1, <1>2, <1>7 DEF ReturnFromCallback, TypeOK, Lists
  <2>2. walks' = [walks EXCEPT ![Depth].pc = "visit", ![Depth].entry = table'.list.next[Iter]]
    BY <1>7, <2>1 DEF ReturnFromCallback, Successor
  <2>6. /\ walks' \in Seq(Frames) /\ Len(walks') = Len(walks)
        /\ \A i \in 1 .. Len(walks) :
             /\ walks'[i].op = walks[i].op /\ walks'[i].val = walks[i].val
             /\ walks'[i].to = walks[i].to
             /\ i # Depth => walks'[i].pc = walks[i].pc
        /\ walks'[Depth].pc = "visit" /\ walks'[Depth].entry = table'.list.next[Iter]
    <3>1. FrameSet(walks, Depth, walks', "visit", table'.list.next[Iter])
      BY <1>2, <2>1, <2>2, FrameUpdate
    <3>2. QED BY <3>1 DEF FrameSet
  <2>7. PICK x \in Referents : /\ x = table.list.val[Iter] /\ (x \in Values => life[x] # "none")
                               /\ table'.list.val = [table.list.val EXCEPT ![Iter] = x]
    BY <1>2, <1>3, <1>4, <2>1
  <2>8. Holds(table', alive)
    BY <1>1, <2>1
  <2>9. QED BY <1>1, <1>2, <2>6, <2>7, <2>8, WalkMoveKeeps
<1>8. QED BY <1>5, <1>6, <1>7

(***************************************************************************)
(* The end of a walk: the iterator is gone, the walk further out resumes   *)
(* in its callback, and a value is freed only when its bit is off, so that *)
(* no handle, and no iterator of a walk further out, refers to it.         *)
(***************************************************************************)
LEMMA WalkEndKeeps ==
  ASSUME IInv, FinishDelete \/ FinishReplace
  PROVE  IInv'
<1> DEFINE B == alive \ {Iter}
<1>1. /\ walks # << >> /\ outcome = "ok" /\ Holds(table, alive) /\ TypeOK
      /\ table' = AfterWalk /\ alive' = B /\ walks' = SubSeq(walks, 1, Depth - 1)
      /\ outcome' \in {"ok", "failed"}
  BY DEF FinishDelete, FinishReplace, AtEnd, InLoop, IInv
<1>2. /\ Depth \in 1 .. Len(Iters) /\ Depth = Len(walks) /\ walks \in Seq(Frames)
      /\ Iter \in alive /\ Iter \in Nodes /\ Top \in Frames /\ Top = walks[Depth]
      /\ table.list.val[Iter] = Top.val /\ Top.val \in Values /\ Len(Iters) \in Nat
  BY <1>1, TopFacts, HandleAssumption
<1>3. Holds(table', B) /\ table'.list.val = [table.list.val EXCEPT ![Iter] = Null]
  <2>1. table' = Forget(Release(table, Iter), Iter)
    BY <1>1, <1>2 DEF AfterWalk, Release, IsValid
  <2>2. Holds(table, alive) /\ Iter \in alive
    BY <1>1, <1>2
  <2>3. QED BY <2>1, <2>2, DropHolds
<1>4. /\ walks' \in Seq(Frames) /\ Len(walks') = Depth - 1 /\ Depth' = Depth - 1
      /\ \A i \in 1 .. Depth - 1 : walks'[i] = walks[i] /\ walks[i].pc = "callback"
  <2>1. /\ walks' \in Seq(Frames) /\ Len(walks') = Depth - 1
        /\ \A i \in 1 .. Depth - 1 : walks'[i] = walks[i]
    BY <1>1, <1>2
  <2>2. \A i \in 1 .. Depth - 1 : walks[i].pc = "callback"
    BY <1>2 DEF IInv, WalkKeepsPlace
  <2>3. QED BY <2>1, <2>2 DEF Depth
<1>5. /\ table.list.val \in [Nodes -> Referents]
      /\ \A m \in Nodes \ {Iter} : table'.list.val[m] = table.list.val[m]
      /\ \A i \in 1 .. Depth - 1 : Iters[i] \in B /\ Iters[i] \in Nodes \ {Iter}
  <2>1. table.list.val \in [Nodes -> Referents]
    BY <1>1 DEF TypeOK, Lists
  <2>2. \A i \in 1 .. Depth - 1 : Iters[i] # Iter /\ Iters[i] \in Nodes /\ Iters[i] \in alive
    BY <1>2, HandleAssumption DEF IInv, WalkKeepsPlace, Iter
  <2>3. QED BY <1>3, <2>1, <2>2
<1>6. life \in [Values -> {"none", "live", "dying"}]
  BY <1>1 DEF TypeOK
<1>7. \/ life' = life
      \/ /\ life' = [life EXCEPT ![Top.val] = "none"] /\ life[Top.val] = "dying"
         /\ \A m \in B : table'.list.val[m] # Top.val
  <2>1. CASE FinishReplace
    BY <2>1 DEF FinishReplace
  <2>2. CASE FinishDelete /\ Top.val \in AfterWalk.marked
    BY <2>2 DEF FinishDelete
  <2>3. CASE FinishDelete /\ Top.val \notin AfterWalk.marked
    <3>1. life' = [life EXCEPT ![Top.val] = "none"] /\ Top.op = "delete"
      BY <2>3 DEF FinishDelete
    <3>2. life[Top.val] = "dying"
      BY <1>1, <1>2, <3>1 DEF IInv, WalkKeepsPlace
    <3>3. \A m \in B : table'.list.val[m] # Top.val
      <4>1. Holds(table', B) /\ Top.val \in Values /\ Top.val \notin table'.marked
        BY <1>1, <1>2, <1>3, <2>3
      <4> HIDE DEF B
      <4>2. QED BY <4>1, UnmarkedIsFree
    <3>4. QED BY <3>1, <3>2, <3>3
  <2>4. QED BY <2>1, <2>2, <2>3 DEF FinishDelete, FinishReplace
<1>8. TypeOK'
  <2>1. table' \in Tables /\ alive' \in SUBSET Nodes
    BY <1>1, <1>3 DEF Holds, TableLinked
  <2>2. life' \in [Values -> {"none", "live", "dying"}]
    BY <1>6, <1>7
  <2>3. QED BY <1>1, <1>2, <1>4, <2>1, <2>2 DEF TypeOK, Tables
<1>9. WalkKeepsPlace'
  <2>1. \A i \in 1 .. Len(Iters) : (Iters[i] \in alive)' <=> i <= Depth'
    <3>1. \A i \in 1 .. Len(Iters) : Iters[i] = Iter <=> i = Depth
      BY <1>2, HandleAssumption DEF Iter
    <3>2. QED BY <1>1, <1>2, <1>4, <3>1 DEF IInv, WalkKeepsPlace
  <2>2. ASSUME NEW i \in 1 .. Depth - 1
        PROVE  /\ walks'[i].pc = "callback" /\ (Top.pc)' = "callback"
               /\ table'.list.val[Iters[i]] = walks'[i].val
               /\ IF walks'[i].op = "delete"
                    THEN walks'[i].to = Null /\ (outcome' = "ok" => life'[walks'[i].val] = "dying")
                    ELSE walks'[i].to \in Values /\ life'[walks'[i].to] = "live"
    <3>1. i \in 1 .. Depth /\ Depth - 1 \in 1 .. Depth - 1
      BY <1>2
    <3>2. walks'[i] = walks[i] /\ walks'[i].pc = "callback" /\ (Top.pc)' = "callback"
      BY <1>4, <3>1 DEF Top
    <3>3. table'.list.val[Iters[i]] = walks'[i].val
      BY <1>5, <3>1, <3>2 DEF IInv, WalkKeepsPlace
    <3>4. walks[i] \in Frames /\ walks[i].val \in Values
      <4>1. walks[i] \in Frames
        BY <1>2, <3>1
      <4>2. QED BY <4>1 DEF Frames
    <3>5. /\ walks[i].op = "delete" => walks[i].to = Null /\ life[walks[i].val] = "dying"
          /\ walks[i].op # "delete" => walks[i].to \in Values /\ life[walks[i].to] = "live"
      BY <1>1, <3>1 DEF IInv, WalkKeepsPlace
    <3>6. CASE life' = life
      BY <3>2, <3>3, <3>5, <3>6
    <3>7. CASE life' # life
      <4>1. walks[i].val # Top.val
        BY <1>5, <1>7, <3>2, <3>3, <3>7
      <4>2. QED BY <1>2, <1>6, <1>7, <3>2, <3>3, <3>4, <3>5, <3>7, <4>1
    <3>8. QED BY <3>6, <3>7
  <2>3. QED BY <1>4, <2>1, <2>2 DEF WalkKeepsPlace
<1>10. NoDanglingHandle'
  <2>1. \A m \in B : m \in Nodes \ {Iter} /\ m \in alive
    BY <1>1 DEF TypeOK
  <2>2. QED BY <1>1, <1>2, <1>5, <1>6, <1>7, <2>1 DEF IInv, NoDanglingHandle, Members
<1>11. QED BY <1>1, <1>3, <1>8, <1>9, <1>10 DEF IInv

(* Before any value or handle exists the invariant holds.                  *)
LEMMA InitHolds == Init => IInv
<1> SUFFICES ASSUME Init PROVE IInv
  OBVIOUS
<1>1. /\ alive = {} /\ walks = << >> /\ outcome = "ok" /\ Len(Iters) \in Nat
      /\ Null \in Referents /\ Len(walks) = 0 /\ life = [v \in Values |-> "none"]
  BY HandleAssumption DEF Init, Referents
<1>2. /\ table.list \in Lists(Referents) /\ table.keys = {} /\ table.marked = {}
      /\ \A v \in Owners : table.list.head[v] = Null
      /\ table \in Tables
  BY <1>1 DEF Init, Lists, Tables
<1>3. TypeOK
  <2>1. walks \in Seq(Frames) /\ Len(walks) <= Len(Iters)
    BY <1>1
  <2>2. alive \in SUBSET Nodes /\ life \in [Values -> {"none", "live", "dying"}]
    BY <1>1
  <2>3. QED BY <1>1, <1>2, <2>1, <2>2 DEF TypeOK, Tables
<1>4. Holds(table, alive)
  <2>1. Holding(table, alive) = {}
    BY <1>1 DEF Holding
  <2>2. Linked(table.list, {}) /\ Anchored(table.list, {})
    BY <1>2 DEF Linked, HeadLinked, Anchored
  <2>3. WellLinked(table.list, {}, Referents)
    BY <1>2, <2>2 DEF WellLinked
  <2>4. table.keys = {v \in Values : table.list.head[v] # Null}
    BY <1>2 DEF Values
  <2>5. TableLinked(table, {})
    BY <1>2, <2>3, <2>4 DEF TableLinked
  <2>6. QED BY <1>1, <2>1, <2>5 DEF Holds
<1>5. WalkKeepsPlace
  BY <1>1 DEF WalkKeepsPlace, Depth
<1>6. NoDanglingHandle
  BY <1>1 DEF NoDanglingHandle, Members
<1>7. QED BY <1>3, <1>4, <1>5, <1>6 DEF IInv

(***************************************************************************)
(* The invariant is inductive: one case for each action.                   *)
(***************************************************************************)
LEMMA NextKeeps == IInv /\ [Next]_vars => IInv'
<1> SUFFICES ASSUME IInv, [Next]_vars PROVE IInv'
  OBVIOUS
<1>1. CASE \E n \in Handles, v \in Referents : NewHandle(n, v) \/ AssignHandle(n, v)
  BY <1>1, ClientHandlesKeep
<1>2. CASE \E n, m \in Handles : CopyHandle(n, m) \/ CopyAssignHandle(n, m)
  <2>1. Null \in Referents
    BY DEF Referents
  <2>2. QED BY <1>2, <2>1, ClientHandlesKeep
<1>3. CASE \E n \in Handles : DropHandle(n)
  <2>1. Null \in Referents
    BY DEF Referents
  <2>2. QED BY <1>3, <2>1, ClientHandlesKeep
<1>4. ASSUME NEW v \in Values, NewValue(v) \/ DeleteValue(v) PROVE IInv'
  <2>1. CASE NewValue(v) \/ v \notin table.marked
    BY <1>4, <2>1, ClientValuesKeep
  <2>2. CASE DeleteValue(v) /\ v \in table.marked
    <3>1. /\ ClientRuns /\ life[v] = "live" /\ StartWalk("delete", v, Null)
          /\ \A i \in DOMAIN walks : walks[i].to # v
          /\ life' = [life EXCEPT ![v] = "dying"] /\ outcome' = outcome
      BY <2>2 DEF DeleteValue
    <3>2. Null \in Values \cup {Null} /\ "delete" \in {"delete", "replace"}
      OBVIOUS
    <3>3. QED BY <2>2, <3>1, <3>2, StartWalkKeeps
  <2>3. QED BY <1>4, <2>1, <2>2
<1>5. ASSUME NEW v \in Values, NEW w \in Values, ReplaceValue(v, w) PROVE IInv'
  <2>1. /\ ClientRuns /\ life[v] = "live" /\ life[w] = "live" /\ v \in table.marked
        /\ StartWalk("replace", v, w) /\ life' = life /\ outcome' = outcome
    BY <1>5 DEF ReplaceValue
  <2>2. w \in Values \cup {Null} /\ "replace" \in {"delete", "replace"}
    OBVIOUS
  <2>3. QED BY <2>1, <2>2, StartWalkKeeps
<1>6. CASE Visit \/ EnterCallback \/ ReturnFromCallback
  BY <1>6, WalkLoopKeeps
<1>7. CASE FinishDelete \/ FinishReplace
  BY <1>7, WalkEndKeeps
<1>8. CASE UNCHANGED vars
  <2>1. table' = table /\ alive' = alive /\ life' = life /\ walks' = walks /\ outcome' = outcome
    BY <1>8 DEF vars
  <2>2. Holds(table', alive')
    BY <2>1 DEF IInv
  <2>3. TypeOK' /\ WalkKeepsPlace' /\ NoDanglingHandle'
    BY <2>1 DEF IInv, TypeOK, WalkKeepsPlace, NoDanglingHandle, Depth, Top, Members
  <2>4. QED BY <2>2, <2>3 DEF IInv
<1>9. QED
  BY <1>1, <1>2, <1>3, <1>4, <1>5, <1>6, <1>7, <1>8 DEF Next, ClientStep, WalkStep

(* The inductive invariant holds in every reachable state.                 *)
LEMMA Invariance == Spec => []IInv
<1>1. QED BY InitHolds, NextKeeps, PTL DEF Spec

(***************************************************************************)
(* Every field of the lists, the walks and the lives keeps its type.       *)
(***************************************************************************)
THEOREM TypeCorrect == Spec => []TypeOK
<1>1. IInv => TypeOK
  BY DEF IInv
<1>2. QED BY <1>1, Invariance, PTL

(***************************************************************************)
(* However client code, walks and callbacks interleave, the lists, the map *)
(* entries and the has_value_handle_ bits agree with what the constructed  *)
(* handles refer to (the assertions of ValueHandle.cpp).                   *)
(***************************************************************************)
THEOREM ListIntegrityHolds == Spec => []ListIntegrity
<1>1. IInv => ListIntegrity
  <2> SUFFICES ASSUME IInv PROVE ListIntegrity
    OBVIOUS
  <2>1. Holding(table, alive) = Members
    BY DEF Holding, Members
  <2>2. QED BY <2>1 DEF IInv, Holds, TableLinked, WellLinked, ListIntegrity
<1>2. QED BY <1>1, Invariance, PTL

(***************************************************************************)
(* A callback cannot make a walk lose its place.                           *)
(***************************************************************************)
THEOREM WalkKeepsPlaceHolds == Spec => []WalkKeepsPlace
<1>1. IInv => WalkKeepsPlace
  BY DEF IInv
<1>2. QED BY <1>1, Invariance, PTL

(***************************************************************************)
(* No handle refers to a value that has been destroyed.                    *)
(***************************************************************************)
THEOREM NoDanglingHandleHolds == Spec => []NoDanglingHandle
<1>1. IInv => NoDanglingHandle
  BY DEF IInv
<1>2. QED BY <1>1, Invariance, PTL

-----------------------------------------------------------------------------
(* What client code sees of the handles, as the contract names it.         *)
Refs == [n \in Handles |-> Referent(n)]

(* When one handle moves and no other does, the references of the client   *)
(* handles change at that handle at most: an iterator is not one of them.  *)
LEMMA MoveOfRefs ==
  ASSUME TypeOK, NEW k \in Nodes, NEW x \in Referents,
         table'.list.val = [table.list.val EXCEPT ![k] = x],
         alive' \ {k} = alive \ {k}, k \in alive' \/ x = Null
  PROVE  /\ k \in Handles => Refs' = [Refs EXCEPT ![k] = x]
         /\ k \notin Handles => Refs' = Refs
<1>1. table.list.val \in [Nodes -> Referents] /\ Handles \subseteq Nodes
  BY DEF TypeOK, Lists, Handles
<1>2. \A m \in Handles \ {k} : Referent(m)' = Referent(m)
  BY <1>1 DEF Referent
<1>3. k \in Handles => Referent(k)' = x
  BY <1>1 DEF Referent
<1>4. Refs' = [m \in Handles |-> Referent(m)'] /\ Refs = [m \in Handles |-> Referent(m)]
  BY DEF Refs
<1>5. QED BY <1>2, <1>3, <1>4

(* Moving one handle to a value that exists is the Bind of the contract.   *)
LEMMA MoveBinds ==
  ASSUME TypeOK, NEW k \in Nodes, NEW x \in Referents, x \in Values => life[x] # "none",
         table'.list.val = [table.list.val EXCEPT ![k] = x],
         alive' \ {k} = alive \ {k}, k \in alive' \/ x = Null, life' = life
  PROVE  [Contract!ContractNext]_(Contract!contractVars)
<1>1. CASE k \in Handles
  <2>1. Refs' = [Refs EXCEPT ![k] = x]
    BY <1>1, MoveOfRefs
  <2>2. Contract!Existing(x) /\ x \in Values \cup {Null, Tombstone}
    BY DEF Contract!Existing, Referents
  <2>3. Contract!Bind(k, x)
    BY <2>1, <2>2 DEF Contract!Bind, Refs
  <2>4. QED BY <1>1, <2>2, <2>3 DEF Contract!ContractNext
<1>2. CASE k \notin Handles
  <2>1. Refs' = Refs
    BY <1>2, MoveOfRefs
  <2>2. QED BY <2>1 DEF Contract!contractVars, Refs
<1>3. QED BY <1>1, <1>2

(* Creating a value and deleting one without handles are the Create and    *)
(* the Free of the contract.                                               *)
LEMMA ClientValuesImplement ==
  ASSUME IInv, NEW v \in Values, NewValue(v) \/ (DeleteValue(v) /\ v \notin table.marked)
  PROVE  [Contract!ContractNext]_(Contract!contractVars)
<1>1. table' = table /\ alive' = alive
  BY DEF NewValue, DeleteValue
<1>2. Refs' = Refs
  BY <1>1 DEF Refs, Referent
<1>3. CASE NewValue(v)
  <2>1. Contract!Create(v)
    BY <1>2, <1>3 DEF NewValue, Contract!Create, Refs
  <2>2. QED BY <2>1 DEF Contract!ContractNext
<1>4. CASE DeleteValue(v) /\ v \notin table.marked
  <2>1. \A n \in alive : table.list.val[n] # v
    BY <1>4, UnmarkedIsFree DEF IInv
  <2>2. \A n \in Handles : Refs[n] # v
    BY <2>1, NullAssumption DEF Refs, Referent, Values
  <2>3. Contract!Free(v)
    BY <1>2, <1>4, <2>2 DEF DeleteValue, Contract!Free, Refs
  <2>4. QED BY <2>3 DEF Contract!ContractNext
<1>5. QED BY <1>3, <1>4

(* A walk that starts moves its iterator only, which client code does not  *)
(* see; when it serves a deletion the value is condemned.                  *)
LEMMA StartWalkImplements ==
  ASSUME IInv, NEW op, NEW v \in Values, NEW w, v \in table.marked, life[v] = "live",
         StartWalk(op, v, w),
         life' = life \/ life' = [life EXCEPT ![v] = "dying"]
  PROVE  [Contract!ContractNext]_(Contract!contractVars)
<1> DEFINE it == Iters[Depth + 1]
           h  == table.list.head[v]
<1>1. Depth \in Nat /\ Depth < Len(Iters) /\ Len(Iters) \in Nat
  BY HandleAssumption DEF IInv, TypeOK, StartWalk, Depth
<1>2. it \in Nodes /\ it \notin alive /\ it \notin Handles
  BY <1>1, HandleAssumption DEF IInv, WalkKeepsPlace, Handles, ItersSet
<1>3. h \in alive /\ h \in Nodes /\ table.list.val[h] = v
  BY NullAssumption DEF IInv, Holds, TableLinked, WellLinked, Linked, HeadLinked, Holding, Values
<1>4. table'.list.val = [table.list.val EXCEPT ![it] = v] /\ alive' = alive \cup {it}
  <2>1. table' = CopyConstruct(table, it, h) /\ alive' = alive \cup {it}
    BY <1>3 DEF StartWalk, CopyConstruct, IsValid
  <2> HIDE DEF it, h
  <2>2. Holds(table, alive)
    BY DEF IInv
  <2>3. QED BY <1>2, <1>3, <2>1, <2>2, CopyConstructHolds
<1> HIDE DEF it
<1>5. Refs' = Refs
  <2>1. TypeOK /\ v \in Referents
    BY DEF IInv, Referents
  <2>2. alive' \ {it} = alive \ {it} /\ it \in alive'
    BY <1>4
  <2>3. QED BY <1>2, <1>4, <2>1, <2>2, MoveOfRefs
<1>6. CASE life' = life
  BY <1>5, <1>6 DEF Contract!contractVars, Refs
<1>7. CASE life' = [life EXCEPT ![v] = "dying"]
  <2>1. Contract!Condemn(v)
    BY <1>5, <1>7 DEF Contract!Condemn, Refs
  <2>2. QED BY <2>1 DEF Contract!ContractNext
<1>8. QED BY <1>6, <1>7

(* The end of a walk destroys its iterator only; a deleted value is freed  *)
(* when its bit is off, and then no handle refers to it.                   *)
LEMMA WalkEndImplements ==
  ASSUME IInv, FinishDelete \/ FinishReplace
  PROVE  [Contract!ContractNext]_(Contract!contractVars)
<1> DEFINE B == alive \ {Iter}
<1>1. /\ walks # << >> /\ outcome = "ok" /\ Holds(table, alive) /\ TypeOK
      /\ table' = AfterWalk /\ alive' = B
  BY DEF FinishDelete, FinishReplace, AtEnd, InLoop, IInv
<1>2. /\ Iter \in alive /\ Iter \in Nodes /\ Iter \notin Handles
      /\ table.list.val[Iter] = Top.val /\ Top.val \in Values
  <2>1. Depth \in 1 .. Len(Iters)
    BY <1>1, TopFacts
  <2>2. Iter \in ItersSet
    BY <2>1 DEF Iter, ItersSet
  <2>3. QED BY <1>1, <2>2, TopFacts DEF Handles
<1>3. Holds(table', B) /\ table'.list.val = [table.list.val EXCEPT ![Iter] = Null]
  <2>1. table' = Forget(Release(table, Iter), Iter)
    BY <1>1, <1>2 DEF AfterWalk, Release, IsValid
  <2>2. QED BY <1>1, <1>2, <2>1, DropHolds
<1>4. Refs' = Refs
  <2>1. Null \in Referents /\ alive' \ {Iter} = alive \ {Iter}
    BY <1>1 DEF Referents
  <2>2. QED BY <1>1, <1>2, <1>3, <2>1, MoveOfRefs
<1>5. CASE life' = life
  BY <1>4, <1>5 DEF Contract!contractVars, Refs
<1>6. CASE FinishDelete /\ Top.val \notin AfterWalk.marked
  <2>1. life' = [life EXCEPT ![Top.val] = "none"] /\ Top.op = "delete"
    BY <1>6 DEF FinishDelete
  <2>2. life[Top.val] = "dying"
    BY <1>1, <2>1, TopFacts DEF IInv, WalkKeepsPlace
  <2>3. \A m \in B : table'.list.val[m] # Top.val
    <3>1. Holds(table', B) /\ Top.val \notin table'.marked
      BY <1>1, <1>3, <1>6
    <3> HIDE DEF B
    <3>2. QED BY <1>2, <3>1, UnmarkedIsFree
  <2>4. \A n \in Handles : Refs[n] # Top.val
    <3>1. \A n \in Handles : Refs'[n] # Top.val
      BY <1>1, <1>2, <2>3, NullAssumption DEF Refs, Referent, Values
    <3>2. QED BY <1>4, <3>1
  <2>5. Contract!Free(Top.val)
    BY <1>4, <2>1, <2>2, <2>4 DEF Contract!Free, Refs
  <2>6. QED BY <1>2, <2>5 DEF Contract!ContractNext
<1>7. QED BY <1>5, <1>6 DEF FinishDelete, FinishReplace

(***************************************************************************)
(* Every step of the handles, walks and callbacks is a step of the         *)
(* contract or one client code cannot see.                                 *)
(***************************************************************************)
LEMMA StepImplements ==
  IInv /\ [Next]_vars => [Contract!ContractNext]_(Contract!contractVars)
<1> SUFFICES ASSUME IInv, [Next]_vars
             PROVE  [Contract!ContractNext]_(Contract!contractVars)
  OBVIOUS
<1> USE DEF IInv
<1>1. ASSUME NEW n \in Handles, NEW m \in Handles, NEW v \in Referents,
             \/ NewHandle(n, v) \/ AssignHandle(n, v)
             \/ CopyHandle(n, m) \/ CopyAssignHandle(n, m) \/ DropHandle(n)
      PROVE  [Contract!ContractNext]_(Contract!contractVars)
  <2>1. PICK x \in Referents : ClientMove(n, x)
    BY <1>1, ClientHandleMoves
  <2>2. n \in Nodes
    BY DEF Handles
  <2>3. QED BY <2>1, <2>2, MoveBinds DEF ClientMove
<1>2. Null \in Referents
  BY DEF Referents
<1>3. ASSUME NEW v \in Values, NewValue(v) \/ DeleteValue(v)
      PROVE  [Contract!ContractNext]_(Contract!contractVars)
  <2>1. CASE NewValue(v) \/ v \notin table.marked
    BY <1>3, <2>1, ClientValuesImplement
  <2>2. CASE DeleteValue(v) /\ v \in table.marked
    BY <2>2, StartWalkImplements DEF DeleteValue
  <2>3. QED BY <1>3, <2>1, <2>2
<1>4. ASSUME NEW v \in Values, NEW w \in Values, ReplaceValue(v, w)
      PROVE  [Contract!ContractNext]_(Contract!contractVars)
  BY <1>4, StartWalkImplements DEF ReplaceValue
<1>5. CASE Visit
  <2>1. PICK x \in Referents : VisitMove(Top.entry, x)
    BY <1>5, VisitMoves
  <2>2. alive' = alive /\ life' = life
    BY <1>5 DEF Visit
  <2>3. QED BY <2>1, <2>2, MoveBinds DEF VisitMove
<1>6. CASE EnterCallback
  <2>1. /\ walks # << >> /\ Top.pc = "visit" /\ Top.entry # Null
        /\ table' = MoveIter(table, Iter, Top.entry) /\ alive' = alive /\ life' = life
    BY <1>6, HandleAssumption, NullAssumption DEF EnterCallback, InLoop, Handles
  <2>2. /\ Top.entry \in alive /\ Top.entry # Iter /\ Iter \in alive
        /\ table.list.val[Top.entry] = table.list.val[Iter] /\ table.list.val[Iter] \in Values
    BY <2>1, TopFacts, EntryFacts
  <2>3. table'.list.val = table.list.val
    BY <2>1, <2>2, MoveIterHolds
  <2>4. Refs' = Refs
    BY <2>1, <2>3 DEF Refs, Referent
  <2>5. QED BY <2>1, <2>4 DEF Contract!contractVars, Refs
<1>7. CASE ReturnFromCallback \/ UNCHANGED vars
  <2>1. table' = table /\ alive' = alive /\ life' = life
    BY <1>7 DEF ReturnFromCallback, vars
  <2>2. Refs' = Refs
    BY <2>1 DEF Refs, Referent
  <2>3. QED BY <2>1, <2>2 DEF Contract!contractVars, Refs
<1>8. CASE FinishDelete \/ FinishReplace
  BY <1>8, WalkEndImplements
<1>9. QED
  BY <1>1, <1>2, <1>3, <1>4, <1>5, <1>6, <1>7, <1>8 DEF Next, ClientStep, WalkStep

(***************************************************************************)
(* The lists, the bit and the walks implement the contract: a reference    *)
(* moves one at a time and to a value that exists, and a value ceases to   *)
(* exist only when no handle refers to it.                                 *)
(***************************************************************************)
THEOREM ImplementsContractHolds == Spec => ImplementsContract
<1>1. Init => Contract!ContractInit
  <2> SUFFICES ASSUME Init PROVE Contract!ContractInit
    OBVIOUS
  <2>1. alive = {} /\ life = [v \in Values |-> "none"]
    BY DEF Init
  <2>2. QED BY <2>1 DEF Contract!ContractInit, Referent
<1>2. QED
  BY <1>1, Invariance, StepImplements, PTL
     DEF Spec, ImplementsContract, Contract!ContractSpec

-----------------------------------------------------------------------------
(***************************************************************************)
(* WalkClears of ValueHandles: a walk visits every handle that was on the  *)
(* list when it began, whatever the callbacks it makes do to the list; and *)
(* NeverFails, when no class overrides the callbacks.                      *)
(***************************************************************************)
(***************************************************************************)
(* In the list L of the nodes M, the nodes of O lie ahead of the iterator  *)
(* it: they belong to a set of nodes each of which hangs on the iterator   *)
(* or on another node of the set.                                          *)
(***************************************************************************)
Trail(L, M, it, S) ==
  S \subseteq M \ {it} /\ \A m \in S : \E k \in S \cup {it} : L.prev[m] = NextOf(k)

Ahead(L, M, it, O) == \E S : O \subseteq S /\ Trail(L, M, it, S)

(* Fewer nodes lie ahead as well.                                          *)
LEMMA FewerAhead ==
  ASSUME NEW L, NEW M, NEW it, NEW O, NEW P, Ahead(L, M, it, O), P \subseteq O
  PROVE  Ahead(L, M, it, P)
BY DEF Ahead

(* When no node follows the iterator, none lies ahead.                     *)
LEMMA NothingAhead ==
  ASSUME NEW Vals, NEW L, NEW M, WellLinked(L, M, Vals), NEW it \in M,
         NEW O, Ahead(L, M, it, O), L.next[it] = Null
  PROVE  O = {}
<1>1. PICK S : O \subseteq S /\ Trail(L, M, it, S)
  BY DEF Ahead
<1>2. SUFFICES ASSUME S # {} PROVE FALSE
  BY <1>1
<1>3. PICK m \in S : \A k \in S : L.prev[m] # NextOf(k)
  <2>1. S \in SUBSET M
    BY <1>1 DEF Trail
  <2>2. QED BY <1>2, <2>1 DEF WellLinked, Anchored
<1>4. L.prev[m] = NextOf(it) /\ m \in M
  BY <1>1, <1>3 DEF Trail
<1>5. L.next[it] = m /\ m # Null
  BY <1>4, NullAssumption, LocationFacts DEF WellLinked, Linked, NodeLinked
<1>6. QED BY <1>5

(***************************************************************************)
(* Facts about a linked node that the lemmas below keep needing: the node  *)
(* whose next field its prev names is the one before it.                   *)
(***************************************************************************)
LEMMA PrevFacts ==
  ASSUME NEW Vals, NEW L, NEW M, WellLinked(L, M, Vals), NEW m \in M
  PROVE  /\ m \in Nodes /\ m # Null /\ L.prev[m] \in Locations /\ L.prev[m] # NextOf(m)
         /\ \A k : L.prev[m] = NextOf(k) => k \in M /\ L.next[k] = m
         /\ L.next[m] # Null => L.next[m] \in M /\ L.prev[L.next[m]] = NextOf(m)
<1>1. m \in Nodes /\ m # Null /\ NodeLinked(L, M, m) /\ M \subseteq Nodes
  BY NullAssumption DEF WellLinked, Linked
<1>2. L.prev[m] \in Locations
  BY <1>1 DEF NodeLinked, Locations
<1>3. \A k : L.prev[m] = NextOf(k) => k \in M /\ L.next[k] = m
  BY <1>1, LocationFacts DEF NodeLinked
<1>4. L.prev[m] # NextOf(m)
  <2>1. {m} \in SUBSET M /\ {m} # {}
    OBVIOUS
  <2>2. PICK n \in {m} : \A j \in {m} : L.prev[n] # NextOf(j)
    BY <2>1 DEF WellLinked, Anchored
  <2>3. QED BY <2>2
<1>5. QED BY <1>1, <1>2, <1>3, <1>4 DEF NodeLinked

(* Unlinking another node than the iterator takes that node only away.     *)
LEMMA UnlinkAhead ==
  ASSUME NEW Vals, NEW L, NEW M, WellLinked(L, M, Vals), NEW it \in M, NEW n \in M, n # it,
         NEW O, Ahead(L, M, it, O), NEW R, R = Unlink(L, n)
  PROVE  Ahead(R, M \ {n}, it, O \ {n})
<1>1. PICK S : O \subseteq S /\ Trail(L, M, it, S)
  BY DEF Ahead
<1>2. S \subseteq M \ {it}
  BY <1>1 DEF Trail
<1>3. \A m \in Nodes : R.prev[m] = IF m = L.next[n] THEN L.prev[n] ELSE L.prev[m]
  <2>1. L \in Lists(Vals) /\ L.prev[n] \in Locations /\ n \in Nodes
    BY PrevFacts DEF WellLinked
  <2>2. Unlinked(L, n, R)
    BY <2>1, UnlinkFields
  <2>3. QED BY <2>2 DEF Unlinked
<1>4. ASSUME NEW m \in S \ {n}
      PROVE  \E k \in (S \ {n}) \cup {it} : R.prev[m] = NextOf(k)
  <2>1. PICK k \in S \cup {it} : L.prev[m] = NextOf(k)
    BY <1>1 DEF Trail
  <2>2. m \in M /\ k \in M /\ L.next[k] = m /\ m \in Nodes
    BY <1>2, <2>1, PrevFacts
  <2>3. CASE m # L.next[n]
    <3>1. k # n /\ R.prev[m] = NextOf(k)
      BY <1>3, <2>1, <2>2, <2>3
    <3>2. QED BY <3>1
  <2>4. CASE m = L.next[n]
    <3>1. L.prev[m] = NextOf(n) /\ m # Null
      BY <2>2, <2>4, PrevFacts
    <3>2. k = n /\ n \in S
      <4>1. NextOf(k) = NextOf(n)
        BY <2>1, <3>1
      <4>2. k = n
        BY ONLY <4>1, LocationFacts
      <4>3. QED BY ONLY <4>2, <2>1, n # it
    <3>3. PICK j \in S \cup {it} : L.prev[n] = NextOf(j)
      BY <1>1, <3>2 DEF Trail
    <3>4. j # n
      BY <3>3, PrevFacts
    <3>5. QED BY <1>3, <2>2, <2>4, <3>3, <3>4
  <2>5. QED BY <2>3, <2>4
<1>5. Trail(R, M \ {n}, it, S \ {n})
  BY <1>2, <1>4 DEF Trail
<1>6. QED BY <1>1, <1>5 DEF Ahead

(* Unlinking the iterator leaves what was ahead of it ahead of its         *)
(* successor.                                                              *)
LEMMA UnlinkIterAhead ==
  ASSUME NEW Vals, NEW L, NEW M, WellLinked(L, M, Vals), NEW it \in M,
         NEW k \in M, L.next[it] = k,
         NEW O, Ahead(L, M, it, O), NEW R, R = Unlink(L, it)
  PROVE  Ahead(R, M \ {it}, k, O \ {k})
<1>1. PICK S : O \subseteq S /\ Trail(L, M, it, S)
  BY DEF Ahead
<1>2. S \subseteq M \ {it}
  BY <1>1 DEF Trail
<1>3. \A m \in Nodes : m # k => R.prev[m] = L.prev[m]
  <2>1. L \in Lists(Vals) /\ L.prev[it] \in Locations /\ it \in Nodes
    BY PrevFacts DEF WellLinked
  <2>2. Unlinked(L, it, R)
    BY <2>1, UnlinkFields
  <2>3. QED BY <2>2 DEF Unlinked
<1>4. ASSUME NEW m \in S \ {k}
      PROVE  \E j \in (S \ {k}) \cup {k} : R.prev[m] = NextOf(j)
  <2>1. PICK j \in S \cup {it} : L.prev[m] = NextOf(j)
    BY <1>1 DEF Trail
  <2>2. m \in M /\ m \in Nodes /\ L.next[j] = m
    BY <1>2, <2>1, PrevFacts
  <2>3. j # it
    BY <2>2
  <2>4. QED BY <1>3, <2>1, <2>2, <2>3
<1>5. S \ {k} \subseteq (M \ {it}) \ {k}
  BY <1>2
<1>6. Trail(R, M \ {it}, k, S \ {k})
  BY <1>4, <1>5 DEF Trail
<1>7. QED BY <1>1, <1>6 DEF Ahead

(* Linking a node at the head of a list puts it behind every iterator.     *)
LEMMA InsertAtHeadAhead ==
  ASSUME NEW Vals, NEW L, NEW M, WellLinked(L, M, Vals), NEW it \in M,
         NEW n \in Nodes, n \notin M, NEW v \in Owners,
         NEW O, Ahead(L, M, it, O), NEW R, R = Insert(L, HeadOf(v), n)
  PROVE  Ahead(R, M \cup {n}, it, O)
<1>1. PICK S : O \subseteq S /\ Trail(L, M, it, S)
  BY DEF Ahead
<1>2. S \subseteq M \ {it}
  BY <1>1 DEF Trail
<1>3. HeadLinked(L, M, v)
  BY DEF WellLinked, Linked
<1>4. \A m \in Nodes \ {n} : m # L.head[v] => R.prev[m] = L.prev[m]
  <2>1. L \in Lists(Vals) /\ L.head[v] # n
    BY <1>3, NullAssumption DEF WellLinked, HeadLinked
  <2>2. InsertedAtHead(L, v, n, R)
    BY <2>1, InsertAtHeadFields
  <2>3. QED BY <2>2 DEF InsertedAtHead
<1>5. ASSUME NEW m \in S PROVE \E k \in S \cup {it} : R.prev[m] = NextOf(k)
  <2>1. PICK k \in S \cup {it} : L.prev[m] = NextOf(k)
    BY <1>1 DEF Trail
  <2>2. m \in Nodes \ {n} /\ m # Null
    BY <1>2, PrevFacts
  <2>3. m # L.head[v]
    BY <1>3, <2>1, <2>2, LocationFacts DEF HeadLinked
  <2>4. QED BY <1>4, <2>1, <2>2, <2>3
<1>6. Trail(R, M \cup {n}, it, S)
  BY <1>2, <1>5 DEF Trail
<1>7. QED BY <1>1, <1>6 DEF Ahead

(* Linking a node after a linked one takes no node away from an iterator.  *)
LEMMA InsertAfterAhead ==
  ASSUME NEW Vals, NEW L, NEW M, WellLinked(L, M, Vals), NEW it \in M,
         NEW n \in Nodes, n \notin M, NEW p \in M,
         NEW O, Ahead(L, M, it, O), NEW R, R = InsertAfter(L, p, n)
  PROVE  Ahead(R, M \cup {n}, it, O)
<1> DEFINE x == L.next[p]
<1>1. PICK S : O \subseteq S /\ Trail(L, M, it, S)
  BY DEF Ahead
<1>2. S \subseteq M \ {it} /\ p \in Nodes /\ p # n
  BY <1>1, PrevFacts DEF Trail
<1>3. x # n
  BY PrevFacts, NullAssumption
<1>4. /\ R.prev[n] = NextOf(p)
      /\ x \in Nodes => R.prev[x] = NextOf(n)
      /\ \A m \in Nodes \ {n} : m # x => R.prev[m] = L.prev[m]
  <2>1. L \in Lists(Vals)
    BY DEF WellLinked
  <2>2. InsertedAfter(L, p, n, R)
    BY <1>2, <1>3, <2>1, InsertAfterFields
  <2>3. QED BY <1>3, <2>2 DEF InsertedAfter
<1>5. ASSUME NEW m \in S
      PROVE  /\ m \in Nodes \ {n}
             /\ \E k \in S \cup {it} : /\ L.prev[m] = NextOf(k)
                                       /\ m # x => R.prev[m] = NextOf(k)
                                       /\ m = x => k = p
  <2>1. PICK k \in S \cup {it} : L.prev[m] = NextOf(k)
    BY <1>1 DEF Trail
  <2>2. m \in M /\ m \in Nodes \ {n} /\ m # Null
    BY <1>2, PrevFacts
  <2>3. m = x => k = p
    BY <2>1, <2>2, PrevFacts, LocationFacts
  <2>4. QED BY <1>4, <2>1, <2>2, <2>3
<1>6. CASE x \notin S
  <2>1. Trail(R, M \cup {n}, it, S)
    BY <1>2, <1>5, <1>6 DEF Trail
  <2>2. QED BY <1>1, <2>1 DEF Ahead
<1>7. CASE x \in S
  <2>1. p \in S \cup {it} /\ R.prev[x] = NextOf(n)
    BY <1>4, <1>5, <1>7
  <2>2. \A m \in S \cup {n} : \E k \in (S \cup {n}) \cup {it} : R.prev[m] = NextOf(k)
    <3> TAKE m \in S \cup {n}
    <3>1. CASE m = n
      BY <1>4, <2>1, <3>1
    <3>2. CASE m = x
      BY <2>1, <3>2
    <3>3. CASE m \in S /\ m # x
      BY <1>5, <3>3
    <3>4. QED BY <3>1, <3>2, <3>3
  <2>3. Trail(R, M \cup {n}, it, S \cup {n})
    BY <1>2, <2>2 DEF Trail
  <2>4. O \subseteq S \cup {n}
    BY <1>1
  <2>5. QED BY <2>3, <2>4 DEF Ahead
<1>8. QED BY <1>6, <1>7

(* Linking a node where another one hangs takes no node away either.       *)
LEMMA InsertBeforeAhead ==
  ASSUME NEW Vals, NEW L, NEW M, WellLinked(L, M, Vals), NEW it \in M,
         NEW n \in Nodes, n \notin M, NEW p \in M,
         NEW O, Ahead(L, M, it, O), NEW R, R = Insert(L, L.prev[p], n)
  PROVE  Ahead(R, M \cup {n}, it, O)
<1>1. NodeLinked(L, M, p)
  BY DEF WellLinked, Linked
<1>2. CASE L.prev[p] = HeadOf(L.val[p])
  <2>1. L.val[p] \in Owners
    BY <1>1 DEF NodeLinked
  <2>2. QED BY <1>2, <2>1, InsertAtHeadAhead
<1>3. CASE \E k \in M : L.prev[p] = NextOf(k)
  <2>1. PICK k \in M : L.prev[p] = NextOf(k)
    BY <1>3
  <2>2. R = InsertAfter(L, k, n)
    BY <2>1 DEF InsertAfter
  <2>3. QED BY <2>2, InsertAfterAhead
<1>4. QED BY <1>1, <1>2, <1>3 DEF NodeLinked

(* An iterator linked behind the node k has ahead of it what k had.        *)
LEMMA InsertIterAhead ==
  ASSUME NEW Vals, NEW L, NEW M, WellLinked(L, M, Vals), NEW k \in M,
         NEW it \in Nodes, it \notin M,
         NEW O, Ahead(L, M, k, O), NEW R, R = InsertAfter(L, k, it)
  PROVE  Ahead(R, M \cup {it}, it, O)
<1> DEFINE x == L.next[k]
<1>1. PICK S : O \subseteq S /\ Trail(L, M, k, S)
  BY DEF Ahead
<1>2. S \subseteq M \ {k} /\ k \in Nodes /\ k # it
  BY <1>1, PrevFacts DEF Trail
<1>3. x # it
  BY PrevFacts, NullAssumption
<1>4. /\ x \in Nodes => R.prev[x] = NextOf(it)
      /\ \A m \in Nodes \ {it} : m # x => R.prev[m] = L.prev[m]
  <2>1. L \in Lists(Vals)
    BY DEF WellLinked
  <2>2. InsertedAfter(L, k, it, R)
    BY <1>2, <1>3, <2>1, InsertAfterFields
  <2>3. QED BY <1>3, <2>2 DEF InsertedAfter
<1>5. ASSUME NEW m \in S PROVE \E j \in S \cup {it} : R.prev[m] = NextOf(j)
  <2>1. PICK j \in S \cup {k} : L.prev[m] = NextOf(j)
    BY <1>1 DEF Trail
  <2>2. m \in M /\ m \in Nodes \ {it} /\ L.next[j] = m
    BY <1>2, <2>1, PrevFacts
  <2>3. CASE m = x
    BY <1>4, <2>2, <2>3
  <2>4. CASE m # x
    <3>1. j # k
      BY <2>2, <2>4
    <3>2. QED BY <1>4, <2>1, <2>2, <2>4, <3>1
  <2>5. QED BY <2>3, <2>4
<1>6. S \subseteq (M \cup {it}) \ {it}
  BY <1>2
<1>7. Trail(R, M \cup {it}, it, S)
  BY <1>5, <1>6 DEF Trail
<1>8. QED BY <1>1, <1>7 DEF Ahead
-----------------------------------------------------------------------------
(* The handles of O lie ahead of the iterator it in the table T, when A    *)
(* are the constructed handles.                                            *)
AheadIn(T, A, it, O) == Ahead(T.list, Holding(T, A), it, O)

(* Fewer handles lie ahead as well.                                        *)
LEMMA FewerAheadIn ==
  ASSUME NEW T, NEW A, NEW it, NEW O, NEW P, AheadIn(T, A, it, O), P \subseteq O
  PROVE  AheadIn(T, A, it, P)
BY FewerAhead DEF AheadIn

(* Ahead reads the prev_ fields of the linked nodes only.                  *)
LEMMA SamePrevAhead ==
  ASSUME NEW L, NEW M, NEW R, \A m \in M : R.prev[m] = L.prev[m],
         NEW it, NEW O, Ahead(L, M, it, O)
  PROVE  Ahead(R, M, it, O)
<1>1. PICK S : O \subseteq S /\ Trail(L, M, it, S)
  BY DEF Ahead
<1>2. Trail(R, M, it, S)
  BY <1>1 DEF Trail
<1>3. QED BY <1>1, <1>2 DEF Ahead

(* Releasing another handle takes that handle only from ahead of the       *)
(* iterator.                                                               *)
LEMMA ReleaseAhead ==
  ASSUME NEW T, NEW A, Holds(T, A), NEW it \in Holding(T, A), NEW n \in A, n # it,
         NEW O, AheadIn(T, A, it, O), NEW R, R = Release(T, n)
  PROVE  AheadIn(R, A \ {n}, it, O \ {n})
<1> DEFINE M == Holding(T, A)
<1>1. WellLinked(T.list, M, Referents) /\ Ahead(T.list, M, it, O) /\ it \in M
  BY DEF Holds, TableLinked, AheadIn
<1>2. R.list.val = T.list.val
  BY ReleaseHolds
<1>3. CASE T.list.val[n] \in Values
  <2>1. n \in M /\ R.list = Unlink(T.list, n)
    BY <1>3 DEF Holding, Release, IsValid, RemoveFromUseList, WithList
  <2>2. Holding(R, A \ {n}) = M \ {n}
    BY <1>2 DEF Holding
  <2> HIDE DEF M
  <2>3. Ahead(R.list, M \ {n}, it, O \ {n})
    BY <1>1, <2>1, UnlinkAhead
  <2>4. QED BY <2>2, <2>3 DEF AheadIn
<1>4. CASE T.list.val[n] \notin Values
  <2>1. R = T /\ Holding(R, A \ {n}) = M
    BY <1>4 DEF Holding, Release, IsValid
  <2>2. QED BY <1>1, <2>1, FewerAhead DEF AheadIn
<1>5. QED BY <1>3, <1>4

(* The constructors take no handle from ahead of an iterator.              *)
LEMMA ConstructAhead ==
  ASSUME NEW T, NEW A, Holds(T, A), NEW it \in Holding(T, A), NEW n \in Nodes, n \notin A,
         NEW v \in Referents,
         NEW O, AheadIn(T, A, it, O), NEW R, R = Construct(T, n, v)
  PROVE  AheadIn(R, A \cup {n}, it, O)
<1> DEFINE M == Holding(T, A)
<1>1. /\ TableLinked(T, M) /\ Ahead(T.list, M, it, O) /\ it \in M /\ n \notin M
      /\ A \subseteq Nodes /\ T.list.val \in [Nodes -> Referents]
  BY DEF Holds, TableLinked, WellLinked, Lists, AheadIn, Holding
<1>2. Holds(R, A \cup {n}) /\ R.list.val = [T.list.val EXCEPT ![n] = v]
  BY ConstructHolds
<1>3. PICK U : U = Point(T, n, v)
  OBVIOUS
<1>4. /\ TableLinked(U, M) /\ U.list.val = [T.list.val EXCEPT ![n] = v]
      /\ U.list.prev = T.list.prev
  <2> HIDE DEF M
  <2>1. QED BY <1>1, <1>3, PointLinked
<1>5. WellLinked(U.list, M, Referents) /\ Ahead(U.list, M, it, O)
  BY <1>1, <1>4, SamePrevAhead DEF TableLinked
<1>6. CASE v \in Values
  <2>1. R = AddToUseList(U, n) /\ U.list.val[n] = v /\ v \in Owners
    BY <1>1, <1>3, <1>4, <1>6 DEF Construct, IsValid, Values
  <2>2. Holding(R, A \cup {n}) = M \cup {n}
    BY <1>1, <1>2, <1>6 DEF Holding
  <2> HIDE DEF M
  <2>3. PICK L : L = Insert(U.list, HeadOf(v), n)
    OBVIOUS
  <2>4. WellLinked(L, M \cup {n}, Referents) /\ Ahead(L, M \cup {n}, it, O)
    BY <1>1, <1>5, <2>1, <2>3, InsertAtHeadLinked, InsertAtHeadAhead
  <2>5. RefreshHeads(L, U.keys \cup {v}) = L
    <3>1. U.keys \cup {v} \in SUBSET Values
      BY <1>4, <1>6 DEF TableLinked, Tables
    <3>2. QED BY <2>4, <3>1, RefreshHeadsIsIdle
  <2>6. R.list = L
    BY <2>1, <2>3, <2>5 DEF AddToUseList, WithList
  <2>7. QED BY <2>2, <2>4, <2>6 DEF AheadIn
<1>7. CASE v \notin Values
  <2>1. R = U
    BY <1>3, <1>7 DEF Construct, IsValid
  <2>2. Holding(R, A \cup {n}) = M
    BY <1>1, <1>2, <1>7 DEF Holding
  <2>3. QED BY <1>5, <2>1, <2>2 DEF AheadIn
<1>8. QED BY <1>6, <1>7

(* Nor does a copy, linked where its original hangs.                       *)
LEMMA CopyConstructAhead ==
  ASSUME NEW T, NEW A, Holds(T, A), NEW it \in Holding(T, A), NEW n \in Nodes, n \notin A,
         NEW m \in A,
         NEW O, AheadIn(T, A, it, O), NEW R, R = CopyConstruct(T, n, m)
  PROVE  AheadIn(R, A \cup {n}, it, O)
<1> DEFINE M == Holding(T, A)
           v == T.list.val[m]
<1>1. /\ TableLinked(T, M) /\ Ahead(T.list, M, it, O) /\ it \in M /\ n \notin M
      /\ A \subseteq Nodes /\ T.list.val \in [Nodes -> Referents] /\ v \in Referents
  BY DEF Holds, TableLinked, WellLinked, Lists, AheadIn, Holding
<1>2. Holds(R, A \cup {n}) /\ R.list.val = [T.list.val EXCEPT ![n] = v]
  BY CopyConstructHolds
<1>3. PICK U : U = Point(T, n, v)
  OBVIOUS
<1>4. /\ TableLinked(U, M) /\ U.list.val = [T.list.val EXCEPT ![n] = v]
      /\ U.list.prev = T.list.prev
  <2> HIDE DEF M, v
  <2>1. QED BY <1>1, <1>3, PointLinked
<1>5. WellLinked(U.list, M, Referents) /\ Ahead(U.list, M, it, O)
  BY <1>1, <1>4, SamePrevAhead DEF TableLinked
<1>6. CASE v \in Values
  <2>1. R.list = Insert(U.list, U.list.prev[m], n) /\ m \in M
    BY <1>3, <1>6 DEF CopyConstruct, AddToExistingUseList, WithList, IsValid, Holding
  <2>2. Holding(R, A \cup {n}) = M \cup {n}
    BY <1>1, <1>2, <1>6 DEF Holding
  <2> HIDE DEF M, v
  <2>3. Ahead(R.list, M \cup {n}, it, O)
    BY <1>1, <1>5, <2>1, InsertBeforeAhead
  <2>4. QED BY <2>2, <2>3 DEF AheadIn
<1>7. CASE v \notin Values
  <2>1. R = U
    BY <1>3, <1>7 DEF CopyConstruct, IsValid
  <2>2. Holding(R, A \cup {n}) = M
    BY <1>1, <1>2, <1>7 DEF Holding
  <2>3. QED BY <1>5, <2>1, <2>2 DEF AheadIn
<1>8. QED BY <1>6, <1>7

(* Assigning another handle takes at most that handle from ahead of the    *)
(* iterator.                                                               *)
LEMMA AssignAhead ==
  ASSUME NEW T, NEW A, Holds(T, A), NEW it \in Holding(T, A), NEW n \in A, n # it,
         NEW v \in Referents, T.list.val[n] # v,
         NEW O, AheadIn(T, A, it, O), NEW R, R = Assign(T, n, v)
  PROVE  AheadIn(R, A, it, O \ {n})
<1>1. PICK U : U = Release(T, n)
  OBVIOUS
<1>2. Holds(U, A \ {n}) /\ U.list.val = T.list.val /\ AheadIn(U, A \ {n}, it, O \ {n})
  BY <1>1, ReleaseHolds, ReleaseAhead
<1>3. R = Construct(U, n, v)
  BY <1>1 DEF Assign, Construct
<1>4. /\ n \in Nodes /\ n \notin A \ {n} /\ it \in Holding(U, A \ {n})
      /\ A = (A \ {n}) \cup {n}
  BY <1>2 DEF Holds, Holding
<1>5. AheadIn(R, (A \ {n}) \cup {n}, it, O \ {n})
  BY <1>2, <1>3, <1>4, ConstructAhead
<1>6. QED BY <1>4, <1>5

(* The same for the assignment of one handle to another.                   *)
LEMMA CopyAssignAhead ==
  ASSUME NEW T, NEW A, Holds(T, A), NEW it \in Holding(T, A), NEW n \in A, n # it,
         NEW m \in A, T.list.val[n] # T.list.val[m],
         NEW O, AheadIn(T, A, it, O), NEW R, R = CopyAssign(T, n, m)
  PROVE  AheadIn(R, A, it, O \ {n})
<1>1. PICK U : U = Release(T, n)
  OBVIOUS
<1>2. Holds(U, A \ {n}) /\ U.list.val = T.list.val /\ AheadIn(U, A \ {n}, it, O \ {n})
  BY <1>1, ReleaseHolds, ReleaseAhead
<1>3. R = CopyConstruct(U, n, m)
  BY <1>1 DEF CopyAssign
<1>4. /\ n \in Nodes /\ n \notin A \ {n} /\ it \in Holding(U, A \ {n}) /\ m \in A \ {n}
      /\ A = (A \ {n}) \cup {n}
  BY <1>2 DEF Holds, Holding
<1>5. AheadIn(R, (A \ {n}) \cup {n}, it, O \ {n})
  BY <1>2, <1>3, <1>4, CopyConstructAhead
<1>6. QED BY <1>4, <1>5

(* Destroying another handle takes that handle only away.                  *)
LEMMA DropAhead ==
  ASSUME NEW T, NEW A, Holds(T, A), NEW it \in Holding(T, A), NEW n \in A, n # it,
         NEW O, AheadIn(T, A, it, O), NEW R, R = Forget(Release(T, n), n)
  PROVE  AheadIn(R, A \ {n}, it, O \ {n})
<1>1. PICK U : U = Release(T, n)
  OBVIOUS
<1>2. Holds(U, A \ {n}) /\ U.list.val = T.list.val /\ AheadIn(U, A \ {n}, it, O \ {n})
  BY <1>1, ReleaseHolds, ReleaseAhead
<1>3. /\ R.list.val = [U.list.val EXCEPT ![n] = Null]
      /\ R.list.prev = [U.list.prev EXCEPT ![n] = Null]
  BY <1>1 DEF Forget, WithList, SetVal, SetNext, SetPrev
<1>4. U.list \in Lists(Referents) /\ A \subseteq Nodes
  BY <1>2 DEF Holds, TableLinked, WellLinked
<1>5. Holding(R, A \ {n}) = Holding(U, A \ {n})
  BY <1>3, <1>4 DEF Holding, Lists
<1>6. \A m \in Holding(U, A \ {n}) : R.list.prev[m] = U.list.prev[m]
  BY <1>3, <1>4 DEF Holding, Lists
<1>7. QED BY <1>2, <1>5, <1>6, SamePrevAhead DEF AheadIn

(* Moving an iterator behind the handle it is about to visit takes that    *)
(* handle from ahead of it, and no handle from ahead of another iterator.  *)
LEMMA MoveIterAhead ==
  ASSUME NEW T, NEW A, Holds(T, A), NEW it \in A, NEW k \in A, k # it,
         T.list.val[it] \in Values, T.list.val[k] = T.list.val[it],
         NEW R, R = MoveIter(T, it, k)
  PROVE  /\ \A O : T.list.next[it] = k /\ AheadIn(T, A, it, O) => AheadIn(R, A, it, O \ {k})
         /\ \A j \in Holding(T, A) \ {it} :
              \A O : AheadIn(T, A, j, O) => AheadIn(R, A, j, O \ {it})
<1> DEFINE M == Holding(T, A)
           N == M \ {it}
<1>1. /\ WellLinked(T.list, M, Referents) /\ it \in M /\ k \in N /\ it \in Nodes
      /\ it \notin N /\ M = N \cup {it}
  BY DEF Holds, TableLinked, Holding
<1>2. Holds(R, A) /\ R.list.val = T.list.val
  BY MoveIterHolds
<1>3. Holding(R, A) = M
  BY <1>2 DEF Holding
<1>4. PICK L : L = Unlink(T.list, it)
  OBVIOUS
<1>5. R.list = InsertAfter(L, k, it)
  BY <1>4 DEF MoveIter, AddToExistingUseListAfter, RemoveFromUseList, WithList
<1> HIDE DEF M
<1>6. WellLinked(L, N, Referents)
  BY <1>1, <1>4, UnlinkLinked
<1>7. ASSUME NEW O, T.list.next[it] = k, AheadIn(T, A, it, O)
      PROVE  AheadIn(R, A, it, O \ {k})
  <2>1. Ahead(T.list, M, it, O)
    BY <1>7 DEF AheadIn, M
  <2>2. Ahead(L, N, k, O \ {k})
    BY <1>1, <1>4, <1>7, <2>1, UnlinkIterAhead
  <2> HIDE DEF N
  <2>3. Ahead(R.list, N \cup {it}, it, O \ {k})
    BY <1>1, <1>5, <1>6, <2>2, InsertIterAhead
  <2>4. QED BY <1>1, <1>3, <2>3 DEF AheadIn
<1>8. ASSUME NEW j \in M \ {it}, NEW O, AheadIn(T, A, j, O)
      PROVE  AheadIn(R, A, j, O \ {it})
  <2>1. Ahead(T.list, M, j, O) /\ j \in M /\ j # it /\ j \in N
    BY <1>8 DEF AheadIn, M
  <2>2. Ahead(L, N, j, O \ {it})
    BY <1>1, <1>4, <2>1, UnlinkAhead
  <2> HIDE DEF N
  <2>3. Ahead(R.list, N \cup {it}, j, O \ {it})
    BY <1>1, <1>5, <1>6, <2>1, <2>2, InsertAfterAhead
  <2>4. QED BY <1>1, <1>3, <2>3 DEF AheadIn
<1>9. QED BY <1>7, <1>8 DEF M
-----------------------------------------------------------------------------
(* The handles a walk leaves on the list on purpose: those of the last     *)
(* three lines of WalkClears.                                              *)
Kept(n, op) ==
  \/ Kind[n] = "Assert" \/ n \in Overriding
  \/ Kind[n] = "Callback" /\ op = "replace"

(* The handles the i-th walk owes a visit: linked on its value's list      *)
(* since before it began, and not kept.                                    *)
Owed(i) ==
  {n \in Holding(table, alive) \ {Iters[i]} :
     /\ table.list.val[n] = walks[i].val /\ n \notin walks[i].late
     /\ ~Kept(n, walks[i].op)}

(***************************************************************************)
(* What a walk in progress owes lies ahead of its iterator.  With it, that *)
(* a destroyed handle refers to nothing, so that one constructed later is  *)
(* noted as late, and that a value is not replaced by itself.              *)
(***************************************************************************)
OwedAhead == \A i \in 1 .. Depth : AheadIn(table, alive, Iters[i], Owed(i))

DeadIsNull == \A n \in Nodes \ alive : table.list.val[n] = Null

ReplacedByOther == \A i \in 1 .. Depth : walks[i].op = "replace" => walks[i].to # walks[i].val

WInv == IInv /\ OwedAhead /\ DeadIsNull /\ ReplacedByOther

(* The histories grow, and n is in that of a walk over the list it joins.  *)
Notes(n, x, W) ==
  \A i \in 1 .. Depth :
    /\ walks[i].late \subseteq W[i].late
    /\ walks[i].val = x /\ table.list.val[n] # x => n \in W[i].late

(* NoteLate notes what it should.                                          *)
LEMMA NoteLateNotes ==
  ASSUME TypeOK, NEW n \in Nodes, NEW x
  PROVE  Notes(n, x, NoteLate(n, x))
<1>1. /\ \A i \in 1 .. Depth : walks[i] \in Frames /\ i \in DOMAIN walks
  BY DEF TypeOK, Depth
<1>2. ASSUME NEW w \in Frames, NEW y, y = [w EXCEPT !.late = @ \cup {n}]
      PROVE  w.late \subseteq y.late /\ n \in y.late
  BY <1>2 DEF Frames
<1>3. ASSUME NEW i \in 1 .. Depth
      PROVE  /\ walks[i].late \subseteq NoteLate(n, x)[i].late
             /\ walks[i].val = x /\ table.list.val[n] # x => n \in NoteLate(n, x)[i].late
  <2>1. CASE walks[i].val = x /\ table.list.val[n] # x
    <3>1. NoteLate(n, x)[i] = [walks[i] EXCEPT !.late = @ \cup {n}]
      BY <1>1, <2>1 DEF NoteLate
    <3>2. QED BY <1>1, <1>2, <3>1
  <2>2. CASE ~(walks[i].val = x /\ table.list.val[n] # x)
    BY <1>1, <2>2 DEF NoteLate
  <2>3. QED BY <2>1, <2>2
<1>4. QED BY <1>3 DEF Notes

(* The iterators of the walks in progress are linked, and distinct.        *)
LEMMA WalkIters ==
  ASSUME IInv
  PROVE  /\ Depth \in Nat /\ Depth = Len(walks) /\ walks \in Seq(Frames)
         /\ \A i \in 1 .. Depth : /\ walks[i] \in Frames /\ walks[i].val \in Values
                                  /\ Iters[i] \in Holding(table, alive)
                                  /\ Iters[i] \in Nodes \ Handles /\ Kind[Iters[i]] = "Assert"
                                  /\ \A j \in 1 .. Depth : Iters[i] = Iters[j] => i = j
<1>1. /\ Depth \in Nat /\ Depth = Len(walks) /\ walks \in Seq(Frames)
      /\ Depth <= Len(Iters) /\ Len(Iters) \in Nat
  BY HandleAssumption DEF IInv, TypeOK, Depth
<1>2. ASSUME NEW i \in 1 .. Depth
      PROVE  /\ walks[i] \in Frames /\ walks[i].val \in Values
             /\ Iters[i] \in Holding(table, alive)
             /\ Iters[i] \in Nodes \ Handles /\ Kind[Iters[i]] = "Assert"
             /\ \A j \in 1 .. Depth : Iters[i] = Iters[j] => i = j
  <2>1. i \in 1 .. Len(Iters) /\ walks[i] \in Frames
    BY <1>1
  <2>2. walks[i].val \in Values
    BY <2>1 DEF Frames
  <2>3. Iters[i] \in alive /\ table.list.val[Iters[i]] = walks[i].val
    BY <1>1, <2>1 DEF IInv, WalkKeepsPlace
  <2>4. Iters[i] \in Nodes \ Handles /\ Kind[Iters[i]] = "Assert"
    BY <2>1, HandleAssumption DEF Handles, ItersSet
  <2>5. \A j \in 1 .. Depth : Iters[i] = Iters[j] => i = j
    BY <1>1, <2>1, HandleAssumption
  <2>6. QED BY <2>1, <2>2, <2>3, <2>4, <2>5 DEF Holding
<1>3. QED BY <1>1, <1>2

(* The walks are the same ones with their histories noted.                 *)
SameOps == \A i \in 1 .. Depth : /\ walks'[i].op = walks[i].op /\ walks'[i].val = walks[i].val
                                 /\ walks'[i].to = walks[i].to

(***************************************************************************)
(* When one handle moves, a walk owes no more than before; it does not owe *)
(* that handle a visit if it now refers to something else.                 *)
(***************************************************************************)
LEMMA OwedShrinks ==
  ASSUME IInv, NEW n \in Nodes, NEW x \in Referents,
         table'.list.val = [table.list.val EXCEPT ![n] = x],
         alive' \ {n} = alive \ {n}, SameOps, Notes(n, x, walks'),
         NEW i \in 1 .. Depth
  PROVE  /\ alive' = alive => Owed(i)' \subseteq Owed(i)
         /\ table.list.val[n] # x \/ x \notin Values => Owed(i)' \subseteq Owed(i) \ {n}
<1>1. table.list.val \in [Nodes -> Referents] /\ alive \subseteq Nodes
  BY DEF IInv, TypeOK, Lists
<1>2. /\ table'.list.val[n] = x
      /\ \A m \in alive \ {n} : table'.list.val[m] = table.list.val[m]
  BY <1>1
<1>3. /\ walks[i].late \subseteq walks'[i].late
      /\ walks[i].val = x /\ table.list.val[n] # x => n \in walks'[i].late
      /\ walks'[i].op = walks[i].op /\ walks'[i].val = walks[i].val
      /\ walks[i].val \in Values
  BY WalkIters DEF Notes, SameOps
<1>4. ASSUME NEW m \in Owed(i)' PROVE m # n => m \in Owed(i)
  <2>1. /\ m \in alive' /\ table'.list.val[m] \in Values /\ m # Iters[i]
        /\ table'.list.val[m] = walks'[i].val /\ m \notin walks'[i].late
        /\ ~Kept(m, walks'[i].op)
    BY DEF Owed, Holding
  <2>2. QED BY <1>2, <1>3, <2>1 DEF Owed, Holding
<1>5. ASSUME n \in Owed(i)' PROVE x = walks[i].val /\ table.list.val[n] = x
  <2>1. table'.list.val[n] = walks'[i].val /\ n \notin walks'[i].late
    BY <1>5 DEF Owed, Holding
  <2>2. QED BY <1>2, <1>3, <2>1
<1>6. ASSUME n \in Owed(i)', alive' = alive PROVE n \in Owed(i)
  <2>1. /\ n \in alive /\ n # Iters[i] /\ n \notin walks'[i].late /\ ~Kept(n, walks'[i].op)
    BY <1>6 DEF Owed, Holding
  <2>2. QED BY <1>3, <1>5, <1>6, <2>1 DEF Owed, Holding
<1>7. alive' = alive => Owed(i)' \subseteq Owed(i)
  BY <1>4, <1>6
<1>8. table.list.val[n] # x \/ x \notin Values => Owed(i)' \subseteq Owed(i) \ {n}
  BY <1>3, <1>4, <1>5
<1>9. QED BY <1>7, <1>8

(* The step takes at most n from ahead of any iterator.                    *)
KeepsAhead(n) ==
  \A i \in 1 .. Depth : \A O : AheadIn(table, alive, Iters[i], O)
                                 => AheadIn(table', alive', Iters[i], O \ {n})

(* Every operation client code has on handles moves one handle, takes at   *)
(* most that one from ahead of the walks, and notes it when it joins a     *)
(* list that is walked.                                                    *)
LEMMA ClientAhead ==
  ASSUME WInv, NEW n \in Handles, NEW m \in Handles, NEW v \in Referents,
         \/ NewHandle(n, v) \/ AssignHandle(n, v)
         \/ CopyHandle(n, m) \/ CopyAssignHandle(n, m) \/ DropHandle(n)
  PROVE  \E x \in Referents : /\ ClientMove(n, x) /\ Notes(n, x, walks') /\ KeepsAhead(n)
                              /\ table.list.val[n] # x \/ x \notin Values
<1> USE DEF WInv
<1>1. /\ TypeOK /\ Holds(table, alive) /\ n \in Nodes /\ Null \notin Values
      /\ table.list.val \in [Nodes -> Referents]
      /\ \A x : Notes(n, x, NoteLate(n, x))
  BY NoteLateNotes, NullAssumption DEF IInv, Handles, TypeOK, Lists, Values
<1>2. PICK x \in Referents : ClientMove(n, x)
  BY ClientHandleMoves
<1>3. x = table'.list.val[n]
  BY <1>1, <1>2 DEF ClientMove
<1>4. \A i \in 1 .. Depth : Iters[i] \in Holding(table, alive) /\ Iters[i] # n
  BY WalkIters
<1>5. n \notin alive => table.list.val[n] = Null
  BY <1>1 DEF DeadIsNull
<1>6. ASSUME NEW i \in 1 .. Depth, NEW O, AheadIn(table, alive, Iters[i], O)
      PROVE  AheadIn(table', alive', Iters[i], O \ {n})
  <2>1. PICK it : it = Iters[i] /\ it \in Holding(table, alive) /\ it # n
    BY <1>4
  <2>2. AheadIn(table, alive, it, O) /\ O \ {n} \subseteq O
    BY <1>6, <2>1
  <2>3. AheadIn(table, alive, it, O \ {n})
    BY <2>2, FewerAheadIn
  <2>4. CASE NewHandle(n, v)
    BY <1>1, <2>1, <2>3, <2>4, ConstructAhead DEF NewHandle
  <2>5. CASE AssignHandle(n, v)
    BY <1>1, <2>1, <2>2, <2>5, AssignAhead DEF AssignHandle
  <2>6. CASE CopyHandle(n, m)
    BY <1>1, <2>1, <2>3, <2>6, CopyConstructAhead DEF CopyHandle
  <2>7. CASE CopyAssignHandle(n, m)
    BY <1>1, <2>1, <2>2, <2>7, CopyAssignAhead DEF CopyAssignHandle
  <2>8. CASE DropHandle(n)
    BY <1>1, <2>1, <2>2, <2>8, DropAhead DEF DropHandle
  <2>9. QED BY <2>4, <2>5, <2>6, <2>7, <2>8
<1>7. KeepsAhead(n)
  BY <1>6 DEF KeepsAhead
<1>8. Notes(n, x, walks') /\ (table.list.val[n] # x \/ x \notin Values)
  <2>1. CASE NewHandle(n, v)
    <3>1. table' = Construct(table, n, v) /\ n \notin alive /\ walks' = NoteLate(n, v)
      BY <2>1 DEF NewHandle
    <3>2. Holds(table', alive \cup {n}) /\ table'.list.val = [table.list.val EXCEPT ![n] = v]
      BY <1>1, <3>1, ConstructHolds
    <3>3. x = v
      BY <1>1, <1>3, <3>2
    <3>4. QED BY <1>1, <1>5, <3>1, <3>3
  <2>2. CASE AssignHandle(n, v)
    <3>1. table' = Assign(table, n, v) /\ n \in alive /\ walks' = NoteLate(n, v)
          /\ table.list.val[n] # v
      BY <2>2 DEF AssignHandle
    <3>2. Holds(table', alive) /\ table'.list.val = [table.list.val EXCEPT ![n] = v]
      BY <1>1, <3>1, AssignHolds
    <3>3. x = v
      BY <1>1, <1>3, <3>2
    <3>4. QED BY <1>1, <3>1, <3>3
  <2>3. CASE CopyHandle(n, m)
    <3>1. table' = CopyConstruct(table, n, m) /\ n \notin alive /\ m \in alive
          /\ walks' = NoteLate(n, table.list.val[m])
      BY <2>3 DEF CopyHandle
    <3>2. /\ Holds(table', alive \cup {n})
          /\ table'.list.val = [table.list.val EXCEPT ![n] = table.list.val[m]]
      BY <1>1, <3>1, CopyConstructHolds
    <3>3. x = table.list.val[m]
      BY <1>1, <1>3, <3>2
    <3>4. QED BY <1>1, <1>5, <3>1, <3>3
  <2>4. CASE CopyAssignHandle(n, m)
    <3>1. table' = CopyAssign(table, n, m) /\ n \in alive /\ m \in alive
          /\ walks' = NoteLate(n, table.list.val[m]) /\ table.list.val[n] # table.list.val[m]
      BY <2>4 DEF CopyAssignHandle
    <3>2. /\ Holds(table', alive)
          /\ table'.list.val = [table.list.val EXCEPT ![n] = table.list.val[m]]
      BY <1>1, <3>1, CopyAssignHolds
    <3>3. x = table.list.val[m]
      BY <1>1, <1>3, <3>2
    <3>4. QED BY <1>1, <3>1, <3>3
  <2>5. CASE DropHandle(n)
    <3>1. table' = Forget(Release(table, n), n) /\ n \in alive /\ walks' = walks
      BY <2>5 DEF DropHandle
    <3>2. Holds(table', alive \ {n}) /\ table'.list.val = [table.list.val EXCEPT ![n] = Null]
      BY <1>1, <3>1, DropHolds
    <3>3. x = Null
      BY <1>1, <1>3, <3>2
    <3>4. QED BY <1>1, <3>1, <3>3, WalkIters DEF Notes
  <2>6. QED BY <2>1, <2>2, <2>3, <2>4, <2>5
<1>9. QED BY <1>2, <1>7, <1>8
(* When one handle moves, a destroyed handle still refers to nothing.      *)
LEMMA DeadStaysNull ==
  ASSUME IInv, DeadIsNull, NEW n \in Nodes, NEW x,
         table'.list.val = [table.list.val EXCEPT ![n] = x],
         alive' \ {n} = alive \ {n}, n \in alive' \/ x = Null
  PROVE  DeadIsNull'
<1>1. table.list.val \in [Nodes -> Referents]
  BY DEF IInv, TypeOK, Lists
<1>2. QED BY <1>1 DEF DeadIsNull

(* The operations of client code on handles keep the invariant.            *)
LEMMA ClientHandlesOwe ==
  ASSUME WInv, NEW n \in Handles, NEW m \in Handles, NEW v \in Referents,
         \/ NewHandle(n, v) \/ AssignHandle(n, v)
         \/ CopyHandle(n, m) \/ CopyAssignHandle(n, m) \/ DropHandle(n)
  PROVE  OwedAhead' /\ DeadIsNull' /\ ReplacedByOther'
<1>1. PICK x \in Referents : /\ ClientMove(n, x) /\ Notes(n, x, walks') /\ KeepsAhead(n)
                             /\ table.list.val[n] # x \/ x \notin Values
  BY ClientAhead
<1>2. IInv /\ OwedAhead /\ DeadIsNull /\ ReplacedByOther /\ n \in Nodes
  BY DEF WInv, Handles
<1>3. Depth' = Depth /\ SameOps
  BY <1>1, <1>2, WalkIters DEF ClientMove, SameWalks, SameOps, Depth
<1>4. ASSUME NEW i \in 1 .. Depth PROVE AheadIn(table', alive', Iters[i], Owed(i)')
  <2>1. AheadIn(table', alive', Iters[i], Owed(i) \ {n})
    BY <1>1, <1>2 DEF OwedAhead, KeepsAhead
  <2>2. Owed(i)' \subseteq Owed(i) \ {n}
    BY <1>1, <1>2, <1>3, OwedShrinks DEF ClientMove
  <2>3. QED BY <2>1, <2>2, FewerAheadIn
<1>5. OwedAhead'
  BY <1>3, <1>4 DEF OwedAhead
<1>6. DeadIsNull'
  BY <1>1, <1>2, DeadStaysNull DEF ClientMove
<1>7. ReplacedByOther'
  BY <1>2, <1>3 DEF ReplacedByOther, SameOps
<1>8. QED BY <1>5, <1>6, <1>7

(* The iterator of a walk that starts has the whole list ahead of it.      *)
LEMMA WholeListAhead ==
  ASSUME NEW Vals, NEW L, NEW M, WellLinked(L, M, Vals), NEW v \in Owners,
         NEW it \in Nodes, it \notin M,
         NEW R, R = Insert(L, HeadOf(v), it)
  PROVE  Ahead(R, M \cup {it}, it, {m \in M : L.val[m] = v})
<1> DEFINE S == {m \in M : L.val[m] = v}
<1>1. HeadLinked(L, M, v)
  BY DEF WellLinked, Linked
<1>2. /\ \A m \in Nodes \ {it} : m # L.head[v] => R.prev[m] = L.prev[m]
      /\ L.head[v] \in Nodes => R.prev[L.head[v]] = NextOf(it)
  <2>1. L \in Lists(Vals) /\ L.head[v] # it
    BY <1>1, NullAssumption DEF WellLinked, HeadLinked
  <2>2. InsertedAtHead(L, v, it, R)
    BY <2>1, InsertAtHeadFields
  <2>3. QED BY <2>1, <2>2 DEF InsertedAtHead
<1>3. ASSUME NEW m \in S PROVE \E k \in S \cup {it} : R.prev[m] = NextOf(k)
  <2>1. m \in Nodes \ {it} /\ NodeLinked(L, M, m) /\ m # Null
    BY PrevFacts DEF WellLinked, Linked
  <2>2. CASE m = L.head[v]
    BY <1>2, <2>1, <2>2
  <2>3. CASE m # L.head[v]
    <3>1. PICK k \in M : L.prev[m] = NextOf(k) /\ L.next[k] = m
      BY <2>1, <2>3 DEF NodeLinked
    <3>2. NodeLinked(L, M, k)
      BY DEF WellLinked, Linked
    <3>3. L.val[k] = v
      BY <2>1, <3>1, <3>2 DEF NodeLinked
    <3>4. QED BY <1>2, <2>1, <2>3, <3>1, <3>3
  <2>4. QED BY <2>2, <2>3
<1>4. S \subseteq (M \cup {it}) \ {it}
  OBVIOUS
<1> HIDE DEF S
<1>5. Trail(R, M \cup {it}, it, S)
  BY <1>3, <1>4 DEF Trail
<1>6. Ahead(R, M \cup {it}, it, S)
  BY <1>5 DEF Ahead
<1>7. QED BY <1>6 DEF S

(* A walk that starts owes at most the handles of its list, which are all  *)
(* ahead of it, and takes none from the walks further out.                 *)
LEMMA StartWalkOwes ==
  ASSUME WInv, NEW op, NEW v \in Values, NEW w, v \in table.marked,
         StartWalk(op, v, w), op = "replace" => w # v
  PROVE  OwedAhead' /\ DeadIsNull' /\ ReplacedByOther'
<1> DEFINE it == Iters[Depth + 1]
           h  == table.list.head[v]
           f  == [op |-> op, val |-> v, to |-> w, entry |-> h, pc |-> "visit", late |-> {}]
           M  == Holding(table, alive)
<1>1. /\ IInv /\ Holds(table, alive) /\ OwedAhead /\ DeadIsNull /\ ReplacedByOther
      /\ table.list.val \in [Nodes -> Referents] /\ v \in Referents
  BY DEF WInv, IInv, TypeOK, Lists, Referents
<1>2. /\ Depth \in Nat /\ Depth < Len(Iters) /\ Len(Iters) \in Nat
      /\ walks \in Seq(Frames) /\ Depth = Len(walks) /\ alive' = alive \cup {it}
  BY <1>1, HandleAssumption DEF IInv, TypeOK, StartWalk, Depth
<1>3. /\ it \in Nodes /\ it \notin alive /\ Kind[it] = "Assert" /\ it \notin M
  BY <1>1, <1>2, HandleAssumption DEF IInv, WalkKeepsPlace, Holding
<1>4. /\ h \in M /\ h \in alive /\ h \in Nodes /\ table.list.val[h] = v
      /\ table.list.prev[h] = HeadOf(v)
  BY <1>1, NullAssumption DEF Holds, TableLinked, WellLinked, Linked, HeadLinked, Holding, Values
<1>5. table' = CopyConstruct(table, it, h)
  BY <1>4 DEF StartWalk, CopyConstruct, IsValid
<1>6. /\ Holds(table', alive') /\ table'.list.val = [table.list.val EXCEPT ![it] = v]
  <2> HIDE DEF it, h
  <2>1. /\ Holds(table', alive \cup {it})
        /\ table'.list.val = [table.list.val EXCEPT ![it] = table.list.val[h]]
    BY <1>1, <1>3, <1>4, <1>5, CopyConstructHolds
  <2>2. QED BY <1>2, <1>4, <2>1
<1>7. walks' = Append(walks, f)
  BY DEF StartWalk
<1>8. PICK d : /\ d = Depth + 1 /\ Depth' = d /\ walks'[d] = f /\ it = Iters[d]
               /\ \A i \in 1 .. Depth : walks'[i] = walks[i]
  <2> HIDE DEF f
  <2>1. QED BY <1>2, <1>7 DEF Depth
<1>9. ASSUME NEW i \in 1 .. Depth PROVE AheadIn(table', alive', Iters[i], Owed(i)')
  <2>1. Iters[i] \in M /\ AheadIn(table, alive, Iters[i], Owed(i))
    BY <1>1, WalkIters DEF OwedAhead
  <2>2. AheadIn(table', alive', Iters[i], Owed(i))
    <3> HIDE DEF it, h
    <3>1. PICK j : j = Iters[i] /\ j \in M /\ AheadIn(table, alive, j, Owed(i))
      BY <2>1
    <3>2. QED BY <1>1, <1>2, <1>3, <1>4, <1>5, <3>1, CopyConstructAhead
  <2>3. Owed(i)' \subseteq Owed(i)
    <3>1. ASSUME NEW m \in Owed(i)' PROVE m \in Owed(i)
      <4>1. /\ m \in alive' /\ table'.list.val[m] \in Values /\ m # Iters[i]
            /\ table'.list.val[m] = walks[i].val /\ m \notin walks[i].late
            /\ ~Kept(m, walks[i].op)
        BY <1>8 DEF Owed, Holding
      <4>2. m # it
        BY <1>3, <4>1 DEF Kept
      <4>3. m \in alive /\ table'.list.val[m] = table.list.val[m]
        BY <1>1, <1>2, <1>6, <4>1, <4>2
      <4>4. QED BY <4>1, <4>3 DEF Owed, Holding
    <3>2. QED BY <3>1
  <2>4. QED BY <2>2, <2>3, FewerAheadIn
<1>10. AheadIn(table', alive', Iters[d], Owed(d)')
  <2>1. PICK U : U = Point(table, it, v)
    OBVIOUS
  <2>2. /\ TableLinked(table, M) /\ v \in Owners
    BY <1>1 DEF Holds, Values
  <2>3. /\ TableLinked(U, M) /\ U.list.val = [table.list.val EXCEPT ![it] = v]
        /\ U.list.prev = table.list.prev
    <3> HIDE DEF M, it
    <3>1. QED BY <1>1, <1>3, <2>1, <2>2, PointLinked
  <2>4. table'.list = Insert(U.list, HeadOf(v), it)
    BY <1>4, <1>5, <2>1, <2>3 DEF CopyConstruct, AddToExistingUseList, WithList, IsValid
  <2>5. WellLinked(U.list, M, Referents)
    BY <2>3 DEF TableLinked
  <2>6. Ahead(table'.list, M \cup {it}, it, {m \in M : U.list.val[m] = v})
    <3> HIDE DEF M, it
    <3>1. QED BY <1>3, <2>2, <2>4, <2>5, WholeListAhead
  <2>7. Holding(table', alive') = M \cup {it}
    BY <1>1, <1>2, <1>3, <1>6 DEF Holding, Holds
  <2>8. Owed(d)' \subseteq {m \in M : U.list.val[m] = v}
    <3>1. walks'[d].val = v /\ it = Iters[d]
      BY <1>8
    <3>2. \A m \in M : U.list.val[m] = table'.list.val[m]
      BY <1>6, <2>3
    <3> HIDE DEF M
    <3>3. QED BY <2>7, <3>1, <3>2 DEF Owed
  <2>9. QED BY <1>8, <2>6, <2>7, <2>8, FewerAhead DEF AheadIn
<1>11. \A i \in 1 .. Depth' : i \in 1 .. Depth \/ i = d
  BY <1>2, <1>8
<1>12. OwedAhead'
  BY <1>9, <1>10, <1>11 DEF OwedAhead
<1>13. DeadIsNull'
  <2>1. alive' \ {it} = alive \ {it} /\ it \in alive'
    BY <1>2
  <2> HIDE DEF it
  <2>2. QED BY <1>1, <1>3, <1>6, <2>1, DeadStaysNull
<1>14. ReplacedByOther'
  BY <1>1, <1>8, <1>11 DEF ReplacedByOther
<1>15. QED BY <1>12, <1>13, <1>14

(* The end of a walk destroys its iterator, which no walk owes a visit.    *)
LEMMA WalkEndOwes ==
  ASSUME WInv, FinishDelete \/ FinishReplace
  PROVE  OwedAhead' /\ DeadIsNull' /\ ReplacedByOther'
<1>1. /\ walks # << >> /\ IInv /\ Holds(table, alive)
      /\ OwedAhead /\ DeadIsNull /\ ReplacedByOther
      /\ table' = AfterWalk /\ alive' = alive \ {Iter} /\ walks' = SubSeq(walks, 1, Depth - 1)
  BY DEF FinishDelete, FinishReplace, AtEnd, InLoop, WInv, IInv
<1>2. /\ Depth \in 1 .. Depth /\ Depth = Len(walks) /\ Depth \in Nat /\ walks \in Seq(Frames)
      /\ Iter = Iters[Depth] /\ Iter \in alive /\ Iter \in Nodes
      /\ table.list.val[Iter] \in Values
  BY <1>1, TopFacts DEF Iter
<1>3. table' = Forget(Release(table, Iter), Iter)
  BY <1>1, <1>2 DEF AfterWalk, Release, IsValid
<1>4. /\ Holds(table', alive') /\ table'.list.val = [table.list.val EXCEPT ![Iter] = Null]
  BY <1>1, <1>2, <1>3, DropHolds
<1>5. /\ Depth' = Depth - 1
      /\ \A i \in 1 .. Depth' : i \in 1 .. Depth /\ i # Depth /\ walks'[i] = walks[i]
  <2>1. /\ walks' \in Seq(Frames) /\ Len(walks') = Depth - 1
        /\ \A i \in 1 .. Depth - 1 : walks'[i] = walks[i]
    BY <1>1, <1>2
  <2>2. Depth' = Depth - 1
    BY <2>1 DEF Depth
  <2>3. QED BY <1>2, <2>1, <2>2
<1>6. ASSUME NEW i \in 1 .. Depth' PROVE AheadIn(table', alive', Iters[i], Owed(i)')
  <2>1. PICK j : /\ j = Iters[i] /\ j \in Holding(table, alive) /\ j # Iter
                 /\ AheadIn(table, alive, j, Owed(i))
    BY <1>1, <1>2, <1>5, WalkIters DEF OwedAhead
  <2>2. AheadIn(table', alive', j, Owed(i) \ {Iter})
    BY <1>1, <1>2, <1>3, <2>1, DropAhead
  <2>3. Owed(i)' \subseteq Owed(i) \ {Iter}
    <3>1. ASSUME NEW m \in Owed(i)' PROVE m \in Owed(i) \ {Iter}
      <4>1. /\ m \in alive' /\ table'.list.val[m] \in Values /\ m # Iters[i]
            /\ table'.list.val[m] = walks[i].val /\ m \notin walks[i].late
            /\ ~Kept(m, walks[i].op)
        BY <1>5 DEF Owed, Holding
      <4>2. m \in alive \ {Iter} /\ table'.list.val[m] = table.list.val[m]
        <5>1. table.list.val \in [Nodes -> Referents] /\ alive \subseteq Nodes
          BY <1>1 DEF IInv, TypeOK, Lists
        <5>2. QED BY <1>1, <1>4, <4>1, <5>1
      <4>3. QED BY <4>1, <4>2 DEF Owed, Holding
    <3>2. QED BY <3>1
  <2>4. QED BY <2>1, <2>2, <2>3, FewerAheadIn
<1>7. OwedAhead'
  BY <1>6 DEF OwedAhead
<1>8. DeadIsNull'
  <2>1. alive' \ {Iter} = alive \ {Iter}
    BY <1>1
  <2>2. QED BY <1>1, <1>2, <1>4, <2>1, DeadStaysNull
<1>9. ReplacedByOther'
  BY <1>1, <1>5 DEF ReplacedByOther
<1>10. QED BY <1>7, <1>8, <1>9
(* Visiting a handle that is not kept redirects it away from the value     *)
(* walked; the visit changes nothing else, and often nothing.              *)
LEMMA NotifyRedirects ==
  ASSUME NEW T, NEW k \in Nodes, NEW w \in Frames,
         w.op = "delete" => w.to = Null, w.op = "replace" => w.to # w.val,
         T.list.val[k] = w.val, k \notin Overriding
  PROVE  \/ /\ Notify(T, k, w) = T
            /\ Kept(k, w.op)
         \/ /\ Kind[k] # "Assert"
            /\ \E x \in Referents : x # w.val /\ Notify(T, k, w) = Assign(T, k, x)
<1>1. /\ Kind[k] \in Kinds /\ w.to \in Referents /\ w.val \in Values
      /\ {Null, Tombstone} \subseteq Referents /\ Null \notin Values /\ Tombstone \notin Values
      /\ w.op \in {"delete", "replace"}
  BY HandleAssumption, NullAssumption DEF Frames, Referents, Values
<1>2. w.to # w.val
  BY <1>1
<1>3. CASE Kind[k] = "Weak"
  BY <1>1, <1>2, <1>3 DEF Notify
<1>4. CASE Kind[k] = "Tracking"
  BY <1>1, <1>2, <1>4 DEF Notify
<1>5. CASE Kind[k] = "Callback"
  BY <1>1, <1>5 DEF Notify, Kept
<1>6. CASE Kind[k] = "Assert"
  BY <1>6 DEF Notify, Kept
<1>7. QED BY <1>1, <1>3, <1>4, <1>5, <1>6 DEF Kinds

(* The handle the innermost walk is about to visit, when there is one.     *)
LEMMA NextVisit ==
  ASSUME WInv, InLoop, Top.entry # Null
  PROVE  /\ walks # << >> /\ Top \in Frames /\ Top = walks[Depth] /\ Depth \in 1 .. Depth
         /\ Iter = Iters[Depth] /\ Iter \in alive /\ Iter \in Holding(table, alive)
         /\ Top.entry \in alive /\ Top.entry \in Nodes /\ Top.entry # Iter
         /\ table.list.val[Iter] = Top.val /\ table.list.val[Iter] \in Values
         /\ table.list.val[Top.entry] = table.list.val[Iter]
         /\ table.list.next[Iter] = Top.entry
         /\ Top.op = "delete" => Top.to = Null
         /\ Top.op = "replace" => Top.to # Top.val
<1>1. IInv /\ walks # << >> /\ Top.pc = "visit" /\ outcome = "ok"
  BY DEF WInv, InLoop
<1>2. /\ Depth \in Nat /\ Depth \in 1 .. Depth /\ Top = walks[Depth]
      /\ Iter = Iters[Depth] /\ Iter \in alive
  BY <1>1, TopFacts DEF Iter
<1>3. table.list.next[Iter] = Top.entry /\ (Top.op = "delete" => Top.to = Null)
  BY <1>1, <1>2 DEF IInv, WalkKeepsPlace
<1>4. Top.op = "replace" => Top.to # Top.val
  BY <1>2 DEF WInv, ReplacedByOther
<1>5. QED BY <1>1, <1>2, <1>3, <1>4, TopFacts, EntryFacts DEF Holding

(***************************************************************************)
(* Moving the iterator takes the handle visited from ahead of it; that     *)
(* handle is all another walk can lose, and it is not owed its iterator.   *)
(***************************************************************************)
LEMMA MoveIterOwes ==
  ASSUME WInv, InLoop, Top.entry # Null, NEW T, T = MoveIter(table, Iter, Top.entry)
  PROVE  \A i \in 1 .. Depth :
           AheadIn(T, alive, Iters[i], IF i = Depth THEN Owed(i) \ {Top.entry} ELSE Owed(i))
<1> DEFINE k == Top.entry
<1>1. IInv /\ OwedAhead /\ Holds(table, alive)
  BY DEF WInv, IInv
<1>2. /\ Iter \in alive /\ k \in alive /\ k # Iter /\ Iter = Iters[Depth] /\ Depth \in 1 .. Depth
      /\ table.list.val[Iter] \in Values /\ table.list.val[k] = table.list.val[Iter]
      /\ table.list.next[Iter] = k
  BY NextVisit
<1> HIDE DEF k
<1>3. T = MoveIter(table, Iter, k)
  BY DEF k
<1>4. /\ \A O : AheadIn(table, alive, Iter, O) => AheadIn(T, alive, Iter, O \ {k})
      /\ \A j \in Holding(table, alive) \ {Iter} :
           \A O : AheadIn(table, alive, j, O) => AheadIn(T, alive, j, O \ {Iter})
  BY <1>1, <1>2, <1>3, MoveIterAhead
<1>5. AheadIn(T, alive, Iter, Owed(Depth) \ {k})
  BY <1>1, <1>2, <1>4 DEF OwedAhead
<1>6. ASSUME NEW i \in 1 .. Depth, i # Depth PROVE AheadIn(T, alive, Iters[i], Owed(i))
  <2>1. /\ Iters[i] \in Holding(table, alive) /\ Iters[i] # Iter
        /\ Kind[Iter] = "Assert" /\ AheadIn(table, alive, Iters[i], Owed(i))
    BY <1>1, <1>2, <1>6, WalkIters DEF OwedAhead
  <2>2. Owed(i) \ {Iter} = Owed(i)
    BY <2>1 DEF Owed, Kept
  <2>3. AheadIn(T, alive, Iters[i], Owed(i) \ {Iter})
    BY <1>4, <2>1
  <2>4. QED BY <2>2, <2>3
<1>7. QED BY <1>2, <1>5, <1>6 DEF k

(* A visit pays what it owes.                                              *)
LEMMA VisitOwes ==
  ASSUME WInv, Visit
  PROVE  OwedAhead' /\ DeadIsNull' /\ ReplacedByOther'
<1>0. PICK k : k = Top.entry
  OBVIOUS
<1>1. /\ IInv /\ TypeOK /\ Holds(table, alive) /\ DeadIsNull /\ ReplacedByOther
      /\ InLoop /\ k # Null /\ k \notin Overriding /\ alive' = alive
  BY <1>0 DEF Visit, WInv, IInv
<1>2. /\ Top \in Frames /\ Top = walks[Depth] /\ Depth \in 1 .. Depth
      /\ Iter = Iters[Depth] /\ Iter \in alive /\ Iter \in Holding(table, alive)
      /\ k \in alive /\ k \in Nodes /\ k # Iter
      /\ table.list.val[Iter] = Top.val /\ table.list.val[Iter] \in Values
      /\ table.list.val[k] = table.list.val[Iter]
      /\ Top.op = "delete" => Top.to = Null
      /\ Top.op = "replace" => Top.to # Top.val
  BY <1>0, <1>1, NextVisit
<1>3. PICK x \in Referents : VisitMove(k, x)
  BY <1>0, <1>1, VisitMoves
<1>4. table'.list.val = [table.list.val EXCEPT ![k] = x] /\ table'.list.val[k] = x
  BY <1>1, <1>2, <1>3 DEF VisitMove, TypeOK, Lists
<1>5. PICK N : /\ SameWalks(N) /\ N = NoteLate(k, x)
               /\ walks' = [N EXCEPT ![Depth].entry = table'.list.next[Iter]]
  BY <1>3, <1>4 DEF VisitMove
<1>6. Notes(k, x, N)
  BY <1>1, <1>2, <1>5, NoteLateNotes
<1>7. /\ Depth' = Depth /\ SameOps /\ Notes(k, x, walks')
  <2>1. /\ Depth = Len(walks) /\ Len(N) = Depth /\ N \in Seq(Frames)
    BY <1>1, <1>5, WalkIters DEF SameWalks
  <2>2. ASSUME NEW i \in 1 .. Depth
        PROVE  /\ walks'[i].op = N[i].op /\ walks'[i].val = N[i].val
               /\ walks'[i].to = N[i].to /\ walks'[i].late = N[i].late
    BY <1>5, <2>1, <2>2 DEF Frames
  <2>3. Len(walks') = Len(N)
    BY <1>5, <2>1
  <2>4. QED BY <1>5, <1>6, <2>1, <2>2, <2>3 DEF SameOps, SameWalks, Notes, Depth
<1>8. PICK T : /\ T = MoveIter(table, Iter, k) /\ table' = Notify(T, k, Top)
  BY <1>0 DEF Visit
<1>9. /\ Holds(T, alive) /\ T.list.val = table.list.val
  BY <1>1, <1>2, <1>8, MoveIterHolds
<1>10. \A i \in 1 .. Depth :
         AheadIn(T, alive, Iters[i], IF i = Depth THEN Owed(i) \ {k} ELSE Owed(i))
  BY <1>0, <1>1, <1>8, MoveIterOwes
<1>11. /\ \A i \in 1 .. Depth : Owed(i)' \subseteq Owed(i)
       /\ x # table.list.val[k] => \A i \in 1 .. Depth : Owed(i)' \subseteq Owed(i) \ {k}
  BY <1>1, <1>2, <1>4, <1>7, OwedShrinks
<1>12. \A i \in 1 .. Depth : AheadIn(table', alive', Iters[i], Owed(i)')
  <2>1. CASE table' = T /\ Kept(k, Top.op)
    <3>1. ASSUME NEW i \in 1 .. Depth, i = Depth PROVE k \notin Owed(i)'
      BY <1>2, <1>7, <2>1, <3>1 DEF Owed, SameOps
    <3>2. ASSUME NEW i \in 1 .. Depth PROVE AheadIn(table', alive', Iters[i], Owed(i)')
      <4>1. CASE i = Depth
        <5>1. Owed(i)' \subseteq Owed(i) \ {k}
          BY <1>11, <3>1, <4>1
        <5>2. QED BY <1>1, <1>10, <2>1, <4>1, <5>1, FewerAheadIn
      <4>2. CASE i # Depth
        BY <1>1, <1>10, <1>11, <2>1, <4>2, FewerAheadIn
      <4>3. QED BY <4>1, <4>2
    <3>3. QED BY <3>2
  <2>2. CASE Kind[k] # "Assert" /\ \E y \in Referents : y # Top.val /\ table' = Assign(T, k, y)
    <3>1. PICK y \in Referents : y # T.list.val[k] /\ table' = Assign(T, k, y)
      BY <1>2, <1>9, <2>2
    <3>2. Holds(table', alive) /\ table'.list.val = [T.list.val EXCEPT ![k] = y]
      BY <1>2, <1>9, <3>1, AssignHolds
    <3>3. y = x /\ x # table.list.val[k]
      BY <1>1, <1>2, <1>4, <1>9, <3>1, <3>2 DEF TypeOK, Lists
    <3>4. ASSUME NEW i \in 1 .. Depth PROVE AheadIn(table', alive', Iters[i], Owed(i)')
      <4>1. PICK j : /\ j = Iters[i] /\ j \in Holding(T, alive) /\ j # k
        BY <1>1, <1>9, <2>2, WalkIters DEF Holding
      <4>2. AheadIn(T, alive, j, Owed(i) \ {k})
        BY <1>10, <4>1, FewerAheadIn
      <4>3. AheadIn(table', alive, j, (Owed(i) \ {k}) \ {k})
        BY <1>2, <1>9, <3>1, <4>1, <4>2, AssignAhead
      <4>4. Owed(i)' \subseteq (Owed(i) \ {k}) \ {k}
        BY <1>11, <3>3
      <4>5. QED BY <1>1, <4>1, <4>3, <4>4, FewerAheadIn
    <3>5. QED BY <3>4
  <2>3. QED BY <1>1, <1>2, <1>8, <1>9, <2>1, <2>2, NotifyRedirects
<1>13. OwedAhead'
  BY <1>7, <1>12 DEF OwedAhead
<1>14. DeadIsNull'
  BY <1>1, <1>2, <1>4, DeadStaysNull
<1>15. ReplacedByOther'
  BY <1>1, <1>7 DEF ReplacedByOther, SameOps
<1>16. QED BY <1>13, <1>14, <1>15

(* The call of an overridden virtual function visits a handle that is      *)
(* kept; its return moves nothing.                                         *)
LEMMA CallbackOwes ==
  ASSUME WInv, EnterCallback \/ ReturnFromCallback
  PROVE  OwedAhead' /\ DeadIsNull' /\ ReplacedByOther'
<1>1. /\ IInv /\ Holds(table, alive) /\ OwedAhead /\ DeadIsNull /\ ReplacedByOther
      /\ walks # << >> /\ alive' = alive
  BY DEF EnterCallback, ReturnFromCallback, InLoop, WInv, IInv
<1>2. /\ Depth = Len(walks) /\ Depth \in Nat /\ walks \in Seq(Frames)
      /\ \A i \in 1 .. Depth : walks[i] \in Frames
  BY <1>1, WalkIters
<1>3. /\ Depth' = Depth /\ SameOps /\ \A i \in 1 .. Depth : walks'[i].late = walks[i].late
  <2>1. \/ walks' = [walks EXCEPT ![Depth].pc = "callback"]
        \/ walks' = [walks EXCEPT ![Depth].pc = "visit",
                                  ![Depth].entry = table.list.next[Iter]]
    BY DEF EnterCallback, ReturnFromCallback, Successor
  <2>2. Len(walks') = Len(walks)
    BY <1>2, <2>1
  <2>3. ASSUME NEW i \in 1 .. Depth
        PROVE  /\ walks'[i].op = walks[i].op /\ walks'[i].val = walks[i].val
               /\ walks'[i].to = walks[i].to /\ walks'[i].late = walks[i].late
    BY <1>2, <2>1, <2>3 DEF Frames
  <2>4. QED BY <2>2, <2>3 DEF SameOps, Depth
<1>4. table'.list.val = table.list.val
  <2>1. CASE EnterCallback
    <3>1. /\ InLoop /\ Top.entry # Null /\ table' = MoveIter(table, Iter, Top.entry)
      BY <2>1, HandleAssumption, NullAssumption DEF EnterCallback, Handles
    <3>2. QED BY <1>1, <3>1, NextVisit, MoveIterHolds
  <2>2. CASE ReturnFromCallback
    BY <2>2 DEF ReturnFromCallback
  <2>3. QED BY <2>1, <2>2
<1>5. \A i \in 1 .. Depth : Owed(i)' = Owed(i)
  BY <1>1, <1>3, <1>4 DEF Owed, Holding, SameOps
<1>6. \A i \in 1 .. Depth : AheadIn(table', alive', Iters[i], Owed(i)')
  <2>1. CASE EnterCallback
    <3>1. /\ InLoop /\ Top.entry # Null /\ table' = MoveIter(table, Iter, Top.entry)
          /\ Top.entry \in Overriding
      BY <2>1, HandleAssumption, NullAssumption DEF EnterCallback, Handles
    <3>2. \A i \in 1 .. Depth : Top.entry \notin Owed(i)
      BY <3>1 DEF Owed, Kept
    <3>3. \A i \in 1 .. Depth : Owed(i) \ {Top.entry} = Owed(i)
      BY <3>2
    <3>4. \A i \in 1 .. Depth : AheadIn(table', alive, Iters[i], Owed(i))
      BY <3>1, <3>3, MoveIterOwes
    <3>5. QED BY <1>1, <1>5, <3>4
  <2>2. CASE ReturnFromCallback
    BY <1>1, <1>5, <2>2 DEF ReturnFromCallback, OwedAhead
  <2>3. QED BY <2>1, <2>2
<1>7. OwedAhead'
  BY <1>3, <1>6 DEF OwedAhead
<1>8. DeadIsNull'
  BY <1>1, <1>4 DEF DeadIsNull
<1>9. ReplacedByOther'
  BY <1>1, <1>3 DEF ReplacedByOther, SameOps
<1>10. QED BY <1>7, <1>8, <1>9

(***************************************************************************)
(* The invariant is inductive: one case for each action.                   *)
(***************************************************************************)
LEMMA NextOwes == WInv /\ [Next]_vars => WInv'
<1> SUFFICES ASSUME WInv, [Next]_vars PROVE OwedAhead' /\ DeadIsNull' /\ ReplacedByOther'
  BY NextKeeps DEF WInv
<1>1. Null \in Referents
  BY DEF Referents
<1>2. CASE \/ \E n \in Handles, v \in Referents : NewHandle(n, v) \/ AssignHandle(n, v)
           \/ \E n, m \in Handles : CopyHandle(n, m) \/ CopyAssignHandle(n, m)
           \/ \E n \in Handles : DropHandle(n)
  BY <1>1, <1>2, ClientHandlesOwe
<1>3. CASE UNCHANGED <<table, alive, walks>>
  BY <1>3 DEF WInv, OwedAhead, DeadIsNull, ReplacedByOther, Owed, Holding, AheadIn, Depth
<1>4. ASSUME NEW v \in Values, NewValue(v) \/ DeleteValue(v)
      PROVE  OwedAhead' /\ DeadIsNull' /\ ReplacedByOther'
  <2>1. CASE NewValue(v) \/ v \notin table.marked
    BY <1>3, <1>4, <2>1 DEF NewValue, DeleteValue
  <2>2. CASE DeleteValue(v) /\ v \in table.marked
    BY <2>2, StartWalkOwes DEF DeleteValue
  <2>3. QED BY <1>4, <2>1, <2>2
<1>5. ASSUME NEW v \in Values, NEW w \in Values, ReplaceValue(v, w)
      PROVE  OwedAhead' /\ DeadIsNull' /\ ReplacedByOther'
  BY <1>5, StartWalkOwes DEF ReplaceValue
<1>6. CASE Visit
  BY <1>6, VisitOwes
<1>7. CASE EnterCallback \/ ReturnFromCallback
  BY <1>7, CallbackOwes
<1>8. CASE FinishDelete \/ FinishReplace
  BY <1>8, WalkEndOwes
<1>9. QED
  BY <1>2, <1>3, <1>4, <1>5, <1>6, <1>7, <1>8 DEF Next, ClientStep, WalkStep, vars

(* The invariant holds in every reachable state.                           *)
LEMMA WalkInvariance == Spec => []WInv
<1>1. Init => WInv
  <2> SUFFICES ASSUME Init PROVE WInv
    OBVIOUS
  <2>1. Depth = 0 /\ \A n \in Nodes : table.list.val[n] = Null
    BY DEF Init, Depth
  <2>2. QED BY <2>1, InitHolds DEF WInv, OwedAhead, DeadIsNull, ReplacedByOther
<1>2. QED BY <1>1, NextOwes, PTL DEF Spec

(***************************************************************************)
(* However many handles there are, and whatever the callbacks of a walk do *)
(* to its list or to others, a walk that reaches its end has visited every *)
(* handle that was linked when it began and that its class lets go of.     *)
(***************************************************************************)
THEOREM WalkClearsHolds == Spec => []WalkClears
<1>1. WInv => WalkClears
  <2> SUFFICES ASSUME WInv, AtEnd,
                      NEW n \in Members \ {Iter},
                      table.list.val[n] = Top.val, n \notin Top.late, ~Kept(n, Top.op)
               PROVE  FALSE
    BY DEF WalkClears, Kept
  <2>1. /\ IInv /\ walks # << >> /\ Top.pc = "visit" /\ Top.entry = Null
    BY DEF AtEnd, InLoop, WInv
  <2>2. /\ Depth \in 1 .. Depth /\ Top = walks[Depth] /\ Iter = Iters[Depth]
    BY <2>1, TopFacts DEF Iter
  <2>3. table.list.next[Iter] = Null
    BY <2>1, <2>2 DEF IInv, WalkKeepsPlace
  <2>4. n \in Owed(Depth)
    BY <2>2 DEF Owed, Members, Holding
  <2>5. Iter \in Holding(table, alive) /\ AheadIn(table, alive, Iter, Owed(Depth))
    BY <2>1, <2>2, WalkIters DEF WInv, OwedAhead
  <2>6. WellLinked(table.list, Holding(table, alive), Referents)
    BY <2>1 DEF IInv, Holds, TableLinked
  <2>7. Owed(Depth) = {}
    BY <2>3, <2>5, <2>6, NothingAhead DEF AheadIn
  <2>8. QED BY <2>4, <2>7
<1>2. QED BY <1>1, WalkInvariance, PTL
-----------------------------------------------------------------------------
(***************************************************************************)
(* Client code holds weak, tracking and plain callback handles only: no    *)
(* handle that asserts its value is not deleted, and no class that         *)
(* overrides the virtual functions.  handles_default.cfg is such a case.   *)
(***************************************************************************)
OnlyDefaultHandles == Overriding = {} /\ \A n \in Handles : Kind[n] # "Assert"

(* Then no client code runs inside a walk, nothing joins a list while it   *)
(* is walked, and nothing has failed.                                      *)
NInv ==
  /\ WInv /\ outcome = "ok"
  /\ \A i \in 1 .. Depth : walks[i].pc = "visit" /\ walks[i].late = {}

(* There is at most one walk, and client code waits for it.                *)
LEMMA OneWalk ==
  ASSUME NInv
  PROVE  /\ Depth \in {0, 1} /\ walks \in Seq(Frames) /\ Depth = Len(walks)
         /\ ClientRuns => walks = << >>
<1>1. /\ IInv /\ Depth \in Nat /\ Depth = Len(walks) /\ walks \in Seq(Frames)
  BY WalkIters DEF NInv, WInv
<1>2. \A i \in 1 .. Depth : ~(i < Depth)
  BY <1>1 DEF NInv, IInv, WalkKeepsPlace
<1>3. Depth \in {0, 1}
  <2>1. Depth > 1 => 1 \in 1 .. Depth /\ 1 < Depth
    BY <1>1
  <2>2. QED BY <1>1, <1>2, <2>1
<1>4. walks # << >> => Depth \in 1 .. Depth /\ Top.pc = "visit"
  BY <1>1 DEF NInv, Top
<1>5. QED BY <1>1, <1>3, <1>4 DEF ClientRuns

(* When its walk ends, no handle client code holds is left on the list of  *)
(* a deleted value, and no weak or tracking one on that of a replaced one. *)
LEMMA NothingLeft ==
  ASSUME OnlyDefaultHandles, NInv, AtEnd,
         NEW n \in Holding(table, alive) \ {Iter}, table.list.val[n] = Top.val
  PROVE  Top.op = "replace" /\ Kind[n] = "Callback"
<1>1. /\ IInv /\ walks # << >> /\ Top.pc = "visit" /\ Top.entry = Null /\ WInv
  BY DEF AtEnd, InLoop, NInv, WInv
<1>2. /\ Depth = 1 /\ Depth \in 1 .. Depth /\ Top = walks[Depth] /\ Iter = Iters[Depth]
      /\ Depth \in 1 .. Len(Iters) /\ Len(Iters) \in Nat
  BY <1>1, OneWalk, TopFacts, HandleAssumption DEF Iter
<1>3. n \in Handles
  <2>1. n \in Nodes /\ n \in alive
    BY <1>1 DEF Holding, IInv, TypeOK
  <2>2. \A i \in 1 .. Len(Iters) : Iters[i] # n
    BY <1>1, <1>2, <2>1 DEF IInv, WalkKeepsPlace
  <2>3. QED BY <2>1, <2>2 DEF Handles, ItersSet
<1>4. table.list.next[Iter] = Null
  BY <1>1, <1>2 DEF IInv, WalkKeepsPlace
<1>5. Owed(Depth) = {}
  <2>1. Iter \in Holding(table, alive) /\ AheadIn(table, alive, Iter, Owed(Depth))
    BY <1>1, <1>2, WalkIters DEF WInv, OwedAhead
  <2>2. WellLinked(table.list, Holding(table, alive), Referents)
    BY <1>1 DEF IInv, Holds, TableLinked
  <2>3. QED BY <1>4, <2>1, <2>2, NothingAhead DEF AheadIn
<1>6. Kept(n, Top.op)
  BY <1>2, <1>5 DEF Owed, NInv
<1>7. QED BY <1>3, <1>6 DEF Kept, OnlyDefaultHandles

(* The end of a walk does not fail.                                        *)
LEMMA WalkEndSucceeds ==
  ASSUME OnlyDefaultHandles, NInv, FinishDelete \/ FinishReplace
  PROVE  outcome' = "ok"
<1>1. /\ AtEnd /\ IInv /\ walks # << >> /\ outcome = "ok" /\ Holds(table, alive)
  BY DEF FinishDelete, FinishReplace, AtEnd, InLoop, NInv, WInv, IInv
<1>2. /\ Iter \in alive /\ table.list.val[Iter] \in Values /\ Top.val \in Values
      /\ Top.val \notin {Null} /\ Iter \in Nodes
      /\ table.list.val \in [Nodes -> Referents] /\ alive \subseteq Nodes
  BY <1>1, TopFacts, NullAssumption DEF Values, IInv, TypeOK, Lists
<1>3. AfterWalk = Forget(Release(table, Iter), Iter)
  BY <1>2 DEF AfterWalk, Release, IsValid
<1>4. /\ Holds(AfterWalk, alive \ {Iter})
      /\ AfterWalk.list.val = [table.list.val EXCEPT ![Iter] = Null]
  BY <1>1, <1>2, <1>3, DropHolds
<1>5. ASSUME NEW n \in alive, AfterWalk.list.val[n] = Top.val
      PROVE  Top.op = "replace" /\ Kind[n] = "Callback"
  <2>1. n \in Holding(table, alive) \ {Iter} /\ table.list.val[n] = Top.val
    BY <1>2, <1>4, <1>5 DEF Holding
  <2>2. QED BY <1>1, <2>1, NothingLeft
<1>6. CASE FinishDelete
  <2>1. Top.op = "delete"
    BY <1>6 DEF FinishDelete
  <2>2. SUFFICES ASSUME Top.val \in AfterWalk.marked PROVE FALSE
    BY <1>1, <1>6 DEF FinishDelete
  <2>3. /\ TableLinked(AfterWalk, Holding(AfterWalk, alive \ {Iter}))
        /\ AfterWalk.list.head[Top.val] # Null
    BY <1>4, <2>2 DEF Holds, TableLinked
  <2>4. \E n \in Holding(AfterWalk, alive \ {Iter}) : AfterWalk.list.val[n] = Top.val
    BY <1>2, <2>3 DEF TableLinked, WellLinked, Linked, HeadLinked, Values
  <2>5. QED BY <1>5, <2>1, <2>4 DEF Holding
<1>7. CASE FinishReplace
  <2>1. ~ \E n \in alive : AfterWalk.list.val[n] = Top.val /\ Kind[n] \in {"Tracking", "Weak"}
    BY <1>5
  <2>2. QED BY <1>7, <2>1 DEF FinishReplace
<1>8. QED BY <1>6, <1>7

(* The invariant is inductive: client code only runs between walks, and a  *)
(* visit redirects a handle away from the list walked.                     *)
LEMMA NextSucceeds ==
  ASSUME OnlyDefaultHandles, NInv, [Next]_vars
  PROVE  NInv'
<1>1. /\ WInv /\ IInv /\ outcome = "ok" /\ TypeOK
  BY DEF NInv, WInv, IInv
<1>2. WInv'
  BY <1>1, NextOwes
<1>3. ASSUME ClientRuns, SameWalks(walks'), outcome' = outcome PROVE NInv'
  <2>1. Depth' = 0
    BY <1>3, OneWalk DEF SameWalks, Depth
  <2>2. QED BY <1>1, <1>2, <1>3, <2>1 DEF NInv
<1>4. ASSUME NEW n \in Handles, NEW m \in Handles, NEW v \in Referents,
             \/ NewHandle(n, v) \/ AssignHandle(n, v)
             \/ CopyHandle(n, m) \/ CopyAssignHandle(n, m) \/ DropHandle(n)
      PROVE  NInv'
  BY <1>1, <1>3, <1>4, ClientHandleMoves DEF ClientMove
<1>5. Null \in Referents
  BY DEF Referents
<1>6. CASE UNCHANGED <<walks, outcome>>
  BY <1>2, <1>6 DEF NInv, Depth
<1>7. ASSUME NEW op, NEW v, NEW w, ClientRuns, StartWalk(op, v, w), outcome' = outcome PROVE NInv'
  <2>1. walks = << >> /\ Depth = 0
    BY <1>7, OneWalk DEF Depth
  <2>2. PICK f : walks' = Append(walks, f) /\ f.pc = "visit" /\ f.late = {}
    BY <1>7 DEF StartWalk
  <2>3. walks' = << f >>
    BY <2>1, <2>2
  <2>4. Depth' = 1 /\ walks'[1] = f
    BY <2>3 DEF Depth
  <2>5. QED BY <1>1, <1>2, <1>7, <2>2, <2>4 DEF NInv
<1>8. ASSUME NEW v \in Values, NewValue(v) \/ DeleteValue(v) PROVE NInv'
  <2>1. CASE NewValue(v) \/ v \notin table.marked
    BY <1>6, <1>8, <2>1 DEF NewValue, DeleteValue
  <2>2. CASE DeleteValue(v) /\ v \in table.marked
    BY <1>7, <2>2 DEF DeleteValue
  <2>3. QED BY <1>8, <2>1, <2>2
<1>9. ASSUME NEW v \in Values, NEW w \in Values, ReplaceValue(v, w) PROVE NInv'
  BY <1>7, <1>9 DEF ReplaceValue
<1>10. CASE Visit
  <2>1. PICK k : k = Top.entry
    OBVIOUS
  <2>2. /\ InLoop /\ k # Null /\ k \notin Overriding /\ outcome' = outcome
    BY <1>10, <2>1 DEF Visit
  <2>3. /\ Depth = 1 /\ Top = walks[1] /\ k \in Nodes /\ table.list.val[k] = Top.val
        /\ walks \in Seq(Frames) /\ Len(walks) = 1
        /\ Top.pc = "visit" /\ Top.late = {}
    <3>1. /\ Depth \in 1 .. Depth /\ Top = walks[Depth] /\ k \in Nodes
          /\ table.list.val[k] = Top.val
      BY <1>1, <2>1, <2>2, NextVisit
    <3>2. Depth \in {0, 1} /\ walks \in Seq(Frames) /\ Depth = Len(walks)
      BY OneWalk
    <3>3. Depth = 1
      BY <3>1, <3>2
    <3>4. QED BY <3>1, <3>2, <3>3 DEF NInv
  <2>4. PICK x \in Referents : VisitMove(k, x)
    BY <1>1, <1>10, <2>1, VisitMoves
  <2>5. PICK N : /\ SameWalks(N) /\ N = NoteLate(k, table'.list.val[k])
                 /\ walks' = [N EXCEPT ![1].entry = table'.list.next[Iter]]
    BY <2>3, <2>4 DEF VisitMove
  <2>6. N[1] = walks[1]
    BY <2>3, <2>5 DEF NoteLate
  <2>7. N \in Seq(Frames) /\ Len(N) = 1
    BY <2>3, <2>5 DEF SameWalks
  <2>8. PICK f \in Frames : f = N[1] /\ f.pc = "visit" /\ f.late = {}
    <3>1. N[1] \in Frames
      BY <2>7
    <3>2. QED BY <2>3, <2>6, <3>1
  <2>9. walks' = [N EXCEPT ![1] = [f EXCEPT !.entry = table'.list.next[Iter]]]
    BY <2>5, <2>8
  <2>10. /\ [f EXCEPT !.entry = table'.list.next[Iter]].pc = "visit"
         /\ [f EXCEPT !.entry = table'.list.next[Iter]].late = {}
    BY <2>8 DEF Frames
  <2>11. Len(walks') = 1 /\ walks'[1].pc = "visit" /\ walks'[1].late = {}
    BY <2>7, <2>9, <2>10
  <2>12. QED BY <1>1, <1>2, <2>2, <2>11 DEF NInv, Depth
<1>11. ASSUME EnterCallback PROVE NInv'
  BY <1>11 DEF EnterCallback, OnlyDefaultHandles
<1>12. ASSUME ReturnFromCallback PROVE NInv'
  <2>1. Depth \in 1 .. Depth /\ Top.pc = "callback" /\ Top = walks[Depth]
    BY <1>1, <1>12, TopFacts DEF ReturnFromCallback
  <2>2. QED BY <2>1 DEF NInv
<1>13. CASE FinishDelete \/ FinishReplace
  <2>1. outcome' = "ok"
    BY <1>13, WalkEndSucceeds
  <2>2. walks # << >> /\ walks' = SubSeq(walks, 1, Depth - 1)
    BY <1>13 DEF FinishDelete, FinishReplace, AtEnd, InLoop
  <2>3. walks \in Seq(Frames) /\ Len(walks) = 1 /\ Depth = 1
    BY <1>1, <2>2, OneWalk, TopFacts
  <2>4. walks' = << >>
    BY <2>2, <2>3
  <2>5. Depth' = 0
    BY <2>4 DEF Depth
  <2>6. QED BY <1>2, <2>1, <2>5 DEF NInv
<1>14. QED
  BY <1>4, <1>5, <1>6, <1>8, <1>9, <1>10, <1>11, <1>12, <1>13
     DEF Next, ClientStep, WalkStep, vars

(***************************************************************************)
(* Without asserting handles and overridden callbacks the deletion and the *)
(* replacement of a value never meet a handle they cannot redirect: the    *)
(* DILITHIUM_UNREACHABLEs at the end of the walks are unreachable.         *)
(***************************************************************************)
THEOREM NeverFailsHolds ==
  ASSUME OnlyDefaultHandles
  PROVE  Spec => []NeverFails
<1>1. Init => NInv
  <2> SUFFICES ASSUME Init PROVE NInv
    OBVIOUS
  <2>1. Depth = 0 /\ outcome = "ok" /\ \A n \in Nodes : table.list.val[n] = Null
    BY DEF Init, Depth
  <2>2. WInv
    BY <2>1, InitHolds DEF WInv, OwedAhead, DeadIsNull, ReplacedByOther
  <2>3. QED BY <2>1, <2>2 DEF NInv
<1>2. NInv /\ [Next]_vars => NInv'
  BY NextSucceeds
<1>3. NInv => NeverFails
  BY DEF NInv, NeverFails
<1>4. QED BY <1>1, <1>2, <1>3, PTL DEF Spec
=============================================================================
