--------------------------- MODULE SymbolTableProofs ---------------------------
(***************************************************************************)
(* TablesInStep and NamedAsAsked of SymbolTable, for any functions, blocks *)
(* and instructions and any names asked for, when clients insert values    *)
(* under free names only; NoValuesRemain follows.                          *)
(***************************************************************************)
EXTENDS SymbolTable, SequenceProofs, FiniteSetTheorems, SequenceTheorems

(***************************************************************************)
(* The sets that the fields of sym are drawn from.                         *)
(***************************************************************************)
Names   == Seq(Nat)
Maps    == UNION {[D -> Values] : D \in SUBSET Names}
Parents == {Null, Module} \cup Funcs \cup Blocks
States  == [parent : [Values -> Parents], name : [Values -> Names],
            vmap : [Tables -> Maps], last : [Tables -> Nat]]

(***************************************************************************)
(* The table t of S maps exactly the names of the values V, each to its    *)
(* value.                                                                  *)
(***************************************************************************)
Exact(S, t, V) ==
  /\ \A v \in V : HasName(S, v) => S.name[v] \in Taken(S, t) /\ S.vmap[t][S.name[v]] = v
  /\ \A n \in Taken(S, t) : \E v \in V : HasName(S, v) /\ S.name[v] = n

(* From S to R, no more than the table t has changed.                      *)
OnlyTable(S, R, t) ==
  /\ R \in States /\ R.parent = S.parent /\ R.name = S.name /\ R.last = S.last
  /\ \A u \in Tables \ {t} : R.vmap[u] = S.vmap[u]

-----------------------------------------------------------------------------
(***************************************************************************)
(* Taking a name out of a table, and entering one.                         *)
(***************************************************************************)
LEMMA TableIs ==
  ASSUME NEW S \in States, NEW t \in Tables
  PROVE  \E E \in SUBSET Names : S.vmap[t] \in [E -> Values]
<1>1. S.vmap \in [Tables -> Maps]
  BY DEF States
<1>2. S.vmap[t] \in Maps
  BY ONLY <1>1, t \in Tables
<1>3. QED BY ONLY <1>2, Zenon DEF Maps

(* Another map for the table t.                                            *)
LEMMA TableSet ==
  ASSUME NEW S \in States, NEW t \in Tables, NEW x \in Maps
  PROVE  OnlyTable(S, [S EXCEPT !.vmap[t] = x], t) /\ [S EXCEPT !.vmap[t] = x].vmap[t] = x
<1> DEFINE R == [S EXCEPT !.vmap[t] = x]
           w == [S.vmap EXCEPT ![t] = x]
<1>1. S.vmap \in [Tables -> Maps]
  BY DEF States
<1>2. w \in [Tables -> Maps] /\ w[t] = x /\ \A u \in Tables \ {t} : w[u] = S.vmap[u]
  BY ONLY <1>1, t \in Tables, x \in Maps
<1>3. R = [S EXCEPT !.vmap = w]
  OBVIOUS
<1> HIDE DEF w, R
<1>4. R \in States /\ R.parent = S.parent /\ R.name = S.name /\ R.last = S.last /\ R.vmap = w
  BY <1>2, <1>3 DEF States
<1>5. QED BY <1>2, <1>4 DEF OnlyTable, R

(* The name n is taken out of the table t.                                 *)
LEMMA NameForgotten ==
  ASSUME NEW S \in States, NEW t \in Tables, NEW n, NEW R, R = RemoveValueName(S, t, n)
  PROVE  /\ OnlyTable(S, R, t) /\ Taken(R, t) = Taken(S, t) \ {n}
         /\ \A m \in Taken(R, t) : R.vmap[t][m] = S.vmap[t][m]
<1> DEFINE D == DOMAIN S.vmap[t]
           x == [m \in D \ {n} |-> S.vmap[t][m]]
<1>1. PICK E \in SUBSET Names : S.vmap[t] \in [E -> Values]
  BY TableIs
<1>2. D \in SUBSET Names /\ S.vmap[t] \in [D -> Values]
  BY <1>1
<1> HIDE DEF D
<1>3. x \in [D \ {n} -> Values] /\ D \ {n} \in SUBSET Names
  BY <1>2
<1>4. x \in Maps
  BY <1>3 DEF Maps
<1>5. R = [S EXCEPT !.vmap[t] = x]
  BY DEF RemoveValueName, Restrict, D
<1>6. DOMAIN x = D \ {n} /\ \A m \in D \ {n} : x[m] = S.vmap[t][m]
  OBVIOUS
<1> HIDE DEF x
<1>7. OnlyTable(S, R, t) /\ R.vmap[t] = x
  BY <1>4, <1>5, TableSet
<1>8. QED BY <1>6, <1>7 DEF Taken, D

(* The free name n is entered in the table t.                              *)
LEMMA NameEntered ==
  ASSUME NEW S \in States, NEW t \in Tables, NEW n \in Names, n \notin Taken(S, t), NEW v \in Values,
         NEW R, R = Emplace(S, t, n, v)
  PROVE  /\ OnlyTable(S, R, t) /\ Taken(R, t) = Taken(S, t) \cup {n}
         /\ R.vmap[t][n] = v /\ \A m \in Taken(S, t) : R.vmap[t][m] = S.vmap[t][m]
<1> DEFINE D == DOMAIN S.vmap[t]
           x == [m \in D \cup {n} |-> IF m = n THEN v ELSE S.vmap[t][m]]
<1>1. PICK E \in SUBSET Names : S.vmap[t] \in [E -> Values]
  BY TableIs
<1>2. D \in SUBSET Names /\ S.vmap[t] \in [D -> Values] /\ n \notin D
  BY <1>1 DEF Taken
<1> HIDE DEF D
<1>3. x \in [D \cup {n} -> Values] /\ D \cup {n} \in SUBSET Names
  BY <1>2
<1>4. x \in Maps
  BY <1>3 DEF Maps
<1>5. R = [S EXCEPT !.vmap[t] = x]
  BY DEF Emplace, D
<1>6. DOMAIN x = D \cup {n} /\ x[n] = v /\ \A m \in D : x[m] = S.vmap[t][m]
  BY <1>2
<1> HIDE DEF x
<1>7. OnlyTable(S, R, t) /\ R.vmap[t] = x
  BY <1>4, <1>5, TableSet
<1>8. QED BY <1>6, <1>7 DEF Taken, D

(***************************************************************************)
(* A table stays exact when a value leaves it, or comes with a free name.  *)
(***************************************************************************)
LEMMA NamedRemoved ==
  ASSUME NEW S \in States, NEW t \in Tables, NEW V \in SUBSET Values, Exact(S, t, V), NEW v \in V,
         NEW R, R = RemoveNamed(S, t, v)
  PROVE  OnlyTable(S, R, t) /\ Exact(R, t, V \ {v})
<1>1. CASE ~HasName(S, v)
  <2>1. R = S
    BY <1>1 DEF RemoveNamed
  <2>2. QED BY <1>1, <2>1 DEF OnlyTable, Exact
<1>2. CASE HasName(S, v)
  <2> DEFINE n == S.name[v]
  <2>1. R = RemoveValueName(S, t, n)
    BY <1>2 DEF RemoveNamed
  <2>2. /\ OnlyTable(S, R, t) /\ Taken(R, t) = Taken(S, t) \ {n}
        /\ \A m \in Taken(R, t) : R.vmap[t][m] = S.vmap[t][m]
    BY <2>1, NameForgotten
  <2>3. R.name = S.name /\ \A w : HasName(R, w) <=> HasName(S, w)
    BY <2>2 DEF OnlyTable, HasName
  <2>4. ASSUME NEW w \in V \ {v}, HasName(S, w)
        PROVE  S.name[w] \in Taken(R, t) /\ R.vmap[t][S.name[w]] = w
    <3>1. /\ S.name[w] \in Taken(S, t) /\ S.vmap[t][S.name[w]] = w
          /\ S.name[v] \in Taken(S, t) /\ S.vmap[t][S.name[v]] = v
      BY <1>2, <2>4 DEF Exact
    <3>2. S.name[w] # n
      BY <2>4, <3>1
    <3>3. QED BY <2>2, <3>1, <3>2
  <2>5. ASSUME NEW m \in Taken(R, t) PROVE \E w \in V \ {v} : HasName(S, w) /\ S.name[w] = m
    <3>1. m \in Taken(S, t) /\ m # n
      BY <2>2
    <3>2. PICK w \in V : HasName(S, w) /\ S.name[w] = m
      BY <3>1 DEF Exact
    <3>3. QED BY <3>1, <3>2
  <2>6. QED BY <2>2, <2>3, <2>4, <2>5 DEF Exact
<1>3. QED BY <1>1, <1>2

(* A value outside V comes with a name that is free, or with none.         *)
LEMMA NamedReinserted ==
  ASSUME NEW S \in States, NEW t \in Tables, NEW V \in SUBSET Values, Exact(S, t, V), NEW v \in Values \ V,
         HasName(S, v) => S.name[v] \notin Taken(S, t), NEW R, R = ReinsertNamed(S, t, v)
  PROVE  /\ OnlyTable(S, R, t) /\ Exact(R, t, V \cup {v})
         /\ Taken(R, t) = Taken(S, t) \cup (IF HasName(S, v) THEN {S.name[v]} ELSE {})
<1>1. CASE ~HasName(S, v)
  <2>1. R = S
    BY <1>1 DEF ReinsertNamed
  <2>2. QED BY <1>1, <2>1 DEF OnlyTable, Exact
<1>2. CASE HasName(S, v)
  <2> DEFINE n == S.name[v]
  <2>1. R = Emplace(S, t, n, v)
    BY <1>2 DEF ReinsertNamed, ReinsertValue
  <2>2. n \in Names
    BY DEF States
  <2>3. /\ OnlyTable(S, R, t) /\ Taken(R, t) = Taken(S, t) \cup {n}
        /\ R.vmap[t][n] = v /\ \A m \in Taken(S, t) : R.vmap[t][m] = S.vmap[t][m]
    BY <1>2, <2>1, <2>2, NameEntered
  <2>4. R.name = S.name /\ \A w : HasName(R, w) <=> HasName(S, w)
    BY <2>3 DEF OnlyTable, HasName
  <2>5. ASSUME NEW w \in V \cup {v}, HasName(S, w)
        PROVE  S.name[w] \in Taken(R, t) /\ R.vmap[t][S.name[w]] = w
    <3>1. CASE w = v
      BY <2>3, <3>1
    <3>2. CASE w # v
      <4>1. S.name[w] \in Taken(S, t) /\ S.vmap[t][S.name[w]] = w
        BY <2>5, <3>2 DEF Exact
      <4>2. QED BY <2>3, <4>1
    <3>3. QED BY <3>1, <3>2
  <2>6. ASSUME NEW m \in Taken(R, t) PROVE \E w \in V \cup {v} : HasName(S, w) /\ S.name[w] = m
    <3>1. CASE m = n
      BY <1>2, <3>1
    <3>2. CASE m # n
      <4>1. m \in Taken(S, t)
        BY <2>3, <3>2
      <4>2. QED BY <4>1 DEF Exact
    <3>3. QED BY <3>1, <3>2
  <2>7. QED BY <1>2, <2>3, <2>4, <2>5, <2>6 DEF Exact
<1>3. QED BY <1>1, <1>2

-----------------------------------------------------------------------------
(***************************************************************************)
(* The operations keep to the types, whatever they are given.              *)
(***************************************************************************)
LEMMA NoTable ==
  ASSUME NEW S \in States, NEW t, t \notin Tables, NEW x
  PROVE  [S EXCEPT !.vmap[t] = x] = S
<1>1. S.vmap \in [Tables -> Maps] /\ S = [S EXCEPT !.vmap = S.vmap]
  BY DEF States
<1>2. [S.vmap EXCEPT ![t] = x] = S.vmap
  BY <1>1
<1>3. QED BY <1>1, <1>2

(* A name is taken out.                                                    *)
LEMMA ForgottenTyped ==
  ASSUME NEW S \in States, NEW t, NEW n
  PROVE  RemoveValueName(S, t, n) \in States /\ RemoveValueName(S, t, n).parent = S.parent
<1>1. CASE t \in Tables
  BY <1>1, NameForgotten DEF OnlyTable
<1>2. CASE t \notin Tables
  <2>1. RemoveValueName(S, t, n) = S
    BY <1>2, NoTable DEF RemoveValueName
  <2>2. QED BY <2>1
<1>3. QED BY <1>1, <1>2

(* The name of a value is taken out.                                       *)
LEMMA RemoveTyped ==
  ASSUME NEW S \in States, NEW t, NEW v
  PROVE  RemoveNamed(S, t, v) \in States /\ RemoveNamed(S, t, v).parent = S.parent
BY ForgottenTyped DEF RemoveNamed

(* Another parent for v.                                                   *)
LEMMA ParentSet ==
  ASSUME NEW S \in States, NEW v \in Values, NEW p \in Parents
  PROVE  /\ [S EXCEPT !.parent[v] = p] \in States
         /\ [S EXCEPT !.parent[v] = p].parent = [S.parent EXCEPT ![v] = p]
         /\ [S EXCEPT !.parent[v] = p].name = S.name
         /\ [S EXCEPT !.parent[v] = p].vmap = S.vmap
         /\ [S EXCEPT !.parent[v] = p].last = S.last
<1> DEFINE R == [S EXCEPT !.parent[v] = p]
           w == [S.parent EXCEPT ![v] = p]
<1>1. w \in [Values -> Parents]
  BY DEF States
<1>2. R = [S EXCEPT !.parent = w]
  BY DEF R
<1> HIDE DEF w, R
<1>3. R \in States /\ R.name = S.name /\ R.vmap = S.vmap /\ R.last = S.last /\ R.parent = w
  BY <1>1, <1>2 DEF States
<1>4. QED BY <1>3 DEF w, R

(* Another name for v.                                                     *)
LEMMA NameSet ==
  ASSUME NEW S \in States, NEW v \in Values, NEW n \in Names
  PROVE  /\ [S EXCEPT !.name[v] = n] \in States
         /\ [S EXCEPT !.name[v] = n].name = [S.name EXCEPT ![v] = n]
         /\ [S EXCEPT !.name[v] = n].parent = S.parent
         /\ [S EXCEPT !.name[v] = n].vmap = S.vmap
         /\ [S EXCEPT !.name[v] = n].last = S.last
<1> DEFINE R == [S EXCEPT !.name[v] = n]
           w == [S.name EXCEPT ![v] = n]
<1>1. w \in [Values -> Names]
  BY DEF States
<1>2. R = [S EXCEPT !.name = w]
  BY DEF R
<1> HIDE DEF w, R
<1>3. R \in States /\ R.parent = S.parent /\ R.vmap = S.vmap /\ R.last = S.last /\ R.name = w
  BY <1>1, <1>2 DEF States
<1>4. QED BY <1>3 DEF w, R

(* Another last number for t.                                              *)
LEMMA LastSet ==
  ASSUME NEW S \in States, NEW t \in Tables, NEW k \in Nat
  PROVE  /\ [S EXCEPT !.last[t] = k] \in States
         /\ [S EXCEPT !.last[t] = k].last = [S.last EXCEPT ![t] = k]
         /\ [S EXCEPT !.last[t] = k].parent = S.parent
         /\ [S EXCEPT !.last[t] = k].name = S.name
         /\ [S EXCEPT !.last[t] = k].vmap = S.vmap
<1> DEFINE R == [S EXCEPT !.last[t] = k]
           w == [S.last EXCEPT ![t] = k]
<1>1. w \in [Tables -> Nat]
  BY DEF States
<1>2. R = [S EXCEPT !.last = w]
  BY DEF R
<1> HIDE DEF w, R
<1>3. R \in States /\ R.parent = S.parent /\ R.vmap = S.vmap /\ R.name = S.name /\ R.last = w
  BY <1>1, <1>2 DEF States
<1>4. QED BY <1>3 DEF w, R

(* The number that makes a name unique, if there is one below the bound.   *)
LEMMA NumberIsFree ==
  ASSUME NEW S \in States, NEW t \in Tables, NEW stem \in Names, NEW k, k = NextUnique(S, t, stem)
  PROVE  /\ k \in Nat
         /\ k <= MaxUnique[t] => k \in 1 .. 9 /\ Append(stem, k) \notin Taken(S, t)
<1> DEFINE free == {m \in S.last[t] + 1 .. MaxUnique[t] : Append(stem, m) \notin Taken(S, t)}
<1>1. MaxUnique[t] \in 0 .. 9 /\ S.last[t] \in Nat
  BY SymbolAssumption DEF States
<1>2. CASE free = {}
  <2>1. k = MaxUnique[t] + 1
    BY <1>2 DEF NextUnique
  <2>2. QED BY <1>1, <2>1
<1>3. CASE free # {}
  <2>1. free \in SUBSET Nat /\ \A m \in free : m \in 1 .. 9 /\ Append(stem, m) \notin Taken(S, t)
    BY <1>1
  <2>2. k = CHOOSE m \in free : \A j \in free : m <= j
    BY <1>3 DEF NextUnique
  <2> HIDE DEF free
  <2>3. \E m \in free : \A j \in free : m <= j
    BY <1>3, <2>1, LeastNat
  <2>4. k \in free
    BY <2>2, <2>3
  <2>5. QED BY <2>1, <2>4
<1>4. QED BY <1>2, <1>3

(* A name is entered.                                                      *)
LEMMA EnteredTyped ==
  ASSUME NEW S \in States, NEW t \in Tables, NEW n \in Names, NEW v \in Values
  PROVE  Emplace(S, t, n, v) \in States /\ Emplace(S, t, n, v).parent = S.parent /\ Emplace(S, t, n, v).last = S.last
<1>1. CASE n \in Taken(S, t)
  <2>1. Emplace(S, t, n, v) = S
    BY <1>1 DEF Emplace
  <2>2. QED BY <2>1
<1>2. CASE n \notin Taken(S, t)
  BY <1>2, NameEntered DEF OnlyTable
<1>3. QED BY <1>1, <1>2

(* A name is made unique.                                                  *)
LEMMA CreatedTyped ==
  ASSUME NEW S \in States, NEW t \in Tables, NEW n \in Names, NEW v \in Values, NEW R, R = CreateValueName(S, t, n, v)
  PROVE  R \in States /\ R.parent = S.parent
<1>1. CASE n \notin Taken(S, t)
  <2> DEFINE Q == Emplace(S, t, n, v)
  <2>1. Q \in States /\ Q.parent = S.parent
    BY EnteredTyped
  <2>2. R = [Q EXCEPT !.name[v] = n]
    BY <1>1 DEF CreateValueName
  <2> HIDE DEF Q
  <2>3. QED BY <2>1, <2>2, NameSet
<1>2. CASE n \in Taken(S, t)
  <2> DEFINE k == NextUnique(S, t, n)
             u == Append(n, k)
             Q == Emplace(S, t, u, v)
             P == [Q EXCEPT !.last[t] = k]
  <2>1. k \in Nat
    BY NumberIsFree
  <2>2. u \in Names
    BY <2>1 DEF Names
  <2>3. R = [P EXCEPT !.name[v] = u]
    BY <1>2 DEF CreateValueName
  <2> HIDE DEF k, u
  <2>4. Q \in States /\ Q.parent = S.parent
    BY <2>2, EnteredTyped
  <2> HIDE DEF Q
  <2>5. P \in States /\ P.parent = S.parent
    BY <2>1, <2>4, LastSet
  <2> HIDE DEF P
  <2>6. QED BY <2>2, <2>3, <2>5, NameSet
<1>3. QED BY <1>1, <1>2

(* A value is named.                                                       *)
LEMMA NamedTyped ==
  ASSUME NEW S \in States, NEW v \in Values, NEW n \in Names, TableOf(S, v) \in Tables \cup {Null}
  PROVE  SetName(S, v, n) \in States /\ SetName(S, v, n).parent = S.parent
<1> DEFINE t == TableOf(S, v)
           Q == IF HasName(S, v) /\ t # Null THEN RemoveValueName(S, t, S.name[v]) ELSE S
<1>1. Q \in States /\ Q.parent = S.parent
  BY ForgottenTyped
<1>2. CASE n = S.name[v]
  BY <1>2 DEF SetName
<1>3. CASE n # S.name[v] /\ (t = Null \/ n = NoName)
  <2>1. SetName(S, v, n) = [Q EXCEPT !.name[v] = n]
    BY <1>3 DEF SetName
  <2> HIDE DEF Q, t
  <2>2. QED BY <1>1, <2>1, NameSet
<1>4. CASE n # S.name[v] /\ ~ (t = Null \/ n = NoName)
  <2>1. SetName(S, v, n) = CreateValueName(Q, t, n, v) /\ t \in Tables
    BY <1>4 DEF SetName
  <2> HIDE DEF Q, t
  <2>2. QED BY <1>1, <2>1, CreatedTyped
<1>5. QED BY <1>2, <1>3, <1>4

(* The name of a value is entered again, made unique if it is taken.       *)
LEMMA ReinsertTyped ==
  ASSUME NEW S \in States, NEW t \in Tables, NEW v \in Values, TableOf(S, v) = t
  PROVE  ReinsertNamed(S, t, v) \in States /\ ReinsertNamed(S, t, v).parent = S.parent
<1> DEFINE n == S.name[v]
           k == NextUnique(S, t, Append(n, Dot))
           u == n \o <<Dot, k>>
           Q == Emplace(S, t, u, v)
           P == [Q EXCEPT !.last[t] = k]
<1>1. n \in Names
  BY DEF States
<1>2. CASE ~HasName(S, v)
  BY <1>2 DEF ReinsertNamed
<1>3. CASE HasName(S, v) /\ n \notin Taken(S, t)
  <2>1. ReinsertNamed(S, t, v) = Emplace(S, t, n, v)
    BY <1>3 DEF ReinsertNamed, ReinsertValue
  <2>2. QED BY <1>1, <2>1, EnteredTyped
<1>4. CASE HasName(S, v) /\ n \in Taken(S, t)
  <2>1. ReinsertNamed(S, t, v) = SetName(P, v, u)
    BY <1>4 DEF ReinsertNamed, ReinsertValue
  <2>2. k \in Nat
    <3>1. Append(n, Dot) \in Names
      BY <1>1 DEF Names, Dot
    <3>2. QED BY <3>1, NumberIsFree
  <2>3. u \in Names
    <3> HIDE DEF k, n
    <3>1. <<Dot, k>> \in Seq(Nat)
      BY <2>2 DEF Dot
    <3>2. QED BY <1>1, <3>1 DEF Names
  <2> HIDE DEF k, u, n
  <2>4. Q \in States /\ Q.parent = S.parent
    BY <2>3, EnteredTyped
  <2> HIDE DEF Q
  <2>5. P \in States /\ P.parent = S.parent
    BY <2>2, <2>4, LastSet
  <2> HIDE DEF P
  <2>6. TableOf(P, v) = t
    BY <2>5 DEF TableOf
  <2>7. QED BY <2>1, <2>3, <2>5, <2>6, NamedTyped
<1>5. QED BY <1>2, <1>3, <1>4

-----------------------------------------------------------------------------
(***************************************************************************)
(* What is destroyed is unlinked and loses its name.                       *)
(***************************************************************************)
LEMMA DestroyTyped ==
  ASSUME NEW S \in States, NEW i \in Insts
  PROVE  Destroy(S, i) \in States
<1>1. i \in Values /\ i \notin Blocks /\ Null \in Parents /\ NoName \in Names
  BY SymbolAssumption DEF Values, Parents, Names, NoName
<1> DEFINE Q == IF TableOf(S, i) # Null THEN RemoveNamed(S, TableOf(S, i), i) ELSE S
           R == RemoveFromSymbolTableList(S, i)
<1>2. Q \in States
  BY RemoveTyped
<1>3. R = S \/ R = [Q EXCEPT !.parent[i] = Null]
  BY <1>1 DEF RemoveFromSymbolTableList, SetParent
<1> HIDE DEF Q
<1>4. R \in States
  BY <1>1, <1>2, <1>3, ParentSet
<1>5. Destroy(S, i) = [R EXCEPT !.name[i] = NoName]
  BY DEF Destroy
<1> HIDE DEF R
<1>6. QED BY <1>1, <1>4, <1>5, NameSet

-----------------------------------------------------------------------------
(***************************************************************************)
(* The folds over the values of a list, step by step.                      *)
(***************************************************************************)
LEMMA RemoveChain ==
  ASSUME NEW S \in States, NEW t, NEW s \in Seq(Insts)
  PROVE  \E c : /\ c[0] = S /\ \A k \in 1 .. Len(s) : c[k] = RemoveNamed(c[k - 1], t, s[k])
                /\ \A k \in 0 .. Len(s) : c[k] \in States
                /\ RemoveAll(S, t, s) = c[Len(s)]
<1> DEFINE X == States
           N == Len(s)
           G == [p \in X \X Insts |-> RemoveNamed(p[1], t, p[2])]
           g == CHOOSE g : g = [x \in SUBSET DOMAIN s |->
                                 IF x = {} THEN S ELSE RemoveNamed(g[x \ {Max(x)}], t, s[Max(x)])]
           c == [k \in 0 .. N |-> g[1 .. k]]
<1>1. N \in Nat /\ DOMAIN s = 1 .. N /\ \A k \in 1 .. N : s[k] \in Insts
  OBVIOUS
<1>2. \A T \in X, i \in Insts : RemoveNamed(T, t, i) \in X
  BY RemoveTyped
<1>3. G \in [X \X Insts -> X] /\ \A T \in X, i \in Insts : G[<<T, i>>] = RemoveNamed(T, t, i)
  BY <1>2
<1> HIDE DEF G
<1>4. PICK h \in [SUBSET (1 .. N) -> X] : FoldsBy(G, S, s, N, h)
  BY <1>3, FoldDefined
<1>5. h = [x \in SUBSET DOMAIN s |-> IF x = {} THEN S ELSE RemoveNamed(h[x \ {Max(x)}], t, s[Max(x)])]
  <2>1. \A x \in SUBSET (1 .. N) : x # {} => Max(x) \in x /\ h[x \ {Max(x)}] \in X /\ s[Max(x)] \in Insts
    BY <1>1, <1>4, GreatestIn
  <2>2. \A x \in SUBSET (1 .. N) : x # {} => G[<<h[x \ {Max(x)}], s[Max(x)]>>] = RemoveNamed(h[x \ {Max(x)}], t, s[Max(x)])
    BY <1>3, <2>1
  <2>3. h = [x \in SUBSET (1 .. N) |-> IF x = {} THEN S ELSE G[<<h[x \ {Max(x)}], s[Max(x)]>>]]
    BY ONLY <1>4 DEF FoldsBy
  <2> HIDE DEF X, N
  <2>4. QED BY ONLY <1>1, <2>2, <2>3
<1>6. g = [x \in SUBSET DOMAIN s |-> IF x = {} THEN S ELSE RemoveNamed(g[x \ {Max(x)}], t, s[Max(x)])]
  <2> HIDE DEF X, N
  <2>1. QED BY ONLY <1>5, Zenon DEF g
<1>7. RemoveAll(S, t, s) = g[DOMAIN s]
  BY Zenon DEF RemoveAll, FoldLeft, MapThenFoldSet
<1> HIDE DEF g
<1>8. c[0] = S
  <2>1. 1 .. 0 = {} /\ 1 .. 0 \in SUBSET DOMAIN s
    BY <1>1
  <2>2. g[1 .. 0] = S
    BY ONLY <1>6, <2>1
  <2>3. QED BY <1>1, <2>2
<1>9. ASSUME NEW k \in 1 .. N PROVE c[k] = RemoveNamed(c[k - 1], t, s[k])
  <2>1. /\ 1 .. k \in SUBSET DOMAIN s /\ 1 .. k # {} /\ Max(1 .. k) = k /\ (1 .. k) \ {k} = 1 .. k - 1
        /\ k - 1 \in 0 .. N /\ k \in 0 .. N
    <3>1. N \in Nat /\ DOMAIN s = 1 .. N /\ k \in 1 .. N
      BY <1>1
    <3> HIDE DEF N
    <3>2. k \in 0 .. N
      BY ONLY <3>1
    <3>3. /\ 1 .. k \in SUBSET (1 .. N) /\ 1 .. k # {} /\ Max(1 .. k) = k /\ (1 .. k) \ {k} = 1 .. k - 1
          /\ k - 1 \in 0 .. N
      BY ONLY <3>1, UpToLess, Zenon
    <3>4. QED BY ONLY <3>1, <3>2, <3>3
  <2>2. g[1 .. k] = LET x == 1 .. k IN RemoveNamed(g[x \ {Max(x)}], t, s[Max(x)])
    BY ONLY <1>6, <2>1
  <2>3. c[k] = g[1 .. k] /\ c[k - 1] = g[1 .. k - 1]
    BY <2>1
  <2> HIDE DEF c
  <2>4. QED BY <2>1, <2>2, <2>3
<1>10. c[N] = g[DOMAIN s]
  BY <1>1
<1> HIDE DEF c
<1>11. \A k \in 0 .. N : c[k] \in X
  <2>1. S \in X
    BY DEF X
  <2>2. \A k \in 1 .. N : c[k - 1] \in X => c[k] = G[<<c[k - 1], s[k]>>]
    BY <1>1, <1>3, <1>9
  <2>3. c[0] \in X /\ G \in [X \X Insts -> X] /\ s \in Seq(Insts)
    BY <1>3, <1>8, <2>1
  <2> HIDE DEF X, N
  <2>4. Stepwise(G, s, c, X)
    BY <2>2 DEF N, Stepwise
  <2> HIDE DEF G, c
  <2>5. \A k \in 0 .. Len(s) : c[k] \in X
    BY ONLY <2>3, <2>4, ChainStays
  <2>6. QED BY <2>5 DEF N
<1>12. QED BY <1>7, <1>8, <1>9, <1>10, <1>11

(* Names are entered again.                                                *)
LEMMA ReinsertChain ==
  ASSUME NEW S \in States, NEW t \in Tables, NEW s \in Seq({i \in Insts : TableOf(S, i) = t})
  PROVE  \E c : /\ c[0] = S /\ \A k \in 1 .. Len(s) : c[k] = ReinsertNamed(c[k - 1], t, s[k])
                /\ \A k \in 0 .. Len(s) : c[k] \in {T \in States : T.parent = S.parent}
                /\ ReinsertAll(S, t, s) = c[Len(s)]
<1> DEFINE X == {T \in States : T.parent = S.parent}
           N == Len(s)
           G == [p \in X \X {i \in Insts : TableOf(S, i) = t} |-> ReinsertNamed(p[1], t, p[2])]
           g == CHOOSE g : g = [x \in SUBSET DOMAIN s |->
                                 IF x = {} THEN S ELSE ReinsertNamed(g[x \ {Max(x)}], t, s[Max(x)])]
           c == [k \in 0 .. N |-> g[1 .. k]]
<1>1. N \in Nat /\ DOMAIN s = 1 .. N /\ \A k \in 1 .. N : s[k] \in {i \in Insts : TableOf(S, i) = t}
  OBVIOUS
<1>2. \A T \in X, i \in {i \in Insts : TableOf(S, i) = t} : ReinsertNamed(T, t, i) \in X
  <2> SUFFICES ASSUME NEW T \in X, NEW i \in Insts, TableOf(S, i) = t PROVE ReinsertNamed(T, t, i) \in X
    OBVIOUS
  <2>1. T \in States /\ T.parent = S.parent /\ i \in Values
    BY DEF Values
  <2>2. TableOf(T, i) = t
    BY <2>1 DEF TableOf
  <2>3. ReinsertNamed(T, t, i) \in States /\ ReinsertNamed(T, t, i).parent = T.parent
    BY <2>1, <2>2, ReinsertTyped
  <2>4. QED BY <2>1, <2>3
<1>3. G \in [X \X {i \in Insts : TableOf(S, i) = t} -> X] /\ \A T \in X, i \in {i \in Insts : TableOf(S, i) = t} : G[<<T, i>>] = ReinsertNamed(T, t, i)
  BY <1>2
<1> HIDE DEF G
<1>4. PICK h \in [SUBSET (1 .. N) -> X] : FoldsBy(G, S, s, N, h)
  BY <1>3, FoldDefined
<1>5. h = [x \in SUBSET DOMAIN s |-> IF x = {} THEN S ELSE ReinsertNamed(h[x \ {Max(x)}], t, s[Max(x)])]
  <2>1. \A x \in SUBSET (1 .. N) : x # {} => Max(x) \in x /\ h[x \ {Max(x)}] \in X /\ s[Max(x)] \in {i \in Insts : TableOf(S, i) = t}
    BY <1>1, <1>4, GreatestIn
  <2>2. \A x \in SUBSET (1 .. N) : x # {} => G[<<h[x \ {Max(x)}], s[Max(x)]>>] = ReinsertNamed(h[x \ {Max(x)}], t, s[Max(x)])
    BY <1>3, <2>1
  <2>3. h = [x \in SUBSET (1 .. N) |-> IF x = {} THEN S ELSE G[<<h[x \ {Max(x)}], s[Max(x)]>>]]
    BY ONLY <1>4 DEF FoldsBy
  <2> HIDE DEF X, N
  <2>4. QED BY ONLY <1>1, <2>2, <2>3
<1>6. g = [x \in SUBSET DOMAIN s |-> IF x = {} THEN S ELSE ReinsertNamed(g[x \ {Max(x)}], t, s[Max(x)])]
  <2> HIDE DEF X, N
  <2>1. QED BY ONLY <1>5, Zenon DEF g
<1>7. ReinsertAll(S, t, s) = g[DOMAIN s]
  BY Zenon DEF ReinsertAll, FoldLeft, MapThenFoldSet
<1> HIDE DEF g
<1>8. c[0] = S
  <2>1. 1 .. 0 = {} /\ 1 .. 0 \in SUBSET DOMAIN s
    BY <1>1
  <2>2. g[1 .. 0] = S
    BY ONLY <1>6, <2>1
  <2>3. QED BY <1>1, <2>2
<1>9. ASSUME NEW k \in 1 .. N PROVE c[k] = ReinsertNamed(c[k - 1], t, s[k])
  <2>1. /\ 1 .. k \in SUBSET DOMAIN s /\ 1 .. k # {} /\ Max(1 .. k) = k /\ (1 .. k) \ {k} = 1 .. k - 1
        /\ k - 1 \in 0 .. N /\ k \in 0 .. N
    <3>1. N \in Nat /\ DOMAIN s = 1 .. N /\ k \in 1 .. N
      BY <1>1
    <3> HIDE DEF N
    <3>2. k \in 0 .. N
      BY ONLY <3>1
    <3>3. /\ 1 .. k \in SUBSET (1 .. N) /\ 1 .. k # {} /\ Max(1 .. k) = k /\ (1 .. k) \ {k} = 1 .. k - 1
          /\ k - 1 \in 0 .. N
      BY ONLY <3>1, UpToLess, Zenon
    <3>4. QED BY ONLY <3>1, <3>2, <3>3
  <2>2. g[1 .. k] = LET x == 1 .. k IN ReinsertNamed(g[x \ {Max(x)}], t, s[Max(x)])
    BY ONLY <1>6, <2>1
  <2>3. c[k] = g[1 .. k] /\ c[k - 1] = g[1 .. k - 1]
    BY <2>1
  <2> HIDE DEF c
  <2>4. QED BY <2>1, <2>2, <2>3
<1>10. c[N] = g[DOMAIN s]
  BY <1>1
<1> HIDE DEF c
<1>11. \A k \in 0 .. N : c[k] \in X
  <2>1. S \in X
    BY DEF X
  <2>2. \A k \in 1 .. N : c[k - 1] \in X => c[k] = G[<<c[k - 1], s[k]>>]
    BY <1>1, <1>3, <1>9
  <2>3. c[0] \in X /\ G \in [X \X {i \in Insts : TableOf(S, i) = t} -> X] /\ s \in Seq({i \in Insts : TableOf(S, i) = t})
    BY <1>3, <1>8, <2>1
  <2> HIDE DEF X, N
  <2>4. Stepwise(G, s, c, X)
    BY <2>2 DEF N, Stepwise
  <2> HIDE DEF G, c
  <2>5. \A k \in 0 .. Len(s) : c[k] \in X
    BY ONLY <2>3, <2>4, ChainStays
  <2>6. QED BY <2>5 DEF N
<1>12. QED BY <1>7, <1>8, <1>9, <1>10, <1>11

(* Instructions are destroyed.                                             *)
LEMMA DestroyChain ==
  ASSUME NEW S \in States, NEW s \in Seq(Insts)
  PROVE  \E c : /\ c[0] = S /\ \A k \in 1 .. Len(s) : c[k] = Destroy(c[k - 1], s[k])
                /\ \A k \in 0 .. Len(s) : c[k] \in States
                /\ DestroyAll(S, s) = c[Len(s)]
<1> DEFINE X == States
           N == Len(s)
           G == [p \in X \X Insts |-> Destroy(p[1], p[2])]
           g == CHOOSE g : g = [x \in SUBSET DOMAIN s |->
                                 IF x = {} THEN S ELSE Destroy(g[x \ {Max(x)}], s[Max(x)])]
           c == [k \in 0 .. N |-> g[1 .. k]]
<1>1. N \in Nat /\ DOMAIN s = 1 .. N /\ \A k \in 1 .. N : s[k] \in Insts
  OBVIOUS
<1>2. \A T \in X, i \in Insts : Destroy(T, i) \in X
  BY DestroyTyped
<1>3. G \in [X \X Insts -> X] /\ \A T \in X, i \in Insts : G[<<T, i>>] = Destroy(T, i)
  BY <1>2
<1> HIDE DEF G
<1>4. PICK h \in [SUBSET (1 .. N) -> X] : FoldsBy(G, S, s, N, h)
  BY <1>3, FoldDefined
<1>5. h = [x \in SUBSET DOMAIN s |-> IF x = {} THEN S ELSE Destroy(h[x \ {Max(x)}], s[Max(x)])]
  <2>1. \A x \in SUBSET (1 .. N) : x # {} => Max(x) \in x /\ h[x \ {Max(x)}] \in X /\ s[Max(x)] \in Insts
    BY <1>1, <1>4, GreatestIn
  <2>2. \A x \in SUBSET (1 .. N) : x # {} => G[<<h[x \ {Max(x)}], s[Max(x)]>>] = Destroy(h[x \ {Max(x)}], s[Max(x)])
    BY <1>3, <2>1
  <2>3. h = [x \in SUBSET (1 .. N) |-> IF x = {} THEN S ELSE G[<<h[x \ {Max(x)}], s[Max(x)]>>]]
    BY ONLY <1>4 DEF FoldsBy
  <2> HIDE DEF X, N
  <2>4. QED BY ONLY <1>1, <2>2, <2>3
<1>6. g = [x \in SUBSET DOMAIN s |-> IF x = {} THEN S ELSE Destroy(g[x \ {Max(x)}], s[Max(x)])]
  <2> HIDE DEF X, N
  <2>1. QED BY ONLY <1>5, Zenon DEF g
<1>7. DestroyAll(S, s) = g[DOMAIN s]
  BY Zenon DEF DestroyAll, FoldLeft, MapThenFoldSet
<1> HIDE DEF g
<1>8. c[0] = S
  <2>1. 1 .. 0 = {} /\ 1 .. 0 \in SUBSET DOMAIN s
    BY <1>1
  <2>2. g[1 .. 0] = S
    BY ONLY <1>6, <2>1
  <2>3. QED BY <1>1, <2>2
<1>9. ASSUME NEW k \in 1 .. N PROVE c[k] = Destroy(c[k - 1], s[k])
  <2>1. /\ 1 .. k \in SUBSET DOMAIN s /\ 1 .. k # {} /\ Max(1 .. k) = k /\ (1 .. k) \ {k} = 1 .. k - 1
        /\ k - 1 \in 0 .. N /\ k \in 0 .. N
    <3>1. N \in Nat /\ DOMAIN s = 1 .. N /\ k \in 1 .. N
      BY <1>1
    <3> HIDE DEF N
    <3>2. k \in 0 .. N
      BY ONLY <3>1
    <3>3. /\ 1 .. k \in SUBSET (1 .. N) /\ 1 .. k # {} /\ Max(1 .. k) = k /\ (1 .. k) \ {k} = 1 .. k - 1
          /\ k - 1 \in 0 .. N
      BY ONLY <3>1, UpToLess, Zenon
    <3>4. QED BY ONLY <3>1, <3>2, <3>3
  <2>2. g[1 .. k] = LET x == 1 .. k IN Destroy(g[x \ {Max(x)}], s[Max(x)])
    BY ONLY <1>6, <2>1
  <2>3. c[k] = g[1 .. k] /\ c[k - 1] = g[1 .. k - 1]
    BY <2>1
  <2> HIDE DEF c
  <2>4. QED BY <2>1, <2>2, <2>3
<1>10. c[N] = g[DOMAIN s]
  BY <1>1
<1> HIDE DEF c
<1>11. \A k \in 0 .. N : c[k] \in X
  <2>1. S \in X
    BY DEF X
  <2>2. \A k \in 1 .. N : c[k - 1] \in X => c[k] = G[<<c[k - 1], s[k]>>]
    BY <1>1, <1>3, <1>9
  <2>3. c[0] \in X /\ G \in [X \X Insts -> X] /\ s \in Seq(Insts)
    BY <1>3, <1>8, <2>1
  <2> HIDE DEF X, N
  <2>4. Stepwise(G, s, c, X)
    BY <2>2 DEF N, Stepwise
  <2> HIDE DEF G, c
  <2>5. \A k \in 0 .. Len(s) : c[k] \in X
    BY ONLY <2>3, <2>4, ChainStays
  <2>6. QED BY <2>5 DEF N
<1>12. QED BY <1>7, <1>8, <1>9, <1>10, <1>11

-----------------------------------------------------------------------------
(***************************************************************************)
(* Taking the names of a whole list out of a table, and entering them.     *)
(***************************************************************************)
Distinct(s) == \A j, k \in DOMAIN s : s[j] = s[k] => j = k

(* The values of the list s up to place k.                                 *)
UpTo(s, k) == {s[j] : j \in 1 .. k}

(* One place further in a list.                                            *)
LEMMA UpToNext ==
  ASSUME NEW I, NEW s \in Seq(I), NEW k \in 1 .. Len(s)
  PROVE  /\ UpTo(s, k) = UpTo(s, k - 1) \cup {s[k]} /\ s[k] \in I /\ UpTo(s, 0) = {}
         /\ UpTo(s, Len(s)) = Elems(s) /\ UpTo(s, k) \subseteq Elems(s) /\ s[k] \in Elems(s)
         /\ Distinct(s) => s[k] \notin UpTo(s, k - 1)
<1>1. 1 .. k = (1 .. k - 1) \cup {k} /\ 1 .. k \subseteq DOMAIN s /\ DOMAIN s = 1 .. Len(s) /\ 1 .. 0 = {} /\ k \notin 1 .. k - 1
      /\ k \in DOMAIN s /\ s[k] \in I
  OBVIOUS
<1>2. QED BY ONLY <1>1 DEF UpTo, Elems, Distinct

(* A table is exact whatever happens to the others.                        *)
LEMMA ExactSame ==
  ASSUME NEW S, NEW R, NEW t, NEW V, Exact(S, t, V), R.name = S.name, R.vmap[t] = S.vmap[t]
  PROVE  Exact(R, t, V)
BY DEF Exact, HasName, Taken

(* Two changes of the same table.                                          *)
LEMMA OnlyTableTwice ==
  ASSUME NEW S, NEW T, NEW R, NEW t, OnlyTable(S, T, t), OnlyTable(T, R, t)
  PROVE  OnlyTable(S, R, t)
BY DEF OnlyTable

(* The names of a list leave the table t.                                  *)
LEMMA RemovedAll ==
  ASSUME NEW S \in States, NEW t \in Tables, NEW V \in SUBSET Values, Exact(S, t, V),
         NEW s \in Seq(Insts), Distinct(s), Elems(s) \subseteq V,
         NEW R, R = RemoveAll(S, t, s)
  PROVE  OnlyTable(S, R, t) /\ Exact(R, t, V \ Elems(s))
<1>1. PICK c : /\ c[0] = S /\ \A k \in 1 .. Len(s) : c[k] = RemoveNamed(c[k - 1], t, s[k])
               /\ \A k \in 0 .. Len(s) : c[k] \in States
               /\ R = c[Len(s)]
  BY RemoveChain
<1> DEFINE P(k) == OnlyTable(S, c[k], t) /\ Exact(c[k], t, V \ UpTo(s, k))
           Bad == {k \in 0 .. Len(s) : ~ P(k)}
<1>2. P(0)
  <2>1. UpTo(s, 0) = {} /\ V \ {} = V
    BY DEF UpTo
  <2>2. OnlyTable(S, S, t)
    BY DEF OnlyTable
  <2>3. QED BY <1>1, <2>1, <2>2
<1>3. ASSUME NEW k \in 1 .. Len(s), P(k - 1) PROVE P(k)
  <2>1. k - 1 \in 0 .. Len(s)
    OBVIOUS
  <2>2. UpTo(s, k) = UpTo(s, k - 1) \cup {s[k]} /\ s[k] \in V \ UpTo(s, k - 1) /\ V \ UpTo(s, k - 1) \in SUBSET Values
    BY UpToNext
  <2>3. c[k - 1] \in States /\ c[k] = RemoveNamed(c[k - 1], t, s[k])
    BY <1>1, <2>1
  <2>4. OnlyTable(c[k - 1], c[k], t) /\ Exact(c[k], t, (V \ UpTo(s, k - 1)) \ {s[k]})
    BY <1>3, <2>2, <2>3, NamedRemoved
  <2>5. (V \ UpTo(s, k - 1)) \ {s[k]} = V \ UpTo(s, k)
    BY <2>2
  <2>6. OnlyTable(S, c[k], t)
    BY <1>3, <2>4, OnlyTableTwice
  <2>7. QED BY <2>4, <2>5, <2>6
<1> HIDE DEF P
<1>4. \A k \in 0 .. Len(s) : P(k)
  <2>1. SUFFICES ASSUME Bad # {} PROVE FALSE
    OBVIOUS
  <2>2. PICK m \in Bad : \A k \in Bad : m <= k
    <3>1. Bad \in SUBSET Nat
      OBVIOUS
    <3> HIDE DEF Bad
    <3>2. QED BY <2>1, <3>1, LeastNat
  <2>3. m \in 1 .. Len(s) /\ ~ P(m) /\ m - 1 \in 0 .. Len(s) /\ ~ (m <= m - 1)
    BY <1>2, <2>2
  <2>4. P(m - 1)
    BY <2>2, <2>3
  <2>5. QED BY <1>3, <2>3, <2>4
<1>5. P(Len(s)) /\ UpTo(s, Len(s)) = Elems(s)
  BY <1>4 DEF UpTo, Elems
<1>6. QED BY <1>1, <1>5 DEF P

(* The names of a list enter the table t, where they are free.             *)
LEMMA ReinsertedAll ==
  ASSUME NEW S \in States, NEW t \in Tables, NEW V \in SUBSET Values, Exact(S, t, V),
         NEW s \in Seq(Insts), Distinct(s), Elems(s) \cap V = {}, \A i \in Elems(s) : TableOf(S, i) = t,
         \A i \in Elems(s) : HasName(S, i) => S.name[i] \notin Taken(S, t),
         \A i, j \in Elems(s) : HasName(S, i) /\ S.name[i] = S.name[j] => i = j,
         NEW R, R = ReinsertAll(S, t, s)
  PROVE  OnlyTable(S, R, t) /\ Exact(R, t, V \cup Elems(s))
<1>1. PICK c : /\ c[0] = S /\ \A k \in 1 .. Len(s) : c[k] = ReinsertNamed(c[k - 1], t, s[k])
               /\ \A k \in 0 .. Len(s) : c[k] \in {T \in States : T.parent = S.parent}
               /\ R = c[Len(s)]
  <2>1. s \in Seq({i \in Insts : TableOf(S, i) = t})
    BY DEF Elems
  <2>2. QED BY <2>1, ReinsertChain
<1> DEFINE P(k) == OnlyTable(S, c[k], t) /\ Exact(c[k], t, V \cup UpTo(s, k))
           Bad == {k \in 0 .. Len(s) : ~ P(k)}
<1>2. P(0)
  <2>1. UpTo(s, 0) = {} /\ V \cup {} = V
    BY DEF UpTo
  <2>2. OnlyTable(S, S, t)
    BY DEF OnlyTable
  <2>3. QED BY <1>1, <2>1, <2>2
<1>3. ASSUME NEW k \in 1 .. Len(s), P(k - 1) PROVE P(k)
  <2>1. k - 1 \in 0 .. Len(s)
    OBVIOUS
  <2>2. /\ UpTo(s, k) = UpTo(s, k - 1) \cup {s[k]} /\ s[k] \in Elems(s) /\ s[k] \in Insts
        /\ s[k] \notin UpTo(s, k - 1) /\ UpTo(s, k - 1) \subseteq Elems(s)
    BY UpToNext, <2>1
  <2>3. Elems(s) \subseteq Values
    BY DEF Elems, Values
  <2>4. s[k] \in Values \ (V \cup UpTo(s, k - 1)) /\ V \cup UpTo(s, k - 1) \in SUBSET Values
    BY ONLY <2>2, <2>3, V \in SUBSET Values, Elems(s) \cap V = {}
  <2>5. c[k - 1] \in States /\ c[k] = ReinsertNamed(c[k - 1], t, s[k])
    BY <1>1, <2>1
  <2>6. ASSUME HasName(c[k - 1], s[k]), c[k - 1].name[s[k]] \in Taken(c[k - 1], t) PROVE FALSE
    <3>1. c[k - 1].name = S.name /\ HasName(S, s[k])
      BY <1>3, <2>6 DEF OnlyTable, HasName
    <3>2. PICK w \in V \cup UpTo(s, k - 1) : HasName(c[k - 1], w) /\ c[k - 1].name[w] = c[k - 1].name[s[k]]
      BY <1>3, <2>6 DEF Exact
    <3>3. HasName(S, w) /\ S.name[w] = S.name[s[k]]
      BY <3>1, <3>2 DEF HasName
    <3>4. w \notin V
      BY <2>2, <3>1, <3>3 DEF Exact
    <3>5. w \in Elems(s) /\ w # s[k]
      BY <2>2, <3>2, <3>4
    <3>6. QED BY <2>2, <3>3, <3>5
  <2>7. OnlyTable(c[k - 1], c[k], t) /\ Exact(c[k], t, (V \cup UpTo(s, k - 1)) \cup {s[k]})
    BY <1>3, <2>4, <2>5, <2>6, NamedReinserted
  <2>8. (V \cup UpTo(s, k - 1)) \cup {s[k]} = V \cup UpTo(s, k)
    BY <2>2
  <2>9. OnlyTable(S, c[k], t)
    BY <1>3, <2>7, OnlyTableTwice
  <2>10. QED BY <2>7, <2>8, <2>9
<1> HIDE DEF P
<1>4. \A k \in 0 .. Len(s) : P(k)
  <2>1. SUFFICES ASSUME Bad # {} PROVE FALSE
    OBVIOUS
  <2>2. PICK m \in Bad : \A k \in Bad : m <= k
    <3>1. Bad \in SUBSET Nat
      OBVIOUS
    <3> HIDE DEF Bad
    <3>2. QED BY <2>1, <3>1, LeastNat
  <2>3. m \in 1 .. Len(s) /\ ~ P(m) /\ m - 1 \in 0 .. Len(s) /\ ~ (m <= m - 1)
    BY <1>2, <2>2
  <2>4. P(m - 1)
    BY <2>2, <2>3
  <2>5. QED BY <1>3, <2>3, <2>4
<1>5. P(Len(s)) /\ UpTo(s, Len(s)) = Elems(s)
  BY <1>4 DEF UpTo, Elems
<1>6. QED BY <1>1, <1>5 DEF P

-----------------------------------------------------------------------------
(***************************************************************************)
(* The parents that values can have, the values whose names belong in a    *)
(* table, and tables that hold these names exactly.                        *)
(***************************************************************************)
Linked(S) ==
  /\ \A f \in Funcs : S.parent[f] \in {Module, Null}
  /\ \A b \in Blocks : S.parent[b] \in Funcs \cup {Null}
  /\ \A i \in Insts : S.parent[i] \in Blocks \cup {Null}

Below(S, t) == {v \in Values : TableOf(S, v) = t}
Tight(S)    == \A t \in Tables : Exact(S, t, Below(S, t))

(* A value is in a table that exists, or in none.                          *)
LEMMA TableKnown ==
  ASSUME NEW S, Linked(S), NEW v \in Values
  PROVE  TableOf(S, v) \in Tables \cup {Null} /\ Null \notin Tables
BY SymbolAssumption DEF Linked, TableOf, Values, Tables

(* Tables are looked up by way of the parents.                             *)
LEMMA SameBelow ==
  ASSUME NEW S, NEW R, R.parent = S.parent
  PROVE  (\A v : TableOf(R, v) = TableOf(S, v)) /\ (\A t : Below(R, t) = Below(S, t)) /\ (Linked(S) => Linked(R))
<1>1. \A v : TableOf(R, v) = TableOf(S, v)
  BY DEF TableOf
<1>2. Linked(S) => Linked(R)
  BY DEF Linked
<1>3. QED BY ONLY <1>1, <1>2 DEF Below

(* Values outside V take other names.                                      *)
LEMMA OtherNamed ==
  ASSUME NEW S, NEW R, NEW t, NEW V, Exact(S, t, V), R.vmap[t] = S.vmap[t],
         \A w \in V : R.name[w] = S.name[w]
  PROVE  Exact(R, t, V)
BY DEF Exact, HasName, Taken

(* A value without a name does not show in a table.                        *)
LEMMA Unnamed ==
  ASSUME NEW S, NEW t, NEW V, NEW v \in V, Exact(S, t, V \ {v}), ~ HasName(S, v)
  PROVE  Exact(S, t, V)
BY DEF Exact

Renamed(Q, R, v, n) == R.vmap = Q.vmap /\ R.name = [Q.name EXCEPT ![v] = n]

(* A value of V is entered under the free name n.                          *)
LEMMA NewlyNamed ==
  ASSUME NEW S \in States, NEW t \in Tables, NEW V \in SUBSET Values, NEW v \in V, Exact(S, t, V \ {v}),
         NEW n \in Names, n # NoName, n \notin Taken(S, t), NEW Q, Q = Emplace(S, t, n, v),
         NEW R, Renamed(Q, R, v, n)
  PROVE  Exact(R, t, V)
<1> USE DEF Renamed
<1>1. /\ OnlyTable(S, Q, t) /\ Taken(Q, t) = Taken(S, t) \cup {n}
      /\ Q.vmap[t][n] = v /\ \A m \in Taken(S, t) : Q.vmap[t][m] = S.vmap[t][m]
  BY NameEntered
<1>2. Q.name = S.name /\ S.name \in [Values -> Names]
  BY <1>1 DEF OnlyTable, States
<1>3. R.name[v] = n /\ \A w \in V \ {v} : R.name[w] = S.name[w]
  BY <1>2
<1>4. Taken(R, t) = Taken(S, t) \cup {n} /\ R.vmap[t][n] = v /\ \A m \in Taken(S, t) : R.vmap[t][m] = S.vmap[t][m]
  BY <1>1 DEF Taken
<1>5. ASSUME NEW w \in V, HasName(R, w) PROVE R.name[w] \in Taken(R, t) /\ R.vmap[t][R.name[w]] = w
  <2>1. CASE w = v
    BY <1>3, <1>4, <2>1
  <2>2. CASE w # v
    <3>1. S.name[w] \in Taken(S, t) /\ S.vmap[t][S.name[w]] = w
      BY <1>3, <1>5, <2>2 DEF Exact, HasName
    <3>2. QED BY <1>3, <1>4, <2>2, <3>1
  <2>3. QED BY <2>1, <2>2
<1>6. ASSUME NEW m \in Taken(R, t) PROVE \E w \in V : HasName(R, w) /\ R.name[w] = m
  <2>1. CASE m = n
    BY <1>3, <2>1 DEF HasName
  <2>2. CASE m # n
    <3>1. PICK w \in V \ {v} : HasName(S, w) /\ S.name[w] = m
      BY <1>4, <1>6, <2>2 DEF Exact
    <3>2. QED BY <1>3, <3>1 DEF HasName
  <2>3. QED BY <2>1, <2>2
<1>7. QED BY ONLY <1>5, <1>6 DEF Exact

(***************************************************************************)
(* Naming a value.                                                         *)
(***************************************************************************)
NameWanted(S, v, n) ==
  TableOf(S, v) # Null /\ \E w \in Below(S, TableOf(S, v)) \ {v} : n # NoName /\ S.name[w] = n

NamedAs(S, R, v, n) ==
  IF NameWanted(S, v, n) THEN \E k \in 1 .. 9 : R.name[v] = Append(n, k) ELSE R.name[v] = n

(* Tables stay exact, and the value has the name asked for or a number.    *)
LEMMA NameSetTight ==
  ASSUME NEW S \in States, Linked(S), Tight(S), NEW v \in Values, NEW n \in Names,
         NEW R, R = SetName(S, v, n), \A t \in Tables : R.last[t] <= MaxUnique[t]
  PROVE  /\ R \in States /\ R.parent = S.parent /\ Tight(R)
         /\ \A w \in Values \ {v} : R.name[w] = S.name[w]
         /\ NamedAs(S, R, v, n)
<1> USE DEF NamedAs
<1> DEFINE t == TableOf(S, v)
           Q == RemoveNamed(S, t, v)
<1>1. t \in Tables \cup {Null} /\ Null \notin Tables
  BY TableKnown
<1>2. R \in States /\ R.parent = S.parent
  BY <1>1, NamedTyped
<1>3. \A u : Below(R, u) = Below(S, u) /\ Below(S, u) \subseteq Values
  <2>1. \A u : Below(S, u) \subseteq Values
    BY DEF Below
  <2>2. QED BY ONLY <1>2, <2>1, SameBelow
<1>4. v \in Below(S, t) /\ \A u : u # t => v \notin Below(S, u)
  BY DEF Below
<1>5. S.name \in [Values -> Names]
  BY DEF States
<1>6. CASE n = S.name[v]
  <2>1. R = S
    BY <1>6 DEF SetName
  <2>2. ~ NameWanted(S, v, n)
    <3>1. SUFFICES ASSUME t # Null, NEW w \in Below(S, t) \ {v}, n # NoName, S.name[w] = n PROVE FALSE
      BY DEF NameWanted
    <3>2. t \in Tables /\ Exact(S, t, Below(S, t)) /\ HasName(S, v) /\ HasName(S, w)
      BY <1>1, <1>6, <3>1 DEF Tight, HasName
    <3>3. S.vmap[t][n] = v /\ S.vmap[t][n] = w
      BY <1>4, <1>6, <3>1, <3>2 DEF Exact
    <3>4. QED BY <3>1, <3>3
  <2>3. QED BY <1>2, <1>6, <2>1, <2>2
<1>7. CASE n # S.name[v] /\ t = Null
  <2>1. R = [S EXCEPT !.name[v] = n]
    BY <1>7 DEF SetName
  <2>2. R.name = [S.name EXCEPT ![v] = n] /\ R.vmap = S.vmap
    BY <2>1, NameSet
  <2>3. R.name[v] = n /\ \A w \in Values \ {v} : R.name[w] = S.name[w]
    BY <1>5, <2>2
  <2>4. ASSUME NEW u \in Tables PROVE Exact(R, u, Below(R, u))
    <3>1. Exact(S, u, Below(S, u)) /\ \A w \in Below(S, u) : R.name[w] = S.name[w]
      BY <1>1, <1>3, <1>4, <1>7, <2>3 DEF Tight
    <3>2. Exact(R, u, Below(S, u))
      BY <2>2, <3>1, OtherNamed
    <3>3. QED BY <1>3, <3>2
  <2>5. ~ NameWanted(S, v, n)
    BY <1>7 DEF NameWanted
  <2>6. QED BY <1>2, <2>3, <2>4, <2>5 DEF Tight
<1>8. CASE n # S.name[v] /\ t # Null
  <2>1. t \in Tables
    BY <1>1, <1>8
  <2>2. OnlyTable(S, Q, t) /\ Exact(Q, t, Below(S, t) \ {v})
    <3>1. Exact(S, t, Below(S, t)) /\ Below(S, t) \in SUBSET Values
      BY <1>3, <2>1 DEF Tight
    <3> HIDE DEF t
    <3>2. QED BY <1>4, <2>1, <3>1, NamedRemoved
  <2>3. Q \in States /\ Q.name = S.name
    BY <2>2 DEF OnlyTable
  <2>4. R = IF n = NoName THEN [Q EXCEPT !.name[v] = n] ELSE CreateValueName(Q, t, n, v)
    BY <1>8 DEF SetName, RemoveNamed
  <2> HIDE DEF Q, t
  <2>5. ASSUME NEW u \in Tables \ {t}, R.vmap[u] = Q.vmap[u], \A w \in Values \ {v} : R.name[w] = S.name[w]
        PROVE  Exact(R, u, Below(R, u))
    <3>1. R.vmap[u] = S.vmap[u]
      BY <2>2, <2>5 DEF OnlyTable
    <3>2. Exact(S, u, Below(S, u)) /\ \A w \in Below(S, u) : R.name[w] = S.name[w]
      BY <1>3, <1>4, <2>5 DEF Tight
    <3>3. Exact(R, u, Below(S, u))
      BY <3>1, <3>2, OtherNamed
    <3>4. QED BY <1>3, <3>3
  <2>6. n # NoName => (n \in Taken(Q, t) <=> NameWanted(S, v, n))
    <3>1. ASSUME n # NoName, n \in Taken(Q, t) PROVE \E w \in Below(S, t) \ {v} : S.name[w] = n
      BY <2>2, <2>3, <3>1 DEF Exact
    <3>2. ASSUME n # NoName, NEW w \in Below(S, t) \ {v}, S.name[w] = n PROVE n \in Taken(Q, t)
      BY <2>2, <2>3, <3>2 DEF Exact, HasName
    <3>3. NameWanted(S, v, n) <=> \E w \in Below(S, t) \ {v} : n # NoName /\ S.name[w] = n
      BY <1>8 DEF NameWanted, t
    <3>4. QED BY <3>1, <3>2, <3>3
  <2>7. CASE n = NoName
    <3>1. R.name = [Q.name EXCEPT ![v] = n] /\ R.vmap = Q.vmap
      BY <2>3, <2>4, <2>7, NameSet
    <3>2. R.name[v] = n /\ \A w \in Values \ {v} : R.name[w] = S.name[w]
      BY <1>5, <2>3, <3>1
    <3>3. Exact(R, t, Below(S, t) \ {v})
      <4>1. \A w \in Below(S, t) \ {v} : R.name[w] = Q.name[w]
        BY <1>3, <2>3, <3>2
      <4>2. QED BY <2>2, <3>1, <4>1, OtherNamed
    <3>4. ~ HasName(R, v)
      BY <2>7, <3>2 DEF HasName
    <3>5. Exact(R, t, Below(R, t))
      <4>1. Exact(R, t, Below(S, t))
        BY <1>4, <3>3, <3>4, Unnamed
      <4>2. QED BY <1>3, <4>1
    <3>6. Tight(R)
      BY <2>5, <3>1, <3>2, <3>5 DEF Tight
    <3>7. ~ NameWanted(S, v, n)
      BY <2>7 DEF NameWanted
    <3>8. QED BY <1>2, <3>2, <3>6, <3>7
  <2>8. ASSUME n # NoName, NEW m \in Names, m # NoName, m \notin Taken(Q, t), NEW E, E = Emplace(Q, t, m, v),
               R.vmap = E.vmap, R.name = [E.name EXCEPT ![v] = m]
        PROVE  Tight(R) /\ R.name[v] = m /\ \A w \in Values \ {v} : R.name[w] = S.name[w]
    <3>1. Below(S, t) \in SUBSET Values
      BY <1>3
    <3>2. Exact(R, t, Below(S, t))
      <4> DEFINE V == Below(S, t)
      <4>1. v \in V /\ V \in SUBSET Values /\ Exact(Q, t, V \ {v})
        BY <1>4, <2>2, <3>1
      <4> HIDE DEF V
      <4>2. Exact(R, t, V)
        <5>1. Renamed(E, R, v, m)
          BY <2>8 DEF Renamed
        <5>2. QED BY ONLY <2>1, <2>3, <2>8, <4>1, <5>1, NewlyNamed
      <4>3. QED BY <4>2 DEF V
    <3>3. OnlyTable(Q, E, t)
      BY <2>1, <2>3, <2>8, NameEntered
    <3>4. E.name = S.name /\ \A u \in Tables \ {t} : R.vmap[u] = Q.vmap[u]
      BY <2>3, <2>8, <3>3 DEF OnlyTable
    <3>5. R.name[v] = m /\ \A w \in Values \ {v} : R.name[w] = S.name[w]
      BY <1>5, <2>8, <3>4
    <3>6. Exact(R, t, Below(R, t))
      BY <1>3, <3>2
    <3>7. QED BY <2>5, <3>4, <3>5, <3>6 DEF Tight
  <2>9. CASE n # NoName /\ n \notin Taken(Q, t)
    <3> DEFINE E == Emplace(Q, t, n, v)
    <3>1. R = [E EXCEPT !.name[v] = n]
      <4>1. R = CreateValueName(Q, t, n, v)
        BY <2>4, <2>9
      <4>2. QED BY ONLY <2>9, <4>1, Zenon DEF CreateValueName
    <3>2. E \in States
      BY <2>1, <2>3, EnteredTyped
    <3>3. R.vmap = E.vmap /\ R.name = [E.name EXCEPT ![v] = n]
      <4> HIDE DEF E
      <4>1. QED BY <3>1, <3>2, NameSet
    <3>4. Tight(R) /\ R.name[v] = n /\ \A w \in Values \ {v} : R.name[w] = S.name[w]
      BY <2>8, <2>9, <3>3
    <3>5. QED BY <1>2, <2>6, <2>9, <3>4
  <2>10. CASE n # NoName /\ n \in Taken(Q, t)
    <3> DEFINE k == NextUnique(Q, t, n)
               u == Append(n, k)
               E == Emplace(Q, t, u, v)
               P == [E EXCEPT !.last[t] = k]
    <3>1. R = [P EXCEPT !.name[v] = u]
      BY <2>4, <2>10 DEF CreateValueName
    <3>2. k \in Nat /\ (k <= MaxUnique[t] => k \in 1 .. 9 /\ u \notin Taken(Q, t))
      BY <2>1, <2>3, NumberIsFree
    <3>3. u \in Names /\ u # NoName
      BY <3>2 DEF Names, NoName
    <3> HIDE DEF k, u
    <3>4. E \in States
      BY <2>1, <2>3, <3>3, EnteredTyped
    <3> HIDE DEF E
    <3>5. P \in States /\ P.last = [E.last EXCEPT ![t] = k] /\ P.name = E.name /\ P.vmap = E.vmap
      BY <2>1, <3>2, <3>4, LastSet
    <3> HIDE DEF P
    <3>6. R.last = P.last /\ R.vmap = P.vmap /\ R.name = [P.name EXCEPT ![v] = u]
      BY <3>1, <3>3, <3>5, NameSet
    <3>7. R.last[t] = k
      BY <2>1, <3>4, <3>5, <3>6 DEF States
    <3>8. k \in 1 .. 9 /\ u \notin Taken(Q, t)
      BY <2>1, <3>2, <3>7
    <3>9. Tight(R) /\ R.name[v] = u /\ \A w \in Values \ {v} : R.name[w] = S.name[w]
      <4>1. R.vmap = E.vmap /\ R.name = [E.name EXCEPT ![v] = u]
        BY <3>5, <3>6
      <4>2. QED BY <2>8, <2>10, <3>3, <3>8, <4>1 DEF E
    <3>10. \E j \in 1 .. 9 : R.name[v] = Append(n, j)
      BY <3>8, <3>9 DEF u
    <3>11. QED BY <1>2, <2>6, <2>10, <3>9, <3>10
  <2>11. QED BY <2>7, <2>9, <2>10
<1>9. QED BY <1>6, <1>7, <1>8

-----------------------------------------------------------------------------
(***************************************************************************)
(* A value that is linked or unlinked takes the table of a group along:    *)
(* the value itself and, with a block, the instructions in its list.       *)
(***************************************************************************)
Fits(v, p) ==
  /\ v \in Funcs => p \in {Module, Null}
  /\ v \in Blocks => p \in Funcs \cup {Null}
  /\ v \in Insts => p \in Blocks \cup {Null}

Group(S, v)  == {v} \cup {i \in Insts : v \in Blocks /\ S.parent[i] = v}
ListOf(S, v) ==
  v \in Blocks => /\ insts[v] \in Seq(Insts) /\ Distinct(insts[v])
                  /\ Elems(insts[v]) = {i \in Insts : S.parent[i] = v}

(* Functions, blocks and instructions are different things.                *)
LEMMA Kinds ==
  ASSUME NEW v \in Values
  PROVE  /\ v \in Funcs => v \notin Blocks /\ v \notin Insts
         /\ v \in Blocks => v \notin Funcs /\ v \notin Insts
         /\ v \in Insts => v \notin Funcs /\ v \notin Blocks
         /\ v \in Funcs \/ v \in Blocks \/ v \in Insts
         /\ Null \notin Funcs /\ Null \notin Blocks /\ Null # Module /\ Module \notin Funcs
BY SymbolAssumption DEF Values

(* When v goes to p, its group changes the table and nothing else does.    *)
LEMMA Moved ==
  ASSUME NEW S \in States, Linked(S), NEW v \in Values, NEW p, Fits(v, p),
         NEW R, R.parent = [S.parent EXCEPT ![v] = p]
  PROVE  /\ Linked(R) /\ Group(S, v) \subseteq Values
         /\ \A w \in Group(S, v) : TableOf(S, w) = TableOf(S, v) /\ TableOf(R, w) = TableOf(R, v)
         /\ \A w \in Values \ Group(S, v) : TableOf(R, w) = TableOf(S, w)
<1>1. /\ \A w \in Values \ {v} : R.parent[w] = S.parent[w]
      /\ R.parent[v] = p
  BY DEF States
<1>2. Linked(R)
  <2>1. \A f \in Funcs : R.parent[f] \in {Module, Null}
    BY <1>1 DEF Linked, Fits, Values
  <2>2. \A b \in Blocks : R.parent[b] \in Funcs \cup {Null}
    BY <1>1 DEF Linked, Fits, Values
  <2>3. \A i \in Insts : R.parent[i] \in Blocks \cup {Null}
    BY <1>1 DEF Linked, Fits, Values
  <2>4. QED BY <2>1, <2>2, <2>3 DEF Linked
<1>3. Group(S, v) \subseteq Values
  BY DEF Group, Values
<1>4. ASSUME NEW w \in Group(S, v) PROVE TableOf(S, w) = TableOf(S, v) /\ TableOf(R, w) = TableOf(R, v)
  <2>1. CASE w = v
    BY <2>1
  <2>2. CASE w # v
    <3>1. w \in Insts /\ v \in Blocks /\ S.parent[w] = v /\ w \in Values
      BY <2>2 DEF Group, Values
    <3>2. v \notin Insts /\ v # Null /\ R.parent[w] = v
      BY <1>1, <2>2, <3>1, Kinds
    <3>3. QED BY <3>1, <3>2 DEF TableOf
  <2>3. QED BY <2>1, <2>2
<1>5. ASSUME NEW w \in Values \ Group(S, v) PROVE TableOf(R, w) = TableOf(S, w)
  <2>1. w # v /\ R.parent[w] = S.parent[w]
    BY <1>1 DEF Group
  <2>2. CASE w \in Insts /\ S.parent[w] # Null
    <3>1. S.parent[w] \in Blocks /\ S.parent[w] # v
      BY <2>2 DEF Linked, Group
    <3>2. R.parent[S.parent[w]] = S.parent[S.parent[w]]
      BY <1>1, <3>1 DEF Values
    <3>3. QED BY <2>1, <2>2, <3>2 DEF TableOf
  <2>3. CASE ~ (w \in Insts /\ S.parent[w] # Null)
    BY <2>1, <2>3 DEF TableOf
  <2>4. QED BY <2>2, <2>3
<1>6. QED BY <1>2, <1>3, <1>4, <1>5

(***************************************************************************)
(* Unlinking a value.                                                      *)
(***************************************************************************)
LEMMA UnlinkedTight ==
  ASSUME NEW S \in States, Linked(S), Tight(S), NEW v \in Values,
         NEW R, R.parent = [S.parent EXCEPT ![v] = Null], R.name = S.name,
         \A u \in Tables \ {TableOf(S, v)} : R.vmap[u] = S.vmap[u],
         TableOf(S, v) \in Tables => Exact(R, TableOf(S, v), Below(S, TableOf(S, v)) \ Group(S, v))
  PROVE  Linked(R) /\ Tight(R)
<1> DEFINE t == TableOf(S, v)
<1>1. Fits(v, Null)
  BY DEF Fits
<1>2. /\ Linked(R) /\ Group(S, v) \subseteq Values
      /\ \A w \in Group(S, v) : TableOf(S, w) = t /\ TableOf(R, w) = TableOf(R, v)
      /\ \A w \in Values \ Group(S, v) : TableOf(R, w) = TableOf(S, w)
  BY <1>1, Moved
<1>3. TableOf(R, v) = Null /\ Null \notin Tables
  <2>1. R.parent[v] = Null
    BY DEF States
  <2>2. QED BY <2>1, TableKnown DEF TableOf
<1>4. ASSUME NEW u \in Tables PROVE Exact(R, u, Below(R, u))
  <2>1. Below(R, u) = Below(S, u) \ Group(S, v)
    BY <1>2, <1>3 DEF Below
  <2>2. CASE u = t
    BY <2>1, <2>2
  <2>3. CASE u # t
    <3>1. Below(R, u) = Below(S, u)
      BY <1>2, <2>1, <2>3 DEF Below
    <3>2. Exact(S, u, Below(S, u)) /\ R.vmap[u] = S.vmap[u]
      BY <2>3 DEF Tight
    <3>3. Exact(R, u, Below(S, u))
      BY <3>2, ExactSame
    <3>4. QED BY <3>1, <3>3
  <2>4. QED BY <2>2, <2>3
<1>5. QED BY <1>2, <1>4 DEF Tight

(* The group of v leaves its table.                                        *)
LEMMA Unlinked ==
  ASSUME NEW S \in States, Linked(S), Tight(S), NEW v \in Values, ListOf(S, v),
         NEW R, R = RemoveFromSymbolTableList(S, v)
  PROVE  /\ R \in States /\ Linked(R) /\ Tight(R) /\ R.parent = [S.parent EXCEPT ![v] = Null]
         /\ R.name = S.name /\ R.last = S.last
<1> DEFINE t == TableOf(S, v)
           Q == IF t # Null THEN RemoveNamed(S, t, v) ELSE S
<1>1. t \in Tables \cup {Null} /\ Null \notin Tables
  BY TableKnown
<1>2. v \in Below(S, t) /\ Below(S, t) \in SUBSET Values
  BY DEF Below
<1>3. Null \in Parents
  BY DEF Parents
<1>4. CASE S.parent[v] = Null
  <2>1. R = S
    BY <1>4 DEF RemoveFromSymbolTableList
  <2>2. S.parent = [S.parent EXCEPT ![v] = Null]
    BY <1>4 DEF States
  <2>3. QED BY <2>1, <2>2
<1>5. Q \in States /\ Q.parent = S.parent /\ Q.name = S.name /\ Q.last = S.last
      /\ (\A u \in Tables \ {t} : Q.vmap[u] = S.vmap[u]) /\ (t \in Tables => Exact(Q, t, Below(S, t) \ {v}))
  <2> HIDE DEF t
  <2>1. CASE t = Null
    BY <1>1, <2>1
  <2>2. CASE t # Null
    <3>1. Exact(S, t, Below(S, t)) /\ t \in Tables
      BY <1>1, <2>2 DEF Tight
    <3>2. OnlyTable(S, RemoveNamed(S, t, v), t) /\ Exact(RemoveNamed(S, t, v), t, Below(S, t) \ {v})
      BY <1>2, <3>1, NamedRemoved
    <3>3. QED BY <2>2, <3>1, <3>2 DEF OnlyTable
  <2>3. QED BY <2>1, <2>2
<1> HIDE DEF Q
<1>6. CASE S.parent[v] # Null /\ v \notin Blocks
  <2>1. R = [Q EXCEPT !.parent[v] = Null]
    BY <1>6 DEF RemoveFromSymbolTableList, SetParent, Q
  <2>2. R \in States /\ R.parent = [Q.parent EXCEPT ![v] = Null] /\ R.name = Q.name /\ R.vmap = Q.vmap /\ R.last = Q.last
    BY <1>3, <1>5, <2>1, ParentSet
  <2>3. Group(S, v) = {v}
    BY <1>6 DEF Group
  <2>4. t \in Tables => Exact(R, t, Below(S, t) \ Group(S, v))
    <3> HIDE DEF t
    <3>1. QED BY <1>5, <2>2, <2>3, ExactSame
  <2>5. R.parent = [S.parent EXCEPT ![v] = Null] /\ R.name = S.name /\ \A u \in Tables \ {t} : R.vmap[u] = S.vmap[u]
    BY <1>5, <2>2
  <2>6. Linked(R) /\ Tight(R)
    BY <2>4, <2>5, UnlinkedTight
  <2>7. QED BY <1>5, <2>2, <2>5, <2>6
<1>7. CASE S.parent[v] # Null /\ v \in Blocks
  <2> DEFINE P == [Q EXCEPT !.parent[v] = Null]
  <2>1. t = S.parent[v] /\ t \in Funcs /\ t \in Tables /\ t # Null
    <3>1. v \notin Insts
      BY <1>7, Kinds
    <3>2. QED BY <1>7, <3>1, Kinds DEF TableOf, Linked, Tables
  <2>2. R = RemoveAll(P, t, insts[v])
    BY <1>5, <1>7, <2>1 DEF RemoveFromSymbolTableList, SetParent, BlockParent, Q
  <2>3. P \in States /\ P.parent = [Q.parent EXCEPT ![v] = Null] /\ P.name = Q.name /\ P.vmap = Q.vmap /\ P.last = Q.last
    BY <1>3, <1>5, ParentSet
  <2> HIDE DEF P
  <2>4. insts[v] \in Seq(Insts) /\ Distinct(insts[v]) /\ Group(S, v) = {v} \cup Elems(insts[v])
    BY <1>7 DEF ListOf, Group
  <2>5. Group(S, v) \subseteq Below(S, t) /\ v \notin Elems(insts[v])
    <3>1. v \notin Insts /\ v # Null /\ Elems(insts[v]) = {i \in Insts : S.parent[i] = v}
      BY <1>7, Kinds DEF ListOf
    <3>2. \A i \in Elems(insts[v]) : TableOf(S, i) = t /\ i \in Values
      BY <2>1, <3>1 DEF TableOf, Values
    <3> HIDE DEF t
    <3>3. QED BY <1>2, <2>4, <3>1, <3>2 DEF Below
  <2> HIDE DEF t
  <2> DEFINE V == Below(S, t) \ {v}
  <2>6. Exact(P, t, V) /\ V \in SUBSET Values /\ Elems(insts[v]) \subseteq V
    <3>1. Exact(P, t, V)
      BY <1>5, <2>1, <2>3, ExactSame
    <3>2. QED BY <1>2, <2>4, <2>5, <3>1
  <2> HIDE DEF V
  <2>7. OnlyTable(P, R, t) /\ Exact(R, t, V \ Elems(insts[v]))
    BY <2>1, <2>2, <2>3, <2>4, <2>6, RemovedAll
  <2>8. V \ Elems(insts[v]) = Below(S, t) \ Group(S, v)
    BY <2>4 DEF V
  <2>9. /\ R \in States /\ R.parent = [S.parent EXCEPT ![v] = Null] /\ R.name = S.name /\ R.last = S.last
        /\ \A u \in Tables \ {t} : R.vmap[u] = S.vmap[u]
    BY <1>5, <2>3, <2>7 DEF OnlyTable
  <2>10. Linked(R) /\ Tight(R)
    <3>1. Exact(R, TableOf(S, v), Below(S, TableOf(S, v)) \ Group(S, v))
      BY <2>7, <2>8 DEF t
    <3>2. \A u \in Tables \ {TableOf(S, v)} : R.vmap[u] = S.vmap[u]
      BY <2>9 DEF t
    <3>3. QED BY <2>9, <3>1, <3>2, UnlinkedTight
  <2>11. QED BY <2>9, <2>10
<1>8. QED BY <1>4, <1>6, <1>7

-----------------------------------------------------------------------------
(***************************************************************************)
(* Linking a value, when the names that enter a table are free in it.      *)
(***************************************************************************)
Free(S, V, t) ==
  \A v \in V : HasName(S, v) => /\ S.name[v] \notin Taken(S, t)
                                /\ \A w \in V : S.name[w] = S.name[v] => w = v

(* Tables are exact when that of the group has its names.                  *)
LEMMA LinkedTight ==
  ASSUME NEW S \in States, Linked(S), Tight(S), NEW v \in Values, S.parent[v] = Null, NEW p, Fits(v, p),
         NEW R, R.parent = [S.parent EXCEPT ![v] = p], R.name = S.name,
         \A u \in Tables \ {TableOf(R, v)} : R.vmap[u] = S.vmap[u],
         TableOf(R, v) \in Tables => Exact(R, TableOf(R, v), Below(S, TableOf(R, v)) \cup Group(S, v))
  PROVE  Linked(R) /\ Tight(R)
<1> DEFINE t == TableOf(R, v)
<1>1. /\ Linked(R) /\ Group(S, v) \subseteq Values
      /\ \A w \in Group(S, v) : TableOf(S, w) = TableOf(S, v) /\ TableOf(R, w) = t
      /\ \A w \in Values \ Group(S, v) : TableOf(R, w) = TableOf(S, w)
  BY Moved
<1>2. TableOf(S, v) = Null /\ Null \notin Tables
  BY TableKnown DEF TableOf
<1>3. ASSUME NEW u \in Tables PROVE Exact(R, u, Below(R, u))
  <2>1. CASE u = t
    <3>1. Below(R, u) = Below(S, u) \cup Group(S, v)
      BY <1>1, <1>2, <2>1 DEF Below
    <3>2. QED BY <2>1, <3>1
  <2>2. CASE u # t
    <3>1. Below(R, u) = Below(S, u)
      BY <1>1, <1>2, <2>2 DEF Below
    <3>2. Exact(S, u, Below(S, u)) /\ R.vmap[u] = S.vmap[u]
      BY <2>2 DEF Tight
    <3>3. Exact(R, u, Below(S, u))
      BY <3>2, ExactSame
    <3>4. QED BY <3>1, <3>3
  <2>3. QED BY <2>1, <2>2
<1>4. QED BY <1>1, <1>3 DEF Tight

(* The group of v enters the table of its new parent.                      *)
LEMMA Attached ==
  ASSUME NEW S \in States, Linked(S), Tight(S), NEW v \in Values, ListOf(S, v), S.parent[v] = Null,
         NEW p, Fits(v, p), p # Null, NEW t, t = IF v \in Insts THEN S.parent[p] ELSE p,
         t # Null => Free(S, Group(S, v), t),
         NEW R, R = AddToSymbolTableList(S, v, p)
  PROVE  /\ R \in States /\ Linked(R) /\ Tight(R) /\ R.parent = [S.parent EXCEPT ![v] = p]
         /\ R.name = S.name /\ R.last = S.last
<1> DEFINE P == [S EXCEPT !.parent[v] = p]
<1>1. p \in Parents
  BY Kinds DEF Fits, Parents
<1>2. P \in States /\ P.parent = [S.parent EXCEPT ![v] = p] /\ P.name = S.name /\ P.vmap = S.vmap /\ P.last = S.last
  BY <1>1, ParentSet
<1>3. P = SetParent(S, v, p) \/ v \in Blocks
  BY DEF SetParent
<1> HIDE DEF P
<1>4. /\ Linked(P) /\ Group(S, v) \subseteq Values
      /\ \A w \in Group(S, v) : TableOf(S, w) = TableOf(S, v) /\ TableOf(P, w) = TableOf(P, v)
  BY <1>2, Moved
<1>5. TableOf(S, v) = Null /\ TableOf(P, v) = t
  <2>1. P.parent[v] = p
    BY <1>2 DEF States
  <2>2. ASSUME v \in Insts PROVE P.parent[p] = S.parent[p]
    <3>1. p \in Blocks /\ p # v /\ p \in Values
      BY <2>2, Kinds DEF Fits, Values
    <3>2. QED BY <1>2, <3>1 DEF States
  <2>3. QED BY <2>1, <2>2 DEF TableOf
<1>6. t \in Tables \cup {Null} /\ Null \notin Tables
  BY <1>4, <1>5, TableKnown
<1>7. Below(S, t) \in SUBSET Values /\ (t \in Tables => Below(S, t) \cap Group(S, v) = {} /\ Exact(P, t, Below(S, t)))
  <2>1. Below(S, t) \in SUBSET Values
    BY DEF Below
  <2>2. t \in Tables => Below(S, t) \cap Group(S, v) = {}
    BY <1>4, <1>5, <1>6 DEF Below
  <2>3. t \in Tables => Exact(P, t, Below(S, t))
    BY <1>2, ExactSame DEF Tight
  <2>4. QED BY <2>1, <2>2, <2>3
<1>8. ASSUME R \in States, R.parent = P.parent, R.name = P.name, R.last = P.last,
             \A u \in Tables \ {t} : R.vmap[u] = P.vmap[u],
             t \in Tables => Exact(R, t, Below(S, t) \cup Group(S, v))
      PROVE  /\ R \in States /\ Linked(R) /\ Tight(R) /\ R.parent = [S.parent EXCEPT ![v] = p]
             /\ R.name = S.name /\ R.last = S.last
  <2>1. TableOf(R, v) = t
    BY <1>5, <1>8 DEF TableOf
  <2>2. R.parent = [S.parent EXCEPT ![v] = p] /\ R.name = S.name /\ R.last = S.last
    BY <1>2, <1>8
  <2>3. \A u \in Tables \ {TableOf(R, v)} : R.vmap[u] = S.vmap[u]
    BY <1>2, <1>8, <2>1
  <2>4. TableOf(R, v) \in Tables => Exact(R, TableOf(R, v), Below(S, TableOf(R, v)) \cup Group(S, v))
    BY <1>8, <2>1
  <2>5. Linked(R) /\ Tight(R)
    BY <2>2, <2>3, <2>4, LinkedTight
  <2>6. QED BY <1>8, <2>2, <2>5
<1>9. CASE v \notin Blocks
  <2>1. R = IF t # Null THEN ReinsertNamed(P, t, v) ELSE P
    BY <1>3, <1>5, <1>9 DEF AddToSymbolTableList
  <2>2. Group(S, v) = {v}
    BY <1>9 DEF Group
  <2>3. CASE t = Null
    BY <1>2, <1>6, <1>8, <2>1, <2>3
  <2>4. CASE t # Null
    <3> DEFINE V == Below(S, t)
    <3>1. t \in Tables /\ V \in SUBSET Values /\ Exact(P, t, V) /\ v \in Values \ V
      BY <1>6, <1>7, <2>2, <2>4
    <3>2. HasName(P, v) => P.name[v] \notin Taken(P, t)
      BY <1>2, <2>2, <2>4 DEF Free, HasName, Taken
    <3>3. R = ReinsertNamed(P, t, v)
      BY <2>1, <2>4
    <3> HIDE DEF V
    <3>4. OnlyTable(P, R, t) /\ Exact(R, t, V \cup {v})
      BY <1>2, <3>1, <3>2, <3>3, NamedReinserted
    <3>5. QED BY <1>8, <2>2, <3>4 DEF OnlyTable, V
  <2>5. QED BY <2>3, <2>4
<1>10. CASE v \in Blocks
  <2> DEFINE s == insts[v]
             V == Below(S, t)
             Q == ReinsertAll(P, t, s)
  <2>1. t = p /\ t \in Funcs /\ t \in Tables /\ t # Null
    BY <1>10, Kinds DEF Fits, Tables
  <2>2. SetParent(S, v, p) = Q
    BY <1>10, <2>1 DEF SetParent, BlockParent, P
  <2>3. s \in Seq(Insts) /\ Distinct(s) /\ Group(S, v) = {v} \cup Elems(s) /\ v \notin Elems(s)
    BY <1>10, Kinds DEF ListOf, Group
  <2>4. V \in SUBSET Values /\ Exact(P, t, V) /\ V \cap Group(S, v) = {}
    BY <1>7, <2>1
  <2>5. Free(S, Group(S, v), t)
    BY <2>1
  <2> HIDE DEF s, V
  <2>6. Elems(s) \cap V = {} /\ \A i \in Elems(s) : TableOf(P, i) = t
    BY <1>4, <1>5, <2>3, <2>4
  <2>7. \A i \in Elems(s) : HasName(P, i) => P.name[i] \notin Taken(P, t)
    BY <1>2, <2>3, <2>5 DEF Free, HasName, Taken
  <2>8. \A i, j \in Elems(s) : HasName(P, i) /\ P.name[i] = P.name[j] => i = j
    BY <1>2, <2>3, <2>5 DEF Free, HasName
  <2> HIDE DEF Q
  <2>9. OnlyTable(P, Q, t) /\ Exact(Q, t, V \cup Elems(s))
    BY <1>2, <2>1, <2>3, <2>4, <2>6, <2>7, <2>8, ReinsertedAll DEF Q
  <2>10. Q \in States /\ Q.parent = P.parent /\ Q.name = P.name /\ TableOf(Q, v) = t
    BY <1>5, <2>9 DEF OnlyTable, TableOf
  <2>11. R = ReinsertNamed(Q, t, v)
    BY <2>1, <2>2, <2>10 DEF AddToSymbolTableList
  <2>12. ASSUME HasName(Q, v), Q.name[v] \in Taken(Q, t) PROVE FALSE
    <3>1. PICK w \in V \cup Elems(s) : HasName(Q, w) /\ Q.name[w] = Q.name[v]
      BY <2>9, <2>12 DEF Exact
    <3>2. HasName(S, w) /\ HasName(S, v) /\ S.name[w] = S.name[v]
      BY <1>2, <2>10, <2>12, <3>1 DEF HasName
    <3>3. w \notin V
      <4>1. S.name[v] \notin Taken(P, t)
        BY <1>2, <2>3, <2>5, <3>2 DEF Free, Taken
      <4>2. w \in V => P.name[w] \in Taken(P, t)
        BY <1>2, <2>4, <3>2 DEF Exact, HasName
      <4>3. QED BY <1>2, <3>2, <4>1, <4>2
    <3>4. QED BY <2>3, <2>5, <3>1, <3>2, <3>3 DEF Free
  <2> DEFINE W == V \cup Elems(s)
  <2>13. W \in SUBSET Values /\ v \in Values \ W /\ W \cup {v} = V \cup Group(S, v)
    BY <1>4, <2>3, <2>4
  <2> HIDE DEF W
  <2>14. OnlyTable(Q, R, t) /\ Exact(R, t, W \cup {v})
    BY <2>1, <2>9, <2>10, <2>11, <2>12, <2>13, NamedReinserted DEF W
  <2>15. OnlyTable(P, R, t) /\ Exact(R, t, V \cup Group(S, v))
    BY <2>9, <2>13, <2>14, OnlyTableTwice
  <2>16. QED BY <1>8, <2>15 DEF OnlyTable, V
<1>11. QED BY <1>9, <1>10

-----------------------------------------------------------------------------
(***************************************************************************)
(* Destroying values: R is S without the parents and names of V.           *)
(***************************************************************************)
Without(S, R, V) ==
  /\ R \in States /\ R.last = S.last /\ Linked(R) /\ Tight(R)
  /\ \A v \in Values : /\ R.parent[v] = IF v \in V THEN Null ELSE S.parent[v]
                       /\ R.name[v] = IF v \in V THEN NoName ELSE S.name[v]

(* V and then W are destroyed.                                             *)
LEMMA WithoutTwice ==
  ASSUME NEW S, NEW T, NEW R, NEW V, NEW W, Without(S, T, V), Without(T, R, W)
  PROVE  Without(S, R, V \cup W)
BY DEF Without

(* One value is destroyed.                                                 *)
LEMMA Destroyed ==
  ASSUME NEW S \in States, Linked(S), Tight(S), NEW v \in Values, ListOf(S, v),
         NEW R, R = Destroy(S, v)
  PROVE  Without(S, R, {v})
<1> DEFINE P == RemoveFromSymbolTableList(S, v)
<1>1. /\ P \in States /\ Linked(P) /\ Tight(P) /\ P.parent = [S.parent EXCEPT ![v] = Null]
      /\ P.name = S.name /\ P.last = S.last
  BY Unlinked
<1>2. R = [P EXCEPT !.name[v] = NoName]
  BY DEF Destroy
<1> HIDE DEF P
<1>3. NoName \in Names
  BY DEF NoName, Names
<1>4. R \in States /\ R.name = [P.name EXCEPT ![v] = NoName] /\ R.parent = P.parent /\ R.vmap = P.vmap /\ R.last = P.last
  BY <1>1, <1>2, <1>3, NameSet
<1>5. \A w \in Values : /\ R.parent[w] = IF w \in {v} THEN Null ELSE S.parent[w]
                        /\ R.name[w] = IF w \in {v} THEN NoName ELSE S.name[w]
  BY <1>1, <1>4 DEF States
<1>6. Linked(R) /\ \A u : Below(R, u) = Below(P, u)
  BY <1>1, <1>4, SameBelow
<1>7. ASSUME NEW u \in Tables PROVE Exact(R, u, Below(R, u))
  <2>1. TableOf(P, v) = Null /\ Null \notin Tables
    <3>1. P.parent[v] = Null
      BY <1>1 DEF States
    <3>2. QED BY <3>1, TableKnown DEF TableOf
  <2>2. \A w \in Below(P, u) : w # v /\ w \in Values
    BY <2>1 DEF Below
  <2>3. \A w \in Below(P, u) : R.name[w] = P.name[w]
    BY <1>1, <1>4, <2>2 DEF States
  <2>4. Exact(P, u, Below(P, u))
    BY <1>1 DEF Tight
  <2>5. Exact(R, u, Below(P, u))
    BY <1>4, <2>3, <2>4, OtherNamed
  <2>6. QED BY <1>6, <2>5
<1>8. QED BY <1>1, <1>4, <1>5, <1>6, <1>7 DEF Without, Tight

(* The instructions of a list are destroyed.                               *)
LEMMA DestroyedAll ==
  ASSUME NEW S \in States, Linked(S), Tight(S), NEW s \in Seq(Insts), NEW R, R = DestroyAll(S, s)
  PROVE  Without(S, R, Elems(s))
<1>1. PICK c : /\ c[0] = S /\ \A k \in 1 .. Len(s) : c[k] = Destroy(c[k - 1], s[k])
               /\ \A k \in 0 .. Len(s) : c[k] \in States
               /\ R = c[Len(s)]
  BY DestroyChain
<1> DEFINE P(k) == Without(S, c[k], UpTo(s, k))
           Bad == {k \in 0 .. Len(s) : ~ P(k)}
<1>2. P(0)
  <2>1. UpTo(s, 0) = {}
    BY DEF UpTo
  <2>2. QED BY <1>1, <2>1 DEF Without
<1>3. ASSUME NEW k \in 1 .. Len(s), P(k - 1) PROVE P(k)
  <2>1. k - 1 \in 0 .. Len(s)
    OBVIOUS
  <2>2. UpTo(s, k) = UpTo(s, k - 1) \cup {s[k]} /\ s[k] \in Insts
    BY UpToNext
  <2>3. c[k - 1] \in States /\ c[k] = Destroy(c[k - 1], s[k]) /\ Linked(c[k - 1]) /\ Tight(c[k - 1])
    BY <1>1, <1>3, <2>1 DEF Without
  <2>4. s[k] \in Values /\ ListOf(c[k - 1], s[k])
    BY <2>2, SymbolAssumption DEF Values, ListOf
  <2>5. Without(c[k - 1], c[k], {s[k]})
    BY <2>3, <2>4, Destroyed
  <2>6. QED BY <1>3, <2>2, <2>5, WithoutTwice
<1> HIDE DEF P
<1>4. \A k \in 0 .. Len(s) : P(k)
  <2>1. SUFFICES ASSUME Bad # {} PROVE FALSE
    OBVIOUS
  <2>2. PICK m \in Bad : \A k \in Bad : m <= k
    <3>1. Bad \in SUBSET Nat
      OBVIOUS
    <3> HIDE DEF Bad
    <3>2. QED BY <2>1, <3>1, LeastNat
  <2>3. m \in 1 .. Len(s) /\ ~ P(m) /\ m - 1 \in 0 .. Len(s) /\ ~ (m <= m - 1)
    BY <1>2, <2>2
  <2>4. P(m - 1)
    BY <2>2, <2>3
  <2>5. QED BY <1>3, <2>3, <2>4
<1>5. P(Len(s)) /\ UpTo(s, Len(s)) = Elems(s)
  BY <1>4 DEF UpTo, Elems
<1>6. QED BY <1>1, <1>5 DEF P

(* A block goes with the instructions in its list.                         *)
LEMMA BlockDestroyed ==
  ASSUME NEW S \in States, Linked(S), Tight(S), NEW b \in Blocks, ListOf(S, b), NEW R, R = DestroyBlockIn(S, b)
  PROVE  Without(S, R, Group(S, b))
<1>1. b \in Values /\ insts[b] \in Seq(Insts) /\ Group(S, b) = {b} \cup Elems(insts[b])
  BY DEF Values, ListOf, Group
<1> DEFINE P == Destroy(S, b)
<1>2. Without(S, P, {b})
  BY <1>1, Destroyed
<1>3. R = DestroyAll(P, insts[b])
  BY DEF DestroyBlockIn
<1> HIDE DEF P
<1>4. Without(P, R, Elems(insts[b]))
  BY <1>1, <1>2, <1>3, DestroyedAll DEF Without
<1>5. QED BY <1>1, <1>2, <1>4, WithoutTwice

(* Destroying a block keeps to the types.                                  *)
LEMMA BlockDestroyTyped ==
  ASSUME NEW S \in States, NEW b \in Blocks, insts[b] \in Seq(Insts)
  PROVE  DestroyBlockIn(S, b) \in States
<1>1. b \in Values /\ Null \in Parents /\ NoName \in Names /\ Len(insts[b]) \in 0 .. Len(insts[b])
  BY DEF Values, Parents, Names, NoName
<1> DEFINE Q == IF TableOf(S, b) # Null THEN RemoveNamed(S, TableOf(S, b), b) ELSE S
           T == [Q EXCEPT !.parent[b] = Null]
           R == RemoveFromSymbolTableList(S, b)
           P == Destroy(S, b)
<1>2. Q \in States
  BY RemoveTyped
<1>3. R = S \/ R = T \/ \E t : R = RemoveAll(T, t, insts[b])
  BY DEF RemoveFromSymbolTableList, SetParent, BlockParent
<1> HIDE DEF Q
<1>4. T \in States
  BY <1>1, <1>2, ParentSet
<1> HIDE DEF T, R
<1>5. R \in States
  <2>1. \A t : RemoveAll(T, t, insts[b]) \in States
    BY <1>1, <1>4, RemoveChain
  <2>2. QED BY <1>3, <1>4, <2>1
<1>6. P = [R EXCEPT !.name[b] = NoName]
  BY DEF Destroy, R
<1>7. P \in States
  <2> HIDE DEF P
  <2>1. QED BY <1>1, <1>5, <1>6, NameSet
<1>8. DestroyBlockIn(S, b) = DestroyAll(P, insts[b])
  BY DEF DestroyBlockIn
<1> HIDE DEF P
<1>9. QED BY <1>1, <1>7, <1>8, DestroyChain

(* Blocks are destroyed.                                                   *)
LEMMA BlockChain ==
  ASSUME NEW S \in States, NEW s \in Seq({b \in Blocks : insts[b] \in Seq(Insts)})
  PROVE  \E c : /\ c[0] = S /\ \A k \in 1 .. Len(s) : c[k] = DestroyBlockIn(c[k - 1], s[k])
                /\ \A k \in 0 .. Len(s) : c[k] \in States
                /\ DestroyBlocks(S, s) = c[Len(s)]
<1> DEFINE X == States
           N == Len(s)
           G == [p \in X \X {b \in Blocks : insts[b] \in Seq(Insts)} |-> DestroyBlockIn(p[1], p[2])]
           g == CHOOSE g : g = [x \in SUBSET DOMAIN s |->
                                 IF x = {} THEN S ELSE DestroyBlockIn(g[x \ {Max(x)}], s[Max(x)])]
           c == [k \in 0 .. N |-> g[1 .. k]]
<1>1. N \in Nat /\ DOMAIN s = 1 .. N /\ \A k \in 1 .. N : s[k] \in {b \in Blocks : insts[b] \in Seq(Insts)}
  OBVIOUS
<1>2. \A T \in X, i \in {b \in Blocks : insts[b] \in Seq(Insts)} : DestroyBlockIn(T, i) \in X
  BY BlockDestroyTyped
<1>3. G \in [X \X {b \in Blocks : insts[b] \in Seq(Insts)} -> X] /\ \A T \in X, i \in {b \in Blocks : insts[b] \in Seq(Insts)} : G[<<T, i>>] = DestroyBlockIn(T, i)
  BY <1>2
<1> HIDE DEF G
<1>4. PICK h \in [SUBSET (1 .. N) -> X] : FoldsBy(G, S, s, N, h)
  BY <1>3, FoldDefined
<1>5. h = [x \in SUBSET DOMAIN s |-> IF x = {} THEN S ELSE DestroyBlockIn(h[x \ {Max(x)}], s[Max(x)])]
  <2>1. \A x \in SUBSET (1 .. N) : x # {} => Max(x) \in x /\ h[x \ {Max(x)}] \in X /\ s[Max(x)] \in {b \in Blocks : insts[b] \in Seq(Insts)}
    BY <1>1, <1>4, GreatestIn
  <2>2. \A x \in SUBSET (1 .. N) : x # {} => G[<<h[x \ {Max(x)}], s[Max(x)]>>] = DestroyBlockIn(h[x \ {Max(x)}], s[Max(x)])
    BY <1>3, <2>1
  <2>3. h = [x \in SUBSET (1 .. N) |-> IF x = {} THEN S ELSE G[<<h[x \ {Max(x)}], s[Max(x)]>>]]
    BY ONLY <1>4 DEF FoldsBy
  <2> HIDE DEF X, N
  <2>4. QED BY ONLY <1>1, <2>2, <2>3
<1>6. g = [x \in SUBSET DOMAIN s |-> IF x = {} THEN S ELSE DestroyBlockIn(g[x \ {Max(x)}], s[Max(x)])]
  <2> HIDE DEF X, N
  <2>1. QED BY ONLY <1>5, Zenon DEF g
<1>7. DestroyBlocks(S, s) = g[DOMAIN s]
  BY Zenon DEF DestroyBlocks, FoldLeft, MapThenFoldSet
<1> HIDE DEF g
<1>8. c[0] = S
  <2>1. 1 .. 0 = {} /\ 1 .. 0 \in SUBSET DOMAIN s
    BY <1>1
  <2>2. g[1 .. 0] = S
    BY ONLY <1>6, <2>1
  <2>3. QED BY <1>1, <2>2
<1>9. ASSUME NEW k \in 1 .. N PROVE c[k] = DestroyBlockIn(c[k - 1], s[k])
  <2>1. /\ 1 .. k \in SUBSET DOMAIN s /\ 1 .. k # {} /\ Max(1 .. k) = k /\ (1 .. k) \ {k} = 1 .. k - 1
        /\ k - 1 \in 0 .. N /\ k \in 0 .. N
    <3>1. N \in Nat /\ DOMAIN s = 1 .. N /\ k \in 1 .. N
      BY <1>1
    <3> HIDE DEF N
    <3>2. k \in 0 .. N
      BY ONLY <3>1
    <3>3. /\ 1 .. k \in SUBSET (1 .. N) /\ 1 .. k # {} /\ Max(1 .. k) = k /\ (1 .. k) \ {k} = 1 .. k - 1
          /\ k - 1 \in 0 .. N
      BY ONLY <3>1, UpToLess, Zenon
    <3>4. QED BY ONLY <3>1, <3>2, <3>3
  <2>2. g[1 .. k] = LET x == 1 .. k IN DestroyBlockIn(g[x \ {Max(x)}], s[Max(x)])
    BY ONLY <1>6, <2>1
  <2>3. c[k] = g[1 .. k] /\ c[k - 1] = g[1 .. k - 1]
    BY <2>1
  <2> HIDE DEF c
  <2>4. QED BY <2>1, <2>2, <2>3
<1>10. c[N] = g[DOMAIN s]
  BY <1>1
<1> HIDE DEF c
<1>11. \A k \in 0 .. N : c[k] \in X
  <2>1. S \in X
    BY DEF X
  <2>2. \A k \in 1 .. N : c[k - 1] \in X => c[k] = G[<<c[k - 1], s[k]>>]
    BY <1>1, <1>3, <1>9
  <2>3. c[0] \in X /\ G \in [X \X {b \in Blocks : insts[b] \in Seq(Insts)} -> X] /\ s \in Seq({b \in Blocks : insts[b] \in Seq(Insts)})
    BY <1>3, <1>8, <2>1
  <2> HIDE DEF X, N
  <2>4. Stepwise(G, s, c, X)
    BY <2>2 DEF N, Stepwise
  <2> HIDE DEF G, c
  <2>5. \A k \in 0 .. Len(s) : c[k] \in X
    BY ONLY <2>3, <2>4, ChainStays
  <2>6. QED BY <2>5 DEF N
<1>12. QED BY <1>7, <1>8, <1>9, <1>10, <1>11

(* Blocks are destroyed, with the instructions in their lists.             *)
LEMMA BlocksDestroyed ==
  ASSUME NEW S \in States, Linked(S), Tight(S), NEW s \in Seq(Blocks), Distinct(s), \A b \in Blocks : ListOf(S, b),
         NEW R, R = DestroyBlocks(S, s)
  PROVE  Without(S, R, Elems(s) \cup {i \in Insts : S.parent[i] \in Elems(s)})
<1> DEFINE Gone(k) == UpTo(s, k) \cup {i \in Insts : S.parent[i] \in UpTo(s, k)}
<1>1. PICK c : /\ c[0] = S /\ \A k \in 1 .. Len(s) : c[k] = DestroyBlockIn(c[k - 1], s[k])
               /\ \A k \in 0 .. Len(s) : c[k] \in States
               /\ R = c[Len(s)]
  <2>1. s \in Seq({b \in Blocks : insts[b] \in Seq(Insts)})
    BY DEF ListOf
  <2>2. QED BY <2>1, BlockChain
<1> DEFINE P(k) == Without(S, c[k], Gone(k))
           Bad == {k \in 0 .. Len(s) : ~ P(k)}
<1>2. P(0)
  <2>1. UpTo(s, 0) = {}
    BY DEF UpTo
  <2>2. Gone(0) = {}
    BY <2>1
  <2> HIDE DEF Gone
  <2>3. QED BY <1>1, <2>2 DEF Without
<1>3. ASSUME NEW k \in 1 .. Len(s), P(k - 1) PROVE P(k)
  <2>1. k - 1 \in 0 .. Len(s) /\ s[k] \in Blocks
    OBVIOUS
  <2>2. UpTo(s, k) = UpTo(s, k - 1) \cup {s[k]} /\ s[k] \notin UpTo(s, k - 1) /\ UpTo(s, k - 1) \subseteq Elems(s)
    <3>1. k - 1 \in 1 .. Len(s) \/ k - 1 = 0
      OBVIOUS
    <3>2. UpTo(s, k) = UpTo(s, k - 1) \cup {s[k]} /\ s[k] \notin UpTo(s, k - 1) /\ UpTo(s, 0) = {}
      BY UpToNext
    <3>3. UpTo(s, k - 1) \subseteq Elems(s)
      BY DEF UpTo, Elems
    <3>4. QED BY <3>2, <3>3
  <2>3. c[k - 1] \in States /\ c[k] = DestroyBlockIn(c[k - 1], s[k]) /\ Linked(c[k - 1]) /\ Tight(c[k - 1])
    BY <1>1, <1>3, <2>1 DEF Without
  <2>4. \A i \in Insts : c[k - 1].parent[i] = s[k] <=> S.parent[i] = s[k]
    <3>1. Elems(s) \subseteq Blocks
      BY DEF Elems
    <3>2. \A i \in Insts : i \in Values /\ i \notin UpTo(s, k - 1)
      BY <2>2, <3>1, SymbolAssumption DEF Values
    <3>3. \A i \in Insts : c[k - 1].parent[i] = IF S.parent[i] \in UpTo(s, k - 1) THEN Null ELSE S.parent[i]
      BY <1>3, <3>2 DEF Without
    <3>4. s[k] # Null
      BY <2>1, SymbolAssumption
    <3>5. QED BY ONLY <2>2, <3>3, <3>4
  <2>5. ListOf(c[k - 1], s[k]) /\ Group(c[k - 1], s[k]) = {s[k]} \cup {i \in Insts : S.parent[i] = s[k]}
    BY <2>1, <2>4 DEF ListOf, Group
  <2>6. Without(c[k - 1], c[k], Group(c[k - 1], s[k]))
    BY <2>1, <2>3, <2>5, BlockDestroyed
  <2>7. Gone(k - 1) \cup Group(c[k - 1], s[k]) = Gone(k)
    BY <2>2, <2>5
  <2> HIDE DEF Gone
  <2>8. Without(S, c[k], Gone(k - 1) \cup Group(c[k - 1], s[k]))
    BY <1>3, <2>6, WithoutTwice
  <2>9. QED BY <2>7, <2>8
<1> HIDE DEF P
<1>4. \A k \in 0 .. Len(s) : P(k)
  <2>1. SUFFICES ASSUME Bad # {} PROVE FALSE
    OBVIOUS
  <2>2. PICK m \in Bad : \A k \in Bad : m <= k
    <3>1. Bad \in SUBSET Nat
      OBVIOUS
    <3> HIDE DEF Bad
    <3>2. QED BY <2>1, <3>1, LeastNat
  <2>3. m \in 1 .. Len(s) /\ ~ P(m) /\ m - 1 \in 0 .. Len(s) /\ ~ (m <= m - 1)
    BY <1>2, <2>2
  <2>4. P(m - 1)
    BY <2>2, <2>3
  <2>5. QED BY <1>3, <2>3, <2>4
<1>5. P(Len(s)) /\ UpTo(s, Len(s)) = Elems(s)
  BY <1>4 DEF UpTo, Elems
<1>6. QED BY <1>1, <1>5 DEF P

-----------------------------------------------------------------------------
(***************************************************************************)
(* The inductive invariant: values have the parents the lists say, what    *)
(* does not exist has neither parent nor name, and every table holds       *)
(* exactly the names of the values linked below its owner.                 *)
(***************************************************************************)
Typed(A, L, S) ==
  /\ A \in SUBSET Values /\ L \in [Blocks -> Seq(Insts)] /\ S \in States
  /\ \A t \in Tables : S.last[t] <= MaxUnique[t]

Shaped(A, L, S) ==
  /\ Linked(S)
  /\ \A f \in Funcs : S.parent[f] = IF f \in A THEN Module ELSE Null
  /\ \A v \in Blocks \cup Insts : S.parent[v] # Null => v \in A /\ S.parent[v] \in A
  /\ \A v \in Values \ A : S.name[v] = NoName
  /\ \A b \in Blocks : Distinct(L[b]) /\ Elems(L[b]) = {i \in Insts : S.parent[i] = b}

Good(A, L, S) == Typed(A, L, S) /\ Shaped(A, L, S) /\ Tight(S)

IInv == Good(alive, insts, sym)

(* The invariant of the next state.                                        *)
LEMMA GoodNext ==
  ASSUME Good(alive', insts', sym') PROVE IInv'
BY DEF IInv

(* What the invariant says of this state.                                  *)
LEMMA GoodNow ==
  ASSUME IInv
  PROVE  /\ Typed(alive, insts, sym) /\ Shaped(alive, insts, sym) /\ Tight(sym) /\ Linked(sym) /\ sym \in States
         /\ \A v \in Values : ListOf(sym, v)
BY DEF IInv, Good, Typed, Shaped, ListOf

-----------------------------------------------------------------------------
(***************************************************************************)
(* Lists of instructions without repetition.                               *)
(***************************************************************************)
LEMMA AppendedList ==
  ASSUME NEW s \in Seq(Insts), Distinct(s), NEW i \in Insts, i \notin Elems(s)
  PROVE  Append(s, i) \in Seq(Insts) /\ Distinct(Append(s, i)) /\ Elems(Append(s, i)) = Elems(s) \cup {i}
<1> DEFINE r == Append(s, i)
           n == Len(s)
<1>1. n \in Nat /\ DOMAIN s = 1 .. n /\ DOMAIN r = 1 .. n + 1 /\ r[n + 1] = i /\ \A k \in 1 .. n : r[k] = s[k]
  OBVIOUS
<1>2. r \in Seq(Insts)
  OBVIOUS
<1> HIDE DEF r, n
<1>3. 1 .. n + 1 = (1 .. n) \cup {n + 1} /\ n + 1 \notin 1 .. n
  BY <1>1
<1>4. \A k \in 1 .. n : r[k] # i
  BY <1>1 DEF Elems
<1>5. Distinct(r)
  BY ONLY <1>1, <1>3, <1>4, Distinct(s) DEF Distinct
<1>6. Elems(r) = Elems(s) \cup {i}
  BY ONLY <1>1, <1>3 DEF Elems
<1>7. QED BY <1>2, <1>5, <1>6 DEF r

(* An instruction is taken out.                                            *)
LEMMA ShortenedList ==
  ASSUME NEW s \in Seq(Insts), Distinct(s), NEW i
  PROVE  RemoveFirst(s, i) \in Seq(Insts) /\ Distinct(RemoveFirst(s, i)) /\ Elems(RemoveFirst(s, i)) = Elems(s) \ {i}
<1> DEFINE r == RemoveFirst(s, i)
<1>1. DOMAIN s = 1 .. Len(s)
  OBVIOUS
<1>2. \A j, k \in 1 .. Len(s) : s[j] = s[k] => j = k
  BY <1>1 DEF Distinct
<1>3. /\ r \in Seq(Insts) /\ \A j, k \in 1 .. Len(r) : r[j] = r[k] => j = k
      /\ \A x : Has(r, x) <=> Has(s, x) /\ x # i
  BY <1>2, RemoveFirstFacts
<1> HIDE DEF r
<1>4. DOMAIN r = 1 .. Len(r)
  BY <1>3
<1>5. Elems(r) = Elems(s) \ {i}
  <2>1. \A x : (x \in Elems(r) <=> Has(r, x)) /\ (x \in Elems(s) <=> Has(s, x))
    BY <1>1, <1>4 DEF Elems, Has
  <2>2. QED BY <1>3, <2>1
<1>6. Distinct(r)
  BY <1>3, <1>4 DEF Distinct
<1>7. QED BY <1>3, <1>5, <1>6 DEF r

-----------------------------------------------------------------------------
(***************************************************************************)
(* Each action keeps the invariant.                                        *)
(***************************************************************************)
Bounded == \A t \in Tables : sym'.last[t] <= MaxUnique[t]

(* A function enters the module, without a name.                           *)
LEMMA CreateFunctionGood ==
  ASSUME IInv, Bounded, NEW f \in Funcs, CreateFunction(f) PROVE IInv'
<1> DEFINE R == AddToSymbolTableList(sym, f, Module)
<1>1. /\ Typed(alive, insts, sym) /\ Shaped(alive, insts, sym) /\ Tight(sym) /\ Linked(sym) /\ sym \in States
      /\ \A v \in Values : ListOf(sym, v)
  BY GoodNow
<1>2. f \in Values /\ f \notin Blocks /\ f \notin Insts /\ Module # Null /\ f \notin alive /\ Module \in Tables
  BY Kinds DEF Values, CreateFunction, New, Tables
<1>3. sym.parent[f] = Null /\ ~ HasName(sym, f)
  BY <1>1, <1>2 DEF Shaped, HasName
<1>4. Fits(f, Module) /\ Free(sym, Group(sym, f), Module)
  BY <1>2, <1>3 DEF Fits, Free, Group
<1>5. /\ R \in States /\ Linked(R) /\ Tight(R) /\ R.parent = [sym.parent EXCEPT ![f] = Module]
      /\ R.name = sym.name /\ R.last = sym.last
  <2> DEFINE t == IF f \in Insts THEN sym.parent[Module] ELSE Module
  <2>1. t = Module
    BY <1>2
  <2>2. QED BY <1>1, <1>2, <1>3, <1>4, <2>1, Attached
<1>6. alive' = alive \cup {f} /\ insts' = insts /\ sym' = R
  BY DEF CreateFunction, New
<1> HIDE DEF R
<1>7. Typed(alive', insts', sym')
  BY <1>1, <1>2, <1>5, <1>6 DEF Typed, Bounded
<1>8. Shaped(alive', insts', sym')
  <2>1. sym'.parent[f] = Module /\ \A v \in Values \ {f} : sym'.parent[v] = sym.parent[v]
    BY <1>1, <1>2, <1>5, <1>6 DEF States
  <2>2. \A g \in Funcs : sym'.parent[g] = IF g \in alive' THEN Module ELSE Null
    BY <1>1, <1>6, <2>1 DEF Shaped, Values
  <2>3. \A v \in Blocks \cup Insts : sym'.parent[v] = sym.parent[v]
    BY <1>2, <2>1 DEF Values
  <2>4. \A v \in Blocks \cup Insts : sym'.parent[v] # Null => v \in alive' /\ sym'.parent[v] \in alive'
    BY <1>1, <1>6, <2>3 DEF Shaped
  <2>5. \A v \in Values \ alive' : sym'.name[v] = NoName
    BY <1>1, <1>5, <1>6 DEF Shaped
  <2>6. \A b \in Blocks : Distinct(insts'[b]) /\ Elems(insts'[b]) = {i \in Insts : sym'.parent[i] = b}
    BY <1>1, <1>6, <2>3 DEF Shaped
  <2>7. QED BY <1>5, <1>6, <2>2, <2>4, <2>5, <2>6 DEF Shaped
<1>9. QED BY <1>5, <1>6, <1>7, <1>8, GoodNext DEF Good

(* A block enters a function, then takes its name.                         *)
LEMMA CreateBlockGood ==
  ASSUME IInv, Bounded, NEW b \in Blocks, NEW f \in Funcs, NEW n \in Wanted[b], CreateBlock(b, f, n) PROVE IInv'
<1> DEFINE P == AddToSymbolTableList(sym, b, f)
           R == SetName(P, b, n)
<1>1. /\ Typed(alive, insts, sym) /\ Shaped(alive, insts, sym) /\ Tight(sym) /\ Linked(sym) /\ sym \in States
      /\ \A v \in Values : ListOf(sym, v)
  BY GoodNow
<1>2. b \in Values /\ b \notin Funcs /\ b \notin Insts /\ f # Null /\ b \notin alive /\ f \in alive /\ b # Null
  BY Kinds DEF Values, CreateBlock, New
<1>3. sym.parent[b] = Null /\ ~ HasName(sym, b)
  BY <1>1, <1>2 DEF Shaped, HasName
<1>4. Fits(b, f) /\ Free(sym, Group(sym, b), f)
  <2>1. Group(sym, b) = {b}
    BY <1>1, <1>2 DEF Shaped, Group
  <2>2. QED BY <1>2, <1>3, <2>1 DEF Fits, Free
<1>5. /\ P \in States /\ Linked(P) /\ Tight(P) /\ P.parent = [sym.parent EXCEPT ![b] = f]
      /\ P.name = sym.name /\ P.last = sym.last
  <2> DEFINE t == IF b \in Insts THEN sym.parent[f] ELSE f
  <2>1. t = f
    BY <1>2
  <2>2. QED BY <1>1, <1>2, <1>3, <1>4, <2>1, Attached
<1>6. alive' = alive \cup {b} /\ insts' = insts /\ sym' = R
  BY DEF CreateBlock, New
<1>7. n \in Names
  BY <1>2, SymbolAssumption DEF Names
<1> HIDE DEF P
<1>8. /\ R \in States /\ R.parent = P.parent /\ Tight(R)
      /\ \A w \in Values \ {b} : R.name[w] = P.name[w]
  <2>1. \A t \in Tables : R.last[t] <= MaxUnique[t]
    BY <1>6 DEF Bounded
  <2> HIDE DEF R
  <2>2. R = SetName(P, b, n)
    BY DEF R
  <2>3. QED BY <1>2, <1>5, <1>7, <2>1, <2>2, NameSetTight
<1> HIDE DEF R
<1>9. Typed(alive', insts', sym')
  BY <1>1, <1>2, <1>6, <1>8 DEF Typed, Bounded
<1>10. Shaped(alive', insts', sym')
  <2>1. sym'.parent[b] = f /\ \A v \in Values \ {b} : sym'.parent[v] = sym.parent[v]
    BY <1>1, <1>2, <1>5, <1>6, <1>8 DEF States
  <2>2. \A g \in Funcs : sym'.parent[g] = IF g \in alive' THEN Module ELSE Null
    BY <1>1, <1>2, <1>6, <2>1 DEF Shaped, Values
  <2>3. \A v \in Blocks \cup Insts : sym'.parent[v] # Null => v \in alive' /\ sym'.parent[v] \in alive'
    BY <1>1, <1>2, <1>6, <2>1 DEF Shaped, Values
  <2>4. \A v \in Values \ alive' : sym'.name[v] = NoName
    BY <1>1, <1>5, <1>6, <1>8 DEF Shaped
  <2>5. \A i \in Insts : sym'.parent[i] = sym.parent[i]
    BY <1>2, <2>1 DEF Values
  <2>6. \A a \in Blocks : Distinct(insts'[a]) /\ Elems(insts'[a]) = {i \in Insts : sym'.parent[i] = a}
    BY <1>1, <1>6, <2>5 DEF Shaped
  <2>7. Linked(sym')
    BY <1>5, <1>6, <1>8, SameBelow
  <2>8. QED BY <2>2, <2>3, <2>4, <2>6, <2>7 DEF Shaped
<1>11. QED BY <1>6, <1>8, <1>9, <1>10, GoodNext DEF Good

(* The names of the values other than v.                                   *)
NamesKept(S, R, v) == \A w \in Values \ {v} : R.name[w] = S.name[w]

(* An instruction is linked at the end of the list of b.                   *)
LEMMA InstLinked ==
  ASSUME IInv, NEW i \in Insts, NEW b \in Blocks, b \in alive, sym.parent[i] = Null,
         NEW A, A = alive \cup {i}, NEW S \in States, Linked(S), S.parent = [sym.parent EXCEPT ![i] = b],
         NamesKept(sym, S, i)
  PROVE  LET L == [insts EXCEPT ![b] = Append(@, i)]
         IN  Shaped(A, L, S) /\ L \in [Blocks -> Seq(Insts)] /\ A \in SUBSET Values
<1> DEFINE L == [insts EXCEPT ![b] = Append(@, i)]
<1>1. Typed(alive, insts, sym) /\ Shaped(alive, insts, sym) /\ sym \in States
  BY GoodNow
<1>2. i \in Values /\ i \notin Funcs /\ i \notin Blocks /\ b # Null
  BY Kinds DEF Values
<1>3. insts[b] \in Seq(Insts) /\ Distinct(insts[b]) /\ i \notin Elems(insts[b])
  BY <1>1, <1>2 DEF Typed, Shaped
<1>4. Append(insts[b], i) \in Seq(Insts) /\ Distinct(Append(insts[b], i)) /\ Elems(Append(insts[b], i)) = Elems(insts[b]) \cup {i}
  BY <1>3, AppendedList
<1>5. L \in [Blocks -> Seq(Insts)] /\ L[b] = Append(insts[b], i) /\ \A a \in Blocks \ {b} : L[a] = insts[a]
  BY <1>1, <1>4 DEF Typed
<1> HIDE DEF L
<1>6. S.parent[i] = b /\ \A v \in Values \ {i} : S.parent[v] = sym.parent[v]
  BY <1>1, <1>2 DEF States
<1>7. \A f \in Funcs : S.parent[f] = IF f \in A THEN Module ELSE Null
  BY <1>1, <1>2, <1>6 DEF Shaped, Values
<1>8. \A v \in Blocks \cup Insts : S.parent[v] # Null => v \in A /\ S.parent[v] \in A
  BY <1>1, <1>2, <1>6 DEF Shaped, Values
<1>9. \A v \in Values \ A : S.name[v] = NoName
  BY <1>1 DEF Shaped, NamesKept
<1>10. ASSUME NEW a \in Blocks PROVE Distinct(L[a]) /\ Elems(L[a]) = {j \in Insts : S.parent[j] = a}
  <2>1. Distinct(insts[a]) /\ Elems(insts[a]) = {j \in Insts : sym.parent[j] = a}
    BY <1>1 DEF Shaped
  <2>2. \A j \in Insts : S.parent[j] = IF j = i THEN b ELSE sym.parent[j]
    BY <1>6 DEF Values
  <2>3. CASE a = b
    <3>1. Elems(insts[b]) \cup {i} = {j \in Insts : S.parent[j] = a}
      BY ONLY <2>1, <2>2, <2>3, i \in Insts
    <3>2. QED BY <1>4, <1>5, <2>3, <3>1
  <2>4. CASE a # b
    <3>1. sym.parent[i] # a
      BY <1>2, SymbolAssumption
    <3>2. {j \in Insts : sym.parent[j] = a} = {j \in Insts : S.parent[j] = a}
      BY ONLY <2>2, <2>4, <3>1
    <3>3. QED BY <1>5, <2>1, <2>4, <3>2
  <2>5. QED BY <2>3, <2>4
<1>11. A \in SUBSET Values
  BY <1>1, <1>2 DEF Typed
<1>12. QED BY <1>5, <1>7, <1>8, <1>9, <1>10, <1>11 DEF Shaped, L

(* An instruction enters a block, then takes its name.                     *)
LEMMA CreateInstGood ==
  ASSUME IInv, Bounded, NEW i \in Insts, NEW b \in Blocks, NEW n \in Wanted[i], CreateInst(i, b, n) PROVE IInv'
<1> DEFINE P == AddToSymbolTableList(sym, i, b)
           R == SetName(P, i, n)
<1>1. /\ Typed(alive, insts, sym) /\ Shaped(alive, insts, sym) /\ Tight(sym) /\ Linked(sym) /\ sym \in States
      /\ \A v \in Values : ListOf(sym, v)
  BY GoodNow
<1>2. i \in Values /\ i \notin Funcs /\ i \notin Blocks /\ b # Null /\ i \notin alive /\ b \in alive
  BY Kinds DEF Values, CreateInst, New
<1>3. sym.parent[i] = Null /\ ~ HasName(sym, i)
  BY <1>1, <1>2 DEF Shaped, HasName
<1>4. Fits(i, b) /\ Free(sym, Group(sym, i), sym.parent[b])
  <2>1. Group(sym, i) = {i}
    BY <1>2 DEF Group
  <2>2. QED BY <1>2, <1>3, <2>1 DEF Fits, Free
<1>5. /\ P \in States /\ Linked(P) /\ Tight(P) /\ P.parent = [sym.parent EXCEPT ![i] = b]
      /\ P.name = sym.name /\ P.last = sym.last
  <2> DEFINE t == IF i \in Insts THEN sym.parent[b] ELSE b
  <2>1. t = sym.parent[b]
    OBVIOUS
  <2>2. QED BY <1>1, <1>2, <1>3, <1>4, <2>1, Attached
<1>6. alive' = alive \cup {i} /\ insts' = [insts EXCEPT ![b] = Append(@, i)] /\ sym' = R
  BY DEF CreateInst, New
<1>7. n \in Names
  BY <1>2, SymbolAssumption DEF Names
<1> HIDE DEF P
<1>8. /\ R \in States /\ R.parent = P.parent /\ Tight(R) /\ Linked(R)
      /\ \A w \in Values \ {i} : R.name[w] = P.name[w]
  <2>1. \A t \in Tables : R.last[t] <= MaxUnique[t]
    BY <1>6 DEF Bounded
  <2> HIDE DEF R
  <2>2. R = SetName(P, i, n)
    BY DEF R
  <2>3. R \in States /\ R.parent = P.parent /\ Tight(R) /\ \A w \in Values \ {i} : R.name[w] = P.name[w]
    BY <1>2, <1>5, <1>7, <2>1, <2>2, NameSetTight
  <2>4. QED BY <1>5, <2>3, SameBelow
<1> HIDE DEF R
<1>9. R.parent = [sym.parent EXCEPT ![i] = b] /\ \A w \in Values \ {i} : R.name[w] = sym.name[w]
  BY <1>5, <1>8
<1>10. Shaped(alive', insts', sym') /\ insts' \in [Blocks -> Seq(Insts)] /\ alive' \in SUBSET Values
  <2> DEFINE A == alive \cup {i}
             L == [insts EXCEPT ![b] = Append(@, i)]
  <2> HIDE DEF A
  <2>1. A = alive \cup {i}
    BY DEF A
  <2>2. Shaped(A, L, R) /\ L \in [Blocks -> Seq(Insts)] /\ A \in SUBSET Values
    <3>1. NamesKept(sym, R, i)
      BY <1>9 DEF NamesKept
    <3>2. QED BY <1>2, <1>3, <1>8, <1>9, <2>1, <3>1, InstLinked
  <2> HIDE DEF L
  <2>3. alive' = A /\ insts' = L /\ sym' = R
    BY <1>6, <2>1 DEF L
  <2>4. QED BY <2>2, <2>3
<1>11. Typed(alive', insts', sym')
  BY <1>6, <1>8, <1>10 DEF Typed, Bounded
<1>12. QED BY <1>6, <1>8, <1>10, <1>11, GoodNext DEF Good

(* An instruction enters a block with a name that is free.                 *)
LEMMA InsertInstGood ==
  ASSUME IInv, Careful, NEW i \in Insts, NEW b \in Blocks, InsertInst(i, b) PROVE IInv'
<1> DEFINE R == AddToSymbolTableList(sym, i, b)
<1>1. /\ Typed(alive, insts, sym) /\ Shaped(alive, insts, sym) /\ Tight(sym) /\ Linked(sym) /\ sym \in States
      /\ \A v \in Values : ListOf(sym, v)
  BY GoodNow
<1>2. i \in Values /\ i \notin Funcs /\ i \notin Blocks /\ b # Null /\ i \in alive /\ b \in alive /\ sym.parent[i] = Null
  BY Kinds DEF Values, InsertInst
<1>3. Fits(i, b) /\ (sym.parent[b] # Null => Free(sym, Group(sym, i), sym.parent[b]))
  <2>1. Group(sym, i) = {i}
    BY <1>2 DEF Group
  <2>2. NamesFree({i}, sym.parent[b])
    BY DEF InsertInst
  <2>3. QED BY <1>2, <2>1, <2>2 DEF Fits, Free, NamesFree
<1>4. /\ R \in States /\ Linked(R) /\ Tight(R) /\ R.parent = [sym.parent EXCEPT ![i] = b]
      /\ R.name = sym.name /\ R.last = sym.last
  <2> DEFINE t == IF i \in Insts THEN sym.parent[b] ELSE b
  <2>1. t = sym.parent[b]
    OBVIOUS
  <2>2. QED BY <1>1, <1>2, <1>3, <2>1, Attached
<1>5. alive' = alive /\ alive' = alive \cup {i} /\ insts' = [insts EXCEPT ![b] = Append(@, i)] /\ sym' = R
  BY <1>2 DEF InsertInst
<1> HIDE DEF R
<1>6. Shaped(alive', insts', sym') /\ insts' \in [Blocks -> Seq(Insts)] /\ alive' \in SUBSET Values
  <2>1. NamesKept(sym, R, i)
    BY <1>4 DEF NamesKept
  <2>2. QED BY <1>2, <1>4, <1>5, <2>1, InstLinked
<1>7. Typed(alive', insts', sym')
  BY <1>1, <1>4, <1>5, <1>6 DEF Typed
<1>8. QED BY <1>4, <1>5, <1>6, <1>7, GoodNext DEF Good

(* A name changes nothing but names.                                       *)
LEMMA NamingGood ==
  ASSUME IInv, Bounded, NEW v \in Values, NEW n \in Names, sym' = SetName(sym, v, n), insts' = insts,
         alive \subseteq alive', alive' \in SUBSET Values, v \in alive', alive' \cap Funcs = alive \cap Funcs
  PROVE  IInv'
<1> DEFINE R == SetName(sym, v, n)
<1>1. /\ Typed(alive, insts, sym) /\ Shaped(alive, insts, sym) /\ Tight(sym) /\ Linked(sym) /\ sym \in States
  BY GoodNow
<1>2. \A t \in Tables : R.last[t] <= MaxUnique[t]
  BY DEF Bounded
<1>3. sym' = R /\ R = SetName(sym, v, n)
  OBVIOUS
<1> HIDE DEF R
<1>4. /\ R \in States /\ R.parent = sym.parent /\ Tight(R)
      /\ \A w \in Values \ {v} : R.name[w] = sym.name[w]
  BY <1>1, <1>2, <1>3, NameSetTight
<1>5. Linked(R)
  BY <1>1, <1>4, SameBelow
<1>6. Typed(alive', insts', sym')
  BY <1>1, <1>2, <1>3, <1>4 DEF Typed
<1>7. Shaped(alive', insts', sym')
  <2>1. \A f \in Funcs : sym'.parent[f] = IF f \in alive' THEN Module ELSE Null
    BY <1>1, <1>3, <1>4 DEF Shaped
  <2>2. \A w \in Blocks \cup Insts : sym'.parent[w] # Null => w \in alive' /\ sym'.parent[w] \in alive'
    BY <1>1, <1>3, <1>4 DEF Shaped
  <2>3. \A w \in Values \ alive' : sym'.name[w] = NoName
    BY <1>1, <1>3, <1>4 DEF Shaped
  <2>4. \A b \in Blocks : Distinct(insts'[b]) /\ Elems(insts'[b]) = {i \in Insts : sym'.parent[i] = b}
    BY <1>1, <1>3, <1>4 DEF Shaped
  <2>5. QED BY <1>3, <1>5, <2>1, <2>2, <2>3, <2>4 DEF Shaped
<1>8. QED BY <1>3, <1>4, <1>6, <1>7, GoodNext DEF Good

(* An instruction is named in no block.                                    *)
LEMMA CreateDetachedGood ==
  ASSUME IInv, Bounded, NEW i \in Insts, NEW n \in Wanted[i], CreateDetached(i, n) PROVE IInv'
<1>1. i \in Values /\ i \notin Funcs /\ alive \in SUBSET Values
  BY GoodNow, Kinds DEF Values, Typed
<1>2. n \in Names
  BY <1>1, SymbolAssumption DEF Names
<1>3. alive' = alive \cup {i} /\ insts' = insts /\ sym' = SetName(sym, i, n)
  BY DEF CreateDetached, New
<1>4. alive \subseteq alive' /\ alive' \in SUBSET Values /\ i \in alive' /\ alive' \cap Funcs = alive \cap Funcs
  BY <1>1, <1>3
<1>5. QED BY <1>1, <1>2, <1>3, <1>4, NamingGood

(* A value is named.                                                       *)
LEMMA NameGood ==
  ASSUME IInv, Bounded, NEW v \in Values, NEW n \in Wanted[v], Name(v, n) PROVE IInv'
<1>1. alive \in SUBSET Values
  BY GoodNow DEF Typed
<1>2. n \in Names
  BY SymbolAssumption DEF Names
<1>3. alive' = alive /\ insts' = insts /\ sym' = SetName(sym, v, n) /\ v \in alive
  BY DEF Name
<1>4. QED BY <1>1, <1>2, <1>3, NamingGood

(* An instruction leaves its block.                                        *)
LEMMA RemoveInstGood ==
  ASSUME IInv, NEW i \in Insts, RemoveInst(i) PROVE IInv'
<1> DEFINE R == RemoveFromSymbolTableList(sym, i)
           b == sym.parent[i]
<1>1. /\ Typed(alive, insts, sym) /\ Shaped(alive, insts, sym) /\ Tight(sym) /\ Linked(sym) /\ sym \in States
      /\ \A v \in Values : ListOf(sym, v)
  BY GoodNow
<1>2. i \in Values /\ i \notin Funcs /\ i \notin Blocks /\ Null \notin Blocks
  BY Kinds DEF Values
<1>3. b \in Blocks
  BY <1>1 DEF RemoveInst, Linked
<1>4. /\ R \in States /\ Linked(R) /\ Tight(R) /\ R.parent = [sym.parent EXCEPT ![i] = Null]
      /\ R.name = sym.name /\ R.last = sym.last
  BY <1>1, <1>2, Unlinked
<1>5. alive' = alive /\ insts' = [insts EXCEPT ![b] = RemoveFirst(@, i)] /\ sym' = R
  BY DEF RemoveInst
<1> HIDE DEF R
<1>6. RemoveFirst(insts[b], i) \in Seq(Insts) /\ Distinct(RemoveFirst(insts[b], i))
      /\ Elems(RemoveFirst(insts[b], i)) = Elems(insts[b]) \ {i}
  <2>1. insts[b] \in Seq(Insts) /\ Distinct(insts[b])
    BY <1>1, <1>3 DEF Typed, Shaped
  <2> HIDE DEF b
  <2>2. QED BY <2>1, ShortenedList
<1>7. insts' \in [Blocks -> Seq(Insts)] /\ insts'[b] = RemoveFirst(insts[b], i) /\ \A a \in Blocks \ {b} : insts'[a] = insts[a]
  BY <1>1, <1>3, <1>5, <1>6 DEF Typed
<1>8. Typed(alive', insts', sym')
  BY <1>1, <1>4, <1>5, <1>7 DEF Typed
<1>9. sym'.parent[i] = Null /\ \A v \in Values \ {i} : sym'.parent[v] = sym.parent[v]
  BY <1>1, <1>2, <1>4, <1>5 DEF States
<1>10. Shaped(alive', insts', sym')
  <2>1. \A f \in Funcs : sym'.parent[f] = IF f \in alive' THEN Module ELSE Null
    BY <1>1, <1>2, <1>5, <1>9 DEF Shaped, Values
  <2>2. \A v \in Blocks \cup Insts : sym'.parent[v] # Null => v \in alive' /\ sym'.parent[v] \in alive'
    BY <1>1, <1>5, <1>9 DEF Shaped, Values
  <2>3. \A v \in Values \ alive' : sym'.name[v] = NoName
    BY <1>1, <1>4, <1>5 DEF Shaped
  <2>4. ASSUME NEW a \in Blocks PROVE Distinct(insts'[a]) /\ Elems(insts'[a]) = {j \in Insts : sym'.parent[j] = a}
    <3>1. Distinct(insts[a]) /\ Elems(insts[a]) = {j \in Insts : sym.parent[j] = a}
      BY <1>1 DEF Shaped
    <3>2. \A j \in Insts : sym'.parent[j] = IF j = i THEN Null ELSE sym.parent[j]
      BY <1>9 DEF Values
    <3>3. a # Null
      BY <1>2
    <3>4. CASE a = b
      <4>1. {j \in Insts : sym.parent[j] = a} \ {i} = {j \in Insts : sym'.parent[j] = a}
        BY ONLY <3>2, <3>3
      <4> HIDE DEF b
      <4>2. QED BY <1>6, <1>7, <3>1, <3>4, <4>1
    <3>5. CASE a # b
      <4>1. {j \in Insts : sym.parent[j] = a} = {j \in Insts : sym'.parent[j] = a}
        BY ONLY <3>2, <3>3, <3>5 DEF b
      <4>2. QED BY <1>7, <3>1, <3>5, <4>1
    <3>6. QED BY <3>4, <3>5
  <2>5. QED BY <1>4, <1>5, <2>1, <2>2, <2>3, <2>4 DEF Shaped
<1>11. QED BY <1>4, <1>5, <1>8, <1>10, GoodNext DEF Good

(* A block changes its function, and nothing else does.                    *)
LEMMA BlockMoved ==
  ASSUME IInv, NEW b \in Blocks, b \in alive, NEW f, f = Null \/ f \in alive, NEW R \in States, Linked(R), Tight(R),
         R.parent = [sym.parent EXCEPT ![b] = f], R.name = sym.name, R.last = sym.last
  PROVE  Good(alive, insts, R)
<1>1. Typed(alive, insts, sym) /\ Shaped(alive, insts, sym) /\ sym \in States
  BY GoodNow
<1>2. b \in Values /\ b \notin Funcs /\ b \notin Insts
  BY Kinds DEF Values
<1>3. R.parent[b] = f /\ \A v \in Values \ {b} : R.parent[v] = sym.parent[v]
  BY <1>1, <1>2 DEF States
<1>4. \A g \in Funcs : R.parent[g] = IF g \in alive THEN Module ELSE Null
  BY <1>1, <1>2, <1>3 DEF Shaped, Values
<1>5. \A v \in Blocks \cup Insts : R.parent[v] # Null => v \in alive /\ R.parent[v] \in alive
  BY <1>1, <1>3 DEF Shaped, Values
<1>6. \A i \in Insts : R.parent[i] = sym.parent[i]
  BY <1>2, <1>3 DEF Values
<1>7. \A a \in Blocks : Distinct(insts[a]) /\ Elems(insts[a]) = {i \in Insts : R.parent[i] = a}
  BY <1>1, <1>6 DEF Shaped
<1>8. Shaped(alive, insts, R)
  BY <1>1, <1>4, <1>5, <1>7 DEF Shaped
<1>9. Typed(alive, insts, R)
  BY <1>1 DEF Typed
<1>10. QED BY <1>8, <1>9 DEF Good

(* A block leaves its function.                                            *)
LEMMA RemoveBlockGood ==
  ASSUME IInv, NEW b \in Blocks, RemoveBlock(b) PROVE IInv'
<1> DEFINE R == RemoveFromSymbolTableList(sym, b)
<1>1. /\ Tight(sym) /\ Linked(sym) /\ sym \in States /\ ListOf(sym, b) /\ b \in Values
  BY GoodNow DEF Values
<1>2. alive' = alive /\ insts' = insts /\ sym' = R /\ b \in alive
  BY DEF RemoveBlock
<1>3. /\ R \in States /\ Linked(R) /\ Tight(R) /\ R.parent = [sym.parent EXCEPT ![b] = Null]
      /\ R.name = sym.name /\ R.last = sym.last
  BY <1>1, Unlinked
<1> HIDE DEF R
<1>4. Good(alive, insts, R)
  BY <1>2, <1>3, BlockMoved
<1>5. QED BY <1>2, <1>4, GoodNext

(* A block enters a function with names that are free.                     *)
LEMMA InsertBlockGood ==
  ASSUME IInv, Careful, NEW b \in Blocks, NEW f \in Funcs, InsertBlock(b, f) PROVE IInv'
<1> DEFINE R == AddToSymbolTableList(sym, b, f)
<1>1. /\ Tight(sym) /\ Linked(sym) /\ sym \in States /\ ListOf(sym, b) /\ b \in Values
  BY GoodNow DEF Values
<1>2. alive' = alive /\ insts' = insts /\ sym' = R /\ b \in alive /\ f \in alive /\ sym.parent[b] = Null
  BY DEF InsertBlock
<1>3. b \notin Insts /\ b \notin Funcs /\ f # Null
  BY <1>1, Kinds
<1>4. Fits(b, f) /\ Free(sym, Group(sym, b), f)
  <2>1. Group(sym, b) = {b} \cup Elems(insts[b])
    BY <1>1 DEF Group, ListOf
  <2>2. NamesFree({b} \cup Elems(insts[b]), f)
    BY DEF InsertBlock
  <2>3. Free(sym, {b} \cup Elems(insts[b]), f)
    <3> DEFINE V == {b} \cup Elems(insts[b])
    <3>1. NamesFree(V, f)
      BY <2>2
    <3> HIDE DEF V
    <3>2. ASSUME NEW v \in V, HasName(sym, v)
          PROVE  sym.name[v] \notin Taken(sym, f) /\ \A w \in V : sym.name[w] = sym.name[v] => w = v
      BY <1>3, <3>1, <3>2 DEF NamesFree, HasName
    <3>3. Free(sym, V, f)
      BY <3>2 DEF Free
    <3>4. QED BY <3>3 DEF V
  <2>4. QED BY <1>3, <2>1, <2>3 DEF Fits
<1>5. /\ R \in States /\ Linked(R) /\ Tight(R) /\ R.parent = [sym.parent EXCEPT ![b] = f]
      /\ R.name = sym.name /\ R.last = sym.last
  <2> DEFINE t == IF b \in Insts THEN sym.parent[f] ELSE f
  <2>1. t = f
    BY <1>3
  <2>2. QED BY <1>1, <1>2, <1>3, <1>4, <2>1, Attached
<1> HIDE DEF R
<1>6. Good(alive, insts, R)
  BY <1>2, <1>5, BlockMoved
<1>7. QED BY <1>2, <1>6, GoodNext

-----------------------------------------------------------------------------
(***************************************************************************)
(* What is destroyed takes what is below it along.                         *)
(***************************************************************************)
LEMMA WithoutGood ==
  ASSUME IInv, NEW V \in SUBSET Values, NEW R, Without(sym, R, V),
         \A v \in Blocks \cup Insts : sym.parent[v] \in V => v \in V,
         NEW L \in [Blocks -> Seq(Insts)],
         \A b \in Blocks : Distinct(L[b]) /\ Elems(L[b]) = IF b \in V THEN {} ELSE Elems(insts[b]) \ V
  PROVE  Good(alive \ V, L, R)
<1>1. /\ Typed(alive, insts, sym) /\ Shaped(alive, insts, sym)
  BY GoodNow
<1>2. /\ R \in States /\ R.last = sym.last /\ Linked(R) /\ Tight(R)
      /\ \A v \in Values : /\ R.parent[v] = IF v \in V THEN Null ELSE sym.parent[v]
                           /\ R.name[v] = IF v \in V THEN NoName ELSE sym.name[v]
  BY DEF Without
<1>3. Module # Null /\ Null \notin Blocks
  BY SymbolAssumption
<1>4. \A f \in Funcs : R.parent[f] = IF f \in alive \ V THEN Module ELSE Null
  BY <1>1, <1>2 DEF Shaped, Values
<1>5. \A v \in Blocks \cup Insts : R.parent[v] # Null => v \in alive \ V /\ R.parent[v] \in alive \ V
  BY <1>1, <1>2 DEF Shaped, Values
<1>6. \A v \in Values \ (alive \ V) : R.name[v] = NoName
  BY <1>1, <1>2 DEF Shaped
<1>7. ASSUME NEW b \in Blocks PROVE Distinct(L[b]) /\ Elems(L[b]) = {i \in Insts : R.parent[i] = b}
  <2>1. Elems(insts[b]) = {i \in Insts : sym.parent[i] = b} /\ b # Null
    BY <1>1, <1>3 DEF Shaped
  <2>2. \A i \in Insts : R.parent[i] = IF i \in V THEN Null ELSE sym.parent[i]
    BY <1>2 DEF Values
  <2>3. \A i \in Insts : sym.parent[i] \in V => i \in V
    OBVIOUS
  <2>4. CASE b \in V
    <3>1. {i \in Insts : R.parent[i] = b} = {}
      BY ONLY <2>1, <2>2, <2>3, <2>4
    <3>2. QED BY <2>4, <3>1
  <2>5. CASE b \notin V
    <3>1. {i \in Insts : sym.parent[i] = b} \ V = {i \in Insts : R.parent[i] = b}
      BY ONLY <2>1, <2>2
    <3>2. QED BY <2>1, <2>5, <3>1
  <2>6. QED BY <2>4, <2>5
<1>8. Shaped(alive \ V, L, R)
  BY <1>2, <1>4, <1>5, <1>6, <1>7 DEF Shaped
<1>9. Typed(alive \ V, L, R)
  BY <1>1, <1>2 DEF Typed
<1>10. QED BY <1>2, <1>8, <1>9 DEF Good

(* An instruction is destroyed.                                            *)
LEMMA DestroyInstGood ==
  ASSUME IInv, NEW i \in Insts, DestroyInst(i) PROVE IInv'
<1> DEFINE R == Destroy(sym, i)
           L == [b \in Blocks |-> RemoveFirst(insts[b], i)]
           V == {i}
<1>1. /\ Tight(sym) /\ Linked(sym) /\ sym \in States /\ ListOf(sym, i) /\ i \in Values
      /\ Shaped(alive, insts, sym) /\ Typed(alive, insts, sym)
  BY GoodNow DEF Values
<1>2. alive' = alive \ V /\ insts' = L /\ sym' = R
  BY DEF DestroyInst
<1>3. Without(sym, R, V)
  BY <1>1, Destroyed
<1>4. i \notin Blocks /\ i \notin Funcs /\ i # Module /\ i # Null
  BY SymbolAssumption
<1>5. \A v \in Blocks \cup Insts : sym.parent[v] \in V => v \in V
  BY <1>1, <1>4 DEF Linked
<1>6. \A b \in Blocks : insts[b] \in Seq(Insts) /\ Distinct(insts[b])
  BY <1>1 DEF Typed, Shaped
<1>7. \A b \in Blocks : L[b] \in Seq(Insts) /\ Distinct(L[b]) /\ Elems(L[b]) = Elems(insts[b]) \ V
  <2> SUFFICES ASSUME NEW b \in Blocks PROVE L[b] \in Seq(Insts) /\ Distinct(L[b]) /\ Elems(L[b]) = Elems(insts[b]) \ V
    OBVIOUS
  <2> DEFINE s == insts[b]
  <2>1. L[b] = RemoveFirst(s, i) /\ s \in Seq(Insts) /\ Distinct(s)
    BY <1>6
  <2> HIDE DEF s, L
  <2>2. RemoveFirst(s, i) \in Seq(Insts) /\ Distinct(RemoveFirst(s, i)) /\ Elems(RemoveFirst(s, i)) = Elems(s) \ {i}
    BY <2>1, ShortenedList
  <2>3. QED BY <2>1, <2>2 DEF s
<1>8. L \in [Blocks -> Seq(Insts)]
  <2>1. L = [b \in Blocks |-> L[b]]
    OBVIOUS
  <2> HIDE DEF L
  <2>2. QED BY <1>7, <2>1
<1>9. \A b \in Blocks : Distinct(L[b]) /\ Elems(L[b]) = IF b \in V THEN {} ELSE Elems(insts[b]) \ V
  <2>1. \A b \in Blocks : b \notin V
    BY <1>4
  <2> HIDE DEF L, V
  <2>2. QED BY <1>7, <2>1
<1>10. V \in SUBSET Values
  BY <1>1
<1> HIDE DEF L, R, V
<1>11. Good(alive \ V, L, R)
  BY <1>3, <1>5, <1>8, <1>9, <1>10, WithoutGood
<1>12. QED BY <1>2, <1>11, GoodNext

(* L has the lists of the blocks without the values of V.                  *)
Emptied(L, V) ==
  /\ L \in [Blocks -> Seq(Insts)]
  /\ \A b \in Blocks : Distinct(L[b]) /\ Elems(L[b]) = IF b \in V THEN {} ELSE Elems(insts[b]) \ V

(* The lists of the blocks of V are emptied.                               *)
LEMMA ListsEmptied ==
  ASSUME IInv, NEW V, \A b \in Blocks \ V : Elems(insts[b]) \cap V = {},
         NEW L, L = [b \in Blocks |-> IF b \in V THEN <<>> ELSE insts[b]]
  PROVE  Emptied(L, V)
<1>1. insts \in [Blocks -> Seq(Insts)] /\ \A b \in Blocks : Distinct(insts[b])
  BY GoodNow DEF Typed, Shaped
<1>2. <<>> \in Seq(Insts) /\ Distinct(<<>>) /\ Elems(<<>>) = {}
  BY DEF Distinct, Elems
<1>3. QED BY <1>1, <1>2 DEF Emptied

(* A block is destroyed with its instructions.                             *)
LEMMA DestroyBlockGood ==
  ASSUME IInv, NEW b \in Blocks, DestroyBlock(b) PROVE IInv'
<1> DEFINE R == DestroyBlockIn(sym, b)
           V == Group(sym, b)
           L == [a \in Blocks |-> IF a \in V THEN <<>> ELSE insts[a]]
<1>1. /\ Tight(sym) /\ Linked(sym) /\ sym \in States /\ ListOf(sym, b) /\ b \in Values
      /\ Shaped(alive, insts, sym) /\ Typed(alive, insts, sym)
  BY GoodNow DEF Values
<1>2. b \notin Insts /\ b \notin Funcs /\ b # Null /\ b # Module
  BY SymbolAssumption
<1>3. V = {b} \cup Elems(insts[b]) /\ V = {b} \cup {i \in Insts : sym.parent[i] = b}
  BY <1>1 DEF Group, ListOf
<1>4. \A a \in Blocks : a \in V <=> a = b
  BY <1>3, SymbolAssumption
<1>5. Without(sym, R, V)
  BY <1>1, BlockDestroyed
<1>6. \A v \in Blocks \cup Insts : sym.parent[v] \in V => v \in V
  <2>1. ASSUME NEW v \in Blocks \cup Insts, sym.parent[v] \in V PROVE v \in V
    <3>1. sym.parent[v] \notin Insts
      BY <1>1, SymbolAssumption DEF Linked
    <3>2. sym.parent[v] = b
      BY <1>3, <2>1, <3>1
    <3>3. v \notin Blocks
      BY <1>1, <1>2, <3>2 DEF Linked
    <3>4. QED BY <1>3, <3>2, <3>3
  <2>2. QED BY <2>1
<1>7. \A a \in Blocks \ V : Elems(insts[a]) \cap V = {}
  <2>1. \A a \in Blocks : Elems(insts[a]) = {i \in Insts : sym.parent[i] = a}
    BY <1>1 DEF Shaped
  <2>2. QED BY <1>2, <1>3, <1>4, <2>1
<1>8. alive' = alive \ V /\ insts' = L /\ sym' = R
  <2>1. insts' = [insts EXCEPT ![b] = <<>>] /\ alive' = alive \ V /\ sym' = R
    BY <1>3 DEF DestroyBlock
  <2>2. insts' = [a \in Blocks |-> IF a = b THEN <<>> ELSE insts[a]]
    BY <1>1, <2>1 DEF Typed
  <2> HIDE DEF V, R
  <2>3. QED BY <1>4, <2>1, <2>2
<1>9. V \in SUBSET Values
  BY <1>3 DEF Values
<1> HIDE DEF V, R, L
<1>10. L = [a \in Blocks |-> IF a \in V THEN <<>> ELSE insts[a]]
  BY DEF L
<1>11. Emptied(L, V)
  BY ONLY IInv, <1>7, <1>10, ListsEmptied
<1>12. Good(alive \ V, L, R)
  BY <1>5, <1>6, <1>9, <1>11, WithoutGood DEF Emptied
<1>13. QED BY <1>8, <1>12, GoodNext

(* The sequence of the elements of a set.                                  *)
LEMMA InSequence ==
  ASSUME NEW B \in SUBSET Blocks
  PROVE  SetToSeq(B) \in Seq(Blocks) /\ Distinct(SetToSeq(B)) /\ Elems(SetToSeq(B)) = B
<1> DEFINE n == Cardinality(B)
           s == SetToSeq(B)
<1>1. IsFiniteSet(B)
  BY SymbolAssumption, FS_Subset
<1>2. n \in Nat /\ ExistsBijection(1 .. n, B)
  BY <1>1, FS_CardinalityType
<1> HIDE DEF n
<1>3. \E f \in [1 .. n -> B] : IsInjective(f)
  BY <1>2 DEF ExistsBijection, Bijection, Injection
<1>4. s \in [1 .. n -> B] /\ IsInjective(s)
  BY <1>3 DEF SetToSeq, n
<1> HIDE DEF s
<1>5. s \in Injection(1 .. n, B)
  BY <1>4 DEF Injection
<1>6. IsFiniteSet(1 .. n) /\ Cardinality(1 .. n) = n
  BY <1>2, FS_Interval
<1>7. s \in Surjection(1 .. n, B)
  BY <1>1, <1>5, <1>6, FS_Injection DEF n
<1>8. DOMAIN s = 1 .. n /\ s \in Seq(Blocks)
  BY <1>2, <1>4
<1>9. Distinct(s)
  BY <1>4 DEF IsInjective, Distinct
<1>10. Elems(s) = B
  BY <1>4, <1>7, <1>8 DEF Surjection, Elems
<1>11. QED BY <1>8, <1>9, <1>10 DEF s

(* A function is destroyed with its blocks and their instructions.         *)
LEMMA DestroyFunctionGood ==
  ASSUME IInv, NEW f \in Funcs, DestroyFunction(f) PROVE IInv'
<1> DEFINE B == {b \in Blocks : sym.parent[b] = f}
           P == Destroy(sym, f)
           s == SetToSeq(B)
           Q == DestroyBlocks(P, s)
           R == [Q EXCEPT !.last[f] = 0]
           V == {f} \cup (B \cup {i \in Insts : sym.parent[i] \in B})
           L == [a \in Blocks |-> IF a \in V THEN <<>> ELSE insts[a]]
<1>1. /\ Tight(sym) /\ Linked(sym) /\ sym \in States /\ (\A v \in Values : ListOf(sym, v)) /\ f \in Values
      /\ Shaped(alive, insts, sym) /\ Typed(alive, insts, sym)
  BY GoodNow DEF Values
<1>2. f \notin Insts /\ f \notin Blocks /\ f # Null /\ f # Module
  BY SymbolAssumption
<1>3. Without(sym, P, {f})
  BY <1>1, Destroyed
<1>4. s \in Seq(Blocks) /\ Distinct(s) /\ Elems(s) = B
  BY InSequence
<1>5. \A v \in Blocks \cup Insts : sym.parent[v] = P.parent[v]
  <2> HIDE DEF P
  <2>1. QED BY <1>2, <1>3 DEF Without, Values
<1>6. \A b \in Blocks : ListOf(P, b)
  <2> HIDE DEF P
  <2>1. ASSUME NEW b \in Blocks PROVE ListOf(P, b)
    <3>1. ListOf(sym, b)
      BY <1>1 DEF Values
    <3>2. {i \in Insts : P.parent[i] = b} = {i \in Insts : sym.parent[i] = b}
      BY <1>5
    <3>3. QED BY <3>1, <3>2 DEF ListOf
  <2>2. QED BY <2>1
<1>7. Without(P, Q, B \cup {i \in Insts : P.parent[i] \in B})
  <2> DEFINE T == DestroyBlocks(P, s)
  <2> HIDE DEF P, s, B
  <2>1. Without(P, T, Elems(s) \cup {i \in Insts : P.parent[i] \in Elems(s)})
    BY <1>3, <1>4, <1>6, BlocksDestroyed DEF Without
  <2> HIDE DEF T
  <2>2. QED BY <1>4, <2>1 DEF T
<1>8. Without(sym, Q, V)
  <2> HIDE DEF P, Q, B
  <2>1. {i \in Insts : P.parent[i] \in B} = {i \in Insts : sym.parent[i] \in B}
    BY <1>5
  <2>2. QED BY <1>3, <1>7, <2>1, WithoutTwice
<1>9. \A a \in Blocks : a \in V <=> a \in B
  BY <1>2, SymbolAssumption
<1>10. \A v \in Blocks \cup Insts : sym.parent[v] \in V => v \in V
  <2>1. ASSUME NEW v \in Blocks \cup Insts, sym.parent[v] \in V PROVE v \in V
    <3>1. sym.parent[v] \notin Insts
      BY <1>1, SymbolAssumption DEF Linked
    <3>2. sym.parent[v] = f \/ sym.parent[v] \in B
      BY <2>1, <3>1
    <3>3. v \in Insts => sym.parent[v] # f
      BY <1>1, <1>2 DEF Linked
    <3>4. v \in Blocks => sym.parent[v] \notin B
      BY <1>1, SymbolAssumption DEF Linked
    <3>5. QED BY <3>2, <3>3, <3>4
  <2>2. QED BY <2>1
<1>11. \A a \in Blocks : Elems(insts[a]) = {i \in Insts : sym.parent[i] = a}
  BY <1>1 DEF Shaped
<1>12. \A a \in Blocks \ V : Elems(insts[a]) \cap V = {}
  <2> SUFFICES ASSUME NEW a \in Blocks \ V, NEW i \in Elems(insts[a]), i \in V PROVE FALSE
    OBVIOUS
  <2>1. i \in Insts /\ sym.parent[i] = a
    BY <1>11
  <2>2. QED BY <1>2, <1>9, <2>1, SymbolAssumption
<1>13. alive' = alive \ V /\ insts' = L /\ sym' = R
  <2>1. UNION {Elems(insts[b]) : b \in B} = {i \in Insts : sym.parent[i] \in B}
    BY <1>11
  <2>2. /\ alive' = alive \ ({f} \cup B \cup UNION {Elems(insts[b]) : b \in B})
        /\ insts' = [b \in Blocks |-> IF b \in B THEN <<>> ELSE insts[b]]
        /\ sym' = R
    BY DEF DestroyFunction
  <2> HIDE DEF R, B
  <2>3. alive' = alive \ V
    BY <2>1, <2>2
  <2> HIDE DEF V
  <2>4. QED BY <1>9, <2>2, <2>3
<1>14. V \in SUBSET Values
  BY DEF Values
<1> HIDE DEF B, P, s, V, L, Q, R
<1>15. L = [a \in Blocks |-> IF a \in V THEN <<>> ELSE insts[a]]
  BY DEF L
<1>16. Emptied(L, V)
  BY ONLY IInv, <1>12, <1>15, ListsEmptied
<1>17. Good(alive \ V, L, Q)
  BY <1>8, <1>10, <1>14, <1>16, WithoutGood DEF Emptied
<1>18. Q \in States /\ Linked(Q) /\ Tight(Q) /\ f \in Tables
  BY <1>8 DEF Without, Tables
<1>19. R \in States /\ R.last = [Q.last EXCEPT ![f] = 0] /\ R.parent = Q.parent /\ R.name = Q.name /\ R.vmap = Q.vmap
  BY <1>18, LastSet DEF R
<1>20. Tight(R) /\ Linked(R)
  <2>1. Linked(R) /\ \A t : Below(R, t) = Below(Q, t)
    BY <1>18, <1>19, SameBelow
  <2>2. ASSUME NEW t \in Tables PROVE Exact(R, t, Below(R, t))
    <3>1. Exact(Q, t, Below(Q, t))
      BY <1>18 DEF Tight
    <3>2. Exact(R, t, Below(Q, t))
      BY <1>19, <3>1, ExactSame
    <3>3. QED BY <2>1, <3>2
  <2>3. QED BY <2>1, <2>2 DEF Tight
<1>21. Typed(alive \ V, L, R)
  <2>1. \A t \in Tables : R.last[t] <= MaxUnique[t]
    <3>1. \A t \in Tables : Q.last[t] <= MaxUnique[t] /\ MaxUnique[t] \in 0 .. 9
      BY <1>17, SymbolAssumption DEF Good, Typed
    <3>2. \A t \in Tables : R.last[t] = IF t = f THEN 0 ELSE Q.last[t]
      BY <1>18, <1>19 DEF States
    <3>3. QED BY <3>1, <3>2
  <2>2. QED BY <1>17, <1>19, <2>1 DEF Good, Typed
<1>22. Shaped(alive \ V, L, R)
  BY <1>17, <1>19, <1>20 DEF Good, Shaped
<1>23. Good(alive \ V, L, R)
  BY <1>20, <1>21, <1>22 DEF Good
<1>24. QED BY <1>13, <1>23, GoodNext

-----------------------------------------------------------------------------
(***************************************************************************)
(* The invariant holds where clients see to it that inserted names are     *)
(* free.                                                                   *)
(***************************************************************************)
LEMMA GoodAtStart == Init => IInv
<1> SUFFICES ASSUME Init PROVE IInv
  OBVIOUS
<1> USE DEF Init
<1>1. <<>> \in Seq(Insts) /\ Distinct(<<>>) /\ Elems(<<>>) = {}
  BY DEF Distinct, Elems
<1>2. sym \in States
  <2>1. [v \in Values |-> Null] \in [Values -> Parents] /\ [v \in Values |-> NoName] \in [Values -> Names]
        /\ [t \in Tables |-> 0] \in [Tables -> Nat]
    BY DEF Parents, Names, NoName
  <2>2. <<>> \in Maps
    <3>1. <<>> \in [{} -> Values] /\ {} \in SUBSET Names
      OBVIOUS
    <3>2. QED BY <3>1 DEF Maps
  <2>3. [t \in Tables |-> <<>>] \in [Tables -> Maps]
    BY <2>2
  <2>4. QED BY <2>1, <2>3 DEF States
<1>3. \A v \in Values : sym.parent[v] = Null /\ sym.name[v] = NoName
  OBVIOUS
<1>4. Typed(alive, insts, sym)
  <2>1. insts \in [Blocks -> Seq(Insts)]
    BY <1>1
  <2>2. \A t \in Tables : sym.last[t] <= MaxUnique[t]
    BY SymbolAssumption
  <2>3. QED BY <1>2, <2>1, <2>2 DEF Typed
<1>5. Linked(sym)
  BY <1>3 DEF Linked, Values
<1>6. Shaped(alive, insts, sym)
  <2>1. \A b \in Blocks : b # Null /\ insts[b] = <<>>
    BY SymbolAssumption
  <2>2. QED BY <1>1, <1>3, <1>5, <2>1 DEF Shaped, Values
<1>7. Tight(sym)
  <2>1. ASSUME NEW t \in Tables PROVE Exact(sym, t, Below(sym, t))
    <3>1. Taken(sym, t) = {}
      BY DEF Taken
    <3>2. \A v \in Values : ~ HasName(sym, v)
      BY <1>3 DEF HasName
    <3>3. QED BY <3>1, <3>2 DEF Exact, Below
  <2>2. QED BY <2>1 DEF Tight
<1>8. QED BY <1>4, <1>6, <1>7 DEF IInv, Good

(* Every step keeps the invariant.                                         *)
LEMMA GoodKept ==
  ASSUME Careful, IInv, [Next]_vars PROVE IInv'
<1>1. CASE UNCHANGED vars
  BY <1>1 DEF vars, IInv
<1>2. CASE Next
  <2>1. Bounded
    BY <1>2 DEF Next, Bounded
  <2>2. CASE \E f \in Funcs : CreateFunction(f) \/ DestroyFunction(f)
    BY <2>1, <2>2, CreateFunctionGood, DestroyFunctionGood
  <2>3. CASE \E b \in Blocks, f \in Funcs : InsertBlock(b, f) \/ \E n \in Wanted[b] : CreateBlock(b, f, n)
    BY <2>1, <2>3, InsertBlockGood, CreateBlockGood
  <2>4. CASE \E i \in Insts, b \in Blocks : InsertInst(i, b) \/ \E n \in Wanted[i] : CreateInst(i, b, n)
    BY <2>1, <2>4, InsertInstGood, CreateInstGood
  <2>5. CASE \E i \in Insts : RemoveInst(i) \/ DestroyInst(i)
    BY <2>5, RemoveInstGood, DestroyInstGood
  <2>6. CASE \E b \in Blocks : RemoveBlock(b) \/ DestroyBlock(b)
    BY <2>6, RemoveBlockGood, DestroyBlockGood
  <2>7. CASE \E i \in Insts : \E n \in Wanted[i] : CreateDetached(i, n)
    BY <2>1, <2>7, CreateDetachedGood
  <2>8. CASE \E v \in Values : \E n \in Wanted[v] : Name(v, n)
    BY <2>1, <2>8, NameGood
  <2>9. QED BY <1>2, <2>2, <2>3, <2>4, <2>5, <2>6, <2>7, <2>8 DEF Next
<1>3. QED BY <1>1, <1>2

(* What is linked below an owner exists.                                   *)
LEMMA InTableIsBelow ==
  ASSUME IInv, NEW t \in Tables PROVE InTable(t) = Below(sym, t)
<1>1. /\ Linked(sym) /\ Shaped(alive, insts, sym) /\ alive \in SUBSET Values
  BY GoodNow DEF Typed
<1>2. ASSUME NEW v \in Values, TableOf(sym, v) = t PROVE v \in alive
  <2>1. t # Null /\ t \notin Insts
    BY SymbolAssumption DEF Tables
  <2>2. sym.parent[v] # Null
    BY <1>2, <2>1 DEF TableOf
  <2>3. CASE v \in Funcs
    BY <1>1, <2>2, <2>3 DEF Shaped
  <2>4. CASE v \in Blocks \cup Insts
    BY <1>1, <2>2, <2>4 DEF Shaped
  <2>5. QED BY <2>3, <2>4 DEF Values
<1>3. QED BY <1>1, <1>2 DEF InTable, Below

(* The invariant implies the properties.                                   *)
LEMMA GoodEnough == ASSUME IInv PROVE TablesInStep /\ NoValuesRemain
<1>1. /\ Linked(sym) /\ Shaped(alive, insts, sym) /\ Tight(sym) /\ sym \in States /\ Typed(alive, insts, sym)
  BY GoodNow
<1>2. ASSUME NEW t \in Tables
      PROVE  LET named == {v \in InTable(t) : HasName(sym, v)}
             IN  /\ Taken(sym, t) = {sym.name[v] : v \in named}
                 /\ \A v \in named : sym.vmap[t][sym.name[v]] = v
  <2>1. Exact(sym, t, InTable(t))
    BY <1>1, InTableIsBelow DEF Tight
  <2>2. QED BY <2>1 DEF Exact
<1>3. ASSUME NEW t \in Tables
      PROVE  /\ sym.last[t] \in 0 .. MaxUnique[t] /\ NoName \notin Taken(sym, t)
             /\ \A n \in Taken(sym, t) : sym.vmap[t][n] \in Values
  <2>1. Exact(sym, t, Below(sym, t))
    BY <1>1 DEF Tight
  <2>2. NoName \notin Taken(sym, t)
    BY <2>1 DEF Exact, HasName
  <2>3. sym.last[t] \in Nat /\ sym.last[t] <= MaxUnique[t] /\ MaxUnique[t] \in 0 .. 9
    BY <1>1, SymbolAssumption DEF Typed, States
  <2>4. PICK E \in SUBSET Names : sym.vmap[t] \in [E -> Values]
    BY <1>1, TableIs
  <2>5. QED BY <2>2, <2>3, <2>4 DEF Taken
<1>4. \A b \in Blocks : Elems(insts[b]) \subseteq Insts
  BY <1>1 DEF Shaped
<1>5. TypeOK
  BY <1>1, <1>3, <1>4 DEF TypeOK, Typed, Linked
<1>6. TablesInStep
  BY <1>2, <1>5 DEF TablesInStep
<1>7. NoValuesRemain
  <2>1. ASSUME NEW f \in Funcs \ alive PROVE Taken(sym, f) = {}
    <3>1. f \in Tables
      BY DEF Tables
    <3>2. ASSUME NEW v \in InTable(f) PROVE FALSE
      <4>1. v \in alive /\ v \in Values /\ TableOf(sym, v) = f
        BY <1>1, <3>2 DEF InTable, Typed
      <4>2. f # Null /\ f # Module
        BY SymbolAssumption
      <4>3. \A w \in Values : sym.parent[w] # f
        BY <1>1, <2>1, <4>2, SymbolAssumption DEF Shaped, Linked, Values
      <4>4. CASE v \in Insts /\ sym.parent[v] # Null
        <5>1. sym.parent[v] \in Values
          BY <1>1, <4>4 DEF Linked, Values
        <5>2. QED BY <4>1, <4>3, <4>4, <5>1 DEF TableOf
      <4>5. CASE ~ (v \in Insts /\ sym.parent[v] # Null)
        BY <4>1, <4>3, <4>5 DEF TableOf
      <4>6. QED BY <4>4, <4>5
    <3>3. QED BY <1>2, <3>1, <3>2
  <2>2. QED BY <2>1 DEF NoValuesRemain
<1>8. QED BY <1>6, <1>7

(***************************************************************************)
(* Every table maps exactly the names of the values below its owner, as    *)
(* long as clients insert values whose names are free.                     *)
(***************************************************************************)
THEOREM TablesInStepHolds == ASSUME Careful PROVE Spec => []TablesInStep
<1>1. IInv /\ [Next]_vars => IInv'
  BY GoodKept
<1>2. IInv => TablesInStep
  BY GoodEnough
<1>3. QED BY <1>1, <1>2, GoodAtStart, PTL DEF Spec

(***************************************************************************)
(* "Values remain in symbol table!" is not reached then: the table of a    *)
(* function that has been destroyed is empty.                              *)
(***************************************************************************)
THEOREM NoValuesRemainHolds == ASSUME Careful PROVE Spec => []NoValuesRemain
<1>1. IInv /\ [Next]_vars => IInv'
  BY GoodKept
<1>2. IInv => NoValuesRemain
  BY GoodEnough
<1>3. QED BY <1>1, <1>2, GoodAtStart, PTL DEF Spec

(***************************************************************************)
(* Naming a value gives it the name asked for, or one made unique by a     *)
(* number, and changes no other name.                                      *)
(***************************************************************************)
THEOREM NamedAsAskedHolds == ASSUME Careful PROVE Spec => NamedAsAsked
<1> DEFINE Asked(v, n) ==
      /\ \A w \in Values \ {v} : sym'.name[w] = sym.name[w]
      /\ IF TableOf(sym, v) # Null /\ \E w \in InTable(TableOf(sym, v)) \ {v} :
                                        n # NoName /\ sym.name[w] = n
         THEN \E k \in 1 .. 9 : sym'.name[v] = Append(n, k)
         ELSE sym'.name[v] = n
<1>1. IInv /\ [Next]_vars => IInv'
  BY GoodKept
<1>2. ASSUME IInv, Next, NEW v \in Values, NEW n \in Wanted[v], Name(v, n) PROVE Asked(v, n)
  <2> DEFINE R == SetName(sym, v, n)
  <2>1. sym' = R /\ n \in Names
    BY <1>2, SymbolAssumption DEF Name, Names
  <2>2. \A t \in Tables : R.last[t] <= MaxUnique[t]
    BY <1>2, <2>1 DEF Next
  <2>3. /\ Tight(sym) /\ Linked(sym) /\ sym \in States
    BY <1>2, GoodNow
  <2>4. R = SetName(sym, v, n)
    OBVIOUS
  <2> HIDE DEF R
  <2>5. /\ \A w \in Values \ {v} : R.name[w] = sym.name[w]
        /\ NamedAs(sym, R, v, n)
    BY <2>1, <2>2, <2>3, <2>4, NameSetTight
  <2>6. TableOf(sym, v) # Null => InTable(TableOf(sym, v)) = Below(sym, TableOf(sym, v))
    BY <1>2, <2>3, TableKnown, InTableIsBelow
  <2>7. QED BY <2>1, <2>5, <2>6 DEF NameWanted, NamedAs
<1>3. IInv /\ [Next]_vars => [\A v \in Values : \A n \in Wanted[v] : Name(v, n) => Asked(v, n)]_vars
  BY <1>2
<1>4. QED BY <1>1, <1>3, GoodAtStart, PTL DEF Spec, NamedAsAsked
================================================================================
