----------------------------- MODULE SequenceProofs -----------------------------
(***************************************************************************)
(* Facts about sequences that the proofs of the components share.  What    *)
(* is recursive is shown by the least counterexample: a set of numbers     *)
(* that is not empty has a least one.                                      *)
(***************************************************************************)
EXTENDS Integers, Sequences, SequencesExt, TLAPS, WellFoundedInduction

(***************************************************************************)
(* Some natural numbers have a least one among them.                       *)
(***************************************************************************)
LEMMA LeastNat ==
  ASSUME NEW T \in SUBSET Nat, T # {}
  PROVE  \E m \in T : \A k \in T : m <= k
<1>1. IsWellFoundedOn(OpToRel(<, Nat), Nat)
  BY NatLessThanWellFounded
<1>2. T \subseteq Nat
  OBVIOUS
<1>3. PICK m \in T : \A k \in T : ~ (<<k, m>> \in OpToRel(<, Nat))
  BY <1>1, <1>2, WFMin
<1>4. \A k \in T : ~ (k < m)
  BY <1>2, <1>3 DEF OpToRel
<1>5. QED BY <1>4

-----------------------------------------------------------------------------
(* What FlattenSeq builds on its way.                                      *)
FlattensBy(ss, f) ==
  f = [i \in 1 .. Len(ss) |-> IF i = 1 THEN ss[i] ELSE f[i - 1] \o ss[i]]

(***************************************************************************)
(* The recursion of FlattenSeq defines a function.                         *)
(***************************************************************************)
LEMMA FlattenDefined == ASSUME NEW ss, Len(ss) \in Nat PROVE \E f : FlattensBy(ss, f)
<1> DEFINE Builds(n, f) == f = [i \in 1 .. n |-> IF i = 1 THEN ss[i] ELSE f[i - 1] \o ss[i]]
           T == {n \in Nat : ~ \E f : Builds(n, f)}
<1>1. ASSUME T # {} PROVE FALSE
  <2>1. PICK m \in T : \A k \in T : m <= k
    <3>1. T \in SUBSET Nat
      OBVIOUS
    <3> HIDE DEF T
    <3>2. QED BY <1>1, <3>1, LeastNat
  <2>2. m # 0
    <3>1. Builds(0, [i \in 1 .. 0 |-> i])
      OBVIOUS
    <3> HIDE DEF Builds
    <3>2. QED BY <3>1
  <2>3. m - 1 \in Nat /\ m - 1 \notin T
    <3>1. m \in Nat
      OBVIOUS
    <3> HIDE DEF T
    <3>2. m - 1 \in Nat /\ ~ (m <= m - 1)
      BY <2>2, <3>1
    <3>3. QED BY <2>1, <3>2
  <2>4. PICK f : Builds(m - 1, f)
    <3> HIDE DEF Builds
    <3>1. QED BY <2>3
  <2> DEFINE last == IF m = 1 THEN ss[m] ELSE f[m - 1] \o ss[m]
             g == [i \in 1 .. m |-> IF i = m THEN last ELSE f[i]]
  <2>5. \A i \in 1 .. m : g[i] = IF i = 1 THEN ss[i] ELSE g[i - 1] \o ss[i]
    <3> SUFFICES ASSUME NEW i \in 1 .. m
                 PROVE  g[i] = IF i = 1 THEN ss[i] ELSE g[i - 1] \o ss[i]
      OBVIOUS
    <3>1. CASE i = m
      <4>1. g[i] = last /\ (i # 1 => g[i - 1] = f[m - 1])
        BY <3>1
      <4>2. QED BY <3>1, <4>1
    <3>2. CASE i # m
      <4>1. i \in 1 .. (m - 1) /\ (i # 1 => i - 1 \in 1 .. (m - 1))
        BY <3>2
      <4>2. f[i] = IF i = 1 THEN ss[i] ELSE f[i - 1] \o ss[i]
        BY <2>4, <4>1
      <4>3. g[i] = f[i] /\ (i # 1 => g[i - 1] = f[i - 1])
        BY <3>2, <4>1
      <4>4. QED BY <4>2, <4>3
    <3>3. QED BY <3>1, <3>2
  <2>6. Builds(m, g)
    <3>1. g = [i \in 1 .. m |-> g[i]]
      OBVIOUS
    <3> HIDE DEF g
    <3>2. [i \in 1 .. m |-> g[i]] = [i \in 1 .. m |-> IF i = 1 THEN ss[i] ELSE g[i - 1] \o ss[i]]
      BY <2>5
    <3>3. QED BY <3>1, <3>2
  <2> HIDE DEF g, Builds
  <2>7. QED BY <2>1, <2>6
<1>2. Len(ss) \notin T
  BY <1>1
<1>3. PICK f : Builds(Len(ss), f)
  <2> HIDE DEF Builds
  <2>1. QED BY <1>2
<1>4. QED BY <1>3 DEF FlattensBy

(***************************************************************************)
(* FlattenSeq returns the last of what it builds.                          *)
(***************************************************************************)
LEMMA FlattenUnfolds ==
  ASSUME NEW ss, Len(ss) \in Nat \ {0}
  PROVE  \E f : FlattensBy(ss, f) /\ FlattenSeq(ss) = f[Len(ss)]
<1> DEFINE f == CHOOSE f : f = [i \in 1 .. Len(ss) |-> IF i = 1 THEN ss[i] ELSE f[i - 1] \o ss[i]]
<1>1. FlattenSeq(ss) = f[Len(ss)]
  BY Zenon DEF FlattenSeq
<1>2. \E h : FlattensBy(ss, h)
  BY FlattenDefined
<1>3. FlattensBy(ss, f)
  BY <1>2, Zenon DEF FlattensBy
<1> HIDE DEF f
<1>4. QED BY <1>1, <1>3

(* Position k of t lies in a copy of s.                                    *)
CopyAround(t, k, s) ==
  \E o \in Nat : /\ k - o \in 1 .. Len(s)
                 /\ o + Len(s) <= Len(t)
                 /\ \A q \in 1 .. Len(s) : t[o + q] = s[q]

Has(t, x) == \E k \in 1 .. Len(t) : t[k] = x

(* t is made of the first n sequences of ss, and of nothing else.          *)
MadeOf(t, ss, n) ==
  /\ \A k \in 1 .. Len(t) : \E j \in 1 .. n : CopyAround(t, k, ss[j])
  /\ \A j \in 1 .. n : \A x : Has(ss[j], x) => Has(t, x)

(***************************************************************************)
(* Appending a sequence keeps what the first is made of.                   *)
(***************************************************************************)
LEMMA MadeOfMore ==
  ASSUME NEW S, NEW ss \in Seq(Seq(S)), NEW n \in 1 .. (Len(ss) - 1), NEW t \in Seq(S),
         MadeOf(t, ss, n)
  PROVE  t \o ss[n + 1] \in Seq(S) /\ MadeOf(t \o ss[n + 1], ss, n + 1)
<1> DEFINE w == ss[n + 1]
           r == t \o w
<1>1. n + 1 \in 1 .. Len(ss) /\ w \in Seq(S)
  <2>1. n + 1 \in 1 .. Len(ss)
    OBVIOUS
  <2>2. QED BY <2>1
<1>2. r \in Seq(S) /\ Len(r) = Len(t) + Len(w) /\ Len(t) \in Nat /\ Len(w) \in Nat
  BY <1>1
<1>3. /\ Len(t) <= Len(r)
      /\ \A q \in 1 .. Len(w) : Len(t) + q \in 1 .. Len(r)
  <2> HIDE DEF r, w
  <2>1. QED BY ONLY <1>2
<1>4. \A k \in 1 .. Len(t) : r[k] = t[k]
  BY <1>1
<1>5. \A q \in 1 .. Len(w) : r[Len(t) + q] = w[q]
  BY <1>1
<1> HIDE DEF r, w
<1>6. ASSUME NEW k \in 1 .. Len(r) PROVE \E j \in 1 .. (n + 1) : CopyAround(r, k, ss[j])
  <2>1. CASE k <= Len(t)
    <3>1. k \in 1 .. Len(t)
      BY <2>1, <1>2
    <3>2. PICK j \in 1 .. n : CopyAround(t, k, ss[j])
      BY <3>1 DEF MadeOf
    <3>3. j \in 1 .. Len(ss) /\ ss[j] \in Seq(S) /\ Len(ss[j]) \in Nat
      <4>1. j \in 1 .. Len(ss)
        OBVIOUS
      <4>2. QED BY <4>1
    <3>4. PICK o \in Nat : /\ k - o \in 1 .. Len(ss[j]) /\ o + Len(ss[j]) <= Len(t)
                           /\ \A q \in 1 .. Len(ss[j]) : t[o + q] = ss[j][q]
      BY <3>2 DEF CopyAround
    <3>5. \A q \in 1 .. Len(ss[j]) : o + q \in 1 .. Len(t)
      BY <3>3, <3>4, <1>2
    <3>6. \A q \in 1 .. Len(ss[j]) : r[o + q] = ss[j][q]
      BY <3>4, <3>5, <1>4
    <3>7. o + Len(ss[j]) <= Len(r)
      <4>1. o + Len(ss[j]) <= Len(t)
        BY <3>4
      <4>2. QED BY ONLY <4>1, <1>2, <1>3, <3>3, o \in Nat
    <3>8. CopyAround(r, k, ss[j])
      BY <3>4, <3>6, <3>7 DEF CopyAround
    <3>9. QED BY <3>8
  <2>2. CASE k > Len(t)
    <3>1. Len(t) \in Nat /\ k - Len(t) \in 1 .. Len(w) /\ Len(t) + Len(w) <= Len(r)
      BY <2>2, <1>2
    <3>2. CopyAround(r, k, w)
      BY <3>1, <1>5 DEF CopyAround
    <3>3. QED BY <3>2 DEF w
  <2>3. QED BY <2>1, <2>2, <1>2
<1>7. ASSUME NEW j \in 1 .. (n + 1), NEW x, Has(ss[j], x) PROVE Has(r, x)
  <2>1. CASE j = n + 1
    <3>1. PICK q \in 1 .. Len(w) : w[q] = x
      BY <1>7, <2>1 DEF Has, w
    <3>2. Len(t) + q \in 1 .. Len(r) /\ r[Len(t) + q] = x
      BY <3>1, <1>3, <1>5
    <3>3. QED BY <3>2 DEF Has
  <2>2. CASE j # n + 1
    <3>1. j \in 1 .. n
      BY <2>2
    <3>2. Has(t, x)
      BY <1>7, <3>1 DEF MadeOf
    <3>3. PICK k \in 1 .. Len(t) : t[k] = x
      BY <3>2 DEF Has
    <3>4. k \in 1 .. Len(r) /\ r[k] = x
      BY <3>3, <1>2, <1>4
    <3>5. QED BY <3>4 DEF Has
  <2>3. QED BY <2>1, <2>2
<1>8. QED BY <1>2, <1>6, <1>7 DEF MadeOf, r, w

(***************************************************************************)
(* FlattenSeq returns the concatenation: every position of it lies in one  *)
(* of the sequences, copied whole, and every element of each is there.     *)
(***************************************************************************)
LEMMA FlattenMadeOf ==
  ASSUME NEW S, NEW ss \in Seq(Seq(S))
  PROVE  FlattenSeq(ss) \in Seq(S) /\ MadeOf(FlattenSeq(ss), ss, Len(ss))
<1>1. CASE Len(ss) = 0
  <2>1. FlattenSeq(ss) = ss
    BY <1>1, Zenon DEF FlattenSeq
  <2>2. ss = << >>
    BY <1>1
  <2>3. << >> \in Seq(S) /\ MadeOf(<< >>, ss, 0)
    BY DEF MadeOf
  <2>4. QED BY <1>1, <2>1, <2>2, <2>3
<1>2. CASE Len(ss) # 0
  <2>1. Len(ss) \in Nat \ {0}
    BY <1>2
  <2>2. PICK f : FlattensBy(ss, f) /\ FlattenSeq(ss) = f[Len(ss)]
    BY <2>1, FlattenUnfolds
  <2>3. \A i \in 1 .. Len(ss) : f[i] = IF i = 1 THEN ss[i] ELSE f[i - 1] \o ss[i]
    <3>1. f = [i \in 1 .. Len(ss) |-> IF i = 1 THEN ss[i] ELSE f[i - 1] \o ss[i]]
      BY <2>2 DEF FlattensBy
    <3> DEFINE g == [i \in 1 .. Len(ss) |-> IF i = 1 THEN ss[i] ELSE f[i - 1] \o ss[i]]
    <3>2. \A i \in 1 .. Len(ss) : g[i] = IF i = 1 THEN ss[i] ELSE f[i - 1] \o ss[i]
      OBVIOUS
    <3>3. f = g
      BY <3>1
    <3> HIDE DEF g
    <3>4. QED BY <3>2, <3>3
  <2> DEFINE Good(i) == f[i] \in Seq(S) /\ MadeOf(f[i], ss, i)
             T == {i \in Nat : i \in 1 .. Len(ss) /\ ~ Good(i)}
  <2>4. ASSUME T # {} PROVE FALSE
    <3>1. PICK m \in T : \A k \in T : m <= k
      <4>1. T \in SUBSET Nat
        OBVIOUS
      <4> HIDE DEF T
      <4>2. QED BY <2>4, <4>1, LeastNat
    <3>2. m \in 1 .. Len(ss) /\ ~ Good(m)
      BY <3>1
    <3>3. m # 1
      <4>1. f[1] = ss[1] /\ ss[1] \in Seq(S) /\ Len(ss[1]) \in Nat
        BY <2>1, <2>3
      <4>2. MadeOf(ss[1], ss, 1)
        <5>1. \A k \in 1 .. Len(ss[1]) : CopyAround(ss[1], k, ss[1])
          <6> SUFFICES ASSUME NEW k \in 1 .. Len(ss[1]) PROVE CopyAround(ss[1], k, ss[1])
            OBVIOUS
          <6>1. /\ 0 \in Nat /\ k - 0 \in 1 .. Len(ss[1]) /\ 0 + Len(ss[1]) <= Len(ss[1])
                /\ \A q \in 1 .. Len(ss[1]) : ss[1][0 + q] = ss[1][q]
            BY <4>1
          <6>2. QED BY <6>1 DEF CopyAround
        <5>2. 1 \in 1 .. 1 /\ \A j \in 1 .. 1 : j = 1
          OBVIOUS
        <5>3. QED BY <5>1, <5>2 DEF MadeOf
      <4>3. Good(1)
        BY <4>1, <4>2
      <4> HIDE DEF Good
      <4>4. QED BY <3>2, <4>3
    <3>4. m - 1 \in 1 .. (Len(ss) - 1) /\ m - 1 \in Nat /\ m - 1 \in 1 .. Len(ss) /\ ~ (m <= m - 1)
      BY <3>2, <3>3, <2>1
    <3>5. Good(m - 1)
      <4> HIDE DEF Good
      <4>1. QED BY <3>1, <3>4
    <3>6. f[m] = f[m - 1] \o ss[m] /\ (m - 1) + 1 = m
      <4>1. m \in 1 .. Len(ss) /\ m # 1
        BY <3>2, <3>3
      <4>2. f[m] = IF m = 1 THEN ss[m] ELSE f[m - 1] \o ss[m]
        BY ONLY <2>3, <4>1
      <4>3. (m - 1) + 1 = m
        BY <4>1
      <4>4. QED BY ONLY <4>1, <4>2, <4>3
    <3>7. f[m - 1] \o ss[(m - 1) + 1] \in Seq(S) /\ MadeOf(f[m - 1] \o ss[(m - 1) + 1], ss, (m - 1) + 1)
      BY <3>4, <3>5, MadeOfMore
    <3>8. Good(m)
      BY <3>6, <3>7
    <3> HIDE DEF Good
    <3>9. QED BY <3>2, <3>8
  <2>5. Good(Len(ss))
    <3> HIDE DEF Good
    <3>1. QED BY <2>1, <2>4
  <2>6. QED BY <2>2, <2>5
<1>3. QED BY <1>1, <1>2

-----------------------------------------------------------------------------
(***************************************************************************)
(* One sequence more is appended to what FlattenSeq returns.               *)
(***************************************************************************)
LEMMA FlattenMore ==
  ASSUME NEW S, NEW n \in Nat, NEW ss \in Seq(Seq(S)), Len(ss) = n + 1,
         NEW tt \in Seq(Seq(S)), Len(tt) = n, \A k \in 1 .. n : tt[k] = ss[k]
  PROVE  FlattenSeq(ss) = FlattenSeq(tt) \o ss[n + 1]
<1>1. PICK f : FlattensBy(ss, f) /\ FlattenSeq(ss) = f[n + 1]
  <2>1. Len(ss) \in Nat \ {0}
    OBVIOUS
  <2>2. QED BY <2>1, FlattenUnfolds
<1>2. \A i \in 1 .. (n + 1) : f[i] = IF i = 1 THEN ss[i] ELSE f[i - 1] \o ss[i]
  <2> DEFINE g == [i \in 1 .. Len(ss) |-> IF i = 1 THEN ss[i] ELSE f[i - 1] \o ss[i]]
  <2>1. \A i \in 1 .. (n + 1) : g[i] = IF i = 1 THEN ss[i] ELSE f[i - 1] \o ss[i]
    OBVIOUS
  <2>2. f = g
    BY <1>1 DEF FlattensBy
  <2> HIDE DEF g
  <2>3. QED BY <2>1, <2>2
<1>3. n + 1 \in 1 .. (n + 1) /\ n + 1 \in 1 .. Len(ss) /\ ss[n + 1] \in Seq(S)
  <2>1. n + 1 \in 1 .. (n + 1) /\ n + 1 \in 1 .. Len(ss)
    OBVIOUS
  <2>2. QED BY <2>1
<1>4. CASE n = 0
  <2>1. FlattenSeq(tt) = tt
    BY <1>4, Zenon DEF FlattenSeq
  <2>2. tt = << >>
    BY <1>4
  <2>3. f[n + 1] = ss[n + 1]
    BY <1>2, <1>3, <1>4
  <2>4. QED BY <1>1, <1>3, <2>1, <2>2, <2>3
<1>5. CASE n # 0
  <2>1. PICK g : FlattensBy(tt, g) /\ FlattenSeq(tt) = g[n]
    <3>1. Len(tt) \in Nat \ {0}
      BY <1>5
    <3>2. QED BY <3>1, FlattenUnfolds
  <2>2. \A i \in 1 .. n : g[i] = IF i = 1 THEN tt[i] ELSE g[i - 1] \o tt[i]
    <3> DEFINE h == [i \in 1 .. Len(tt) |-> IF i = 1 THEN tt[i] ELSE g[i - 1] \o tt[i]]
    <3>1. \A i \in 1 .. n : h[i] = IF i = 1 THEN tt[i] ELSE g[i - 1] \o tt[i]
      OBVIOUS
    <3>2. g = h
      BY <2>1 DEF FlattensBy
    <3> HIDE DEF h
    <3>3. QED BY <3>1, <3>2
  <2> DEFINE T == {i \in Nat : i \in 1 .. n /\ f[i] # g[i]}
  <2>3. ASSUME T # {} PROVE FALSE
    <3>1. PICK m \in T : \A k \in T : m <= k
      <4>1. T \in SUBSET Nat
        OBVIOUS
      <4> HIDE DEF T
      <4>2. QED BY <2>3, <4>1, LeastNat
    <3>2. m \in 1 .. n /\ f[m] # g[m]
      BY <3>1
    <3>3. m # 1 => m - 1 \in 1 .. n /\ m - 1 \in Nat /\ ~ (m <= m - 1)
      BY <3>2
    <3>4. m # 1 => f[m - 1] = g[m - 1]
      BY <3>1, <3>3
    <3>5. m \in 1 .. (n + 1) /\ tt[m] = ss[m]
      BY <3>2
    <3> HIDE DEF T
    <3>6. f[m] = IF m = 1 THEN ss[m] ELSE f[m - 1] \o ss[m]
      BY ONLY <1>2, <3>5
    <3>7. g[m] = IF m = 1 THEN tt[m] ELSE g[m - 1] \o tt[m]
      BY ONLY <2>2, <3>2
    <3>8. QED BY ONLY <3>2, <3>4, <3>5, <3>6, <3>7
  <2>4. f[n] = g[n]
    <3>1. n \in Nat /\ n \in 1 .. n
      BY <1>5
    <3>2. QED BY <2>3, <3>1
  <2>5. f[n + 1] = f[n] \o ss[n + 1]
    <3>1. f[n + 1] = IF n + 1 = 1 THEN ss[n + 1] ELSE f[(n + 1) - 1] \o ss[n + 1]
      BY ONLY <1>2, <1>3
    <3>2. n + 1 # 1 /\ (n + 1) - 1 = n
      BY <1>5
    <3>3. QED BY ONLY <3>1, <3>2
  <2>6. QED BY ONLY <1>1, <2>1, <2>4, <2>5
<1>6. QED BY <1>4, <1>5

(* u starts with t.                                                        *)
Starts(t, u) == Len(t) <= Len(u) /\ \A k \in 1 .. Len(t) : u[k] = t[k]

(***************************************************************************)
(* What FlattenSeq returns for the first sequences is how it starts for    *)
(* all, and is the same if those that follow are empty.                    *)
(***************************************************************************)
LEMMA FlattenStarts ==
  ASSUME NEW S, NEW ss \in Seq(Seq(S)), NEW tt \in Seq(Seq(S)), Len(tt) <= Len(ss),
         \A k \in 1 .. Len(tt) : tt[k] = ss[k]
  PROVE  /\ Starts(FlattenSeq(tt), FlattenSeq(ss))
         /\ (\A k \in 1 .. Len(ss) : k > Len(tt) => ss[k] = << >>) => FlattenSeq(tt) = FlattenSeq(ss)
<1> DEFINE n == Len(ss)
           t == FlattenSeq(tt)
           part(i) == [k \in 1 .. i |-> ss[k]]
           w(i) == FlattenSeq(part(i))
           Empty == \A k \in 1 .. n : k > Len(tt) => ss[k] = << >>
           Good(i) == w(i) \in Seq(S) /\ Starts(t, w(i)) /\ (Empty => t = w(i))
           T == {i \in Nat : i \in Len(tt) .. n /\ ~ Good(i)}
<1>1. n \in Nat /\ Len(tt) \in Nat /\ t \in Seq(S)
  BY FlattenMadeOf
<1>2. \A i \in 0 .. n : part(i) \in Seq(Seq(S)) /\ Len(part(i)) = i /\ \A k \in 1 .. i : part(i)[k] = ss[k]
  OBVIOUS
<1>3. part(n) = ss /\ part(Len(tt)) = tt
  <2>1. ss = [k \in 1 .. n |-> ss[k]] /\ tt = [k \in 1 .. Len(tt) |-> tt[k]]
    OBVIOUS
  <2>2. QED BY <2>1
<1>4. \A i \in 0 .. n : w(i) \in Seq(S)
  <2> SUFFICES ASSUME NEW i \in 0 .. n PROVE w(i) \in Seq(S)
    OBVIOUS
  <2>1. part(i) \in Seq(Seq(S))
    BY <1>2
  <2> HIDE DEF part
  <2>2. QED BY <2>1, FlattenMadeOf
<1>5. \A i \in 1 .. n : w(i) = w(i - 1) \o ss[i]
  <2> SUFFICES ASSUME NEW i \in 1 .. n PROVE w(i) = w(i - 1) \o ss[i]
    OBVIOUS
  <2>1. i - 1 \in Nat /\ i = (i - 1) + 1 /\ i \in 0 .. n /\ i - 1 \in 0 .. n /\ i \in 1 .. i
    BY <1>1
  <2>2. /\ part(i) \in Seq(Seq(S)) /\ Len(part(i)) = (i - 1) + 1 /\ part(i)[(i - 1) + 1] = ss[i]
        /\ part(i - 1) \in Seq(Seq(S)) /\ Len(part(i - 1)) = i - 1
    BY <1>2, <2>1
  <2>3. \A k \in 1 .. (i - 1) : part(i - 1)[k] = part(i)[k]
    <3> SUFFICES ASSUME NEW k \in 1 .. (i - 1) PROVE part(i - 1)[k] = part(i)[k]
      OBVIOUS
    <3>1. k \in 1 .. i
      BY <2>1
    <3>2. part(i - 1)[k] = ss[k] /\ part(i)[k] = ss[k]
      BY <1>2, <2>1, <3>1
    <3>3. QED BY <3>2
  <2> HIDE DEF part
  <2>4. w(i) = w(i - 1) \o part(i)[(i - 1) + 1]
    BY <2>1, <2>2, <2>3, FlattenMore
  <2>5. QED BY <2>2, <2>4
<1> HIDE DEF w, t, part
<1>6. ASSUME T # {} PROVE FALSE
  <2>1. PICK m \in T : \A k \in T : m <= k
    <3>1. T \in SUBSET Nat
      OBVIOUS
    <3> HIDE DEF T
    <3>2. QED BY <1>6, <3>1, LeastNat
  <2>2. m \in Len(tt) .. n /\ ~ Good(m) /\ m \in 0 .. n
    BY <1>1, <2>1
  <2>3. m # Len(tt)
    <3>1. w(Len(tt)) = t
      BY <1>3 DEF w, t
    <3>2. Starts(t, t)
      BY <1>1 DEF Starts
    <3>3. Good(Len(tt))
      BY <1>1, <3>1, <3>2
    <3> HIDE DEF Good
    <3>4. QED BY <2>2, <3>3
  <2>4. m - 1 \in Nat /\ m - 1 \in Len(tt) .. n /\ ~ (m <= m - 1) /\ m \in 1 .. n /\ m > Len(tt)
    BY <1>1, <2>2, <2>3
  <2>5. Good(m - 1)
    <3> HIDE DEF Good
    <3>1. QED BY <2>1, <2>4
  <2> DEFINE u == w(m - 1)
             v == ss[m]
  <2>6. w(m) = u \o v /\ u \in Seq(S) /\ v \in Seq(S) /\ Starts(t, u) /\ (Empty => t = u)
    <3>1. w(m) = u \o v
      BY ONLY <1>5, <2>4
    <3>2. v \in Seq(S)
      BY ONLY ss \in Seq(Seq(S)), <2>4
    <3>3. u \in Seq(S) /\ Starts(t, u) /\ (Empty => t = u)
      BY ONLY <2>5, Zenon
    <3>4. QED BY ONLY <3>1, <3>2, <3>3, Zenon
  <2>7. Empty => v = << >>
    BY <2>4
  <2> HIDE DEF u, v, Empty
  <2>8. Starts(t, u \o v)
    <3>1. Len(u \o v) = Len(u) + Len(v) /\ Len(u) \in Nat /\ Len(v) \in Nat /\ Len(t) \in Nat
      BY <1>1, <2>6
    <3>2. \A k \in 1 .. Len(u) : (u \o v)[k] = u[k]
      BY <2>6
    <3>3. Len(t) <= Len(u) /\ \A k \in 1 .. Len(t) : u[k] = t[k]
      BY <2>6 DEF Starts
    <3>4. \A k \in 1 .. Len(t) : k \in 1 .. Len(u)
      BY <3>1, <3>3
    <3>5. Len(t) <= Len(u \o v)
      BY ONLY <3>1, <3>3
    <3>6. QED BY ONLY <3>2, <3>3, <3>4, <3>5 DEF Starts
  <2>9. Empty => t = u \o v
    BY <2>6, <2>7
  <2>10. u \o v \in Seq(S)
    BY <2>6
  <2>11. Good(m)
    <3>1. w(m) = u \o v
      BY <2>6
    <3>2. QED BY ONLY <3>1, <2>8, <2>9, <2>10, Zenon
  <2>12. QED BY <2>2, <2>11
<1>7. Good(n)
  <2> HIDE DEF Good
  <2>1. n \in Nat /\ n \in Len(tt) .. n
    BY <1>1
  <2>2. QED BY <1>6, <2>1
<1>8. w(n) = FlattenSeq(ss)
  BY <1>3 DEF w
<1>9. QED BY <1>7, <1>8 DEF t

(***************************************************************************)
(* Each element of what FlattenSeq returns is an element of one of the     *)
(* sequences.                                                              *)
(***************************************************************************)
LEMMA FlattenHas ==
  ASSUME NEW S, NEW ss \in Seq(Seq(S)), NEW x
  PROVE  Has(FlattenSeq(ss), x) <=> \E j \in 1 .. Len(ss) : Has(ss[j], x)
<1>1. MadeOf(FlattenSeq(ss), ss, Len(ss))
  BY FlattenMadeOf
<1>2. ASSUME NEW j \in 1 .. Len(ss), Has(ss[j], x) PROVE Has(FlattenSeq(ss), x)
  BY <1>1, <1>2 DEF MadeOf
<1>3. ASSUME Has(FlattenSeq(ss), x) PROVE \E j \in 1 .. Len(ss) : Has(ss[j], x)
  <2> DEFINE t == FlattenSeq(ss)
  <2>1. PICK k \in 1 .. Len(t) : t[k] = x
    BY <1>3 DEF Has
  <2> HIDE DEF t
  <2>2. PICK j \in 1 .. Len(ss) : CopyAround(t, k, ss[j])
    BY <1>1, <2>1 DEF MadeOf, t
  <2>3. PICK o \in Nat : k - o \in 1 .. Len(ss[j]) /\ t[o + (k - o)] = ss[j][k - o]
    BY <2>2 DEF CopyAround
  <2>4. t \in Seq(S) /\ o + (k - o) = k
    <3>1. t \in Seq(S)
      BY FlattenMadeOf DEF t
    <3>2. k \in Int
      BY <3>1
    <3>3. QED BY <3>1, <3>2
  <2>5. ss[j][k - o] = x
    BY <2>1, <2>3, <2>4
  <2>6. Has(ss[j], x)
    BY <2>3, <2>5 DEF Has
  <2>7. QED BY <2>6
<1>4. QED BY <1>2, <1>3

-----------------------------------------------------------------------------
(* The first n sequences of e, one after the other.                        *)
FirstOf(e, n) == FlattenSeq([i \in 1 .. n |-> e[i]])

(***************************************************************************)
(* How the concatenation of the first sequences grows with their number.   *)
(***************************************************************************)
LEMMA FirstOfFacts ==
  ASSUME NEW S, NEW N \in Nat, NEW e \in [1 .. N -> Seq(S)]
  PROVE  /\ FirstOf(e, 0) = << >>
         /\ \A n \in 0 .. N :
              /\ FirstOf(e, n) \in Seq(S) /\ Starts(FirstOf(e, n), FirstOf(e, N))
              /\ (\A i \in 1 .. N : i > n => e[i] = << >>) => FirstOf(e, n) = FirstOf(e, N)
         /\ \A n \in 0 .. N - 1 : FirstOf(e, n + 1) = FirstOf(e, n) \o e[n + 1]
<1> DEFINE part(n) == [i \in 1 .. n |-> e[i]]
<1>1. \A n \in 0 .. N : part(n) \in Seq(Seq(S)) /\ Len(part(n)) = n /\ \A k \in 1 .. n : part(n)[k] = e[k]
  OBVIOUS
<1>2. \A n : FirstOf(e, n) = FlattenSeq(part(n))
  BY DEF FirstOf
<1>3. FirstOf(e, 0) = << >>
  <2>1. part(0) = << >> /\ Len(part(0)) = 0
    OBVIOUS
  <2> HIDE DEF part
  <2>2. FlattenSeq(part(0)) = part(0)
    BY <2>1, Zenon DEF FlattenSeq
  <2>3. QED BY <1>2, <2>1, <2>2
<1> HIDE DEF part
<1>4. ASSUME NEW n \in 0 .. N
      PROVE  /\ FirstOf(e, n) \in Seq(S) /\ Starts(FirstOf(e, n), FirstOf(e, N))
             /\ (\A i \in 1 .. N : i > n => e[i] = << >>) => FirstOf(e, n) = FirstOf(e, N)
  <2>1. /\ part(n) \in Seq(Seq(S)) /\ Len(part(n)) = n /\ \A k \in 1 .. n : part(n)[k] = e[k]
        /\ part(N) \in Seq(Seq(S)) /\ Len(part(N)) = N /\ \A k \in 1 .. N : part(N)[k] = e[k]
    <3>1. N \in 0 .. N
      OBVIOUS
    <3>2. QED BY <1>1, <3>1
  <2>2. Len(part(n)) <= Len(part(N)) /\ \A k \in 1 .. Len(part(n)) : part(n)[k] = part(N)[k]
    BY <2>1
  <2>3. /\ Starts(FlattenSeq(part(n)), FlattenSeq(part(N)))
        /\ (\A k \in 1 .. Len(part(N)) : k > Len(part(n)) => part(N)[k] = << >>)
             => FlattenSeq(part(n)) = FlattenSeq(part(N))
    BY <2>1, <2>2, FlattenStarts
  <2>4. FlattenSeq(part(n)) \in Seq(S)
    BY <2>1, FlattenMadeOf
  <2>5. (\A i \in 1 .. N : i > n => e[i] = << >>) =>
          \A k \in 1 .. Len(part(N)) : k > Len(part(n)) => part(N)[k] = << >>
    BY <2>1
  <2>6. QED BY <1>2, <2>3, <2>4, <2>5
<1>5. ASSUME NEW n \in 0 .. N - 1 PROVE FirstOf(e, n + 1) = FirstOf(e, n) \o e[n + 1]
  <2>1. n \in Nat /\ n \in 0 .. N /\ n + 1 \in 0 .. N /\ n + 1 \in 1 .. n + 1
    OBVIOUS
  <2>2. /\ part(n) \in Seq(Seq(S)) /\ Len(part(n)) = n /\ \A k \in 1 .. n : part(n)[k] = e[k]
        /\ part(n + 1) \in Seq(Seq(S)) /\ Len(part(n + 1)) = n + 1
        /\ \A k \in 1 .. n + 1 : part(n + 1)[k] = e[k]
    BY <1>1, <2>1
  <2>3. \A k \in 1 .. n : part(n)[k] = part(n + 1)[k]
    BY <2>1, <2>2
  <2>4. FlattenSeq(part(n + 1)) = FlattenSeq(part(n)) \o part(n + 1)[n + 1]
    BY <2>1, <2>2, <2>3, FlattenMore
  <2>5. QED BY <1>2, <2>1, <2>2, <2>4
<1>6. QED BY <1>3, <1>4, <1>5
-----------------------------------------------------------------------------
(***************************************************************************)
(* What FoldLeft builds on its way, for a function G on X.                 *)
(***************************************************************************)
FoldsBy(G, base, s, n, h) ==
  h = [x \in SUBSET (1 .. n) |-> IF x = {} THEN base ELSE G[<<h[x \ {Max(x)}], s[Max(x)]>>]]

(* The greatest of the numbers up to k is k.                               *)
LEMMA GreatestOf ==
  ASSUME NEW k \in Nat, NEW x \in SUBSET (1 .. k), k \in x
  PROVE  Max(x) = k
<1>1. \A y \in x : k >= y /\ (y >= k => y = k)
  OBVIOUS
<1>2. QED BY <1>1 DEF Max

(***************************************************************************)
(* The recursive function inside FoldLeft is the one that is defined: were *)
(* there none for the first k values, for the least such k, the one for    *)
(* k - 1 would give it.                                                    *)
(***************************************************************************)
LEMMA FoldDefined ==
  ASSUME NEW X, NEW I, NEW G \in [X \X I -> X], NEW base \in X, NEW s \in Seq(I)
  PROVE  \E h \in [SUBSET (1 .. Len(s)) -> X] : FoldsBy(G, base, s, Len(s), h)
<1> DEFINE N == Len(s)
           Next(h, x) == IF x = {} THEN base ELSE G[<<h[x \ {Max(x)}], s[Max(x)]>>]
           Good(k, h) == h \in [SUBSET (1 .. k) -> X] /\ \A x \in SUBSET (1 .. k) : h[x] = Next(h, x)
           T == {k \in Nat : k <= N /\ ~ \E h : Good(k, h)}
<1>1. N \in Nat
  OBVIOUS
<1>2. ASSUME T # {} PROVE FALSE
  <2>1. PICK m \in T : \A k \in T : m <= k
    <3>1. T \in SUBSET Nat
      OBVIOUS
    <3> HIDE DEF T
    <3>2. QED BY <1>2, <3>1, LeastNat
  <2>2. m \in Nat /\ m <= N /\ ~ \E h : Good(m, h)
    BY <2>1
  <2>3. m # 0
    <3> DEFINE h == [x \in SUBSET (1 .. 0) |-> base]
    <3>1. \A x \in SUBSET (1 .. 0) : x = {}
      OBVIOUS
    <3>2. h \in [SUBSET (1 .. 0) -> X] /\ \A x \in SUBSET (1 .. 0) : h[x] = base
      OBVIOUS
    <3> HIDE DEF h
    <3>3. Good(0, h)
      BY ONLY <3>1, <3>2
    <3> HIDE DEF Good
    <3>4. QED BY <2>2, <3>3
  <2>4. m - 1 \in Nat /\ m - 1 <= N /\ ~ (m <= m - 1) /\ m \in 1 .. N
    BY <1>1, <2>2, <2>3
  <2>5. PICK h : Good(m - 1, h)
    <3>1. m - 1 \notin T
      <4> HIDE DEF T
      <4>1. QED BY <2>1, <2>4
    <3> HIDE DEF Good
    <3>2. QED BY <2>4, <3>1
  <2>6. s[m] \in I
    BY <2>4
  <2>7. \A x \in SUBSET (1 .. m) : x \ {m} \in SUBSET (1 .. m - 1) /\ (m \notin x => x \in SUBSET (1 .. m - 1))
    BY <2>4
  <2> DEFINE g == [x \in SUBSET (1 .. m) |-> IF m \in x THEN G[<<h[x \ {m}], s[m]>>] ELSE h[x]]
  <2>8. \A y \in SUBSET (1 .. m - 1) : y \in SUBSET (1 .. m) /\ m \notin y
    BY <2>4
  <2>9. \A y \in SUBSET (1 .. m - 1) : g[y] = h[y] /\ h[y] \in X
    BY <2>5, <2>8
  <2>10. g \in [SUBSET (1 .. m) -> X]
    <3>1. \A x \in SUBSET (1 .. m) : (IF m \in x THEN G[<<h[x \ {m}], s[m]>>] ELSE h[x]) \in X
      BY ONLY <2>5, <2>6, <2>7, G \in [X \X I -> X]
    <3>2. QED BY ONLY <3>1
  <2>11. ASSUME NEW x \in SUBSET (1 .. m) PROVE g[x] = Next(g, x)
    <3>1. CASE m \in x
      <4>1. Max(x) = m /\ x # {}
        BY <2>4, <3>1, GreatestOf
      <4>2. g[x] = G[<<h[x \ {m}], s[m]>>] /\ g[x \ {m}] = h[x \ {m}]
        BY <2>7, <2>9, <3>1
      <4> HIDE DEF g
      <4>3. QED BY <4>1, <4>2
    <3>2. CASE m \notin x
      <4>1. x \in SUBSET (1 .. m - 1) /\ x \ {Max(x)} \in SUBSET (1 .. m - 1)
        BY <2>7, <3>2
      <4>2. g[x] = h[x] /\ g[x \ {Max(x)}] = h[x \ {Max(x)}]
        BY <2>9, <4>1
      <4>3. h[x] = Next(h, x)
        BY <2>5, <4>1
      <4> HIDE DEF g
      <4>4. QED BY <4>2, <4>3
    <3>3. QED BY <3>1, <3>2
  <2> HIDE DEF g
  <2>12. Good(m, g)
    BY <2>10, <2>11
  <2> HIDE DEF Good
  <2>13. QED BY <2>2, <2>12
<1>3. PICK h : Good(N, h)
  <2>1. N <= N
    BY <1>1
  <2>2. N \notin T
    <3> HIDE DEF T
    <3>1. QED BY <1>2
  <2> HIDE DEF Good, N
  <2>3. QED BY <1>1, <2>1, <2>2
<1>4. h = [x \in SUBSET (1 .. N) |-> Next(h, x)]
  BY <1>3
<1>5. QED BY <1>3, <1>4 DEF FoldsBy

(* The first of its elements e is taken out of a sequence without others.  *)
LEMMA RemoveFirstFacts ==
  ASSUME NEW S, NEW s \in Seq(S), NEW e, \A j, k \in 1 .. Len(s) : s[j] = s[k] => j = k
  PROVE  /\ RemoveFirst(s, e) \in Seq(S)
         /\ \A j, k \in 1 .. Len(RemoveFirst(s, e)) : RemoveFirst(s, e)[j] = RemoveFirst(s, e)[k] => j = k
         /\ \A x : Has(RemoveFirst(s, e), x) <=> Has(s, x) /\ x # e
<1>1. CASE ~ \E k \in 1 .. Len(s) : s[k] = e
  <2>1. RemoveFirst(s, e) = s
    BY <1>1 DEF RemoveFirst
  <2>2. QED BY <1>1, <2>1 DEF Has
<1>2. CASE \E k \in 1 .. Len(s) : s[k] = e
  <2>1. PICK p \in 1 .. Len(s) : s[p] = e
    BY <1>2
  <2>2. SelectInSeq(s, LAMBDA v : v = e) = p
    <3>1. {k \in 1 .. Len(s) : s[k] = e} = {p}
      BY <2>1
    <3>2. Min({p}) = p
      BY DEF Min
    <3>3. QED BY <3>1, <3>2 DEF SelectInSeq
  <2> DEFINE a == SubSeq(s, 1, p - 1)
             b == SubSeq(s, p + 1, Len(s))
             r == a \o b
  <2>3. RemoveFirst(s, e) = r
    BY <1>2, <2>2 DEF RemoveFirst, RemoveAt
  <2>4. Len(s) \in Nat /\ p \in 1 .. Len(s)
    OBVIOUS
  <2>5. a \in Seq(S) /\ Len(a) = p - 1 /\ \A k \in 1 .. p - 1 : a[k] = s[k]
    OBVIOUS
  <2>6. b \in Seq(S) /\ Len(b) = Len(s) - p /\ \A k \in 1 .. Len(s) - p : b[k] = s[p + k]
    OBVIOUS
  <2> HIDE DEF a, b
  <2>7. r \in Seq(S) /\ Len(r) = Len(s) - 1
    BY <2>4, <2>5, <2>6
  <2>8. \A k \in 1 .. Len(s) - 1 : r[k] = IF k <= p - 1 THEN s[k] ELSE s[k + 1]
    <3> SUFFICES ASSUME NEW k \in 1 .. Len(s) - 1 PROVE r[k] = IF k <= p - 1 THEN s[k] ELSE s[k + 1]
      OBVIOUS
    <3>1. CASE k <= p - 1
      BY <2>4, <2>5, <2>6, <3>1
    <3>2. CASE ~ (k <= p - 1)
      <4>1. k - (p - 1) \in 1 .. Len(s) - p /\ p + (k - (p - 1)) = k + 1
        BY <2>4, <3>2
      <4>2. r[k] = b[k - (p - 1)]
        BY <2>4, <2>5, <2>6, <3>2, SMTT(20)
      <4>3. QED BY <2>6, <3>2, <4>1, <4>2
    <3>3. QED BY <3>1, <3>2
  <2> HIDE DEF r
  <2>9. ASSUME NEW j \in 1 .. Len(r), NEW k \in 1 .. Len(r), r[j] = r[k] PROVE j = k
    <3> DEFINE to(i) == IF i <= p - 1 THEN i ELSE i + 1
    <3>1. /\ r[j] = s[to(j)] /\ r[k] = s[to(k)] /\ to(j) \in 1 .. Len(s) /\ to(k) \in 1 .. Len(s)
          /\ to(j) = to(k) => j = k
      BY <2>4, <2>7, <2>8
    <3> HIDE DEF to
    <3>2. to(j) = to(k)
      BY <2>9, <3>1
    <3>3. QED BY <3>1, <3>2
  <2>10. ASSUME NEW x, Has(r, x) PROVE Has(s, x) /\ x # e
    <3>1. PICK k \in 1 .. Len(s) - 1 : r[k] = x
      BY <2>7, <2>10 DEF Has
    <3>2. CASE k <= p - 1
      <4>1. k \in 1 .. Len(s) /\ k # p /\ s[k] = x
        BY <2>4, <2>8, <3>1, <3>2
      <4>2. QED BY <2>1, <4>1 DEF Has
    <3>3. CASE ~ (k <= p - 1)
      <4>1. k + 1 \in 1 .. Len(s) /\ k + 1 # p /\ s[k + 1] = x
        BY <2>4, <2>8, <3>1, <3>3
      <4>2. QED BY <2>1, <4>1 DEF Has
    <3>4. QED BY <3>2, <3>3
  <2>11. ASSUME NEW x, Has(s, x), x # e PROVE Has(r, x)
    <3>1. PICK k \in 1 .. Len(s) : s[k] = x
      BY <2>11 DEF Has
    <3>2. k # p
      BY <2>1, <2>11, <3>1
    <3>3. CASE k <= p - 1
      <4>1. k \in 1 .. Len(r) /\ r[k] = x
        BY <2>4, <2>7, <2>8, <3>1, <3>3
      <4>2. QED BY <4>1 DEF Has
    <3>4. CASE ~ (k <= p - 1)
      <4>1. k - 1 \in 1 .. Len(r) /\ ~ (k - 1 <= p - 1) /\ (k - 1) + 1 = k /\ k - 1 \in 1 .. Len(s) - 1
        BY <2>4, <2>7, <3>2, <3>4
      <4>2. r[k - 1] = x
        BY <2>8, <3>1, <4>1
      <4>3. QED BY <4>1, <4>2 DEF Has
    <3>5. QED BY <3>3, <3>4
  <2>12. QED BY <2>3, <2>7, <2>9, <2>10, <2>11
<1>3. QED BY <1>1, <1>2

(* c[k] is what the function makes of the first k values of s.             *)
Stepwise(G, s, c, X) == \A k \in 1 .. Len(s) : c[k - 1] \in X => c[k] = G[<<c[k - 1], s[k]>>]

(* A fold stays in the set that its function keeps.                        *)
LEMMA ChainStays ==
  ASSUME NEW X, NEW I, NEW G \in [X \X I -> X], NEW s \in Seq(I), NEW c, c[0] \in X, Stepwise(G, s, c, X)
  PROVE  \A k \in 0 .. Len(s) : c[k] \in X
<1> USE DEF Stepwise
<1> DEFINE T == {k \in Nat : k \in 0 .. Len(s) /\ c[k] \notin X}
<1>1. ASSUME T # {} PROVE FALSE
  <2>1. PICK m \in T : \A k \in T : m <= k
    <3>1. T \in SUBSET Nat
      OBVIOUS
    <3> HIDE DEF T
    <3>2. QED BY <1>1, <3>1, LeastNat
  <2>2. m \in 1 .. Len(s) /\ m - 1 \in 0 .. Len(s) /\ m - 1 \in Nat /\ ~ (m <= m - 1) /\ c[m] \notin X
    BY <2>1
  <2>3. c[m - 1] \in X
    BY <2>1, <2>2
  <2>4. s[m] \in I
    BY <2>2
  <2>5. QED BY <2>2, <2>3, <2>4
<1>2. QED BY <1>1

(* The numbers up to k, less k.                                            *)
LEMMA UpToLess ==
  ASSUME NEW n \in Nat, NEW k \in 1 .. n
  PROVE  /\ 1 .. k \in SUBSET (1 .. n) /\ 1 .. k # {} /\ Max(1 .. k) = k /\ (1 .. k) \ {k} = 1 .. k - 1
         /\ k - 1 \in 0 .. n
<1>1. k \in Nat /\ k \in 1 .. k /\ 1 .. k \in SUBSET (1 .. n) /\ (1 .. k) \ {k} = 1 .. k - 1 /\ k - 1 \in 0 .. n
  OBVIOUS
<1>2. Max(1 .. k) = k
  BY <1>1, GreatestOf
<1>3. QED BY <1>1, <1>2

(* Numbers up to n have a greatest one.                                    *)
LEMMA GreatestIn ==
  ASSUME NEW n \in Nat, NEW x \in SUBSET (1 .. n), x # {}
  PROVE  Max(x) \in x
<1> DEFINE T == {k \in Nat : \A y \in x : y <= k}
<1>1. n \in T
  OBVIOUS
<1>2. PICK m \in T : \A k \in T : m <= k
  <2>1. T \in SUBSET Nat /\ T # {}
    BY <1>1
  <2> HIDE DEF T
  <2>2. QED BY <2>1, LeastNat
<1>3. m \in x
  <2> SUFFICES ASSUME m \notin x PROVE FALSE
    OBVIOUS
  <2>1. PICK y \in x : y \in 1 .. n
    OBVIOUS
  <2>2. \A z \in x : z <= m /\ z # m /\ z \in Nat
    BY <1>2
  <2>3. m - 1 \in Nat /\ \A z \in x : z <= m - 1
    BY <1>2, <2>1, <2>2
  <2>4. QED BY <1>2, <2>3
<1>4. m \in x /\ \A y \in x : m >= y
  BY <1>2, <1>3
<1>5. QED BY <1>4 DEF Max
=============================================================================
