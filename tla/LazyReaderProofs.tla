---------------------------- MODULE LazyReaderProofs ----------------------------
(***************************************************************************)
(* Proofs about lazy loading: what the reader's tables hold at each place  *)
(* of the module's block, that no call fails on a well-formed module, and  *)
(* that the functions appear as they were written.                         *)
(***************************************************************************)
EXTENDS LazyReader, SequenceProofs, FiniteSetTheorems, SequenceTheorems

(***************************************************************************)
(* The document s: its items by kind, and the tables of its writer.        *)
(***************************************************************************)
Owners(s) == {i \in DOMAIN s : HasBody(s, i)}
Bodies(s) == {i \in DOMAIN s : IsBody(s, i)}
Valued(s) == {i \in DOMAIN s : s[i].kind \in {"proto", "constants", "metadata"}}

ValueIds == [item : Nat, nth : Nat, arg : BOOLEAN]
MadeIds  == [item : Nat, nth : Nat, arg : {FALSE}]   \* values that are no arguments
Entries(s) == [func : Functions(s), value : Nat]
Activations == [item : Nat, at : Nat, values : Nat, mds : Nat, next_id : Nat, bbs : Nat, bb : Nat]

AllValues(s)   == ValuesUpTo(s, Len(s))
AllMetadata(s) == MetadataUpTo(s, Len(s))

(* The local values of the body b before item j, the parts of the body they*)
(* come from, and the instructions before j.                               *)
LocalPart(s, b, k) ==
  IF MakesValue(s[b].items[k]) THEN <<[item |-> b, nth |-> k, arg |-> FALSE]>> ELSE << >>

BodyValuesUpTo(s, f, b, n) ==
  AllValues(s) \o Arguments(ProtoOf(s, f), s[ProtoOf(s, f)].args) \o FlattenSeq([k \in 1 .. n |-> LocalPart(s, b, k)])

Ends(s, b) == {k \in DOMAIN s[b].items : s[b].items[k].kind = "ret"}

InstPart(s, f, b, j) ==
  IF s[b].items[j].kind \notin {"call", "ret"} THEN << >>
  ELSE <<[inst |-> j, block |-> 1 + Before(Ends(s, b), j),
          operands |-> IF s[b].items[j].kind = "ret" THEN {}
                       ELSE {BodyValues(s, f, b)[s[b].items[j].operand + 1]}]>>

BodyUpTo(s, f, b, n) == FlattenSeq([k \in 1 .. n |-> InstPart(s, f, b, k)])

-----------------------------------------------------------------------------
(***************************************************************************)
(* The inductive invariant, for the items s of the document.  Pos is the   *)
(* first item of the module's block that ParseModule has not read: where   *)
(* the cursor is while it runs, where it was suspended, or the end.        *)
(***************************************************************************)
Pos == IF Parsing THEN cursor.at ELSE IF cursor.inside THEN next_unread ELSE Len(items) + 1

(* Where the cursor may be, and that a suspended parse can be resumed.     *)
PlaceKnown(s) ==
  /\ cursor \in [at : 1 .. Len(s) + 1, inside : BOOLEAN]
  /\ cursor.inside => cursor.at <= Len(s)
  /\ phase \in {"load", "idle", "find", "search", "rest", "last", "done"}
  /\ Parsing => cursor.inside
  /\ next_unread \in 0 .. Len(s)
  /\ next_unread # 0 => seen.symtab /\ seen.body
  /\ phase = "load" => next_unread = 0
  /\ phase # "load" /\ cursor.inside => next_unread # 0
  /\ ~cursor.inside => next_unread = 0 \/ phase = "last" \/ ~attached
  /\ phase # "load" => \A i \in Valued(s) : i < Pos
  /\ seen \in [symtab : BOOLEAN, body : BOOLEAN, md : BOOLEAN]

(* Bodies are matched with functions by their order.                       *)
QueueInOrder(s) ==
  /\ with_bodies \in Seq(Functions(s))
  /\ seen.body <=> \E b \in Bodies(s) : b < Pos
  /\ IF seen.body
     THEN LET left == Cardinality(Bodies(s)) - Before(Bodies(s), Pos)
          IN  /\ Len(with_bodies) = left
              /\ \A i \in Owners(s) : Before(Owners(s), i) >= Before(Bodies(s), Pos) =>
                   with_bodies[Cardinality(Bodies(s)) - Before(Owners(s), i)] = s[i].func
     ELSE /\ Len(with_bodies) = Before(Owners(s), Pos)
          /\ \A i \in Owners(s) : i < Pos => with_bodies[Before(Owners(s), i) + 1] = s[i].func

(* The place of a body is known from when it was skipped.                  *)
PlacesNoted(s) ==
  deferred = [f \in Functions(s) |->
                IF f \in WithBody(s) /\ BodyOf(s, f) < Pos THEN BodyOf(s, f) ELSE 0]

(* Outside of bodies the tables are the writer's.                          *)
Later(s, ds) == FlattenSeq([k \in DOMAIN ds |-> ItemMetadata(s, ds[k])])

TablesKnown(s) ==
  /\ values \in Seq(ValueIds) /\ mds \in Seq(ValueIds)
  /\ deferred_md \in Seq(Nat) /\ \A k \in DOMAIN deferred_md : deferred_md[k] \in 1 .. Len(s) - 1
  /\ deferred_md # << >> => phase \in {"load", "idle"} /\ lazy
  /\ lazy /\ phase = "load" => ~seen.md
  /\ body = None => /\ values = ValuesUpTo(s, Pos - 1)
                    /\ mds \o Later(s, deferred_md) = MetadataUpTo(s, Pos - 1)

(* Each initialiser is given or waits.                                     *)
InitOf(s, i) == [func |-> s[i].func, value |-> s[i].init - 1]
Initialised(s) == {i \in Protos(s) : s[i].init # 0}

InitsKept(s) ==
  /\ inits \in Seq(Entries(s))
  /\ \A k \in DOMAIN inits : \E i \in Initialised(s) : i < Pos /\ inits[k] = InitOf(s, i)
  /\ seen.body \/ phase # "load" => inits = << >>
  /\ given = [f \in Functions(s) |-> given[f]]
  /\ \A i \in Protos(s) : s[i].init = 0 \/ i >= Pos => given[s[i].func] = None
  /\ \A i \in Initialised(s) : i < Pos =>
       \/ given[s[i].func] = AllValues(s)[s[i].init]
       \/ \E k \in DOMAIN inits : inits[k] = InitOf(s, i)

(* Functions are empty until their body has been read, and then whole.     *)
FunctionsWhole(s) ==
  /\ blocks = [f \in Functions(s) |-> blocks[f]]
  /\ materializable = IF phase = "load" THEN {s[i].func : i \in {j \in Owners(s) : j < Pos}}
                      ELSE materializable \cap WithBody(s)
  /\ \A f \in WithBody(s) :
       \/ phase = "load" /\ blocks[f] = << >>
       \/ phase # "load" /\ f \in materializable /\ (blocks[f] = << >> \/ (body # None /\ f = func))
       \/ phase # "load" /\ f \notin materializable /\ blocks[f] = WrittenBody(s, f) /\ BodyOf(s, f) < Pos

(* The call in progress, and the functions it has yet to visit.            *)
CallInOrder(s) ==
  /\ func \in Functions(s) \cup {None}
  /\ phase \in {"find", "search"} => func \in materializable
  /\ phase = "search" => Pos <= BodyOf(s, func)
  /\ todo = None \/ todo \in Seq(Functions(s))
  /\ phase \in {"load", "idle"} => todo = None
  /\ phase \in {"rest", "last"} => todo = << >>
  /\ todo # None => \A f \in materializable :
       Has(todo, f) \/ (phase \in {"find", "search"} /\ f = func)
  /\ attached \in BOOLEAN /\ (~attached => phase = "idle")

(* Inside a body, the tables are those of its writer so far.               *)
BodyInOrder(s) ==
  body # None =>
    LET b == body.item
        j == body.at
    IN  /\ body \in Activations /\ phase = "find"
        /\ b = BodyOf(s, func) /\ b < Pos /\ cursor.at = b /\ j \in 1 .. Len(s[b].items) + 1
        /\ values = BodyValuesUpTo(s, func, b, j - 1)
        /\ body.next_id = Len(values) /\ body.values = Len(AllValues(s))
        /\ body.mds <= Len(mds) /\ SubSeq(mds, 1, body.mds) = AllMetadata(s)
        /\ blocks[func] = BodyUpTo(s, func, b, j - 1)
        /\ j # 1 => body.bbs = Cardinality(Ends(s, b)) /\ body.bb = 1 + Before(Ends(s, b), j)

InOrderOf(s) ==
  /\ ~error /\ PlaceKnown(s) /\ QueueInOrder(s) /\ PlacesNoted(s) /\ TablesKnown(s) /\ InitsKept(s)
  /\ FunctionsWhole(s) /\ CallInOrder(s) /\ BodyInOrder(s)

IInv == \E d \in Documents : doc = d /\ lazy \in BOOLEAN /\ InOrderOf(d.items)

-----------------------------------------------------------------------------
(***************************************************************************)
(* Counting the members of a set of numbers that are below a number.       *)
(***************************************************************************)
LEMMA BeforeFacts ==
  ASSUME NEW n \in Nat, NEW S, S \subseteq 1 .. n
  PROVE  /\ Cardinality(S) \in Nat /\ Before(S, 1) = 0 /\ Before(S, n + 1) = Cardinality(S)
         /\ \A p \in 1 .. n + 1 : Before(S, p) \in Nat /\ Before(S, p) <= Cardinality(S)
         /\ \A p \in 1 .. n : Before(S, p + 1) = Before(S, p) + (IF p \in S THEN 1 ELSE 0)
<1>1. IsFiniteSet(1 .. n)
  BY FS_Interval
<1>2. IsFiniteSet(S) /\ Cardinality(S) \in Nat
  <2>1. S \in SUBSET (1 .. n)
    OBVIOUS
  <2>2. IsFiniteSet(S)
    BY <1>1, <2>1, FS_Subset
  <2>3. QED BY <2>2, FS_CardinalityType
<1>3. \A p : IsFiniteSet({j \in S : j < p}) /\ Before(S, p) \in Nat /\ Before(S, p) <= Cardinality(S)
  <2> SUFFICES ASSUME NEW p
               PROVE  IsFiniteSet({j \in S : j < p}) /\ Before(S, p) \in Nat /\ Before(S, p) <= Cardinality(S)
    OBVIOUS
  <2> DEFINE B == {j \in S : j < p}
  <2>1. B \in SUBSET S
    OBVIOUS
  <2> HIDE DEF B
  <2>2. IsFiniteSet(B) /\ Cardinality(B) <= Cardinality(S)
    BY <1>2, <2>1, FS_Subset
  <2>3. Cardinality(B) \in Nat
    BY <2>2, FS_CardinalityType
  <2>4. QED BY <2>2, <2>3 DEF B, Before
<1>4. Before(S, 1) = 0
  <2>1. \A j \in S : j \in 1 .. n /\ ~ (j < 1)
    OBVIOUS
  <2>2. {j \in S : j < 1} = {}
    BY ONLY <2>1
  <2>3. QED BY <2>2, FS_EmptySet DEF Before
<1>5. Before(S, n + 1) = Cardinality(S)
  <2>1. \A j \in S : j \in 1 .. n /\ j < n + 1
    OBVIOUS
  <2>2. {j \in S : j < n + 1} = S
    BY ONLY <2>1
  <2>3. QED BY <2>2 DEF Before
<1>6. ASSUME NEW p \in 1 .. n PROVE Before(S, p + 1) = Before(S, p) + (IF p \in S THEN 1 ELSE 0)
  <2> DEFINE B == {j \in S : j < p}
  <2>1. IsFiniteSet(B) /\ Before(S, p) = Cardinality(B) /\ Cardinality(B) \in Nat
    BY <1>3 DEF Before
  <2>2. {j \in S : j < p + 1} = IF p \in S THEN B \cup {p} ELSE B
    <3>1. \A j \in S : j < p + 1 <=> j < p \/ j = p
      OBVIOUS
    <3>2. QED BY <3>1
  <2>3. p \notin B
    OBVIOUS
  <2> HIDE DEF B
  <2>4. Cardinality(B \cup {p}) = Cardinality(B) + 1
    BY <2>1, <2>3, FS_AddElement
  <2>5. QED BY <2>1, <2>2, <2>4 DEF Before
<1>7. QED BY <1>2, <1>3, <1>4, <1>5, <1>6

(***************************************************************************)
(* The count grows at the members and nowhere else.                        *)
(***************************************************************************)
LEMMA BeforeGrows ==
  ASSUME NEW n \in Nat, NEW S, S \subseteq 1 .. n, NEW i \in 1 .. n + 1, NEW j \in 1 .. n + 1, i <= j
  PROVE  /\ Before(S, i) <= Before(S, j)
         /\ i \in S /\ i < j => Before(S, i) < Before(S, j)
<1>1. ASSUME NEW k \in 1 .. n + 1, k <= j PROVE Before(S, k) <= Before(S, j)
  <2> DEFINE A == {m \in S : m < k}
             B == {m \in S : m < j}
  <2>1. A \in SUBSET B
    <3>1. \A m \in S : m < k => m < j
      <4>1. \A m \in S : m \in Int
        OBVIOUS
      <4>2. QED BY <1>1, <4>1
    <3>2. QED BY ONLY <3>1
  <2>2. IsFiniteSet(B)
    <3>1. IsFiniteSet(1 .. n) /\ B \in SUBSET (1 .. n)
      <4>1. IsFiniteSet(1 .. n)
        BY FS_Interval
      <4>2. B \in SUBSET (1 .. n)
        BY ONLY S \subseteq 1 .. n
      <4>3. QED BY <4>1, <4>2
    <3> HIDE DEF B
    <3>2. QED BY <3>1, FS_Subset
  <2> HIDE DEF A, B
  <2>3. Cardinality(A) <= Cardinality(B)
    BY <2>1, <2>2, FS_Subset
  <2>4. QED BY <2>3 DEF A, B, Before
<1>2. ASSUME i \in S, i < j PROVE Before(S, i) < Before(S, j)
  <2>1. i \in 1 .. n /\ i + 1 \in 1 .. n + 1 /\ i + 1 <= j
    BY <1>2
  <2>2. Before(S, i + 1) = Before(S, i) + 1 /\ Before(S, i) \in Nat /\ Before(S, j) \in Nat
    BY <1>2, <2>1, BeforeFacts
  <2>3. Before(S, i + 1) <= Before(S, j)
    BY <1>1, <2>1
  <2>4. QED BY ONLY <2>2, <2>3
<1>3. QED BY <1>1, <1>2

(* Members are told apart by their count, ...                              *)
LEMMA BeforeOnce ==
  ASSUME NEW n \in Nat, NEW S, S \subseteq 1 .. n, NEW i \in S, NEW j \in S,
         Before(S, i) = Before(S, j)
  PROVE  i = j
<1>1. i \in 1 .. n + 1 /\ j \in 1 .. n + 1
  OBVIOUS
<1>2. Before(S, i) \in Nat
  BY <1>1, BeforeFacts
<1>3. ASSUME NEW x \in S, NEW y \in S, x < y, Before(S, x) = Before(S, i), Before(S, y) = Before(S, i)
      PROVE  FALSE
  <2>1. x \in 1 .. n + 1 /\ y \in 1 .. n + 1 /\ x <= y
    BY <1>3
  <2>2. x \in S /\ x < y => Before(S, x) < Before(S, y)
    BY ONLY <2>1, n \in Nat, S \subseteq 1 .. n, BeforeGrows
  <2>3. QED BY ONLY <1>2, <1>3, <2>2
<1>4. i < j \/ j < i \/ i = j
  BY <1>1
<1>5. QED BY <1>3, <1>4

(* ... and every number up to their number is the count of one.            *)
LEMMA BeforeOnto ==
  ASSUME NEW n \in Nat, NEW S, S \subseteq 1 .. n, NEW r \in Nat, r < Cardinality(S)
  PROVE  \E i \in S : Before(S, i) = r
<1> DEFINE T == {p \in Nat : p \in 1 .. n + 1 /\ Before(S, p) > r}
<1>1. n + 1 \in T
  <2>1. Before(S, n + 1) = Cardinality(S) /\ Cardinality(S) \in Nat
    BY BeforeFacts
  <2>2. n + 1 \in Nat /\ n + 1 \in 1 .. n + 1
    OBVIOUS
  <2>3. QED BY ONLY <2>1, <2>2, r \in Nat, r < Cardinality(S)
<1>2. PICK m \in T : \A k \in T : m <= k
  <2>1. T \in SUBSET Nat /\ T # {}
    BY <1>1
  <2> HIDE DEF T
  <2>2. QED BY <2>1, LeastNat
<1>3. m \in 1 .. n + 1 /\ Before(S, m) > r
  BY <1>2
<1>4. m # 1
  <2>1. Before(S, 1) = 0
    BY BeforeFacts
  <2>2. QED BY ONLY <1>3, <2>1, r \in Nat
<1>5. m - 1 \in 1 .. n /\ m - 1 \in Nat /\ (m - 1) + 1 = m /\ m - 1 \in 1 .. n + 1 /\ ~ (m <= m - 1)
  BY <1>3, <1>4
<1>6. ~ (Before(S, m - 1) > r)
  BY <1>2, <1>5
<1>7. Before(S, m - 1) \in Nat /\ Before(S, m) = Before(S, m - 1) + (IF m - 1 \in S THEN 1 ELSE 0)
  <2>1. \A p \in 1 .. n : Before(S, p + 1) = Before(S, p) + (IF p \in S THEN 1 ELSE 0)
    BY BeforeFacts
  <2>2. \A p \in 1 .. n + 1 : Before(S, p) \in Nat
    BY BeforeFacts
  <2>3. QED BY ONLY <1>5, <2>1, <2>2
<1>8. m - 1 \in S /\ Before(S, m - 1) = r
  BY ONLY <1>3, <1>6, <1>7, r \in Nat
<1>9. QED BY <1>8

-----------------------------------------------------------------------------
(***************************************************************************)
(* What a well-formed document looks like.                                 *)
(***************************************************************************)
LEMMA Document ==
  ASSUME NEW s, WellFormed(s)
  PROVE  /\ Len(s) \in Nat /\ Len(s) >= 1 /\ DOMAIN s = 1 .. Len(s)
         /\ \A i \in DOMAIN s : s[i].kind = "end" <=> i = Len(s)
         /\ Bodies(s) \subseteq 1 .. Len(s) - 1 /\ Valued(s) \subseteq 1 .. Len(s) - 1
         /\ Owners(s) \subseteq Protos(s) /\ Protos(s) \subseteq Valued(s)
         /\ Protos(s) = {i \in DOMAIN s : s[i].kind = "proto"}
         /\ \A i \in Valued(s) : \A b \in Bodies(s) : i < b
         /\ Cardinality(Bodies(s)) = Cardinality(Owners(s))
         /\ WithBody(s) = {s[i].func : i \in Owners(s)} /\ WithBody(s) \subseteq Functions(s)
<1>1. Shaped(s) /\ {i \in DOMAIN s : s[i].kind = "end"} = {Len(s)}
  BY DEF WellFormed
<1>2. Len(s) \in Nat /\ DOMAIN s = 1 .. Len(s)
  BY <1>1 DEF Shaped, IsSequence
<1>3. Len(s) \in DOMAIN s /\ \A i \in DOMAIN s : s[i].kind = "end" <=> i = Len(s)
  BY <1>1
<1>4. Len(s) >= 1
  BY <1>2, <1>3
<1>5. Bodies(s) \subseteq 1 .. Len(s) - 1 /\ Valued(s) \subseteq 1 .. Len(s) - 1
  BY <1>2, <1>3 DEF Bodies, Valued, IsBody
<1>6. /\ Owners(s) \subseteq Protos(s) /\ Protos(s) \subseteq Valued(s)
      /\ Protos(s) = {i \in DOMAIN s : s[i].kind = "proto"}
  BY DEF Owners, Protos, Valued, HasBody, IsProto
<1>7. /\ \A i \in Valued(s) : \A b \in Bodies(s) : i < b
      /\ Cardinality(Bodies(s)) = Cardinality(Owners(s))
  BY Zenon DEF WellFormed, Bodies, Owners, Valued
<1>8. WithBody(s) = {s[i].func : i \in Owners(s)}
  BY Zenon DEF WithBody, Owners
<1>9. WithBody(s) \subseteq Functions(s)
  BY <1>6, <1>8 DEF Functions
<1>10. QED BY <1>2, <1>3, <1>4, <1>5, <1>6, <1>7, <1>8, <1>9

(* Each function has one record.                                           *)
LEMMA RecordOf ==
  ASSUME NEW s, WellFormed(s), NEW i \in Protos(s)
  PROVE  /\ ProtoOf(s, s[i].func) = i /\ s[i].func \in Functions(s)
         /\ s[i].body \in BOOLEAN /\ s[i].args \in Nat /\ s[i].init \in Nat
         /\ (i \in Owners(s) <=> s[i].body) /\ (s[i].func \in WithBody(s) <=> s[i].body)
<1>1. \A j \in Protos(s) : s[i].func = s[j].func => i = j
  BY DEF WellFormed
<1>2. ProtoOf(s, s[i].func) = i
  BY <1>1 DEF ProtoOf
<1>3. i \in DOMAIN s /\ s[i].kind = "proto"
  BY DEF Protos, IsProto
<1>4. s[i].body \in BOOLEAN /\ s[i].args \in Nat /\ s[i].init \in Nat
  BY <1>3 DEF WellFormed, Shaped
<1>5. i \in Owners(s) <=> s[i].body
  BY <1>3, <1>4 DEF Owners, HasBody, IsProto
<1>6. s[i].func \in WithBody(s) <=> s[i].body
  BY <1>1, <1>5, Document
<1>7. QED BY <1>2, <1>4, <1>5, <1>6 DEF Functions

(* Functions and bodies are matched by their order.                        *)
LEMMA BodyMatched ==
  ASSUME NEW s, WellFormed(s), NEW i \in Owners(s)
  PROVE  /\ BodyOf(s, s[i].func) \in Bodies(s)
         /\ Before(Bodies(s), BodyOf(s, s[i].func)) = Before(Owners(s), i)
         /\ \A b \in Bodies(s) : Before(Bodies(s), b) = Before(Owners(s), i) => b = BodyOf(s, s[i].func)
<1>1. /\ Len(s) \in Nat /\ Bodies(s) \subseteq 1 .. Len(s) /\ Owners(s) \subseteq 1 .. Len(s)
      /\ i \in Protos(s) /\ Cardinality(Bodies(s)) = Cardinality(Owners(s))
  BY Document
<1>2. ProtoOf(s, s[i].func) = i
  BY <1>1, RecordOf
<1>3. Before(Owners(s), i) \in Nat /\ Before(Owners(s), i) < Cardinality(Owners(s))
  <2>1. i \in 1 .. Len(s) + 1 /\ Len(s) + 1 \in 1 .. Len(s) + 1 /\ i < Len(s) + 1
    BY <1>1
  <2>2. QED BY <1>1, <2>1, BeforeGrows, BeforeFacts, SMTT(20)
<1>4. PICK b \in Bodies(s) : Before(Bodies(s), b) = Before(Owners(s), i)
  BY <1>1, <1>3, BeforeOnto
<1> DEFINE f == s[i].func
           R(x) == Before(Bodies(s), x) = Before(Owners(s), ProtoOf(s, f))
<1>5. BodyOf(s, f) = CHOOSE x \in Bodies(s) : R(x)
  BY Zenon DEF BodyOf, Bodies, Owners
<1>6. R(b)
  BY <1>2, <1>4
<1>7. BodyOf(s, f) \in Bodies(s) /\ R(BodyOf(s, f))
  <2> HIDE DEF R
  <2>1. QED BY <1>5, <1>6
<1>8. \A x \in Bodies(s) : Before(Bodies(s), x) = Before(Owners(s), i) => x = BodyOf(s, f)
  BY <1>1, <1>2, <1>7, BeforeOnce
<1>9. QED BY <1>2, <1>7, <1>8

(* Every body belongs to a function.                                       *)
LEMMA OwnerOf ==
  ASSUME NEW s, WellFormed(s), NEW b \in Bodies(s)
  PROVE  \E i \in Owners(s) : Before(Owners(s), i) = Before(Bodies(s), b) /\ BodyOf(s, s[i].func) = b
<1>1. /\ Len(s) \in Nat /\ Bodies(s) \subseteq 1 .. Len(s) /\ Owners(s) \subseteq 1 .. Len(s)
      /\ Cardinality(Bodies(s)) = Cardinality(Owners(s))
  BY Document
<1>2. Before(Bodies(s), b) \in Nat /\ Before(Bodies(s), b) < Cardinality(Bodies(s))
  <2>1. b \in 1 .. Len(s) + 1 /\ Len(s) + 1 \in 1 .. Len(s) + 1 /\ b < Len(s) + 1
    BY <1>1
  <2>2. QED BY <1>1, <2>1, BeforeGrows, BeforeFacts
<1>3. PICK i \in Owners(s) : Before(Owners(s), i) = Before(Bodies(s), b)
  BY <1>1, <1>2, BeforeOnto
<1>4. QED BY <1>3, BodyMatched

-----------------------------------------------------------------------------
(* The values and the metadata that an item makes.                         *)
LEMMA ItemTables ==
  ASSUME NEW s, WellFormed(s), NEW i \in DOMAIN s
  PROVE  /\ ItemValues(s, i) \in Seq(MadeIds) /\ ItemMetadata(s, i) \in Seq(MadeIds)
         /\ s[i].kind \notin {"proto", "constants"} => ItemValues(s, i) = << >>
         /\ s[i].kind # "metadata" => ItemMetadata(s, i) = << >>
         /\ i \notin Valued(s) => ItemValues(s, i) = << >> /\ ItemMetadata(s, i) = << >>
<1>1. i \in Nat
  BY Document
<1>2. s[i].kind \in {"constants", "metadata"} => s[i].count \in Nat
  BY DEF WellFormed, Shaped
<1>3. \A n \in Nat : Made(i, n) \in Seq(MadeIds)
  BY <1>1 DEF Made, MadeIds
<1>4. ItemValues(s, i) \in Seq(MadeIds)
  <2>1. << >> \in Seq(MadeIds)
    OBVIOUS
  <2>2. QED BY <1>2, <1>3, <2>1 DEF ItemValues
<1>5. ItemMetadata(s, i) \in Seq(MadeIds)
  <2>1. << >> \in Seq(MadeIds)
    OBVIOUS
  <2>2. QED BY <1>2, <1>3, <2>1 DEF ItemMetadata
<1>6. s[i].kind \notin {"proto", "constants"} => ItemValues(s, i) = << >>
  BY DEF ItemValues
<1>7. s[i].kind # "metadata" => ItemMetadata(s, i) = << >>
  BY DEF ItemMetadata
<1>8. QED BY <1>4, <1>5, <1>6, <1>7 DEF Valued

(* How the writer's tables grow from item to item.                         *)
LEMMA ValuesGrow ==
  ASSUME NEW s, WellFormed(s)
  PROVE  /\ ValuesUpTo(s, 0) = << >>
         /\ \A n \in 0 .. Len(s) :
              /\ ValuesUpTo(s, n) \in Seq(MadeIds) /\ Starts(ValuesUpTo(s, n), AllValues(s))
              /\ (\A i \in Valued(s) : i <= n) => ValuesUpTo(s, n) = AllValues(s)
         /\ \A i \in 1 .. Len(s) : ValuesUpTo(s, i) = ValuesUpTo(s, i - 1) \o ItemValues(s, i)
<1> DEFINE N == Len(s)
           e == [i \in 1 .. N |-> ItemValues(s, i)]
<1>1. N \in Nat /\ DOMAIN s = 1 .. N
  BY Document
<1>2. e \in [1 .. N -> Seq(MadeIds)] /\ \A i \in 1 .. N : e[i] = ItemValues(s, i)
  BY <1>1, ItemTables
<1>3. \A n \in 0 .. N : ValuesUpTo(s, n) = FirstOf(e, n)
  <2> SUFFICES ASSUME NEW n \in 0 .. N PROVE ValuesUpTo(s, n) = FirstOf(e, n)
    OBVIOUS
  <2>1. [i \in 1 .. n |-> ItemValues(s, i)] = [i \in 1 .. n |-> e[i]]
    <3>1. \A i \in 1 .. n : i \in 1 .. N
      BY <1>1
    <3>2. \A i \in 1 .. n : ItemValues(s, i) = e[i]
      BY <1>2, <3>1
    <3> HIDE DEF e
    <3>3. QED BY <3>2
  <2>2. QED BY <2>1 DEF ValuesUpTo, FirstOf
<1> HIDE DEF e
<1>4. /\ FirstOf(e, 0) = << >>
      /\ \A n \in 0 .. N :
           /\ FirstOf(e, n) \in Seq(MadeIds) /\ Starts(FirstOf(e, n), FirstOf(e, N))
           /\ (\A i \in 1 .. N : i > n => e[i] = << >>) => FirstOf(e, n) = FirstOf(e, N)
      /\ \A n \in 0 .. N - 1 : FirstOf(e, n + 1) = FirstOf(e, n) \o e[n + 1]
  BY <1>1, <1>2, FirstOfFacts
<1>5. AllValues(s) = FirstOf(e, N) /\ ValuesUpTo(s, 0) = FirstOf(e, 0)
  BY <1>1, <1>3 DEF AllValues
<1>6. ASSUME NEW n \in 0 .. N, \A i \in Valued(s) : i <= n PROVE ValuesUpTo(s, n) = AllValues(s)
  <2>1. ASSUME NEW i \in 1 .. N, i > n PROVE e[i] = << >>
    <3>1. i \notin Valued(s)
      <4>1. ~ (i <= n)
        BY <1>1, <2>1
      <4>2. QED BY <1>6, <4>1
    <3>2. QED BY <1>1, <1>2, <3>1, ItemTables
  <2>2. QED BY <1>3, <1>4, <1>5, <2>1
<1>7. ASSUME NEW i \in 1 .. N PROVE ValuesUpTo(s, i) = ValuesUpTo(s, i - 1) \o ItemValues(s, i)
  <2>1. i - 1 \in 0 .. N - 1 /\ (i - 1) + 1 = i /\ i \in 0 .. N /\ i - 1 \in 0 .. N
    BY <1>1
  <2>2. FirstOf(e, (i - 1) + 1) = FirstOf(e, i - 1) \o e[(i - 1) + 1]
    BY <1>4, <2>1
  <2>3. QED BY <1>2, <1>3, <2>1, <2>2
<1>8. QED BY <1>3, <1>4, <1>5, <1>6, <1>7

(* And so for metadata.                                                    *)
LEMMA MetadataGrows ==
  ASSUME NEW s, WellFormed(s)
  PROVE  /\ MetadataUpTo(s, 0) = << >>
         /\ \A n \in 0 .. Len(s) :
              /\ MetadataUpTo(s, n) \in Seq(MadeIds)
              /\ (\A i \in Valued(s) : i <= n) => MetadataUpTo(s, n) = AllMetadata(s)
         /\ \A i \in 1 .. Len(s) : MetadataUpTo(s, i) = MetadataUpTo(s, i - 1) \o ItemMetadata(s, i)
<1> DEFINE N == Len(s)
           e == [i \in 1 .. N |-> ItemMetadata(s, i)]
<1>1. N \in Nat /\ DOMAIN s = 1 .. N
  BY Document
<1>2. e \in [1 .. N -> Seq(MadeIds)] /\ \A i \in 1 .. N : e[i] = ItemMetadata(s, i)
  BY <1>1, ItemTables
<1>3. \A n \in 0 .. N : MetadataUpTo(s, n) = FirstOf(e, n)
  <2> SUFFICES ASSUME NEW n \in 0 .. N PROVE MetadataUpTo(s, n) = FirstOf(e, n)
    OBVIOUS
  <2>1. [i \in 1 .. n |-> ItemMetadata(s, i)] = [i \in 1 .. n |-> e[i]]
    <3>1. \A i \in 1 .. n : i \in 1 .. N
      BY <1>1
    <3>2. \A i \in 1 .. n : ItemMetadata(s, i) = e[i]
      BY <1>2, <3>1
    <3> HIDE DEF e
    <3>3. QED BY <3>2
  <2>2. QED BY <2>1 DEF MetadataUpTo, FirstOf
<1> HIDE DEF e
<1>4. /\ FirstOf(e, 0) = << >>
      /\ \A n \in 0 .. N :
           /\ FirstOf(e, n) \in Seq(MadeIds) /\ Starts(FirstOf(e, n), FirstOf(e, N))
           /\ (\A i \in 1 .. N : i > n => e[i] = << >>) => FirstOf(e, n) = FirstOf(e, N)
      /\ \A n \in 0 .. N - 1 : FirstOf(e, n + 1) = FirstOf(e, n) \o e[n + 1]
  BY <1>1, <1>2, FirstOfFacts
<1>5. AllMetadata(s) = FirstOf(e, N) /\ MetadataUpTo(s, 0) = FirstOf(e, 0)
  BY <1>1, <1>3 DEF AllMetadata
<1>6. ASSUME NEW n \in 0 .. N, \A i \in Valued(s) : i <= n PROVE MetadataUpTo(s, n) = AllMetadata(s)
  <2>1. ASSUME NEW i \in 1 .. N, i > n PROVE e[i] = << >>
    <3>1. i \notin Valued(s)
      <4>1. ~ (i <= n)
        BY <1>1, <2>1
      <4>2. QED BY <1>6, <4>1
    <3>2. QED BY <1>1, <1>2, <3>1, ItemTables
  <2>2. QED BY <1>3, <1>4, <1>5, <2>1
<1>7. ASSUME NEW i \in 1 .. N PROVE MetadataUpTo(s, i) = MetadataUpTo(s, i - 1) \o ItemMetadata(s, i)
  <2>1. i - 1 \in 0 .. N - 1 /\ (i - 1) + 1 = i /\ i \in 0 .. N /\ i - 1 \in 0 .. N
    BY <1>1
  <2>2. FirstOf(e, (i - 1) + 1) = FirstOf(e, i - 1) \o e[(i - 1) + 1]
    BY <1>4, <2>1
  <2>3. QED BY <1>2, <1>3, <2>1, <2>2
<1>8. QED BY <1>3, <1>4, <1>5, <1>6, <1>7

(* Metadata put off is what its blocks hold, in their order.               *)
LEMMA LaterGrows ==
  ASSUME NEW s, WellFormed(s), NEW ds \in Seq(DOMAIN s)
  PROVE  /\ Later(s, ds) \in Seq(MadeIds) /\ Later(s, << >>) = << >>
         /\ \A i \in DOMAIN s : Later(s, Append(ds, i)) = Later(s, ds) \o ItemMetadata(s, i)
<1> DEFINE part(d) == [k \in DOMAIN d |-> ItemMetadata(s, d[k])]
<1>1. \A d \in Seq(DOMAIN s) : /\ part(d) \in Seq(Seq(MadeIds)) /\ Len(part(d)) = Len(d)
                               /\ \A k \in 1 .. Len(d) : part(d)[k] = ItemMetadata(s, d[k])
  <2> SUFFICES ASSUME NEW d \in Seq(DOMAIN s)
               PROVE  /\ part(d) \in Seq(Seq(MadeIds)) /\ Len(part(d)) = Len(d)
                      /\ \A k \in 1 .. Len(d) : part(d)[k] = ItemMetadata(s, d[k])
    OBVIOUS
  <2>1. \A k \in 1 .. Len(d) : ItemMetadata(s, d[k]) \in Seq(MadeIds)
    BY ItemTables
  <2>2. DOMAIN d = 1 .. Len(d) /\ Len(d) \in Nat
    OBVIOUS
  <2>3. QED BY <2>1, <2>2
<1>2. \A d : Later(s, d) = FlattenSeq(part(d))
  BY DEF Later
<1>3. Later(s, << >>) = << >>
  <2>1. part(<< >>) = << >> /\ Len(part(<< >>)) = 0
    OBVIOUS
  <2> HIDE DEF part
  <2>2. FlattenSeq(part(<< >>)) = part(<< >>)
    BY <2>1, Zenon DEF FlattenSeq
  <2>3. QED BY <1>2, <2>1, <2>2
<1> HIDE DEF part
<1>4. Later(s, ds) \in Seq(MadeIds)
  BY <1>1, <1>2, FlattenMadeOf
<1>5. ASSUME NEW i \in DOMAIN s PROVE Later(s, Append(ds, i)) = Later(s, ds) \o ItemMetadata(s, i)
  <2> DEFINE n == Len(ds)
             d == Append(ds, i)
  <2>1. /\ d \in Seq(DOMAIN s) /\ Len(d) = n + 1 /\ n \in Nat /\ d[n + 1] = i
        /\ \A k \in 1 .. n : d[k] = ds[k] /\ k \in 1 .. n + 1
    OBVIOUS
  <2> HIDE DEF d
  <2>2. /\ part(d) \in Seq(Seq(MadeIds)) /\ Len(part(d)) = n + 1
        /\ \A k \in 1 .. n + 1 : part(d)[k] = ItemMetadata(s, d[k])
        /\ part(ds) \in Seq(Seq(MadeIds)) /\ Len(part(ds)) = n
        /\ \A k \in 1 .. n : part(ds)[k] = ItemMetadata(s, ds[k])
    BY <1>1, <2>1
  <2>3. n + 1 \in 1 .. n + 1 /\ \A k \in 1 .. n : part(ds)[k] = part(d)[k]
    BY <2>1, <2>2
  <2>4. FlattenSeq(part(d)) = FlattenSeq(part(ds)) \o part(d)[n + 1]
    <3> HIDE DEF n
    <3>1. QED BY <2>1, <2>2, <2>3, FlattenMore
  <2>5. QED BY <1>2, <2>1, <2>2, <2>3, <2>4 DEF d
<1>6. QED BY <1>3, <1>4, <1>5

-----------------------------------------------------------------------------
(* The items of a body.                                                    *)
LEMMA CodeOf ==
  ASSUME NEW s, WellFormed(s), NEW b \in Bodies(s)
  PROVE  /\ b \in Nat /\ b \in DOMAIN s /\ Len(s[b].items) \in Nat /\ DOMAIN s[b].items = 1 .. Len(s[b].items)
         /\ \A j \in 1 .. Len(s[b].items) :
              /\ s[b].items[j].kind \in {"declare", "value", "md", "call", "ret"}
              /\ s[b].items[j].kind = "declare" => s[b].items[j].blocks \in Nat
              /\ s[b].items[j].kind = "call" => s[b].items[j].operand \in Nat /\ s[b].items[j].value \in BOOLEAN
<1>1. b \in DOMAIN s /\ s[b].kind = "body" /\ b \in Nat
  <2>1. b \in DOMAIN s /\ s[b].kind = "body"
    BY DEF Bodies, IsBody
  <2>2. QED BY <2>1, Document
<1>2. ShapedCode(s[b].items)
  BY <1>1 DEF WellFormed, Shaped
<1>3. QED BY <1>1, <1>2 DEF ShapedCode, IsSequence

Locals(s, b, n) == FlattenSeq([k \in 1 .. n |-> LocalPart(s, b, k)])
Makers(s, b) == {k \in 1 .. Len(s[b].items) : MakesValue(s[b].items[k])}

(* The local values of a body, and their number.                           *)
LEMMA LocalsGrow ==
  ASSUME NEW s, WellFormed(s), NEW b \in Bodies(s)
  PROVE  LET M == Len(s[b].items)
         IN  /\ Locals(s, b, 0) = << >>
             /\ \A n \in 0 .. M :
                  /\ Locals(s, b, n) \in Seq(MadeIds) /\ Starts(Locals(s, b, n), Locals(s, b, M))
                  /\ Len(Locals(s, b, n)) = Before(Makers(s, b), n + 1)
             /\ \A j \in 1 .. M : Locals(s, b, j) = Locals(s, b, j - 1) \o LocalPart(s, b, j)
<1> DEFINE M == Len(s[b].items)
           e == [k \in 1 .. M |-> LocalPart(s, b, k)]
           K == Makers(s, b)
<1>1. M \in Nat /\ b \in Nat
  BY CodeOf
<1>2. \A k \in 1 .. M : LocalPart(s, b, k) \in Seq(MadeIds)
                          /\ Len(LocalPart(s, b, k)) = IF k \in K THEN 1 ELSE 0
  <2> SUFFICES ASSUME NEW k \in 1 .. M
               PROVE  LocalPart(s, b, k) \in Seq(MadeIds) /\ Len(LocalPart(s, b, k)) = IF k \in K THEN 1 ELSE 0
    OBVIOUS
  <2>1. k \in Nat
    BY <1>1
  <2>2. [item |-> b, nth |-> k, arg |-> FALSE] \in MadeIds
    BY <1>1, <2>1 DEF MadeIds
  <2>3. k \in K <=> MakesValue(s[b].items[k])
    BY DEF Makers
  <2>4. CASE k \in K
    <3>1. LocalPart(s, b, k) = <<[item |-> b, nth |-> k, arg |-> FALSE]>>
      BY <2>3, <2>4 DEF LocalPart
    <3>2. QED BY <2>2, <2>4, <3>1
  <2>5. CASE k \notin K
    <3>1. LocalPart(s, b, k) = << >>
      BY <2>3, <2>5 DEF LocalPart
    <3>2. QED BY <2>5, <3>1
  <2>6. QED BY <2>4, <2>5
<1>3. e \in [1 .. M -> Seq(MadeIds)] /\ \A k \in 1 .. M : e[k] = LocalPart(s, b, k)
  BY <1>2
<1>4. \A n \in 0 .. M : Locals(s, b, n) = FirstOf(e, n)
  <2> SUFFICES ASSUME NEW n \in 0 .. M PROVE Locals(s, b, n) = FirstOf(e, n)
    OBVIOUS
  <2>1. [i \in 1 .. n |-> LocalPart(s, b, i)] = [i \in 1 .. n |-> e[i]]
    <3>1. \A i \in 1 .. n : i \in 1 .. M
      BY <1>1
    <3>2. \A i \in 1 .. n : LocalPart(s, b, i) = e[i]
      BY <1>3, <3>1
    <3> HIDE DEF e
    <3>3. QED BY <3>2
  <2>2. QED BY <2>1 DEF Locals, FirstOf
<1> HIDE DEF e
<1>5. /\ FirstOf(e, 0) = << >>
      /\ \A n \in 0 .. M :
           /\ FirstOf(e, n) \in Seq(MadeIds) /\ Starts(FirstOf(e, n), FirstOf(e, M))
           /\ (\A i \in 1 .. M : i > n => e[i] = << >>) => FirstOf(e, n) = FirstOf(e, M)
      /\ \A n \in 0 .. M - 1 : FirstOf(e, n + 1) = FirstOf(e, n) \o e[n + 1]
  BY <1>1, <1>3, FirstOfFacts
<1>6. 0 \in 0 .. M /\ M \in 0 .. M
  BY <1>1
<1>7. Locals(s, b, 0) = << >>
  BY <1>4, <1>5, <1>6
<1>8. \A n \in 0 .. M : Locals(s, b, n) \in Seq(MadeIds) /\ Starts(Locals(s, b, n), Locals(s, b, M))
  BY <1>4, <1>5, <1>6
<1>9. ASSUME NEW j \in 1 .. M PROVE Locals(s, b, j) = Locals(s, b, j - 1) \o LocalPart(s, b, j)
  <2>1. j - 1 \in 0 .. M - 1 /\ (j - 1) + 1 = j /\ j \in 0 .. M /\ j - 1 \in 0 .. M
    BY <1>1
  <2>2. FirstOf(e, (j - 1) + 1) = FirstOf(e, j - 1) \o e[(j - 1) + 1]
    BY <1>5, <2>1
  <2>3. QED BY <1>3, <1>4, <2>1, <2>2
<1>10. \A n \in 0 .. M : Len(Locals(s, b, n)) = Before(K, n + 1)
  <2> DEFINE T == {n \in Nat : n \in 0 .. M /\ Len(Locals(s, b, n)) # Before(K, n + 1)}
  <2>0. K \subseteq 1 .. M
    BY DEF Makers
  <2> HIDE DEF K
  <2>1. /\ Before(K, 1) = 0
        /\ \A p \in 1 .. M : Before(K, p + 1) = Before(K, p) + (IF p \in K THEN 1 ELSE 0)
    <3> HIDE DEF M
    <3>1. QED BY ONLY <1>1, <2>0, BeforeFacts
  <2>2. ASSUME T # {} PROVE FALSE
    <3>1. PICK m \in T : \A k \in T : m <= k
      <4>1. T \in SUBSET Nat
        OBVIOUS
      <4> HIDE DEF T
      <4>2. QED BY <2>2, <4>1, LeastNat
    <3>2. m \in 0 .. M /\ Len(Locals(s, b, m)) # Before(K, m + 1)
      BY <3>1
    <3>3. m # 0
      BY <1>7, <2>1, <3>2
    <3>4. m \in 1 .. M /\ m - 1 \in 0 .. M /\ m - 1 \in Nat /\ ~ (m <= m - 1) /\ (m - 1) + 1 = m
      BY <1>1, <3>2, <3>3
    <3>5. Len(Locals(s, b, m - 1)) = Before(K, m)
      BY <3>1, <3>4
    <3> DEFINE t == Locals(s, b, m - 1)
               v == LocalPart(s, b, m)
    <3>6. Locals(s, b, m) = t \o v /\ t \in Seq(MadeIds) /\ v \in Seq(MadeIds)
          /\ Len(v) = IF m \in K THEN 1 ELSE 0
      BY <1>2, <1>8, <1>9, <3>4
    <3> HIDE DEF t, v
    <3>7. Len(t \o v) = Len(t) + Len(v)
      <4>1. t \in Seq(MadeIds) /\ v \in Seq(MadeIds)
        BY <3>6
      <4>2. QED BY ONLY <4>1
    <3>8. Before(K, m + 1) = Before(K, m) + (IF m \in K THEN 1 ELSE 0)
      BY <2>1, <3>4
    <3>9. QED BY <3>2, <3>5, <3>6, <3>7, <3>8 DEF t
  <2>3. QED BY <1>1, <2>2
<1>11. QED BY <1>7, <1>8, <1>9, <1>10

(* The body of a function is there and well-formed.                        *)
LEMMA BodyKnown ==
  ASSUME NEW s, WellFormed(s), NEW f \in WithBody(s)
  PROVE  /\ ProtoOf(s, f) \in Owners(s) /\ s[ProtoOf(s, f)].func = f /\ s[ProtoOf(s, f)].args \in Nat
         /\ BodyOf(s, f) \in Bodies(s) /\ WellFormedBody(s, f, BodyOf(s, f))
<1>1. PICK i \in Owners(s) : f = s[i].func
  BY Document
<1>2. i \in Protos(s)
  BY Document
<1>3. ProtoOf(s, f) = i /\ s[i].args \in Nat
  BY <1>1, <1>2, RecordOf
<1>4. BodyOf(s, f) \in Bodies(s)
  BY <1>1, BodyMatched
<1>5. WellFormedBody(s, s[i].func, BodyOf(s, s[i].func))
  BY DEF WellFormed, Owners
<1>6. QED BY <1>1, <1>3, <1>4, <1>5

(* The values that a body may name at each of its items, and their number, *)
(* which is the id of the next.                                            *)
LEMMA BodyTables ==
  ASSUME NEW s, WellFormed(s), NEW f \in WithBody(s), NEW b, b = BodyOf(s, f)
  PROVE  LET M == Len(s[b].items)
             P == ProtoOf(s, f)
         IN  /\ BodyValuesUpTo(s, f, b, M) = BodyValues(s, f, b)
             /\ BodyValuesUpTo(s, f, b, 0) = AllValues(s) \o Arguments(P, s[P].args)
             /\ \A n \in 0 .. M :
                  /\ BodyValuesUpTo(s, f, b, n) \in Seq(ValueIds)
                  /\ Starts(BodyValuesUpTo(s, f, b, n), BodyValues(s, f, b))
                  /\ Len(BodyValuesUpTo(s, f, b, n)) = NextId(s, f, b, n + 1)
                  /\ Len(AllValues(s)) <= Len(BodyValuesUpTo(s, f, b, n))
                  /\ SubSeq(BodyValuesUpTo(s, f, b, n), 1, Len(AllValues(s))) = AllValues(s)
             /\ \A j \in 1 .. M :
                  BodyValuesUpTo(s, f, b, j) = BodyValuesUpTo(s, f, b, j - 1) \o LocalPart(s, b, j)
             /\ Arguments(P, s[P].args) \in Seq(ValueIds) /\ Len(Arguments(P, s[P].args)) = s[P].args
<1> DEFINE M == Len(s[b].items)
           P == ProtoOf(s, f)
           A == AllValues(s)
           G == Arguments(P, s[P].args)
           X == A \o G
           U(n) == BodyValuesUpTo(s, f, b, n)
           L(n) == Locals(s, b, n)
<1>1. b \in Bodies(s) /\ M \in Nat /\ DOMAIN s[b].items = 1 .. M
  BY BodyKnown, CodeOf
<1>2. /\ L(0) = << >>
      /\ \A n \in 0 .. M : /\ L(n) \in Seq(MadeIds) /\ Starts(L(n), L(M))
                           /\ Len(L(n)) = Before(Makers(s, b), n + 1)
      /\ \A j \in 1 .. M : L(j) = L(j - 1) \o LocalPart(s, b, j)
  BY <1>1, LocalsGrow
<1>3. \A q : q \in Seq(MadeIds) => q \in Seq(ValueIds)
  <2>1. MadeIds \subseteq ValueIds
    BY DEF MadeIds, ValueIds
  <2>2. QED BY <2>1
<1>4. A \in Seq(ValueIds)
  <2>1. Len(s) \in 0 .. Len(s)
    BY Document
  <2>2. A \in Seq(MadeIds)
    BY <2>1, ValuesGrow DEF AllValues
  <2>3. QED BY <1>3, <2>2
<1>5. G \in Seq(ValueIds) /\ Len(G) = s[P].args /\ s[P].args \in Nat
  <2>1. P \in Owners(s) /\ s[P].args \in Nat
    BY BodyKnown
  <2>2. P \in Nat
    BY <2>1, Document
  <2>3. \A n \in Nat : Arguments(P, n) \in Seq(ValueIds) /\ Len(Arguments(P, n)) = n
    <3> HIDE DEF P
    <3>1. QED BY <2>2 DEF Arguments, ValueIds
  <2>4. QED BY <2>1, <2>3
<1>6. BodyValuesUpTo(s, f, b, M) = BodyValues(s, f, b)
  <2>1. [k \in 1 .. M |-> LocalPart(s, b, k)] =
          [k \in DOMAIN s[b].items |->
             IF MakesValue(s[b].items[k]) THEN <<[item |-> b, nth |-> k, arg |-> FALSE]>> ELSE << >>]
    BY <1>1 DEF LocalPart
  <2>2. QED BY <2>1 DEF BodyValuesUpTo, BodyValues, AllValues
<1>7. \A n : U(n) = X \o L(n)
  BY DEF BodyValuesUpTo, Locals
<1> HIDE DEF U, L, A, G
<1>8. X \in Seq(ValueIds) /\ Len(X) = Len(A) + s[P].args /\ Len(A) \in Nat
      /\ \A k \in 1 .. Len(A) : X[k] = A[k]
  BY <1>4, <1>5
<1> HIDE DEF X, P
<1>9. U(0) = X
  <2>1. X \o << >> = X
    BY <1>8
  <2>2. QED BY <1>2, <1>7, <2>1
<1>10. ASSUME NEW n \in 0 .. M
       PROVE  /\ U(n) \in Seq(ValueIds) /\ Starts(U(n), U(M)) /\ Len(U(n)) = NextId(s, f, b, n + 1)
              /\ Len(A) <= Len(U(n)) /\ SubSeq(U(n), 1, Len(A)) = A
  <2> DEFINE l == L(n)
             m == L(M)
  <2>1. l \in Seq(ValueIds) /\ m \in Seq(ValueIds) /\ Starts(l, m)
    <3>1. M \in 0 .. M
      BY <1>1
    <3>2. L(n) \in Seq(MadeIds) /\ L(M) \in Seq(MadeIds) /\ Starts(L(n), L(M))
      BY <1>2, <3>1
    <3>3. QED BY <1>3, <3>2
  <2>2. Len(l) = Before(Makers(s, b), n + 1)
    BY <1>2
  <2> HIDE DEF l, m
  <2>3. U(n) = X \o l /\ U(M) = X \o m
    BY <1>7 DEF l, m
  <2>4. X \o l \in Seq(ValueIds) /\ Len(X \o l) = Len(X) + Len(l) /\ Len(l) \in Nat /\ Len(X) \in Nat
        /\ X \o m \in Seq(ValueIds) /\ Len(X \o m) = Len(X) + Len(m) /\ Len(m) \in Nat
    <3>1. X \in Seq(ValueIds) /\ l \in Seq(ValueIds) /\ m \in Seq(ValueIds)
      BY <1>8, <2>1
    <3>2. QED BY ONLY <3>1
  <2>5. Starts(X \o l, X \o m)
    <3>1. Len(l) <= Len(m) /\ \A k \in 1 .. Len(l) : m[k] = l[k]
      BY <2>1 DEF Starts
    <3>2. ASSUME NEW k \in 1 .. Len(X \o l) PROVE (X \o m)[k] = (X \o l)[k]
      <4>1. \A i \in 1 .. Len(X) + Len(l) : (X \o l)[i] = IF i <= Len(X) THEN X[i] ELSE l[i - Len(X)]
        BY <1>8, <2>1, ConcatProperties
      <4>2. \A i \in 1 .. Len(X) + Len(m) : (X \o m)[i] = IF i <= Len(X) THEN X[i] ELSE m[i - Len(X)]
        BY <1>8, <2>1, ConcatProperties
      <4>3. k \in 1 .. Len(X) + Len(l) /\ k \in 1 .. Len(X) + Len(m)
        BY ONLY <2>4, <3>1, k \in 1 .. Len(X \o l)
      <4>4. ~ (k <= Len(X)) => k - Len(X) \in 1 .. Len(l)
        BY ONLY <2>4, <4>3
      <4>5. QED BY ONLY <3>1, <4>1, <4>2, <4>3, <4>4
    <3>3. Len(X \o l) <= Len(X \o m)
      BY ONLY <2>4, <3>1
    <3>4. QED BY <3>2, <3>3 DEF Starts
  <2>6. Len(U(n)) = NextId(s, f, b, n + 1)
    <3>1. {k \in Makers(s, b) : k < n + 1} = {k \in 1 .. (n + 1) - 1 : MakesValue(s[b].items[k])}
      <4>1. \A k : k \in 1 .. M /\ k < n + 1 <=> k \in 1 .. (n + 1) - 1
        BY <1>1
      <4>2. QED BY <4>1 DEF Makers
    <3>2. NextId(s, f, b, n + 1) = (Len(A) + s[P].args) + Before(Makers(s, b), n + 1)
      BY <3>1 DEF NextId, Before, A, P, AllValues
    <3>3. QED BY <1>8, <2>2, <2>3, <2>4, <3>2
  <2>7. Len(A) <= Len(U(n)) /\ SubSeq(U(n), 1, Len(A)) = A
    <3> DEFINE u == U(n)
    <3>1. u \in Seq(ValueIds) /\ Len(A) <= Len(u) /\ Len(A) \in 0 .. Len(u)
      BY <1>5, <1>8, <2>3, <2>4, SMTT(20)
    <3>2. \A k \in 1 .. Len(A) : u[k] = A[k]
      <4> SUFFICES ASSUME NEW k \in 1 .. Len(A) PROVE u[k] = A[k]
        OBVIOUS
      <4>1. k \in 1 .. Len(X)
        BY <1>5, <1>8
      <4>2. (X \o l)[k] = X[k]
        BY <1>8, <2>1, <4>1
      <4>3. QED BY <1>8, <2>3, <4>2
    <3> HIDE DEF u
    <3>3. /\ SubSeq(u, 1, Len(A)) \in Seq(ValueIds) /\ Len(SubSeq(u, 1, Len(A))) = Len(A)
          /\ \A k \in 1 .. Len(A) : SubSeq(u, 1, Len(A))[k] = u[k]
      BY <1>8, <3>1
    <3>4. SubSeq(u, 1, Len(A)) = A
      <4> DEFINE w == SubSeq(u, 1, Len(A))
      <4>1. w \in Seq(ValueIds) /\ Len(w) = Len(A) /\ \A k \in 1 .. Len(A) : w[k] = A[k]
        BY <3>2, <3>3
      <4> HIDE DEF w
      <4>2. w = A
        BY ONLY <1>4, <4>1
      <4>3. QED BY <4>2 DEF w
    <3>5. QED BY <3>1, <3>4 DEF u
  <2>8. QED BY <2>3, <2>4, <2>5, <2>6, <2>7
<1>11. ASSUME NEW j \in 1 .. M PROVE U(j) = U(j - 1) \o LocalPart(s, b, j)
  <2> DEFINE l == L(j - 1)
             v == LocalPart(s, b, j)
  <2>1. j - 1 \in 0 .. M /\ j \in 0 .. M
    BY <1>1
  <2>2. l \in Seq(ValueIds) /\ L(j) = l \o v
    BY <1>2, <1>3, <2>1
  <2>3. v \in Seq(ValueIds)
    <3>1. [item |-> b, nth |-> j, arg |-> FALSE] \in ValueIds
      BY <1>1, CodeOf DEF ValueIds
    <3>2. QED BY <3>1 DEF LocalPart
  <2>4. U(j) = X \o (l \o v) /\ U(j - 1) = X \o l
    BY <1>7, <2>2
  <2> HIDE DEF l, v
  <2>5. X \o (l \o v) = (X \o l) \o v
    <3>1. X \in Seq(ValueIds) /\ l \in Seq(ValueIds) /\ v \in Seq(ValueIds)
      BY ONLY <1>8, <2>2, <2>3
    <3>2. QED BY ONLY <3>1, ConcatAssociative, SMTT(20)
  <2>6. QED BY <2>4, <2>5 DEF v
<1>12. U(M) = BodyValues(s, f, b) /\ U(0) = A \o G
  BY <1>6, <1>9 DEF U, X
<1>13. QED BY <1>5, <1>10, <1>11, <1>12 DEF U, A, G, P

(* The last value that a body names is no argument.                        *)
LEMMA LastIsLocal ==
  ASSUME NEW s, WellFormed(s), NEW f \in WithBody(s), NEW b, b = BodyOf(s, f),
         NEW u, u = BodyValuesUpTo(s, f, b, Len(s[b].items))
  PROVE  u # << >> /\ Last(u).arg = FALSE
<1> DEFINE M == Len(s[b].items)
           P == ProtoOf(s, f)
           A == AllValues(s)
           G == Arguments(P, s[P].args)
           l == Locals(s, b, M)
<1>1. /\ b \in Bodies(s) /\ M \in Nat /\ DOMAIN s[b].items = 1 .. M /\ P \in Owners(s)
      /\ WellFormedBody(s, f, b) /\ s[P].args \in Nat
  BY BodyKnown, CodeOf
<1>2. M \in 0 .. M
  BY <1>1
<1>3. l \in Seq(MadeIds) /\ Len(l) = Before(Makers(s, b), M + 1)
  BY <1>1, <1>2, LocalsGrow
<1>4. u = (A \o G) \o l
  BY DEF BodyValuesUpTo, Locals
<1>5. G \in Seq(ValueIds) /\ Len(G) = s[P].args
  BY BodyTables
<1>6. A \in Seq(MadeIds) /\ Len(A) >= 1
  <2>1. /\ Len(s) \in Nat /\ P \in 1 .. Len(s) /\ s[P].kind = "proto" /\ P \in DOMAIN s
        /\ P - 1 \in 0 .. Len(s) /\ P \in 0 .. Len(s) /\ Len(s) \in 0 .. Len(s)
    BY <1>1, Document
  <2> DEFINE x == ValuesUpTo(s, P - 1)
             y == ItemValues(s, P)
  <2>2. /\ A \in Seq(MadeIds) /\ x \in Seq(MadeIds) /\ ValuesUpTo(s, P) = x \o y
        /\ Starts(ValuesUpTo(s, P), A)
    BY <2>1, ValuesGrow DEF AllValues
  <2>3. y \in Seq(MadeIds) /\ Len(y) = 1
    <3>1. y = Made(P, 1)
      BY <2>1 DEF ItemValues
    <3>2. Len(y) = 1
      BY <3>1 DEF Made
    <3>3. QED BY <2>1, <3>2, ItemTables
  <2> HIDE DEF x, y, A
  <2>4. Len(x \o y) = Len(x) + Len(y) /\ Len(x) \in Nat /\ Len(A) \in Nat
    <3>1. x \in Seq(MadeIds) /\ y \in Seq(MadeIds) /\ A \in Seq(MadeIds)
      BY <2>2, <2>3
    <3>2. QED BY ONLY <3>1
  <2>5. Len(x \o y) <= Len(A)
    BY <2>2 DEF Starts
  <2>6. Len(A) >= 1
    BY ONLY <2>3, <2>4, <2>5
  <2>7. QED BY <2>2, <2>6
<1>7. A \in Seq(ValueIds) /\ l \in Seq(ValueIds)
  <2>1. MadeIds \subseteq ValueIds
    BY DEF MadeIds, ValueIds
  <2>2. QED BY <1>3, <1>6, <2>1, SeqMonotonic
<1>8. Len(l) = 0 => s[P].args = 0
  <2> SUFFICES ASSUME Len(l) = 0, s[P].args # 0 PROVE FALSE
    OBVIOUS
  <2>1. PICK j \in 1 .. M : MakesValue(s[b].items[j])
    BY <1>1 DEF WellFormedBody
  <2>2. j \in Makers(s, b) /\ Makers(s, b) \subseteq 1 .. M
    BY <2>1 DEF Makers
  <2>3. j \in 1 .. M + 1 /\ M + 1 \in 1 .. M + 1 /\ j < M + 1 /\ j <= M + 1
    BY <1>1
  <2> HIDE DEF M, l, P
  <2>4. Before(Makers(s, b), j) < Before(Makers(s, b), M + 1)
    BY <1>1, <2>2, <2>3, BeforeGrows
  <2>5. Before(Makers(s, b), j) \in Nat
    BY <1>1, <2>2, <2>3, BeforeFacts
  <2>6. QED BY <1>3, <2>4, <2>5
<1> HIDE DEF A, G, l, P
<1>9. \A q \in Seq(MadeIds) : Len(q) >= 1 => q[Len(q)].arg = FALSE
  <2> SUFFICES ASSUME NEW q \in Seq(MadeIds), Len(q) >= 1 PROVE q[Len(q)].arg = FALSE
    OBVIOUS
  <2>1. Len(q) \in 1 .. Len(q)
    OBVIOUS
  <2>2. q[Len(q)] \in MadeIds
    BY <2>1
  <2>3. QED BY <2>2 DEF MadeIds
<1>10. CASE Len(l) = 0
  <2>1. G = << >> /\ l = << >>
    BY <1>5, <1>7, <1>8, <1>10
  <2>2. u = A
    BY <1>4, <1>7, <2>1, ConcatEmptySeq
  <2>3. QED BY <1>6, <1>9, <2>2 DEF Last
<1>11. CASE Len(l) # 0
  <2> DEFINE X == A \o G
  <2>1. X \in Seq(ValueIds)
    BY <1>5, <1>7, ConcatProperties
  <2> HIDE DEF X
  <2>2. u = X \o l
    BY <1>4 DEF X
  <2>3. /\ Len(X \o l) = Len(X) + Len(l) /\ Len(X) \in Nat /\ Len(l) \in Nat
        /\ \A i \in 1 .. Len(X) + Len(l) : (X \o l)[i] = IF i <= Len(X) THEN X[i] ELSE l[i - Len(X)]
    BY <1>7, <2>1, ConcatProperties, LenProperties
  <2>4. /\ Len(X) + Len(l) \in 1 .. Len(X) + Len(l) /\ ~ (Len(X) + Len(l) <= Len(X))
        /\ (Len(X) + Len(l)) - Len(X) = Len(l) /\ Len(l) >= 1
    BY ONLY <1>11, <2>3
  <2>5. (X \o l)[Len(X) + Len(l)] = l[Len(l)]
    BY ONLY <2>3, <2>4
  <2>6. l[Len(l)].arg = FALSE
    BY <1>3, <1>9, <2>4
  <2>7. u # << >>
    BY ONLY <2>2, <2>3, <2>4
  <2>8. QED BY ONLY <2>2, <2>3, <2>5, <2>6, <2>7 DEF Last
<1>12. QED BY <1>10, <1>11

(* The blocks of a body are declared first and end with a ret each.        *)
LEMMA BlocksCounted ==
  ASSUME NEW s, WellFormed(s), NEW f \in WithBody(s), NEW b, b = BodyOf(s, f)
  PROVE  LET M == Len(s[b].items)
             E == Ends(s, b)
         IN  /\ M >= 1 /\ M \in Nat /\ E = {j \in 1 .. M : s[b].items[j].kind = "ret"}
             /\ \A j \in 1 .. M : s[b].items[j].kind = "declare" <=> j = 1
             /\ s[b].items[1].blocks = Cardinality(E) /\ Cardinality(E) \in Nat \ {0}
             /\ Before(E, 2) = 0
             /\ \A j \in 1 .. M : /\ Before(E, j) \in Nat /\ 1 + Before(E, j) \in 1 .. Cardinality(E)
                                  /\ Before(E, j + 1) = Before(E, j) + (IF j \in E THEN 1 ELSE 0)
             /\ \A j \in 1 .. M : s[b].items[j].kind = "call" => s[b].items[j].operand < NextId(s, f, b, j)
<1> DEFINE M == Len(s[b].items)
           E == Ends(s, b)
<1>1. b \in Bodies(s) /\ M \in Nat /\ DOMAIN s[b].items = 1 .. M /\ WellFormedBody(s, f, b)
  BY BodyKnown, CodeOf
<1>2. E = {j \in 1 .. M : s[b].items[j].kind = "ret"}
  BY <1>1 DEF Ends
<1>3. /\ {j \in 1 .. M : s[b].items[j].kind = "declare"} = {1} /\ s[b].items[1].blocks = Cardinality(E) /\ M \in E
      /\ \A j \in 1 .. M : s[b].items[j].kind = "call" => s[b].items[j].operand < NextId(s, f, b, j)
  BY <1>1 DEF WellFormedBody, Ends
<1>4. M >= 1 /\ 1 \in 1 .. M /\ M \in 1 .. M /\ 1 \notin E
  BY <1>1, <1>2, <1>3
<1>5. E \subseteq 1 .. M
  BY <1>2
<1> HIDE DEF E
<1>6. /\ Cardinality(E) \in Nat /\ Before(E, 1) = 0 /\ Before(E, M + 1) = Cardinality(E)
      /\ \A p \in 1 .. M + 1 : Before(E, p) \in Nat /\ Before(E, p) <= Cardinality(E)
      /\ \A p \in 1 .. M : Before(E, p + 1) = Before(E, p) + (IF p \in E THEN 1 ELSE 0)
  <2> HIDE DEF M
  <2>1. QED BY ONLY <1>1, <1>5, BeforeFacts
<1>7. Before(E, M + 1) = Before(E, M) + 1 /\ Before(E, M) \in Nat
  <2>1. M \in 1 .. M + 1
    BY <1>1, <1>4
  <2>2. QED BY <1>3, <1>4, <1>6, <2>1
<1>8. ASSUME NEW j \in 1 .. M PROVE Before(E, j) \in Nat /\ 1 + Before(E, j) \in 1 .. Cardinality(E)
  <2>1. j \in 1 .. M + 1 /\ M \in 1 .. M + 1 /\ j <= M
    BY <1>1
  <2>2. Before(E, j) <= Before(E, M)
    <3> HIDE DEF M
    <3>1. QED BY ONLY <1>1, <1>5, <2>1, BeforeGrows
  <2>3. Before(E, j) \in Nat
    BY <1>6, <2>1
  <2>4. QED BY ONLY <1>6, <1>7, <2>2, <2>3
<1>9. Before(E, 2) = 0
  <2>1. Before(E, 1 + 1) = Before(E, 1) + (IF 1 \in E THEN 1 ELSE 0)
    BY <1>4, <1>6
  <2>2. QED BY <1>4, <1>6, <2>1
<1>10. \A j \in 1 .. M : s[b].items[j].kind = "declare" <=> j = 1
  BY <1>3
<1>11. Cardinality(E) # 0
  BY <1>6, <1>7
<1>12. QED BY <1>1, <1>2, <1>3, <1>4, <1>6, <1>8, <1>9, <1>10, <1>11 DEF E

(* The instructions of a body appear item by item.                         *)
Instructions(s, f, b) == {InstPart(s, f, b, j)[1] : j \in 1 .. Len(s[b].items)}

(* At each item they are those before it and the part of the item.       *)
LEMMA BodyGrows ==
  ASSUME NEW s, WellFormed(s), NEW f \in WithBody(s), NEW b, b = BodyOf(s, f)
  PROVE  LET M == Len(s[b].items)
         IN  /\ BodyUpTo(s, f, b, 0) = << >> /\ BodyUpTo(s, f, b, M) = WrittenBody(s, f)
             /\ \A n \in 0 .. M : BodyUpTo(s, f, b, n) \in Seq(Instructions(s, f, b))
             /\ \A j \in 1 .. M : /\ BodyUpTo(s, f, b, j) = BodyUpTo(s, f, b, j - 1) \o InstPart(s, f, b, j)
                                  /\ InstPart(s, f, b, j) \in Seq(Instructions(s, f, b))
<1> DEFINE M == Len(s[b].items)
           I == Instructions(s, f, b)
           e == [k \in 1 .. M |-> InstPart(s, f, b, k)]
<1>1. b \in Bodies(s) /\ M \in Nat /\ DOMAIN s[b].items = 1 .. M
  BY BodyKnown, CodeOf
<1>2. \A k \in 1 .. M : InstPart(s, f, b, k) \in Seq(I)
  <2> SUFFICES ASSUME NEW k \in 1 .. M PROVE InstPart(s, f, b, k) \in Seq(I)
    OBVIOUS
  <2> DEFINE r == [inst |-> k, block |-> 1 + Before(Ends(s, b), k),
                   operands |-> IF s[b].items[k].kind = "ret" THEN {}
                                ELSE {BodyValues(s, f, b)[s[b].items[k].operand + 1]}]
  <2>1. InstPart(s, f, b, k) = << >> \/ InstPart(s, f, b, k) = <<r>>
    BY DEF InstPart
  <2> HIDE DEF r
  <2>2. CASE InstPart(s, f, b, k) = <<r>>
    <3>1. r \in I
      <4>1. r = InstPart(s, f, b, k)[1]
        BY <2>2
      <4>2. QED BY <4>1 DEF Instructions
    <3> HIDE DEF I
    <3>2. QED BY <2>2, <3>1
  <2>3. CASE InstPart(s, f, b, k) = << >>
    BY <2>3
  <2>4. QED BY <2>1, <2>2, <2>3
<1> HIDE DEF I
<1>3. e \in [1 .. M -> Seq(I)] /\ \A k \in 1 .. M : e[k] = InstPart(s, f, b, k)
  BY <1>2
<1>4. \A n \in 0 .. M : BodyUpTo(s, f, b, n) = FirstOf(e, n)
  <2> SUFFICES ASSUME NEW n \in 0 .. M PROVE BodyUpTo(s, f, b, n) = FirstOf(e, n)
    OBVIOUS
  <2>1. [i \in 1 .. n |-> InstPart(s, f, b, i)] = [i \in 1 .. n |-> e[i]]
    <3>1. \A i \in 1 .. n : i \in 1 .. M
      BY <1>1
    <3>2. \A i \in 1 .. n : InstPart(s, f, b, i) = e[i]
      BY <1>3, <3>1
    <3> HIDE DEF e
    <3>3. QED BY <3>2
  <2>2. QED BY <2>1 DEF BodyUpTo, FirstOf
<1> HIDE DEF e
<1>5. /\ FirstOf(e, 0) = << >>
      /\ \A n \in 0 .. M :
           /\ FirstOf(e, n) \in Seq(I) /\ Starts(FirstOf(e, n), FirstOf(e, M))
           /\ (\A i \in 1 .. M : i > n => e[i] = << >>) => FirstOf(e, n) = FirstOf(e, M)
      /\ \A n \in 0 .. M - 1 : FirstOf(e, n + 1) = FirstOf(e, n) \o e[n + 1]
  BY <1>1, <1>3, FirstOfFacts, ZenonT(30)
<1>6. BodyUpTo(s, f, b, 0) = << >>
  BY <1>1, <1>4, <1>5
<1>7. \A n \in 0 .. M : BodyUpTo(s, f, b, n) \in Seq(I)
  BY <1>4, <1>5
<1>8. ASSUME NEW j \in 1 .. M PROVE BodyUpTo(s, f, b, j) = BodyUpTo(s, f, b, j - 1) \o InstPart(s, f, b, j)
  <2>1. j - 1 \in 0 .. M - 1 /\ (j - 1) + 1 = j /\ j \in 0 .. M /\ j - 1 \in 0 .. M
    BY <1>1
  <2>2. FirstOf(e, (j - 1) + 1) = FirstOf(e, j - 1) \o e[(j - 1) + 1]
    BY <1>5, <2>1
  <2>3. QED BY <1>3, <1>4, <2>1, <2>2
<1>9. BodyUpTo(s, f, b, M) = WrittenBody(s, f)
  <2> DEFINE code == s[b].items
             ends(j) == Cardinality({k \in 1 .. j - 1 : code[k].kind = "ret"})
             operands(j) == IF code[j].kind = "ret" THEN {} ELSE {BodyValues(s, f, b)[code[j].operand + 1]}
             part(j) == IF code[j].kind \notin {"call", "ret"} THEN << >>
                        ELSE <<[inst |-> j, block |-> 1 + ends(j), operands |-> operands(j)]>>
  <2>1. \A j \in 1 .. M : ends(j) = Before(Ends(s, b), j)
    <3> SUFFICES ASSUME NEW j \in 1 .. M PROVE ends(j) = Before(Ends(s, b), j)
      OBVIOUS
    <3>1. \A k : k \in 1 .. M /\ k < j <=> k \in 1 .. j - 1
      BY <1>1
    <3>2. {k \in Ends(s, b) : k < j} = {k \in 1 .. j - 1 : code[k].kind = "ret"}
      BY <1>1, <3>1 DEF Ends
    <3>3. QED BY <3>2 DEF Before
  <2> HIDE DEF ends
  <2>2. \A j \in 1 .. M : part(j) = InstPart(s, f, b, j)
    BY <2>1 DEF InstPart
  <2>3. WrittenBody(s, f) = FlattenSeq([j \in 1 .. M |-> part(j)])
    BY <1>1 DEF WrittenBody, ends
  <2> HIDE DEF part
  <2>4. QED BY <2>2, <2>3 DEF BodyUpTo
<1>10. QED BY <1>2, <1>6, <1>7, <1>8, <1>9 DEF I

-----------------------------------------------------------------------------
(***************************************************************************)
(* Where ParseModule is.                                                   *)
(***************************************************************************)
LEMMA PlaceFacts ==
  ASSUME NEW s, WellFormed(s), items = s, PlaceKnown(s)
  PROVE  /\ Pos \in 1 .. Len(s) + 1 /\ Len(s) \in Nat /\ DOMAIN s = 1 .. Len(s)
         /\ Parsing => Pos = cursor.at /\ cursor.inside /\ Pos \in 1 .. Len(s)
         /\ ~Parsing /\ cursor.inside => Pos = next_unread /\ Pos \in 1 .. Len(s)
         /\ ~cursor.inside => Pos = Len(s) + 1
         /\ Parsing <=> phase \in {"load", "search", "rest"}
<1>1. Len(s) \in Nat /\ DOMAIN s = 1 .. Len(s) /\ Len(s) >= 1
  BY Document
<1>2. CASE Parsing
  BY <1>1, <1>2 DEF PlaceKnown, Parsing, Pos
<1>3. CASE ~Parsing
  BY <1>1, <1>3 DEF PlaceKnown, Parsing, Pos
<1>4. QED BY <1>2, <1>3

(***************************************************************************)
(* What an item's place says: the values of the module are read before the *)
(* first call returns, and before the first body.                          *)
(***************************************************************************)
LEMMA ItemFacts ==
  ASSUME NEW s, WellFormed(s), items = s, PlaceKnown(s), QueueInOrder(s), NEW kind, Read(kind)
  PROVE  /\ Pos = cursor.at /\ Pos \in 1 .. Len(s) /\ Pos \in DOMAIN s /\ s[Pos].kind = kind /\ Item = s[Pos]
         /\ phase \in {"load", "search", "rest"} /\ cursor.inside /\ body = None
         /\ kind # "end" => Pos + 1 \in 1 .. Len(s)
         /\ Pos \in Bodies(s) <=> kind = "body"
         /\ Pos \in Protos(s) <=> kind = "proto"
         /\ Pos \in Valued(s) <=> kind \in {"proto", "constants", "metadata"}
         /\ kind \in {"proto", "constants", "metadata"} => phase = "load" /\ ~seen.body
<1>1. /\ Parsing /\ body = None /\ cursor.inside /\ Item.kind = kind
      /\ Pos = cursor.at /\ Pos \in 1 .. Len(s) /\ DOMAIN s = 1 .. Len(s) /\ Len(s) \in Nat
      /\ phase \in {"load", "search", "rest"}
  BY PlaceFacts DEF Read
<1>2. Pos \in DOMAIN s /\ s[Pos].kind = kind /\ Item = s[Pos]
  BY <1>1 DEF Item
<1>3. kind # "end" => Pos + 1 \in 1 .. Len(s)
  <2>1. s[Pos].kind = "end" <=> Pos = Len(s)
    BY <1>2, Document
  <2>2. QED BY <1>1, <1>2, <2>1
<1>4. Pos \in Bodies(s) <=> kind = "body"
  BY <1>2 DEF Bodies, IsBody
<1>5. Pos \in Protos(s) <=> kind = "proto"
  BY <1>2 DEF Protos, IsProto
<1>6. Pos \in Valued(s) <=> kind \in {"proto", "constants", "metadata"}
  BY <1>2 DEF Valued
<1>7. ASSUME Pos \in Valued(s) PROVE phase = "load" /\ ~seen.body
  <2>1. phase # "load" => \A i \in Valued(s) : i < Pos
    BY DEF PlaceKnown
  <2>2. \A b \in Bodies(s) : Pos < b /\ b \in Nat
    BY <1>7, Document
  <2>3. seen.body <=> \E b \in Bodies(s) : b < Pos
    BY DEF QueueInOrder
  <2>4. QED BY ONLY <1>1, <1>7, <2>1, <2>2, <2>3
<1>8. QED BY <1>1, <1>2, <1>3, <1>4, <1>5, <1>6, <1>7

(***************************************************************************)
(* Reading on: the next item becomes the first that is not read.           *)
(***************************************************************************)
LEMMA ReadOn ==
  ASSUME NEW s, WellFormed(s), items = s, PlaceKnown(s), QueueInOrder(s), NEW kind, kind # "end", Read(kind),
         Step, UNCHANGED <<doc, phase, next_unread, attached>>,
         seen' \in [symtab : BOOLEAN, body : BOOLEAN, md : BOOLEAN],
         seen.symtab => seen'.symtab, seen.body => seen'.body
  PROVE  Pos' = Pos + 1 /\ PlaceKnown(s)'
<1>1. /\ Pos = cursor.at /\ Pos \in 1 .. Len(s) /\ Pos + 1 \in 1 .. Len(s) /\ cursor.inside
      /\ phase \in {"load", "search", "rest"} /\ Len(s) \in Nat
  BY ItemFacts, PlaceFacts
<1>2. cursor \in [at : 1 .. Len(s) + 1, inside : BOOLEAN]
  BY DEF PlaceKnown
<1>3. cursor'.at = Pos + 1 /\ cursor'.inside /\ cursor' \in [at : 1 .. Len(s) + 1, inside : BOOLEAN]
  BY <1>1, <1>2 DEF Step
<1>4. Pos' = Pos + 1
  BY <1>1, <1>3 DEF Pos, Parsing
<1>5. phase' # "load" => \A i \in Valued(s) : i < Pos'
  <2>1. phase # "load" => \A i \in Valued(s) : i < Pos
    BY DEF PlaceKnown
  <2>2. \A i \in Valued(s) : i \in Nat
    BY Document
  <2>3. QED BY ONLY <1>1, <1>4, <2>1, <2>2, UNCHANGED phase
<1>6. QED BY <1>1, <1>3, <1>4, <1>5 DEF PlaceKnown, Parsing

(***************************************************************************)
(* An item that is neither the record of a function with a body nor a body *)
(* leaves the matching of functions and bodies as it was, ...              *)
(***************************************************************************)
LEMMA CountOn ==
  ASSUME NEW s, WellFormed(s), NEW p \in 1 .. Len(s)
  PROVE  /\ Before(Bodies(s), p + 1) = Before(Bodies(s), p) + (IF p \in Bodies(s) THEN 1 ELSE 0)
         /\ Before(Owners(s), p + 1) = Before(Owners(s), p) + (IF p \in Owners(s) THEN 1 ELSE 0)
         /\ Before(Bodies(s), p) \in Nat /\ Before(Owners(s), p) \in Nat
         /\ Cardinality(Bodies(s)) \in Nat /\ Cardinality(Owners(s)) = Cardinality(Bodies(s))
         /\ Before(Bodies(s), p) <= Cardinality(Bodies(s))
         /\ p \in Bodies(s) => Before(Bodies(s), p) < Cardinality(Bodies(s))
<1>1. Len(s) \in Nat /\ Bodies(s) \subseteq 1 .. Len(s) /\ Owners(s) \subseteq 1 .. Len(s)
      /\ Cardinality(Bodies(s)) = Cardinality(Owners(s))
  BY Document
<1> DEFINE B == Bodies(s)
           O == Owners(s)
           n == Len(s)
<1> HIDE DEF B, O, n
<1>2. n \in Nat /\ B \subseteq 1 .. n /\ O \subseteq 1 .. n /\ p \in 1 .. n /\ p \in 1 .. n + 1
  BY <1>1 DEF B, O, n
<1>3. /\ Cardinality(B) \in Nat /\ Before(B, p) \in Nat /\ Before(B, p) <= Cardinality(B)
      /\ Before(B, p + 1) = Before(B, p) + (IF p \in B THEN 1 ELSE 0)
  <2>1. /\ Cardinality(B) \in Nat
        /\ \A q \in 1 .. n + 1 : Before(B, q) \in Nat /\ Before(B, q) <= Cardinality(B)
        /\ \A q \in 1 .. n : Before(B, q + 1) = Before(B, q) + (IF q \in B THEN 1 ELSE 0)
    BY <1>2, BeforeFacts
  <2>2. QED BY ONLY <1>2, <2>1
<1>4. Before(O, p) \in Nat /\ Before(O, p + 1) = Before(O, p) + (IF p \in O THEN 1 ELSE 0)
  <2>1. /\ \A q \in 1 .. n + 1 : Before(O, q) \in Nat
        /\ \A q \in 1 .. n : Before(O, q + 1) = Before(O, q) + (IF q \in O THEN 1 ELSE 0)
    BY <1>2, BeforeFacts
  <2>2. QED BY ONLY <1>2, <2>1
<1>5. p \in B => Before(B, p) < Cardinality(B)
  <2>1. p + 1 \in 1 .. n + 1
    BY <1>2
  <2>2. Before(B, p + 1) <= Cardinality(B)
    BY ONLY <1>2, <2>1, BeforeFacts
  <2>3. QED BY ONLY <1>3, <2>2
<1>6. QED BY <1>1, <1>3, <1>4, <1>5 DEF B, O, n

(* An item that is no function keeps the queue of functions, ...         *)
LEMMA QuietQueue ==
  ASSUME NEW s, WellFormed(s), QueueInOrder(s), Pos \in 1 .. Len(s), Pos' = Pos + 1,
         Pos \notin Bodies(s), Pos \notin Owners(s), with_bodies' = with_bodies, seen'.body = seen.body
  PROVE  QueueInOrder(s)'
<1>1. /\ Bodies(s) \subseteq 1 .. Len(s) /\ Owners(s) \subseteq 1 .. Len(s) /\ Len(s) \in Nat
  BY Document
<1>2. /\ Before(Bodies(s), Pos + 1) = Before(Bodies(s), Pos)
      /\ Before(Owners(s), Pos + 1) = Before(Owners(s), Pos)
      /\ Before(Bodies(s), Pos) \in Nat /\ Before(Owners(s), Pos) \in Nat
  BY CountOn
<1>3. \A S : S \subseteq 1 .. Len(s) /\ Pos \notin S => \A i \in S : i < Pos + 1 <=> i < Pos
  OBVIOUS
<1>4. seen.body' <=> \E b \in Bodies(s) : b < Pos'
  <2>1. seen.body <=> \E b \in Bodies(s) : b < Pos
    BY DEF QueueInOrder
  <2>2. \A b \in Bodies(s) : b < Pos + 1 <=> b < Pos
    BY ONLY <1>1, <1>3, Pos \notin Bodies(s)
  <2>3. QED BY ONLY <2>1, <2>2, Pos' = Pos + 1, seen'.body = seen.body
<1>5. Before(Bodies(s), Pos') = Before(Bodies(s), Pos) /\ Before(Owners(s), Pos') = Before(Owners(s), Pos)
  BY ONLY <1>2, Pos' = Pos + 1
<1>6. \A i \in Owners(s) : i < Pos' <=> i < Pos
  BY ONLY <1>1, <1>3, Pos \notin Owners(s), Pos' = Pos + 1
<1>7. QED BY ONLY <1>4, <1>5, <1>6, QueueInOrder(s), with_bodies' = with_bodies, seen'.body = seen.body, Zenon DEF QueueInOrder

(* ... the places of the bodies, ...                                       *)
LEMMA QuietPlaces ==
  ASSUME NEW s, WellFormed(s), PlacesNoted(s), Pos \in 1 .. Len(s), Pos' = Pos + 1,
         Pos \notin Bodies(s), deferred' = deferred
  PROVE  PlacesNoted(s)'
<1>1. \A f \in WithBody(s) : BodyOf(s, f) \in Bodies(s) /\ BodyOf(s, f) \in Int
  BY BodyKnown, Document
<1>2. \A f \in Functions(s) : (f \in WithBody(s) /\ BodyOf(s, f) < Pos) <=> (f \in WithBody(s) /\ BodyOf(s, f) < Pos')
  BY <1>1
<1>3. [f \in Functions(s) |-> IF f \in WithBody(s) /\ BodyOf(s, f) < Pos THEN BodyOf(s, f) ELSE 0]
        = [f \in Functions(s) |-> IF f \in WithBody(s) /\ BodyOf(s, f) < Pos' THEN BodyOf(s, f) ELSE 0]
  BY ONLY <1>2
<1>4. QED BY ONLY <1>3, PlacesNoted(s), deferred' = deferred DEF PlacesNoted

(* ... and the functions.                                                  *)
LEMMA QuietFunctions ==
  ASSUME NEW s, WellFormed(s), FunctionsWhole(s), Pos \in 1 .. Len(s), Pos' = Pos + 1,
         Pos \notin Owners(s), UNCHANGED <<phase, materializable, blocks, body, func>>
  PROVE  FunctionsWhole(s)'
<1>1. \A f \in WithBody(s) : BodyOf(s, f) \in Int
  BY BodyKnown, Document
<1>2. \A i \in Owners(s) : i < Pos <=> i < Pos'
  <2>1. \A i \in Owners(s) : i \in Int /\ i # Pos
    BY Document
  <2>2. QED BY ONLY <2>1, Pos \in 1 .. Len(s), Pos' = Pos + 1
<1>3. \A f \in WithBody(s) : BodyOf(s, f) < Pos => BodyOf(s, f) < Pos'
  BY ONLY <1>1, Pos \in 1 .. Len(s), Pos' = Pos + 1
<1>4. {i \in Owners(s) : i < Pos} = {i \in Owners(s) : i < Pos'}
  BY ONLY <1>2
<1>5. QED BY ONLY <1>3, <1>4, FunctionsWhole(s), UNCHANGED <<phase, materializable, blocks, body, func>>, Zenon DEF FunctionsWhole

(* An item without a function's record leaves the initialisers.            *)
LEMMA QuietInits ==
  ASSUME NEW s, WellFormed(s), InitsKept(s), Pos \in 1 .. Len(s), Pos' = Pos + 1,
         Pos \notin Protos(s), UNCHANGED <<inits, given, phase>>, seen'.body = seen.body
  PROVE  InitsKept(s)'
<1>1. \A i \in Protos(s) : (i < Pos <=> i < Pos') /\ (i >= Pos <=> i >= Pos')
  <2>1. \A i \in Protos(s) : i \in Int /\ i # Pos
    BY Document
  <2>2. QED BY ONLY <2>1, Pos \in 1 .. Len(s), Pos' = Pos + 1
<1>2. Initialised(s) \subseteq Protos(s)
  BY DEF Initialised
<1>3. QED BY ONLY <1>1, <1>2, InitsKept(s), UNCHANGED <<inits, given, phase>>, seen'.body = seen.body, Zenon DEF InitsKept

(* While ParseModule runs no body is being read, and an item that is not   *)
(* the one it searches for does not end the search.                        *)
LEMMA QuietCall ==
  ASSUME NEW s, WellFormed(s), FunctionsWhole(s), CallInOrder(s), Pos \in 1 .. Len(s), Pos' = Pos + 1,
         Pos \notin Bodies(s), UNCHANGED <<phase, func, todo, attached>>, phase = "load" \/ materializable' = materializable,
         body = None, body' = body
  PROVE  CallInOrder(s)' /\ BodyInOrder(s)'
<1>1. phase = "search" => Pos' <= BodyOf(s, func)
  <2>1. phase = "search" => func \in WithBody(s) /\ Pos <= BodyOf(s, func)
    <3>1. phase = "search" => func \in materializable /\ Pos <= BodyOf(s, func)
      BY DEF CallInOrder
    <3>2. phase = "search" => materializable = materializable \cap WithBody(s)
      BY DEF FunctionsWhole
    <3>3. QED BY ONLY <3>1, <3>2
  <2>2. \A f \in WithBody(s) : BodyOf(s, f) \in Bodies(s) /\ BodyOf(s, f) \in Int
    BY BodyKnown, Document
  <2>3. QED BY <2>1, <2>2
<1>2. CallInOrder(s)'
  BY ONLY <1>1, CallInOrder(s), UNCHANGED <<phase, func, todo, attached>>, phase = "load" \/ materializable' = materializable DEF CallInOrder
<1>3. BodyInOrder(s)'
  BY ONLY body = None, body' = body DEF BodyInOrder
<1>4. QED BY <1>2, <1>3

-----------------------------------------------------------------------------
(***************************************************************************)
(* Resolving keeps exactly the entries whose value is not there yet, ...   *)
(***************************************************************************)
LEMMA ResolveQueue ==
  ASSUME NEW S, inits \in Seq(S), NEW vals, ResolveGlobalAndAliasInits(vals)
  PROVE  /\ inits' \in Seq(S)
         /\ \A k \in DOMAIN inits' : \E j \in DOMAIN inits : inits'[k] = inits[j] /\ ~Ready(vals, inits[j])
         /\ \A j \in DOMAIN inits : ~Ready(vals, inits[j]) => \E k \in DOMAIN inits' : inits'[k] = inits[j]
<1> DEFINE e == [k \in DOMAIN inits |-> IF Ready(vals, inits[k]) THEN << >> ELSE <<inits[k]>>]
           r == FlattenSeq(e)
<1>1. inits' = Reverse(r)
  BY DEF ResolveGlobalAndAliasInits
<1>2. e \in Seq(Seq(S)) /\ Len(e) = Len(inits) /\ DOMAIN inits = 1 .. Len(inits) /\ Len(inits) \in Nat
  <2>1. DOMAIN inits = 1 .. Len(inits) /\ Len(inits) \in Nat /\ \A k \in 1 .. Len(inits) : inits[k] \in S
    OBVIOUS
  <2>2. \A k \in 1 .. Len(inits) : e[k] \in Seq(S)
    BY <2>1
  <2>3. QED BY <2>1, <2>2
<1>3. \A k \in DOMAIN inits : \A x : Has(e[k], x) <=> ~Ready(vals, inits[k]) /\ x = inits[k]
  BY <1>2 DEF Has
<1> HIDE DEF e
<1>4. r \in Seq(S)
  BY <1>2, FlattenMadeOf
<1>5. \A x : Has(r, x) <=> \E j \in 1 .. Len(e) : Has(e[j], x)
  BY <1>2, FlattenHas
<1> HIDE DEF r
<1>6. Reverse(r) \in Seq(S) /\ Len(Reverse(r)) = Len(r) /\ \A i \in 1 .. Len(r) : Reverse(r)[i] = r[Len(r) - i + 1]
  BY <1>4 DEF Reverse
<1>7. inits' \in Seq(S) /\ DOMAIN inits' = 1 .. Len(r) /\ Len(r) \in Nat
  BY <1>1, <1>4, <1>6
<1>8. ASSUME NEW k \in DOMAIN inits'
      PROVE  \E j \in DOMAIN inits : inits'[k] = inits[j] /\ ~Ready(vals, inits[j])
  <2>1. k \in 1 .. Len(r) /\ Len(r) - k + 1 \in 1 .. Len(r) /\ inits'[k] = r[Len(r) - k + 1]
    BY <1>1, <1>6, <1>7
  <2>2. Has(r, inits'[k])
    BY <2>1 DEF Has
  <2>3. QED BY <1>2, <1>3, <1>5, <2>2
<1>9. ASSUME NEW j \in DOMAIN inits, ~Ready(vals, inits[j])
      PROVE  \E k \in DOMAIN inits' : inits'[k] = inits[j]
  <2>1. Has(e[j], inits[j])
    BY <1>3, <1>9
  <2>2. Has(r, inits[j])
    BY <1>2, <1>5, <2>1
  <2>3. PICK m \in 1 .. Len(r) : r[m] = inits[j]
    BY <2>2 DEF Has
  <2>4. Len(r) - m + 1 \in 1 .. Len(r) /\ Len(r) - (Len(r) - m + 1) + 1 = m
    BY <1>7
  <2>5. inits'[Len(r) - m + 1] = r[m]
    BY <1>1, <1>6, <2>4
  <2>6. QED BY <1>7, <2>3, <2>4, <2>5
<1>10. QED BY <1>7, <1>8, <1>9

(***************************************************************************)
(* ... and gives the others theirs.                                        *)
(***************************************************************************)
LEMMA ResolveKeeps ==
  ASSUME NEW s, WellFormed(s), items = s, InitsKept(s), NEW n \in 0 .. Len(s), NEW vals, vals = ValuesUpTo(s, n),
         ResolveGlobalAndAliasInits(vals), \A i \in Protos(s) : i < Pos <=> i < Pos',
         Pos \in Int, Pos' \in Int, seen'.body \/ phase' # "load" => \A i \in Valued(s) : i <= n
  PROVE  InitsKept(s)'
<1>1. /\ inits \in Seq(Entries(s)) /\ given = [f \in Functions(s) |-> given[f]]
      /\ \A k \in DOMAIN inits : \E i \in Initialised(s) : i < Pos /\ inits[k] = InitOf(s, i)
      /\ \A i \in Protos(s) : s[i].init = 0 \/ i >= Pos => given[s[i].func] = None
      /\ \A i \in Initialised(s) : i < Pos =>
           \/ given[s[i].func] = AllValues(s)[s[i].init]
           \/ \E k \in DOMAIN inits : inits[k] = InitOf(s, i)
  BY Zenon DEF InitsKept
<1>2. /\ inits' \in Seq(Entries(s))
      /\ \A k \in DOMAIN inits' : \E j \in DOMAIN inits : inits'[k] = inits[j] /\ ~Ready(vals, inits[j])
      /\ \A j \in DOMAIN inits : ~Ready(vals, inits[j]) => \E k \in DOMAIN inits' : inits'[k] = inits[j]
  BY <1>1, ResolveQueue
<1>3. /\ vals \in Seq(MadeIds) /\ Starts(vals, AllValues(s))
      /\ (\A i \in Valued(s) : i <= n) => vals = AllValues(s)
  BY ValuesGrow
<1>4. /\ \A i \in Protos(s) : s[i].func \in Functions(s) /\ s[i].init \in Nat /\ i \in Int
      /\ \A i, j \in Protos(s) : s[i].func = s[j].func => i = j
      /\ Initialised(s) \subseteq Protos(s) /\ \A i \in Initialised(s) : s[i].init >= 1
  <2>1. \A i, j \in Protos(s) : s[i].func = s[j].func => i = j
    BY DEF WellFormed
  <2>2. \A i \in Protos(s) : s[i].func \in Functions(s) /\ s[i].init \in Nat
    BY RecordOf
  <2>3. \A i \in Protos(s) : i \in Int
    BY Document
  <2>4. Initialised(s) \subseteq Protos(s) /\ \A i \in Initialised(s) : s[i].init # 0
    BY DEF Initialised
  <2>5. QED BY <2>1, <2>2, <2>3, <2>4
<1>5. \A i \in Protos(s) : (i < Pos <=> i < Pos') /\ (i >= Pos <=> i >= Pos')
  BY ONLY <1>4, Pos \in Int, Pos' \in Int, \A i \in Protos(s) : i < Pos <=> i < Pos'
<1>6. \A i : InitOf(s, i).func = s[i].func /\ InitOf(s, i).value = s[i].init - 1
  BY DEF InitOf
<1> DEFINE its(f) == {k \in DOMAIN inits : inits[k].func = f /\ Ready(vals, inits[k])}
<1>7. /\ given' = [f \in DOMAIN given |-> Resolved(vals, f)]
      /\ \A f : Resolved(vals, f) = IF its(f) = {} THEN given[f] ELSE vals[inits[CHOOSE k \in its(f) : TRUE].value + 1]
  BY DEF ResolveGlobalAndAliasInits, Resolved
<1>8. DOMAIN given = Functions(s)
  BY ONLY <1>1
<1>9. given' = [f \in Functions(s) |-> given'[f]]
  BY ONLY <1>7, <1>8
<1>10. \A f \in Functions(s) : given'[f] = Resolved(vals, f)
  BY ONLY <1>7, <1>8
<1>11. ASSUME NEW i \in Protos(s), NEW k \in its(s[i].func)
       PROVE  /\ s[i].init # 0 /\ i < Pos /\ inits[k] = InitOf(s, i)
              /\ vals[inits[k].value + 1] = AllValues(s)[s[i].init]
  <2>1. k \in DOMAIN inits /\ inits[k].func = s[i].func /\ Ready(vals, inits[k])
    OBVIOUS
  <2>2. PICK m \in Initialised(s) : m < Pos /\ inits[k] = InitOf(s, m)
    BY <1>1, <2>1
  <2>3. m = i
    BY <1>4, <1>6, <2>1, <2>2
  <2>4. inits[k].value + 1 = s[i].init /\ s[i].init \in 1 .. Len(vals)
    <3>1. inits[k].value = s[i].init - 1 /\ inits[k].value < Len(vals) /\ s[i].init \in Nat /\ s[i].init >= 1
      BY <1>4, <1>6, <2>1, <2>2, <2>3 DEF Ready
    <3>2. Len(vals) \in Nat
      BY <1>3
    <3>3. QED BY ONLY <3>1, <3>2
  <2>5. vals[s[i].init] = AllValues(s)[s[i].init]
    BY <1>3, <2>4 DEF Starts
  <2>6. QED BY <1>4, <2>2, <2>3, <2>4, <2>5
<1> HIDE DEF its
<1>12. \A i \in Protos(s) : given'[s[i].func] = IF its(s[i].func) = {} THEN given[s[i].func] ELSE AllValues(s)[s[i].init]
  <2> SUFFICES ASSUME NEW i \in Protos(s)
               PROVE  given'[s[i].func] = IF its(s[i].func) = {} THEN given[s[i].func] ELSE AllValues(s)[s[i].init]
    OBVIOUS
  <2>1. given'[s[i].func] = Resolved(vals, s[i].func)
    BY <1>4, <1>10
  <2>2. CASE its(s[i].func) = {}
    BY <1>7, <2>1, <2>2
  <2>3. CASE its(s[i].func) # {}
    <3>1. (CHOOSE k \in its(s[i].func) : TRUE) \in its(s[i].func)
      BY <2>3
    <3>2. QED BY <1>7, <1>11, <2>1, <2>3, <3>1
  <2>4. QED BY <2>2, <2>3
<1>13. \A k \in DOMAIN inits' : \E i \in Initialised(s) : i < Pos' /\ inits'[k] = InitOf(s, i)
  BY <1>1, <1>2, <1>4, <1>5
<1>14. \A i \in Protos(s) : s[i].init = 0 \/ i >= Pos' => given'[s[i].func] = None
  <2> SUFFICES ASSUME NEW i \in Protos(s), s[i].init = 0 \/ i >= Pos' PROVE given'[s[i].func] = None
    OBVIOUS
  <2>1. s[i].init = 0 \/ i >= Pos
    BY <1>5
  <2>2. its(s[i].func) = {}
    <3>1. i >= Pos => ~ (i < Pos)
      BY <1>4
    <3>2. QED BY <1>11, <2>1, <3>1
  <2>3. QED BY <1>1, <1>12, <2>1, <2>2
<1>15. \A i \in Initialised(s) : i < Pos' =>
           \/ given'[s[i].func] = AllValues(s)[s[i].init]
           \/ \E k \in DOMAIN inits' : inits'[k] = InitOf(s, i)
  <2> SUFFICES ASSUME NEW i \in Initialised(s), i < Pos', given'[s[i].func] # AllValues(s)[s[i].init]
               PROVE  \E k \in DOMAIN inits' : inits'[k] = InitOf(s, i)
    OBVIOUS
  <2>1. i \in Protos(s) /\ i < Pos
    BY <1>4, <1>5
  <2>2. its(s[i].func) = {} /\ given[s[i].func] # AllValues(s)[s[i].init]
    BY <1>12, <2>1
  <2>3. PICK k \in DOMAIN inits : inits[k] = InitOf(s, i)
    BY <1>1, <2>1, <2>2
  <2>4. ~Ready(vals, inits[k])
    BY <1>6, <2>2, <2>3 DEF its
  <2>5. QED BY <1>2, <2>3, <2>4
<1>16. seen'.body \/ phase' # "load" => inits' = << >>
  <2> SUFFICES ASSUME seen'.body \/ phase' # "load", inits' # << >> PROVE FALSE
    OBVIOUS
  <2>1. vals = AllValues(s) /\ Len(vals) \in Nat
    BY <1>3
  <2>2. 1 \in DOMAIN inits'
    BY <1>2
  <2>3. PICK j \in DOMAIN inits : ~Ready(vals, inits[j])
    BY <1>2, <2>2
  <2>4. PICK i \in Initialised(s) : inits[j] = InitOf(s, i)
    BY <1>1
  <2>5. s[i].init <= Len(AllValues(s))
    BY <1>4 DEF WellFormed, AllValues
  <2>6. s[i].init \in Nat /\ ~ (s[i].init - 1 < Len(vals))
    BY <1>4, <1>6, <2>3, <2>4 DEF Ready
  <2>7. QED BY ONLY <2>1, <2>5, <2>6
<1>17. QED BY ONLY <1>2, <1>9, <1>13, <1>14, <1>15, <1>16, Zenon DEF InitsKept

(***************************************************************************)
(* The tables after the next item.                                         *)
(***************************************************************************)
LEMMA ValuesOn ==
  ASSUME NEW s, WellFormed(s), TablesKnown(s), Pos \in 1 .. Len(s), body = None
  PROVE  /\ values \o ItemValues(s, Pos) = ValuesUpTo(s, Pos) /\ values \o ItemValues(s, Pos) \in Seq(ValueIds)
         /\ ItemValues(s, Pos) = << >> => values \o ItemValues(s, Pos) = values
<1>1. values = ValuesUpTo(s, Pos - 1) /\ values \in Seq(ValueIds)
  BY DEF TablesKnown
<1>2. \A i \in 1 .. Len(s) : ValuesUpTo(s, i) = ValuesUpTo(s, i - 1) \o ItemValues(s, i)
  BY ValuesGrow
<1>3. ValuesUpTo(s, Pos) = values \o ItemValues(s, Pos)
  BY ONLY <1>1, <1>2, Pos \in 1 .. Len(s)
<1>4. Pos \in 0 .. Len(s) /\ ValuesUpTo(s, Pos) \in Seq(MadeIds)
  <2>1. Pos \in 0 .. Len(s)
    BY Document
  <2>2. \A n \in 0 .. Len(s) : ValuesUpTo(s, n) \in Seq(MadeIds)
    BY ValuesGrow
  <2>3. QED BY <2>1, <2>2
<1>5. MadeIds \subseteq ValueIds
  BY DEF MadeIds, ValueIds
<1>6. ValuesUpTo(s, Pos) \in Seq(ValueIds)
  BY <1>4, <1>5, SeqMonotonic
<1>7. values \o << >> = values
  BY <1>1, ConcatEmptySeq
<1>8. QED BY ONLY <1>3, <1>6, <1>7

(* An item with values and no metadata keeps the tables the writer's.    *)
LEMMA TablesOn ==
  ASSUME NEW s, WellFormed(s), TablesKnown(s), Pos \in 1 .. Len(s), Pos' = Pos + 1, body = None,
         ItemMetadata(s, Pos) = << >>, values' = values \o ItemValues(s, Pos), seen'.md = seen.md,
         phase' = phase, UNCHANGED <<lazy, deferred_md, mds, body>>
  PROVE  TablesKnown(s)'
<1>1. values' = ValuesUpTo(s, Pos' - 1) /\ values' \in Seq(ValueIds)
  <2>1. Pos' - 1 = Pos
    BY Document
  <2>2. QED BY <2>1, ValuesOn
<1>2. MetadataUpTo(s, Pos) = MetadataUpTo(s, Pos - 1) /\ Pos' - 1 = Pos
  <2>1. \A i \in 1 .. Len(s) : MetadataUpTo(s, i) = MetadataUpTo(s, i - 1) \o ItemMetadata(s, i)
    BY MetadataGrows
  <2>2. Pos - 1 \in 0 .. Len(s) /\ Pos' - 1 = Pos
    BY Document
  <2>3. MetadataUpTo(s, Pos - 1) \in Seq(MadeIds)
    BY <2>2, MetadataGrows
  <2>4. MetadataUpTo(s, Pos - 1) \o << >> = MetadataUpTo(s, Pos - 1)
    BY <2>3, ConcatEmptySeq
  <2>5. QED BY ONLY <2>1, <2>2, <2>4, Pos \in 1 .. Len(s), ItemMetadata(s, Pos) = << >>
<1>3. QED BY ONLY <1>1, <1>2, TablesKnown(s), seen'.md = seen.md, phase' = phase,
             UNCHANGED <<lazy, deferred_md, mds, body>>, Zenon DEF TablesKnown

-----------------------------------------------------------------------------
(***************************************************************************)
(* Each action of ParseModule keeps the invariant.                         *)
(***************************************************************************)
LEMMA KeptByFunctionRecord ==
  ASSUME NEW s, WellFormed(s), items = s, InOrderOf(s), ParseFunctionRecord
  PROVE  InOrderOf(s)'
<1> USE DEF InOrderOf
<1>1. Read("proto") /\ Step
  BY DEF ParseFunctionRecord
<1>2. /\ Pos = cursor.at /\ Pos \in 1 .. Len(s) /\ Pos \in DOMAIN s /\ Item = s[Pos] /\ Pos \in Protos(s)
      /\ Pos \notin Bodies(s) /\ s[Pos].kind = "proto" /\ phase = "load" /\ ~seen.body /\ body = None
  BY <1>1, ItemFacts
<1>3. UNCHANGED <<doc, lazy, next_unread, seen, deferred_md, mds, given, blocks, body, phase, func, todo, attached, error>>
  BY DEF ParseFunctionRecord, calls
<1>4. Pos' = Pos + 1 /\ PlaceKnown(s)'
  <2>1. seen' \in [symtab : BOOLEAN, body : BOOLEAN, md : BOOLEAN]
    BY <1>3 DEF PlaceKnown
  <2>2. QED BY <1>1, <1>3, <2>1, ReadOn
<1>5. /\ s[Pos].func \in Functions(s) /\ s[Pos].body \in BOOLEAN /\ s[Pos].init \in Nat
      /\ (Pos \in Owners(s) <=> s[Pos].body) /\ (s[Pos].func \in WithBody(s) <=> s[Pos].body)
  BY <1>2, RecordOf
<1>6. /\ Owners(s) \subseteq 1 .. Len(s) /\ Owners(s) \subseteq Protos(s) /\ Protos(s) \subseteq 1 .. Len(s) /\ Len(s) \in Nat
      /\ \A b \in Bodies(s) : Pos < b /\ b \in Nat
  <2>1. Pos \in Valued(s)
    BY <1>2 DEF Valued
  <2>2. QED BY <2>1, Document
<1>7. IF s[Pos].body
      THEN /\ materializable' = materializable \cup {s[Pos].func}
           /\ with_bodies' = Append(with_bodies, s[Pos].func)
           /\ deferred' = [deferred EXCEPT ![s[Pos].func] = 0]
      ELSE UNCHANGED <<materializable, with_bodies, deferred>>
  BY <1>2 DEF ParseFunctionRecord
<1>8. QueueInOrder(s)'
  <2>1. ~seen'.body /\ \A b \in Bodies(s) : ~ (b < Pos')
    BY <1>2, <1>3, <1>4, <1>6
  <2>2. /\ with_bodies \in Seq(Functions(s)) /\ Len(with_bodies) = Before(Owners(s), Pos)
        /\ \A i \in Owners(s) : i < Pos => with_bodies[Before(Owners(s), i) + 1] = s[i].func
    BY <1>2 DEF QueueInOrder
  <2>3. /\ Before(Owners(s), Pos') = Before(Owners(s), Pos) + (IF Pos \in Owners(s) THEN 1 ELSE 0)
        /\ Before(Owners(s), Pos) \in Nat
    BY <1>2, <1>4, CountOn
  <2>4. /\ with_bodies' \in Seq(Functions(s)) /\ Len(with_bodies') = Before(Owners(s), Pos')
        /\ \A k \in 1 .. Len(with_bodies) : with_bodies'[k] = with_bodies[k]
        /\ Pos \in Owners(s) => with_bodies'[Before(Owners(s), Pos) + 1] = s[Pos].func
    <3> DEFINE n == Before(Owners(s), Pos)
               f == s[Pos].func
    <3> HIDE DEF n, f
    <3>1. f \in Functions(s) /\ with_bodies \in Seq(Functions(s)) /\ Len(with_bodies) = n /\ n \in Nat
      BY <1>5, <2>2, <2>3 DEF n, f
    <3>2. CASE Pos \in Owners(s)
      <4>1. with_bodies' = Append(with_bodies, f) /\ Before(Owners(s), Pos') = n + 1
        BY <1>5, <1>7, <2>3, <3>2 DEF n, f
      <4>2. /\ with_bodies' \in Seq(Functions(s)) /\ Len(with_bodies') = n + 1
            /\ (\A k \in 1 .. n : with_bodies'[k] = with_bodies[k]) /\ with_bodies'[n + 1] = f
        BY ONLY <3>1, <4>1
      <4>3. QED BY <3>1, <4>1, <4>2 DEF n, f
    <3>3. CASE Pos \notin Owners(s)
      BY <1>5, <1>7, <2>3, <3>1, <3>3 DEF n
    <3>4. QED BY <3>2, <3>3
  <2>5. ASSUME NEW i \in Owners(s), i < Pos' PROVE with_bodies'[Before(Owners(s), i) + 1] = s[i].func
    <3>1. CASE i = Pos
      BY <2>4, <3>1
    <3>2. CASE i # Pos
      <4>1. i < Pos /\ i \in 1 .. Len(s) + 1 /\ Pos \in 1 .. Len(s) + 1 /\ i <= Pos
        BY <1>2, <1>4, <1>6, <2>5, <3>2
      <4>2. Before(Owners(s), i) < Before(Owners(s), Pos)
        BY <1>6, <4>1, BeforeGrows
      <4>3. Before(Owners(s), i) \in Nat
        BY <1>6, <4>1, BeforeFacts
      <4>4. Before(Owners(s), i) + 1 \in 1 .. Len(with_bodies)
        BY ONLY <2>2, <2>3, <4>2, <4>3
      <4>5. with_bodies[Before(Owners(s), i) + 1] = s[i].func
        BY <2>2, <4>1
      <4>6. QED BY ONLY <2>4, <4>4, <4>5
    <3>3. QED BY <3>1, <3>2
  <2>6. QED BY ONLY <2>1, <2>4, <2>5, Zenon DEF QueueInOrder
<1>9. PlacesNoted(s)'
  <2>1. deferred' = deferred
    <3>1. CASE s[Pos].body
      <4>1. BodyOf(s, s[Pos].func) \in Bodies(s)
        BY <1>5, <3>1, BodyKnown
      <4>2. ~ (BodyOf(s, s[Pos].func) < Pos)
        BY <1>2, <1>6, <4>1
      <4>3. deferred[s[Pos].func] = 0 /\ DOMAIN deferred = Functions(s) /\ deferred = [f \in Functions(s) |-> deferred[f]]
        BY <1>5, <4>2 DEF PlacesNoted
      <4>4. deferred' = [deferred EXCEPT ![s[Pos].func] = 0]
        BY <1>7, <3>1
      <4>5. QED BY ONLY <4>3, <4>4
    <3>2. CASE ~ s[Pos].body
      BY <1>7, <3>2
    <3>3. QED BY <1>5, <3>1, <3>2
  <2>2. QED BY <1>2, <1>4, <2>1, QuietPlaces
<1>10. TablesKnown(s)'
  <2>1. values' = values \o ItemValues(s, Pos)
    BY <1>2 DEF ParseFunctionRecord
  <2>2. ItemMetadata(s, Pos) = << >>
    BY <1>2 DEF ItemMetadata
  <2>3. QED BY <1>2, <1>3, <1>4, <2>1, <2>2, TablesOn
<1>11. InitsKept(s)'
  <2>1. inits' = IF s[Pos].init = 0 THEN inits ELSE Append(inits, InitOf(s, Pos))
    BY <1>2 DEF ParseFunctionRecord, InitOf
  <2>2. /\ inits \in Seq(Entries(s)) /\ given = [f \in Functions(s) |-> given[f]]
        /\ \A k \in DOMAIN inits : \E i \in Initialised(s) : i < Pos /\ inits[k] = InitOf(s, i)
        /\ \A i \in Protos(s) : s[i].init = 0 \/ i >= Pos => given[s[i].func] = None
        /\ \A i \in Initialised(s) : i < Pos =>
             \/ given[s[i].func] = AllValues(s)[s[i].init]
             \/ \E k \in DOMAIN inits : inits[k] = InitOf(s, i)
    BY Zenon DEF InitsKept
  <2>3. \A i \in Protos(s) : (i < Pos' <=> i < Pos \/ i = Pos) /\ (i >= Pos' => i >= Pos)
    <3>1. \A i \in Protos(s) : i \in Int
      BY <1>6
    <3>2. QED BY ONLY <1>2, <1>4, <3>1
  <2>4. Initialised(s) \subseteq Protos(s) /\ (Pos \in Initialised(s) <=> s[Pos].init # 0)
    BY <1>2 DEF Initialised
  <2>5. s[Pos].init # 0 => InitOf(s, Pos) \in Entries(s)
    BY <1>5 DEF InitOf, Entries
  <2>6. /\ inits' \in Seq(Entries(s)) /\ \A k \in DOMAIN inits : k \in DOMAIN inits' /\ inits'[k] = inits[k]
        /\ \A k \in DOMAIN inits' : k \in DOMAIN inits \/ (s[Pos].init # 0 /\ inits'[k] = InitOf(s, Pos))
        /\ s[Pos].init # 0 => \E k \in DOMAIN inits' : inits'[k] = InitOf(s, Pos)
    <3>1. CASE s[Pos].init = 0
      BY <2>1, <2>2, <3>1
    <3>2. CASE s[Pos].init # 0
      <4>1. inits' = Append(inits, InitOf(s, Pos)) /\ InitOf(s, Pos) \in Entries(s)
        BY <2>1, <2>5, <3>2
      <4>2. Len(inits) + 1 \in DOMAIN inits' /\ inits'[Len(inits) + 1] = InitOf(s, Pos)
        BY ONLY <2>2, <4>1
      <4>3. QED BY ONLY <2>2, <3>2, <4>1, <4>2
    <3>3. QED BY <3>1, <3>2
  <2>7. \A k \in DOMAIN inits' : \E i \in Initialised(s) : i < Pos' /\ inits'[k] = InitOf(s, i)
    BY ONLY <1>2, <2>2, <2>3, <2>4, <2>6
  <2>8. \A i \in Initialised(s) : i < Pos' =>
             \/ given[s[i].func] = AllValues(s)[s[i].init]
             \/ \E k \in DOMAIN inits' : inits'[k] = InitOf(s, i)
    <3> SUFFICES ASSUME NEW i \in Initialised(s), i < Pos'
                 PROVE  \/ given[s[i].func] = AllValues(s)[s[i].init]
                        \/ \E k \in DOMAIN inits' : inits'[k] = InitOf(s, i)
      OBVIOUS
    <3>1. CASE i = Pos
      BY ONLY <2>4, <2>6, <3>1, i \in Initialised(s)
    <3>2. CASE i < Pos
      BY ONLY <2>2, <2>6, <3>2, i \in Initialised(s)
    <3>3. QED BY ONLY <2>3, <2>4, <3>1, <3>2, i \in Initialised(s), i < Pos'
  <2>9. \A i \in Protos(s) : s[i].init = 0 \/ i >= Pos' => given'[s[i].func] = None
    BY ONLY <1>2, <1>3, <2>2, <2>3
  <2>10. /\ (seen'.body \/ phase' # "load" => inits' = << >>)
         /\ given' = [f \in Functions(s) |-> given'[f]] /\ given' = given
    BY ONLY <1>2, <1>3, <2>2
  <2>11. QED BY ONLY <2>6, <2>7, <2>8, <2>9, <2>10, ZenonT(30) DEF InitsKept
<1>12. FunctionsWhole(s)'
  <2>1. /\ blocks = [f \in Functions(s) |-> blocks[f]]
        /\ materializable = {s[i].func : i \in {j \in Owners(s) : j < Pos}}
        /\ \A f \in WithBody(s) : blocks[f] = << >>
    BY <1>2 DEF FunctionsWhole
  <2>2. {j \in Owners(s) : j < Pos'} = {j \in Owners(s) : j < Pos} \cup (IF s[Pos].body THEN {Pos} ELSE {})
    <3>1. \A i \in Owners(s) : i \in Int
      BY <1>6
    <3>2. \A i \in Owners(s) : i < Pos' <=> i < Pos \/ i = Pos
      BY ONLY <1>2, <1>4, <3>1
    <3>3. QED BY ONLY <1>5, <3>2
  <2>3. materializable' = {s[i].func : i \in {j \in Owners(s) : j < Pos'}}
    BY ONLY <1>5, <1>7, <2>1, <2>2
  <2>4. QED BY ONLY <1>2, <1>3, <2>1, <2>3, Zenon DEF FunctionsWhole
<1>13. CallInOrder(s)' /\ BodyInOrder(s)'
  BY <1>2, <1>3, <1>4, QuietCall
<1>14. QED BY <1>3, <1>4, <1>8, <1>9, <1>10, <1>11, <1>12, <1>13

(* Constants may give initialisers their value.                          *)
LEMMA KeptByConstants ==
  ASSUME NEW s, WellFormed(s), items = s, InOrderOf(s), ParseConstants
  PROVE  InOrderOf(s)'
<1> USE DEF InOrderOf
<1>1. Read("constants") /\ Step
  BY DEF ParseConstants
<1>2. /\ Pos = cursor.at /\ Pos \in 1 .. Len(s) /\ Pos \in DOMAIN s /\ Pos \notin Protos(s) /\ Pos \notin Bodies(s)
      /\ s[Pos].kind = "constants" /\ phase = "load" /\ ~seen.body /\ body = None
  BY <1>1, ItemFacts
<1>3. UNCHANGED <<doc, lazy, next_unread, seen, with_bodies, deferred, deferred_md, mds, materializable,
                  blocks, body, phase, func, todo, attached, error>>
  BY DEF ParseConstants, calls
<1>4. Pos' = Pos + 1 /\ PlaceKnown(s)'
  <2>1. seen' \in [symtab : BOOLEAN, body : BOOLEAN, md : BOOLEAN]
    BY <1>3 DEF PlaceKnown
  <2>2. QED BY <1>1, <1>3, <2>1, ReadOn
<1>5. Owners(s) \subseteq Protos(s) /\ Protos(s) \subseteq 1 .. Len(s) /\ Len(s) \in Nat
  BY Document
<1>6. Pos \notin Owners(s)
  BY <1>2, <1>5
<1>7. QueueInOrder(s)'
  BY <1>2, <1>3, <1>4, <1>6, QuietQueue
<1>8. PlacesNoted(s)'
  BY <1>2, <1>3, <1>4, QuietPlaces
<1>9. FunctionsWhole(s)'
  BY <1>2, <1>3, <1>4, <1>6, QuietFunctions
<1>10. CallInOrder(s)' /\ BodyInOrder(s)'
  BY <1>2, <1>3, <1>4, QuietCall
<1>11. values' = values \o ItemValues(s, Pos) /\ ResolveGlobalAndAliasInits(values')
  BY <1>2 DEF ParseConstants
<1>12. TablesKnown(s)'
  <2>1. ItemMetadata(s, Pos) = << >>
    BY <1>2 DEF ItemMetadata
  <2>2. QED BY <1>2, <1>3, <1>4, <1>11, <2>1, TablesOn
<1>13. InitsKept(s)'
  <2>1. values' = ValuesUpTo(s, Pos)
    BY <1>2, <1>11, ValuesOn
  <2>2. \A i \in Protos(s) : i < Pos <=> i < Pos'
    <3>1. \A i \in Protos(s) : i \in Int /\ i # Pos
      BY <1>2, <1>5
    <3>2. QED BY ONLY <1>2, <1>4, <3>1
  <2>3. Pos \in 0 .. Len(s) /\ Pos \in Int /\ Pos' \in Int
    BY <1>2, <1>4, <1>5
  <2>4. ~ (seen'.body \/ phase' # "load")
    BY <1>2, <1>3
  <2>5. QED BY <1>11, <2>1, <2>2, <2>3, <2>4, ResolveKeeps
<1>14. QED BY <1>3, <1>4, <1>7, <1>8, <1>9, <1>10, <1>12, <1>13

(* Metadata is read, or its place is noted.                              *)
LEMMA KeptByModuleMetadata ==
  ASSUME NEW s, WellFormed(s), items = s, InOrderOf(s), lazy \in BOOLEAN, ParseModuleMetadata
  PROVE  InOrderOf(s)'
<1> USE DEF InOrderOf
<1>1. Read("metadata") /\ Step
  BY DEF ParseModuleMetadata
<1>2. /\ Pos = cursor.at /\ Pos \in 1 .. Len(s) /\ Pos \in DOMAIN s /\ Pos \notin Protos(s) /\ Pos \notin Bodies(s)
      /\ s[Pos].kind = "metadata" /\ phase = "load" /\ ~seen.body /\ body = None /\ Pos \in Valued(s)
  BY <1>1, ItemFacts
<1>3. UNCHANGED <<doc, lazy, next_unread, with_bodies, deferred, values, inits, given, materializable,
                  blocks, body, phase, func, todo, attached>>
  BY DEF ParseModuleMetadata, calls
<1>4. \/ /\ lazy /\ deferred_md' = Append(deferred_md, Pos) /\ UNCHANGED <<seen, mds, error>>
      \/ /\ ~lazy /\ seen' = [seen EXCEPT !.md = TRUE] /\ mds' = mds \o ItemMetadata(s, Pos)
         /\ error' = (deferred_md # << >>) /\ deferred_md' = deferred_md
  <2>1. lazy => ~seen.md
    BY <1>2 DEF TablesKnown
  <2>2. QED BY <1>2, <2>1 DEF ParseModuleMetadata, Resumed
<1>5. seen' \in [symtab : BOOLEAN, body : BOOLEAN, md : BOOLEAN] /\ seen'.body = seen.body /\ seen'.symtab = seen.symtab
      /\ (lazy => ~seen'.md)
  <2>1. seen \in [symtab : BOOLEAN, body : BOOLEAN, md : BOOLEAN] /\ (lazy => ~seen.md)
    BY <1>2 DEF PlaceKnown, TablesKnown
  <2>2. QED BY <1>4, <2>1
<1>6. Pos' = Pos + 1 /\ PlaceKnown(s)'
  BY <1>1, <1>3, <1>5, ReadOn
<1>7. Owners(s) \subseteq Protos(s) /\ Len(s) \in Nat /\ Pos \in 1 .. Len(s) - 1
  BY <1>2, Document
<1>8. Pos \notin Owners(s)
  BY <1>2, <1>7
<1>9. QueueInOrder(s)'
  BY <1>2, <1>3, <1>5, <1>6, <1>8, QuietQueue
<1>10. PlacesNoted(s)'
  BY <1>2, <1>3, <1>6, QuietPlaces
<1>11. FunctionsWhole(s)'
  BY <1>2, <1>3, <1>6, <1>8, QuietFunctions
<1>12. CallInOrder(s)' /\ BodyInOrder(s)'
  BY <1>2, <1>3, <1>6, QuietCall
<1>13. InitsKept(s)'
  BY <1>2, <1>3, <1>5, <1>6, QuietInits
<1>14. /\ values \in Seq(ValueIds) /\ mds \in Seq(ValueIds)
       /\ deferred_md \in Seq(Nat) /\ \A k \in DOMAIN deferred_md : deferred_md[k] \in 1 .. Len(s) - 1
       /\ deferred_md # << >> => lazy
       /\ values = ValuesUpTo(s, Pos - 1) /\ mds \o Later(s, deferred_md) = MetadataUpTo(s, Pos - 1)
  BY <1>2 DEF TablesKnown
<1>15. ~error'
  BY <1>4, <1>14
<1>16. values' = ValuesUpTo(s, Pos' - 1)
  <2>1. ItemValues(s, Pos) = << >>
    BY <1>2 DEF ItemValues
  <2>2. values = ValuesUpTo(s, Pos)
    BY <1>2, <2>1, ValuesOn
  <2>3. Pos' - 1 = Pos
    BY <1>2, <1>6, <1>7
  <2>4. QED BY <1>3, <2>2, <2>3
<1>17. DOMAIN s = 1 .. Len(s) /\ deferred_md \in Seq(DOMAIN s)
  <2>1. DOMAIN s = 1 .. Len(s)
    BY Document
  <2>2. \A k \in DOMAIN deferred_md : deferred_md[k] \in DOMAIN s
    BY <1>7, <1>14, <2>1
  <2>3. QED BY ONLY <1>14, <2>1, <2>2
<1>18. /\ Later(s, deferred_md) \in Seq(MadeIds) /\ Later(s, << >>) = << >>
       /\ Later(s, Append(deferred_md, Pos)) = Later(s, deferred_md) \o ItemMetadata(s, Pos)
  BY <1>2, <1>17, LaterGrows
<1>19. ItemMetadata(s, Pos) \in Seq(ValueIds) /\ Later(s, deferred_md) \in Seq(ValueIds)
  <2>1. MadeIds \subseteq ValueIds
    BY DEF MadeIds, ValueIds
  <2>2. ItemMetadata(s, Pos) \in Seq(MadeIds)
    BY <1>2, ItemTables
  <2>3. QED BY <1>18, <2>1, <2>2, SeqMonotonic
<1>20. /\ mds' \o Later(s, deferred_md') = (mds \o Later(s, deferred_md)) \o ItemMetadata(s, Pos)
       /\ mds' \in Seq(ValueIds)
  <2>1. CASE lazy
    <3>1. deferred_md' = Append(deferred_md, Pos) /\ mds' = mds
      BY <1>4, <2>1
    <3>2. mds \o (Later(s, deferred_md) \o ItemMetadata(s, Pos)) = (mds \o Later(s, deferred_md)) \o ItemMetadata(s, Pos)
      <4> DEFINE l == Later(s, deferred_md)
                 m == ItemMetadata(s, Pos)
      <4>1. mds \in Seq(ValueIds) /\ l \in Seq(ValueIds) /\ m \in Seq(ValueIds)
        BY <1>14, <1>19
      <4> HIDE DEF l, m
      <4>2. mds \o (l \o m) = (mds \o l) \o m
        BY ONLY <4>1, ConcatAssociative
      <4>3. QED BY <4>2 DEF l, m
    <3>3. Later(s, deferred_md') = Later(s, deferred_md) \o ItemMetadata(s, Pos)
      BY <1>18, <3>1
    <3>4. mds' \o Later(s, deferred_md') = mds \o (Later(s, deferred_md) \o ItemMetadata(s, Pos))
      BY ONLY <3>1, <3>3, Zenon
    <3>5. mds' \in Seq(ValueIds)
      BY <1>14, <3>1
    <3>6. QED BY ONLY <3>2, <3>4, <3>5, Zenon
  <2>2. CASE ~lazy
    <3>1. mds' = mds \o ItemMetadata(s, Pos) /\ deferred_md' = deferred_md /\ deferred_md = << >>
      BY <1>4, <1>14, <2>2
    <3>2. mds' \in Seq(ValueIds)
      BY <1>14, <1>19, <3>1, ConcatProperties
    <3>3. mds' \o << >> = mds' /\ mds \o << >> = mds
      BY <1>14, <3>2, ConcatEmptySeq
    <3>4. Later(s, deferred_md') = << >> /\ Later(s, deferred_md) = << >>
      BY <1>18, <3>1
    <3>5. QED BY ONLY <3>1, <3>2, <3>3, <3>4
  <2>3. QED BY <2>1, <2>2
<1>21. mds' \o Later(s, deferred_md') = MetadataUpTo(s, Pos' - 1)
  <2>1. \A i \in 1 .. Len(s) : MetadataUpTo(s, i) = MetadataUpTo(s, i - 1) \o ItemMetadata(s, i)
    BY MetadataGrows
  <2>2. MetadataUpTo(s, Pos) = (mds \o Later(s, deferred_md)) \o ItemMetadata(s, Pos)
    BY ONLY <1>2, <1>14, <2>1
  <2>3. Pos' - 1 = Pos
    BY <1>2, <1>6, <1>7
  <2>4. QED BY ONLY <1>20, <2>2, <2>3
<1>22. /\ deferred_md' \in Seq(Nat) /\ \A k \in DOMAIN deferred_md' : deferred_md'[k] \in 1 .. Len(s) - 1
       /\ deferred_md' # << >> => lazy
  <2>1. CASE lazy
    <3>1. deferred_md' = Append(deferred_md, Pos) /\ Pos \in Nat
      BY <1>4, <1>7, <2>1
    <3>2. QED BY ONLY <1>7, <1>14, <2>1, <3>1
  <2>2. CASE ~lazy
    BY <1>4, <1>14, <2>2
  <2>3. QED BY <2>1, <2>2
<1>23. TablesKnown(s)'
  BY ONLY <1>2, <1>3, <1>5, <1>14, <1>16, <1>20, <1>21, <1>22, Zenon DEF TablesKnown
<1>24. QED BY <1>6, <1>9, <1>10, <1>11, <1>12, <1>13, <1>15, <1>23

(* What has no values of its own only moves the cursor.                  *)
LEMMA KeptByRest ==
  ASSUME NEW s, WellFormed(s), items = s, InOrderOf(s), ParseValueSymbolTable \/ SkipUnknown
  PROVE  InOrderOf(s)'
<1> USE DEF InOrderOf
<1>1. PICK kind \in {"symtab", "other"} : Read(kind) /\ Step
  BY DEF ParseValueSymbolTable, SkipUnknown
<1>2. /\ Pos = cursor.at /\ Pos \in 1 .. Len(s) /\ Pos \in DOMAIN s /\ Pos \notin Protos(s) /\ Pos \notin Bodies(s)
      /\ s[Pos].kind = kind /\ body = None
  BY <1>1, ItemFacts
<1>3. UNCHANGED <<doc, lazy, next_unread, with_bodies, deferred, deferred_md, values, mds, inits, given, materializable,
                  blocks, body, phase, func, todo, attached, error>>
  BY DEF ParseValueSymbolTable, SkipUnknown, calls, tables
<1>4. /\ seen' \in [symtab : BOOLEAN, body : BOOLEAN, md : BOOLEAN] /\ seen'.body = seen.body /\ seen'.md = seen.md
      /\ (seen.symtab => seen'.symtab)
  <2>1. seen \in [symtab : BOOLEAN, body : BOOLEAN, md : BOOLEAN]
    BY DEF PlaceKnown
  <2>2. QED BY <2>1 DEF ParseValueSymbolTable, SkipUnknown, tables
<1>5. Pos' = Pos + 1 /\ PlaceKnown(s)'
  <2>1. kind # "end"
    OBVIOUS
  <2>2. QED BY <1>1, <1>3, <1>4, <2>1, ReadOn
<1>6. Owners(s) \subseteq Protos(s)
  BY Document
<1>7. Pos \notin Owners(s)
  BY <1>2, <1>6
<1>8. QueueInOrder(s)'
  BY <1>2, <1>3, <1>4, <1>5, <1>7, QuietQueue
<1>9. PlacesNoted(s)'
  BY <1>2, <1>3, <1>5, QuietPlaces
<1>10. FunctionsWhole(s)'
  BY <1>2, <1>3, <1>5, <1>7, QuietFunctions
<1>11. CallInOrder(s)' /\ BodyInOrder(s)'
  BY <1>2, <1>3, <1>5, QuietCall
<1>12. InitsKept(s)'
  BY <1>2, <1>3, <1>4, <1>5, QuietInits
<1>13. TablesKnown(s)'
  <2>1. ItemValues(s, Pos) = << >> /\ ItemMetadata(s, Pos) = << >>
    BY <1>2 DEF ItemValues, ItemMetadata
  <2>2. values' = values \o ItemValues(s, Pos)
    BY <1>2, <1>3, <2>1, ValuesOn
  <2>3. QED BY <1>2, <1>3, <1>4, <1>5, <2>1, <2>2, TablesOn
<1>14. QED BY <1>3, <1>5, <1>8, <1>9, <1>10, <1>11, <1>12, <1>13

(***************************************************************************)
(* A body or the end is read: all functions of the module are known.       *)
(***************************************************************************)
LEMMA FunctionsOn ==
  ASSUME NEW s, WellFormed(s), FunctionsWhole(s), Pos \in 1 .. Len(s), Pos' = Pos + 1, body = None,
         \A i \in Owners(s) : i < Pos, phase' = "load" => phase = "load",
         UNCHANGED <<materializable, blocks, body>>
  PROVE  FunctionsWhole(s)'
<1>1. WithBody(s) = {s[i].func : i \in Owners(s)}
  BY Document
<1>2. \A i \in Owners(s) : i < Pos'
  <2>1. \A i \in Owners(s) : i \in Int
    BY Document
  <2>2. QED BY ONLY <2>1, Pos \in 1 .. Len(s), Pos' = Pos + 1, \A i \in Owners(s) : i < Pos
<1>3. {j \in Owners(s) : j < Pos'} = Owners(s) /\ {j \in Owners(s) : j < Pos} = Owners(s)
  BY ONLY <1>2, \A i \in Owners(s) : i < Pos
<1>4. blocks = [f \in Functions(s) |-> blocks[f]]
  BY Zenon DEF FunctionsWhole
<1>5. CASE phase = "load"
  <2>1. materializable = WithBody(s) /\ \A f \in WithBody(s) : blocks[f] = << >>
    BY <1>1, <1>3, <1>5 DEF FunctionsWhole
  <2>2. materializable' = WithBody(s) /\ \A f \in WithBody(s) : blocks'[f] = << >>
    BY <2>1
  <2>3. materializable' = IF phase' = "load" THEN {s[i].func : i \in {j \in Owners(s) : j < Pos'}}
                          ELSE materializable' \cap WithBody(s)
    BY <1>1, <1>3, <2>2
  <2>4. QED BY ONLY <1>4, <2>2, <2>3, UNCHANGED blocks, Zenon DEF FunctionsWhole
<1>6. CASE phase # "load"
  <2>1. \A f \in WithBody(s) : BodyOf(s, f) < Pos => BodyOf(s, f) < Pos'
    <3>1. \A f \in WithBody(s) : BodyOf(s, f) \in Int
      BY BodyKnown, Document
    <3>2. QED BY ONLY <3>1, Pos \in 1 .. Len(s), Pos' = Pos + 1
  <2>2. phase' # "load"
    BY <1>6
  <2>3. materializable = materializable \cap WithBody(s)
    BY <1>6 DEF FunctionsWhole
  <2>4. \A f \in WithBody(s) :
          \/ f \in materializable /\ blocks[f] = << >>
          \/ f \notin materializable /\ blocks[f] = WrittenBody(s, f) /\ BodyOf(s, f) < Pos
    BY <1>6 DEF FunctionsWhole
  <2>5. QED BY ONLY <1>4, <2>1, <2>2, <2>3, <2>4, body = None, UNCHANGED <<materializable, blocks, body>>, Zenon DEF FunctionsWhole
<1>7. QED BY <1>5, <1>6

(***************************************************************************)
(* The list of functions as it is when a body is met: the owner of the body*)
(* is its last.                                                            *)
(***************************************************************************)
LEMMA OwnerIsLast ==
  ASSUME NEW s, WellFormed(s), items = s, PlaceKnown(s), QueueInOrder(s), Pos \in Bodies(s)
  PROVE  LET m == Cardinality(Bodies(s))
             r == Before(Bodies(s), Pos)
         IN  /\ InOrder \in Seq(Functions(s)) /\ Len(InOrder) = m - r /\ r < m /\ m \in Nat /\ r \in Nat
             /\ \A i \in Owners(s) : Before(Owners(s), i) >= r => InOrder[m - Before(Owners(s), i)] = s[i].func
<1> DEFINE m == Cardinality(Bodies(s))
           O == Owners(s)
           r == Before(Bodies(s), Pos)
           w == with_bodies
<1>1. /\ Len(s) \in Nat /\ Bodies(s) \subseteq 1 .. Len(s) /\ O \subseteq 1 .. Len(s)
      /\ O \subseteq Valued(s) /\ \A i \in O : i < Pos
  BY Document
<1>2. Pos \in 1 .. Len(s) /\ m \in Nat /\ r \in Nat /\ r < m /\ Cardinality(O) = m
  BY <1>1, CountOn
<1>3. \A i \in O : Before(O, i) \in Nat /\ Before(O, i) < m
  <2> SUFFICES ASSUME NEW i \in O PROVE Before(O, i) \in Nat /\ Before(O, i) < m
    OBVIOUS
  <2>1. i \in 1 .. Len(s) + 1 /\ Len(s) + 1 \in 1 .. Len(s) + 1 /\ i < Len(s) + 1 /\ i <= Len(s) + 1
    BY <1>1
  <2>2. Before(O, i) < Before(O, Len(s) + 1)
    BY <1>1, <2>1, BeforeGrows
  <2>3. Before(O, Len(s) + 1) = Cardinality(O) /\ Before(O, i) \in Nat
    BY <1>1, <2>1, BeforeFacts
  <2>4. QED BY ONLY <1>2, <2>2, <2>3
<1>4. w \in Seq(Functions(s))
  BY DEF QueueInOrder
<1>5. CASE seen.body
  <2>1. Len(w) = m - r /\ \A i \in O : Before(O, i) >= r => w[m - Before(O, i)] = s[i].func
    BY <1>5 DEF QueueInOrder
  <2>2. InOrder = w
    BY <1>5 DEF InOrder
  <2>3. QED BY ONLY <1>2, <1>4, <2>1, <2>2
<1>6. CASE ~seen.body
  <2>1. Len(w) = Before(O, Pos) /\ \A i \in O : i < Pos => w[Before(O, i) + 1] = s[i].func
    BY <1>6 DEF QueueInOrder
  <2>2. r = 0
    <3>1. \A b \in Bodies(s) : ~ (b < Pos)
      BY <1>6 DEF QueueInOrder
    <3>2. {j \in Bodies(s) : j < Pos} = {}
      BY ONLY <3>1
    <3>3. QED BY <3>2, FS_EmptySet DEF Before
  <2>3. Before(O, Pos) = m
    <3>1. {j \in O : j < Pos} = O
      BY ONLY <1>1
    <3>2. QED BY ONLY <1>2, <3>1 DEF Before
  <2>4. InOrder = Reverse(w)
    BY <1>6 DEF InOrder
  <2> HIDE DEF m, O, r
  <2>5. /\ Reverse(w) \in Seq(Functions(s)) /\ Len(Reverse(w)) = m
        /\ \A k \in 1 .. m : Reverse(w)[k] = w[m - k + 1]
    <3>1. Len(w) = m
      BY <2>1, <2>3
    <3>2. QED BY ONLY <1>2, <1>4, <3>1 DEF Reverse
  <2>6. ASSUME NEW i \in O PROVE InOrder[m - Before(O, i)] = s[i].func
    <3>1. m - Before(O, i) \in 1 .. m /\ m - (m - Before(O, i)) + 1 = Before(O, i) + 1
      BY ONLY <1>2, <1>3
    <3>2. Reverse(w)[m - Before(O, i)] = w[Before(O, i) + 1]
      BY ONLY <2>5, <3>1
    <3>3. w[Before(O, i) + 1] = s[i].func
      BY <1>1, <2>1
    <3>4. QED BY ONLY <2>4, <3>2, <3>3
  <2>7. InOrder \in Seq(Functions(s)) /\ Len(InOrder) = m - r
    BY ONLY <1>2, <2>2, <2>4, <2>5
  <2>8. QED BY <1>2, <2>6, <2>7 DEF m, O, r
<1>7. QED BY <1>5, <1>6

(* A body that is skipped is matched with the last function of the list. *)
LEMMA KeptByFunctionSkipped ==
  ASSUME NEW s, WellFormed(s), items = s, InOrderOf(s), RememberAndSkipFunctionBody
  PROVE  InOrderOf(s)'
<1> USE DEF InOrderOf
<1> DEFINE m == Cardinality(Bodies(s))
           r == Before(Bodies(s), Pos)
           Q == InOrder
           O == Owners(s)
<1>1. Read("body")
  BY DEF RememberAndSkipFunctionBody
<1>2. /\ Pos = cursor.at /\ Pos \in 1 .. Len(s) /\ Pos \in DOMAIN s /\ Pos \notin Protos(s) /\ Pos \in Bodies(s)
      /\ s[Pos].kind = "body" /\ body = None /\ phase \in {"load", "search", "rest"} /\ cursor.inside
      /\ Pos + 1 \in 1 .. Len(s)
  BY <1>1, ItemFacts
<1>3. /\ Len(s) \in Nat /\ Bodies(s) \subseteq 1 .. Len(s) /\ O \subseteq 1 .. Len(s) /\ O \subseteq Protos(s)
      /\ (\A i \in O : i < Pos) /\ (\A i \in Valued(s) : i < Pos /\ i \in Int) /\ Protos(s) \subseteq Valued(s)
  BY <1>2, Document
<1>4. UNCHANGED <<doc, lazy, deferred_md, values, mds, materializable, blocks, body, func, todo, attached>>
  BY DEF RememberAndSkipFunctionBody
<1>5. /\ Q \in Seq(Functions(s)) /\ Len(Q) = m - r /\ r < m /\ m \in Nat /\ r \in Nat
      /\ \A i \in O : Before(O, i) >= r => Q[m - Before(O, i)] = s[i].func
  BY <1>2, OwnerIsLast
<1>6. Q # << >>
  BY <1>5
<1>7. /\ Step /\ Suspend /\ with_bodies' = Front(Q) /\ deferred' = [deferred EXCEPT ![Last(Q)] = Pos]
      /\ seen' = [seen EXCEPT !.body = TRUE] /\ ~error'
  BY <1>2, <1>6 DEF RememberAndSkipFunctionBody, BodyPlace
<1>8. seen \in [symtab : BOOLEAN, body : BOOLEAN, md : BOOLEAN] /\ cursor \in [at : 1 .. Len(s) + 1, inside : BOOLEAN]
      /\ next_unread \in 0 .. Len(s)
  BY DEF PlaceKnown
<1>9. /\ seen' \in [symtab : BOOLEAN, body : BOOLEAN, md : BOOLEAN] /\ seen'.body /\ seen'.md = seen.md
      /\ seen'.symtab = seen.symtab
      /\ cursor' \in [at : 1 .. Len(s) + 1, inside : BOOLEAN] /\ cursor'.inside /\ cursor'.at = Pos + 1
  <2>1. seen' = [seen EXCEPT !.body = TRUE]
    BY <1>7
  <2>2. /\ seen' \in [symtab : BOOLEAN, body : BOOLEAN, md : BOOLEAN] /\ seen'.body /\ seen'.md = seen.md
        /\ seen'.symtab = seen.symtab
    BY ONLY <1>8, <2>1
  <2>3. cursor' = [cursor EXCEPT !.at = @ + 1]
    BY <1>7 DEF Step
  <2>4. Pos + 1 \in 1 .. Len(s) + 1
    BY <1>2, <1>3
  <2>5. cursor' \in [at : 1 .. Len(s) + 1, inside : BOOLEAN] /\ cursor'.inside /\ cursor'.at = Pos + 1
    BY ONLY <1>2, <1>8, <2>3, <2>4
  <2>6. QED BY <2>2, <2>5
<1>10. IF seen.symtab THEN next_unread' = Pos + 1 /\ phase' = Returned ELSE UNCHANGED <<next_unread, phase>>
  BY <1>2, <1>7 DEF Suspend
<1>11. phase # "load" => seen.symtab
  BY <1>2 DEF PlaceKnown
<1>12. Returned = CASE phase = "load" -> "idle" [] phase = "search" -> "find" [] phase = "rest" -> "last"
  BY DEF Returned
<1>13. /\ phase = "load" => phase' \in {"load", "idle"}
       /\ phase = "search" => phase' = "find"
       /\ phase = "rest" => phase' = "last"
       /\ phase' = "load" => UNCHANGED <<phase, next_unread>>
       /\ phase' # "load" => next_unread' = Pos + 1 /\ phase' \in {"idle", "find", "last"} /\ seen.symtab
  BY <1>2, <1>10, <1>11, <1>12
<1>14. Pos' = Pos + 1
  BY <1>2, <1>9, <1>13 DEF Pos, Parsing
<1>15. PlaceKnown(s)'
  <2>1. phase = "load" => next_unread = 0
    BY DEF PlaceKnown
  <2>2. \A i \in Valued(s) : i < Pos'
    BY ONLY <1>2, <1>3, <1>14
  <2>3. next_unread' \in 0 .. Len(s) /\ (next_unread' # 0 => seen'.symtab /\ seen'.body)
        /\ (phase' = "load" => next_unread' = 0) /\ (phase' # "load" => next_unread' # 0)
    BY <1>2, <1>3, <1>8, <1>9, <1>13, <2>1
  <2>4. phase' \in {"load", "idle", "find", "last"}
    BY <1>2, <1>13
  <2>5. QED BY <1>2, <1>9, <2>2, <2>3, <2>4 DEF PlaceKnown, Parsing
<1>16. Before(Bodies(s), Pos') = r + 1
  BY <1>2, <1>14, CountOn
<1>17. QueueInOrder(s)'
  <2>1. seen'.body <=> \E b \in Bodies(s) : b < Pos'
    BY <1>2, <1>9, <1>14
  <2>2. Front(Q) \in Seq(Functions(s)) /\ Len(Front(Q)) = Len(Q) - 1 /\ \A k \in 1 .. Len(Q) - 1 : Front(Q)[k] = Q[k]
    <3> HIDE DEF Q
    <3>1. QED BY <1>5, <1>6 DEF Front
  <2>3. \A i \in O : Before(O, i) \in Nat /\ Before(O, i) < m
    <3> SUFFICES ASSUME NEW i \in O PROVE Before(O, i) \in Nat /\ Before(O, i) < m
      OBVIOUS
    <3>1. i \in 1 .. Len(s) /\ Before(O, i) \in Nat /\ Before(O, i) < Cardinality(O)
      <4>1. i \in 1 .. Len(s) + 1 /\ Len(s) + 1 \in 1 .. Len(s) + 1 /\ i < Len(s) + 1 /\ i <= Len(s) + 1 /\ i \in 1 .. Len(s)
        BY <1>3
      <4>2. Before(O, i) < Before(O, Len(s) + 1)
        BY <1>3, <4>1, BeforeGrows
      <4>3. Before(O, Len(s) + 1) = Cardinality(O) /\ Before(O, i) \in Nat
        BY <1>3, <4>1, BeforeFacts
      <4>4. QED BY <4>1, <4>2, <4>3
    <3>2. Cardinality(O) = m
      BY Document
    <3>3. QED BY <3>1, <3>2
  <2> HIDE DEF m, r, Q, O
  <2>4. ASSUME NEW i \in O, Before(O, i) >= r + 1 PROVE Front(Q)[m - Before(O, i)] = s[i].func
    <3>1. m - Before(O, i) \in 1 .. Len(Q) - 1 /\ Before(O, i) >= r
      BY ONLY <1>5, <2>3, <2>4
    <3>2. Q[m - Before(O, i)] = s[i].func
      BY <1>5, <3>1
    <3>3. QED BY ONLY <2>2, <3>1, <3>2
  <2>5. Len(with_bodies') = m - (r + 1) /\ with_bodies' \in Seq(Functions(s))
    BY ONLY <1>5, <1>7, <2>2
  <2>6. \A i \in O : Before(O, i) >= Before(Bodies(s), Pos') => with_bodies'[m - Before(O, i)] = s[i].func
    BY ONLY <1>7, <1>16, <2>4
  <2>7. Len(with_bodies') = m - Before(Bodies(s), Pos')
    BY ONLY <1>16, <2>5
  <2>8. QED BY ONLY <1>9, <2>1, <2>5, <2>6, <2>7, Zenon DEF QueueInOrder, m, O
<1>18. PICK o \in O : Before(O, o) = r /\ BodyOf(s, s[o].func) = Pos
  BY <1>2, OwnerOf
<1>19. Last(Q) = s[o].func
  <2>1. Q[m - r] = s[o].func
    BY <1>5, <1>18
  <2> HIDE DEF m, r, Q
  <2>2. QED BY <1>5, <2>1 DEF Last
<1>20. PlacesNoted(s)'
  <2>1. \A f \in WithBody(s) : \E i \in O : f = s[i].func
    BY Document
  <2>2. \A i \in O : BodyOf(s, s[i].func) \in Bodies(s) /\ Before(Bodies(s), BodyOf(s, s[i].func)) = Before(O, i)
    BY BodyMatched
  <2>3. ASSUME NEW f \in WithBody(s), BodyOf(s, f) = Pos PROVE f = s[o].func
    <3>1. PICK i \in O : f = s[i].func
      BY <2>1
    <3>2. Before(O, i) = Before(O, o)
      BY <1>18, <2>2, <2>3, <3>1
    <3>3. i = o
      BY <1>3, <3>2, BeforeOnce
    <3>4. QED BY <3>1, <3>3
  <2>4. s[o].func \in WithBody(s) /\ s[o].func \in Functions(s)
    BY <1>18, Document
  <2>5. \A f \in WithBody(s) : BodyOf(s, f) \in Int
    BY BodyKnown, Document
  <2>6. \A f \in WithBody(s) : BodyOf(s, f) < Pos' <=> BodyOf(s, f) < Pos \/ f = s[o].func
    BY ONLY <1>2, <1>14, <1>18, <2>3, <2>5
  <2>7. deferred = [f \in Functions(s) |-> IF f \in WithBody(s) /\ BodyOf(s, f) < Pos THEN BodyOf(s, f) ELSE 0]
    BY DEF PlacesNoted
  <2>8. deferred' = [deferred EXCEPT ![s[o].func] = Pos]
    BY ONLY <1>7, <1>19
  <2>9. deferred' = [f \in Functions(s) |-> IF f = s[o].func THEN Pos ELSE deferred[f]]
    BY ONLY <2>4, <2>7, <2>8
  <2>10. \A f \in Functions(s) : (IF f = s[o].func THEN Pos ELSE deferred[f])
                                  = IF f \in WithBody(s) /\ BodyOf(s, f) < Pos' THEN BodyOf(s, f) ELSE 0
    BY ONLY <1>18, <2>4, <2>6, <2>7
  <2>11. deferred' = [f \in Functions(s) |-> IF f \in WithBody(s) /\ BodyOf(s, f) < Pos' THEN BodyOf(s, f) ELSE 0]
    BY ONLY <2>9, <2>10
  <2>12. QED BY ONLY <2>11, Zenon DEF PlacesNoted
<1>21. TablesKnown(s)'
  <2>1. ItemValues(s, Pos) = << >> /\ ItemMetadata(s, Pos) = << >>
    BY <1>2 DEF ItemValues, ItemMetadata
  <2>2. values = ValuesUpTo(s, Pos)
    BY <1>2, <2>1, ValuesOn
  <2>3. mds \o Later(s, deferred_md) = MetadataUpTo(s, Pos)
    <3>1. \A i \in 1 .. Len(s) : MetadataUpTo(s, i) = MetadataUpTo(s, i - 1) \o ItemMetadata(s, i)
      BY MetadataGrows
    <3>2. Pos - 1 \in 0 .. Len(s)
      BY <1>2, <1>3
    <3>3. MetadataUpTo(s, Pos - 1) \in Seq(MadeIds)
      BY <3>2, MetadataGrows
    <3>4. MetadataUpTo(s, Pos - 1) \o << >> = MetadataUpTo(s, Pos - 1)
      BY <3>3, ConcatEmptySeq
    <3>5. mds \o Later(s, deferred_md) = MetadataUpTo(s, Pos - 1)
      BY <1>2 DEF TablesKnown
    <3>6. QED BY ONLY <1>2, <2>1, <3>1, <3>4, <3>5
  <2>4. Pos' - 1 = Pos
    BY <1>2, <1>14
  <2>5. /\ values \in Seq(ValueIds) /\ mds \in Seq(ValueIds)
        /\ deferred_md \in Seq(Nat) /\ \A k \in DOMAIN deferred_md : deferred_md[k] \in 1 .. Len(s) - 1
        /\ deferred_md # << >> => phase \in {"load", "idle"} /\ lazy
        /\ lazy /\ phase = "load" => ~seen.md
    BY Zenon DEF TablesKnown
  <2>6. (deferred_md # << >> => phase' \in {"load", "idle"} /\ lazy) /\ (lazy /\ phase' = "load" => ~seen'.md)
    BY ONLY <1>2, <1>9, <1>13, <2>5
  <2>7. QED BY ONLY <1>4, <2>2, <2>3, <2>4, <2>5, <2>6, Zenon DEF TablesKnown
<1>22. InitsKept(s)'
  <2>1. \A i \in Protos(s) : i < Pos <=> i < Pos'
    BY ONLY <1>2, <1>3, <1>14
  <2>2. CASE seen.body
    <3>1. inits' = inits /\ given' = given
      BY <2>2 DEF RememberAndSkipFunctionBody
    <3>2. \A i \in Protos(s) : i >= Pos <=> i >= Pos'
      BY ONLY <1>2, <1>3, <1>14
    <3>3. Initialised(s) \subseteq Protos(s)
      BY DEF Initialised
    <3>4. inits = << >>
      BY <2>2 DEF InitsKept
    <3>5. QED BY ONLY <2>1, <3>1, <3>2, <3>3, <3>4, InitsKept(s), Zenon DEF InitsKept
  <2>3. CASE ~seen.body
    <3>1. ResolveGlobalAndAliasInits(values)
      BY <2>3 DEF RememberAndSkipFunctionBody
    <3>2. values = ValuesUpTo(s, Pos - 1)
      BY <1>2 DEF TablesKnown
    <3>3. Pos - 1 \in 0 .. Len(s) /\ Pos \in Int /\ Pos' \in Int
      BY <1>2, <1>3, <1>14
    <3>4. \A i \in Valued(s) : i <= Pos - 1
      BY ONLY <1>2, <1>3
    <3>5. QED BY <2>1, <3>1, <3>2, <3>3, <3>4, ResolveKeeps
  <2>4. QED BY <2>2, <2>3
<1>23. FunctionsWhole(s)'
  <2>1. phase' = "load" => phase = "load"
    BY <1>13
  <2>2. QED BY <1>2, <1>3, <1>4, <1>14, <2>1, FunctionsOn
<1>24. CallInOrder(s)'
  <2>1. /\ func \in Functions(s) \cup {None}
        /\ phase \in {"find", "search"} => func \in materializable
        /\ todo = None \/ todo \in Seq(Functions(s))
        /\ phase \in {"load", "idle"} => todo = None
        /\ phase \in {"rest", "last"} => todo = << >>
        /\ todo # None => \A f \in materializable : Has(todo, f) \/ (phase \in {"find", "search"} /\ f = func)
        /\ attached \in BOOLEAN /\ (~attached => phase = "idle")
    BY DEF CallInOrder
  <2>2. QED BY ONLY <1>2, <1>4, <1>13, <2>1 DEF CallInOrder
<1>25. BodyInOrder(s)'
  BY <1>2, <1>4 DEF BodyInOrder
<1>26. QED BY <1>7, <1>15, <1>17, <1>20, <1>21, <1>22, <1>23, <1>24, <1>25

(* Behind the last item all bodies have been passed.                     *)
LEMMA KeptByEndModule ==
  ASSUME NEW s, WellFormed(s), items = s, InOrderOf(s), EndModule
  PROVE  InOrderOf(s)'
<1> USE DEF InOrderOf
<1>1. Read("end")
  BY DEF EndModule
<1>2. /\ Pos = cursor.at /\ Pos \in 1 .. Len(s) /\ Pos \in DOMAIN s /\ Pos \notin Protos(s) /\ Pos \notin Bodies(s)
      /\ s[Pos].kind = "end" /\ body = None /\ phase \in {"load", "search", "rest"} /\ cursor.inside
  BY <1>1, ItemFacts
<1>3. /\ Len(s) \in Nat /\ Bodies(s) \subseteq 1 .. Len(s) - 1 /\ Valued(s) \subseteq 1 .. Len(s) - 1
      /\ Owners(s) \subseteq Protos(s) /\ Protos(s) \subseteq Valued(s) /\ Pos = Len(s)
  BY <1>2, Document
<1>4. UNCHANGED <<doc, lazy, next_unread, seen, with_bodies, deferred, deferred_md, values, mds, materializable,
                  blocks, body, func, todo, attached, error>>
  BY DEF EndModule
<1>5. /\ cursor' = [at |-> Pos + 1, inside |-> FALSE] /\ phase' = Returned /\ ResolveGlobalAndAliasInits(values)
  BY <1>2 DEF EndModule
<1>6. phase # "search"
  <2>1. phase = "search" => Pos <= BodyOf(s, func) /\ func \in materializable
    BY DEF CallInOrder
  <2>2. phase = "search" => func \in WithBody(s)
    BY <2>1 DEF FunctionsWhole
  <2>3. \A f \in WithBody(s) : BodyOf(s, f) \in 1 .. Len(s) - 1
    BY <1>3, BodyKnown
  <2>4. QED BY ONLY <1>3, <2>1, <2>2, <2>3
<1>7. (phase = "load" /\ phase' = "idle") \/ (phase = "rest" /\ phase' = "last")
  BY <1>2, <1>5, <1>6 DEF Returned
<1>8. Pos' = Pos + 1
  <2>1. items' = s
    BY <1>4 DEF items
  <2>2. ~cursor'.inside /\ phase' \in {"idle", "last"}
    BY ONLY <1>5, <1>7
  <2>3. QED BY <1>3, <2>1, <2>2 DEF Pos, Parsing
<1>9. PlaceKnown(s)'
  <2>1. next_unread \in 0 .. Len(s) /\ (next_unread # 0 => seen.symtab /\ seen.body) /\ (phase = "load" => next_unread = 0)
        /\ seen \in [symtab : BOOLEAN, body : BOOLEAN, md : BOOLEAN]
    BY DEF PlaceKnown
  <2>2. cursor' \in [at : 1 .. Len(s) + 1, inside : BOOLEAN] /\ ~cursor'.inside
    BY <1>3, <1>5
  <2>3. \A i \in Valued(s) : i < Pos'
    BY ONLY <1>3, <1>8
  <2>4. QED BY ONLY <1>4, <1>7, <2>1, <2>2, <2>3 DEF PlaceKnown, Parsing
<1>10. Pos \notin Owners(s)
  BY <1>2, <1>3
<1>11. QueueInOrder(s)'
  BY <1>2, <1>4, <1>8, <1>10, QuietQueue
<1>12. PlacesNoted(s)'
  BY <1>2, <1>4, <1>8, QuietPlaces
<1>13. TablesKnown(s)'
  <2>1. Pos - 1 \in 0 .. Len(s) /\ Pos' - 1 \in 0 .. Len(s) /\ (\A i \in Valued(s) : i <= Pos - 1) /\ (\A i \in Valued(s) : i <= Pos' - 1)
    BY ONLY <1>2, <1>3, <1>8
  <2>2. ValuesUpTo(s, Pos - 1) = AllValues(s) /\ ValuesUpTo(s, Pos' - 1) = AllValues(s)
    BY <2>1, ValuesGrow
  <2>3. MetadataUpTo(s, Pos - 1) = AllMetadata(s) /\ MetadataUpTo(s, Pos' - 1) = AllMetadata(s)
    BY <2>1, MetadataGrows
  <2>4. QED BY ONLY <1>4, <1>7, <2>2, <2>3, TablesKnown(s) DEF TablesKnown
<1>14. InitsKept(s)'
  <2>1. values = ValuesUpTo(s, Pos - 1)
    BY <1>2 DEF TablesKnown
  <2>2. Pos - 1 \in 0 .. Len(s) /\ Pos \in Int /\ Pos' \in Int /\ \A i \in Valued(s) : i <= Pos - 1
    BY ONLY <1>2, <1>3, <1>8
  <2>3. \A i \in Protos(s) : i < Pos <=> i < Pos'
    BY ONLY <1>2, <1>3, <1>8
  <2>4. QED BY <1>5, <2>1, <2>2, <2>3, ResolveKeeps
<1>15. FunctionsWhole(s)'
  <2>1. \A i \in Owners(s) : i < Pos
    BY ONLY <1>3
  <2>2. phase' = "load" => phase = "load"
    BY <1>7
  <2>3. QED BY <1>2, <1>4, <1>8, <2>1, <2>2, FunctionsOn
<1>16. CallInOrder(s)'
  BY ONLY <1>4, <1>7, CallInOrder(s) DEF CallInOrder
<1>17. BodyInOrder(s)'
  BY <1>2, <1>4 DEF BodyInOrder
<1>18. QED BY <1>4, <1>9, <1>11, <1>12, <1>13, <1>14, <1>15, <1>16, <1>17

-----------------------------------------------------------------------------
(***************************************************************************)
(* Outside of ParseModule the matching of functions, the places and the    *)
(* initialisers stand still.                                               *)
(***************************************************************************)
LEMMA StandStill ==
  ASSUME NEW s, QueueInOrder(s), PlacesNoted(s), InitsKept(s), Pos' = Pos,
         UNCHANGED <<with_bodies, deferred, inits, given>>, seen'.body = seen.body, phase = "load" <=> phase' = "load"
  PROVE  QueueInOrder(s)' /\ PlacesNoted(s)' /\ InitsKept(s)'
<1>1. QueueInOrder(s)'
  BY ONLY QueueInOrder(s), Pos' = Pos, UNCHANGED with_bodies, seen'.body = seen.body, Zenon DEF QueueInOrder
<1>2. PlacesNoted(s)'
  BY ONLY PlacesNoted(s), Pos' = Pos, UNCHANGED deferred, Zenon DEF PlacesNoted
<1>3. InitsKept(s)'
  BY ONLY InitsKept(s), Pos' = Pos, UNCHANGED <<inits, given>>, seen'.body = seen.body, phase = "load" <=> phase' = "load", Zenon DEF InitsKept
<1>4. QED BY <1>1, <1>2, <1>3

(* The place stands still between calls that do not parse.                 *)
LEMMA PlaceStill ==
  ASSUME UNCHANGED <<doc, next_unread>>, cursor'.inside = cursor.inside, ~Parsing, ~Parsing'
  PROVE  Pos' = Pos
BY DEF Pos, items

(* Once the first call has returned all values of the module are there.    *)
LEMMA AllRead ==
  ASSUME NEW s, WellFormed(s), items = s, PlaceKnown(s), TablesKnown(s), phase # "load"
  PROVE  /\ Pos - 1 \in 0 .. Len(s) /\ \A i \in Valued(s) : i < Pos /\ i \in 1 .. Len(s) - 1
         /\ ValuesUpTo(s, Pos - 1) = AllValues(s) /\ MetadataUpTo(s, Pos - 1) = AllMetadata(s)
         /\ AllValues(s) \in Seq(ValueIds) /\ AllMetadata(s) \in Seq(ValueIds)
         /\ deferred_md = << >> => mds \o Later(s, deferred_md) = mds
<1>1. Pos \in 1 .. Len(s) + 1 /\ Len(s) \in Nat
  BY PlaceFacts
<1>2. \A i \in Valued(s) : i < Pos /\ i \in 1 .. Len(s) - 1
  BY Document DEF PlaceKnown
<1>3. Pos - 1 \in 0 .. Len(s) /\ Len(s) \in 0 .. Len(s) /\ \A i \in Valued(s) : i <= Pos - 1
  BY ONLY <1>1, <1>2
<1>4. ValuesUpTo(s, Pos - 1) = AllValues(s) /\ AllValues(s) \in Seq(MadeIds)
  BY <1>3, ValuesGrow DEF AllValues
<1>5. MetadataUpTo(s, Pos - 1) = AllMetadata(s) /\ AllMetadata(s) \in Seq(MadeIds)
  BY <1>3, MetadataGrows DEF AllMetadata
<1>6. MadeIds \subseteq ValueIds
  BY DEF MadeIds, ValueIds
<1>7. AllValues(s) \in Seq(ValueIds) /\ AllMetadata(s) \in Seq(ValueIds)
  BY <1>4, <1>5, <1>6, SeqMonotonic
<1>8. deferred_md = << >> => mds \o Later(s, deferred_md) = mds
  <2>1. << >> \in Seq(DOMAIN s)
    OBVIOUS
  <2>2. Later(s, << >>) = << >>
    BY <2>1, LaterGrows
  <2>3. mds \in Seq(ValueIds)
    BY DEF TablesKnown
  <2>4. mds \o << >> = mds
    BY <2>3, ConcatEmptySeq
  <2>5. QED BY ONLY <2>2, <2>4
<1>9. QED BY <1>2, <1>3, <1>4, <1>5, <1>7, <1>8

(***************************************************************************)
(* MaterializeMetadata completes the metadata and leaves the place.        *)
(***************************************************************************)
LEMMA MetadataCompleted ==
  ASSUME NEW s, WellFormed(s), items = s, PlaceKnown(s), TablesKnown(s), phase # "load", body = None,
         MaterializeMetadata
  PROVE  /\ mds' = AllMetadata(s) /\ deferred_md' = << >>
         /\ cursor' \in [at : 1 .. Len(s) + 1, inside : BOOLEAN] /\ cursor'.inside = cursor.inside
         /\ cursor.inside => cursor'.at <= Len(s)
         /\ seen' \in [symtab : BOOLEAN, body : BOOLEAN, md : BOOLEAN]
         /\ seen'.body = seen.body /\ seen'.symtab = seen.symtab
<1>1. /\ mds \o Later(s, deferred_md) = MetadataUpTo(s, Pos - 1) /\ MetadataUpTo(s, Pos - 1) = AllMetadata(s)
      /\ deferred_md \in Seq(Nat) /\ \A k \in DOMAIN deferred_md : deferred_md[k] \in 1 .. Len(s) - 1
  BY AllRead DEF TablesKnown
<1>2. mds' = AllMetadata(s) /\ deferred_md' = << >>
  BY <1>1 DEF MaterializeMetadata, Later
<1>3. seen' = [seen EXCEPT !.md = @ \/ deferred_md # << >>]
  BY DEF MaterializeMetadata
<1>4. /\ seen \in [symtab : BOOLEAN, body : BOOLEAN, md : BOOLEAN] /\ cursor \in [at : 1 .. Len(s) + 1, inside : BOOLEAN]
      /\ (cursor.inside => cursor.at <= Len(s)) /\ Len(s) \in Nat
  BY PlaceFacts DEF PlaceKnown
<1>5. /\ seen' \in [symtab : BOOLEAN, body : BOOLEAN, md : BOOLEAN]
      /\ seen'.body = seen.body /\ seen'.symtab = seen.symtab
  BY ONLY <1>3, <1>4
<1>6. CASE deferred_md = << >>
  <2>1. cursor' = cursor
    BY <1>6 DEF MaterializeMetadata
  <2>2. QED BY <1>2, <1>4, <1>5, <2>1
<1>7. CASE deferred_md # << >>
  <2>1. cursor' = [cursor EXCEPT !.at = Last(deferred_md) + 1]
    BY <1>7 DEF MaterializeMetadata, JumpTo
  <2>2. Len(deferred_md) \in DOMAIN deferred_md /\ Last(deferred_md) = deferred_md[Len(deferred_md)]
    BY <1>1, <1>7 DEF Last
  <2>3. Last(deferred_md) \in 1 .. Len(s) - 1
    BY ONLY <1>1, <2>2
  <2>4. Last(deferred_md) + 1 \in 1 .. Len(s) + 1 /\ Last(deferred_md) + 1 <= Len(s)
    BY ONLY <1>4, <2>3
  <2>5. cursor' \in [at : 1 .. Len(s) + 1, inside : BOOLEAN] /\ cursor'.inside = cursor.inside /\ cursor'.at <= Len(s)
    BY ONLY <1>4, <2>1, <2>4
  <2>6. QED BY <1>2, <1>5, <2>5
<1>8. QED BY <1>6, <1>7

(***************************************************************************)
(* Every function has a number in the order of their records.              *)
(***************************************************************************)
LEMMA FunctionsListed ==
  ASSUME NEW s, WellFormed(s), items = s
  PROVE  AllFunctions \in Seq(Functions(s)) /\ \A f \in Functions(s) : Has(AllFunctions, f)
<1> DEFINE P == Protos(s)
           m == Cardinality(P)
           at(k) == CHOOSE i \in P : Before(P, i) = k - 1
<1>1. Len(s) \in Nat /\ P \subseteq 1 .. Len(s)
  BY Document
<1>2. m \in Nat
  BY <1>1, BeforeFacts
<1>3. AllFunctions = [k \in 1 .. m |-> s[at(k)].func]
  BY DEF AllFunctions
<1>4. \A k \in 1 .. m : at(k) \in P /\ Before(P, at(k)) = k - 1
  <2> SUFFICES ASSUME NEW k \in 1 .. m PROVE at(k) \in P /\ Before(P, at(k)) = k - 1
    OBVIOUS
  <2>1. k - 1 \in Nat /\ k - 1 < m
    BY <1>2
  <2>2. \E i \in P : Before(P, i) = k - 1
    BY <1>1, <2>1, BeforeOnto
  <2>3. QED BY <2>2
<1>5. \A i \in P : s[i].func \in Functions(s)
  BY DEF Functions
<1> HIDE DEF P, m, at
<1>6. AllFunctions \in Seq(Functions(s)) /\ Len(AllFunctions) = m
  BY ONLY <1>2, <1>3, <1>4, <1>5
<1>7. ASSUME NEW f \in Functions(s) PROVE Has(AllFunctions, f)
  <2>1. PICK i \in P : s[i].func = f
    BY <1>7 DEF Functions, P
  <2>2. Before(P, i) \in Nat /\ Before(P, i) < m
    <3>1. i \in 1 .. Len(s) + 1 /\ Len(s) + 1 \in 1 .. Len(s) + 1 /\ i < Len(s) + 1 /\ i <= Len(s) + 1
      BY <1>1
    <3>2. Before(P, i) < Before(P, Len(s) + 1)
      BY <1>1, <3>1, BeforeGrows
    <3>3. Before(P, Len(s) + 1) = m /\ Before(P, i) \in Nat
      BY <1>1, <3>1, BeforeFacts DEF m
    <3>4. QED BY ONLY <3>2, <3>3
  <2>3. Before(P, i) + 1 \in 1 .. m /\ (Before(P, i) + 1) - 1 = Before(P, i)
    BY <1>2, <2>2
  <2>4. at(Before(P, i) + 1) = i
    <3>1. at(Before(P, i) + 1) \in P /\ Before(P, at(Before(P, i) + 1)) = Before(P, i)
      BY <1>4, <2>3
    <3>2. QED BY <1>1, <3>1, BeforeOnce
  <2>5. AllFunctions[Before(P, i) + 1] = f
    BY <1>3, <2>1, <2>3, <2>4
  <2>6. QED BY <1>6, <2>3, <2>5 DEF Has
<1>8. QED BY <1>6, <1>7

-----------------------------------------------------------------------------
(***************************************************************************)
(* A call enters, for one function or for all, after its metadata.         *)
(***************************************************************************)
LEMMA CompletedKeeps ==
  ASSUME NEW s, WellFormed(s), items = s, InOrderOf(s), body = None, MaterializeMetadata,
         phase \in {"idle", "done"}, phase' \in {"done", "find"}, attached, todo' = None \/ todo' \in Seq(Functions(s)),
         func' \in Functions(s) \cup {None}, phase' = "find" => func' \in materializable,
         todo' # None => \A f \in materializable : Has(todo', f) \/ (phase' = "find" /\ f = func'),
         UNCHANGED <<doc, lazy, next_unread, with_bodies, deferred, values, inits, given, materializable,
                     blocks, body, attached, error>>
  PROVE  InOrderOf(s)'
<1> USE DEF InOrderOf
<1>1. /\ mds' = AllMetadata(s) /\ deferred_md' = << >>
      /\ cursor' \in [at : 1 .. Len(s) + 1, inside : BOOLEAN] /\ cursor'.inside = cursor.inside
      /\ (cursor.inside => cursor'.at <= Len(s))
      /\ seen' \in [symtab : BOOLEAN, body : BOOLEAN, md : BOOLEAN]
      /\ seen'.body = seen.body /\ seen'.symtab = seen.symtab
  BY MetadataCompleted
<1>2. Pos' = Pos
  BY <1>1, PlaceStill DEF Parsing
<1>3. PlaceKnown(s)'
  <2>1. /\ next_unread \in 0 .. Len(s) /\ (next_unread # 0 => seen.symtab /\ seen.body)
        /\ (cursor.inside => next_unread # 0) /\ (~cursor.inside => next_unread = 0)
        /\ \A i \in Valued(s) : i < Pos
    BY DEF PlaceKnown
  <2>2. QED BY ONLY <1>1, <1>2, <2>1, phase' \in {"done", "find"}, next_unread' = next_unread, Zenon DEF PlaceKnown, Parsing
<1>4. QueueInOrder(s)' /\ PlacesNoted(s)' /\ InitsKept(s)'
  BY <1>1, <1>2, StandStill
<1>5. TablesKnown(s)'
  <2>1. /\ Pos - 1 \in 0 .. Len(s) /\ ValuesUpTo(s, Pos - 1) = AllValues(s) /\ MetadataUpTo(s, Pos - 1) = AllMetadata(s)
        /\ AllMetadata(s) \in Seq(ValueIds)
    BY AllRead
  <2>2. values \in Seq(ValueIds) /\ values = ValuesUpTo(s, Pos - 1)
    BY DEF TablesKnown
  <2>3. deferred_md' \in Seq(Nat) /\ \A k \in DOMAIN deferred_md' : deferred_md'[k] \in 1 .. Len(s) - 1
    BY <1>1
  <2>4. mds' \o Later(s, deferred_md') = mds'
    <3>1. << >> \in Seq(DOMAIN s)
      OBVIOUS
    <3>2. Later(s, << >>) = << >>
      BY <3>1, LaterGrows
    <3>3. mds' \o << >> = mds'
      BY <1>1, <2>1, ConcatEmptySeq
    <3>4. QED BY ONLY <1>1, <3>2, <3>3
  <2>5. phase' # "load" /\ body' = None
    OBVIOUS
  <2>6. QED BY ONLY <1>1, <1>2, <2>1, <2>2, <2>3, <2>4, <2>5, UNCHANGED <<values, lazy>>, Zenon DEF TablesKnown
<1>6. FunctionsWhole(s)'
  <2>1. phase # "load" /\ phase' # "load" /\ body = None /\ body' = None
    OBVIOUS
  <2>2. QED BY ONLY <1>2, <2>1, FunctionsWhole(s), UNCHANGED <<materializable, blocks>>, Zenon DEF FunctionsWhole
<1>7. CallInOrder(s)'
  BY DEF CallInOrder
<1>8. BodyInOrder(s)'
  BY DEF BodyInOrder
<1>9. QED BY <1>3, <1>4, <1>5, <1>6, <1>7, <1>8

(* Entering a call completes the metadata that was put off.              *)
LEMMA KeptByEntering ==
  ASSUME NEW s, WellFormed(s), items = s, InOrderOf(s),
         (\E f \in Functions(s) : Materialize(f)) \/ MaterializeModule \/ VisitNext
  PROVE  InOrderOf(s)'
<1> USE DEF InOrderOf
<1>1. phase \in {"idle", "done"} /\ ~error /\ MaterializeMetadata
  BY DEF Materialize, Idle, MaterializeModule, VisitNext, Entering
<1>2. body = None
  BY <1>1 DEF BodyInOrder
<1>3. UNCHANGED <<doc, lazy, next_unread, with_bodies, deferred, values, inits, given, materializable, blocks, body, attached, error>>
  BY DEF Materialize, MaterializeModule, VisitNext, Entering
<1>4. attached
  BY <1>1 DEF Materialize, Idle, MaterializeModule, VisitNext, CallInOrder
<1>5. CASE \E f \in Functions(s) : Materialize(f)
  <2>1. PICK f \in Functions(s) : Materialize(f)
    BY <1>5
  <2>2. func' = f /\ phase' = (IF f \notin materializable THEN "done" ELSE "find") /\ todo' = todo /\ phase = "idle"
    BY <2>1 DEF Materialize, Entering, Idle
  <2>3. todo' = None
    BY <2>2 DEF CallInOrder
  <2>4. phase' \in {"done", "find"} /\ func' \in Functions(s) \cup {None} /\ (phase' = "find" => func' \in materializable)
    BY ONLY <2>1, <2>2
  <2>5. QED BY <1>1, <1>2, <1>3, <1>4, <2>3, <2>4, CompletedKeeps
<1>6. CASE MaterializeModule
  <2>1. todo' = AllFunctions /\ phase' = "done" /\ func' = func
    BY <1>6 DEF MaterializeModule
  <2>2. todo' \in Seq(Functions(s)) /\ \A f \in Functions(s) : Has(todo', f)
    BY <2>1, FunctionsListed
  <2>3. materializable \subseteq Functions(s)
    <3>1. phase # "load"
      BY <1>1
    <3>2. materializable = materializable \cap WithBody(s)
      BY <3>1 DEF FunctionsWhole
    <3>3. QED BY <3>2, Document
  <2>4. func' \in Functions(s) \cup {None}
    BY <2>1 DEF CallInOrder
  <2>5. \A f \in materializable : Has(todo', f) \/ (phase' = "find" /\ f = func')
    BY ONLY <2>2, <2>3
  <2>6. phase' \in {"done", "find"} /\ phase' # "find"
    BY <2>1
  <2>7. QED BY <1>1, <1>2, <1>3, <1>4, <2>2, <2>4, <2>5, <2>6, CompletedKeeps
<1>7. CASE VisitNext
  <2>1. /\ phase = "done" /\ todo \notin {None, << >>} /\ func' = Head(todo) /\ todo' = Tail(todo)
        /\ phase' = IF Head(todo) \notin materializable THEN "done" ELSE "find"
    BY <1>7 DEF VisitNext, Entering
  <2>2. todo \in Seq(Functions(s)) /\ \A f \in materializable : Has(todo, f)
    BY <2>1 DEF CallInOrder
  <2>3. /\ Head(todo) \in Functions(s) /\ Tail(todo) \in Seq(Functions(s)) /\ Head(todo) = todo[1]
        /\ Len(todo) \in Nat /\ Len(Tail(todo)) = Len(todo) - 1 /\ \A k \in 1 .. Len(todo) - 1 : Tail(todo)[k] = todo[k + 1]
    BY ONLY <2>1, <2>2
  <2>4. ASSUME NEW f \in materializable PROVE Has(todo', f) \/ (phase' = "find" /\ f = func')
    <3>1. PICK k \in 1 .. Len(todo) : todo[k] = f
      BY <2>2 DEF Has
    <3>2. CASE k = 1
      BY <2>1, <2>3, <3>1, <3>2
    <3>3. CASE k # 1
      <4>1. k - 1 \in 1 .. Len(todo) - 1 /\ (k - 1) + 1 = k
        BY ONLY <2>3, <3>1, <3>3
      <4>2. Tail(todo)[k - 1] = f /\ k - 1 \in 1 .. Len(Tail(todo))
        BY <2>3, <3>1, <4>1
      <4>3. QED BY <2>1, <4>2 DEF Has
    <3>4. QED BY <3>2, <3>3
  <2>5. phase' \in {"done", "find"} /\ (phase' = "find" => func' \in materializable) /\ func' \in Functions(s) \cup {None}
        /\ todo' \in Seq(Functions(s))
    BY ONLY <2>1, <2>3
  <2>6. QED BY <1>1, <1>2, <1>3, <1>4, <2>4, <2>5, CompletedKeeps
<1>8. QED BY <1>5, <1>6, <1>7

(***************************************************************************)
(* Steps that change neither the tables nor the functions.                 *)
(***************************************************************************)
LEMMA TablesStill ==
  ASSUME NEW s, TablesKnown(s), FunctionsWhole(s), Pos' = Pos, body = None, phase # "load", phase' # "load",
         deferred_md # << >> => phase' = "idle",
         UNCHANGED <<lazy, seen, deferred_md, values, mds, materializable, blocks, body>>
  PROVE  TablesKnown(s)' /\ FunctionsWhole(s)' /\ BodyInOrder(s)'
<1>1. TablesKnown(s)'
  BY ONLY TablesKnown(s), Pos' = Pos, phase' # "load", deferred_md # << >> => phase' = "idle",
          UNCHANGED <<lazy, seen, deferred_md, values, mds, body>>, Zenon DEF TablesKnown
<1>2. FunctionsWhole(s)'
  BY ONLY FunctionsWhole(s), Pos' = Pos, phase # "load", phase' # "load", body = None,
          UNCHANGED <<materializable, blocks, body>>, Zenon DEF FunctionsWhole
<1>3. BodyInOrder(s)'
  BY DEF BodyInOrder
<1>4. QED BY <1>1, <1>2, <1>3

(* The search resumes behind the last body that was skipped.             *)
LEMMA KeptByFindFunction ==
  ASSUME NEW s, WellFormed(s), items = s, InOrderOf(s), FindFunctionInStream
  PROVE  InOrderOf(s)'
<1> USE DEF InOrderOf
<1>1. /\ phase = "find" /\ ~error /\ body = None /\ deferred[func] = 0
      /\ UNCHANGED <<doc, lazy, next_unread, seen, with_bodies, deferred, deferred_md, values, mds, inits, given,
                     materializable, blocks, body, func, todo, attached>>
  BY DEF FindFunctionInStream, tables
<1>2. func \in materializable /\ func \in WithBody(s) /\ func \in Functions(s)
  <2>1. func \in materializable
    BY <1>1 DEF CallInOrder
  <2>2. materializable = materializable \cap WithBody(s)
    BY <1>1 DEF FunctionsWhole
  <2>3. WithBody(s) \subseteq Functions(s)
    BY Document
  <2>4. QED BY <2>1, <2>2, <2>3
<1>3. BodyOf(s, func) \in 1 .. Len(s) - 1 /\ Len(s) \in Nat
  BY <1>2, BodyKnown, Document
<1>4. Pos <= BodyOf(s, func)
  <2>1. deferred[func] = IF BodyOf(s, func) < Pos THEN BodyOf(s, func) ELSE 0
    BY <1>2 DEF PlacesNoted
  <2>2. Pos \in Int
    BY PlaceFacts
  <2>3. QED BY ONLY <1>1, <1>3, <2>1, <2>2
<1>5. cursor.inside /\ Pos = next_unread /\ Pos \in 1 .. Len(s)
  BY <1>1, <1>3, <1>4, PlaceFacts
<1>6. cursor \in [at : 1 .. Len(s) + 1, inside : BOOLEAN] /\ cursor.at <= Len(s)
  BY <1>5 DEF PlaceKnown
<1>7. phase' = "search" /\ cursor' = [cursor EXCEPT !.at = next_unread] /\ ~error'
  <2>1. ~ (cursor.at > Len(items))
    BY <1>3, <1>6
  <2>2. QED BY <1>5, <2>1 DEF FindFunctionInStream, Resume, JumpTo
<1>8. cursor' \in [at : 1 .. Len(s) + 1, inside : BOOLEAN] /\ cursor'.at = Pos /\ cursor'.inside
  BY ONLY <1>3, <1>5, <1>6, <1>7
<1>9. Pos' = Pos
  BY <1>7, <1>8 DEF Pos, Parsing
<1>10. PlaceKnown(s)'
  <2>1. next_unread \in 0 .. Len(s) /\ (next_unread # 0 => seen.symtab /\ seen.body) /\ next_unread # 0
        /\ (\A i \in Valued(s) : i < Pos) /\ seen \in [symtab : BOOLEAN, body : BOOLEAN, md : BOOLEAN]
    BY <1>1, <1>5 DEF PlaceKnown
  <2>2. cursor'.at <= Len(s)
    BY <1>5, <1>8
  <2>3. QED BY ONLY <1>1, <1>7, <1>8, <1>9, <2>1, <2>2, Zenon DEF PlaceKnown, Parsing
<1>11. QueueInOrder(s)' /\ PlacesNoted(s)' /\ InitsKept(s)'
  BY <1>1, <1>7, <1>9, StandStill
<1>12. TablesKnown(s)' /\ FunctionsWhole(s)' /\ BodyInOrder(s)'
  <2>1. deferred_md = << >>
    BY <1>1 DEF TablesKnown
  <2>2. QED BY <1>1, <1>7, <1>9, <2>1, TablesStill
<1>13. CallInOrder(s)'
  BY <1>1, <1>2, <1>4, <1>7, <1>9 DEF CallInOrder
<1>14. QED BY <1>7, <1>10, <1>11, <1>12, <1>13

(* The rest of the module is read from where it was suspended.           *)
LEMMA KeptByReadRest ==
  ASSUME NEW s, WellFormed(s), items = s, InOrderOf(s), ReadRest
  PROVE  InOrderOf(s)'
<1> USE DEF InOrderOf
<1>1. /\ phase = "done" /\ ~error /\ todo = << >> /\ next_unread # 0 /\ phase' = "rest"
      /\ cursor' = [cursor EXCEPT !.at = next_unread] /\ error' = ~cursor.inside
      /\ UNCHANGED <<doc, lazy, next_unread, seen, with_bodies, deferred, deferred_md, values, mds, inits, given,
                     materializable, blocks, body, func, todo, attached>>
  BY DEF ReadRest, tables, Resume, JumpTo
<1>2. body = None
  BY <1>1 DEF BodyInOrder
<1>3. attached
  BY <1>1 DEF CallInOrder
<1>4. cursor.inside
  BY <1>1, <1>3 DEF PlaceKnown
<1>5. Pos = next_unread /\ Pos \in 1 .. Len(s) /\ Len(s) \in Nat
  BY <1>1, <1>4, PlaceFacts
<1>6. cursor \in [at : 1 .. Len(s) + 1, inside : BOOLEAN]
  BY DEF PlaceKnown
<1>7. cursor' \in [at : 1 .. Len(s) + 1, inside : BOOLEAN] /\ cursor'.at = Pos /\ cursor'.inside /\ cursor'.at <= Len(s)
  BY ONLY <1>1, <1>4, <1>5, <1>6
<1>8. Pos' = Pos
  BY <1>1, <1>7 DEF Pos, Parsing
<1>9. PlaceKnown(s)'
  <2>1. next_unread \in 0 .. Len(s) /\ (next_unread # 0 => seen.symtab /\ seen.body)
        /\ (\A i \in Valued(s) : i < Pos) /\ seen \in [symtab : BOOLEAN, body : BOOLEAN, md : BOOLEAN]
    BY <1>1 DEF PlaceKnown
  <2>2. QED BY ONLY <1>1, <1>7, <1>8, <2>1, Zenon DEF PlaceKnown, Parsing
<1>10. QueueInOrder(s)' /\ PlacesNoted(s)' /\ InitsKept(s)'
  BY <1>1, <1>8, StandStill
<1>11. TablesKnown(s)' /\ FunctionsWhole(s)' /\ BodyInOrder(s)'
  <2>1. deferred_md = << >>
    BY <1>1 DEF TablesKnown
  <2>2. QED BY <1>1, <1>2, <1>8, <2>1, TablesStill
<1>12. CallInOrder(s)'
  BY <1>1 DEF CallInOrder
<1>13. QED BY <1>1, <1>4, <1>9, <1>10, <1>11, <1>12

(* Returning to the client changes no table.                             *)
LEMMA KeptByReturning ==
  ASSUME NEW s, WellFormed(s), items = s, InOrderOf(s), LetGo \/ Return
  PROVE  InOrderOf(s)'
<1> USE DEF InOrderOf
<1>1. /\ phase \in {"last", "done"} /\ ~error /\ phase' = "idle"
      /\ UNCHANGED <<doc, lazy, cursor, next_unread, seen, with_bodies, deferred, deferred_md, values, mds, inits, given,
                     materializable, blocks, body, func, error>>
  BY DEF LetGo, Return, tables
<1>2. (todo' = None /\ ~attached' /\ attached' \in BOOLEAN)
      \/ (todo = None /\ phase = "done" /\ todo' = todo /\ attached' = attached)
  BY DEF LetGo, Return
<1>3. body = None
  BY <1>1 DEF BodyInOrder
<1>4. Pos' = Pos
  BY <1>1, PlaceStill DEF Parsing
<1>5. PlaceKnown(s)'
  <2>1. /\ cursor \in [at : 1 .. Len(s) + 1, inside : BOOLEAN] /\ (cursor.inside => cursor.at <= Len(s))
        /\ next_unread \in 0 .. Len(s) /\ (next_unread # 0 => seen.symtab /\ seen.body)
        /\ (cursor.inside => next_unread # 0) /\ (~cursor.inside => next_unread = 0 \/ phase = "last" \/ ~attached)
        /\ (\A i \in Valued(s) : i < Pos) /\ seen \in [symtab : BOOLEAN, body : BOOLEAN, md : BOOLEAN]
    BY <1>1 DEF PlaceKnown
  <2>2. ~cursor.inside => next_unread = 0 \/ ~attached'
    BY ONLY <1>1, <1>2, <2>1
  <2>3. QED BY ONLY <1>1, <1>4, <2>1, <2>2, Zenon DEF PlaceKnown, Parsing
<1>6. QueueInOrder(s)' /\ PlacesNoted(s)' /\ InitsKept(s)'
  BY <1>1, <1>4, StandStill
<1>7. TablesKnown(s)' /\ FunctionsWhole(s)' /\ BodyInOrder(s)'
  BY <1>1, <1>3, <1>4, TablesStill
<1>8. CallInOrder(s)'
  BY <1>1, <1>2 DEF CallInOrder
<1>9. QED BY <1>1, <1>5, <1>6, <1>7, <1>8

-----------------------------------------------------------------------------
(***************************************************************************)
(* Reading a function's body changes the tables, and its own instructions. *)
(***************************************************************************)
LEMMA BodyKeeps ==
  ASSUME NEW s, WellFormed(s), items = s, InOrderOf(s), phase = "find", func \in materializable,
         UNCHANGED <<doc, lazy, next_unread, with_bodies, deferred, deferred_md, inits, given, materializable,
                     phase, func, todo, attached>>, ~error',
         cursor' \in [at : 1 .. Len(s) + 1, inside : BOOLEAN], cursor'.inside = cursor.inside, cursor'.at <= Len(s),
         seen' \in [symtab : BOOLEAN, body : BOOLEAN, md : BOOLEAN], seen'.symtab = seen.symtab, seen'.body = seen.body,
         values' \in Seq(ValueIds), mds' \in Seq(ValueIds), body' # None, BodyInOrder(s)',
         blocks' = [f \in Functions(s) |-> blocks'[f]], \A f \in WithBody(s) \ {func} : blocks'[f] = blocks[f]
  PROVE  InOrderOf(s)'
<1> USE DEF InOrderOf
<1>1. Pos' = Pos
  BY PlaceStill DEF Parsing
<1>2. PlaceKnown(s)'
  <2>1. /\ next_unread \in 0 .. Len(s) /\ (next_unread # 0 => seen.symtab /\ seen.body)
        /\ (cursor.inside => next_unread # 0) /\ (~cursor.inside => next_unread = 0 \/ ~attached)
        /\ (\A i \in Valued(s) : i < Pos)
    BY DEF PlaceKnown
  <2>2. QED BY ONLY <1>1, <2>1, phase = "find", UNCHANGED <<phase, next_unread, attached>>,
               cursor' \in [at : 1 .. Len(s) + 1, inside : BOOLEAN], cursor'.inside = cursor.inside, cursor'.at <= Len(s),
               seen' \in [symtab : BOOLEAN, body : BOOLEAN, md : BOOLEAN], seen'.symtab = seen.symtab, seen'.body = seen.body,
               Zenon DEF PlaceKnown, Parsing
<1>3. QueueInOrder(s)' /\ PlacesNoted(s)' /\ InitsKept(s)'
  BY <1>1, StandStill
<1>4. TablesKnown(s)'
  <2>1. /\ deferred_md \in Seq(Nat) /\ \A k \in DOMAIN deferred_md : deferred_md[k] \in 1 .. Len(s) - 1
        /\ deferred_md = << >>
    BY DEF TablesKnown
  <2>2. QED BY ONLY <2>1, phase = "find", UNCHANGED <<phase, lazy, deferred_md>>, values' \in Seq(ValueIds), mds' \in Seq(ValueIds),
               body' # None, Zenon DEF TablesKnown
<1>5. FunctionsWhole(s)'
  <2>1. /\ materializable = materializable \cap WithBody(s)
        /\ \A f \in WithBody(s) :
             \/ f \in materializable /\ (blocks[f] = << >> \/ (body # None /\ f = func))
             \/ f \notin materializable /\ blocks[f] = WrittenBody(s, f) /\ BodyOf(s, f) < Pos
    BY DEF FunctionsWhole
  <2>2. \A f \in WithBody(s) :
             \/ f \in materializable /\ (blocks'[f] = << >> \/ (body' # None /\ f = func))
             \/ f \notin materializable /\ blocks'[f] = WrittenBody(s, f) /\ BodyOf(s, f) < Pos
    <3> SUFFICES ASSUME NEW f \in WithBody(s)
                 PROVE  \/ f \in materializable /\ (blocks'[f] = << >> \/ (body' # None /\ f = func))
                        \/ f \notin materializable /\ blocks'[f] = WrittenBody(s, f) /\ BodyOf(s, f) < Pos
      OBVIOUS
    <3>1. CASE f = func
      BY <3>1
    <3>2. CASE f # func
      <4>1. blocks'[f] = blocks[f]
        BY <3>2
      <4>2. QED BY <2>1, <3>2, <4>1
    <3>3. QED BY <3>1, <3>2
  <2>3. QED BY ONLY <1>1, <2>1, <2>2, phase = "find", UNCHANGED <<phase, materializable, func>>,
               blocks' = [f \in Functions(s) |-> blocks'[f]], Zenon DEF FunctionsWhole
<1>6. CallInOrder(s)'
  BY <1>1 DEF CallInOrder
<1>7. QED BY <1>2, <1>3, <1>4, <1>5, <1>6

(***************************************************************************)
(* What is known inside a body.                                            *)
(***************************************************************************)
LEMMA BodyFacts ==
  ASSUME NEW s, WellFormed(s), items = s, InOrderOf(s), body # None
  PROVE  /\ phase = "find" /\ func \in WithBody(s) /\ func \in materializable /\ func \in Functions(s)
         /\ body.item = BodyOf(s, func) /\ body.item \in Bodies(s) /\ Code = s[body.item].items /\ Len(Code) \in Nat
         /\ body \in Activations /\ body.at \in 1 .. Len(Code) + 1 /\ body.at - 1 \in 0 .. Len(Code)
         /\ body.item < Pos /\ cursor.at = body.item /\ body.item \in 1 .. Len(s) - 1 /\ Len(s) \in Nat
         /\ values \in Seq(ValueIds) /\ values = BodyValuesUpTo(s, func, body.item, body.at - 1)
         /\ mds \in Seq(ValueIds) /\ deferred_md = << >>
         /\ cursor \in [at : 1 .. Len(s) + 1, inside : BOOLEAN]
         /\ seen \in [symtab : BOOLEAN, body : BOOLEAN, md : BOOLEAN]
         /\ blocks = [f \in Functions(s) |-> blocks[f]]
<1> USE DEF InOrderOf
<1>1. /\ body \in Activations /\ phase = "find" /\ body.item = BodyOf(s, func) /\ body.item < Pos
      /\ cursor.at = body.item /\ body.at \in 1 .. Len(s[body.item].items) + 1
      /\ values = BodyValuesUpTo(s, func, body.item, body.at - 1)
  BY DEF BodyInOrder
<1>2. func \in materializable /\ func \in WithBody(s) /\ func \in Functions(s)
  <2>1. func \in materializable
    BY <1>1 DEF CallInOrder
  <2>2. materializable = materializable \cap WithBody(s)
    BY <1>1 DEF FunctionsWhole
  <2>3. WithBody(s) \subseteq Functions(s)
    BY Document
  <2>4. QED BY <2>1, <2>2, <2>3
<1>3. body.item \in Bodies(s)
  BY <1>1, <1>2, BodyKnown
<1>4. Code = s[body.item].items
  BY DEF Code
<1>5. Len(Code) \in Nat
  BY <1>3, <1>4, CodeOf
<1>6. body.at \in 1 .. Len(Code) + 1 /\ body.at - 1 \in 0 .. Len(Code)
  BY <1>1, <1>4, <1>5
<1>7. body.item \in 1 .. Len(s) - 1 /\ Len(s) \in Nat
  BY <1>3, Document
<1>8. values \in Seq(ValueIds) /\ mds \in Seq(ValueIds) /\ deferred_md = << >>
  BY <1>1 DEF TablesKnown
<1>9. cursor \in [at : 1 .. Len(s) + 1, inside : BOOLEAN] /\ seen \in [symtab : BOOLEAN, body : BOOLEAN, md : BOOLEAN]
  BY DEF PlaceKnown
<1>10. blocks = [f \in Functions(s) |-> blocks[f]]
  BY Zenon DEF FunctionsWhole
<1>11. QED BY <1>1, <1>2, <1>3, <1>4, <1>5, <1>6, <1>7, <1>8, <1>9, <1>10

(* The tables and the instructions behind the next item of a body.         *)
LEMMA BodyNext ==
  ASSUME NEW s, WellFormed(s), items = s, InOrderOf(s), body # None, NEW j, j = body.at, j <= Len(Code),
         NEW b, b = body.item
  PROVE  /\ MakesValue(Code[j]) => BodyValuesUpTo(s, func, b, j) = Append(values, Local)
         /\ ~MakesValue(Code[j]) => BodyValuesUpTo(s, func, b, j) = values
         /\ BodyValuesUpTo(s, func, b, j) \in Seq(ValueIds)
         /\ Code[j].kind \notin {"call", "ret"} => BodyUpTo(s, func, b, j) = blocks[func]
         /\ Code[j].kind \in {"call", "ret"} =>
              BodyUpTo(s, func, b, j) =
                Append(blocks[func], [inst |-> j, block |-> 1 + Before(Ends(s, b), j),
                                      operands |-> IF Code[j].kind = "ret" THEN {}
                                                   ELSE {BodyValues(s, func, b)[Code[j].operand + 1]}])
<1>1. /\ func \in WithBody(s) /\ b = BodyOf(s, func) /\ b \in Bodies(s) /\ Code = s[b].items /\ Len(Code) \in Nat
      /\ j \in 1 .. Len(Code) + 1 /\ values \in Seq(ValueIds) /\ values = BodyValuesUpTo(s, func, b, j - 1)
  BY BodyFacts
<1>2. j \in 1 .. Len(Code) /\ j - 1 \in 0 .. Len(Code) /\ j \in 0 .. Len(Code) /\ j \in Nat
  BY <1>1
<1>3. BodyValuesUpTo(s, func, b, j) = values \o LocalPart(s, b, j) /\ BodyValuesUpTo(s, func, b, j) \in Seq(ValueIds)
  BY <1>1, <1>2, BodyTables
<1>4. LocalPart(s, b, j) = IF MakesValue(Code[j]) THEN <<Local>> ELSE << >>
  BY <1>1 DEF LocalPart, Local
<1>5. values \o <<Local>> = Append(values, Local) /\ values \o << >> = values
  BY ONLY <1>1
<1>6. blocks[func] = BodyUpTo(s, func, b, j - 1)
  BY DEF InOrderOf, BodyInOrder
<1>7. /\ BodyUpTo(s, func, b, j) = blocks[func] \o InstPart(s, func, b, j)
      /\ blocks[func] \in Seq(Instructions(s, func, b)) /\ InstPart(s, func, b, j) \in Seq(Instructions(s, func, b))
  <2>1. /\ \A n \in 0 .. Len(Code) : BodyUpTo(s, func, b, n) \in Seq(Instructions(s, func, b))
        /\ \A k \in 1 .. Len(Code) : /\ BodyUpTo(s, func, b, k) = BodyUpTo(s, func, b, k - 1) \o InstPart(s, func, b, k)
                                     /\ InstPart(s, func, b, k) \in Seq(Instructions(s, func, b))
    BY <1>1, BodyGrows
  <2>2. QED BY ONLY <1>2, <1>6, <2>1
<1>8. Code[j].kind \notin {"call", "ret"} => BodyUpTo(s, func, b, j) = blocks[func]
  <2>1. Code[j].kind \notin {"call", "ret"} => InstPart(s, func, b, j) = << >>
    BY <1>1 DEF InstPart
  <2>2. blocks[func] \o << >> = blocks[func]
    BY <1>7, ConcatEmptySeq
  <2>3. QED BY ONLY <1>7, <2>1, <2>2
<1> DEFINE inst == [inst |-> j, block |-> 1 + Before(Ends(s, b), j),
                    operands |-> IF Code[j].kind = "ret" THEN {} ELSE {BodyValues(s, func, b)[Code[j].operand + 1]}]
<1>9. Code[j].kind \in {"call", "ret"} => BodyUpTo(s, func, b, j) = Append(blocks[func], inst)
  <2>1. Code[j].kind \in {"call", "ret"} => InstPart(s, func, b, j) = <<inst>>
    BY <1>1 DEF InstPart
  <2> HIDE DEF inst
  <2> DEFINE t == blocks[func]
             I == Instructions(s, func, b)
  <2>2. t \in Seq(I)
    BY <1>7
  <2> HIDE DEF t, I
  <2>3. t \o <<inst>> = Append(t, inst)
    BY ONLY <2>2
  <2>4. QED BY <1>7, <2>1, <2>3 DEF t
<1>10. QED BY <1>3, <1>4, <1>5, <1>8, <1>9

(***************************************************************************)
(* An item of a body has been read.                                        *)
(***************************************************************************)
LEMMA BodyStep ==
  ASSUME NEW s, WellFormed(s), items = s, InOrderOf(s), body # None, NEW j, j = body.at, j <= Len(Code),
         NEW b, b = body.item,
         UNCHANGED <<doc, lazy, cursor, next_unread, with_bodies, deferred, deferred_md, inits, given, materializable,
                     phase, func, todo, attached>>, ~error',
         seen' \in [symtab : BOOLEAN, body : BOOLEAN, md : BOOLEAN], seen'.symtab = seen.symtab, seen'.body = seen.body,
         body' \in Activations, body'.item = b, body'.at = j + 1, body'.values = body.values, body'.mds = body.mds,
         body'.next_id = Len(values'), body'.bbs = Cardinality(Ends(s, b)), body'.bb = 1 + Before(Ends(s, b), j + 1),
         values' = BodyValuesUpTo(s, func, b, j), mds' = mds \/ \E v \in ValueIds : mds' = Append(mds, v),
         blocks' = [f \in Functions(s) |-> IF f = func THEN BodyUpTo(s, func, b, j) ELSE blocks[f]]
  PROVE  InOrderOf(s)'
<1>1. /\ func \in WithBody(s) /\ b = BodyOf(s, func) /\ b \in Bodies(s) /\ Code = s[b].items /\ Len(Code) \in Nat
      /\ j \in 1 .. Len(Code) + 1 /\ values \in Seq(ValueIds) /\ values = BodyValuesUpTo(s, func, b, j - 1)
      /\ phase = "find" /\ func \in materializable /\ func \in Functions(s) /\ body \in Activations
      /\ b < Pos /\ cursor.at = b /\ b \in 1 .. Len(s) - 1 /\ Len(s) \in Nat /\ mds \in Seq(ValueIds)
      /\ cursor \in [at : 1 .. Len(s) + 1, inside : BOOLEAN] /\ blocks = [f \in Functions(s) |-> blocks[f]]
  BY BodyFacts
<1>2. values' \in Seq(ValueIds)
  BY BodyNext
<1>3. body' # None
  BY NoneAssumption DEF Activations
<1>4. Pos' = Pos
  BY <1>1, PlaceStill DEF Parsing
<1>5. body.mds \in Nat /\ body.mds <= Len(mds) /\ SubSeq(mds, 1, body.mds) = AllMetadata(s) /\ body.values = Len(AllValues(s))
  BY <1>1 DEF InOrderOf, BodyInOrder, Activations
<1>6. mds' \in Seq(ValueIds) /\ body'.mds <= Len(mds') /\ SubSeq(mds', 1, body'.mds) = AllMetadata(s)
  <2>1. CASE mds' = mds
    BY <1>1, <1>5, <2>1
  <2>2. CASE \E v \in ValueIds : mds' = Append(mds, v)
    <3>1. PICK v \in ValueIds : mds' = Append(mds, v)
      BY <2>2
    <3> DEFINE n == body.mds
    <3>2. n \in Nat /\ n <= Len(mds) /\ SubSeq(mds, 1, n) = AllMetadata(s) /\ mds \in Seq(ValueIds) /\ body'.mds = n
      BY <1>1, <1>5
    <3> HIDE DEF n
    <3>3. mds' \in Seq(ValueIds) /\ Len(mds') = Len(mds) + 1 /\ \A k \in 1 .. Len(mds) : mds'[k] = mds[k]
      BY ONLY <3>1, <3>2
    <3>4. SubSeq(mds', 1, n) = SubSeq(mds, 1, n)
      <4>1. \A k \in 1 .. n : mds'[k] = mds[k]
        BY ONLY <3>2, <3>3
      <4>2. QED BY ONLY <3>2, <3>3, <4>1
    <3>5. n <= Len(mds')
      BY ONLY <3>2, <3>3
    <3>6. QED BY ONLY <3>2, <3>3, <3>4, <3>5
  <2>3. QED BY <2>1, <2>2
<1>7. /\ blocks' = [f \in Functions(s) |-> blocks'[f]] /\ \A f \in WithBody(s) \ {func} : blocks'[f] = blocks[f]
      /\ blocks'[func] = BodyUpTo(s, func, b, j)
  <2>1. WithBody(s) \subseteq Functions(s)
    BY Document
  <2>2. func \in Functions(s)
    BY <1>1
  <2> DEFINE new == BodyUpTo(s, func, b, j)
  <2>3. blocks' = [f \in Functions(s) |-> IF f = func THEN new ELSE blocks[f]]
    OBVIOUS
  <2> HIDE DEF new
  <2>4. \A f \in Functions(s) : blocks'[f] = IF f = func THEN new ELSE blocks[f]
    BY ONLY <2>3
  <2>5. blocks' = [f \in Functions(s) |-> blocks'[f]]
    BY ONLY <2>3
  <2>6. QED BY <2>1, <2>2, <2>4, <2>5 DEF new
<1>8. BodyInOrder(s)'
  <2>1. j + 1 \in 1 .. Len(s[b].items) + 1 /\ (j + 1) - 1 = j
    <3>1. Len(s[b].items) \in Nat /\ j \in 1 .. Len(s[b].items)
      BY <1>1
    <3>2. QED BY ONLY <3>1
  <2>2. b = BodyOf(s, func') /\ func' = func /\ body'.values = Len(AllValues(s)) /\ phase' = "find" /\ b < Pos' /\ cursor'.at = b
    BY <1>1, <1>4, <1>5
  <2>3. /\ body' \in Activations /\ phase' = "find"
        /\ body'.item = BodyOf(s, func') /\ body'.item < Pos' /\ cursor'.at = body'.item
        /\ body'.at \in 1 .. Len(s[body'.item].items) + 1
        /\ values' = BodyValuesUpTo(s, func', body'.item, body'.at - 1)
        /\ body'.next_id = Len(values') /\ body'.values = Len(AllValues(s))
        /\ body'.mds <= Len(mds') /\ SubSeq(mds', 1, body'.mds) = AllMetadata(s)
        /\ blocks'[func'] = BodyUpTo(s, func', body'.item, body'.at - 1)
        /\ body'.bbs = Cardinality(Ends(s, body'.item)) /\ body'.bb = 1 + Before(Ends(s, body'.item), body'.at)
    BY <1>6, <1>7, <2>1, <2>2
  <2>4. QED BY ONLY <2>3, Zenon DEF BodyInOrder
<1>9. cursor' \in [at : 1 .. Len(s) + 1, inside : BOOLEAN] /\ cursor'.inside = cursor.inside /\ cursor'.at <= Len(s)
  BY <1>1
<1>10. QED BY <1>1, <1>2, <1>3, <1>6, <1>7, <1>8, <1>9, BodyKeeps

(* A body starts with the tables of the module and the arguments.        *)
LEMMA KeptByEnterBody ==
  ASSUME NEW s, WellFormed(s), items = s, InOrderOf(s), EnterFunctionBody
  PROVE  InOrderOf(s)'
<1> USE DEF InOrderOf
<1> DEFINE P == ProtoOf(s, func)
           G == Arguments(P, s[P].args)
           b == BodyOf(s, func)
<1>1. /\ phase = "find" /\ ~error /\ body = None /\ deferred[func] # 0
      /\ values' = values \o G /\ cursor' = [cursor EXCEPT !.at = deferred[func]]
      /\ body' = [item |-> deferred[func], at |-> 1, values |-> Len(values), mds |-> Len(mds),
                  next_id |-> Len(values) + Len(G), bbs |-> 0, bb |-> 0]
      /\ UNCHANGED <<doc, lazy, next_unread, seen, with_bodies, deferred, deferred_md, mds, inits, given,
                     materializable, blocks, phase, func, todo, attached, error>>
  BY DEF EnterFunctionBody, calls, JumpTo
<1>2. func \in materializable /\ func \in WithBody(s) /\ func \in Functions(s)
  <2>1. func \in materializable
    BY <1>1 DEF CallInOrder
  <2>2. materializable = materializable \cap WithBody(s)
    BY <1>1 DEF FunctionsWhole
  <2>3. WithBody(s) \subseteq Functions(s)
    BY Document
  <2>4. QED BY <2>1, <2>2, <2>3
<1>3. /\ b \in Bodies(s) /\ b \in 1 .. Len(s) - 1 /\ Len(s) \in Nat /\ b \in Nat
  BY <1>2, BodyKnown, Document
<1>4. deferred[func] = b /\ b < Pos
  BY <1>1, <1>2 DEF PlacesNoted
<1>5. /\ Len(s[b].items) \in Nat /\ 0 \in 0 .. Len(s[b].items) /\ 1 \in 1 .. Len(s[b].items) + 1
  BY <1>3, CodeOf
<1>6. /\ values = AllValues(s) /\ values \in Seq(ValueIds) /\ mds = AllMetadata(s) /\ mds \in Seq(ValueIds)
      /\ deferred_md = << >>
  <2>1. /\ values = ValuesUpTo(s, Pos - 1) /\ mds \o Later(s, deferred_md) = MetadataUpTo(s, Pos - 1)
        /\ values \in Seq(ValueIds) /\ mds \in Seq(ValueIds) /\ deferred_md = << >>
    BY <1>1 DEF TablesKnown
  <2>2. /\ ValuesUpTo(s, Pos - 1) = AllValues(s) /\ MetadataUpTo(s, Pos - 1) = AllMetadata(s)
        /\ mds \o Later(s, deferred_md) = mds
    BY <1>1, <2>1, AllRead
  <2>3. QED BY ONLY <2>1, <2>2
<1>7. /\ BodyValuesUpTo(s, func, b, 0) = AllValues(s) \o G /\ BodyValuesUpTo(s, func, b, 0) \in Seq(ValueIds)
      /\ G \in Seq(ValueIds)
  BY <1>2, <1>5, BodyTables
<1>8. values' = BodyValuesUpTo(s, func, b, 0) /\ values' \in Seq(ValueIds) /\ Len(values') = Len(values) + Len(G)
      /\ Len(values) \in Nat /\ Len(G) \in Nat
  <2> HIDE DEF G
  <2>1. values' = values \o G /\ values \in Seq(ValueIds) /\ G \in Seq(ValueIds)
    BY <1>1, <1>6, <1>7
  <2>2. Len(values') = Len(values) + Len(G) /\ Len(values) \in Nat /\ Len(G) \in Nat
    BY ONLY <2>1
  <2>3. values' = BodyValuesUpTo(s, func, b, 0)
    BY <1>6, <1>7, <2>1
  <2>4. QED BY <1>7, <2>2, <2>3
<1>9. Len(mds) \in Nat /\ SubSeq(mds, 1, Len(mds)) = mds
  BY ONLY <1>6
<1>10. body' \in Activations
  <2> HIDE DEF G
  <2>1. Len(values) \in Nat /\ Len(mds) \in Nat /\ Len(values) + Len(G) \in Nat /\ deferred[func] \in Nat
    BY ONLY <1>3, <1>4, <1>8, <1>9
  <2>2. QED BY <1>1, <2>1 DEF Activations
<1>11. body' # None
  BY <1>10, NoneAssumption DEF Activations
<1>12. BodyUpTo(s, func, b, 0) = << >>
  BY <1>2, BodyGrows
<1>13. blocks[func] = << >>
  BY <1>1, <1>2 DEF FunctionsWhole
<1>14. Pos' = Pos
  <2>1. cursor \in [at : 1 .. Len(s) + 1, inside : BOOLEAN]
    BY DEF PlaceKnown
  <2>2. cursor'.inside = cursor.inside
    BY <1>1, <2>1
  <2>3. QED BY <1>1, <2>2, PlaceStill DEF Parsing
<1>15. cursor' \in [at : 1 .. Len(s) + 1, inside : BOOLEAN] /\ cursor'.inside = cursor.inside /\ cursor'.at = b
  <2>1. cursor \in [at : 1 .. Len(s) + 1, inside : BOOLEAN]
    BY DEF PlaceKnown
  <2>2. cursor' = [cursor EXCEPT !.at = b] /\ b \in 1 .. Len(s) + 1
    BY <1>1, <1>3, <1>4
  <2>3. QED BY ONLY <2>1, <2>2
<1> HIDE DEF G, b
<1>16. BodyInOrder(s)'
  <2>1. /\ body'.item = b /\ body'.at = 1 /\ body'.values = Len(values) /\ body'.mds = Len(mds)
        /\ body'.next_id = Len(values')
    BY <1>1, <1>4, <1>8
  <2>2. /\ body' \in Activations /\ phase' = "find"
        /\ body'.item = BodyOf(s, func') /\ body'.item < Pos' /\ cursor'.at = body'.item
        /\ body'.at \in 1 .. Len(s[body'.item].items) + 1 /\ body'.at = 1 /\ body'.at - 1 = 0
        /\ body'.next_id = Len(values') /\ body'.values = Len(AllValues(s))
    BY <1>1, <1>4, <1>5, <1>6, <1>10, <1>14, <1>15, <2>1 DEF b
  <2>3. /\ values' = BodyValuesUpTo(s, func', body'.item, body'.at - 1)
        /\ blocks'[func'] = BodyUpTo(s, func', body'.item, body'.at - 1)
    BY <1>1, <1>8, <1>12, <1>13, <2>1, <2>2
  <2>4. body'.mds <= Len(mds') /\ SubSeq(mds', 1, body'.mds) = AllMetadata(s)
    BY <1>1, <1>6, <1>9, <2>1
  <2>5. QED BY ONLY <2>2, <2>3, <2>4, Zenon DEF BodyInOrder
<1>17. seen \in [symtab : BOOLEAN, body : BOOLEAN, md : BOOLEAN]
  BY DEF PlaceKnown
<1>18. blocks = [f \in Functions(s) |-> blocks[f]]
  BY Zenon DEF FunctionsWhole
<1>19. cursor'.at <= Len(s)
  BY <1>3, <1>15 DEF b
<1>20. blocks' = [f \in Functions(s) |-> blocks'[f]] /\ \A f \in WithBody(s) \ {func} : blocks'[f] = blocks[f]
  BY ONLY <1>1, <1>18
<1>21. mds' \in Seq(ValueIds) /\ seen' \in [symtab : BOOLEAN, body : BOOLEAN, md : BOOLEAN]
       /\ seen'.symtab = seen.symtab /\ seen'.body = seen.body
  BY ONLY <1>1, <1>6, <1>17
<1>22. QED BY <1>1, <1>2, <1>8, <1>11, <1>15, <1>16, <1>19, <1>20, <1>21, BodyKeeps

(***************************************************************************)
(* The items of a body that are no instructions.                           *)
(***************************************************************************)
LEMMA KeptByBodyItem ==
  ASSUME NEW s, WellFormed(s), items = s, InOrderOf(s), DeclareBlocks \/ ParseBodyConstants \/ ParseBodyMetadata
  PROVE  InOrderOf(s)'
<1> DEFINE j == body.at
           b == body.item
<1>1. body # None /\ ~error /\ j <= Len(Code) /\ Code[j].kind \in {"declare", "value", "md"}
  BY DEF DeclareBlocks, ParseBodyConstants, ParseBodyMetadata, InBody
<1>2. /\ func \in WithBody(s) /\ b = BodyOf(s, func) /\ b \in Bodies(s) /\ Code = s[b].items /\ Len(Code) \in Nat
      /\ j \in 1 .. Len(Code) + 1 /\ values \in Seq(ValueIds) /\ body \in Activations
      /\ seen \in [symtab : BOOLEAN, body : BOOLEAN, md : BOOLEAN] /\ blocks = [f \in Functions(s) |-> blocks[f]]
      /\ func \in Functions(s)
  BY <1>1, BodyFacts
<1>3. j \in 1 .. Len(Code) /\ j \in Nat /\ b \in Nat
  BY <1>1, <1>2 DEF Activations
<1>4. /\ MakesValue(Code[j]) => BodyValuesUpTo(s, func, b, j) = Append(values, Local)
      /\ ~MakesValue(Code[j]) => BodyValuesUpTo(s, func, b, j) = values
      /\ BodyUpTo(s, func, b, j) = blocks[func]
  BY <1>1, BodyNext
<1>5. /\ \A k \in 1 .. Len(Code) : Code[k].kind = "declare" <=> k = 1
      /\ Code[1].blocks = Cardinality(Ends(s, b)) /\ Cardinality(Ends(s, b)) \in Nat \ {0} /\ Before(Ends(s, b), 2) = 0
      /\ Ends(s, b) = {k \in 1 .. Len(Code) : Code[k].kind = "ret"}
      /\ \A k \in 1 .. Len(Code) : /\ Before(Ends(s, b), k) \in Nat
                                   /\ Before(Ends(s, b), k + 1) = Before(Ends(s, b), k) + (IF k \in Ends(s, b) THEN 1 ELSE 0)
  <2>1. /\ \A k \in 1 .. Len(s[b].items) : s[b].items[k].kind = "declare" <=> k = 1
        /\ s[b].items[1].blocks = Cardinality(Ends(s, b)) /\ Cardinality(Ends(s, b)) \in Nat \ {0} /\ Before(Ends(s, b), 2) = 0
    BY <1>2, BlocksCounted, SMTT(20)
  <2>2. Ends(s, b) = {k \in 1 .. Len(s[b].items) : s[b].items[k].kind = "ret"}
    BY <1>2, BlocksCounted, SMTT(20)
  <2>3. \A k \in 1 .. Len(s[b].items) :
             /\ Before(Ends(s, b), k) \in Nat
             /\ Before(Ends(s, b), k + 1) = Before(Ends(s, b), k) + (IF k \in Ends(s, b) THEN 1 ELSE 0)
    BY <1>2, BlocksCounted
  <2>4. Code = s[b].items
    BY <1>2
  <2>5. QED BY ONLY <2>1, <2>2, <2>3, <2>4
<1>6. /\ body.next_id = Len(values)
      /\ j # 1 => body.bbs = Cardinality(Ends(s, b)) /\ body.bb = 1 + Before(Ends(s, b), j)
  BY <1>1 DEF InOrderOf, BodyInOrder
<1>7. Code[j].kind = "declare" <=> j = 1
  BY <1>3, <1>5
<1>8. Before(Ends(s, b), j + 1) = Before(Ends(s, b), j)
  <2>1. j \notin Ends(s, b)
    BY <1>1, <1>5
  <2>2. QED BY ONLY <1>3, <1>5, <2>1
<1>9. Cardinality(Ends(s, b)) \in Nat /\ 1 + Before(Ends(s, b), j) \in Nat
  BY <1>3, <1>5
<1>10. blocks = [f \in Functions(s) |-> IF f = func THEN BodyUpTo(s, func, b, j) ELSE blocks[f]]
  <2> DEFINE new == BodyUpTo(s, func, b, j)
  <2>1. new = blocks[func]
    BY <1>4
  <2> HIDE DEF new
  <2>2. blocks = [f \in Functions(s) |-> IF f = func THEN new ELSE blocks[f]]
    BY ONLY <1>2, <2>1
  <2>3. QED BY <2>2 DEF new
<1>11. Local \in ValueIds
  BY <1>3 DEF Local, ValueIds
<1> HIDE DEF j, b
<1>12. CASE DeclareBlocks
  <2>1. /\ error' = (Code[j].blocks = 0) /\ Code[j].kind = "declare"
        /\ body' = [body EXCEPT !.at = j + 1, !.bbs = Code[j].blocks, !.bb = 1]
        /\ UNCHANGED <<doc, lazy, cursor, next_unread, seen, with_bodies, deferred, deferred_md, values, mds, inits, given,
                       materializable, blocks, phase, func, todo, attached>>
    BY <1>12 DEF DeclareBlocks, InBody, Forth, tables, calls, j
  <2>2. j = 1
    BY <1>7, <2>1
  <2>3. Code[j].blocks = Cardinality(Ends(s, b)) /\ ~error'
    BY <1>5, <2>1, <2>2
  <2>4. body' = [body EXCEPT !.at = 2, !.bbs = Cardinality(Ends(s, b)), !.bb = 1]
    BY <2>1, <2>2, <2>3
  <2>5. /\ body' \in Activations /\ body'.item = body.item /\ body'.at = 2 /\ body'.values = body.values /\ body'.mds = body.mds
        /\ body'.next_id = body.next_id /\ body'.bbs = Cardinality(Ends(s, b)) /\ body'.bb = 1
    BY ONLY <1>2, <1>9, <2>4 DEF Activations
  <2>6. body'.bb = 1 + Before(Ends(s, b), j + 1) /\ body'.at = j + 1
    <3>1. j + 1 = 2
      BY <2>2
    <3>2. QED BY <1>5, <2>5, <3>1
  <2>7. values' = BodyValuesUpTo(s, func, b, j)
    <3>1. ~MakesValue(Code[j])
      BY <2>1 DEF MakesValue
    <3>2. QED BY <1>4, <2>1, <3>1
  <2>8. blocks' = [f \in Functions(s) |-> IF f = func THEN BodyUpTo(s, func, b, j) ELSE blocks[f]]
    BY <1>10, <2>1
  <2>9. body'.item = b /\ body'.next_id = Len(values') /\ seen' \in [symtab : BOOLEAN, body : BOOLEAN, md : BOOLEAN]
    BY <1>2, <1>6, <2>1, <2>5 DEF b
  <2>10. QED BY <1>1, <2>1, <2>3, <2>5, <2>6, <2>7, <2>8, <2>9, BodyStep DEF j, b
<1>13. CASE ParseBodyConstants
  <2>1. /\ values' = Append(values, Local) /\ Code[j].kind = "value"
        /\ body' = [body EXCEPT !.at = j + 1, !.next_id = Len(values) + 1]
        /\ UNCHANGED <<doc, lazy, cursor, next_unread, seen, with_bodies, deferred, deferred_md, mds, inits, given,
                       materializable, blocks, phase, func, todo, attached, error>>
    BY <1>13 DEF ParseBodyConstants, InBody, Forth, calls, j
  <2>2. Len(values) \in Nat /\ Len(values') = Len(values) + 1
    BY ONLY <1>2, <2>1
  <2>3. /\ body' \in Activations /\ body'.item = body.item /\ body'.at = j + 1 /\ body'.values = body.values /\ body'.mds = body.mds
        /\ body'.next_id = Len(values) + 1 /\ body'.bbs = body.bbs /\ body'.bb = body.bb
    <3> DEFINE n == Len(values) + 1
               k == j + 1
    <3>1. body \in Activations /\ k \in Nat /\ n \in Nat /\ body' = [body EXCEPT !.at = k, !.next_id = n]
      BY <1>2, <1>3, <2>1, <2>2
    <3> HIDE DEF n, k
    <3>2. /\ body' \in Activations /\ body'.item = body.item /\ body'.at = k /\ body'.values = body.values
          /\ body'.mds = body.mds /\ body'.next_id = n /\ body'.bbs = body.bbs /\ body'.bb = body.bb
      BY ONLY <3>1 DEF Activations
    <3>3. QED BY <3>2 DEF n, k
  <2>4. j # 1
    BY <1>7, <2>1
  <2>5. body'.bbs = Cardinality(Ends(s, b)) /\ body'.bb = 1 + Before(Ends(s, b), j + 1)
    BY <1>6, <1>8, <2>3, <2>4
  <2>6. values' = BodyValuesUpTo(s, func, b, j)
    <3>1. MakesValue(Code[j])
      BY <2>1 DEF MakesValue
    <3>2. QED BY <1>4, <2>1, <3>1
  <2>7. blocks' = [f \in Functions(s) |-> IF f = func THEN BodyUpTo(s, func, b, j) ELSE blocks[f]]
    BY <1>10, <2>1
  <2>8. body'.item = b /\ body'.next_id = Len(values') /\ seen' \in [symtab : BOOLEAN, body : BOOLEAN, md : BOOLEAN] /\ ~error'
    BY <1>1, <1>2, <2>1, <2>2, <2>3 DEF b
  <2>9. QED BY <1>1, <2>1, <2>3, <2>5, <2>6, <2>7, <2>8, BodyStep DEF j, b
<1>14. CASE ParseBodyMetadata
  <2>1. /\ mds' = Append(mds, Local) /\ Code[j].kind = "md" /\ seen' = [seen EXCEPT !.md = TRUE]
        /\ body' = [body EXCEPT !.at = j + 1]
        /\ UNCHANGED <<doc, lazy, cursor, next_unread, with_bodies, deferred, deferred_md, values, inits, given,
                       materializable, blocks, phase, func, todo, attached, error>>
    BY <1>14 DEF ParseBodyMetadata, InBody, Forth, calls, j
  <2>2. /\ body' \in Activations /\ body'.item = body.item /\ body'.at = j + 1 /\ body'.values = body.values /\ body'.mds = body.mds
        /\ body'.next_id = body.next_id /\ body'.bbs = body.bbs /\ body'.bb = body.bb
    <3> DEFINE k == j + 1
    <3>1. body \in Activations /\ k \in Nat /\ body' = [body EXCEPT !.at = k]
      BY <1>2, <1>3, <2>1
    <3> HIDE DEF k
    <3>2. /\ body' \in Activations /\ body'.item = body.item /\ body'.at = k /\ body'.values = body.values
          /\ body'.mds = body.mds /\ body'.next_id = body.next_id /\ body'.bbs = body.bbs /\ body'.bb = body.bb
      BY ONLY <3>1 DEF Activations
    <3>3. QED BY <3>2 DEF k
  <2>3. j # 1
    BY <1>7, <2>1
  <2>4. body'.bbs = Cardinality(Ends(s, b)) /\ body'.bb = 1 + Before(Ends(s, b), j + 1)
    BY <1>6, <1>8, <2>2, <2>3
  <2>5. values' = BodyValuesUpTo(s, func, b, j)
    <3>1. ~MakesValue(Code[j])
      BY <2>1 DEF MakesValue
    <3>2. QED BY <1>4, <2>1, <3>1
  <2>6. blocks' = [f \in Functions(s) |-> IF f = func THEN BodyUpTo(s, func, b, j) ELSE blocks[f]]
    BY <1>10, <2>1
  <2>7. /\ seen' \in [symtab : BOOLEAN, body : BOOLEAN, md : BOOLEAN] /\ seen'.symtab = seen.symtab /\ seen'.body = seen.body
    BY ONLY <1>2, <2>1
  <2>8. body'.item = b /\ body'.next_id = Len(values') /\ ~error'
    BY <1>1, <1>6, <2>1, <2>2 DEF b
  <2>9. mds' = mds \/ \E v \in ValueIds : mds' = Append(mds, v)
    BY <1>11, <2>1
  <2>10. UNCHANGED <<doc, lazy, cursor, next_unread, with_bodies, deferred, deferred_md, inits, given, materializable,
                     phase, func, todo, attached>>
    BY <2>1
  <2>11. j = body.at /\ b = body.item /\ body'.item = b /\ body'.next_id = Len(values')
    BY <2>8 DEF j, b
  <2>12. QED BY ONLY WellFormed(s), items = s, InOrderOf(s), <1>1, <2>2, <2>4, <2>5, <2>6, <2>7, <2>8, <2>9, <2>10, <2>11, BodyStep
<1>15. QED BY <1>12, <1>13, <1>14

(***************************************************************************)
(* The number of an operand is the one its writer meant, and has a value.  *)
(***************************************************************************)
LEMMA OperandFound ==
  ASSUME NEW s, WellFormed(s), items = s, InOrderOf(s), InBody("call"), NEW j, j = body.at, NEW b, b = body.item
  PROVE  /\ ValueNumber(j) = Code[j].operand /\ ValueNumber(j) \in 0 .. Len(values) - 1
         /\ values[ValueNumber(j) + 1] = BodyValues(s, func, b)[Code[j].operand + 1]
         /\ values[ValueNumber(j) + 1] # None /\ Len(values) \in Nat /\ body.next_id = Len(values)
         /\ Code[j].value \in BOOLEAN
<1>1. body # None /\ j <= Len(Code) /\ Code[j].kind = "call"
  BY DEF InBody
<1>2. /\ func \in WithBody(s) /\ b = BodyOf(s, func) /\ b \in Bodies(s) /\ Code = s[b].items /\ Len(Code) \in Nat
      /\ j \in 1 .. Len(Code) + 1 /\ j - 1 \in 0 .. Len(Code)
      /\ values \in Seq(ValueIds) /\ values = BodyValuesUpTo(s, func, b, j - 1)
  BY <1>1, BodyFacts
<1>3. j \in 1 .. Len(Code) /\ (j - 1) + 1 = j
  BY <1>1, <1>2
<1>4. body.next_id = Len(values)
  BY <1>1 DEF InOrderOf, BodyInOrder
<1>5. Len(values) = NextId(s, func, b, j) /\ Starts(values, BodyValues(s, func, b))
  <2>1. \A n \in 0 .. Len(Code) : /\ Len(BodyValuesUpTo(s, func, b, n)) = NextId(s, func, b, n + 1)
                                  /\ Starts(BodyValuesUpTo(s, func, b, n), BodyValues(s, func, b))
    BY <1>2, BodyTables
  <2>2. QED BY ONLY <1>2, <1>3, <2>1
<1>6. Code[j].operand \in Nat /\ Code[j].value \in BOOLEAN
  BY <1>1, <1>2, <1>3, CodeOf
<1>7. Code[j].operand < NextId(s, func, b, j)
  <2>1. \A k \in 1 .. Len(Code) : Code[k].kind = "call" => Code[k].operand < NextId(s, func, b, k)
    BY <1>2, BlocksCounted
  <2>2. QED BY <1>1, <1>3, <2>1
<1>8. Len(values) \in Nat
  BY ONLY <1>2
<1>9. ValueNumber(j) = Code[j].operand
  <2>1. ValueNumber(j) = IF doc.relative THEN Len(values) - (Len(values) - Code[j].operand) ELSE Code[j].operand
    BY <1>4, <1>5 DEF ValueNumber, Encoded
  <2>2. QED BY ONLY <1>6, <1>8, <2>1
<1>10. ValueNumber(j) \in 0 .. Len(values) - 1 /\ ValueNumber(j) + 1 \in 1 .. Len(values)
  BY ONLY <1>5, <1>6, <1>7, <1>8, <1>9
<1>11. values[ValueNumber(j) + 1] = BodyValues(s, func, b)[Code[j].operand + 1]
  BY <1>5, <1>9, <1>10 DEF Starts
<1>12. values[ValueNumber(j) + 1] # None
  <2>1. values[ValueNumber(j) + 1] \in ValueIds
    BY ONLY <1>2, <1>10
  <2>2. QED BY <2>1, NoneAssumption DEF ValueIds
<1>13. QED BY <1>4, <1>6, <1>8, <1>9, <1>10, <1>11, <1>12

(* An instruction goes into a block that was declared.                     *)
LEMMA BlockFound ==
  ASSUME NEW s, WellFormed(s), items = s, InOrderOf(s), NEW kind \in {"call", "ret"}, InBody(kind),
         NEW j, j = body.at, NEW b, b = body.item
  PROVE  /\ InBlock /\ body.bb = 1 + Before(Ends(s, b), j) /\ body.bbs = Cardinality(Ends(s, b))
         /\ Before(Ends(s, b), j) \in Nat /\ body.bbs \in Nat
         /\ Before(Ends(s, b), j + 1) = Before(Ends(s, b), j) + (IF kind = "ret" THEN 1 ELSE 0)
<1>1. body # None /\ j <= Len(Code) /\ Code[j].kind = kind
  BY DEF InBody
<1>2. /\ func \in WithBody(s) /\ b = BodyOf(s, func) /\ Code = s[b].items /\ Len(Code) \in Nat
      /\ j \in 1 .. Len(Code) + 1
  BY <1>1, BodyFacts
<1>3. j \in 1 .. Len(Code)
  BY <1>1, <1>2
<1>4. \A k \in 1 .. Len(Code) : Code[k].kind = "declare" <=> k = 1
  BY <1>2, BlocksCounted
<1>5. j # 1
  <2>1. kind # "declare"
    OBVIOUS
  <2>2. QED BY <1>1, <1>3, <1>4, <2>1
<1>6. body.bb = 1 + Before(Ends(s, b), j) /\ body.bbs = Cardinality(Ends(s, b))
  BY <1>1, <1>5 DEF InOrderOf, BodyInOrder
<1>7. Cardinality(Ends(s, b)) \in Nat
  BY <1>2, BlocksCounted
<1>8. /\ Before(Ends(s, b), j) \in Nat /\ 1 + Before(Ends(s, b), j) \in 1 .. Cardinality(Ends(s, b))
      /\ Before(Ends(s, b), j + 1) = Before(Ends(s, b), j) + (IF j \in Ends(s, b) THEN 1 ELSE 0)
  <2>1. \A k \in 1 .. Len(Code) :
             /\ Before(Ends(s, b), k) \in Nat /\ 1 + Before(Ends(s, b), k) \in 1 .. Cardinality(Ends(s, b))
             /\ Before(Ends(s, b), k + 1) = Before(Ends(s, b), k) + (IF k \in Ends(s, b) THEN 1 ELSE 0)
    BY <1>2, BlocksCounted
  <2>2. QED BY ONLY <1>3, <2>1
<1>9. j \in Ends(s, b) <=> kind = "ret"
  <2>1. Ends(s, b) = {k \in 1 .. Len(Code) : Code[k].kind = "ret"}
    BY <1>2, BlocksCounted
  <2>2. QED BY <1>1, <1>3, <2>1
<1>10. QED BY <1>6, <1>7, <1>8, <1>9 DEF InBlock

(* A call names a value that is there and gets the next slot.            *)
LEMMA KeptByCall ==
  ASSUME NEW s, WellFormed(s), items = s, InOrderOf(s), ParseCall
  PROVE  InOrderOf(s)'
<1> DEFINE j == body.at
           b == body.item
           call == Code[j]
           E == Ends(s, b)
<1>1. InBody("call") /\ body # None /\ j <= Len(Code) /\ call.kind = "call" /\ ~error
  BY DEF ParseCall, InBody
<1>2. /\ func \in WithBody(s) /\ b = BodyOf(s, func) /\ Code = s[b].items /\ Len(Code) \in Nat
      /\ j \in 1 .. Len(Code) + 1 /\ values \in Seq(ValueIds) /\ body \in Activations
      /\ seen \in [symtab : BOOLEAN, body : BOOLEAN, md : BOOLEAN] /\ blocks = [f \in Functions(s) |-> blocks[f]]
      /\ func \in Functions(s)
  BY <1>1, BodyFacts
<1>3. /\ ValueNumber(j) \in 0 .. Len(values) - 1 /\ values[ValueNumber(j) + 1] # None
      /\ values[ValueNumber(j) + 1] = BodyValues(s, func, b)[call.operand + 1]
      /\ Len(values) \in Nat /\ body.next_id = Len(values) /\ call.value \in BOOLEAN
  BY <1>1, OperandFound
<1>4. /\ InBlock /\ body.bb = 1 + Before(E, j) /\ body.bbs = Cardinality(E) /\ Before(E, j) \in Nat
      /\ Before(E, j + 1) = Before(E, j)
  <2>1. /\ InBlock /\ body.bb = 1 + Before(E, j) /\ body.bbs = Cardinality(E) /\ Before(E, j) \in Nat
        /\ Before(E, j + 1) = Before(E, j) + (IF "call" = "ret" THEN 1 ELSE 0)
    BY <1>1, BlockFound
  <2>2. QED BY ONLY <2>1
<1>5. ~Taken(values, body.next_id)
  BY <1>3 DEF Taken
<1>6. /\ Add({values[ValueNumber(j) + 1]})
      /\ values' = IF call.value THEN AssignValue(values, body.next_id, Local) ELSE values
      /\ body' = [Forth(body) EXCEPT !.next_id = IF call.value THEN @ + 1 ELSE @]
      /\ UNCHANGED error
  BY <1>3, <1>4, <1>5 DEF ParseCall
<1>7. UNCHANGED <<doc, lazy, cursor, next_unread, seen, with_bodies, deferred, deferred_md, mds, inits, given,
                  materializable, phase, func, todo, attached>>
  BY DEF ParseCall, calls
<1>8. j \in Nat /\ b \in Nat
  BY <1>2 DEF Activations
<1> DEFINE n == Len(values)
           m == IF call.value THEN n + 1 ELSE n
           k == j + 1
<1>9. AssignValue(values, body.next_id, Local) = Append(values, Local)
  <2> DEFINE v == Local
  <2>1. body.next_id = n /\ n \in Nat
    BY <1>3
  <2> HIDE DEF v
  <2>2. AssignValue(values, n, v) = [q \in 1 .. n + 1 |-> IF q = n + 1 THEN v ELSE IF q <= n THEN values[q] ELSE None]
    <3>1. AssignValue(values, n, v) = [q \in 1 .. (IF n < n THEN n ELSE n + 1) |->
                                        IF q = n + 1 THEN v ELSE IF q <= n THEN values[q] ELSE None]
      BY Zenon DEF AssignValue
    <3>2. (IF n < n THEN n ELSE n + 1) = n + 1
      BY ONLY <2>1
    <3>3. QED BY ONLY <3>1, <3>2, Zenon
  <2>3. Append(values, v) = [q \in 1 .. n + 1 |-> IF q = n + 1 THEN v ELSE IF q <= n THEN values[q] ELSE None]
    <3>1. v \in ValueIds
      BY <1>8 DEF v, Local, ValueIds
    <3>2. /\ DOMAIN Append(values, v) = 1 .. n + 1 /\ Append(values, v) \in Seq(ValueIds)
          /\ \A q \in 1 .. n + 1 : Append(values, v)[q] = IF q = n + 1 THEN v ELSE values[q]
      BY ONLY <1>2, <2>1, <3>1
    <3>3. Append(values, v) = [q \in 1 .. n + 1 |-> Append(values, v)[q]]
      <4> DEFINE a == Append(values, v)
                 d == 1 .. n + 1
      <4>1. a \in Seq(ValueIds) /\ DOMAIN a = d
        BY <3>2
      <4> HIDE DEF a, d
      <4>2. a = [q \in d |-> a[q]]
        BY ONLY <4>1
      <4>3. QED BY <4>2 DEF a, d
    <3>4. \A q \in 1 .. n + 1 : Append(values, v)[q] = IF q = n + 1 THEN v ELSE IF q <= n THEN values[q] ELSE None
      BY ONLY <2>1, <3>2
    <3>5. QED BY ONLY <3>3, <3>4
  <2>4. QED BY <2>1, <2>2, <2>3 DEF v
<1>10. values' = BodyValuesUpTo(s, func, b, j)
  <2>1. MakesValue(call) <=> call.value
    BY <1>1 DEF MakesValue
  <2>2. /\ MakesValue(call) => BodyValuesUpTo(s, func, b, j) = Append(values, Local)
        /\ ~MakesValue(call) => BodyValuesUpTo(s, func, b, j) = values
    BY <1>1, BodyNext
  <2>3. QED BY <1>6, <1>9, <2>1, <2>2
<1>11. Len(values') = m
  <2> DEFINE v == Local
             c == call.value
  <2>1. values' = (IF c THEN Append(values, v) ELSE values) /\ values \in Seq(ValueIds)
    BY <1>2, <1>6, <1>9
  <2> HIDE DEF v, c
  <2>2. Len(values') = IF c THEN n + 1 ELSE n
    BY ONLY <2>1
  <2>3. QED BY <2>2 DEF c
<1>12. m \in Nat /\ k \in Nat /\ body' = [body EXCEPT !.at = k, !.next_id = m]
  <2>1. m \in Nat /\ k \in Nat
    BY <1>3, <1>8
  <2>2. body' = [body EXCEPT !.at = k, !.next_id = m]
    <3>1. body \in Activations /\ body.next_id = n
      BY <1>2, <1>3
    <3>2. body' = [[body EXCEPT !.at = @ + 1] EXCEPT !.next_id = IF call.value THEN @ + 1 ELSE @]
      BY <1>6 DEF Forth
    <3> DEFINE c == call.value
               w == [body EXCEPT !.at = body.at + 1]
    <3>3. body' = [w EXCEPT !.next_id = IF c THEN w.next_id + 1 ELSE w.next_id]
      BY ONLY <3>1, <3>2 DEF Activations
    <3>4. w.next_id = n
      BY ONLY <3>1 DEF Activations
    <3>5. body' = [w EXCEPT !.next_id = m]
      BY <3>3, <3>4
    <3>6. QED BY <3>1, <3>5 DEF Activations
  <2>3. QED BY <2>1, <2>2
<1> HIDE DEF j, b, E, call, n, m, k
<1>13. /\ body' \in Activations /\ body'.item = body.item /\ body'.at = k /\ body'.values = body.values
       /\ body'.mds = body.mds /\ body'.next_id = m /\ body'.bbs = body.bbs /\ body'.bb = body.bb
  BY ONLY <1>2, <1>12 DEF Activations
<1>14. blocks' = [f \in Functions(s) |-> IF f = func THEN BodyUpTo(s, func, b, j) ELSE blocks[f]]
  <2> DEFINE new == BodyUpTo(s, func, b, j)
             inst == [inst |-> j, block |-> 1 + Before(E, j), operands |-> {BodyValues(s, func, b)[call.operand + 1]}]
  <2>1. new = Append(blocks[func], inst)
    <3>1. call = Code[j] /\ call.kind = "call" /\ j = body.at /\ b = body.item /\ E = Ends(s, b)
      BY <1>1 DEF j, b, E, call
    <3>2. Code[j].kind \in {"call", "ret"} =>
            BodyUpTo(s, func, b, j) =
              Append(blocks[func], [inst |-> j, block |-> 1 + Before(Ends(s, b), j),
                                    operands |-> IF Code[j].kind = "ret" THEN {}
                                                 ELSE {BodyValues(s, func, b)[Code[j].operand + 1]}])
      BY <1>1, <3>1, BodyNext
    <3>3. QED BY <3>1, <3>2
  <2>2. blocks' = [blocks EXCEPT ![func] = Append(@, inst)]
    BY <1>3, <1>4, <1>6 DEF Add, j, b
  <2> HIDE DEF new, inst
  <2>3. blocks' = [f \in Functions(s) |-> IF f = func THEN new ELSE blocks[f]]
    BY ONLY <1>2, <2>1, <2>2
  <2>4. QED BY <2>3 DEF new
<1>15. /\ j = body.at /\ b = body.item /\ body'.item = b /\ body'.at = j + 1 /\ body'.next_id = Len(values')
       /\ body'.bbs = Cardinality(Ends(s, b)) /\ body'.bb = 1 + Before(Ends(s, b), j + 1)
  BY <1>4, <1>11, <1>13 DEF j, b, k, E
<1>16. /\ seen' \in [symtab : BOOLEAN, body : BOOLEAN, md : BOOLEAN] /\ seen'.symtab = seen.symtab /\ seen'.body = seen.body
       /\ ~error'
  BY <1>1, <1>2, <1>6, <1>7
<1>17. QED BY ONLY WellFormed(s), items = s, InOrderOf(s), <1>1, <1>7, <1>10, <1>13, <1>14, <1>15, <1>16, BodyStep

(* A terminator ends its block.                                          *)
LEMMA KeptByRet ==
  ASSUME NEW s, WellFormed(s), items = s, InOrderOf(s), ParseRet
  PROVE  InOrderOf(s)'
<1> DEFINE j == body.at
           b == body.item
           E == Ends(s, b)
           k == j + 1
<1>1. InBody("ret") /\ body # None /\ j <= Len(Code) /\ Code[j].kind = "ret" /\ ~error
  BY DEF ParseRet, InBody
<1>2. /\ func \in WithBody(s) /\ b = BodyOf(s, func) /\ Code = s[b].items /\ Len(Code) \in Nat
      /\ j \in 1 .. Len(Code) + 1 /\ values \in Seq(ValueIds) /\ body \in Activations
      /\ seen \in [symtab : BOOLEAN, body : BOOLEAN, md : BOOLEAN] /\ blocks = [f \in Functions(s) |-> blocks[f]]
      /\ func \in Functions(s)
  BY <1>1, BodyFacts
<1>3. /\ InBlock /\ body.bb = 1 + Before(E, j) /\ body.bbs = Cardinality(E) /\ Before(E, j) \in Nat
      /\ Before(E, j + 1) = Before(E, j) + 1
  <2>1. /\ InBlock /\ body.bb = 1 + Before(E, j) /\ body.bbs = Cardinality(E) /\ Before(E, j) \in Nat
        /\ Before(E, j + 1) = Before(E, j) + (IF "ret" = "ret" THEN 1 ELSE 0)
    BY <1>1, BlockFound
  <2>2. QED BY ONLY <2>1
<1>4. Add({}) /\ body' = [Forth(body) EXCEPT !.bb = @ + 1] /\ UNCHANGED error
  BY <1>3 DEF ParseRet
<1>5. UNCHANGED <<doc, lazy, cursor, next_unread, seen, with_bodies, deferred, deferred_md, values, mds, inits, given,
                  materializable, phase, func, todo, attached>>
  BY DEF ParseRet, tables, calls
<1>6. j \in Nat /\ b \in Nat /\ k \in Nat
  BY <1>2 DEF Activations
<1>7. body.next_id = Len(values)
  BY <1>1 DEF InOrderOf, BodyInOrder
<1>8. values' = BodyValuesUpTo(s, func, b, j)
  <2>1. ~MakesValue(Code[j])
    BY <1>1 DEF MakesValue
  <2>2. ~MakesValue(Code[j]) => BodyValuesUpTo(s, func, b, j) = values
    BY <1>1, BodyNext
  <2>3. QED BY <1>5, <2>1, <2>2
<1>9. body' = [body EXCEPT !.at = k, !.bb = body.bb + 1] /\ body.bb + 1 \in Nat
  <2>1. body' = [[body EXCEPT !.at = @ + 1] EXCEPT !.bb = @ + 1]
    BY <1>4 DEF Forth
  <2>2. QED BY ONLY <1>2, <2>1 DEF Activations
<1> HIDE DEF j, b, E, k
<1>10. /\ body' \in Activations /\ body'.item = body.item /\ body'.at = k /\ body'.values = body.values
       /\ body'.mds = body.mds /\ body'.next_id = body.next_id /\ body'.bbs = body.bbs /\ body'.bb = body.bb + 1
  BY ONLY <1>2, <1>6, <1>9 DEF Activations
<1>11. blocks' = [f \in Functions(s) |-> IF f = func THEN BodyUpTo(s, func, b, j) ELSE blocks[f]]
  <2> DEFINE new == BodyUpTo(s, func, b, j)
             inst == [inst |-> j, block |-> 1 + Before(E, j), operands |-> {}]
  <2>1. new = Append(blocks[func], inst)
    <3>1. j = body.at /\ b = body.item /\ E = Ends(s, b)
      BY DEF j, b, E
    <3>2. Code[j].kind \in {"call", "ret"} =>
            BodyUpTo(s, func, b, j) =
              Append(blocks[func], [inst |-> j, block |-> 1 + Before(Ends(s, b), j),
                                    operands |-> IF Code[j].kind = "ret" THEN {}
                                                 ELSE {BodyValues(s, func, b)[Code[j].operand + 1]}])
      BY <1>1, <3>1, BodyNext
    <3>3. QED BY <1>1, <3>1, <3>2
  <2>2. blocks' = [blocks EXCEPT ![func] = Append(@, inst)]
    BY <1>3, <1>4 DEF Add, j, b
  <2> HIDE DEF new, inst
  <2>3. blocks' = [f \in Functions(s) |-> IF f = func THEN new ELSE blocks[f]]
    BY ONLY <1>2, <2>1, <2>2
  <2>4. QED BY <2>3 DEF new
<1>12. /\ j = body.at /\ b = body.item /\ body'.item = b /\ body'.at = j + 1 /\ body'.next_id = Len(values')
       /\ body'.bbs = Cardinality(Ends(s, b)) /\ body'.bb = 1 + Before(Ends(s, b), j + 1)
  <2>1. body.bb + 1 = 1 + Before(E, j + 1)
    BY ONLY <1>3
  <2>2. QED BY <1>3, <1>5, <1>7, <1>10, <2>1 DEF j, b, k, E
<1>13. /\ seen' \in [symtab : BOOLEAN, body : BOOLEAN, md : BOOLEAN] /\ seen'.symtab = seen.symtab /\ seen'.body = seen.body
       /\ ~error' /\ mds' = mds
  BY <1>1, <1>2, <1>4, <1>5
<1>14. QED BY ONLY WellFormed(s), items = s, InOrderOf(s), <1>1, <1>5, <1>8, <1>10, <1>11, <1>12, <1>13, BodyStep

(***************************************************************************)
(* The end of a body leaves the tables of the module, and a whole function.*)
(***************************************************************************)
LEMMA KeptByEndBody ==
  ASSUME NEW s, WellFormed(s), items = s, InOrderOf(s), EndFunctionBody
  PROVE  InOrderOf(s)'
<1> USE DEF InOrderOf
<1> DEFINE j == body.at
           b == body.item
           M == Len(Code)
<1>1. body # None /\ ~error /\ j > M
  BY DEF EndFunctionBody
<1>2. /\ func \in WithBody(s) /\ func \in Functions(s) /\ func \in materializable /\ b = BodyOf(s, func) /\ b \in Bodies(s)
      /\ Code = s[b].items /\ M \in Nat /\ j \in 1 .. M + 1 /\ values = BodyValuesUpTo(s, func, b, j - 1)
      /\ phase = "find" /\ b < Pos /\ cursor.at = b /\ b \in 1 .. Len(s) - 1 /\ Len(s) \in Nat
      /\ mds \in Seq(ValueIds) /\ deferred_md = << >> /\ cursor \in [at : 1 .. Len(s) + 1, inside : BOOLEAN]
      /\ values \in Seq(ValueIds)
  BY <1>1, BodyFacts
<1>3. j - 1 = M
  BY ONLY <1>1, <1>2, SMTT(20)
<1>4. values = BodyValuesUpTo(s, func, b, Len(s[b].items))
  BY <1>2, <1>3
<1>5. Last(values).arg = FALSE
  BY <1>2, <1>4, LastIsLocal
<1>6. /\ values' = SubSeq(values, 1, body.values) /\ mds' = SubSeq(mds, 1, body.mds)
      /\ cursor' = [cursor EXCEPT !.at = @ + 1] /\ body' = None /\ materializable' = materializable \ {func}
      /\ phase' = "done" /\ UNCHANGED error
      /\ UNCHANGED <<doc, lazy, next_unread, seen, with_bodies, deferred, deferred_md, inits, given, blocks,
                     func, todo, attached>>
  BY <1>5 DEF EndFunctionBody, Truncate, Step
<1>7. /\ body.values = Len(AllValues(s)) /\ SubSeq(mds, 1, body.mds) = AllMetadata(s)
      /\ blocks[func] = BodyUpTo(s, func, b, j - 1)
  BY <1>1 DEF BodyInOrder
<1>8. values' = AllValues(s) /\ mds' = AllMetadata(s)
  <2>1. \A n \in 0 .. Len(s[b].items) : SubSeq(BodyValuesUpTo(s, func, b, n), 1, Len(AllValues(s))) = AllValues(s)
    BY <1>2, BodyTables
  <2>2. M \in 0 .. Len(s[b].items) /\ M = Len(s[b].items)
    BY <1>2
  <2>3. SubSeq(values, 1, Len(AllValues(s))) = AllValues(s)
    BY ONLY <1>4, <2>1, <2>2
  <2>4. values' = SubSeq(values, 1, Len(AllValues(s))) /\ mds' = SubSeq(mds, 1, body.mds)
    BY ONLY <1>6, <1>7, Zenon
  <2>5. QED BY ONLY <1>7, <2>3, <2>4, Zenon
<1>9. blocks[func] = WrittenBody(s, func)
  <2>1. BodyUpTo(s, func, b, Len(s[b].items)) = WrittenBody(s, func)
    BY <1>2, BodyGrows
  <2>2. QED BY <1>2, <1>3, <1>7, <2>1
<1>10. cursor' \in [at : 1 .. Len(s) + 1, inside : BOOLEAN] /\ cursor'.inside = cursor.inside /\ cursor'.at <= Len(s)
  <2>1. /\ cursor' = [cursor EXCEPT !.at = b + 1] /\ cursor \in [at : 1 .. Len(s) + 1, inside : BOOLEAN]
        /\ b \in 1 .. Len(s) - 1 /\ Len(s) \in Nat
    BY <1>2, <1>6
  <2> HIDE DEF b
  <2>2. QED BY ONLY <2>1
<1>11. Pos' = Pos
  BY <1>2, <1>6, <1>10, PlaceStill DEF Parsing
<1>12. PlaceKnown(s)'
  <2>1. /\ next_unread \in 0 .. Len(s) /\ (next_unread # 0 => seen.symtab /\ seen.body)
        /\ (cursor.inside => next_unread # 0) /\ (~cursor.inside => next_unread = 0 \/ ~attached)
        /\ (\A i \in Valued(s) : i < Pos) /\ seen \in [symtab : BOOLEAN, body : BOOLEAN, md : BOOLEAN]
    BY <1>2 DEF PlaceKnown
  <2>2. QED BY ONLY <1>6, <1>10, <1>11, <2>1, Zenon DEF PlaceKnown, Parsing
<1>13. QueueInOrder(s)' /\ PlacesNoted(s)' /\ InitsKept(s)'
  BY <1>2, <1>6, <1>11, StandStill
<1>14. TablesKnown(s)'
  <2>1. /\ ValuesUpTo(s, Pos - 1) = AllValues(s) /\ MetadataUpTo(s, Pos - 1) = AllMetadata(s)
        /\ AllValues(s) \in Seq(ValueIds) /\ AllMetadata(s) \in Seq(ValueIds)
    BY <1>2, AllRead
  <2>2. deferred_md' = << >> /\ deferred_md' \in Seq(Nat) /\ \A k \in DOMAIN deferred_md' : deferred_md'[k] \in 1 .. Len(s) - 1
    BY <1>2, <1>6
  <2>3. mds' \o Later(s, deferred_md') = mds'
    <3>1. << >> \in Seq(DOMAIN s)
      OBVIOUS
    <3>2. Later(s, << >>) = << >>
      BY <3>1, LaterGrows
    <3>3. mds' \o << >> = mds'
      BY <1>8, <2>1, ConcatEmptySeq
    <3>4. QED BY ONLY <2>2, <3>2, <3>3
  <2>4. QED BY ONLY <1>6, <1>8, <1>11, <2>1, <2>2, <2>3, Zenon DEF TablesKnown
<1>15. FunctionsWhole(s)'
  <2>1. /\ blocks = [f \in Functions(s) |-> blocks[f]] /\ materializable = materializable \cap WithBody(s)
        /\ \A f \in WithBody(s) :
             \/ f \in materializable /\ (blocks[f] = << >> \/ (body # None /\ f = func))
             \/ f \notin materializable /\ blocks[f] = WrittenBody(s, f) /\ BodyOf(s, f) < Pos
    BY <1>2 DEF FunctionsWhole
  <2>2. materializable' = materializable' \cap WithBody(s)
    BY ONLY <1>6, <2>1
  <2>3. \A f \in WithBody(s) :
             \/ f \in materializable' /\ blocks'[f] = << >>
             \/ f \notin materializable' /\ blocks'[f] = WrittenBody(s, f) /\ BodyOf(s, f) < Pos'
    <3> SUFFICES ASSUME NEW f \in WithBody(s)
                 PROVE  \/ f \in materializable' /\ blocks'[f] = << >>
                        \/ f \notin materializable' /\ blocks'[f] = WrittenBody(s, f) /\ BodyOf(s, f) < Pos'
      OBVIOUS
    <3>1. CASE f = func
      BY <1>2, <1>6, <1>9, <1>11, <3>1
    <3>2. CASE f # func
      BY <1>6, <1>11, <2>1, <3>2
    <3>3. QED BY <3>1, <3>2
  <2>4. QED BY ONLY <1>6, <2>1, <2>2, <2>3, Zenon DEF FunctionsWhole
<1>16. CallInOrder(s)'
  <2>1. /\ todo = None \/ todo \in Seq(Functions(s))
        /\ todo # None => \A f \in materializable : Has(todo, f) \/ f = func
        /\ attached \in BOOLEAN /\ attached
    BY <1>2 DEF CallInOrder
  <2>2. todo' # None => \A f \in materializable' : Has(todo', f)
    BY ONLY <1>6, <2>1
  <2>3. QED BY ONLY <1>2, <1>6, <2>1, <2>2 DEF CallInOrder
<1>17. BodyInOrder(s)'
  BY <1>6 DEF BodyInOrder
<1>18. QED BY <1>1, <1>6, <1>12, <1>13, <1>14, <1>15, <1>16, <1>17

-----------------------------------------------------------------------------
(***************************************************************************)
(* The invariant holds when the module's block was entered.                *)
(***************************************************************************)
LEMMA InOrderAtFirst ==
  ASSUME Init
  PROVE  IInv
<1>1. PICK d \in Documents : doc = d /\ lazy \in BOOLEAN
  BY DEF Init
<1> DEFINE s == d.items
<1>2. WellFormed(s) /\ items = s
  BY <1>1, DocumentAssumption DEF items
<1>3. /\ cursor = [at |-> 1, inside |-> TRUE] /\ next_unread = 0
      /\ seen = [symtab |-> FALSE, body |-> FALSE, md |-> FALSE]
      /\ with_bodies = << >> /\ deferred = [f \in Functions(s) |-> 0] /\ deferred_md = << >>
      /\ values = << >> /\ mds = << >> /\ inits = << >> /\ given = [f \in Functions(s) |-> None]
      /\ materializable = {} /\ blocks = [f \in Functions(s) |-> << >>]
      /\ body = None /\ phase = "load" /\ func = None /\ todo = None /\ attached = TRUE /\ error = FALSE
  BY <1>2 DEF Init
<1> HIDE DEF s
<1>4. /\ Len(s) \in Nat /\ Len(s) >= 1 /\ DOMAIN s = 1 .. Len(s)
      /\ Bodies(s) \subseteq 1 .. Len(s) /\ Owners(s) \subseteq 1 .. Len(s) /\ Protos(s) \subseteq 1 .. Len(s)
      /\ WithBody(s) \subseteq Functions(s) /\ Owners(s) \subseteq Protos(s)
  BY <1>2, Document
<1>5. Pos = 1
  BY <1>3 DEF Pos, Parsing
<1>6. PlaceKnown(s)
  BY <1>3, <1>4, <1>5 DEF PlaceKnown, Parsing
<1>7. (\A i \in Owners(s) : ~ (i < Pos)) /\ (\A i \in Bodies(s) : ~ (i < Pos)) /\ (\A i \in Protos(s) : ~ (i < Pos))
  BY <1>4, <1>5
<1>8. QueueInOrder(s)
  <2>1. Before(Owners(s), 1) = 0
    BY <1>4, BeforeFacts
  <2>2. Len(with_bodies) = Before(Owners(s), Pos) /\ with_bodies \in Seq(Functions(s))
    BY <1>3, <1>5, <2>1
  <2>3. ~seen.body
    BY <1>3
  <2>4. QED BY ONLY <1>7, <2>2, <2>3, Zenon DEF QueueInOrder
<1>9. PlacesNoted(s)
  <2>1. \A f \in WithBody(s) : ~ (BodyOf(s, f) < Pos)
    BY <1>2, <1>7, BodyKnown
  <2>2. QED BY ONLY <1>3, <2>1 DEF PlacesNoted
<1>10. TablesKnown(s)
  <2>1. ValuesUpTo(s, 0) = << >> /\ MetadataUpTo(s, 0) = << >>
    BY <1>2, ValuesGrow, MetadataGrows
  <2>2. << >> \in Seq(DOMAIN s)
    OBVIOUS
  <2>3. Later(s, << >>) = << >>
    BY <1>2, <2>2, LaterGrows
  <2>4. << >> \o << >> = << >> /\ Pos - 1 = 0
    BY <1>5
  <2>5. values = ValuesUpTo(s, Pos - 1) /\ mds \o Later(s, deferred_md) = MetadataUpTo(s, Pos - 1)
    BY <1>3, <2>1, <2>3, <2>4
  <2>6. values \in Seq(ValueIds) /\ mds \in Seq(ValueIds) /\ deferred_md \in Seq(Nat) /\ DOMAIN deferred_md = {}
    BY <1>3
  <2>7. QED BY ONLY <1>3, <2>5, <2>6 DEF TablesKnown
<1>11. InitsKept(s)
  <2>1. Initialised(s) \subseteq Protos(s) /\ \A i \in Protos(s) : s[i].func \in Functions(s)
    BY DEF Initialised, Functions
  <2>2. inits \in Seq(Entries(s)) /\ DOMAIN inits = {} /\ inits = << >>
    BY <1>3
  <2>3. given = [f \in Functions(s) |-> given[f]] /\ \A f \in Functions(s) : given[f] = None
    BY ONLY <1>3
  <2>4. \A i \in Protos(s) : given[s[i].func] = None
    BY ONLY <2>1, <2>3
  <2>5. QED BY ONLY <1>7, <2>1, <2>2, <2>3, <2>4, Zenon DEF InitsKept
<1>12. FunctionsWhole(s)
  <2>1. blocks = [f \in Functions(s) |-> blocks[f]] /\ \A f \in WithBody(s) : blocks[f] = << >>
    BY ONLY <1>3, <1>4
  <2>2. materializable = {s[i].func : i \in {j \in Owners(s) : j < Pos}}
    <3>1. {j \in Owners(s) : j < Pos} = {}
      BY ONLY <1>7
    <3>2. QED BY <1>3, <3>1
  <2>3. QED BY ONLY <1>3, <2>1, <2>2, Zenon DEF FunctionsWhole
<1>13. CallInOrder(s) /\ BodyInOrder(s)
  BY ONLY <1>3 DEF CallInOrder, BodyInOrder
<1>14. InOrderOf(s)
  BY <1>3, <1>6, <1>8, <1>9, <1>10, <1>11, <1>12, <1>13 DEF InOrderOf
<1>15. QED BY <1>1, <1>14 DEF IInv, s

(* A step that changes nothing keeps it, ...                               *)
LEMMA KeptByStutter ==
  ASSUME NEW s, InOrderOf(s), UNCHANGED vars
  PROVE  InOrderOf(s)'
<1>1. UNCHANGED <<doc, lazy, cursor, next_unread, seen, with_bodies, deferred, deferred_md, values, mds, inits, given,
                  materializable, blocks, body, phase, func, todo, attached, error>>
  BY DEF vars, tables, calls
<1>2. Pos' = Pos /\ (Parsing' <=> Parsing)
  BY ONLY <1>1 DEF Pos, Parsing, items
<1>3. /\ ~error /\ PlaceKnown(s) /\ QueueInOrder(s) /\ PlacesNoted(s) /\ TablesKnown(s) /\ InitsKept(s)
      /\ FunctionsWhole(s) /\ CallInOrder(s) /\ BodyInOrder(s)
  BY DEF InOrderOf
<1>4. PlaceKnown(s)'
  BY ONLY <1>1, <1>2, <1>3, Zenon DEF PlaceKnown
<1>5. QueueInOrder(s)' /\ PlacesNoted(s)' /\ InitsKept(s)'
  BY ONLY <1>1, <1>2, <1>3, StandStill
<1>6. TablesKnown(s)'
  BY ONLY <1>1, <1>2, <1>3, Zenon DEF TablesKnown
<1>7. FunctionsWhole(s)'
  BY ONLY <1>1, <1>2, <1>3, Zenon DEF FunctionsWhole
<1>8. CallInOrder(s)'
  BY ONLY <1>1, <1>2, <1>3, Zenon DEF CallInOrder
<1>9. BodyInOrder(s)'
  BY ONLY <1>1, <1>2, <1>3, Zenon DEF BodyInOrder
<1>10. QED BY <1>1, <1>3, <1>4, <1>5, <1>6, <1>7, <1>8, <1>9 DEF InOrderOf

(* ... and so does every step of the reader, which stays with its document.*)
LEMMA DocumentStays ==
  ASSUME [Next]_vars
  PROVE  doc' = doc /\ lazy' = lazy
<1>1. CASE UNCHANGED vars
  BY <1>1 DEF vars
<1>2. CASE ParseModule
  BY <1>2 DEF ParseModule, ParseFunctionRecord, ParseConstants, ParseModuleMetadata, ParseValueSymbolTable, SkipUnknown,
              RememberAndSkipFunctionBody, EndModule
<1>3. CASE ParseFunctionBody
  BY <1>3 DEF ParseFunctionBody, EnterFunctionBody, DeclareBlocks, ParseBodyConstants, ParseBodyMetadata, ParseCall,
              ParseRet, EndFunctionBody
<1>4. CASE FindFunctionInStream \/ VisitNext \/ ReadRest \/ LetGo \/ Return
  BY <1>4 DEF FindFunctionInStream, VisitNext, Entering, ReadRest, LetGo, Return
<1>5. CASE (\E f \in Functions(items) : Materialize(f)) \/ MaterializeModule
  BY <1>5 DEF Materialize, Entering, MaterializeModule
<1>6. QED BY <1>1, <1>2, <1>3, <1>4, <1>5 DEF Next, Run

(* Each action of the reader keeps the invariant.                        *)
LEMMA InOrderKept ==
  ASSUME IInv, [Next]_vars
  PROVE  IInv'
<1>1. PICK d \in Documents : doc = d /\ lazy \in BOOLEAN /\ InOrderOf(d.items)
  BY DEF IInv
<1> DEFINE s == d.items
<1>2. WellFormed(s) /\ items = s
  BY <1>1, DocumentAssumption DEF items
<1>3. InOrderOf(s) /\ lazy \in BOOLEAN
  BY <1>1
<1> HIDE DEF s
<1>4. InOrderOf(s)'
  <2>1. CASE ParseModule
    <3>1. CASE ParseFunctionRecord
      BY <1>2, <1>3, <3>1, KeptByFunctionRecord
    <3>2. CASE ParseConstants
      BY <1>2, <1>3, <3>2, KeptByConstants
    <3>3. CASE ParseModuleMetadata
      BY <1>2, <1>3, <3>3, KeptByModuleMetadata
    <3>4. CASE ParseValueSymbolTable \/ SkipUnknown
      BY <1>2, <1>3, <3>4, KeptByRest
    <3>5. CASE RememberAndSkipFunctionBody
      BY <1>2, <1>3, <3>5, KeptByFunctionSkipped
    <3>6. CASE EndModule
      BY <1>2, <1>3, <3>6, KeptByEndModule
    <3>7. QED BY <2>1, <3>1, <3>2, <3>3, <3>4, <3>5, <3>6 DEF ParseModule
  <2>2. CASE ParseFunctionBody
    <3>1. CASE EnterFunctionBody
      BY <1>2, <1>3, <3>1, KeptByEnterBody
    <3>2. CASE DeclareBlocks \/ ParseBodyConstants \/ ParseBodyMetadata
      BY <1>2, <1>3, <3>2, KeptByBodyItem
    <3>3. CASE ParseCall
      BY <1>2, <1>3, <3>3, KeptByCall
    <3>4. CASE ParseRet
      BY <1>2, <1>3, <3>4, KeptByRet
    <3>5. CASE EndFunctionBody
      BY <1>2, <1>3, <3>5, KeptByEndBody
    <3>6. QED BY <2>2, <3>1, <3>2, <3>3, <3>4, <3>5 DEF ParseFunctionBody
  <2>3. CASE FindFunctionInStream
    BY <1>2, <1>3, <2>3, KeptByFindFunction
  <2>4. CASE (\E f \in Functions(items) : Materialize(f)) \/ MaterializeModule \/ VisitNext
    BY <1>2, <1>3, <2>4, KeptByEntering
  <2>5. CASE ReadRest
    BY <1>2, <1>3, <2>5, KeptByReadRest
  <2>6. CASE LetGo \/ Return
    BY <1>2, <1>3, <2>6, KeptByReturning
  <2>7. CASE UNCHANGED vars
    BY <1>3, <2>7, KeptByStutter
  <2>8. QED BY <2>1, <2>2, <2>3, <2>4, <2>5, <2>6, <2>7 DEF Next, Run
<1>5. doc' = d /\ lazy' \in BOOLEAN
  BY <1>1, DocumentStays
<1>6. QED BY <1>4, <1>5 DEF IInv, s

-----------------------------------------------------------------------------
(***************************************************************************)
(* What follows from the invariant.  The fields are of their types, ...    *)
(***************************************************************************)
LEMMA TypesInOrder ==
  ASSUME NEW s, WellFormed(s), items = s, InOrderOf(s)
  PROVE  TypeOK
<1>1. /\ PlaceKnown(s) /\ QueueInOrder(s) /\ PlacesNoted(s) /\ FunctionsWhole(s) /\ CallInOrder(s)
  BY DEF InOrderOf
<1>2. /\ Len(s) \in Nat /\ DOMAIN s = 1 .. Len(s) /\ WithBody(s) \subseteq Functions(s)
      /\ WithBody(s) = {s[i].func : i \in Owners(s)}
  BY Document
<1>3. cursor.at \in 1 .. Len(items) + 1 /\ cursor.inside \in BOOLEAN /\ next_unread \in 0 .. Len(items)
  BY <1>1 DEF PlaceKnown
<1>4. \A k \in DOMAIN with_bodies : with_bodies[k] \in Functions(items)
  <2>1. with_bodies \in Seq(Functions(s))
    BY <1>1, Zenon DEF QueueInOrder
  <2>2. QED BY ONLY <2>1, items = s
<1>5. \A f \in Functions(items) : deferred[f] = 0 \/ IsBody(items, deferred[f])
  <2>1. \A f \in Functions(s) : deferred[f] = IF f \in WithBody(s) /\ BodyOf(s, f) < Pos THEN BodyOf(s, f) ELSE 0
    BY ONLY <1>1 DEF PlacesNoted
  <2>2. \A f \in WithBody(s) : IsBody(s, BodyOf(s, f))
    <3>1. \A f \in WithBody(s) : BodyOf(s, f) \in Bodies(s)
      BY BodyKnown
    <3>2. QED BY <3>1 DEF Bodies
  <2>3. QED BY ONLY <2>1, <2>2, items = s
<1>6. materializable \subseteq WithBody(items)
  <2>1. CASE phase = "load"
    <3>1. materializable = {s[i].func : i \in {j \in Owners(s) : j < Pos}}
      BY ONLY <1>1, <2>1, Zenon DEF FunctionsWhole
    <3>2. QED BY ONLY <1>2, <3>1, items = s
  <2>2. CASE phase # "load"
    <3>1. materializable = materializable \cap WithBody(s)
      BY ONLY <1>1, <2>2, Zenon DEF FunctionsWhole
    <3>2. QED BY ONLY <3>1, items = s
  <2>3. QED BY <2>1, <2>2
<1>7. phase \in {"load", "idle", "find", "search", "rest", "last", "done"} /\ func \in Functions(items) \cup {None}
  BY <1>1 DEF PlaceKnown, CallInOrder
<1>8. body = None \/ (func \in materializable /\ body.at \in 1 .. Len(Code) + 1)
  BY BodyFacts
<1>9. QED BY ONLY <1>3, <1>4, <1>5, <1>6, <1>7, <1>8 DEF TypeOK

(* ... outside of bodies the tables are those of the module, and each      *)
(* function has its initialiser.                                           *)
LEMMA TablesInOrder ==
  ASSUME IInv
  PROVE  TablesMatch /\ InitsGiven /\ NeverFails
<1>1. PICK d \in Documents : doc = d /\ lazy \in BOOLEAN /\ InOrderOf(d.items)
  BY DEF IInv
<1> DEFINE s == d.items
<1>2. WellFormed(s) /\ items = s /\ InOrderOf(s)
  BY <1>1, DocumentAssumption DEF items
<1> HIDE DEF s
<1>3. ~error /\ PlaceKnown(s) /\ TablesKnown(s) /\ InitsKept(s)
  BY <1>2 DEF InOrderOf
<1>4. ASSUME phase # "load"
      PROVE  /\ ValuesUpTo(s, Pos - 1) = AllValues(s) /\ MetadataUpTo(s, Pos - 1) = AllMetadata(s)
             /\ deferred_md = << >> => mds \o Later(s, deferred_md) = mds
             /\ \A i \in Protos(s) : i < Pos /\ i \in Int /\ Pos \in Int
  <2>1. /\ Pos - 1 \in 0 .. Len(s) /\ \A i \in Valued(s) : i < Pos /\ i \in 1 .. Len(s) - 1
        /\ ValuesUpTo(s, Pos - 1) = AllValues(s) /\ MetadataUpTo(s, Pos - 1) = AllMetadata(s)
        /\ deferred_md = << >> => mds \o Later(s, deferred_md) = mds
    BY <1>2, <1>3, <1>4, AllRead
  <2>2. Protos(s) \subseteq Valued(s)
    BY <1>2, Document
  <2>3. Pos \in Int
    BY <1>2, <1>3, PlaceFacts
  <2>4. QED BY ONLY <2>1, <2>2, <2>3
<1>5. TablesMatch
  <2>1. TypeOK
    BY <1>2, TypesInOrder
  <2>2. ASSUME phase # "load", body = None
        PROVE  values = ValuesUpTo(s, Len(s)) /\ (deferred_md = << >> => mds = MetadataUpTo(s, Len(s)))
    <3>1. values = ValuesUpTo(s, Pos - 1) /\ mds \o Later(s, deferred_md) = MetadataUpTo(s, Pos - 1)
      BY <1>3, <2>2, Zenon DEF TablesKnown
    <3>2. QED BY <1>4, <2>2, <3>1 DEF AllValues, AllMetadata
  <2>3. QED BY <1>2, <2>1, <2>2 DEF TablesMatch
<1>6. InitsGiven
  <2> SUFFICES ASSUME phase = "idle", NEW i \in Protos(s)
               PROVE  given[s[i].func] = IF s[i].init = 0 THEN None ELSE AllValues(s)[s[i].init]
    BY <1>2 DEF InitsGiven, AllValues
  <2>1. phase # "load"
    OBVIOUS
  <2>2. i < Pos
    BY <1>4, <2>1
  <2>3. inits = << >>
    BY ONLY <1>3, <2>1, Zenon DEF InitsKept
  <2>4. CASE s[i].init = 0
    <3>1. given[s[i].func] = None
      BY ONLY <1>3, <2>4, i \in Protos(s), Zenon DEF InitsKept
    <3>2. QED BY <2>4, <3>1
  <2>5. CASE s[i].init # 0
    <3>1. i \in Initialised(s)
      BY ONLY <2>5, i \in Protos(s) DEF Initialised
    <3>2. given[s[i].func] = AllValues(s)[s[i].init] \/ \E k \in DOMAIN inits : inits[k] = InitOf(s, i)
      BY ONLY <1>3, <2>2, <3>1, Zenon DEF InitsKept
    <3>3. DOMAIN inits = {}
      BY <2>3
    <3>4. QED BY <2>5, <3>2, <3>3
  <2>6. QED BY <2>4, <2>5
<1>7. QED BY <1>3, <1>5, <1>6 DEF NeverFails

(***************************************************************************)
(* Every state of the reader is in order.                                  *)
(***************************************************************************)
LEMMA InOrderAlways == Spec => []IInv
BY InOrderAtFirst, InOrderKept, PTL DEF Spec

(***************************************************************************)
(* The fields are of their types, and between function bodies the value    *)
(* and metadata tables are those the writer counted its ids in             *)
(* (ParseFunctionBody, BitcodeReader.cpp:2285).                            *)
(***************************************************************************)
THEOREM TablesMatchHolds == Spec => []TablesMatch
BY InOrderAlways, TablesInOrder, PTL

(***************************************************************************)
(* When a call has returned, each function has the value it is initialised *)
(* with, wherever that was defined (ResolveGlobalAndAliasInits,            *)
(* BitcodeReader.cpp:2289).                                                *)
(***************************************************************************)
THEOREM InitsGivenHolds == Spec => []InitsGiven
BY InOrderAlways, TablesInOrder, PTL

(***************************************************************************)
(* On a well-formed module no call fails: no body is without its function, *)
(* no search leaves the module, no value or block of a body is missing     *)
(* (Materialize and FindFunctionInStream, BitcodeReader.cpp:618, :2707).   *)
(***************************************************************************)
THEOREM LoadingNeverFails == Spec => []NeverFails
BY InOrderAlways, TablesInOrder, PTL

-----------------------------------------------------------------------------
(***************************************************************************)
(* The refinement of LazyModule: Shown is what it calls present.           *)
(***************************************************************************)
Shown == [f \in WithBody(items) |-> IF phase = "load" \/ f \in materializable THEN Absent ELSE blocks[f]]

(* Nothing appears in a step after which the same functions are whole, ... *)
LEMMA ShownStays ==
  ASSUME NEW s, items = s, doc' = doc, attached' = attached,
         \A f \in WithBody(s) : phase = "load" \/ f \in materializable <=> phase' = "load" \/ f \in materializable',
         \A f \in WithBody(s) \ materializable : phase # "load" => blocks'[f] = blocks[f]
  PROVE  UNCHANGED <<doc.written, Shown, attached>>
<1>1. items' = s
  BY DEF items
<1>2. Shown = [f \in WithBody(s) |-> IF phase = "load" \/ f \in materializable THEN Absent ELSE blocks[f]]
  BY DEF Shown
<1>3. Shown' = [f \in WithBody(s) |-> IF phase' = "load" \/ f \in materializable' THEN Absent ELSE blocks'[f]]
  BY <1>1 DEF Shown
<1>4. \A f \in WithBody(s) :
        (IF phase = "load" \/ f \in materializable THEN Absent ELSE blocks[f])
          = (IF phase' = "load" \/ f \in materializable' THEN Absent ELSE blocks'[f])
  OBVIOUS
<1>5. Shown' = Shown
  BY ONLY <1>2, <1>3, <1>4
<1>6. QED BY <1>5

(* ... so nothing appears while ParseModule runs, ...                      *)
LEMMA ShownByModule ==
  ASSUME NEW s, WellFormed(s), items = s, InOrderOf(s), ParseModule
  PROVE  UNCHANGED <<doc.written, Shown, attached>>
<1>1. /\ PlaceKnown(s) /\ QueueInOrder(s) /\ FunctionsWhole(s)
  BY DEF InOrderOf
<1>2. doc' = doc /\ attached' = attached /\ blocks' = blocks
  BY DEF ParseModule, ParseFunctionRecord, ParseConstants, ParseModuleMetadata, ParseValueSymbolTable, SkipUnknown,
         RememberAndSkipFunctionBody, EndModule, calls
<1>3. CASE ParseFunctionRecord
  <2>1. Read("proto") /\ phase' = phase
    BY <1>3 DEF ParseFunctionRecord, calls
  <2>2. phase = "load"
    BY <1>1, <2>1, ItemFacts
  <2>3. QED BY <1>2, <2>1, <2>2, ShownStays
<1>4. CASE ParseConstants \/ ParseModuleMetadata \/ ParseValueSymbolTable \/ SkipUnknown
  <2>1. phase' = phase /\ materializable' = materializable
    BY <1>4 DEF ParseConstants, ParseModuleMetadata, ParseValueSymbolTable, SkipUnknown, calls, tables
  <2>2. QED BY <1>2, <2>1, ShownStays
<1>5. CASE RememberAndSkipFunctionBody \/ EndModule
  <2>1. (Read("body") \/ Read("end")) /\ materializable' = materializable /\ (phase' = phase \/ phase' = Returned)
    BY <1>5 DEF RememberAndSkipFunctionBody, EndModule, Suspend
  <2>2. Pos \in 1 .. Len(s) /\ phase \in {"load", "search", "rest"}
    BY <1>1, <2>1, ItemFacts
  <2>3. CASE phase = "load"
    <3>1. Pos \in Bodies(s) \/ s[Pos].kind = "end"
      BY <1>1, <2>1, ItemFacts
    <3>2. \A i \in Owners(s) : i < Pos
      <4>1. /\ \A i \in Valued(s) : \A b \in Bodies(s) : i < b
            /\ \A i \in DOMAIN s : s[i].kind = "end" <=> i = Len(s)
            /\ DOMAIN s = 1 .. Len(s) /\ Valued(s) \subseteq 1 .. Len(s) - 1
            /\ Owners(s) \subseteq Protos(s) /\ Protos(s) \subseteq Valued(s) /\ Len(s) \in Nat
        BY Document
      <4>2. CASE Pos \in Bodies(s)
        BY ONLY <4>1, <4>2
      <4>3. CASE s[Pos].kind = "end"
        <5>1. Pos = Len(s)
          BY ONLY <2>2, <4>1, <4>3
        <5>2. QED BY ONLY <4>1, <5>1
      <4>4. QED BY <3>1, <4>2, <4>3
    <3>3. materializable = WithBody(s)
      <4>1. materializable = {s[i].func : i \in {j \in Owners(s) : j < Pos}}
        BY ONLY <1>1, <2>3, Zenon DEF FunctionsWhole
      <4>2. {j \in Owners(s) : j < Pos} = Owners(s)
        BY ONLY <3>2
      <4>3. WithBody(s) = {s[i].func : i \in Owners(s)}
        BY Document
      <4>4. QED BY ONLY <4>1, <4>2, <4>3
    <3>4. QED BY <1>2, <2>1, <2>3, <3>3, ShownStays
  <2>4. CASE phase # "load"
    <3>1. phase' # "load"
      BY <2>1, <2>2, <2>4 DEF Returned
    <3>2. QED BY <1>2, <2>1, <2>4, <3>1, ShownStays
  <2>5. QED BY <2>3, <2>4
<1>6. QED BY <1>3, <1>4, <1>5 DEF ParseModule

(* ... while a body is read, ...                                           *)
LEMMA ShownInBody ==
  ASSUME NEW s, WellFormed(s), items = s, InOrderOf(s), ParseFunctionBody, ~EndFunctionBody
  PROVE  UNCHANGED <<doc.written, Shown, attached>>
<1>1. CASE EnterFunctionBody \/ DeclareBlocks \/ ParseBodyConstants \/ ParseBodyMetadata
  <2>1. UNCHANGED <<doc, blocks, materializable, phase, attached>>
    BY <1>1 DEF EnterFunctionBody, DeclareBlocks, ParseBodyConstants, ParseBodyMetadata, calls, tables
  <2>2. QED BY <2>1, ShownStays
<1>2. CASE ParseCall \/ ParseRet
  <2>1. UNCHANGED <<doc, materializable, phase, attached>>
    BY <1>2 DEF ParseCall, ParseRet, calls, tables
  <2>2. body # None
    BY <1>2 DEF ParseCall, ParseRet, InBody
  <2>3. func \in materializable /\ func \in Functions(s) /\ blocks = [f \in Functions(s) |-> blocks[f]]
    BY <2>2, BodyFacts
  <2>4. \A f \in WithBody(s) \ materializable : blocks'[f] = blocks[f]
    <3>1. CASE blocks' = blocks
      BY <3>1
    <3>2. CASE blocks' # blocks
      <4>1. PICK x : Add(x)
        BY <1>2, <3>2 DEF ParseCall, ParseRet
      <4>2. PICK y : blocks' = [blocks EXCEPT ![func] = y]
        BY ONLY <4>1 DEF Add
      <4>3. WithBody(s) \subseteq Functions(s)
        BY Document
      <4>4. QED BY ONLY <2>3, <4>2, <4>3
    <3>3. QED BY <3>1, <3>2
  <2>5. QED BY <2>1, <2>4, ShownStays
<1>3. QED BY <1>1, <1>2 DEF ParseFunctionBody

(* ... and in the calls that lead there.                                   *)
LEMMA ShownByCalls ==
  ASSUME NEW s, items = s,
         \/ FindFunctionInStream \/ VisitNext \/ ReadRest \/ Return \/ MaterializeModule
         \/ \E f \in Functions(s) : Materialize(f)
  PROVE  UNCHANGED <<doc.written, Shown, attached>>
<1>1. UNCHANGED <<doc, blocks, materializable, attached>>
  BY DEF FindFunctionInStream, VisitNext, ReadRest, Return, MaterializeModule, Materialize, Entering, tables
<1>2. phase # "load" /\ phase' # "load"
  BY DEF FindFunctionInStream, VisitNext, ReadRest, Return, MaterializeModule, Materialize, Entering, Idle
<1>3. QED BY <1>1, <1>2, ShownStays

(* At the end of a body its function appears, as it was written; ...       *)
LEMMA FunctionAppears ==
  ASSUME NEW s, WellFormed(s), items = s, doc.written = Written(s), InOrderOf(s), InOrderOf(s)', EndFunctionBody
  PROVE  \E f \in DOMAIN doc.written :
           /\ attached /\ Shown[f] = Absent /\ Shown' = [Shown EXCEPT ![f] = doc.written[f]]
           /\ UNCHANGED <<doc.written, attached>>
<1>1. body # None /\ (Last(values).arg => error')
  BY DEF EndFunctionBody
<1>2. ~error'
  BY DEF InOrderOf
<1>3. /\ materializable' = materializable \ {func} /\ phase' = "done"
      /\ UNCHANGED <<doc, blocks, attached>>
  BY <1>1, <1>2 DEF EndFunctionBody
<1>4. phase = "find" /\ func \in WithBody(s) /\ func \in materializable
  BY <1>1, BodyFacts
<1>5. attached
  BY <1>4 DEF InOrderOf, CallInOrder
<1>6. blocks'[func] = WrittenBody(s, func)
  <2>1. FunctionsWhole(s)'
    BY DEF InOrderOf
  <2>2. phase' # "load" /\ func \notin materializable' /\ func' = func
    BY <1>3 DEF EndFunctionBody
  <2>3. QED BY ONLY <1>4, <2>1, <2>2, Zenon DEF FunctionsWhole
<1>7. doc.written[func] = WrittenBody(s, func) /\ func \in DOMAIN doc.written
  BY <1>4 DEF Written
<1>8. items' = s
  BY <1>3 DEF items
<1>9. Shown = [f \in WithBody(s) |-> IF f \in materializable THEN Absent ELSE blocks[f]]
  BY <1>4 DEF Shown
<1>10. Shown' = [f \in WithBody(s) |-> IF f \in materializable' THEN Absent ELSE blocks'[f]]
  BY <1>3, <1>8 DEF Shown
<1>11. Shown[func] = Absent
  BY ONLY <1>4, <1>9
<1>12. Shown' = [Shown EXCEPT ![func] = doc.written[func]]
  <2> DEFINE w == doc.written[func]
  <2>1. \A f \in WithBody(s) :
          (IF f \in materializable' THEN Absent ELSE blocks'[f])
            = IF f = func THEN w ELSE IF f \in materializable THEN Absent ELSE blocks[f]
    BY ONLY <1>3, <1>6, <1>7
  <2> HIDE DEF w
  <2>2. Shown' = [Shown EXCEPT ![func] = w]
    BY ONLY <1>4, <1>9, <1>10, <2>1
  <2>3. QED BY ONLY <2>2 DEF w
<1>13. QED BY <1>3, <1>5, <1>7, <1>11, <1>12

(* ... and when the module lets go, all functions have.                    *)
LEMMA AllHaveAppeared ==
  ASSUME NEW s, WellFormed(s), items = s, doc \in Documents, doc.written = Written(s), InOrderOf(s), LetGo
  PROVE  attached /\ Shown = doc.written /\ attached' = FALSE /\ UNCHANGED <<doc.written, Shown>>
<1>1. /\ phase \in {"last", "done"} /\ phase' = "idle" /\ attached' = FALSE
      /\ UNCHANGED <<doc, materializable, blocks>>
  BY DEF LetGo, tables
<1>2. CallInOrder(s) /\ FunctionsWhole(s)
  BY DEF InOrderOf
<1>3. attached
  BY <1>1, <1>2 DEF CallInOrder
<1>4. todo = << >> /\ phase \notin {"find", "search", "load"}
  BY <1>1, <1>2 DEF LetGo, CallInOrder
<1>5. todo # None
  <2>1. << >> \in Seq(Functions(doc.items))
    OBVIOUS
  <2>2. QED BY ONLY <1>4, <2>1, doc \in Documents, NoneAssumption
<1>6. materializable = {}
  <2>1. \A f \in materializable : Has(todo, f)
    BY ONLY <1>2, <1>4, <1>5 DEF CallInOrder
  <2>2. \A f : ~Has(todo, f)
    BY <1>4 DEF Has
  <2>3. QED BY <2>1, <2>2
<1>7. \A f \in WithBody(s) : blocks[f] = WrittenBody(s, f)
  BY ONLY <1>2, <1>4, <1>6, Zenon DEF FunctionsWhole
<1>8. Shown = [f \in WithBody(s) |-> blocks[f]]
  BY <1>4, <1>6 DEF Shown
<1>9. Shown = doc.written
  <2>1. doc.written = [f \in WithBody(s) |-> WrittenBody(s, f)]
    BY DEF Written
  <2>2. QED BY ONLY <1>7, <1>8, <2>1
<1>10. Shown' = Shown
  <2>1. items' = s
    BY <1>1 DEF items
  <2>2. Shown' = [f \in WithBody(s) |-> blocks[f]]
    BY <1>1, <1>6, <2>1 DEF Shown
  <2>3. QED BY ONLY <1>8, <2>2
<1>11. QED BY <1>1, <1>3, <1>9, <1>10

(* Each step of the reader is one of LazyModule, or none.                  *)
LEMMA StepImplements ==
  ASSUME IInv, IInv', [Next]_vars
  PROVE  [Loaded!LoadNext]_<<doc.written, Shown, attached>>
<1>1. PICK d \in Documents : doc = d /\ lazy \in BOOLEAN /\ InOrderOf(d.items)
  BY DEF IInv
<1> DEFINE s == d.items
<1>2. WellFormed(s) /\ items = s /\ InOrderOf(s) /\ doc \in Documents /\ doc.written = Written(s)
  BY <1>1, DocumentAssumption DEF items
<1>3. InOrderOf(s)'
  <2>1. doc' = d
    BY <1>1, DocumentStays
  <2>2. QED BY <2>1 DEF IInv
<1> HIDE DEF s
<1>4. CASE EndFunctionBody
  BY <1>2, <1>3, <1>4, FunctionAppears DEF Loaded!LoadNext, Loaded!Appear, Shown
<1>5. CASE LetGo
  BY <1>2, <1>5, AllHaveAppeared DEF Loaded!LoadNext, Loaded!LetGo, Shown
<1>6. CASE ParseModule
  BY <1>2, <1>6, ShownByModule
<1>7. CASE ParseFunctionBody /\ ~EndFunctionBody
  BY <1>2, <1>7, ShownInBody
<1>8. CASE \/ FindFunctionInStream \/ VisitNext \/ ReadRest \/ Return \/ MaterializeModule
           \/ \E f \in Functions(s) : Materialize(f)
  BY <1>2, <1>8, ShownByCalls
<1>9. CASE UNCHANGED vars
  <2>1. UNCHANGED <<doc, phase, materializable, blocks, attached>>
    BY <1>9 DEF vars, tables, calls
  <2>2. QED BY <1>2, <2>1, ShownStays
<1>10. QED BY <1>2, <1>4, <1>5, <1>6, <1>7, <1>8, <1>9 DEF Next, Run

(***************************************************************************)
(* Lazy loading keeps the promise of LazyModule: each function appears at  *)
(* once, whole and as it was written, in whatever order the client asks,   *)
(* and the module lets go of its materializer when all have                *)
(* (ParseFunctionBody and MaterializeModule).                              *)
(***************************************************************************)
THEOREM ImplementsLazyModuleHolds == Spec => ImplementsLazyModule
<1>1. Init => Loaded!LoadInit
  <2> SUFFICES ASSUME Init PROVE Loaded!LoadInit
    OBVIOUS
  <2>1. doc \in Documents /\ phase = "load" /\ attached = TRUE
    BY DEF Init
  <2>2. doc.written = Written(items) /\ DOMAIN doc.written = WithBody(items)
    BY <2>1, DocumentAssumption DEF items, Written
  <2>3. QED BY <2>1, <2>2 DEF Loaded!LoadInit
<1>2. QED
  BY <1>1, InOrderAlways, StepImplements, PTL DEF Spec, ImplementsLazyModule, Loaded!LoadSpec, Shown
=============================================================================
