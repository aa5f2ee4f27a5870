---------------------------- MODULE MetadataProofs ----------------------------
(***************************************************************************)
(* UsesTracked and NodesUnique of Metadata, for any values, functions and  *)
(* calls, and SlotsMean when a MetadataAsValue is told of a change once.   *)
(***************************************************************************)
EXTENDS Metadata, SequenceProofs, SequenceTheorems

(***************************************************************************)
(* The sets that the fields of heap are drawn from.                        *)
(***************************************************************************)
Refs   == {Nil} \cup ({"node", "vam"} \X Nat)
Slots  == {"op", "mav"} \X Nat \X Nat
Uses   == [slot : Slots, owned : BOOLEAN]
VamSet == [val : Values \cup {Null}, live : BOOLEAN, uses : Seq(Uses)]
Nodes  == [storage : {"uniqued", "distinct"}, ops : Seq(Refs)]
Mavs   == [md : Refs, live : BOOLEAN]
Partial(D, R) == UNION {[E -> R] : E \in SUBSET D}
Heaps  == [vams : Seq(VamSet), byValue : Partial(Values, Nat), usedByMd : SUBSET Values,
           nodes : Seq(Nodes), store : Partial(Seq(Refs), Nat),
           mavs : Seq(Mavs), byMd : Partial(Refs, Nat), calls : [Calls -> Nat],
           live : SUBSET Values, changes : Nat]

(* What there is to be referred to.                                        *)
Known(h, md) ==
  /\ md[1] = "vam" => md[2] \in DOMAIN h.vams /\ h.vams[md[2]].live
  /\ md[1] = "node" => md[2] \in DOMAIN h.nodes

AllSlots(h) == OpSlots(h) \cup {MavSlot(m) : m \in DOMAIN h.mavs}

(***************************************************************************)
(* Of the slots in S, those that refer to a value are its uses, once each. *)
(***************************************************************************)
Once(uses)    == \A i, j \in DOMAIN uses : uses[i].slot = uses[j].slot => i = j
SlotsIn(uses) == {uses[i].slot : i \in DOMAIN uses}
Among(uses)   == {uses[i] : i \in DOMAIN uses}
UsesKept(h, S) ==
  \A k \in DOMAIN h.vams :
    Once(h.vams[k].uses) /\ SlotsIn(h.vams[k].uses) = {s \in S : Content(h, s) = Vam(k)}

(* A use without an owner is an operand of a distinct node.                *)
OwnedAs(h, use) == ~ use.owned => use.slot[1] = "op" /\ h.nodes[use.slot[2]].storage = "distinct"
Owned(h) == \A k \in DOMAIN h.vams : \A use \in Among(h.vams[k].uses) : OwnedAs(h, use)

(* A uniqued node is found under its operands.                             *)
UniqueNode(h, n) ==
  h.nodes[n].storage = "uniqued" => h.nodes[n].ops \in DOMAIN h.store /\ h.store[h.nodes[n].ops] = n
Unique(h) == \A n \in DOMAIN h.nodes : UniqueNode(h, n)

(* What the store finds had those operands, or other ones in their place.  *)
Stored(h) ==
  \A ops \in DOMAIN h.store : h.store[ops] \in DOMAIN h.nodes /\ DOMAIN h.nodes[h.store[ops]].ops = DOMAIN ops

(***************************************************************************)
(* What wraps metadata is found under what it wraps, but for the one that  *)
(* a change has entered under no metadata.                                 *)
(***************************************************************************)
Wrapped(h) ==
  /\ \A md \in DOMAIN h.byMd : /\ h.byMd[md] \in DOMAIN h.mavs /\ h.mavs[h.byMd[md]].live
                               /\ md # Nil => h.mavs[h.byMd[md]].md = md
  /\ \A c \in Calls : h.calls[c] # 0 => h.calls[c] \in DOMAIN h.mavs
  /\ Nil \in DOMAIN h.byMd => h.changes > 0
  /\ \A m \in DOMAIN h.mavs : ~ h.mavs[m].live => h.mavs[m].md = Nil

Linked(h) ==
  /\ h \in Heaps
  /\ \A s \in AllSlots(h) : Known(h, Content(h, s))
  /\ UsesKept(h, AllSlots(h)) /\ Owned(h) /\ Unique(h) /\ Stored(h)

Tracked(h) == Linked(h) /\ Wrapped(h)

(* A value and what wraps it are found from one another.                   *)
Mapped(h) ==
  /\ h.usedByMd \cap h.live = DOMAIN h.byValue
  /\ \A v \in DOMAIN h.byValue : /\ h.byValue[v] \in DOMAIN h.vams /\ h.vams[h.byValue[v]].live
                                 /\ h.vams[h.byValue[v]].val = v
  /\ \A k \in DOMAIN h.vams : h.vams[k].live => h.vams[k].val \in DOMAIN h.byValue /\ h.byValue[h.vams[k].val] = k

IInv == Tracked(heap) /\ Mapped(heap)

-----------------------------------------------------------------------------
(* What two heaps have in common.                                          *)
SameVams(h, g) ==
  DOMAIN g.vams = DOMAIN h.vams /\ \A k \in DOMAIN h.vams : g.vams[k].val = h.vams[k].val /\ g.vams[k].live = h.vams[k].live
SameMap(h, g)   == g.byValue = h.byValue /\ g.usedByMd = h.usedByMd /\ g.live = h.live
SameNodes(h, g) == g.nodes = h.nodes /\ g.store = h.store
SameMavs(h, g)  == g.mavs = h.mavs /\ g.byMd = h.byMd /\ g.calls = h.calls /\ g.changes = h.changes

OnlyUses(h, g) == g \in Heaps /\ SameVams(h, g) /\ SameMap(h, g) /\ SameNodes(h, g) /\ SameMavs(h, g)

-----------------------------------------------------------------------------
(***************************************************************************)
(* References and slots.                                                   *)
(***************************************************************************)
LEMMA Shapes ==
  /\ Nil[1] = "null" /\ Nil \in Refs
  /\ \A n : Node(n)[1] = "node" /\ Node(n)[2] = n /\ (n \in Nat => Node(n) \in Refs)
  /\ \A k : Vam(k)[1] = "vam" /\ Vam(k)[2] = k /\ (k \in Nat => Vam(k) \in Refs)
  /\ \A n, i : OpSlot(n, i)[1] = "op" /\ OpSlot(n, i)[2] = n /\ OpSlot(n, i)[3] = i
  /\ \A m : MavSlot(m)[1] = "mav" /\ MavSlot(m)[2] = m
  /\ \A md \in Refs : /\ md[1] \in {"null", "node", "vam"}
                      /\ md[1] = "null" <=> md = Nil
                      /\ md[1] = "node" => md = Node(md[2]) /\ md[2] \in Nat
                      /\ md[1] = "vam" => md = Vam(md[2]) /\ md[2] \in Nat
BY DEF Nil, Node, Vam, OpSlot, MavSlot, Refs

(* A function on a part of a set.                                          *)
LEMMA PartialIs ==
  ASSUME NEW D, NEW R, NEW f
  PROVE  f \in Partial(D, R) <=> DOMAIN f \subseteq D /\ f \in [DOMAIN f -> R]
<1>1. ASSUME f \in Partial(D, R) PROVE DOMAIN f \subseteq D /\ f \in [DOMAIN f -> R]
  BY <1>1 DEF Partial
<1>2. ASSUME DOMAIN f \subseteq D, f \in [DOMAIN f -> R] PROVE f \in Partial(D, R)
  <2>1. DOMAIN f \in SUBSET D
    BY <1>2
  <2>2. QED BY <1>2, <2>1 DEF Partial
<1>3. QED BY <1>1, <1>2

(* An entry is made, and one is taken out.                                 *)
LEMMA EnterTyped ==
  ASSUME NEW D, NEW R, NEW f \in Partial(D, R), NEW x \in D, NEW y \in R
  PROVE  Enter(f, x, y) \in Partial(D, R)
<1> DEFINE g == Enter(f, x, y)
<1>1. DOMAIN f \subseteq D /\ f \in [DOMAIN f -> R]
  BY PartialIs
<1>2. DOMAIN g \subseteq D /\ g \in [DOMAIN g -> R]
  BY <1>1 DEF Enter
<1> HIDE DEF g
<1>3. g \in Partial(D, R)
  BY <1>2, PartialIs
<1>4. QED BY <1>3 DEF g

(* An entry is taken out.                                                  *)
LEMMA LeaveTyped ==
  ASSUME NEW D, NEW R, NEW f \in Partial(D, R), NEW x
  PROVE  [z \in DOMAIN f \ {x} |-> f[z]] \in Partial(D, R)
<1> DEFINE g == [z \in DOMAIN f \ {x} |-> f[z]]
<1>1. DOMAIN f \subseteq D /\ f \in [DOMAIN f -> R]
  BY PartialIs
<1>2. DOMAIN g \subseteq D /\ g \in [DOMAIN g -> R]
  BY <1>1
<1> HIDE DEF g
<1>3. g \in Partial(D, R)
  BY <1>2, PartialIs
<1>4. QED BY <1>3 DEF g

(***************************************************************************)
(* The fields of a heap.                                                   *)
(***************************************************************************)
LEMMA HeapFacts ==
  ASSUME NEW h \in Heaps
  PROVE  /\ h.vams \in Seq(VamSet) /\ \A k \in DOMAIN h.vams :
              k \in Nat /\ h.vams[k] \in VamSet /\ h.vams[k].uses \in Seq(Uses)
         /\ h.nodes \in Seq(Nodes) /\ \A n \in DOMAIN h.nodes :
              n \in Nat /\ h.nodes[n] \in Nodes /\ h.nodes[n].ops \in Seq(Refs) /\ h.nodes[n].storage \in {"uniqued", "distinct"}
         /\ h.mavs \in Seq(Mavs) /\ \A m \in DOMAIN h.mavs : m \in Nat /\ h.mavs[m] \in Mavs /\ h.mavs[m].md \in Refs
         /\ h.byValue \in Partial(Values, Nat) /\ h.store \in Partial(Seq(Refs), Nat) /\ h.byMd \in Partial(Refs, Nat)
         /\ h.usedByMd \subseteq Values /\ h.live \subseteq Values /\ h.calls \in [Calls -> Nat] /\ h.changes \in Nat
<1>1. /\ h.vams \in Seq(VamSet) /\ h.nodes \in Seq(Nodes) /\ h.mavs \in Seq(Mavs)
      /\ h.byValue \in Partial(Values, Nat) /\ h.store \in Partial(Seq(Refs), Nat) /\ h.byMd \in Partial(Refs, Nat)
      /\ h.usedByMd \subseteq Values /\ h.live \subseteq Values /\ h.calls \in [Calls -> Nat] /\ h.changes \in Nat
  BY DEF Heaps
<1>2. ASSUME NEW k \in DOMAIN h.vams PROVE k \in Nat /\ h.vams[k] \in VamSet /\ h.vams[k].uses \in Seq(Uses)
  <2>1. k \in Nat /\ h.vams[k] \in VamSet
    BY <1>1
  <2>2. QED BY <2>1 DEF VamSet
<1>3. ASSUME NEW n \in DOMAIN h.nodes
      PROVE  n \in Nat /\ h.nodes[n] \in Nodes /\ h.nodes[n].ops \in Seq(Refs) /\ h.nodes[n].storage \in {"uniqued", "distinct"}
  <2>1. n \in Nat /\ h.nodes[n] \in Nodes
    BY <1>1
  <2>2. QED BY <2>1 DEF Nodes
<1>4. ASSUME NEW m \in DOMAIN h.mavs PROVE m \in Nat /\ h.mavs[m] \in Mavs /\ h.mavs[m].md \in Refs
  <2>1. m \in Nat /\ h.mavs[m] \in Mavs
    BY <1>1
  <2>2. QED BY <2>1 DEF Mavs
<1>5. QED BY <1>1, <1>2, <1>3, <1>4

(* Slots are operands of nodes and what is wrapped.                        *)
LEMMA SlotFacts ==
  ASSUME NEW h \in Heaps
  PROVE  /\ \A s : s \in AllSlots(h) <=> \/ \E n \in DOMAIN h.nodes : \E i \in DOMAIN h.nodes[n].ops : s = OpSlot(n, i)
                                         \/ \E m \in DOMAIN h.mavs : s = MavSlot(m)
         /\ \A s \in AllSlots(h) : /\ Content(h, s) \in Refs /\ s \in Slots /\ s[1] \in {"op", "mav"}
                                   /\ s[1] = "op" => s = OpSlot(s[2], s[3]) /\ s[2] \in DOMAIN h.nodes /\ s[3] \in DOMAIN h.nodes[s[2]].ops
                                   /\ s[1] = "mav" => s = MavSlot(s[2]) /\ s[2] \in DOMAIN h.mavs
         /\ \A n, i : Content(h, OpSlot(n, i)) = h.nodes[n].ops[i]
         /\ \A m : Content(h, MavSlot(m)) = h.mavs[m].md
<1>1. \A s : s \in AllSlots(h) <=> \/ \E n \in DOMAIN h.nodes : \E i \in DOMAIN h.nodes[n].ops : s = OpSlot(n, i)
                                   \/ \E m \in DOMAIN h.mavs : s = MavSlot(m)
  BY DEF AllSlots, OpSlots
<1>2. (\A n, i : Content(h, OpSlot(n, i)) = h.nodes[n].ops[i]) /\ (\A m : Content(h, MavSlot(m)) = h.mavs[m].md)
  BY Shapes DEF Content
<1>3. ASSUME NEW n \in DOMAIN h.nodes, NEW i \in DOMAIN h.nodes[n].ops
      PROVE  Content(h, OpSlot(n, i)) \in Refs /\ OpSlot(n, i) \in Slots
  <2>1. n \in Nat /\ h.nodes[n].ops \in Seq(Refs)
    BY HeapFacts
  <2>2. i \in Nat /\ h.nodes[n].ops[i] \in Refs
    BY <2>1
  <2>3. QED BY <1>2, <2>1, <2>2 DEF OpSlot, Slots
<1>4. ASSUME NEW m \in DOMAIN h.mavs PROVE Content(h, MavSlot(m)) \in Refs /\ MavSlot(m) \in Slots
  <2>1. m \in Nat /\ h.mavs[m].md \in Refs
    BY HeapFacts
  <2>2. QED BY <1>2, <2>1 DEF MavSlot, Slots
<1>5. QED BY <1>1, <1>2, <1>3, <1>4, Shapes
-----------------------------------------------------------------------------
(***************************************************************************)
(* The use of a slot is taken out, and one is added.                       *)
(***************************************************************************)
LEMMA WithoutFacts ==
  ASSUME NEW uses \in Seq(Uses), NEW s, Once(uses)
  PROVE  /\ Without(uses, s) \in Seq(Uses) /\ Once(Without(uses, s))
         /\ SlotsIn(Without(uses, s)) = SlotsIn(uses) \ {s}
         /\ Among(Without(uses, s)) = {use \in Among(uses) : use.slot # s}
<1> DEFINE N == Len(uses)
           w == Without(uses, s)
<1>1. N \in Nat /\ DOMAIN uses = 1 .. N
  OBVIOUS
<1>2. CASE ~ \E i \in 1 .. N : uses[i].slot = s
  <2>1. w = uses
    BY <1>2 DEF Without, RemoveFirstMatch
  <2>2. s \notin SlotsIn(uses)
    BY <1>1, <1>2 DEF SlotsIn
  <2>3. \A use \in Among(uses) : use.slot # s
    BY <1>1, <1>2 DEF Among
  <2> HIDE DEF w
  <2>4. QED BY <2>1, <2>2, <2>3 DEF w
<1>3. CASE \E i \in 1 .. N : uses[i].slot = s
  <2>1. PICK p \in 1 .. N : uses[p].slot = s
    BY <1>3
  <2>2. \A i \in 1 .. N : uses[i].slot = s => i = p
    BY <1>1, <2>1 DEF Once
  <2>3. w = RemoveAt(uses, p)
    <3>1. {i \in 1 .. Len(uses) : uses[i].slot = s} = {p}
      BY <2>1, <2>2
    <3>2. Min({p}) = p
      BY DEF Min
    <3>3. SelectInSeq(uses, LAMBDA use : use.slot = s) = p
      BY <3>1, <3>2 DEF SelectInSeq
    <3>4. QED BY <1>3, <3>3 DEF Without, RemoveFirstMatch
  <2>4. w \in Seq(Uses) /\ Len(w) = N - 1 /\ \A i \in 1 .. N - 1 : w[i] = IF i <= p - 1 THEN uses[i] ELSE uses[i + 1]
    <3> DEFINE a == SubSeq(uses, 1, p - 1)
               b == SubSeq(uses, p + 1, N)
    <3>1. w = a \o b
      BY <2>3 DEF RemoveAt
    <3>2. a \in Seq(Uses) /\ Len(a) = p - 1 /\ \A i \in 1 .. p - 1 : a[i] = uses[i]
      BY <1>1
    <3>3. b \in Seq(Uses) /\ Len(b) = N - p /\ \A i \in 1 .. N - p : b[i] = uses[p + i]
      OBVIOUS
    <3> HIDE DEF a, b, w, N
    <3>4. p \in 1 .. N /\ N \in Nat
      BY <1>1
    <3>5. w \in Seq(Uses) /\ Len(w) = N - 1
      BY ONLY <3>1, <3>2, <3>3, <3>4
    <3>6. ASSUME NEW i \in 1 .. N - 1 PROVE w[i] = IF i <= p - 1 THEN uses[i] ELSE uses[i + 1]
      <4>1. CASE i <= p - 1
        BY ONLY <3>1, <3>2, <3>3, <3>4, <4>1
      <4>2. CASE ~ (i <= p - 1)
        <5>1. i - (p - 1) \in 1 .. N - p /\ p + (i - (p - 1)) = i + 1
          BY ONLY <3>4, <4>2
        <5>2. w[i] = b[i - (p - 1)]
          BY ONLY <3>1, <3>2, <3>3, <3>4, <4>2, SMTT(20)
        <5>3. QED BY <3>3, <4>2, <5>1, <5>2
      <4>3. QED BY <4>1, <4>2
    <3>7. QED BY <3>5, <3>6
  <2> HIDE DEF w, N
  <2>5. N \in Nat /\ DOMAIN uses = 1 .. N /\ p \in 1 .. N /\ DOMAIN w = 1 .. N - 1
    BY <1>1, <2>4
  <2> DEFINE to(i) == IF i <= p - 1 THEN i ELSE i + 1
  <2>6. \A i \in DOMAIN w : to(i) \in DOMAIN uses /\ to(i) # p /\ w[i] = uses[to(i)]
    BY ONLY <2>4, <2>5
  <2>7. \A i, j \in DOMAIN w : to(i) = to(j) => i = j
    BY ONLY <2>5
  <2>8. \A j \in DOMAIN uses : j # p => \E i \in DOMAIN w : to(i) = j
    <3> SUFFICES ASSUME NEW j \in DOMAIN uses, j # p PROVE \E i \in DOMAIN w : to(i) = j
      OBVIOUS
    <3>1. CASE j <= p - 1
      <4>1. j \in DOMAIN w /\ to(j) = j
        BY ONLY <2>5, <3>1, j \in DOMAIN uses
      <4>2. QED BY <4>1
    <3>2. CASE ~ (j <= p - 1)
      <4>1. j - 1 \in DOMAIN w /\ to(j - 1) = j
        BY ONLY <2>5, <3>2, j \in DOMAIN uses, j # p
      <4>2. QED BY <4>1
    <3>3. QED BY <3>1, <3>2
  <2> HIDE DEF to
  <2>9. Once(w)
    BY ONLY <2>6, <2>7, Once(uses) DEF Once
  <2>10. SlotsIn(w) = SlotsIn(uses) \ {s}
    BY ONLY <2>1, <2>2, <2>5, <2>6, <2>8 DEF SlotsIn
  <2>11. Among(w) = {use \in Among(uses) : use.slot # s}
    <3>1. \A i \in DOMAIN w : w[i] \in Among(uses) /\ w[i].slot # s
      BY <2>2, <2>5, <2>6 DEF Among
    <3>2. \A j \in DOMAIN uses : uses[j].slot # s => \E i \in DOMAIN w : w[i] = uses[j]
      BY <2>1, <2>6, <2>8
    <3>3. QED BY ONLY <3>1, <3>2 DEF Among
  <2>12. QED BY <2>4, <2>9, <2>10, <2>11 DEF w
<1>4. QED BY <1>2, <1>3

(* The use of a slot is added.                                             *)
LEMMA WithFacts ==
  ASSUME NEW uses \in Seq(Uses), NEW use \in Uses, Once(uses), use.slot \notin SlotsIn(uses)
  PROVE  /\ Append(uses, use) \in Seq(Uses) /\ Once(Append(uses, use))
         /\ SlotsIn(Append(uses, use)) = SlotsIn(uses) \cup {use.slot}
         /\ Among(Append(uses, use)) = Among(uses) \cup {use}
<1> DEFINE N == Len(uses)
           a == Append(uses, use)
<1>1. N \in Nat /\ DOMAIN uses = 1 .. N /\ DOMAIN a = 1 .. N + 1 /\ a[N + 1] = use /\ \A i \in 1 .. N : a[i] = uses[i]
  OBVIOUS
<1>2. a \in Seq(Uses)
  OBVIOUS
<1> HIDE DEF a, N
<1>3. \A i \in 1 .. N + 1 : i = N + 1 \/ i \in 1 .. N
  BY ONLY <1>1
<1>4. \A i \in 1 .. N : uses[i].slot # use.slot
  BY <1>1 DEF SlotsIn
<1>5. Once(a)
  <2>1. N + 1 \in 1 .. N + 1 /\ 1 .. N \subseteq 1 .. N + 1
    BY ONLY <1>1
  <2>2. QED BY ONLY <1>1, <1>3, <1>4, <2>1, Once(uses) DEF Once
<1>6. SlotsIn(a) = SlotsIn(uses) \cup {use.slot}
  <2>1. N + 1 \in 1 .. N + 1 /\ 1 .. N \subseteq 1 .. N + 1
    BY ONLY <1>1
  <2>2. QED BY ONLY <1>1, <1>3, <2>1 DEF SlotsIn
<1>7. Among(a) = Among(uses) \cup {use}
  <2>1. N + 1 \in 1 .. N + 1 /\ 1 .. N \subseteq 1 .. N + 1
    BY ONLY <1>1
  <2>2. QED BY ONLY <1>1, <1>3, <2>1 DEF Among
<1>8. QED BY <1>2, <1>5, <1>6, <1>7 DEF a

(***************************************************************************)
(* Nothing but the uses of one ValueAsMetadata changes.                    *)
(***************************************************************************)
LEMMA UsesSet ==
  ASSUME NEW h \in Heaps, NEW k \in DOMAIN h.vams, NEW uses \in Seq(Uses)
  PROVE  LET g == [h EXCEPT !.vams[k].uses = uses]
         IN  OnlyUses(h, g) /\ g.vams[k].uses = uses /\ \A j \in DOMAIN h.vams : j # k => g.vams[j].uses = h.vams[j].uses
<1> DEFINE vams == [h.vams EXCEPT ![k].uses = uses]
           g == [h EXCEPT !.vams[k].uses = uses]
<1>1. h.vams \in Seq(VamSet) /\ h.vams[k] \in VamSet
  BY HeapFacts
<1>2. g = [h EXCEPT !.vams = vams]
  OBVIOUS
<1>3. [h.vams[k] EXCEPT !.uses = uses] \in VamSet
  BY <1>1 DEF VamSet
<1>4. /\ vams \in Seq(VamSet) /\ DOMAIN vams = DOMAIN h.vams /\ vams[k] = [h.vams[k] EXCEPT !.uses = uses]
      /\ \A j \in DOMAIN h.vams : j # k => vams[j] = h.vams[j]
  <2>1. vams = [h.vams EXCEPT ![k] = [h.vams[k] EXCEPT !.uses = uses]]
    OBVIOUS
  <2>2. QED BY ONLY <1>1, <1>3, <2>1, k \in DOMAIN h.vams
<1> HIDE DEF vams
<1>5. /\ g \in Heaps /\ g.vams = vams /\ SameMap(h, g) /\ SameNodes(h, g) /\ SameMavs(h, g)
  BY <1>2, <1>4 DEF Heaps, SameMap, SameNodes, SameMavs
<1> HIDE DEF g
<1>6. vams[k].uses = uses /\ vams[k].val = h.vams[k].val /\ vams[k].live = h.vams[k].live
  BY <1>1, <1>4 DEF VamSet
<1>7. SameVams(h, g)
  BY ONLY <1>4, <1>5, <1>6 DEF SameVams
<1>8. OnlyUses(h, g) /\ g.vams[k].uses = uses /\ \A j \in DOMAIN h.vams : j # k => g.vams[j].uses = h.vams[j].uses
  BY <1>4, <1>5, <1>6, <1>7 DEF OnlyUses
<1>9. QED BY <1>8 DEF g

(* Two heaps whose slots are the same.                                     *)
LEMMA SameContent ==
  ASSUME NEW h, NEW g, g.nodes = h.nodes, g.mavs = h.mavs
  PROVE  AllSlots(g) = AllSlots(h) /\ \A s : Content(g, s) = Content(h, s)
BY DEF AllSlots, OpSlots, Content

(* What is referred to stays when values are only tracked.                 *)
LEMMA SameKnown ==
  ASSUME NEW h, NEW g, SameVams(h, g), DOMAIN g.nodes = DOMAIN h.nodes
  PROVE  \A md : Known(g, md) <=> Known(h, md)
BY DEF SameVams, Known

(***************************************************************************)
(* A slot is no longer tracked: of the other slots the uses are kept.      *)
(***************************************************************************)
LEMMA UntrackFacts ==
  ASSUME NEW h \in Heaps, NEW S, UsesKept(h, S), NEW s, Content(h, s) \in Refs,
         Content(h, s)[1] = "vam" => Content(h, s)[2] \in DOMAIN h.vams
  PROVE  /\ OnlyUses(h, Untrack(h, s)) /\ UsesKept(Untrack(h, s), S \ {s})
         /\ \A k \in DOMAIN h.vams : Among(Untrack(h, s).vams[k].uses) = {use \in Among(h.vams[k].uses) : use.slot # s}
<1> DEFINE md == Content(h, s)
           g == Untrack(h, s)
           k == md[2]
           w == Without(h.vams[k].uses, s)
<1>1. ASSUME NEW j \in DOMAIN h.vams, md # Vam(j) PROVE s \notin SlotsIn(h.vams[j].uses)
  BY <1>1 DEF UsesKept
<1>2. ASSUME NEW j \in DOMAIN h.vams, md # Vam(j)
      PROVE  /\ SlotsIn(h.vams[j].uses) = {t \in S \ {s} : Content(h, t) = Vam(j)} /\ Once(h.vams[j].uses)
             /\ Among(h.vams[j].uses) = {use \in Among(h.vams[j].uses) : use.slot # s}
  <2>1. \A use \in Among(h.vams[j].uses) : use.slot # s
    BY <1>1, <1>2 DEF SlotsIn, Among
  <2>2. QED BY <1>1, <1>2, <2>1 DEF UsesKept
<1>3. CASE md[1] # "vam"
  <2>1. g = h
    BY <1>3 DEF Untrack
  <2>2. \A j : md # Vam(j)
    BY <1>3, Shapes
  <2> HIDE DEF g, md
  <2>3. OnlyUses(h, g)
    BY <2>1 DEF OnlyUses, SameVams, SameMap, SameNodes, SameMavs
  <2>4. QED BY <1>2, <2>1, <2>2, <2>3 DEF UsesKept, g
<1>4. CASE md[1] = "vam"
  <2>1. k \in DOMAIN h.vams /\ md = Vam(k) /\ \A j : j # k => md # Vam(j)
    BY <1>4, Shapes
  <2>2. g = [h EXCEPT !.vams[k].uses = w]
    BY <1>4 DEF Untrack
  <2>3. h.vams[k].uses \in Seq(Uses) /\ Once(h.vams[k].uses) /\ SlotsIn(h.vams[k].uses) = {t \in S : Content(h, t) = Vam(k)}
    BY <2>1, HeapFacts DEF UsesKept
  <2>4. w \in Seq(Uses) /\ Once(w) /\ SlotsIn(w) = SlotsIn(h.vams[k].uses) \ {s} /\ Among(w) = {use \in Among(h.vams[k].uses) : use.slot # s}
    BY <2>3, WithoutFacts
  <2> HIDE DEF g, w, md, k
  <2>5. OnlyUses(h, g) /\ g.vams[k].uses = w /\ \A j \in DOMAIN h.vams : j # k => g.vams[j].uses = h.vams[j].uses
    BY <2>1, <2>2, <2>4, UsesSet
  <2>6. \A t : Content(g, t) = Content(h, t)
    BY <2>5, SameContent DEF OnlyUses, SameNodes, SameMavs
  <2>7. DOMAIN g.vams = DOMAIN h.vams
    BY <2>5 DEF OnlyUses, SameVams
  <2>8. UsesKept(g, S \ {s})
    BY <1>2, <2>1, <2>3, <2>4, <2>5, <2>6, <2>7 DEF UsesKept
  <2>9. \A j \in DOMAIN h.vams : Among(g.vams[j].uses) = {use \in Among(h.vams[j].uses) : use.slot # s}
    BY <1>2, <2>1, <2>4, <2>5
  <2>10. QED BY <2>5, <2>8, <2>9 DEF g
<1>5. QED BY <1>3, <1>4

(***************************************************************************)
(* A slot is tracked: of it too the uses are kept.                         *)
(***************************************************************************)
LEMMA TrackFacts ==
  ASSUME NEW h \in Heaps, NEW S, UsesKept(h, S), NEW s \in Slots, s \notin S, NEW owned \in BOOLEAN,
         Content(h, s) \in Refs, Content(h, s)[1] = "vam" => Content(h, s)[2] \in DOMAIN h.vams
  PROVE  /\ OnlyUses(h, Track(h, s, owned)) /\ UsesKept(Track(h, s, owned), S \cup {s})
         /\ \A k \in DOMAIN h.vams :
              \/ Among(Track(h, s, owned).vams[k].uses) = Among(h.vams[k].uses)
              \/ /\ Content(h, s) = Vam(k)
                 /\ Among(Track(h, s, owned).vams[k].uses) = Among(h.vams[k].uses) \cup {[slot |-> s, owned |-> owned]}
<1> DEFINE md == Content(h, s)
           g == Track(h, s, owned)
           k == md[2]
           u == [slot |-> s, owned |-> owned]
           w == Append(h.vams[k].uses, u)
<1>1. \A j \in DOMAIN h.vams : md # Vam(j) => {t \in S \cup {s} : Content(h, t) = Vam(j)} = {t \in S : Content(h, t) = Vam(j)}
  OBVIOUS
<1>2. CASE md[1] # "vam"
  <2>1. g = h
    BY <1>2 DEF Track
  <2>2. \A j : md # Vam(j)
    BY <1>2, Shapes
  <2> HIDE DEF g, md
  <2>3. OnlyUses(h, g)
    BY <2>1 DEF OnlyUses, SameVams, SameMap, SameNodes, SameMavs
  <2>4. UsesKept(g, S \cup {s})
    BY <1>1, <2>1, <2>2 DEF UsesKept
  <2>5. QED BY <2>1, <2>3, <2>4 DEF g
<1>3. CASE md[1] = "vam"
  <2>1. k \in DOMAIN h.vams /\ md = Vam(k) /\ \A j : j # k => md # Vam(j)
    BY <1>3, Shapes
  <2>2. g = [h EXCEPT !.vams[k].uses = w]
    BY <1>3 DEF Track
  <2>3. h.vams[k].uses \in Seq(Uses) /\ Once(h.vams[k].uses) /\ SlotsIn(h.vams[k].uses) = {t \in S : Content(h, t) = Vam(k)}
    BY <2>1, HeapFacts DEF UsesKept
  <2>4. u \in Uses /\ u.slot = s
    BY DEF Uses
  <2>5. w \in Seq(Uses) /\ Once(w) /\ SlotsIn(w) = SlotsIn(h.vams[k].uses) \cup {s} /\ Among(w) = Among(h.vams[k].uses) \cup {u}
    <3> HIDE DEF u, k
    <3>1. s \notin SlotsIn(h.vams[k].uses)
      BY <2>3
    <3>2. QED BY <2>3, <2>4, <3>1, WithFacts
  <2> HIDE DEF g, w, md, k, u
  <2>6. OnlyUses(h, g) /\ g.vams[k].uses = w /\ \A j \in DOMAIN h.vams : j # k => g.vams[j].uses = h.vams[j].uses
    BY <2>1, <2>2, <2>5, UsesSet
  <2>7. \A t : Content(g, t) = Content(h, t)
    BY <2>6, SameContent DEF OnlyUses, SameNodes, SameMavs
  <2>8. DOMAIN g.vams = DOMAIN h.vams
    BY <2>6 DEF OnlyUses, SameVams
  <2>9. SlotsIn(w) = {t \in S \cup {s} : Content(h, t) = Vam(k)}
    BY <2>1, <2>3, <2>5 DEF md
  <2>10. UsesKept(g, S \cup {s})
    BY <1>1, <2>1, <2>3, <2>5, <2>6, <2>7, <2>8, <2>9 DEF UsesKept
  <2>11. \A j \in DOMAIN h.vams :
           \/ Among(g.vams[j].uses) = Among(h.vams[j].uses)
           \/ md = Vam(j) /\ Among(g.vams[j].uses) = Among(h.vams[j].uses) \cup {u}
    BY <2>1, <2>5, <2>6
  <2>12. QED BY <2>6, <2>10, <2>11 DEF g, md, u
<1>4. QED BY <1>2, <1>3

-----------------------------------------------------------------------------
(***************************************************************************)
(* From h to g, no slot but s refers to something else, and nothing else   *)
(* has changed but uses.                                                   *)
(***************************************************************************)
SlotOnly(h, g, s) ==
  /\ g \in Heaps /\ SameVams(h, g) /\ SameMap(h, g)
  /\ g.store = h.store /\ g.byMd = h.byMd /\ g.calls = h.calls /\ g.changes = h.changes
  /\ DOMAIN g.nodes = DOMAIN h.nodes
  /\ \A n \in DOMAIN h.nodes : /\ g.nodes[n].storage = h.nodes[n].storage /\ DOMAIN g.nodes[n].ops = DOMAIN h.nodes[n].ops
                               /\ g.nodes[n] = h.nodes[n] \/ (s[1] = "op" /\ s[2] = n)
  /\ DOMAIN g.mavs = DOMAIN h.mavs
  /\ \A m \in DOMAIN h.mavs : g.mavs[m].live = h.mavs[m].live /\ (g.mavs[m] = h.mavs[m] \/ s = MavSlot(m))
  /\ AllSlots(g) = AllSlots(h) /\ \A t \in AllSlots(h) : t # s => Content(g, t) = Content(h, t)

(* A slot changes, and uses before or after it.                            *)
LEMMA SlotOnlyTwice ==
  ASSUME NEW h, NEW g, NEW f, NEW s
  PROVE  /\ OnlyUses(h, g) /\ SlotOnly(g, f, s) => SlotOnly(h, f, s)
         /\ SlotOnly(h, g, s) /\ OnlyUses(g, f) => SlotOnly(h, f, s)
<1>1. ASSUME OnlyUses(h, g), SlotOnly(g, f, s) PROVE SlotOnly(h, f, s)
  <2>1. AllSlots(g) = AllSlots(h) /\ \A t : Content(g, t) = Content(h, t)
    BY <1>1, SameContent DEF OnlyUses, SameNodes, SameMavs
  <2>2. SameVams(h, f) /\ SameMap(h, f)
    BY <1>1 DEF OnlyUses, SlotOnly, SameVams, SameMap
  <2>3. QED BY <1>1, <2>1, <2>2 DEF OnlyUses, SlotOnly, SameNodes, SameMavs
<1>2. ASSUME SlotOnly(h, g, s), OnlyUses(g, f) PROVE SlotOnly(h, f, s)
  <2>1. AllSlots(f) = AllSlots(g) /\ \A t : Content(f, t) = Content(g, t)
    BY <1>2, SameContent DEF OnlyUses, SameNodes, SameMavs
  <2>2. SameVams(h, f) /\ SameMap(h, f)
    BY <1>2 DEF OnlyUses, SlotOnly, SameVams, SameMap
  <2>3. QED BY <1>2, <2>1, <2>2 DEF OnlyUses, SlotOnly, SameNodes, SameMavs
<1>3. QED BY <1>1, <1>2

(* A slot is written.                                                      *)
LEMMA PutFacts ==
  ASSUME NEW h \in Heaps, NEW s \in AllSlots(h), NEW md \in Refs
  PROVE  SlotOnly(h, Put(h, s, md), s) /\ Content(Put(h, s, md), s) = md /\ Put(h, s, md).vams = h.vams
<1> DEFINE g == Put(h, s, md)
<1>1. CASE s[1] = "op"
  <2> DEFINE n == s[2]
             i == s[3]
             ops == [h.nodes[n].ops EXCEPT ![i] = md]
             nodes == [h.nodes EXCEPT ![n].ops[i] = md]
  <2>1. n \in DOMAIN h.nodes /\ i \in DOMAIN h.nodes[n].ops /\ s = OpSlot(n, i)
    BY <1>1, SlotFacts
  <2>2. g = [h EXCEPT !.nodes = nodes]
    BY <1>1 DEF Put
  <2>3. h.nodes \in Seq(Nodes) /\ h.nodes[n] \in Nodes /\ h.nodes[n].ops \in Seq(Refs)
    BY <2>1, HeapFacts
  <2>4. ops \in Seq(Refs) /\ DOMAIN ops = DOMAIN h.nodes[n].ops /\ ops[i] = md /\ \A j \in DOMAIN ops : j # i => ops[j] = h.nodes[n].ops[j]
    BY <2>1, <2>3
  <2>5. nodes = [h.nodes EXCEPT ![n] = [h.nodes[n] EXCEPT !.ops = ops]]
    OBVIOUS
  <2> HIDE DEF ops, n, i, nodes, g
  <2>6. LET e == [h.nodes[n] EXCEPT !.ops = ops] IN e \in Nodes /\ e.ops = ops /\ e.storage = h.nodes[n].storage
    BY <2>3, <2>4 DEF Nodes
  <2>7. /\ nodes \in Seq(Nodes) /\ DOMAIN nodes = DOMAIN h.nodes /\ nodes[n].ops = ops /\ nodes[n].storage = h.nodes[n].storage
        /\ \A j \in DOMAIN h.nodes : j # n => nodes[j] = h.nodes[j]
    BY ONLY <2>1, <2>3, <2>5, <2>6
  <2>8. /\ g \in Heaps /\ g.nodes = nodes /\ g.vams = h.vams /\ SameMap(h, g) /\ g.store = h.store
        /\ SameMavs(h, g)
    BY <2>2, <2>7 DEF Heaps, SameMap, SameMavs
  <2>9. SameVams(h, g)
    BY <2>8 DEF SameVams
  <2>10. AllSlots(g) = AllSlots(h)
    <3>1. \A j \in DOMAIN h.nodes : DOMAIN g.nodes[j].ops = DOMAIN h.nodes[j].ops
      BY <2>4, <2>7, <2>8
    <3>2. \A t : t \in AllSlots(g) <=> t \in AllSlots(h)
      BY <2>7, <2>8, <3>1, SlotFacts DEF SameMavs
    <3>3. QED BY <3>2
  <2>11. Content(g, s) = md
    BY <2>1, <2>4, <2>7, <2>8, SlotFacts
  <2>12. ASSUME NEW t \in AllSlots(h), t # s PROVE Content(g, t) = Content(h, t)
    <3>1. CASE t[1] = "mav"
      BY <2>8, <3>1, SlotFacts DEF SameMavs
    <3>2. CASE t[1] = "op"
      <4>1. t = OpSlot(t[2], t[3]) /\ t[2] \in DOMAIN h.nodes /\ t[3] \in DOMAIN h.nodes[t[2]].ops
        BY <3>2, SlotFacts
      <4>2. Content(g, t) = nodes[t[2]].ops[t[3]] /\ Content(h, t) = h.nodes[t[2]].ops[t[3]]
        BY <2>8, <4>1, SlotFacts
      <4>3. t[2] # n \/ t[3] # i
        BY <2>1, <2>12, <4>1
      <4>4. QED BY <2>4, <2>7, <4>1, <4>2, <4>3
    <3>3. QED BY <3>1, <3>2, SlotFacts
  <2>13. SlotOnly(h, g, s)
    <3>1. g.mavs = h.mavs /\ g.byMd = h.byMd /\ g.calls = h.calls /\ g.changes = h.changes
      BY <2>8 DEF SameMavs
    <3>2. ASSUME NEW j \in DOMAIN h.nodes
          PROVE  /\ g.nodes[j].storage = h.nodes[j].storage /\ DOMAIN g.nodes[j].ops = DOMAIN h.nodes[j].ops
                 /\ g.nodes[j] = h.nodes[j] \/ (s[1] = "op" /\ s[2] = j)
      BY <1>1, <2>4, <2>7, <2>8 DEF n
    <3>3. QED BY <2>7, <2>8, <2>9, <2>10, <2>12, <3>1, <3>2 DEF SlotOnly
  <2>14. QED BY <2>8, <2>11, <2>13 DEF g
<1>2. CASE s[1] = "mav"
  <2> DEFINE m == s[2]
             mavs == [h.mavs EXCEPT ![m].md = md]
  <2>1. m \in DOMAIN h.mavs /\ s = MavSlot(m)
    BY <1>2, SlotFacts
  <2>2. g = [h EXCEPT !.mavs = mavs]
    BY <1>2 DEF Put
  <2>3. h.mavs \in Seq(Mavs) /\ h.mavs[m] \in Mavs
    BY <2>1, HeapFacts
  <2>4. mavs = [h.mavs EXCEPT ![m] = [h.mavs[m] EXCEPT !.md = md]]
    OBVIOUS
  <2> HIDE DEF m, mavs, g
  <2>5. LET e == [h.mavs[m] EXCEPT !.md = md] IN e \in Mavs /\ e.md = md /\ e.live = h.mavs[m].live
    BY <2>3 DEF Mavs
  <2>6. /\ mavs \in Seq(Mavs) /\ DOMAIN mavs = DOMAIN h.mavs /\ mavs[m].md = md /\ mavs[m].live = h.mavs[m].live
        /\ \A j \in DOMAIN h.mavs : j # m => mavs[j] = h.mavs[j]
    BY ONLY <2>1, <2>3, <2>4, <2>5
  <2>7. /\ g \in Heaps /\ g.mavs = mavs /\ g.vams = h.vams /\ SameMap(h, g) /\ SameNodes(h, g)
        /\ g.byMd = h.byMd /\ g.calls = h.calls /\ g.changes = h.changes
    BY <2>2, <2>6 DEF Heaps, SameMap, SameNodes
  <2>8. SameVams(h, g)
    BY <2>7 DEF SameVams
  <2>9. AllSlots(g) = AllSlots(h)
    BY <2>6, <2>7 DEF AllSlots, OpSlots, SameNodes
  <2>10. Content(g, s) = md
    BY <2>1, <2>6, <2>7, SlotFacts
  <2>11. ASSUME NEW t \in AllSlots(h), t # s PROVE Content(g, t) = Content(h, t)
    <3>1. CASE t[1] = "op"
      BY <2>7, <3>1, SlotFacts DEF SameNodes
    <3>2. CASE t[1] = "mav"
      <4>1. t = MavSlot(t[2]) /\ t[2] \in DOMAIN h.mavs
        BY <3>2, SlotFacts
      <4>2. Content(g, t) = mavs[t[2]].md /\ Content(h, t) = h.mavs[t[2]].md
        BY <2>7, <4>1, SlotFacts
      <4>3. t[2] # m
        BY <2>1, <2>11, <4>1
      <4>4. QED BY <2>6, <4>1, <4>2, <4>3
    <3>3. QED BY <3>1, <3>2, SlotFacts
  <2>12. SlotOnly(h, g, s)
    <3>1. g.nodes = h.nodes /\ g.store = h.store
      BY <2>7 DEF SameNodes
    <3>2. \A j \in DOMAIN h.mavs : g.mavs[j].live = h.mavs[j].live /\ (g.mavs[j] = h.mavs[j] \/ s = MavSlot(j))
      BY <2>1, <2>6, <2>7
    <3>3. QED BY <2>6, <2>7, <2>8, <2>9, <2>11, <3>1, <3>2 DEF SlotOnly
  <2>13. QED BY <2>7, <2>10, <2>12 DEF g
<1>3. QED BY <1>1, <1>2, SlotFacts

(* The uses of other slots are kept.                                       *)
LEMMA PutKept ==
  ASSUME NEW h \in Heaps, NEW s \in AllSlots(h), NEW md \in Refs, NEW S \in SUBSET AllSlots(h), s \notin S, UsesKept(h, S)
  PROVE  UsesKept(Put(h, s, md), S)
<1>1. /\ Put(h, s, md).vams = h.vams
      /\ \A t \in S : Content(Put(h, s, md), t) = Content(h, t)
  BY PutFacts DEF SlotOnly
<1>2. QED BY <1>1 DEF UsesKept

(***************************************************************************)
(* A slot is made to refer to something else, tracked as it was.           *)
(***************************************************************************)
Move(h, s, md, owned) == Track(Put(Untrack(h, s), s, md), s, owned)

(* A slot is made to refer to something else, and tracked.                 *)
LEMMA MoveFacts ==
  ASSUME NEW h \in Heaps, UsesKept(h, AllSlots(h)), \A t \in AllSlots(h) : Known(h, Content(h, t)),
         NEW s \in AllSlots(h), NEW md \in Refs, Known(h, md), NEW owned \in BOOLEAN
  PROVE  LET g == Move(h, s, md, owned)
         IN  /\ SlotOnly(h, g, s) /\ Content(g, s) = md /\ UsesKept(g, AllSlots(g))
             /\ \A t \in AllSlots(g) : Known(g, Content(g, t))
             /\ \A k \in DOMAIN h.vams : \A use \in Among(g.vams[k].uses) :
                  \/ use \in Among(h.vams[k].uses) /\ use.slot # s
                  \/ md = Vam(k) /\ use = [slot |-> s, owned |-> owned]
<1> DEFINE S == AllSlots(h)
           u == Untrack(h, s)
           p == Put(u, s, md)
           g == Track(p, s, owned)
<1>1. Content(h, s) \in Refs /\ s \in Slots
  BY SlotFacts
<1>2. /\ OnlyUses(h, u) /\ UsesKept(u, S \ {s})
      /\ \A k \in DOMAIN h.vams : Among(u.vams[k].uses) = {use \in Among(h.vams[k].uses) : use.slot # s}
  BY <1>1, UntrackFacts DEF Known
<1> HIDE DEF u
<1>3. u \in Heaps /\ AllSlots(u) = S
  BY <1>2, SameContent DEF OnlyUses, SameNodes, SameMavs
<1>4. SlotOnly(u, p, s) /\ Content(p, s) = md /\ p.vams = u.vams /\ UsesKept(p, S \ {s})
  BY <1>2, <1>3, PutFacts, PutKept
<1>5. SlotOnly(h, p, s)
  BY <1>2, <1>4, SlotOnlyTwice
<1> HIDE DEF p
<1>6. p \in Heaps /\ DOMAIN p.vams = DOMAIN h.vams
  BY <1>5 DEF SlotOnly, SameVams
<1>7. /\ OnlyUses(p, g) /\ UsesKept(g, (S \ {s}) \cup {s})
      /\ \A k \in DOMAIN p.vams :
              \/ Among(g.vams[k].uses) = Among(p.vams[k].uses)
              \/ md = Vam(k) /\ Among(g.vams[k].uses) = Among(p.vams[k].uses) \cup {[slot |-> s, owned |-> owned]}
  BY <1>1, <1>4, <1>6, TrackFacts DEF Known
<1> HIDE DEF g
<1>8. SlotOnly(h, g, s)
  BY <1>5, <1>7, SlotOnlyTwice
<1>9. Content(g, s) = md
  BY <1>4, <1>7, SameContent DEF OnlyUses, SameNodes, SameMavs
<1>10. UsesKept(g, AllSlots(g))
  <2>1. (S \ {s}) \cup {s} = S /\ AllSlots(g) = S
    BY <1>8 DEF SlotOnly
  <2>2. QED BY <1>7, <2>1
<1>11. \A t \in AllSlots(g) : Known(g, Content(g, t))
  <2>1. \A r : Known(g, r) <=> Known(h, r)
    BY <1>8, SameKnown DEF SlotOnly
  <2>2. QED BY <1>8, <1>9, <2>1 DEF SlotOnly
<1>12. \A k \in DOMAIN h.vams : \A use \in Among(g.vams[k].uses) :
                  \/ use \in Among(h.vams[k].uses) /\ use.slot # s
                  \/ md = Vam(k) /\ use = [slot |-> s, owned |-> owned]
  <2> DEFINE e == [slot |-> s, owned |-> owned]
  <2> HIDE DEF e
  <2>1. \A k \in DOMAIN h.vams : \/ Among(g.vams[k].uses) = Among(p.vams[k].uses)
                                 \/ md = Vam(k) /\ Among(g.vams[k].uses) = Among(p.vams[k].uses) \cup {e}
    BY <1>6, <1>7 DEF e
  <2>2. ASSUME NEW k \in DOMAIN h.vams, NEW use \in Among(g.vams[k].uses)
        PROVE  (use \in Among(h.vams[k].uses) /\ use.slot # s) \/ (md = Vam(k) /\ use = e)
    <3>1. use \in Among(p.vams[k].uses) \/ (md = Vam(k) /\ use = e)
      BY <2>1
    <3>2. Among(p.vams[k].uses) = {v \in Among(h.vams[k].uses) : v.slot # s}
      BY <1>2, <1>4
    <3>3. QED BY <3>1, <3>2
  <2>3. QED BY <2>2 DEF e
<1>13. QED BY <1>8, <1>9, <1>10, <1>11, <1>12 DEF Move, g, p, u

-----------------------------------------------------------------------------
(***************************************************************************)
(* From h to g, nothing but the store has changed, and that some nodes are *)
(* distinct now.                                                           *)
(***************************************************************************)
Restored(h, g) ==
  /\ g \in Heaps /\ g.vams = h.vams /\ SameMap(h, g) /\ SameMavs(h, g)
  /\ DOMAIN g.nodes = DOMAIN h.nodes
  /\ \A n \in DOMAIN h.nodes : /\ g.nodes[n].ops = h.nodes[n].ops
                               /\ g.nodes[n].storage = h.nodes[n].storage \/ g.nodes[n].storage = "distinct"

(* No slot changes, nor any use.                                           *)
LEMMA RestoredKeeps ==
  ASSUME NEW h \in Heaps, NEW g, Restored(h, g)
  PROVE  /\ AllSlots(g) = AllSlots(h) /\ (\A s \in AllSlots(h) : Content(g, s) = Content(h, s))
         /\ (\A md : Known(g, md) <=> Known(h, md)) /\ SameVams(h, g)
         /\ UsesKept(h, AllSlots(h)) => UsesKept(g, AllSlots(g))
         /\ Wrapped(h) => Wrapped(g)
<1>1. g \in Heaps /\ g.vams = h.vams /\ g.mavs = h.mavs /\ DOMAIN g.nodes = DOMAIN h.nodes
  BY DEF Restored, SameMavs
<1>2. AllSlots(g) = AllSlots(h)
  <2>1. \A t : t \in AllSlots(g) <=> t \in AllSlots(h)
    BY <1>1, SlotFacts DEF Restored
  <2>2. QED BY <2>1
<1>3. ASSUME NEW s \in AllSlots(h) PROVE Content(g, s) = Content(h, s)
  <2>1. CASE s[1] = "op"
    <3>1. s = OpSlot(s[2], s[3]) /\ s[2] \in DOMAIN h.nodes
      BY <2>1, SlotFacts
    <3>2. Content(g, s) = g.nodes[s[2]].ops[s[3]] /\ Content(h, s) = h.nodes[s[2]].ops[s[3]]
      BY <1>1, <3>1, SlotFacts
    <3>3. QED BY <3>1, <3>2 DEF Restored
  <2>2. CASE s[1] = "mav"
    BY <1>1, <2>2, SlotFacts
  <2>3. QED BY <2>1, <2>2, SlotFacts
<1>4. (\A md : Known(g, md) <=> Known(h, md)) /\ SameVams(h, g)
  BY <1>1 DEF Known, SameVams
<1>5. UsesKept(h, AllSlots(h)) => UsesKept(g, AllSlots(g))
  BY <1>1, <1>2, <1>3 DEF UsesKept
<1>6. Wrapped(h) => Wrapped(g)
  BY DEF Wrapped, Restored, SameMavs
<1>7. QED BY <1>2, <1>3, <1>4, <1>5, <1>6

(* A use is of a slot that there is.                                       *)
LEMMA UseHasSlot ==
  ASSUME NEW h \in Heaps, UsesKept(h, AllSlots(h)), NEW k \in DOMAIN h.vams, NEW use \in Among(h.vams[k].uses)
  PROVE  /\ use \in Uses /\ use.slot \in AllSlots(h) /\ Content(h, use.slot) = Vam(k)
         /\ \A u \in Among(h.vams[k].uses) : u.slot = use.slot => u = use
<1>1. h.vams[k].uses \in Seq(Uses) /\ SlotsIn(h.vams[k].uses) = {s \in AllSlots(h) : Content(h, s) = Vam(k)}
  BY HeapFacts DEF UsesKept
<1>2. PICK i \in DOMAIN h.vams[k].uses : use = h.vams[k].uses[i]
  BY DEF Among
<1>3. use \in Uses
  BY <1>1, <1>2
<1>4. use.slot \in SlotsIn(h.vams[k].uses)
  BY <1>2 DEF SlotsIn
<1>5. \A u \in Among(h.vams[k].uses) : u.slot = use.slot => u = use
  BY <1>2 DEF Among, UsesKept, Once
<1>6. QED BY <1>1, <1>3, <1>4, <1>5

(* The owners of uses stay when a node is stored anew.                     *)
LEMMA RestoredOwned ==
  ASSUME NEW h \in Heaps, NEW g, Restored(h, g), UsesKept(h, AllSlots(h)), Owned(h)
  PROVE  Owned(g)
<1>1. g.vams = h.vams
  BY DEF Restored
<1>2. ASSUME NEW k \in DOMAIN h.vams, NEW use \in Among(h.vams[k].uses) PROVE OwnedAs(g, use)
  <2>1. use.slot \in AllSlots(h)
    BY UseHasSlot
  <2>2. use.slot[1] = "op" => use.slot[2] \in DOMAIN h.nodes
    BY <2>1, SlotFacts
  <2>3. OwnedAs(h, use)
    BY DEF Owned
  <2>4. QED BY <2>2, <2>3 DEF Restored, OwnedAs
<1>3. QED BY <1>1, <1>2 DEF Owned

(* A node is made distinct.                                                *)
LEMMA DistinctFacts ==
  ASSUME NEW h \in Heaps, NEW n \in DOMAIN h.nodes
  PROVE  /\ Restored(h, StoreDistinctInContext(h, n)) /\ StoreDistinctInContext(h, n).store = h.store
         /\ StoreDistinctInContext(h, n).nodes[n].storage = "distinct"
<1> DEFINE nodes == [h.nodes EXCEPT ![n].storage = "distinct"]
           g == StoreDistinctInContext(h, n)
<1>1. g = [h EXCEPT !.nodes = nodes] /\ nodes = [h.nodes EXCEPT ![n] = [h.nodes[n] EXCEPT !.storage = "distinct"]]
  BY DEF StoreDistinctInContext
<1>2. h.nodes \in Seq(Nodes) /\ h.nodes[n] \in Nodes
  BY HeapFacts
<1>3. LET e == [h.nodes[n] EXCEPT !.storage = "distinct"] IN e \in Nodes /\ e.ops = h.nodes[n].ops /\ e.storage = "distinct"
  BY <1>2 DEF Nodes
<1> HIDE DEF nodes, g
<1>4. /\ nodes \in Seq(Nodes) /\ DOMAIN nodes = DOMAIN h.nodes /\ nodes[n].ops = h.nodes[n].ops /\ nodes[n].storage = "distinct"
      /\ \A j \in DOMAIN h.nodes : j # n => nodes[j] = h.nodes[j]
  BY ONLY <1>1, <1>2, <1>3, n \in DOMAIN h.nodes
<1>5. g \in Heaps /\ g.nodes = nodes /\ g.vams = h.vams /\ SameMap(h, g) /\ SameMavs(h, g) /\ g.store = h.store
  BY <1>1, <1>4 DEF Heaps, SameMap, SameMavs
<1>6. Restored(h, g)
  BY <1>4, <1>5 DEF Restored
<1>7. QED BY <1>4, <1>5, <1>6 DEF g

(* A node is stored.                                                       *)
LEMMA StoreFacts ==
  ASSUME NEW h \in Heaps, NEW n \in DOMAIN h.nodes
  PROVE  LET ops == h.nodes[n].ops
             g == [h EXCEPT !.store = Enter(@, ops, n)]
         IN  /\ Restored(h, g) /\ g.nodes = h.nodes
             /\ DOMAIN g.store = DOMAIN h.store \cup {ops} /\ g.store[ops] = n
             /\ \A x \in DOMAIN h.store : x # ops => g.store[x] = h.store[x]
<1> DEFINE ops == h.nodes[n].ops
           store == Enter(h.store, ops, n)
           g == [h EXCEPT !.store = Enter(@, ops, n)]
<1>1. g = [h EXCEPT !.store = store]
  OBVIOUS
<1>2. ops \in Seq(Refs) /\ n \in Nat /\ h.store \in Partial(Seq(Refs), Nat)
  BY HeapFacts
<1>3. /\ store \in Partial(Seq(Refs), Nat) /\ DOMAIN store = DOMAIN h.store \cup {ops} /\ store[ops] = n
      /\ \A x \in DOMAIN h.store : x # ops => store[x] = h.store[x]
  <2> HIDE DEF ops
  <2>1. store \in Partial(Seq(Refs), Nat)
    BY ONLY <1>2, EnterTyped
  <2>2. /\ DOMAIN store = DOMAIN h.store \cup {ops} /\ store[ops] = n
        /\ \A x \in DOMAIN h.store : x # ops => store[x] = h.store[x]
    BY DEF Enter
  <2>3. QED BY <2>1, <2>2
<1> HIDE DEF store, g, ops
<1>4. g \in Heaps /\ g.store = store /\ g.nodes = h.nodes /\ g.vams = h.vams /\ SameMap(h, g) /\ SameMavs(h, g)
  BY <1>1, <1>3 DEF Heaps, SameMap, SameMavs
<1>5. Restored(h, g)
  BY <1>4 DEF Restored
<1>6. QED BY <1>3, <1>4, <1>5 DEF g, ops

(***************************************************************************)
(* Uniquify makes a node whose operands have changed unique again, or      *)
(* distinct: the only one that might not have been.                        *)
(***************************************************************************)
LEMMA UniquifyFacts ==
  ASSUME NEW h \in Heaps, NEW n \in DOMAIN h.nodes, \A j \in DOMAIN h.nodes : j # n => UniqueNode(h, j), Stored(h)
  PROVE  Restored(h, Uniquify(h, n)) /\ Unique(Uniquify(h, n)) /\ Stored(Uniquify(h, n))
<1> DEFINE ops == h.nodes[n].ops
           g == Uniquify(h, n)
<1>1. CASE ops \notin DOMAIN h.store
  <2>1. /\ Restored(h, g) /\ g.nodes = h.nodes
        /\ DOMAIN g.store = DOMAIN h.store \cup {ops} /\ g.store[ops] = n
        /\ \A x \in DOMAIN h.store : x # ops => g.store[x] = h.store[x]
    BY <1>1, StoreFacts DEF Uniquify
  <2> HIDE DEF g
  <2>2. Unique(g)
    BY <1>1, <2>1 DEF Unique, UniqueNode
  <2>3. Stored(g)
    BY <1>1, <2>1 DEF Stored
  <2>4. QED BY <2>1, <2>2, <2>3 DEF g
<1>2. CASE ops \in DOMAIN h.store /\ h.store[ops] = n
  <2>1. g = h
    BY <1>2 DEF Uniquify
  <2> HIDE DEF g
  <2>2. Restored(h, g)
    BY <2>1 DEF Restored, SameMap, SameMavs
  <2>3. QED BY <1>2, <2>1, <2>2 DEF Unique, UniqueNode, g
<1>3. CASE ops \in DOMAIN h.store /\ h.store[ops] # n
  <2>1. Restored(h, g) /\ g.store = h.store /\ g.nodes[n].storage = "distinct"
    BY <1>3, DistinctFacts DEF Uniquify
  <2> HIDE DEF g
  <2>2. Unique(g)
    BY <2>1 DEF Unique, UniqueNode, Restored
  <2>3. Stored(g)
    BY <2>1 DEF Stored, Restored
  <2>4. QED BY <2>1, <2>2, <2>3 DEF g
<1>4. QED BY <1>1, <1>2, <1>3

-----------------------------------------------------------------------------
(***************************************************************************)
(* From h to g, the operand s refers to md: what is used is used by the    *)
(* same slots but s.                                                       *)
(***************************************************************************)
FewerUses(h, g, s, md) ==
  \A k \in DOMAIN h.vams : \A use \in Among(g.vams[k].uses) : (use \in Among(h.vams[k].uses) /\ use.slot # s) \/ md = Vam(k)

Rewritten(h, g, s, md) ==
  /\ SameVams(h, g) /\ SameMap(h, g) /\ SameMavs(h, g) /\ FewerUses(h, g, s, md)
  /\ DOMAIN g.nodes = DOMAIN h.nodes /\ \A n \in DOMAIN h.nodes : DOMAIN g.nodes[n].ops = DOMAIN h.nodes[n].ops
  /\ AllSlots(g) = AllSlots(h) /\ Content(g, s) = md /\ \A t \in AllSlots(h) : t # s => Content(g, t) = Content(h, t)

(* A slot is written, and its node is stored anew.                         *)
LEMMA RewrittenRestored ==
  ASSUME NEW h \in Heaps, NEW g \in Heaps, NEW f, NEW s \in AllSlots(h), NEW md, Rewritten(h, g, s, md), Restored(g, f)
  PROVE  Rewritten(h, f, s, md)
<1>1. AllSlots(f) = AllSlots(g) /\ (\A t \in AllSlots(g) : Content(f, t) = Content(g, t)) /\ SameVams(g, f)
  BY RestoredKeeps
<1>2. SameVams(h, f)
  BY <1>1 DEF Rewritten, SameVams
<1>3. SameMap(h, f) /\ SameMavs(h, f)
  BY DEF Rewritten, Restored, SameMap, SameMavs
<1>4. FewerUses(h, f, s, md)
  BY DEF Rewritten, Restored, FewerUses
<1>5. DOMAIN f.nodes = DOMAIN h.nodes /\ \A n \in DOMAIN h.nodes : DOMAIN f.nodes[n].ops = DOMAIN h.nodes[n].ops
  BY DEF Rewritten, Restored
<1>6. QED BY <1>1, <1>2, <1>3, <1>4, <1>5 DEF Rewritten

(* A distinct node's operand is written, or a uniqued one's.               *)
LEMMA SetOperandFacts ==
  ASSUME NEW h, Tracked(h), NEW n \in DOMAIN h.nodes, NEW i \in DOMAIN h.nodes[n].ops, NEW md \in Refs, Known(h, md),
         NEW owned \in BOOLEAN, ~ owned => h.nodes[n].storage = "distinct"
  PROVE  LET s == OpSlot(n, i)
             g == Move(h, s, md, owned)
         IN  /\ g \in Heaps /\ Rewritten(h, g, s, md)
             /\ (\A t \in AllSlots(g) : Known(g, Content(g, t)))
             /\ UsesKept(g, AllSlots(g)) /\ Owned(g) /\ Stored(g) /\ Wrapped(g) /\ g.nodes[n].storage = h.nodes[n].storage
             /\ \A j \in DOMAIN g.nodes : j # n => UniqueNode(g, j)
<1> DEFINE s == OpSlot(n, i)
           g == Move(h, s, md, owned)
<1>1. h \in Heaps /\ s \in AllSlots(h) /\ s[1] = "op" /\ s[2] = n /\ \A m : s # MavSlot(m)
  BY SlotFacts, Shapes DEF Tracked, Linked
<1> HIDE DEF s, g
<1>2. /\ SlotOnly(h, g, s) /\ Content(g, s) = md /\ UsesKept(g, AllSlots(g))
      /\ \A t \in AllSlots(g) : Known(g, Content(g, t))
  BY <1>1, MoveFacts DEF Tracked, Linked, g
<1>3. \A k \in DOMAIN h.vams : \A use \in Among(g.vams[k].uses) :
          \/ use \in Among(h.vams[k].uses) /\ use.slot # s
          \/ md = Vam(k) /\ use = [slot |-> s, owned |-> owned]
  BY <1>1, MoveFacts DEF Tracked, Linked, g
<1>4. g \in Heaps
  BY <1>2 DEF SlotOnly
<1>5. g.mavs = h.mavs
  <2>1. h.mavs \in Seq(Mavs) /\ g.mavs \in Seq(Mavs)
    BY <1>1, <1>4, HeapFacts
  <2>2. DOMAIN g.mavs = DOMAIN h.mavs /\ \A m \in DOMAIN h.mavs : g.mavs[m] = h.mavs[m]
    BY <1>1, <1>2 DEF SlotOnly
  <2>3. QED BY <2>1, <2>2
<1>6. FewerUses(h, g, s, md)
  BY <1>3 DEF FewerUses
<1>7. Rewritten(h, g, s, md)
  BY <1>2, <1>5, <1>6 DEF Rewritten, SlotOnly, SameMavs
<1>8. ASSUME NEW k \in DOMAIN g.vams, NEW use \in Among(g.vams[k].uses) PROVE OwnedAs(g, use)
  <2>1. k \in DOMAIN h.vams
    BY <1>2 DEF SlotOnly, SameVams
  <2>2. CASE use \in Among(h.vams[k].uses)
    <3>1. use.slot \in AllSlots(h) /\ OwnedAs(h, use)
      BY <1>1, <2>1, <2>2, UseHasSlot DEF Tracked, Linked, Owned
    <3>2. use.slot[1] = "op" => use.slot[2] \in DOMAIN h.nodes
      BY <1>1, <3>1, SlotFacts
    <3>3. QED BY <1>2, <3>1, <3>2 DEF OwnedAs, SlotOnly
  <2>3. CASE use = [slot |-> s, owned |-> owned]
    BY <1>1, <1>2, <2>3 DEF OwnedAs, SlotOnly
  <2>4. QED BY <1>3, <2>1, <2>2, <2>3
<1>9. Owned(g)
  BY <1>8 DEF Owned
<1>10. g.nodes[n].storage = h.nodes[n].storage /\ g.store = h.store /\ DOMAIN g.nodes = DOMAIN h.nodes
       /\ \A j \in DOMAIN h.nodes : DOMAIN g.nodes[j].ops = DOMAIN h.nodes[j].ops /\ (j # n => g.nodes[j] = h.nodes[j])
  BY <1>1, <1>2 DEF SlotOnly
<1>11. Stored(g) /\ \A j \in DOMAIN g.nodes : j # n => UniqueNode(g, j)
  BY <1>10 DEF Tracked, Linked, Stored, Unique, UniqueNode
<1>12. Wrapped(g)
  BY <1>2, <1>5 DEF Tracked, Linked, Wrapped, SlotOnly
<1>13. QED BY <1>2, <1>4, <1>7, <1>9, <1>10, <1>11, <1>12 DEF g, s

(***************************************************************************)
(* HandleChangedOperand: a uniqued node that is equal to another then, or  *)
(* refers to itself, is distinct afterwards.                               *)
(***************************************************************************)
LEMMA ChangedOperandFacts ==
  ASSUME NEW h, Tracked(h), NEW n \in DOMAIN h.nodes, NEW i \in DOMAIN h.nodes[n].ops, NEW md \in Refs, Known(h, md)
  PROVE  LET g == HandleChangedOperand(h, n, i, md)
         IN  Tracked(g) /\ Rewritten(h, g, OpSlot(n, i), md)
<1> DEFINE s == OpSlot(n, i)
           owned == h.nodes[n].storage = "uniqued"
           e == Move(h, s, md, owned)
           g == HandleChangedOperand(h, n, i, md)
<1>1. h \in Heaps /\ h.nodes[n].storage \in {"uniqued", "distinct"} /\ s \in AllSlots(h)
  BY HeapFacts, SlotFacts DEF Tracked, Linked
<1>2. SetOperand(h, n, i, md) = e
  BY DEF SetOperand, Move
<1>3. owned \in BOOLEAN /\ (~ owned => h.nodes[n].storage = "distinct")
  BY <1>1
<1>4. /\ e \in Heaps /\ Rewritten(h, e, s, md)
      /\ (\A t \in AllSlots(e) : Known(e, Content(e, t)))
      /\ UsesKept(e, AllSlots(e)) /\ Owned(e) /\ Stored(e) /\ Wrapped(e) /\ e.nodes[n].storage = h.nodes[n].storage
      /\ \A j \in DOMAIN e.nodes : j # n => UniqueNode(e, j)
  <2> HIDE DEF owned
  <2>1. QED BY <1>3, SetOperandFacts
<1>5. n \in DOMAIN e.nodes
  BY <1>4 DEF Rewritten
<1>6. g = IF h.nodes[n].storage # "uniqued" THEN e
          ELSE IF md = Node(n) THEN StoreDistinctInContext(e, n) ELSE Uniquify(e, n)
  BY ONLY <1>2, Zenon DEF HandleChangedOperand, g
<1> HIDE DEF s, e, g, owned
<1>7. CASE h.nodes[n].storage # "uniqued"
  <2>1. g = e
    BY <1>6, <1>7
  <2>2. Unique(e)
    BY <1>4, <1>7 DEF Unique, UniqueNode
  <2>3. QED BY <1>4, <2>1, <2>2 DEF Tracked, Linked, g, s
<1>8. ASSUME Restored(e, g), Unique(g), Stored(g) PROVE Tracked(g) /\ Rewritten(h, g, s, md)
  <2>1. g \in Heaps
    BY <1>8 DEF Restored
  <2>2. /\ (\A t \in AllSlots(g) : Known(g, Content(g, t)))
        /\ UsesKept(g, AllSlots(g)) /\ Wrapped(g)
    BY <1>4, <1>8, RestoredKeeps
  <2>3. Owned(g)
    BY <1>4, <1>8, RestoredOwned
  <2>4. Rewritten(h, g, s, md)
    BY <1>1, <1>4, <1>8, RewrittenRestored
  <2>5. QED BY <1>8, <2>1, <2>2, <2>3, <2>4 DEF Tracked, Linked
<1>9. CASE h.nodes[n].storage = "uniqued" /\ md = Node(n)
  <2>1. g = StoreDistinctInContext(e, n)
    BY <1>6, <1>9
  <2>2. Restored(e, g) /\ g.store = e.store /\ g.nodes[n].storage = "distinct"
    BY <1>4, <1>5, <2>1, DistinctFacts
  <2>3. Unique(g) /\ Stored(g)
    BY <1>4, <2>2 DEF Unique, UniqueNode, Stored, Restored
  <2>4. QED BY <1>8, <2>2, <2>3 DEF g, s
<1>10. CASE h.nodes[n].storage = "uniqued" /\ md # Node(n)
  <2>1. g = Uniquify(e, n)
    BY <1>6, <1>10
  <2>2. Restored(e, g) /\ Unique(g) /\ Stored(g)
    BY <1>4, <1>5, <2>1, UniquifyFacts
  <2>3. QED BY <1>8, <2>2 DEF g, s
<1>11. QED BY <1>7, <1>9, <1>10

-----------------------------------------------------------------------------
(* What holds at 0, and from each number to the next, holds up to N.       *)
LEMMA CountUp ==
  ASSUME NEW N \in Nat, NEW P \in SUBSET Nat, 0 \in P, \A k \in 1 .. N : k - 1 \in P => k \in P
  PROVE  \A k \in 0 .. N : k \in P
<1> DEFINE T == {k \in Nat : k \in 0 .. N /\ k \notin P}
<1>1. ASSUME T # {} PROVE FALSE
  <2>1. PICK m \in T : \A k \in T : m <= k
    <3>1. T \in SUBSET Nat
      OBVIOUS
    <3> HIDE DEF T
    <3>2. QED BY <1>1, <3>1, LeastNat
  <2>2. m \in 1 .. N /\ m - 1 \in 0 .. N /\ m - 1 \in Nat /\ ~ (m <= m - 1) /\ m \notin P
    BY <2>1
  <2>3. m - 1 \in P
    BY <2>1, <2>2
  <2>4. QED BY <2>2, <2>3
<1>2. QED BY <1>1

(* Nothing else changes when a slot is tracked.                            *)
LEMMA TrackOnlyUses ==
  ASSUME NEW h \in Heaps, NEW s \in Slots, NEW owned \in BOOLEAN,
         Content(h, s) \in Refs, Content(h, s)[1] = "vam" => Content(h, s)[2] \in DOMAIN h.vams
  PROVE  OnlyUses(h, Track(h, s, owned))
<1> DEFINE md == Content(h, s)
           k == md[2]
           u == [slot |-> s, owned |-> owned]
           w == Append(h.vams[k].uses, u)
           g == Track(h, s, owned)
<1>1. CASE md[1] # "vam"
  BY <1>1 DEF Track, OnlyUses, SameVams, SameMap, SameNodes, SameMavs
<1>2. CASE md[1] = "vam"
  <2>1. k \in DOMAIN h.vams /\ g = [h EXCEPT !.vams[k].uses = w]
    BY <1>2 DEF Track
  <2>2. u \in Uses /\ h.vams[k].uses \in Seq(Uses)
    BY <2>1, HeapFacts DEF Uses
  <2>3. w \in Seq(Uses)
    BY <2>2
  <2> HIDE DEF g, w, k
  <2>4. QED BY <2>1, <2>3, UsesSet DEF g
<1>3. QED BY <1>1, <1>2

(* Only uses change twice.                                                 *)
LEMMA OnlyUsesTwice ==
  ASSUME NEW h, NEW g, NEW f, OnlyUses(h, g), OnlyUses(g, f)
  PROVE  OnlyUses(h, f)
BY DEF OnlyUses, SameVams, SameMap, SameNodes, SameMavs

(* A node is made, whose operands are not tracked yet.                     *)
Appended(h, ops, storage) == [h EXCEPT !.nodes = Append(@, [storage |-> storage, ops |-> ops])]

(* A node is added whose operands are not tracked yet.                     *)
LEMMA AppendedFacts ==
  ASSUME NEW h \in Heaps, NEW ops \in Seq(Refs), NEW storage \in {"uniqued", "distinct"}
  PROVE  LET g == Appended(h, ops, storage)
             n == Len(h.nodes) + 1
         IN  /\ g \in Heaps /\ g.vams = h.vams /\ SameMap(h, g) /\ SameMavs(h, g) /\ g.store = h.store
             /\ DOMAIN g.nodes = DOMAIN h.nodes \cup {n} /\ n \notin DOMAIN h.nodes /\ Len(g.nodes) = n
             /\ g.nodes[n].ops = ops /\ g.nodes[n].storage = storage /\ \A j \in DOMAIN h.nodes : g.nodes[j] = h.nodes[j]
<1> DEFINE e == [storage |-> storage, ops |-> ops]
           nodes == Append(h.nodes, e)
           g == Appended(h, ops, storage)
           n == Len(h.nodes) + 1
<1>1. h.nodes \in Seq(Nodes) /\ e \in Nodes /\ e.ops = ops /\ e.storage = storage
  BY HeapFacts DEF Nodes
<1>2. g = [h EXCEPT !.nodes = nodes]
  BY DEF Appended
<1> HIDE DEF e, g
<1>3. /\ nodes \in Seq(Nodes) /\ Len(nodes) = n /\ DOMAIN nodes = DOMAIN h.nodes \cup {n} /\ n \notin DOMAIN h.nodes
      /\ nodes[n] = e /\ \A j \in DOMAIN h.nodes : nodes[j] = h.nodes[j]
  BY ONLY <1>1
<1> HIDE DEF nodes, n
<1>4. g \in Heaps /\ g.nodes = nodes /\ g.vams = h.vams /\ SameMap(h, g) /\ SameMavs(h, g) /\ g.store = h.store
  BY <1>2, <1>3 DEF Heaps, SameMap, SameMavs
<1>5. QED BY <1>1, <1>3, <1>4 DEF g, n

(***************************************************************************)
(* The operands of a new node are tracked one after the other.             *)
(***************************************************************************)
LEMMA NewNodeChain ==
  ASSUME NEW b \in Heaps, NEW ops \in Seq(Refs), NEW storage \in {"uniqued", "distinct"},
         \A i \in DOMAIN ops : ops[i][1] = "vam" => ops[i][2] \in DOMAIN b.vams
  PROVE  LET h == Appended(b, ops, storage)
             n == Len(b.nodes) + 1
             N == Len(ops)
         IN  \E c : /\ c[0] = h /\ \A k \in 1 .. N : c[k] = Track(c[k - 1], OpSlot(n, k), storage = "uniqued")
                    /\ \A k \in 0 .. N : OnlyUses(h, c[k])
                    /\ NewNode(b, ops, storage) = c[N]
<1> DEFINE h == Appended(b, ops, storage)
           n == Len(b.nodes) + 1
           N == Len(ops)
           X == {f \in Heaps : OnlyUses(h, f)}
           I == 1 .. N
           owned == storage = "uniqued"
           s == [i \in DOMAIN ops |-> i]
           G == [p \in X \X I |-> Track(p[1], OpSlot(n, p[2]), owned)]
           g == CHOOSE g : g = [x \in SUBSET DOMAIN s |->
                                 IF x = {} THEN h ELSE Track(g[x \ {Max(x)}], OpSlot(n, s[Max(x)]), owned)]
           c == [k \in 0 .. N |-> g[1 .. k]]
<1>1. NewNode(b, ops, storage) = g[DOMAIN s]
  BY Zenon DEF NewNode, FoldLeft, MapThenFoldSet, Appended
<1> HIDE DEF g
<1>2. /\ s \in Seq(I) /\ Len(s) = N /\ DOMAIN s = 1 .. N /\ \A k \in 1 .. N : s[k] \in I /\ s[k] = k
      /\ N \in Nat /\ DOMAIN ops = 1 .. N /\ owned \in BOOLEAN
  OBVIOUS
<1> HIDE DEF h, n, N, owned, s
<1>3. h \in Heaps /\ n \in DOMAIN h.nodes /\ h.nodes[n].ops = ops /\ h.vams = b.vams
  BY AppendedFacts DEF h, n
<1>4. ASSUME NEW f \in X, NEW i \in I PROVE Track(f, OpSlot(n, i), owned) \in X
  <2>1. f \in Heaps /\ OnlyUses(h, f) /\ f.nodes = h.nodes /\ DOMAIN f.vams = DOMAIN h.vams
    BY DEF OnlyUses, SameNodes, SameVams
  <2>2. OpSlot(n, i) \in AllSlots(f) /\ Content(f, OpSlot(n, i)) = h.nodes[n].ops[i]
    BY <1>2, <1>3, <2>1, SlotFacts
  <2>3. OpSlot(n, i) \in Slots /\ Content(f, OpSlot(n, i)) \in Refs
    BY <2>1, <2>2, SlotFacts
  <2> HIDE DEF X
  <2>4. OnlyUses(f, Track(f, OpSlot(n, i), owned))
    <3>1. ops[i][1] = "vam" => ops[i][2] \in DOMAIN f.vams
      BY <1>2, <1>3, <2>1
    <3>2. QED BY <1>2, <1>3, <2>1, <2>2, <2>3, <3>1, TrackOnlyUses
  <2>5. OnlyUses(h, Track(f, OpSlot(n, i), owned))
    BY <2>1, <2>4, OnlyUsesTwice
  <2>6. QED BY <2>5 DEF OnlyUses, X
<1>5. G \in [X \X I -> X] /\ \A f \in X, i \in I : G[<<f, i>>] = Track(f, OpSlot(n, i), owned)
  BY <1>4
<1>6. h \in X
  BY <1>3 DEF OnlyUses, SameVams, SameMap, SameNodes, SameMavs
<1> HIDE DEF G, X
<1>7. PICK t \in [SUBSET (1 .. N) -> X] : FoldsBy(G, h, s, N, t)
  <2> HIDE DEF s, I
  <2>1. QED BY <1>2, <1>5, <1>6, FoldDefined
<1> HIDE DEF s, I
<1>8. t = [x \in SUBSET DOMAIN s |-> IF x = {} THEN h ELSE Track(t[x \ {Max(x)}], OpSlot(n, s[Max(x)]), owned)]
  <2>1. \A x \in SUBSET (1 .. N) : x # {} => Max(x) \in x /\ t[x \ {Max(x)}] \in X /\ s[Max(x)] \in I
    BY <1>2, <1>7, GreatestIn
  <2>2. \A x \in SUBSET (1 .. N) : x # {} => G[<<t[x \ {Max(x)}], s[Max(x)]>>] = Track(t[x \ {Max(x)}], OpSlot(n, s[Max(x)]), owned)
    BY <1>5, <2>1
  <2>3. t = [x \in SUBSET (1 .. N) |-> IF x = {} THEN h ELSE G[<<t[x \ {Max(x)}], s[Max(x)]>>]]
    BY ONLY <1>7 DEF FoldsBy
  <2>4. QED BY ONLY <1>2, <2>2, <2>3
<1>9. g = [x \in SUBSET DOMAIN s |-> IF x = {} THEN h ELSE Track(g[x \ {Max(x)}], OpSlot(n, s[Max(x)]), owned)]
  BY ONLY <1>8, Zenon DEF g
<1> HIDE DEF g
<1>10. c[0] = h
  <2>1. 1 .. 0 = {} /\ 1 .. 0 \in SUBSET DOMAIN s
    BY <1>2
  <2>2. g[1 .. 0] = h
    BY ONLY <1>9, <2>1
  <2>3. QED BY <1>2, <2>2
<1>11. ASSUME NEW k \in 1 .. N PROVE c[k] = Track(c[k - 1], OpSlot(n, k), owned)
  <2>1. /\ 1 .. k \in SUBSET (1 .. N) /\ 1 .. k # {} /\ Max(1 .. k) = k /\ (1 .. k) \ {k} = 1 .. k - 1
        /\ k - 1 \in 0 .. N
    BY ONLY <1>2, k \in 1 .. N, UpToLess, Zenon
  <2>2. g[1 .. k] = LET x == 1 .. k IN Track(g[x \ {Max(x)}], OpSlot(n, s[Max(x)]), owned)
    BY ONLY <1>2, <1>9, <2>1
  <2>3. c[k] = g[1 .. k] /\ c[k - 1] = g[1 .. k - 1] /\ s[k] = k
    BY <1>2, <2>1
  <2> HIDE DEF c
  <2>4. QED BY <2>1, <2>2, <2>3
<1>12. c[N] = g[DOMAIN s]
  BY <1>2
<1> HIDE DEF c
<1>13. \A k \in 0 .. N : c[k] \in X
  <2>1. \A k \in 1 .. N : c[k - 1] \in X => c[k] = G[<<c[k - 1], s[k]>>]
    BY <1>2, <1>5, <1>11 DEF I
  <2>2. Stepwise(G, s, c, X)
    BY <1>2, <2>1 DEF Stepwise
  <2>3. \A k \in 0 .. Len(s) : c[k] \in X
    BY ONLY <1>2, <1>5, <1>6, <1>10, <2>2, ChainStays
  <2>4. QED BY <1>2, <2>3
<1>14. \A k \in 0 .. N : OnlyUses(h, c[k])
  BY <1>13 DEF X
<1>15. /\ c[0] = h /\ \A k \in 1 .. N : c[k] = Track(c[k - 1], OpSlot(n, k), owned)
       /\ \A k \in 0 .. N : OnlyUses(h, c[k])
       /\ NewNode(b, ops, storage) = c[N]
  BY <1>1, <1>10, <1>11, <1>12, <1>14
<1>16. QED BY <1>15 DEF h, n, N, owned
(***************************************************************************)
(* From h to g nodes are made, and nothing else has changed but uses.      *)
(***************************************************************************)
Grown(h, g) ==
  /\ SameVams(h, g) /\ SameMap(h, g) /\ SameMavs(h, g)
  /\ DOMAIN h.nodes \subseteq DOMAIN g.nodes /\ \A n \in DOMAIN h.nodes : g.nodes[n] = h.nodes[n]

(* A new node has slots that there were not.                               *)
LEMMA AppendedSlots ==
  ASSUME NEW h \in Heaps, NEW ops \in Seq(Refs), NEW storage \in {"uniqued", "distinct"}
  PROVE  LET g == Appended(h, ops, storage)
             n == Len(h.nodes) + 1
         IN  /\ AllSlots(g) = AllSlots(h) \cup {OpSlot(n, j) : j \in DOMAIN ops}
             /\ \A j : OpSlot(n, j) \notin AllSlots(h)
             /\ \A s \in AllSlots(h) : Content(g, s) = Content(h, s)
             /\ \A j : Content(g, OpSlot(n, j)) = ops[j]
<1> DEFINE g == Appended(h, ops, storage)
           n == Len(h.nodes) + 1
<1>1. /\ g \in Heaps /\ SameMavs(h, g) /\ DOMAIN g.nodes = DOMAIN h.nodes \cup {n} /\ n \notin DOMAIN h.nodes
      /\ g.nodes[n].ops = ops /\ \A j \in DOMAIN h.nodes : g.nodes[j] = h.nodes[j]
  BY AppendedFacts
<1> HIDE DEF g, n
<1>2. \A s : s \in AllSlots(g) <=> s \in AllSlots(h) \cup {OpSlot(n, j) : j \in DOMAIN ops}
  BY <1>1, SlotFacts DEF SameMavs
<1>3. \A j : OpSlot(n, j) \notin AllSlots(h)
  BY <1>1, SlotFacts, Shapes
<1>4. ASSUME NEW s \in AllSlots(h) PROVE Content(g, s) = Content(h, s)
  BY <1>1, SlotFacts DEF SameMavs
<1>5. \A j : Content(g, OpSlot(n, j)) = ops[j]
  BY <1>1, SlotFacts
<1>6. AllSlots(g) = AllSlots(h) \cup {OpSlot(n, j) : j \in DOMAIN ops}
  BY <1>2
<1>7. QED BY <1>3, <1>4, <1>5, <1>6 DEF g, n

(***************************************************************************)
(* NewNode tracks all operands of the node it makes.                       *)
(***************************************************************************)
LEMMA NewNodeFacts ==
  ASSUME NEW h, Tracked(h), NEW ops \in Seq(Refs), NEW storage \in {"uniqued", "distinct"},
         \A i \in DOMAIN ops : Known(h, ops[i])
  PROVE  LET f == NewNode(h, ops, storage)
             n == Len(h.nodes) + 1
         IN  /\ f \in Heaps /\ Grown(h, f) /\ f.store = h.store /\ (ops = <<>> => f.vams = h.vams)
             /\ DOMAIN f.nodes = DOMAIN h.nodes \cup {n} /\ n \notin DOMAIN h.nodes /\ Len(f.nodes) = n
             /\ f.nodes[n].ops = ops /\ f.nodes[n].storage = storage
             /\ (\A s \in AllSlots(f) : Known(f, Content(f, s)))
             /\ UsesKept(f, AllSlots(f)) /\ Owned(f) /\ Stored(f) /\ Wrapped(f)
             /\ \A j \in DOMAIN f.nodes : j # n => UniqueNode(f, j)
<1> DEFINE f == NewNode(h, ops, storage)
           g == Appended(h, ops, storage)
           n == Len(h.nodes) + 1
           N == Len(ops)
           S(k) == AllSlots(h) \cup {OpSlot(n, j) : j \in 1 .. k}
<1>0. PICK owned \in BOOLEAN : owned = (storage = "uniqued")
  OBVIOUS
<1>1. h \in Heaps /\ N \in Nat /\ DOMAIN ops = 1 .. N
  BY DEF Tracked, Linked
<1>2. /\ g \in Heaps /\ g.vams = h.vams /\ SameMap(h, g) /\ SameMavs(h, g) /\ g.store = h.store
      /\ DOMAIN g.nodes = DOMAIN h.nodes \cup {n} /\ n \notin DOMAIN h.nodes /\ Len(g.nodes) = n
      /\ g.nodes[n].ops = ops /\ g.nodes[n].storage = storage /\ \A j \in DOMAIN h.nodes : g.nodes[j] = h.nodes[j]
  BY <1>1, AppendedFacts
<1>3. /\ AllSlots(g) = AllSlots(h) \cup {OpSlot(n, j) : j \in DOMAIN ops}
      /\ \A j : OpSlot(n, j) \notin AllSlots(h)
      /\ \A s \in AllSlots(h) : Content(g, s) = Content(h, s)
      /\ \A j : Content(g, OpSlot(n, j)) = ops[j]
  BY <1>1, AppendedSlots
<1>4. PICK c : /\ c[0] = g /\ \A k \in 1 .. N : c[k] = Track(c[k - 1], OpSlot(n, k), owned)
               /\ \A k \in 0 .. N : OnlyUses(g, c[k])
               /\ f = c[N]
  <2>1. \A i \in DOMAIN ops : ops[i][1] = "vam" => ops[i][2] \in DOMAIN h.vams
    BY DEF Known
  <2>2. \E c : /\ c[0] = g /\ \A k \in 1 .. N : c[k] = Track(c[k - 1], OpSlot(n, k), storage = "uniqued")
               /\ \A k \in 0 .. N : OnlyUses(g, c[k])
               /\ f = c[N]
    BY <1>1, <2>1, NewNodeChain
  <2>3. QED BY <1>0, <2>2, Zenon
<1> HIDE DEF f, g, n, N, S
<1>5. /\ \A j \in DOMAIN ops : ops[j] \in Refs /\ Known(h, ops[j])
      /\ \A j \in DOMAIN ops : OpSlot(n, j) \in Slots /\ OpSlot(n, j)[1] = "op" /\ OpSlot(n, j)[2] = n
  <2>1. ASSUME NEW j \in DOMAIN ops PROVE OpSlot(n, j) \in Slots /\ OpSlot(n, j)[1] = "op" /\ OpSlot(n, j)[2] = n
    BY <1>2, <1>3, SlotFacts, Shapes
  <2>2. QED BY <2>1
<1> DEFINE P == {k \in Nat : k \in 0 .. N => /\ UsesKept(c[k], S(k))
                                             /\ \A j \in DOMAIN g.vams : \A use \in Among(c[k].vams[j].uses) : OwnedAs(g, use)}
<1>6. 0 \in P
  <2>1. S(0) = AllSlots(h)
    BY DEF S
  <2>2. UsesKept(g, AllSlots(h))
    BY <1>2, <1>3 DEF Tracked, Linked, UsesKept
  <2>3. ASSUME NEW j \in DOMAIN g.vams, NEW use \in Among(g.vams[j].uses) PROVE OwnedAs(g, use)
    <3>1. OwnedAs(h, use) /\ use.slot \in AllSlots(h)
      BY <1>1, <1>2, <2>3, UseHasSlot DEF Tracked, Linked, Owned
    <3>2. use.slot[1] = "op" => use.slot[2] \in DOMAIN h.nodes
      BY <1>1, <3>1, SlotFacts
    <3>3. QED BY <1>2, <3>1, <3>2 DEF OwnedAs
  <2>4. QED BY <1>4, <2>1, <2>2, <2>3
<1>7. ASSUME NEW k \in 1 .. N, k - 1 \in P PROVE k \in P
  <2> DEFINE b == c[k - 1]
             s == OpSlot(n, k)
  <2>1. k - 1 \in 0 .. N /\ k \in 0 .. N /\ k \in DOMAIN ops /\ k \in Nat
    BY <1>1
  <2>2. /\ OnlyUses(g, b) /\ c[k] = Track(b, s, owned) /\ UsesKept(b, S(k - 1))
        /\ \A j \in DOMAIN g.vams : \A use \in Among(b.vams[j].uses) : OwnedAs(g, use)
    BY <1>4, <1>7, <2>1
  <2> HIDE DEF b, s
  <2>3. b \in Heaps /\ DOMAIN b.vams = DOMAIN g.vams /\ \A t : Content(b, t) = Content(g, t)
    BY <2>2, SameContent DEF OnlyUses, SameVams, SameNodes, SameMavs
  <2>4. Content(b, s) = ops[k] /\ s \in Slots
    BY <1>3, <1>5, <2>1, <2>3 DEF s
  <2>5. s \notin S(k - 1)
    <3>1. \A j \in 1 .. k - 1 : OpSlot(n, j) # OpSlot(n, k)
      BY Shapes
    <3>2. QED BY <1>3, <3>1 DEF S, s
  <2>6. S(k) = S(k - 1) \cup {s}
    <3>1. 1 .. k = 1 .. (k - 1) \cup {k}
      BY <2>1
    <3>2. QED BY <3>1 DEF S, s
  <2>7. ops[k] \in Refs /\ (ops[k][1] = "vam" => ops[k][2] \in DOMAIN b.vams)
    BY <1>2, <1>5, <2>1, <2>3 DEF Known
  <2>8. /\ UsesKept(c[k], S(k))
        /\ \A j \in DOMAIN b.vams :
              \/ Among(c[k].vams[j].uses) = Among(b.vams[j].uses)
              \/ Among(c[k].vams[j].uses) = Among(b.vams[j].uses) \cup {[slot |-> s, owned |-> owned]}
    <3> DEFINE T == S(k - 1)
    <3> HIDE DEF T
    <3>1. b \in Heaps /\ UsesKept(b, T) /\ s \in Slots /\ s \notin T /\ owned \in BOOLEAN
      BY <1>1, <2>2, <2>3, <2>4, <2>5 DEF T
    <3>2. Content(b, s) \in Refs /\ (Content(b, s)[1] = "vam" => Content(b, s)[2] \in DOMAIN b.vams)
      BY <2>4, <2>7
    <3> DEFINE a == Track(b, s, owned)
               md == Content(b, s)
    <3>3. /\ OnlyUses(b, a) /\ UsesKept(a, T \cup {s})
          /\ \A j \in DOMAIN b.vams :
                \/ Among(a.vams[j].uses) = Among(b.vams[j].uses)
                \/ md = Vam(j) /\ Among(a.vams[j].uses) = Among(b.vams[j].uses) \cup {[slot |-> s, owned |-> owned]}
      BY <3>1, <3>2, TrackFacts
    <3>4. DOMAIN b.vams = DOMAIN g.vams /\ c[k] = Track(b, s, owned) /\ S(k) = T \cup {s}
      BY <2>2, <2>3, <2>6 DEF T
    <3>5. QED BY ONLY <3>3, <3>4
  <2>9. OwnedAs(g, [slot |-> s, owned |-> owned])
    BY <1>0, <1>2, <1>5, <2>1 DEF OwnedAs, s
  <2> DEFINE e == [slot |-> s, owned |-> owned]
  <2> HIDE DEF e
  <2>10. ASSUME NEW j \in DOMAIN g.vams, NEW use \in Among(c[k].vams[j].uses) PROVE OwnedAs(g, use)
    <3>1. use \in Among(b.vams[j].uses) \/ use = e
      BY <2>3, <2>8 DEF e
    <3>2. QED BY <2>2, <2>9, <3>1 DEF e
  <2>11. QED BY <2>1, <2>8, <2>10
<1>8. N \in P
  <2> HIDE DEF P
  <2>1. P \in SUBSET Nat
    BY DEF P
  <2>2. QED BY <1>1, <1>6, <1>7, <2>1, CountUp
<1>9. /\ f \in Heaps /\ OnlyUses(g, f) /\ UsesKept(f, S(N))
      /\ \A j \in DOMAIN g.vams : \A use \in Among(f.vams[j].uses) : OwnedAs(g, use)
  <2>1. N \in 0 .. N
    BY <1>1
  <2>2. QED BY <1>4, <1>8, <2>1 DEF OnlyUses
<1> HIDE DEF P
<1>10. /\ f.nodes = g.nodes /\ f.store = h.store /\ SameVams(h, f) /\ SameMap(h, f) /\ SameMavs(h, f)
       /\ AllSlots(f) = AllSlots(g) /\ \A s : Content(f, s) = Content(g, s)
  <2>1. f.nodes = g.nodes /\ f.store = h.store /\ SameVams(h, f) /\ SameMap(h, f) /\ SameMavs(h, f)
    BY <1>2, <1>9 DEF OnlyUses, SameVams, SameMap, SameNodes, SameMavs
  <2>2. f.mavs = g.mavs
    BY <1>9 DEF OnlyUses, SameMavs
  <2>3. QED BY <2>1, <2>2, SameContent
<1>11. Grown(h, f)
  BY <1>2, <1>10 DEF Grown
<1>12. UsesKept(f, AllSlots(f))
  BY <1>1, <1>3, <1>9, <1>10 DEF S
<1>13. ASSUME NEW s \in AllSlots(f) PROVE Known(f, Content(f, s))
  <2>1. \A md : Known(h, md) => Known(f, md)
    BY <1>2, <1>10 DEF Known, SameVams
  <2>2. Known(h, Content(f, s))
    BY <1>3, <1>5, <1>10 DEF Tracked, Linked
  <2>3. QED BY <2>1, <2>2
<1>14. Owned(f)
  BY <1>9, <1>10 DEF Owned, OwnedAs, OnlyUses, SameVams
<1>15. Stored(f) /\ \A j \in DOMAIN f.nodes : j # n => UniqueNode(f, j)
  BY <1>2, <1>10 DEF Tracked, Linked, Stored, Unique, UniqueNode
<1>16. Wrapped(f)
  BY <1>10 DEF Tracked, Linked, Wrapped, SameMavs
<1>17. ops = <<>> => f.vams = h.vams
  BY <1>2, <1>4 DEF N
<1>18. QED BY <1>2, <1>9, <1>10, <1>11, <1>12, <1>13, <1>14, <1>15, <1>16, <1>17 DEF f, n

(***************************************************************************)
(* GetNode finds a node, or makes one; one that is uniqued is found under  *)
(* its operands from then on.                                              *)
(***************************************************************************)
LEMMA GetNodeFacts ==
  ASSUME NEW h, Tracked(h), NEW ops \in Seq(Refs), NEW storage \in {"uniqued", "distinct"},
         \A i \in DOMAIN ops : Known(h, ops[i])
  PROVE  LET f == GetNode(h, ops, storage).h
             md == GetNode(h, ops, storage).md
         IN  /\ Tracked(f) /\ Grown(h, f) /\ (ops = <<>> => f.vams = h.vams)
             /\ md[2] \in DOMAIN f.nodes /\ md = Node(md[2]) /\ DOMAIN f.nodes[md[2]].ops = DOMAIN ops
             /\ \A j \in DOMAIN f.nodes \ DOMAIN h.nodes : f.nodes[j].ops = ops
             /\ storage = "uniqued" => ops \in DOMAIN f.store /\ md[2] = f.store[ops]
<1> DEFINE f == GetNode(h, ops, storage).h
           md == GetNode(h, ops, storage).md
           g == NewNode(h, ops, storage)
           n == Len(g.nodes)
           u == [g EXCEPT !.store = Enter(@, ops, n)]
<1>1. CASE storage = "uniqued" /\ ops \in DOMAIN h.store
  <2>1. f = h /\ md = Node(h.store[ops])
    BY <1>1 DEF GetNode
  <2> HIDE DEF f, md
  <2>2. h.store[ops] \in DOMAIN h.nodes /\ DOMAIN h.nodes[h.store[ops]].ops = DOMAIN ops
    BY <1>1 DEF Tracked, Linked, Stored
  <2>3. Grown(h, h)
    BY DEF Grown, SameVams, SameMap, SameMavs
  <2>4. QED BY <1>1, <2>1, <2>2, <2>3, Shapes DEF f, md
<1>2. /\ g \in Heaps /\ Grown(h, g) /\ g.store = h.store /\ (ops = <<>> => g.vams = h.vams)
      /\ n \in DOMAIN g.nodes /\ DOMAIN g.nodes = DOMAIN h.nodes \cup {n}
      /\ g.nodes[n].ops = ops /\ g.nodes[n].storage = storage
      /\ (\A s \in AllSlots(g) : Known(g, Content(g, s)))
      /\ UsesKept(g, AllSlots(g)) /\ Owned(g) /\ Stored(g) /\ Wrapped(g)
      /\ \A j \in DOMAIN g.nodes : j # n => UniqueNode(g, j)
  <2> DEFINE l == Len(h.nodes) + 1
  <2> HIDE DEF g
  <2>1. /\ g \in Heaps /\ Grown(h, g) /\ g.store = h.store /\ (ops = <<>> => g.vams = h.vams)
        /\ DOMAIN g.nodes = DOMAIN h.nodes \cup {l} /\ Len(g.nodes) = l
        /\ g.nodes[l].ops = ops /\ g.nodes[l].storage = storage
        /\ (\A s \in AllSlots(g) : Known(g, Content(g, s)))
        /\ UsesKept(g, AllSlots(g)) /\ Owned(g) /\ Stored(g) /\ Wrapped(g)
        /\ \A j \in DOMAIN g.nodes : j # l => UniqueNode(g, j)
    BY NewNodeFacts DEF g
  <2>2. n = l
    BY <2>1
  <2> HIDE DEF n, l
  <2>3. QED BY <2>1, <2>2
<1>3. CASE storage = "uniqued" /\ ops \notin DOMAIN h.store
  <2>1. f = u /\ md = Node(n)
    BY <1>3 DEF GetNode
  <2>2. u = Uniquify(g, n)
    BY <1>2, <1>3 DEF Uniquify
  <2>3. Restored(g, u) /\ u.nodes = g.nodes /\ DOMAIN u.store = DOMAIN g.store \cup {ops} /\ u.store[ops] = n
    <3> HIDE DEF g, n
    <3> DEFINE e == [g EXCEPT !.store = Enter(@, g.nodes[n].ops, n)]
    <3>1. u = e
      BY <1>2
    <3>2. /\ Restored(g, e) /\ e.nodes = g.nodes /\ DOMAIN e.store = DOMAIN g.store \cup {g.nodes[n].ops}
          /\ e.store[g.nodes[n].ops] = n
      <4>1. g \in Heaps /\ n \in DOMAIN g.nodes
        BY <1>2
      <4>2. QED BY ONLY <4>1, StoreFacts
    <3> HIDE DEF e, u
    <3>3. QED BY <1>2, <3>1, <3>2
  <2> HIDE DEF f, md, g, n, u
  <2>4. Restored(g, u) /\ Unique(u) /\ Stored(u)
    BY <1>2, <2>2, UniquifyFacts
  <2>5. Tracked(u)
    <3>1. (\A s \in AllSlots(u) : Known(u, Content(u, s))) /\ UsesKept(u, AllSlots(u)) /\ Wrapped(u)
      BY <1>2, <2>3, RestoredKeeps
    <3>2. Owned(u) /\ u \in Heaps
      BY <1>2, <2>3, RestoredOwned DEF Restored
    <3>3. QED BY <2>4, <3>1, <3>2 DEF Tracked, Linked
  <2>6. Grown(h, u) /\ u.vams = g.vams
    BY <1>2, <2>3 DEF Grown, Restored, SameVams, SameMap, SameMavs
  <2>7. /\ Tracked(f) /\ Grown(h, f) /\ (ops = <<>> => f.vams = h.vams)
        /\ md[2] \in DOMAIN f.nodes /\ md = Node(md[2]) /\ DOMAIN f.nodes[md[2]].ops = DOMAIN ops
        /\ \A j \in DOMAIN f.nodes \ DOMAIN h.nodes : f.nodes[j].ops = ops
        /\ ops \in DOMAIN f.store /\ md[2] = f.store[ops]
    BY <1>2, <2>1, <2>3, <2>5, <2>6, Shapes
  <2>8. QED BY <2>7 DEF f, md
<1>4. CASE storage # "uniqued"
  <2>1. f = g /\ md = Node(n)
    BY <1>4 DEF GetNode
  <2> HIDE DEF f, md, g, n, u
  <2>2. Unique(g)
    BY <1>2, <1>4 DEF Unique, UniqueNode
  <2>3. Tracked(g)
    BY <1>2, <2>2 DEF Tracked, Linked
  <2>4. QED BY <1>2, <1>4, <2>1, <2>3, Shapes DEF f, md
<1>5. QED BY <1>1, <1>3, <1>4

(* A sequence as long as one without elements.                             *)
LEMMA NoOperands ==
  ASSUME NEW ops \in Seq(Refs), DOMAIN ops = DOMAIN <<>>
  PROVE  ops = <<>>
<1>1. Len(ops) \in Nat /\ DOMAIN ops = 1 .. Len(ops) /\ DOMAIN <<>> = {}
  OBVIOUS
<1>2. Len(ops) = 0
  <2>1. Len(ops) >= 1 => 1 \in DOMAIN ops
    BY <1>1
  <2>2. QED BY <1>1, <2>1
<1>3. QED BY <1>2

(***************************************************************************)
(* CanonicalizeMetadataForValue makes no metadata the node without         *)
(* operands, and leaves a wrapped value as it is.                          *)
(***************************************************************************)
LEMMA CanonicalizeFacts ==
  ASSUME NEW h, Tracked(h), NEW md \in Refs, Known(h, md)
  PROVE  LET g == Canonicalize(h, md).h
             r == Canonicalize(h, md).md
         IN  /\ Tracked(g) /\ Grown(h, g) /\ g.vams = h.vams
             /\ \A j \in DOMAIN g.nodes \ DOMAIN h.nodes : g.nodes[j].ops = <<>>
             /\ r \in Refs /\ r # Nil /\ Known(g, r)
             /\ md = Nil => r[1] = "node" /\ g.nodes[r[2]].ops = <<>>
             /\ md[1] = "vam" => r = md
<1> DEFINE g == Canonicalize(h, md).h
           r == Canonicalize(h, md).md
           ops == IF md[1] = "node" THEN h.nodes[md[2]].ops ELSE <<>>
           f == GetNode(h, <<>>, "uniqued").h
           e == GetNode(h, <<>>, "uniqued").md
<1>1. h \in Heaps
  BY DEF Tracked, Linked
<1>2. CASE md = Nil \/ ops = <<Nil>>
  <2>1. Canonicalize(h, md) = GetNode(h, <<>>, "uniqued")
    BY ONLY <1>2, Zenon DEF Canonicalize
  <2>2. g = f /\ r = e
    BY <2>1
  <2>3. /\ Tracked(f) /\ Grown(h, f) /\ f.vams = h.vams
        /\ e[2] \in DOMAIN f.nodes /\ e = Node(e[2]) /\ DOMAIN f.nodes[e[2]].ops = DOMAIN <<>>
        /\ \A j \in DOMAIN f.nodes \ DOMAIN h.nodes : f.nodes[j].ops = <<>>
    <3> HIDE DEF e, f
    <3>1. <<>> \in Seq(Refs) /\ DOMAIN <<>> = {}
      OBVIOUS
    <3>2. \A i \in DOMAIN <<>> : Known(h, <<>>[i])
      BY <3>1
    <3>3. PICK none \in Seq(Refs) : none = <<>>
      BY <3>1
    <3>4. "uniqued" \in {"uniqued", "distinct"} /\ \A i \in DOMAIN none : Known(h, none[i])
      BY <3>2, <3>3
    <3> DEFINE a == GetNode(h, none, "uniqued").h
               r0 == GetNode(h, none, "uniqued").md
    <3>5. /\ Tracked(a) /\ Grown(h, a) /\ (none = <<>> => a.vams = h.vams)
          /\ r0[2] \in DOMAIN a.nodes /\ r0 = Node(r0[2]) /\ DOMAIN a.nodes[r0[2]].ops = DOMAIN none
          /\ \A j \in DOMAIN a.nodes \ DOMAIN h.nodes : a.nodes[j].ops = none
      BY <3>4, GetNodeFacts
    <3>6. a = f /\ r0 = e
      BY ONLY <3>3, Zenon DEF e, f
    <3> HIDE DEF a, r0
    <3>7. QED BY <3>3, <3>5, <3>6
  <2> HIDE DEF e, f, g, r, ops
  <2>4. f.nodes[e[2]].ops \in Seq(Refs) /\ e[2] \in Nat
    BY <2>3, HeapFacts DEF Tracked, Linked
  <2>5. f.nodes[e[2]].ops = <<>>
    BY <2>3, <2>4, NoOperands
  <2>6. e[1] = "node" /\ e \in Refs /\ e # Nil /\ Known(f, e)
    BY <2>3, <2>4, Shapes DEF Known
  <2>7. md[1] # "vam"
    <3>1. CASE md = Nil
      BY <3>1, Shapes
    <3>2. CASE ops = <<Nil>>
      BY <3>2 DEF ops
    <3>3. QED BY <1>2, <3>1, <3>2
  <2>8. QED BY <2>2, <2>3, <2>5, <2>6, <2>7 DEF g, r
<1>3. CASE ~ (md = Nil \/ ops = <<Nil>>)
  <2>1. g = h /\ (r = md \/ (Len(ops) = 1 /\ r = ops[1] /\ ops[1][1] = "vam"))
    BY <1>3 DEF Canonicalize
  <2> HIDE DEF e, f, g, r
  <2>2. md[1] = "vam" => ops = <<>>
    OBVIOUS
  <2>3. Len(<<>>) = 0
    OBVIOUS
  <2>4. md[1] = "vam" => r = md
    BY <2>1, <2>2, <2>3
  <2>5. r \in Refs /\ r # Nil /\ Known(h, r)
    <3>1. CASE r = md
      BY <1>3, <3>1
    <3>2. CASE Len(ops) = 1 /\ r = ops[1] /\ ops[1][1] = "vam"
      <4>1. md[1] = "node" /\ ops = h.nodes[md[2]].ops /\ md[2] \in DOMAIN h.nodes
        BY <2>3, <3>2 DEF Known
      <4> HIDE DEF ops
      <4>2. ops \in Seq(Refs)
        BY <1>1, <4>1, HeapFacts
      <4>3. 1 \in DOMAIN ops /\ r \in Refs
        <5>1. DOMAIN ops = 1 .. Len(ops) /\ \A i \in DOMAIN ops : ops[i] \in Refs
          BY ONLY <4>2
        <5>2. Len(ops) = 1 /\ r = ops[1]
          BY <3>2
        <5>3. 1 \in DOMAIN ops
          BY ONLY <5>1, <5>2
        <5>4. QED BY ONLY <5>1, <5>2, <5>3
      <4>4. OpSlot(md[2], 1) \in AllSlots(h) /\ Content(h, OpSlot(md[2], 1)) = r
        <5> DEFINE n == md[2]
        <5> HIDE DEF n
        <5>1. n \in DOMAIN h.nodes /\ 1 \in DOMAIN h.nodes[n].ops /\ h.nodes[n].ops[1] = r
          BY <3>2, <4>1, <4>3 DEF n
        <5>2. OpSlot(n, 1) \in AllSlots(h) /\ Content(h, OpSlot(n, 1)) = h.nodes[n].ops[1]
          BY <1>1, <5>1, SlotFacts
        <5>3. QED BY <5>1, <5>2 DEF n
      <4>5. Known(h, r)
        BY <4>4 DEF Tracked, Linked
      <4>6. QED BY <3>2, <4>3, <4>5, Shapes
    <3>3. QED BY <2>1, <3>1, <3>2
  <2>6. Grown(h, h)
    BY DEF Grown, SameVams, SameMap, SameMavs
  <2>7. QED BY <1>3, <2>1, <2>4, <2>5, <2>6 DEF g, r
<1>4. QED BY <1>2, <1>3

-----------------------------------------------------------------------------
(***************************************************************************)
(* From h to g, no slot changes and no use.                                *)
(***************************************************************************)
SameLinks(h, g) ==
  /\ g \in Heaps /\ SameNodes(h, g)
  /\ DOMAIN g.vams = DOMAIN h.vams
  /\ \A k \in DOMAIN h.vams : g.vams[k].uses = h.vams[k].uses /\ g.vams[k].live = h.vams[k].live
  /\ DOMAIN g.mavs = DOMAIN h.mavs /\ \A m \in DOMAIN h.mavs : g.mavs[m].md = h.mavs[m].md

(* Slots and uses stay linked.                                             *)
LEMMA LinkedStays ==
  ASSUME NEW h, Linked(h), NEW g, SameLinks(h, g)
  PROVE  Linked(g)
<1>1. h \in Heaps /\ g \in Heaps /\ g.nodes = h.nodes /\ g.store = h.store /\ DOMAIN g.mavs = DOMAIN h.mavs
  BY DEF Linked, SameLinks, SameNodes
<1>2. AllSlots(g) = AllSlots(h)
  BY <1>1 DEF AllSlots, OpSlots
<1>3. ASSUME NEW s \in AllSlots(h) PROVE Content(g, s) = Content(h, s)
  BY <1>1, SlotFacts DEF SameLinks
<1>4. \A s \in AllSlots(g) : Known(g, Content(g, s))
  <2>1. \A md : Known(h, md) => Known(g, md)
    BY <1>1 DEF Known, SameLinks
  <2>2. QED BY <1>2, <1>3, <2>1 DEF Linked
<1>5. UsesKept(g, AllSlots(g))
  BY <1>2, <1>3 DEF Linked, UsesKept, SameLinks
<1>6. Owned(g)
  BY <1>1 DEF Linked, Owned, OwnedAs, SameLinks
<1>7. Unique(g) /\ Stored(g)
  BY <1>1 DEF Linked, Unique, UniqueNode, Stored
<1>8. QED BY <1>1, <1>4, <1>5, <1>6, <1>7 DEF Linked

(***************************************************************************)
(* What a MetadataAsValue wraps is made to be something else.              *)
(***************************************************************************)
LEMMA MoveMavFacts ==
  ASSUME NEW h, Linked(h), NEW m \in DOMAIN h.mavs, NEW md \in Refs, Known(h, md)
  PROVE  LET s == MavSlot(m)
             g == Move(h, s, md, TRUE)
         IN  /\ Linked(g) /\ SameVams(h, g) /\ SameMap(h, g) /\ SameNodes(h, g) /\ FewerUses(h, g, s, md)
             /\ g.byMd = h.byMd /\ g.calls = h.calls /\ g.changes = h.changes
             /\ DOMAIN g.mavs = DOMAIN h.mavs /\ g.mavs[m].md = md
             /\ \A j \in DOMAIN h.mavs : g.mavs[j].live = h.mavs[j].live /\ (j # m => g.mavs[j] = h.mavs[j])
<1> DEFINE s == MavSlot(m)
           g == Move(h, s, md, TRUE)
<1>1. h \in Heaps /\ UsesKept(h, AllSlots(h)) /\ (\A t \in AllSlots(h) : Known(h, Content(h, t)))
  BY DEF Linked
<1>2. s \in AllSlots(h) /\ s[1] = "mav" /\ s[1] # "op" /\ \A j : s = MavSlot(j) => j = m
  BY <1>1, SlotFacts, Shapes
<1> HIDE DEF s
<1>3. /\ SlotOnly(h, g, s) /\ Content(g, s) = md /\ UsesKept(g, AllSlots(g))
      /\ \A t \in AllSlots(g) : Known(g, Content(g, t))
  <2>1. s \in AllSlots(h)
    BY <1>2
  <2> DEFINE p(o) == Move(h, s, md, o)
  <2>2. ASSUME NEW o \in BOOLEAN
        PROVE  /\ SlotOnly(h, p(o), s) /\ Content(p(o), s) = md /\ UsesKept(p(o), AllSlots(p(o)))
               /\ \A t \in AllSlots(p(o)) : Known(p(o), Content(p(o), t))
    BY ONLY <1>1, <2>1, md \in Refs, Known(h, md), o \in BOOLEAN, MoveFacts
  <2>3. g = p(TRUE)
    OBVIOUS
  <2> HIDE DEF g, p
  <2>4. QED BY <2>2, <2>3
<1> HIDE DEF g
<1>4. \A k \in DOMAIN h.vams : \A use \in Among(g.vams[k].uses) :
          \/ use \in Among(h.vams[k].uses) /\ use.slot # s
          \/ md = Vam(k) /\ use = [slot |-> s, owned |-> TRUE]
  BY <1>1, <1>2, MoveFacts DEF g
<1>5. g \in Heaps /\ DOMAIN g.vams = DOMAIN h.vams /\ DOMAIN g.nodes = DOMAIN h.nodes /\ g.store = h.store
      /\ \A n \in DOMAIN h.nodes : g.nodes[n] = h.nodes[n]
  BY <1>2, <1>3 DEF SlotOnly, SameVams
<1>6. g.nodes = h.nodes
  <2>1. h.nodes \in Seq(Nodes) /\ g.nodes \in Seq(Nodes)
    BY <1>1, <1>5, HeapFacts
  <2>2. QED BY <1>5, <2>1
<1>7. ASSUME NEW k \in DOMAIN g.vams, NEW use \in Among(g.vams[k].uses) PROVE OwnedAs(g, use)
  <2>1. CASE use \in Among(h.vams[k].uses)
    BY <1>5, <1>6, <2>1 DEF Linked, Owned, OwnedAs
  <2>2. CASE use = [slot |-> s, owned |-> TRUE]
    BY <2>2 DEF OwnedAs
  <2>3. QED BY <1>4, <1>5, <2>1, <2>2
<1>8. Linked(g)
  <2>1. Owned(g)
    BY <1>7 DEF Owned
  <2>2. Unique(g) /\ Stored(g)
    BY <1>5, <1>6 DEF Linked, Unique, UniqueNode, Stored
  <2>3. QED BY <1>3, <1>5, <2>1, <2>2 DEF Linked
<1>9. FewerUses(h, g, s, md)
  BY <1>4 DEF FewerUses
<1>10. g.mavs[m].md = md
  BY <1>3, <1>5, SlotFacts DEF s
<1>11. QED BY <1>2, <1>3, <1>5, <1>6, <1>8, <1>9, <1>10 DEF SlotOnly, SameNodes, g, s

(* The entry of some metadata is taken out.                                *)
LEMMA ForgetFacts ==
  ASSUME NEW h \in Heaps, NEW md
  PROVE  LET g == Forget(h, md)
         IN  /\ g \in Heaps /\ g.vams = h.vams /\ SameMap(h, g) /\ SameNodes(h, g) /\ g.mavs = h.mavs
             /\ g.calls = h.calls /\ g.changes = h.changes
             /\ DOMAIN g.byMd = DOMAIN h.byMd \ {md} /\ \A x \in DOMAIN g.byMd : g.byMd[x] = h.byMd[x]
<1> DEFINE byMd == [x \in DOMAIN h.byMd \ {md} |-> h.byMd[x]]
           g == Forget(h, md)
<1>1. g = [h EXCEPT !.byMd = byMd]
  BY DEF Forget
<1>2. h.byMd \in Partial(Refs, Nat)
  BY HeapFacts
<1>3. byMd \in Partial(Refs, Nat)
  BY <1>2, LeaveTyped
<1>4. DOMAIN byMd = DOMAIN h.byMd \ {md} /\ \A x \in DOMAIN byMd : byMd[x] = h.byMd[x]
  OBVIOUS
<1> HIDE DEF byMd, g
<1>5. /\ g \in Heaps /\ g.byMd = byMd /\ g.vams = h.vams /\ SameMap(h, g) /\ SameNodes(h, g)
      /\ g.mavs = h.mavs /\ g.calls = h.calls /\ g.changes = h.changes
  BY <1>1, <1>3 DEF Heaps, SameMap, SameNodes
<1>6. QED BY <1>4, <1>5 DEF g

(* The changes have become x, and the entry of no metadata finds m.        *)
Counted(h, x)     == [h EXCEPT !.changes = x]
Entered(h, x, m)  == [Counted(h, x) EXCEPT !.byMd = Enter(@, Nil, m)]

(* What is written twice is what was written last, whatever is counted.    *)
LEMMA PutTwice ==
  ASSUME NEW h \in Heaps, NEW m \in DOMAIN h.mavs, NEW md \in Refs, NEW x \in Nat, NEW owned \in BOOLEAN
  PROVE  LET s == MavSlot(m)
         IN  Track(Put(Counted(Put(h, s, Nil), x), s, md), s, owned) = Counted(Track(Put(h, s, md), s, owned), x)
<1> DEFINE s == MavSlot(m)
           none == [h.mavs EXCEPT ![m].md = Nil]
           mavs == [h.mavs EXCEPT ![m].md = md]
           p == [h EXCEPT !.mavs = mavs]
           q == [p EXCEPT !.changes = x]
<1>1. s[1] # "op" /\ s[2] = m
  BY Shapes
<1>2. h.mavs \in Seq(Mavs) /\ h.mavs[m] \in Mavs
  BY HeapFacts
<1>3. Put(h, s, Nil) = [h EXCEPT !.mavs = none] /\ Put(h, s, md) = p
  BY <1>1 DEF Put
<1>4. [none EXCEPT ![m].md = md] = mavs
  <2>1. none = [h.mavs EXCEPT ![m] = [h.mavs[m] EXCEPT !.md = Nil]] /\ mavs = [h.mavs EXCEPT ![m] = [h.mavs[m] EXCEPT !.md = md]]
    OBVIOUS
  <2>2. none[m] = [h.mavs[m] EXCEPT !.md = Nil]
    BY <1>2, <2>1
  <2>3. [none[m] EXCEPT !.md = md] = [h.mavs[m] EXCEPT !.md = md]
    BY <1>2, <2>2 DEF Mavs
  <2>4. [none EXCEPT ![m].md = md] = [none EXCEPT ![m] = [none[m] EXCEPT !.md = md]]
    OBVIOUS
  <2>5. [[h.mavs EXCEPT ![m] = [h.mavs[m] EXCEPT !.md = Nil]] EXCEPT ![m] = [h.mavs[m] EXCEPT !.md = md]]
          = [h.mavs EXCEPT ![m] = [h.mavs[m] EXCEPT !.md = md]]
    BY <1>2
  <2>6. QED BY <2>1, <2>3, <2>4, <2>5
<1> HIDE DEF s, none, mavs
<1>5. Put([Put(h, s, Nil) EXCEPT !.changes = x], s, md) = q
  <2> DEFINE y == [[h EXCEPT !.mavs = none] EXCEPT !.changes = x]
  <2>1. y.mavs = none
    BY DEF Heaps
  <2>2. Put(y, s, md) = [y EXCEPT !.mavs = [y.mavs EXCEPT ![m].md = md]]
    BY <1>1 DEF Put
  <2>3. [y EXCEPT !.mavs = mavs] = q
    BY DEF Heaps
  <2> HIDE DEF y, q
  <2>4. QED BY <1>3, <1>4, <2>1, <2>2, <2>3 DEF y
<1>6. /\ Content(q, s) = Content(p, s) /\ q.vams = p.vams
      /\ \A v : [q EXCEPT !.vams = v] = [[p EXCEPT !.vams = v] EXCEPT !.changes = x]
  BY <1>1 DEF Heaps, Content
<1>7. Track(q, s, owned) = [Track(p, s, owned) EXCEPT !.changes = x]
  <2> DEFINE r == Content(p, s)
             v(z) == [z.vams EXCEPT ![r[2]].uses = Append(@, [slot |-> s, owned |-> owned])]
  <2>1. v(q) = v(p)
    BY <1>6
  <2>2. Track(p, s, owned) = IF r[1] # "vam" THEN p ELSE [p EXCEPT !.vams = v(p)]
    BY DEF Track
  <2>3. Track(q, s, owned) = IF r[1] # "vam" THEN q ELSE [q EXCEPT !.vams = v(q)]
    BY <1>6 DEF Track
  <2>4. q = [p EXCEPT !.changes = x]
    OBVIOUS
  <2> HIDE DEF p, q, v, r
  <2>5. [q EXCEPT !.vams = v(p)] = [[p EXCEPT !.vams = v(p)] EXCEPT !.changes = x]
    BY <1>6
  <2>6. QED BY ONLY <2>1, <2>2, <2>3, <2>4, <2>5
<1>8. QED BY <1>3, <1>5, <1>7 DEF s, Counted

(***************************************************************************)
(* From h to g, what MetadataAsValue m wraps has become md, or, if that is *)
(* none, the node without operands; it is another one that stands for m    *)
(* afterwards at the earliest when a change is not the first.              *)
(***************************************************************************)
Stands(h, r, md) ==
  IF md = Nil THEN r[1] = "node" /\ r[2] \in DOMAIN h.nodes /\ h.nodes[r[2]].ops = <<>> ELSE r = md

MavChanged(h, g, m, md) ==
  /\ SameVams(h, g) /\ SameMap(h, g) /\ FewerUses(h, g, MavSlot(m), md)
  /\ DOMAIN h.nodes \subseteq DOMAIN g.nodes /\ \A n \in DOMAIN h.nodes : g.nodes[n] = h.nodes[n]
  /\ \A n \in DOMAIN g.nodes \ DOMAIN h.nodes : g.nodes[n].ops = <<>>
  /\ DOMAIN g.mavs = DOMAIN h.mavs /\ g.changes = h.changes + 1
  /\ h.changes = 0 => /\ g.calls = h.calls /\ Stands(g, g.mavs[m].md, md)
                      /\ \A j \in DOMAIN h.mavs : j # m => g.mavs[j].md = h.mavs[j].md

(* The reference of m is made to be md, and no entry but that of no        *)
(* metadata finds m.                                                       *)
Cleared(a, b, e, m, md) ==
  /\ Linked(e) /\ SameVams(a, e) /\ SameMap(a, e) /\ SameNodes(a, e) /\ FewerUses(a, e, MavSlot(m), md)
  /\ e.calls = a.calls /\ e.changes = a.changes /\ e.byMd = b.byMd
  /\ DOMAIN e.mavs = DOMAIN a.mavs /\ e.mavs[m].md = md /\ a.mavs[m].live
  /\ \A j \in DOMAIN a.mavs : e.mavs[j].live = a.mavs[j].live /\ (j # m => e.mavs[j] = a.mavs[j])
  /\ DOMAIN e.byMd \subseteq DOMAIN a.byMd
  /\ \A x \in DOMAIN e.byMd : e.byMd[x] = a.byMd[x] /\ (x # Nil => e.byMd[x] # m)

(* What a change leaves before m is entered again.                         *)
LEMMA ClearedFacts ==
  ASSUME NEW a, Tracked(a), NEW m \in DOMAIN a.mavs, a.mavs[m].md # Nil, NEW md \in Refs, Known(a, md)
  PROVE  LET b == Forget(a, a.mavs[m].md)
             s == MavSlot(m)
             e == Move(b, s, md, TRUE)
         IN  b \in Heaps /\ Linked(b) /\ b.mavs = a.mavs /\ Cleared(a, b, e, m, md)
<1> DEFINE old == a.mavs[m].md
           b == Forget(a, old)
           s == MavSlot(m)
           e == Move(b, s, md, TRUE)
<1>1. a \in Heaps /\ Linked(a) /\ Wrapped(a)
  BY DEF Tracked, Linked
<1>2. /\ b \in Heaps /\ b.vams = a.vams /\ SameMap(a, b) /\ SameNodes(a, b) /\ b.mavs = a.mavs
      /\ b.calls = a.calls /\ b.changes = a.changes
      /\ DOMAIN b.byMd = DOMAIN a.byMd \ {old} /\ \A x \in DOMAIN b.byMd : b.byMd[x] = a.byMd[x]
  <2> HIDE DEF old
  <2>1. QED BY <1>1, ForgetFacts
<1> HIDE DEF b
<1>3. Linked(b)
  <2>1. SameLinks(a, b)
    BY <1>2 DEF SameLinks
  <2>2. QED BY <1>1, <2>1, LinkedStays
<1>4. Known(b, md) /\ m \in DOMAIN b.mavs
  BY <1>2 DEF Known, SameNodes
<1>5. /\ Linked(e) /\ SameVams(b, e) /\ SameMap(b, e) /\ SameNodes(b, e) /\ FewerUses(b, e, s, md)
      /\ e.byMd = b.byMd /\ e.calls = b.calls /\ e.changes = b.changes
      /\ DOMAIN e.mavs = DOMAIN b.mavs /\ e.mavs[m].md = md
      /\ \A j \in DOMAIN b.mavs : e.mavs[j].live = b.mavs[j].live /\ (j # m => e.mavs[j] = b.mavs[j])
  BY ONLY <1>3, <1>4, md \in Refs, MoveMavFacts
<1> HIDE DEF s, e
<1>6. SameVams(a, e) /\ SameMap(a, e) /\ SameNodes(a, e) /\ FewerUses(a, e, s, md)
  BY <1>2, <1>5 DEF SameVams, SameMap, SameNodes, FewerUses
<1>7. a.mavs[m].live
  BY <1>1 DEF Wrapped
<1>8. DOMAIN e.byMd \subseteq DOMAIN a.byMd
      /\ \A x \in DOMAIN e.byMd : e.byMd[x] = a.byMd[x] /\ (x # Nil => e.byMd[x] # m)
  <2>1. \A x \in DOMAIN a.byMd : x # Nil /\ x # old => a.byMd[x] # m
    BY <1>1 DEF Wrapped
  <2>2. QED BY <1>2, <1>5, <2>1
<1> HIDE DEF old
<1>9. b \in Heaps /\ Linked(b) /\ b.mavs = a.mavs /\ Cleared(a, b, e, m, md)
  BY ONLY <1>2, <1>3, <1>5, <1>6, <1>7, <1>8 DEF Cleared, s
<1>10. QED BY <1>9 DEF b, s, e, old

(* A reference that is cleared is not tracked.                             *)
LEMMA ClearedIs ==
  ASSUME NEW h, Linked(h), NEW m \in DOMAIN h.mavs
  PROVE  LET s == MavSlot(m)
             u == Untrack(h, s)
         IN  u \in Heaps /\ m \in DOMAIN u.mavs /\ Put(u, s, Nil) = Move(h, s, Nil, TRUE)
<1> DEFINE s == MavSlot(m)
           u == Untrack(h, s)
           p == Put(u, s, Nil)
<1>1. h \in Heaps /\ UsesKept(h, AllSlots(h)) /\ (\A t \in AllSlots(h) : Known(h, Content(h, t)))
  BY DEF Linked
<1>2. s \in AllSlots(h) /\ Content(h, s) \in Refs /\ (Content(h, s)[1] = "vam" => Content(h, s)[2] \in DOMAIN h.vams)
  BY <1>1, SlotFacts DEF Known
<1> HIDE DEF s, u
<1>3. OnlyUses(h, u)
  BY <1>1, <1>2, UntrackFacts DEF u
<1>4. u \in Heaps /\ u.mavs = h.mavs /\ s \in AllSlots(u)
  BY <1>2, <1>3, SameContent DEF OnlyUses, SameNodes, SameMavs
<1>5. Content(p, s) = Nil
  BY <1>4, PutFacts, Shapes
<1> HIDE DEF p
<1>6. Track(p, s, TRUE) = p
  BY <1>5, Shapes DEF Track
<1>7. QED BY <1>4, <1>6 DEF Move, p, u, s

(* No entry but that of no metadata finds m, and each other one finds what *)
(* wraps the metadata.                                                     *)
Others(e, m) ==
  /\ \A x \in DOMAIN e.byMd : x # Nil => /\ e.byMd[x] # m /\ e.byMd[x] \in DOMAIN e.mavs
                                        /\ e.mavs[e.byMd[x]].live /\ e.mavs[e.byMd[x]].md = x
  /\ \A c \in Calls : e.calls[c] # 0 => e.calls[c] \in DOMAIN e.mavs
  /\ \A j \in DOMAIN e.mavs : ~ e.mavs[j].live => e.mavs[j].md = Nil

(* The others stay as they are wrapped.                                    *)
LEMMA ClearedOthers ==
  ASSUME NEW a, Wrapped(a), NEW b, NEW e, NEW m \in DOMAIN a.mavs, NEW md, Cleared(a, b, e, m, md)
  PROVE  Others(e, m)
<1>1. ASSUME NEW x \in DOMAIN e.byMd, x # Nil
      PROVE  /\ e.byMd[x] # m /\ e.byMd[x] \in DOMAIN e.mavs
             /\ e.mavs[e.byMd[x]].live /\ e.mavs[e.byMd[x]].md = x
  <2>1. e.byMd[x] = a.byMd[x] /\ e.byMd[x] # m /\ x \in DOMAIN a.byMd
    BY <1>1 DEF Cleared
  <2>2. a.byMd[x] \in DOMAIN a.mavs /\ a.mavs[a.byMd[x]].live /\ a.mavs[a.byMd[x]].md = x
    BY <1>1, <2>1 DEF Wrapped
  <2>3. QED BY <2>1, <2>2 DEF Cleared
<1>2. \A c \in Calls : e.calls[c] # 0 => e.calls[c] \in DOMAIN e.mavs
  BY DEF Cleared, Wrapped
<1>3. \A j \in DOMAIN e.mavs : ~ e.mavs[j].live => e.mavs[j].md = Nil
  BY DEF Cleared, Wrapped
<1>4. QED BY <1>1, <1>2, <1>3 DEF Others

(* One MetadataAsValue stands for another, which is deleted.               *)
LEMMA DroppedFacts ==
  ASSUME NEW e, Linked(e), Nil \in DOMAIN e.byMd, e.byMd[Nil] \in DOMAIN e.mavs, NEW m \in DOMAIN e.mavs, e.mavs[m].md = Nil, Others(e, m)
  PROVE  LET g == [e EXCEPT !.changes = @ + 1]
             f == [Forget(g, Nil) EXCEPT !.calls = [k \in Calls |-> IF @[k] = m THEN g.byMd[Nil] ELSE @[k]], !.mavs[m].live = FALSE]
         IN  /\ Tracked(f) /\ f.vams = e.vams /\ SameMap(e, f) /\ SameNodes(e, f)
             /\ DOMAIN f.mavs = DOMAIN e.mavs /\ f.changes = e.changes + 1
<1> DEFINE g == [e EXCEPT !.changes = @ + 1]
           b == Forget(g, Nil)
           calls == [k \in Calls |-> IF b.calls[k] = m THEN g.byMd[Nil] ELSE b.calls[k]]
           mavs == [b.mavs EXCEPT ![m].live = FALSE]
           f == [b EXCEPT !.calls = calls, !.mavs = mavs]
<1>1. e \in Heaps /\ e.byMd \in Partial(Refs, Nat) /\ e.changes \in Nat
  BY HeapFacts DEF Linked
<1> DEFINE t == e.changes + 1
<1>2. g = [e EXCEPT !.changes = t] /\ t \in Nat
  BY <1>1
<1> HIDE DEF g, t
<1>3. /\ g \in Heaps /\ g.vams = e.vams /\ SameMap(e, g) /\ SameNodes(e, g) /\ g.mavs = e.mavs
      /\ g.calls = e.calls /\ g.changes = t /\ g.byMd = e.byMd
  BY ONLY <1>1, <1>2 DEF Heaps, SameMap, SameNodes
<1>0. g \in Heaps
  BY ONLY <1>3
<1>4. /\ b \in Heaps /\ b.vams = g.vams /\ SameMap(g, b) /\ SameNodes(g, b) /\ b.mavs = g.mavs
      /\ b.calls = g.calls /\ b.changes = g.changes
      /\ DOMAIN b.byMd = DOMAIN g.byMd \ {Nil} /\ \A x \in DOMAIN b.byMd : b.byMd[x] = g.byMd[x]
  BY ONLY <1>0, ForgetFacts
<1> HIDE DEF b
<1>5. g.byMd[Nil] \in Nat /\ b.calls \in [Calls -> Nat]
  BY <1>1, <1>3, <1>4, HeapFacts
<1>6. /\ calls \in [Calls -> Nat]
      /\ \A c \in Calls : calls[c] # 0 => calls[c] \in DOMAIN e.mavs
  BY <1>3, <1>4, <1>5 DEF Others
<1>7. b.mavs \in Seq(Mavs) /\ b.mavs[m] \in Mavs /\ m \in DOMAIN b.mavs
  BY <1>3, <1>4, HeapFacts
<1>8. /\ mavs \in Seq(Mavs) /\ DOMAIN mavs = DOMAIN e.mavs /\ mavs[m].md = Nil
      /\ \A j \in DOMAIN e.mavs : j # m => mavs[j] = e.mavs[j]
  <2> DEFINE x == [b.mavs[m] EXCEPT !.live = FALSE]
  <2>1. x \in Mavs /\ x.md = b.mavs[m].md
    BY <1>7 DEF Mavs
  <2>2. mavs = [b.mavs EXCEPT ![m] = x]
    OBVIOUS
  <2> HIDE DEF x, mavs
  <2>3. mavs \in Seq(Mavs) /\ DOMAIN mavs = DOMAIN b.mavs /\ mavs[m] = x /\ \A j \in DOMAIN b.mavs : j # m => mavs[j] = b.mavs[j]
    BY ONLY <1>7, <2>1, <2>2
  <2>4. QED BY <1>3, <1>4, <2>1, <2>3
<1> HIDE DEF calls, mavs
<1>9. /\ f \in Heaps /\ f.vams = b.vams /\ SameMap(b, f) /\ SameNodes(b, f) /\ f.mavs = mavs /\ f.calls = calls
      /\ f.changes = b.changes /\ f.byMd = b.byMd
  BY <1>4, <1>6, <1>8 DEF Heaps, SameMap, SameNodes
<1> HIDE DEF f
<1>10. f.vams = e.vams /\ SameMap(e, f) /\ SameNodes(e, f) /\ f.changes = e.changes + 1
  BY <1>3, <1>4, <1>9 DEF SameMap, SameNodes, t
<1>11. Linked(f)
  <2>1. SameLinks(e, f)
    BY <1>8, <1>9, <1>10 DEF SameLinks
  <2>2. QED BY <2>1, LinkedStays
<1>12. Wrapped(f)
  <2>1. ASSUME NEW x \in DOMAIN f.byMd PROVE x # Nil /\ f.byMd[x] \in DOMAIN f.mavs /\ f.mavs[f.byMd[x]].live /\ f.mavs[f.byMd[x]].md = x
    BY <1>3, <1>4, <1>8, <1>9 DEF Others
  <2>2. Nil \notin DOMAIN f.byMd
    BY <1>4, <1>9
  <2>3. \A j \in DOMAIN f.mavs : ~ f.mavs[j].live => f.mavs[j].md = Nil
    BY <1>8, <1>9 DEF Others
  <2>4. \A c \in Calls : f.calls[c] # 0 => f.calls[c] \in DOMAIN f.mavs
    BY <1>6, <1>8, <1>9
  <2>5. QED BY <2>1, <2>2, <2>3, <2>4 DEF Wrapped
<1>13. /\ Tracked(f) /\ f.vams = e.vams /\ SameMap(e, f) /\ SameNodes(e, f)
       /\ DOMAIN f.mavs = DOMAIN e.mavs /\ f.changes = e.changes + 1
  BY <1>8, <1>9, <1>10, <1>11, <1>12 DEF Tracked
<1>14. QED BY <1>13 DEF f, g, b, calls, mavs

(* What has changed is entered under no metadata.                          *)
LEMMA EnteredFacts ==
  ASSUME NEW e, Linked(e), NEW x \in Nat, x > 0, NEW m \in DOMAIN e.mavs, e.mavs[m].live, Others(e, m)
  PROVE  LET f == Entered(e, x, m)
         IN  /\ Tracked(f) /\ f.vams = e.vams /\ SameMap(e, f) /\ SameNodes(e, f)
             /\ f.mavs = e.mavs /\ f.calls = e.calls /\ f.changes = x
<1> DEFINE g == [e EXCEPT !.changes = x]
           byMd == Enter(e.byMd, Nil, m)
           f == [g EXCEPT !.byMd = Enter(@, Nil, m)]
<1>1. e \in Heaps /\ e.byMd \in Partial(Refs, Nat) /\ m \in Nat /\ Nil \in Refs
  BY HeapFacts, Shapes DEF Linked
<1>2. byMd \in Partial(Refs, Nat)
  BY ONLY <1>1, EnterTyped
<1>3. DOMAIN byMd = DOMAIN e.byMd \cup {Nil} /\ byMd[Nil] = m /\ \A y \in DOMAIN e.byMd : y # Nil => byMd[y] = e.byMd[y]
  BY DEF Enter
<1>4. g.byMd = e.byMd
  BY <1>1 DEF Heaps
<1>5. f = [g EXCEPT !.byMd = byMd]
  BY <1>4
<1> HIDE DEF byMd, f
<1>6. /\ f \in Heaps /\ f.vams = e.vams /\ SameMap(e, f) /\ SameNodes(e, f)
      /\ f.mavs = e.mavs /\ f.calls = e.calls /\ f.changes = x /\ f.byMd = byMd
  BY <1>1, <1>2, <1>5 DEF Heaps, SameMap, SameNodes
<1>7. Linked(f)
  <2>1. SameLinks(e, f)
    BY <1>6 DEF SameLinks
  <2>2. QED BY <2>1, LinkedStays
<1>8. Wrapped(f)
  BY <1>3, <1>6 DEF Wrapped, Others
<1>9. QED BY <1>6, <1>7, <1>8 DEF Tracked, f, g, Entered, Counted

(***************************************************************************)
(* HandleChangedMetadata, for metadata that wraps a value.                 *)
(***************************************************************************)
LEMMA ChangedMetadataFacts ==
  ASSUME NEW h, Tracked(h), NEW m \in DOMAIN h.mavs, h.mavs[m].md # Nil, NEW md \in Refs, Known(h, md), md[1] # "node"
  PROVE  LET f == HandleChangedMetadata(h, m, md)
         IN  Tracked(f) /\ MavChanged(h, f, m, md)
<1> DEFINE a == Canonicalize(h, md).h
           r == Canonicalize(h, md).md
           s == MavSlot(m)
           b == Forget(a, h.mavs[m].md)
           p == Put(Untrack(b, s), s, Nil)
           g == [p EXCEPT !.changes = @ + 1]
           f == HandleChangedMetadata(h, m, md)
           e == Move(b, s, r, TRUE)
<1>1. f = IF Nil \in DOMAIN g.byMd
          THEN [Forget(g, Nil) EXCEPT !.calls = [k \in Calls |-> IF @[k] = m THEN g.byMd[Nil] ELSE @[k]],
                                      !.mavs[m].live = FALSE]
          ELSE [Track(Put(g, s, r), s, TRUE) EXCEPT !.byMd = Enter(@, Nil, m)]
  BY DEF HandleChangedMetadata
<1>2. /\ Tracked(a) /\ Grown(h, a) /\ a.vams = h.vams
      /\ \A j \in DOMAIN a.nodes \ DOMAIN h.nodes : a.nodes[j].ops = <<>>
      /\ r \in Refs /\ r # Nil /\ Known(a, r)
      /\ md = Nil => r[1] = "node" /\ a.nodes[r[2]].ops = <<>>
      /\ md[1] = "vam" => r = md
  BY CanonicalizeFacts
<1> HIDE DEF a, r
<1>3. Stands(a, r, md) /\ \A k : r = Vam(k) => md = Vam(k)
  <2>1. md = Nil \/ md[1] = "vam"
    BY Shapes
  <2>2. CASE md = Nil
    BY <1>2, <2>2, Shapes DEF Stands, Known
  <2>3. CASE md[1] = "vam"
    BY <1>2, <2>3, Shapes DEF Stands
  <2>4. QED BY <2>1, <2>2, <2>3
<1>4. a.mavs = h.mavs /\ a.byMd = h.byMd /\ a.calls = h.calls /\ a.changes = h.changes /\ m \in DOMAIN a.mavs
      /\ a.mavs[m].md # Nil /\ b = Forget(a, a.mavs[m].md)
  BY <1>2 DEF Grown, SameMavs
<1>5. /\ Nil \in Refs /\ Known(a, Nil) /\ a \in Heaps /\ a.changes \in Nat
      /\ \A x \in DOMAIN a.byMd : /\ a.byMd[x] \in DOMAIN a.mavs /\ a.mavs[a.byMd[x]].live
                                  /\ x # Nil => a.mavs[a.byMd[x]].md = x
      /\ \A c \in Calls : a.calls[c] # 0 => a.calls[c] \in DOMAIN a.mavs
      /\ Nil \in DOMAIN a.byMd => a.changes > 0
      /\ \A j \in DOMAIN a.mavs : ~ a.mavs[j].live => a.mavs[j].md = Nil
  BY <1>2, Shapes, HeapFacts DEF Known, Tracked, Linked, Wrapped
<1> DEFINE o == Forget(a, a.mavs[m].md)
<1>6. /\ o \in Heaps /\ Linked(o) /\ o.mavs = a.mavs /\ b = o
      /\ Cleared(a, o, Move(o, s, Nil, TRUE), m, Nil) /\ Cleared(a, o, Move(o, s, r, TRUE), m, r)
  <2>1. b = o
    BY <1>4
  <2> HIDE DEF b
  <2>2. QED BY ONLY <1>2, <1>4, <1>5, <2>1, ClearedFacts
<1> HIDE DEF o, b
<1>7. m \in DOMAIN o.mavs
  BY <1>4, <1>6
<1>8. Untrack(o, s) \in Heaps /\ m \in DOMAIN Untrack(o, s).mavs /\ Put(Untrack(o, s), s, Nil) = Move(o, s, Nil, TRUE)
  BY ONLY <1>6, <1>7, ClearedIs
<1>9. Cleared(a, b, p, m, Nil) /\ Cleared(a, b, e, m, r) /\ Untrack(b, s) \in Heaps /\ m \in DOMAIN Untrack(b, s).mavs
  BY <1>6, <1>8
<1> HIDE DEF e
<1>10. g = [p EXCEPT !.changes = p.changes + 1] /\ p \in Heaps /\ p.changes = a.changes /\ Wrapped(a)
  BY <1>2, <1>9 DEF Cleared, Tracked, Linked
<1>11. g.byMd = p.byMd
  BY <1>10 DEF Heaps
<1>12. CASE Nil \in DOMAIN g.byMd
  <2> DEFINE d == [Forget(g, Nil) EXCEPT !.calls = [k \in Calls |-> IF @[k] = m THEN g.byMd[Nil] ELSE @[k]],
                                         !.mavs[m].live = FALSE]
  <2>1. f = d
    BY <1>1, <1>12
  <2> HIDE DEF p, f
  <2>2. /\ Tracked(d) /\ d.vams = p.vams /\ SameMap(p, d) /\ SameNodes(p, d)
        /\ DOMAIN d.mavs = DOMAIN p.mavs /\ d.changes = p.changes + 1
    <3>1. /\ Linked(p) /\ Nil \in DOMAIN p.byMd /\ p.byMd[Nil] \in DOMAIN p.mavs /\ m \in DOMAIN p.mavs /\ p.mavs[m].md = Nil
      BY <1>4, <1>5, <1>9, <1>11, <1>12 DEF Cleared
    <3>2. Others(p, m)
      BY <1>4, <1>9, <1>10, ClearedOthers
    <3> HIDE DEF d
    <3>3. QED BY ONLY <3>1, <3>2, DroppedFacts DEF d, g
  <2> HIDE DEF d, g
  <2>3. h.changes # 0
    BY <1>4, <1>5, <1>9, <1>11, <1>12 DEF Cleared
  <2>4. SameVams(h, d) /\ SameMap(h, d) /\ FewerUses(h, d, s, md)
    <3>1. SameVams(h, d) /\ SameMap(h, d)
      BY <1>2, <1>9, <2>2 DEF Cleared, Grown, SameVams, SameMap
    <3>2. FewerUses(h, d, s, md)
      <4>1. \A k : Nil # Vam(k)
        BY Shapes
      <4>2. QED BY <1>2, <1>9, <2>2, <4>1 DEF Cleared, FewerUses, s
    <3>3. QED BY <3>1, <3>2
  <2>5. /\ DOMAIN h.nodes \subseteq DOMAIN d.nodes /\ \A n \in DOMAIN h.nodes : d.nodes[n] = h.nodes[n]
        /\ \A n \in DOMAIN d.nodes \ DOMAIN h.nodes : d.nodes[n].ops = <<>>
        /\ DOMAIN d.mavs = DOMAIN h.mavs /\ d.changes = h.changes + 1
    BY <1>2, <1>4, <1>9, <2>2 DEF Cleared, Grown, SameNodes
  <2>6. MavChanged(h, d, m, md)
    BY <2>3, <2>4, <2>5 DEF MavChanged, s
  <2>7. QED BY <2>1, <2>2, <2>6 DEF f
<1>13. CASE Nil \notin DOMAIN g.byMd
  <2> DEFINE x == p.changes + 1
             d == Entered(e, x, m)
  <2>1. x \in Nat /\ x > 0 /\ x = h.changes + 1
    BY <1>4, <1>5, <1>10
  <2>2. f = d
    <3> DEFINE u == Untrack(b, s)
    <3>1. f = [Track(Put(g, s, r), s, TRUE) EXCEPT !.byMd = Enter(@, Nil, m)]
      BY <1>1, <1>13
    <3>2. Track(Put(Counted(Put(u, s, Nil), x), s, r), s, TRUE) = Counted(Track(Put(u, s, r), s, TRUE), x)
      <4> HIDE DEF u, x
      <4>1. u \in Heaps /\ m \in DOMAIN u.mavs
        BY <1>9 DEF u
      <4>2. r \in Refs /\ TRUE \in BOOLEAN
        BY <1>2
      <4>3. QED BY ONLY <2>1, <4>1, <4>2, PutTwice
    <3>3. Counted(Put(u, s, Nil), x) = g
      BY <1>10 DEF Counted
    <3>4. Track(Put(u, s, r), s, TRUE) = e
      BY DEF e, Move
    <3> HIDE DEF f, u, e, g, x
    <3>5. Track(Put(g, s, r), s, TRUE) = Counted(e, x)
      BY <3>2, <3>3, <3>4
    <3>6. QED BY <3>1, <3>5 DEF Entered
  <2> HIDE DEF p, f, g, x
  <2>3. /\ Tracked(d) /\ d.vams = e.vams /\ SameMap(e, d) /\ SameNodes(e, d)
        /\ d.mavs = e.mavs /\ d.calls = e.calls /\ d.changes = x
    <3>1. /\ Linked(e) /\ m \in DOMAIN e.mavs /\ e.mavs[m].live
      BY <1>4, <1>5, <1>9 DEF Cleared
    <3>2. Others(e, m)
      BY <1>4, <1>9, <1>10, ClearedOthers
    <3>3. QED BY ONLY <2>1, <3>1, <3>2, EnteredFacts
  <2> HIDE DEF d
  <2>4. SameVams(h, d) /\ SameMap(h, d)
    BY <1>2, <1>9, <2>3 DEF Cleared, Grown, SameVams, SameMap
  <2>5. FewerUses(h, d, s, md)
    BY <1>2, <1>3, <1>9, <2>3 DEF Cleared, FewerUses, s
  <2>6. /\ DOMAIN h.nodes \subseteq DOMAIN d.nodes /\ \A n \in DOMAIN h.nodes : d.nodes[n] = h.nodes[n]
        /\ \A n \in DOMAIN d.nodes \ DOMAIN h.nodes : d.nodes[n].ops = <<>>
        /\ DOMAIN d.mavs = DOMAIN h.mavs /\ d.changes = h.changes + 1
    BY <1>2, <1>4, <1>9, <2>1, <2>3 DEF Cleared, Grown, SameNodes
  <2>7. /\ d.calls = h.calls /\ Stands(d, d.mavs[m].md, md)
        /\ \A j \in DOMAIN h.mavs : j # m => d.mavs[j].md = h.mavs[j].md
    BY <1>3, <1>4, <1>9, <2>3 DEF Cleared, Stands, SameNodes
  <2>8. MavChanged(h, d, m, md)
    BY <2>4, <2>5, <2>6, <2>7 DEF MavChanged, s
  <2>9. QED BY <2>2, <2>3, <2>8 DEF f
<1>14. QED BY <1>12, <1>13

-----------------------------------------------------------------------------
(***************************************************************************)
(* From h to g, slots that referred to value k may refer to md, or, where  *)
(* metadata is wrapped and md is none, to a node without operands; the     *)
(* other slots refer to what they did.  That goes for what is wrapped, and *)
(* calls hold what they did, until a MetadataAsValue changes once more.    *)
(***************************************************************************)
Settled(h, g, k, md) ==
  /\ SameVams(h, g) /\ SameMap(h, g)
  /\ DOMAIN h.nodes \subseteq DOMAIN g.nodes
  /\ \A n \in DOMAIN h.nodes :
       /\ DOMAIN g.nodes[n].ops = DOMAIN h.nodes[n].ops
       /\ \A i \in DOMAIN h.nodes[n].ops :
            g.nodes[n].ops[i] = h.nodes[n].ops[i] \/ (h.nodes[n].ops[i] = Vam(k) /\ g.nodes[n].ops[i] = md)
  /\ \A n \in DOMAIN g.nodes \ DOMAIN h.nodes : g.nodes[n].ops = <<>>
  /\ h.changes <= g.changes
  /\ g.changes <= 1 =>
       /\ g.calls = h.calls /\ DOMAIN g.mavs = DOMAIN h.mavs
       /\ \A m \in DOMAIN h.mavs :
            g.mavs[m].md = h.mavs[m].md \/ (h.mavs[m].md = Vam(k) /\ Stands(g, g.mavs[m].md, md))

(* Nothing is replaced.                                                    *)
LEMMA SettledSame ==
  ASSUME NEW h \in Heaps, NEW k, NEW md
  PROVE  Settled(h, h, k, md)
<1>1. h.changes \in Nat
  BY HeapFacts
<1>2. QED BY <1>1 DEF Settled, SameVams, SameMap

(* Two uses are replaced one after the other.                              *)
LEMMA SettledTwice ==
  ASSUME NEW h \in Heaps, NEW g \in Heaps, NEW f \in Heaps, NEW k, NEW md, md # Vam(k),
         Settled(h, g, k, md), Settled(g, f, k, md)
  PROVE  Settled(h, f, k, md)
<1>1. SameVams(h, f) /\ SameMap(h, f)
  BY DEF Settled, SameVams, SameMap
<1>2. DOMAIN h.nodes \subseteq DOMAIN f.nodes
  BY DEF Settled
<1>3. ASSUME NEW n \in DOMAIN h.nodes
      PROVE  /\ DOMAIN f.nodes[n].ops = DOMAIN h.nodes[n].ops
             /\ \A i \in DOMAIN h.nodes[n].ops :
                  f.nodes[n].ops[i] = h.nodes[n].ops[i] \/ (h.nodes[n].ops[i] = Vam(k) /\ f.nodes[n].ops[i] = md)
  BY DEF Settled
<1>4. ASSUME NEW n \in DOMAIN g.nodes, g.nodes[n].ops = <<>> PROVE n \in DOMAIN f.nodes /\ f.nodes[n].ops = <<>>
  <2>1. n \in DOMAIN f.nodes /\ DOMAIN f.nodes[n].ops = DOMAIN g.nodes[n].ops
    BY DEF Settled
  <2>2. f.nodes[n].ops \in Seq(Refs)
    BY <2>1, HeapFacts
  <2>3. DOMAIN f.nodes[n].ops = DOMAIN <<>>
    BY <1>4, <2>1
  <2>4. QED BY <2>1, <2>2, <2>3, NoOperands
<1>5. \A n \in DOMAIN f.nodes \ DOMAIN h.nodes : f.nodes[n].ops = <<>>
  BY <1>4 DEF Settled
<1>6. h.changes <= g.changes /\ g.changes <= f.changes /\ h.changes \in Nat /\ g.changes \in Nat /\ f.changes \in Nat
  BY HeapFacts DEF Settled
<1>7. ASSUME f.changes <= 1
      PROVE  /\ f.calls = h.calls /\ DOMAIN f.mavs = DOMAIN h.mavs
             /\ \A m \in DOMAIN h.mavs :
                  f.mavs[m].md = h.mavs[m].md \/ (h.mavs[m].md = Vam(k) /\ Stands(f, f.mavs[m].md, md))
  <2>1. g.changes <= 1
    BY <1>6, <1>7
  <2>2. f.calls = h.calls /\ DOMAIN f.mavs = DOMAIN h.mavs /\ DOMAIN g.mavs = DOMAIN h.mavs
    BY <1>7, <2>1 DEF Settled
  <2>3. ASSUME NEW r, Stands(g, r, md) PROVE Stands(f, r, md) /\ r # Vam(k)
    <3>1. CASE md = Nil
      BY <1>4, <2>3, <3>1, Shapes DEF Stands
    <3>2. CASE md # Nil
      BY <2>3, <3>2 DEF Stands
    <3>3. QED BY <3>1, <3>2
  <2>4. ASSUME NEW m \in DOMAIN h.mavs
        PROVE  f.mavs[m].md = h.mavs[m].md \/ (h.mavs[m].md = Vam(k) /\ Stands(f, f.mavs[m].md, md))
    <3>1. g.mavs[m].md = h.mavs[m].md \/ (h.mavs[m].md = Vam(k) /\ Stands(g, g.mavs[m].md, md))
      BY <2>1 DEF Settled
    <3>2. f.mavs[m].md = g.mavs[m].md \/ (g.mavs[m].md = Vam(k) /\ Stands(f, f.mavs[m].md, md))
      BY <1>7, <2>2 DEF Settled
    <3>3. CASE g.mavs[m].md = h.mavs[m].md
      BY <3>2, <3>3
    <3>4. CASE h.mavs[m].md = Vam(k) /\ Stands(g, g.mavs[m].md, md)
      BY <2>3, <3>2, <3>4
    <3>5. QED BY <3>1, <3>3, <3>4
  <2>5. QED BY <2>2, <2>4
<1>8. h.changes <= f.changes
  BY <1>6
<1>9. QED BY <1>1, <1>2, <1>3, <1>5, <1>7, <1>8 DEF Settled

(* An operand that referred to the value is rewritten.                     *)
LEMMA RewrittenSettles ==
  ASSUME NEW h \in Heaps, NEW g, NEW s \in AllSlots(h), NEW k, NEW md, Content(h, s) = Vam(k), Rewritten(h, g, s, md), g \in Heaps
  PROVE  Settled(h, g, k, md)
<1>1. ASSUME NEW n \in DOMAIN h.nodes, NEW i \in DOMAIN h.nodes[n].ops
      PROVE  g.nodes[n].ops[i] = h.nodes[n].ops[i] \/ (h.nodes[n].ops[i] = Vam(k) /\ g.nodes[n].ops[i] = md)
  <2>1. OpSlot(n, i) \in AllSlots(h) /\ Content(h, OpSlot(n, i)) = h.nodes[n].ops[i] /\ Content(g, OpSlot(n, i)) = g.nodes[n].ops[i]
    BY SlotFacts
  <2>2. QED BY <2>1 DEF Rewritten
<1>2. h.changes \in Nat
  BY HeapFacts
<1>3. QED BY <1>1, <1>2 DEF Rewritten, Settled, SameMavs

(* What wrapped the value is changed.                                      *)
LEMMA MavSettles ==
  ASSUME NEW h \in Heaps, NEW g, NEW m \in DOMAIN h.mavs, NEW k, NEW md, h.mavs[m].md = Vam(k), MavChanged(h, g, m, md)
  PROVE  Settled(h, g, k, md)
<1>1. h.changes \in Nat
  BY HeapFacts
<1>2. g.changes <= 1 => h.changes = 0
  BY <1>1 DEF MavChanged
<1>3. h.changes <= g.changes
  BY <1>1 DEF MavChanged
<1>4. QED BY <1>2, <1>3 DEF MavChanged, Settled

(***************************************************************************)
(* A use without an owner is written and dropped: what was written is      *)
(* tracked, as when an operand is set.                                     *)
(***************************************************************************)
LEMMA UnownedIsMove ==
  ASSUME NEW h \in Heaps, NEW s \in AllSlots(h), s[1] = "op", NEW k \in DOMAIN h.vams, Content(h, s) = Vam(k),
         NEW md \in Refs, md # Vam(k), Known(h, md)
  PROVE  [Track(Put(h, s, md), s, FALSE) EXCEPT !.vams[k].uses = Without(@, s)] = Move(h, s, md, FALSE)
<1> DEFINE V == h.vams
           A(v) == [v EXCEPT ![k].uses = Without(@, s)]
           B(v) == [v EXCEPT ![md[2]].uses = Append(@, [slot |-> s, owned |-> FALSE])]
           nodes == [h.nodes EXCEPT ![s[2]].ops[s[3]] = md]
           p == [h EXCEPT !.nodes = nodes]
           q == [[h EXCEPT !.vams = A(V)] EXCEPT !.nodes = nodes]
<1>1. Content(h, s)[1] = "vam" /\ Content(h, s)[2] = k /\ s[2] \in DOMAIN h.nodes /\ s[3] \in DOMAIN h.nodes[s[2]].ops
  BY Shapes, SlotFacts
<1>2. Put(h, s, md) = p
  BY DEF Put
<1>3. Put(Untrack(h, s), s, md) = q
  <2>1. Untrack(h, s) = [h EXCEPT !.vams = A(V)]
    BY <1>1 DEF Untrack
  <2>2. [h EXCEPT !.vams = A(V)].nodes = h.nodes
    BY DEF Heaps
  <2> DEFINE u == [h EXCEPT !.vams = A(V)]
  <2>3. Put(u, s, md) = [u EXCEPT !.nodes = [u.nodes EXCEPT ![s[2]].ops[s[3]] = md]]
    BY DEF Put
  <2> HIDE DEF A, V, u
  <2>4. QED BY <2>1, <2>2, <2>3 DEF u
<1>4. nodes[s[2]].ops[s[3]] = md
  <2>1. h.nodes[s[2]] \in Nodes /\ h.nodes[s[2]].ops \in Seq(Refs)
    BY <1>1, HeapFacts
  <2> DEFINE ops == [h.nodes[s[2]].ops EXCEPT ![s[3]] = md]
  <2>2. ops[s[3]] = md
    BY <1>1, <2>1
  <2>3. nodes[s[2]] = [h.nodes[s[2]] EXCEPT !.ops = ops]
    BY <1>1
  <2> HIDE DEF ops, nodes
  <2>4. nodes[s[2]].ops = ops
    BY <2>1, <2>3 DEF Nodes
  <2>5. QED BY <2>2, <2>4
<1>5. p.nodes = nodes /\ q.nodes = nodes /\ p.vams = V /\ q.vams = A(V)
  BY DEF Heaps
<1>6. Content(p, s) = md /\ Content(q, s) = md
  BY <1>4, <1>5 DEF Content
<1>7. \A v : [[p EXCEPT !.vams = v] EXCEPT !.vams = A(v)] = [[h EXCEPT !.vams = A(v)] EXCEPT !.nodes = nodes]
  BY DEF Heaps
<1>8. \A v : [q EXCEPT !.vams = v] = [[h EXCEPT !.vams = v] EXCEPT !.nodes = nodes]
  BY DEF Heaps
<1>9. CASE md[1] # "vam"
  <2>1. Track(p, s, FALSE) = p /\ Track(q, s, FALSE) = q
    BY <1>6, <1>9 DEF Track
  <2>2. [p EXCEPT !.vams[k].uses = Without(@, s)] = [p EXCEPT !.vams = A(V)]
    BY <1>5
  <2>3. [p EXCEPT !.vams = A(V)] = q
    BY DEF Heaps
  <2> HIDE DEF p, q, A, V
  <2>4. QED BY <1>2, <1>3, <2>1, <2>2, <2>3 DEF Move
<1>10. CASE md[1] = "vam"
  <2>1. md[2] \in DOMAIN h.vams /\ md[2] # k
    BY <1>10, Shapes DEF Known
  <2>2. Track(p, s, FALSE) = [p EXCEPT !.vams = B(V)] /\ Track(q, s, FALSE) = [q EXCEPT !.vams = B(A(V))]
    BY <1>5, <1>6, <1>10 DEF Track
  <2>3. B(A(V)) = A(B(V))
    <3> DEFINE j == md[2]
               a == [V[k] EXCEPT !.uses = Without(@, s)]
               b == [V[j] EXCEPT !.uses = Append(@, [slot |-> s, owned |-> FALSE])]
    <3>1. V \in Seq(VamSet) /\ j \in DOMAIN V /\ k \in DOMAIN V /\ j # k
      BY <2>1, HeapFacts
    <3>2. A(V) = [V EXCEPT ![k] = a] /\ B(V) = [V EXCEPT ![j] = b]
      OBVIOUS
    <3>3. A(V)[j] = V[j] /\ B(V)[k] = V[k]
      <4> HIDE DEF a, b, j, V
      <4>1. [V EXCEPT ![k] = a][j] = V[j] /\ [V EXCEPT ![j] = b][k] = V[k]
        BY <3>1
      <4> HIDE DEF A, B
      <4>2. QED BY <3>2, <4>1
    <3>4. \A v : B(v) = [v EXCEPT ![j] = [v[j] EXCEPT !.uses = Append(@, [slot |-> s, owned |-> FALSE])]]
      OBVIOUS
    <3>5. \A v : A(v) = [v EXCEPT ![k] = [v[k] EXCEPT !.uses = Without(@, s)]]
      OBVIOUS
    <3>6. B(A(V)) = [A(V) EXCEPT ![j] = b] /\ A(B(V)) = [B(V) EXCEPT ![k] = a]
      <4>1. B(A(V)) = [A(V) EXCEPT ![j] = [A(V)[j] EXCEPT !.uses = Append(@, [slot |-> s, owned |-> FALSE])]]
        BY <3>4
      <4>2. A(B(V)) = [B(V) EXCEPT ![k] = [B(V)[k] EXCEPT !.uses = Without(@, s)]]
        BY <3>5
      <4> HIDE DEF A, B
      <4>3. QED BY <3>3, <4>1, <4>2
    <3> HIDE DEF a, b, j, A, B, V
    <3>7. [[V EXCEPT ![k] = a] EXCEPT ![j] = b] = [[V EXCEPT ![j] = b] EXCEPT ![k] = a]
      BY <3>1
    <3>8. QED BY <3>2, <3>6, <3>7
  <2>4. [[p EXCEPT !.vams = B(V)] EXCEPT !.vams[k].uses = Without(@, s)] = [[p EXCEPT !.vams = B(V)] EXCEPT !.vams = A(B(V))]
    BY DEF Heaps
  <2> HIDE DEF p, q, A, B, V
  <2>5. Track(p, s, FALSE) = [p EXCEPT !.vams = B(V)] /\ Track(q, s, FALSE) = [q EXCEPT !.vams = A(B(V))]
    BY <2>2, <2>3
  <2>6. [[p EXCEPT !.vams = B(V)] EXCEPT !.vams = A(B(V))] = [q EXCEPT !.vams = A(B(V))]
    BY <1>7, <1>8
  <2>7. QED BY <1>2, <1>3, <2>4, <2>5, <2>6 DEF Move
<1>11. QED BY <1>9, <1>10

(* A use of the value is gone, and there is none that there was not.       *)
Dropped(h, g, k, use) == Among(g.vams[k].uses) \subseteq Among(h.vams[k].uses) \ {use}

(***************************************************************************)
(* A use is replaced: the slot refers to md then, and is one of its uses.  *)
(***************************************************************************)
LEMMA ReplaceUseFacts ==
  ASSUME NEW h, Tracked(h), NEW k \in DOMAIN h.vams, NEW use \in Uses, NEW md \in Refs, Known(h, md),
         md # Vam(k), md[1] # "node"
  PROVE  LET g == ReplaceUse(h, k, use, md)
         IN  Tracked(g) /\ Settled(h, g, k, md) /\ Dropped(h, g, k, use)
<1> DEFINE s == use.slot
           uses == h.vams[k].uses
           g == ReplaceUse(h, k, use, md)
<1>1. h \in Heaps /\ UsesKept(h, AllSlots(h)) /\ Owned(h) /\ uses \in Seq(Uses)
  BY HeapFacts DEF Tracked, Linked
<1>2. Contains(uses, use) <=> use \in Among(uses)
  BY <1>1 DEF Contains, Among
<1>3. CASE use \notin Among(uses)
  <2>1. g = h
    BY <1>2, <1>3 DEF ReplaceUse
  <2> HIDE DEF g
  <2>2. Dropped(h, g, k, use)
    BY <1>3, <2>1 DEF Dropped
  <2>3. QED BY <1>1, <2>1, <2>2, SettledSame DEF g
<1>4. CASE use \in Among(uses)
  <2>1. s \in AllSlots(h) /\ Content(h, s) = Vam(k) /\ OwnedAs(h, use)
        /\ \A u \in Among(uses) : u.slot = s => u = use
    BY <1>1, <1>4, UseHasSlot DEF Owned
  <2>2. g = IF ~ use.owned THEN [Track(Put(h, s, md), s, FALSE) EXCEPT !.vams[k].uses = Without(@, s)]
            ELSE IF s[1] = "mav" THEN HandleChangedMetadata(h, s[2], md)
            ELSE HandleChangedOperand(h, s[2], s[3], md)
    BY <1>2, <1>4 DEF ReplaceUse
  <2>3. /\ s[1] \in {"op", "mav"}
        /\ s[1] = "op" => s = OpSlot(s[2], s[3]) /\ s[2] \in DOMAIN h.nodes /\ s[3] \in DOMAIN h.nodes[s[2]].ops
        /\ s[1] = "mav" => s = MavSlot(s[2]) /\ s[2] \in DOMAIN h.mavs
    BY <1>1, <2>1, SlotFacts
  <2> HIDE DEF g, uses, s
  <2>4. ASSUME FewerUses(h, g, s, md) PROVE Dropped(h, g, k, use)
    <3>1. \A u \in Among(g.vams[k].uses) : u \in Among(uses) /\ u.slot # s
      BY <2>4 DEF FewerUses, uses
    <3>2. QED BY <3>1 DEF Dropped, uses, s
  <2>5. CASE ~ use.owned
    <3>1. s[1] = "op" /\ h.nodes[s[2]].storage = "distinct"
      BY <2>1, <2>5 DEF OwnedAs, s
    <3>2. g = Move(h, s, md, FALSE)
      <4>1. [Track(Put(h, s, md), s, FALSE) EXCEPT !.vams[k].uses = Without(@, s)] = Move(h, s, md, FALSE)
        BY <1>1, <2>1, <3>1, UnownedIsMove
      <4>2. QED BY <2>2, <2>5, <4>1
    <3> DEFINE n == s[2]
               i == s[3]
               o == OpSlot(n, i)
               e == Move(h, o, md, FALSE)
    <3> HIDE DEF n, i
    <3>3. n \in DOMAIN h.nodes /\ i \in DOMAIN h.nodes[n].ops /\ h.nodes[n].storage = "distinct" /\ FALSE \in BOOLEAN
      BY <2>3, <3>1 DEF n, i
    <3>4. /\ e \in Heaps /\ Rewritten(h, e, o, md)
          /\ (\A t \in AllSlots(e) : Known(e, Content(e, t)))
          /\ UsesKept(e, AllSlots(e)) /\ Owned(e) /\ Stored(e) /\ Wrapped(e) /\ e.nodes[n].storage = h.nodes[n].storage
          /\ \A j \in DOMAIN e.nodes : j # n => UniqueNode(e, j)
      BY <3>3, SetOperandFacts
    <3>5. Unique(e)
      BY <3>3, <3>4 DEF Unique, UniqueNode
    <3>6. Tracked(e)
      BY <3>4, <3>5 DEF Tracked, Linked
    <3>7. s = o
      BY <2>3, <3>1 DEF n, i
    <3>8. g = e
      BY <3>2, <3>7
    <3> HIDE DEF o, e
    <3>9. Settled(h, g, k, md)
      BY <1>1, <2>1, <3>4, <3>7, <3>8, RewrittenSettles
    <3>10. Dropped(h, g, k, use)
      BY <2>4, <3>4, <3>7, <3>8 DEF Rewritten
    <3>11. QED BY <3>6, <3>8, <3>9, <3>10 DEF g
  <2>6. CASE use.owned /\ s[1] = "mav"
    <3> DEFINE m == s[2]
    <3> HIDE DEF m
    <3>1. g = HandleChangedMetadata(h, m, md) /\ s = MavSlot(m) /\ m \in DOMAIN h.mavs
      BY <2>2, <2>3, <2>6 DEF m
    <3>2. h.mavs[m].md = Vam(k) /\ h.mavs[m].md # Nil
      BY <1>1, <2>1, <3>1, SlotFacts, Shapes
    <3>3. Tracked(g) /\ MavChanged(h, g, m, md)
      BY <3>1, <3>2, ChangedMetadataFacts
    <3>4. Settled(h, g, k, md)
      BY <1>1, <3>1, <3>2, <3>3, MavSettles
    <3>5. Dropped(h, g, k, use)
      BY <2>4, <3>1, <3>3 DEF MavChanged
    <3>6. QED BY <3>3, <3>4, <3>5 DEF g
  <2>7. CASE use.owned /\ s[1] = "op"
    <3> DEFINE n == s[2]
               i == s[3]
    <3> HIDE DEF n, i
    <3>1. /\ g = HandleChangedOperand(h, n, i, md) /\ s = OpSlot(n, i)
          /\ n \in DOMAIN h.nodes /\ i \in DOMAIN h.nodes[n].ops
      BY <2>2, <2>3, <2>7 DEF n, i
    <3>2. Tracked(g) /\ Rewritten(h, g, s, md)
      BY <3>1, ChangedOperandFacts
    <3>3. g \in Heaps
      BY <3>2 DEF Tracked, Linked
    <3>4. Settled(h, g, k, md)
      BY <1>1, <2>1, <3>2, <3>3, RewrittenSettles
    <3>5. Dropped(h, g, k, use)
      BY <2>4, <3>2 DEF Rewritten
    <3>6. QED BY <3>2, <3>4, <3>5 DEF g
  <2>8. QED BY <2>3, <2>5, <2>6, <2>7 DEF g
<1>5. QED BY <1>3, <1>4

(***************************************************************************)
(* ReplaceAllUsesWith replaces one use after the other, each of those      *)
(* there were; none is left at the end.                                    *)
(***************************************************************************)
LEMMA ReplaceChain ==
  ASSUME NEW h, Tracked(h), NEW k \in DOMAIN h.vams, NEW md \in Refs, Known(h, md), md # Vam(k), md[1] # "node"
  PROVE  LET s == h.vams[k].uses
             N == Len(s)
         IN  \E c : /\ c[0] = h /\ \A j \in 1 .. N : c[j] = ReplaceUse(c[j - 1], k, s[j], md)
                    /\ \A j \in 0 .. N : Tracked(c[j]) /\ Settled(h, c[j], k, md)
                    /\ ReplaceAllUsesWith(h, k, md) = c[N]
<1> DEFINE s == h.vams[k].uses
           N == Len(s)
           X == {f \in Heaps : Tracked(f) /\ Settled(h, f, k, md)}
           I == Uses
           G == [p \in X \X I |-> ReplaceUse(p[1], k, p[2], md)]
           g == CHOOSE g : g = [x \in SUBSET DOMAIN s |->
                                 IF x = {} THEN h ELSE ReplaceUse(g[x \ {Max(x)}], k, s[Max(x)], md)]
           c == [j \in 0 .. N |-> g[1 .. j]]
<1>1. ReplaceAllUsesWith(h, k, md) = g[DOMAIN s]
  BY Zenon DEF ReplaceAllUsesWith, FoldLeft, MapThenFoldSet
<1> HIDE DEF g
<1>2. h \in Heaps /\ s \in Seq(I)
  BY HeapFacts DEF Tracked, Linked
<1>3. DOMAIN s = 1 .. N /\ N \in Nat /\ \A j \in 1 .. N : s[j] \in I
  BY <1>2
<1> HIDE DEF s, N
<1>4. ASSUME NEW f \in X, NEW use \in I PROVE ReplaceUse(f, k, use, md) \in X
  <2> DEFINE e == ReplaceUse(f, k, use, md)
  <2>1. f \in Heaps /\ Tracked(f) /\ Settled(h, f, k, md) /\ use \in Uses
    OBVIOUS
  <2>2. k \in DOMAIN f.vams /\ Known(f, md)
    BY <2>1 DEF Settled, SameVams, Known
  <2> HIDE DEF X, I
  <2>3. Tracked(e) /\ Settled(f, e, k, md)
    BY <2>1, <2>2, ReplaceUseFacts
  <2> HIDE DEF e
  <2>4. e \in Heaps
    BY <2>3 DEF Tracked, Linked
  <2>5. Settled(h, e, k, md)
    BY <1>2, <2>1, <2>3, <2>4, SettledTwice
  <2>6. QED BY <2>3, <2>4, <2>5 DEF X, e
<1>5. G \in [X \X I -> X] /\ \A f \in X, use \in I : G[<<f, use>>] = ReplaceUse(f, k, use, md)
  BY <1>4
<1>6. h \in X
  BY <1>2, SettledSame
<1> HIDE DEF G, X, I
<1>7. PICK t \in [SUBSET (1 .. N) -> X] : FoldsBy(G, h, s, N, t)
  BY ONLY <1>2, <1>3, <1>5, <1>6, FoldDefined DEF N
<1>8. t = [x \in SUBSET DOMAIN s |-> IF x = {} THEN h ELSE ReplaceUse(t[x \ {Max(x)}], k, s[Max(x)], md)]
  <2>1. \A x \in SUBSET (1 .. N) : x # {} => Max(x) \in x /\ t[x \ {Max(x)}] \in X /\ s[Max(x)] \in I
    BY <1>3, <1>7, GreatestIn
  <2>2. \A x \in SUBSET (1 .. N) : x # {} => G[<<t[x \ {Max(x)}], s[Max(x)]>>] = ReplaceUse(t[x \ {Max(x)}], k, s[Max(x)], md)
    BY <1>5, <2>1
  <2>3. t = [x \in SUBSET (1 .. N) |-> IF x = {} THEN h ELSE G[<<t[x \ {Max(x)}], s[Max(x)]>>]]
    BY ONLY <1>7 DEF FoldsBy
  <2>4. QED BY ONLY <1>3, <2>2, <2>3
<1>9. g = [x \in SUBSET DOMAIN s |-> IF x = {} THEN h ELSE ReplaceUse(g[x \ {Max(x)}], k, s[Max(x)], md)]
  BY ONLY <1>8, Zenon DEF g
<1> HIDE DEF g
<1>10. c[0] = h
  <2>1. 1 .. 0 = {} /\ 1 .. 0 \in SUBSET DOMAIN s
    BY <1>3
  <2>2. g[1 .. 0] = h
    BY ONLY <1>9, <2>1
  <2>3. QED BY <1>3, <2>2
<1>11. ASSUME NEW j \in 1 .. N PROVE c[j] = ReplaceUse(c[j - 1], k, s[j], md)
  <2>1. /\ 1 .. j \in SUBSET (1 .. N) /\ 1 .. j # {} /\ Max(1 .. j) = j /\ (1 .. j) \ {j} = 1 .. j - 1
        /\ j - 1 \in 0 .. N
    BY ONLY <1>3, j \in 1 .. N, UpToLess, Zenon
  <2>2. g[1 .. j] = LET x == 1 .. j IN ReplaceUse(g[x \ {Max(x)}], k, s[Max(x)], md)
    BY ONLY <1>3, <1>9, <2>1
  <2>3. c[j] = g[1 .. j] /\ c[j - 1] = g[1 .. j - 1]
    BY <1>3, <2>1
  <2> HIDE DEF c
  <2>4. QED BY <2>1, <2>2, <2>3
<1>12. c[N] = g[DOMAIN s]
  BY <1>3
<1> HIDE DEF c
<1>13. \A j \in 0 .. N : c[j] \in X
  <2>1. \A j \in 1 .. N : c[j - 1] \in X => c[j] = G[<<c[j - 1], s[j]>>]
    BY <1>3, <1>5, <1>11
  <2>2. Stepwise(G, s, c, X)
    BY <1>3, <2>1 DEF Stepwise, N
  <2>3. \A j \in 0 .. Len(s) : c[j] \in X
    BY ONLY <1>2, <1>3, <1>5, <1>6, <1>10, <2>2, ChainStays
  <2>4. QED BY <2>3 DEF N
<1>14. /\ c[0] = h /\ \A j \in 1 .. N : c[j] = ReplaceUse(c[j - 1], k, s[j], md)
       /\ \A j \in 0 .. N : Tracked(c[j]) /\ Settled(h, c[j], k, md)
       /\ ReplaceAllUsesWith(h, k, md) = c[N]
  BY <1>1, <1>10, <1>11, <1>12, <1>13 DEF X
<1>15. QED BY <1>14 DEF N, s

(* When all uses are replaced, none is left.                               *)
LEMMA ReplaceAllFacts ==
  ASSUME NEW h, Tracked(h), NEW k \in DOMAIN h.vams, NEW md \in Refs, Known(h, md), md # Vam(k), md[1] # "node"
  PROVE  LET g == ReplaceAllUsesWith(h, k, md)
         IN  Tracked(g) /\ Settled(h, g, k, md) /\ Among(g.vams[k].uses) = {}
<1> DEFINE s == h.vams[k].uses
           N == Len(s)
           g == ReplaceAllUsesWith(h, k, md)
<1>1. s \in Seq(Uses) /\ h \in Heaps
  BY HeapFacts DEF Tracked, Linked
<1>2. N \in Nat /\ DOMAIN s = 1 .. N /\ \A j \in 1 .. N : s[j] \in Uses
  BY <1>1
<1>3. PICK c : /\ c[0] = h /\ \A j \in 1 .. N : c[j] = ReplaceUse(c[j - 1], k, s[j], md)
               /\ \A j \in 0 .. N : Tracked(c[j]) /\ Settled(h, c[j], k, md)
               /\ g = c[N]
  BY ReplaceChain
<1> HIDE DEF s, N, g
<1> DEFINE P == {j \in Nat : j \in 0 .. N => Among(c[j].vams[k].uses) \subseteq {s[i] : i \in j + 1 .. N}}
<1>4. 0 \in P
  BY <1>2, <1>3 DEF Among, s
<1>5. ASSUME NEW j \in 1 .. N, j - 1 \in P PROVE j \in P
  <2> DEFINE b == c[j - 1]
             e == c[j]
  <2>1. j - 1 \in 0 .. N /\ j \in 0 .. N /\ j \in Nat /\ s[j] \in Uses /\ (j - 1) + 1 = j
    BY <1>2
  <2>2. Tracked(b) /\ Settled(h, b, k, md) /\ e = ReplaceUse(b, k, s[j], md)
    BY <1>3, <2>1
  <2>3. Among(b.vams[k].uses) \subseteq {s[i] : i \in j .. N}
    BY <1>5, <2>1
  <2> HIDE DEF b, e, P
  <2>4. k \in DOMAIN b.vams /\ Known(b, md)
    BY <2>2 DEF Settled, SameVams, Known
  <2>5. Dropped(b, e, k, s[j])
    BY <2>1, <2>2, <2>4, ReplaceUseFacts
  <2>6. {s[i] : i \in j .. N} \ {s[j]} \subseteq {s[i] : i \in j + 1 .. N}
    <3>1. \A i \in j .. N : i # j => i \in j + 1 .. N
      BY <2>1
    <3>2. QED BY <3>1
  <2>7. Among(e.vams[k].uses) \subseteq {s[i] : i \in j + 1 .. N}
    BY <2>3, <2>5, <2>6 DEF Dropped
  <2>8. QED BY <2>1, <2>7 DEF P, e
<1>6. N \in P
  <2> HIDE DEF P
  <2>1. P \in SUBSET Nat
    BY DEF P
  <2>2. \A j \in 1 .. N : j - 1 \in P => j \in P
    BY <1>5
  <2>3. \A j \in 0 .. N : j \in P
    BY ONLY <1>2, <1>4, <2>1, <2>2, CountUp
  <2>4. QED BY <1>2, <2>3
<1>7. N \in 0 .. N /\ N + 1 .. N = {}
  BY <1>2
<1>8. Among(g.vams[k].uses) = {}
  BY <1>3, <1>6, <1>7
<1>9. QED BY <1>3, <1>7, <1>8 DEF g

-----------------------------------------------------------------------------
(***************************************************************************)
(* A ValueAsMetadata that is replaced is deleted: nothing refers to it.    *)
(***************************************************************************)
Discarded(h, g, k) ==
  /\ SameMap(h, g) /\ SameNodes(h, g) /\ SameMavs(h, g)
  /\ DOMAIN g.vams = DOMAIN h.vams /\ ~ g.vams[k].live
  /\ \A j \in DOMAIN h.vams : j # k => g.vams[j] = h.vams[j]

(* Replaced, a ValueAsMetadata can be deleted.                             *)
LEMMA DiscardFacts ==
  ASSUME NEW h, Tracked(h), NEW k \in DOMAIN h.vams, NEW md \in Refs, Known(h, md), md # Vam(k), md[1] # "node"
  PROVE  LET e == ReplaceAllUsesWith(h, k, md)
             g == Discard(h, k, md)
         IN  Tracked(e) /\ Settled(h, e, k, md) /\ Tracked(g) /\ Discarded(e, g, k)
<1> DEFINE e == ReplaceAllUsesWith(h, k, md)
           x == [e.vams[k] EXCEPT !.live = FALSE, !.val = Null]
           vams == [e.vams EXCEPT ![k] = x]
           g == Discard(h, k, md)
<1>1. Tracked(e) /\ Settled(h, e, k, md) /\ Among(e.vams[k].uses) = {}
  BY ReplaceAllFacts
<1>2. g = [e EXCEPT !.vams[k].live = FALSE, !.vams[k].val = Null]
  BY DEF Discard
<1> HIDE DEF e, g
<1>3. e \in Heaps /\ e.vams \in Seq(VamSet) /\ e.vams[k] \in VamSet /\ k \in DOMAIN e.vams
  BY <1>1, HeapFacts DEF Tracked, Linked, Settled, SameVams
<1>4. x \in VamSet /\ x.uses = e.vams[k].uses /\ x.live = FALSE
  BY <1>3 DEF VamSet
<1>5. g = [e EXCEPT !.vams = vams]
  <2>1. g = [e EXCEPT !.vams = [[e.vams EXCEPT ![k].live = FALSE] EXCEPT ![k].val = Null]]
    BY <1>2, <1>3 DEF Heaps
  <2>2. [[e.vams EXCEPT ![k].live = FALSE] EXCEPT ![k].val = Null] = vams
    BY <1>3
  <2>3. QED BY <2>1, <2>2
<1> HIDE DEF x
<1>6. vams \in Seq(VamSet) /\ DOMAIN vams = DOMAIN e.vams /\ vams[k] = x /\ \A j \in DOMAIN e.vams : j # k => vams[j] = e.vams[j]
  BY ONLY <1>3, <1>4
<1> HIDE DEF vams
<1>7. g \in Heaps /\ g.vams = vams /\ SameMap(e, g) /\ SameNodes(e, g) /\ SameMavs(e, g)
  BY <1>3, <1>5, <1>6 DEF Heaps, SameMap, SameNodes, SameMavs
<1>8. Discarded(e, g, k)
  BY <1>4, <1>6, <1>7 DEF Discarded
<1>9. AllSlots(g) = AllSlots(e) /\ \A s : Content(g, s) = Content(e, s)
  BY <1>7, SameContent DEF SameNodes, SameMavs
<1>10. \A j \in DOMAIN e.vams : g.vams[j].uses = e.vams[j].uses
  BY <1>4, <1>6, <1>7
<1>11. \A s \in AllSlots(e) : Content(e, s) # Vam(k)
  <2>1. SlotsIn(e.vams[k].uses) = {s \in AllSlots(e) : Content(e, s) = Vam(k)}
    BY <1>1, <1>3 DEF Tracked, Linked, UsesKept
  <2>2. SlotsIn(e.vams[k].uses) = {}
    BY <1>1 DEF SlotsIn, Among
  <2>3. QED BY <2>1, <2>2
<1>12. ASSUME NEW s \in AllSlots(g) PROVE Known(g, Content(g, s))
  <2>1. Known(e, Content(e, s)) /\ Content(e, s) # Vam(k) /\ Content(e, s) \in Refs
    BY <1>1, <1>3, <1>9, <1>11, SlotFacts DEF Tracked, Linked
  <2>2. Content(e, s)[1] = "vam" => Content(e, s)[2] # k
    BY <2>1, Shapes
  <2>3. QED BY <1>6, <1>7, <1>9, <2>1, <2>2 DEF Known, SameNodes
<1>13. UsesKept(g, AllSlots(g))
  BY <1>1, <1>6, <1>7, <1>9, <1>10 DEF Tracked, Linked, UsesKept
<1>14. Owned(g)
  BY <1>1, <1>6, <1>7, <1>10 DEF Tracked, Linked, Owned, OwnedAs, SameNodes
<1>15. Unique(g) /\ Stored(g) /\ Wrapped(g)
  BY <1>1, <1>7 DEF Tracked, Linked, Unique, UniqueNode, Stored, Wrapped, SameNodes, SameMavs
<1>16. Tracked(g)
  BY <1>7, <1>12, <1>13, <1>14, <1>15 DEF Tracked, Linked
<1>17. QED BY <1>1, <1>8, <1>16 DEF e, g

(***************************************************************************)
(* A value in L and what wraps it are found from one another, but for the  *)
(* one that k wraps.                                                       *)
(***************************************************************************)
MappedBut(h, k, L) ==
  /\ h.usedByMd \cap L = DOMAIN h.byValue
  /\ \A v \in DOMAIN h.byValue : /\ h.byValue[v] \in DOMAIN h.vams /\ h.vams[h.byValue[v]].live
                                 /\ h.vams[h.byValue[v]].val = v /\ h.byValue[v] # k
  /\ \A j \in DOMAIN h.vams : h.vams[j].live /\ j # k => h.vams[j].val \in DOMAIN h.byValue /\ h.byValue[h.vams[j].val] = j

(* Without such a k, all values are found.                                 *)
LEMMA MappedIs ==
  ASSUME NEW h \in Heaps
  PROVE  Mapped(h) <=> MappedBut(h, 0, h.live)
<1>1. 0 \notin DOMAIN h.vams
  BY HeapFacts
<1>2. QED BY <1>1 DEF Mapped, MappedBut

(* When k is deleted, all values in L are found.                           *)
LEMMA DiscardedMapped ==
  ASSUME NEW h, NEW e, NEW g, NEW k, NEW L, NEW md, Settled(h, e, k, md), Discarded(e, g, k), MappedBut(h, k, L),
         0 \notin DOMAIN h.vams
  PROVE  MappedBut(g, 0, L)
<1>1. /\ g.byValue = h.byValue /\ g.usedByMd = h.usedByMd /\ DOMAIN g.vams = DOMAIN h.vams /\ ~ g.vams[k].live
      /\ \A j \in DOMAIN h.vams : j # k => g.vams[j].val = h.vams[j].val /\ g.vams[j].live = h.vams[j].live
  BY DEF Settled, Discarded, SameMap, SameVams
<1>2. QED BY <1>1 DEF MappedBut

(***************************************************************************)
(* The links between slots and uses do not know of values.                 *)
(***************************************************************************)
Remapped(h, byValue, used, live) == [h EXCEPT !.byValue = byValue, !.usedByMd = used, !.live = live]
SameWraps(h, g) == g.vams = h.vams /\ SameNodes(h, g) /\ SameMavs(h, g)

(* Another map, and other values that live.                                *)
LEMMA OtherMap ==
  ASSUME NEW h, Tracked(h), NEW byValue \in Partial(Values, Nat), NEW used \in SUBSET Values, NEW live \in SUBSET Values,
         NEW g, g = Remapped(h, byValue, used, live)
  PROVE  /\ Tracked(g) /\ SameWraps(h, g)
         /\ g.byValue = byValue /\ g.usedByMd = used /\ g.live = live
<1>1. h \in Heaps
  BY DEF Tracked, Linked
<1>2. /\ g \in Heaps /\ g.vams = h.vams /\ SameNodes(h, g) /\ SameMavs(h, g)
      /\ g.byValue = byValue /\ g.usedByMd = used /\ g.live = live
  BY <1>1 DEF Heaps, SameNodes, SameMavs, Remapped
<1>3. SameLinks(h, g)
  BY <1>2 DEF SameLinks, SameMavs
<1>4. Linked(g)
  BY <1>3, LinkedStays DEF Tracked
<1>5. Wrapped(g)
  BY <1>2 DEF Tracked, Wrapped, SameMavs
<1>6. QED BY <1>2, <1>4, <1>5 DEF Tracked, SameWraps

(* A value is no longer found.                                             *)
LEMMA UnmapFacts ==
  ASSUME NEW h, Tracked(h), Mapped(h), NEW v \in DOMAIN h.byValue
  PROVE  LET g == Unmap(h, v)
             k == h.byValue[v]
         IN  /\ Tracked(g) /\ SameWraps(h, g)
             /\ g.usedByMd = h.usedByMd /\ g.live = h.live /\ g.byValue \in Partial(Values, Nat)
             /\ MappedBut(g, k, h.live \ {v})
             /\ k \in DOMAIN h.vams /\ h.vams[k].live /\ h.vams[k].val = v /\ v \in Values
<1> DEFINE byValue == [w \in DOMAIN h.byValue \ {v} |-> h.byValue[w]]
           g == Unmap(h, v)
           k == h.byValue[v]
<1>1. h \in Heaps /\ h.byValue \in Partial(Values, Nat) /\ h.usedByMd \in SUBSET Values /\ h.live \in SUBSET Values
  BY HeapFacts DEF Tracked, Linked
<1>2. byValue \in Partial(Values, Nat)
  BY <1>1, LeaveTyped
<1>3. g = Remapped(h, byValue, h.usedByMd, h.live)
  BY <1>1 DEF Unmap, Heaps, Remapped
<1>4. DOMAIN byValue = DOMAIN h.byValue \ {v} /\ \A w \in DOMAIN byValue : byValue[w] = h.byValue[w]
  OBVIOUS
<1> HIDE DEF byValue, g
<1>5. /\ Tracked(g) /\ SameWraps(h, g)
      /\ g.byValue = byValue /\ g.usedByMd = h.usedByMd /\ g.live = h.live
  BY ONLY <1>1, <1>2, <1>3, Tracked(h), OtherMap
<1>6. k \in DOMAIN h.vams /\ h.vams[k].live /\ h.vams[k].val = v
  BY DEF Mapped
<1>7. MappedBut(g, k, h.live \ {v})
  BY <1>4, <1>5, <1>6 DEF Mapped, MappedBut, SameWraps
<1>8. v \in Values
  BY <1>1, PartialIs
<1>9. QED BY <1>2, <1>5, <1>6, <1>7, <1>8 DEF g, k

(***************************************************************************)
(* A value that is wrapped by none is wrapped by a new ValueAsMetadata,    *)
(* which nothing refers to yet.                                            *)
(***************************************************************************)
NewVam(h, v) ==
  [h EXCEPT !.vams = Append(@, [val |-> v, live |-> TRUE, uses |-> <<>>]),
            !.byValue = Enter(@, v, Len(h.vams) + 1), !.usedByMd = @ \cup {v}]

MoreVams(h, g) == DOMAIN h.vams \subseteq DOMAIN g.vams /\ \A j \in DOMAIN h.vams : g.vams[j] = h.vams[j]

(* The new one is tracked, and what there was stays.                       *)
LEMMA NewVamFacts ==
  ASSUME NEW h, Tracked(h), NEW v \in Values, NEW g, g = NewVam(h, v), NEW n, n = Len(h.vams) + 1
  PROVE  /\ Tracked(g) /\ SameNodes(h, g) /\ SameMavs(h, g) /\ MoreVams(h, g) /\ g.live = h.live
         /\ g.byValue = Enter(h.byValue, v, n) /\ g.usedByMd = h.usedByMd \cup {v}
         /\ n \in Nat /\ n \notin DOMAIN h.vams /\ DOMAIN g.vams = DOMAIN h.vams \cup {n}
         /\ g.vams[n].val = v /\ g.vams[n].live
<1> DEFINE x == [val |-> v, live |-> TRUE, uses |-> <<>>]
           vams == Append(h.vams, x)
           byValue == Enter(h.byValue, v, n)
<1>1. h \in Heaps /\ h.vams \in Seq(VamSet) /\ h.byValue \in Partial(Values, Nat)
  BY HeapFacts DEF Tracked, Linked
<1>2. x \in VamSet /\ x.val = v /\ x.live /\ x.uses = <<>>
  BY DEF VamSet
<1> HIDE DEF x
<1>3. /\ vams \in Seq(VamSet) /\ n \in Nat /\ n \notin DOMAIN h.vams /\ DOMAIN vams = DOMAIN h.vams \cup {n}
      /\ vams[n] = x /\ \A j \in DOMAIN h.vams : vams[j] = h.vams[j]
  BY <1>1, <1>2
<1>4. byValue \in Partial(Values, Nat)
  BY <1>1, <1>3, EnterTyped
<1> HIDE DEF vams, byValue
<1>5. h.usedByMd \cup {v} \in SUBSET Values
  BY <1>1, HeapFacts
<1>6. g = [h EXCEPT !.vams = vams, !.byValue = byValue, !.usedByMd = h.usedByMd \cup {v}]
  BY <1>1 DEF NewVam, vams, byValue, x, Heaps
<1>7. /\ g \in Heaps /\ g.vams = vams /\ g.byValue = byValue /\ g.usedByMd = h.usedByMd \cup {v} /\ g.live = h.live
      /\ SameNodes(h, g) /\ SameMavs(h, g)
  BY <1>1, <1>3, <1>4, <1>5, <1>6 DEF Heaps, SameNodes, SameMavs
<1>8. AllSlots(g) = AllSlots(h) /\ \A s : Content(g, s) = Content(h, s)
  BY <1>7, SameContent DEF SameNodes, SameMavs
<1>9. MoreVams(h, g)
  BY <1>3, <1>7 DEF MoreVams
<1>10. ASSUME NEW s \in AllSlots(g) PROVE Known(g, Content(g, s)) /\ Content(g, s) # Vam(n)
  <2>1. Known(h, Content(h, s))
    BY <1>8 DEF Tracked, Linked
  <2>2. Known(g, Content(g, s))
    BY <1>7, <1>8, <1>9, <2>1 DEF Known, SameNodes, MoreVams
  <2>3. Content(g, s) # Vam(n)
    BY <1>3, <1>8, <2>1, Shapes DEF Known
  <2>4. QED BY <2>2, <2>3
<1>11. UsesKept(g, AllSlots(g))
  <2>1. ASSUME NEW j \in DOMAIN h.vams
        PROVE  Once(g.vams[j].uses) /\ SlotsIn(g.vams[j].uses) = {s \in AllSlots(g) : Content(g, s) = Vam(j)}
    BY <1>8, <1>9, <2>1 DEF Tracked, Linked, UsesKept, MoreVams
  <2>2. Once(g.vams[n].uses) /\ SlotsIn(g.vams[n].uses) = {s \in AllSlots(g) : Content(g, s) = Vam(n)}
    <3>1. g.vams[n].uses = <<>>
      BY <1>2, <1>3, <1>7
    <3>2. SlotsIn(<<>>) = {} /\ Once(<<>>)
      BY DEF SlotsIn, Once
    <3>3. {s \in AllSlots(g) : Content(g, s) = Vam(n)} = {}
      BY <1>10
    <3>4. QED BY <3>1, <3>2, <3>3
  <2>3. DOMAIN g.vams = DOMAIN h.vams \cup {n}
    BY <1>3, <1>7
  <2>4. QED BY <2>1, <2>2, <2>3 DEF UsesKept
<1>12. Owned(g)
  <2>1. Among(g.vams[n].uses) = {}
    BY <1>2, <1>3, <1>7 DEF Among
  <2>2. ASSUME NEW j \in DOMAIN h.vams, NEW use \in Among(g.vams[j].uses) PROVE OwnedAs(g, use)
    BY <1>7, <1>9, <2>2 DEF Tracked, Linked, Owned, OwnedAs, SameNodes, MoreVams
  <2>3. DOMAIN g.vams = DOMAIN h.vams \cup {n}
    BY <1>3, <1>7
  <2>4. QED BY <2>1, <2>2, <2>3 DEF Owned
<1>13. Unique(g) /\ Stored(g) /\ Wrapped(g)
  BY <1>7 DEF Tracked, Linked, Unique, UniqueNode, Stored, Wrapped, SameNodes, SameMavs
<1>14. Tracked(g)
  BY <1>7, <1>10, <1>11, <1>12, <1>13 DEF Tracked, Linked
<1>15. QED BY <1>2, <1>3, <1>7, <1>9, <1>14 DEF byValue

(***************************************************************************)
(* What wraps v in g, found or made, r.                                    *)
(***************************************************************************)
VamOf(h, g, v, r) ==
  /\ SameNodes(h, g) /\ SameMavs(h, g) /\ MoreVams(h, g) /\ g.live = h.live
  /\ r \in Refs /\ r[1] = "vam" /\ Known(g, r) /\ g.vams[r[2]].val = v /\ v \in g.usedByMd
  /\ g.byValue[v] = r[2] /\ v \in DOMAIN g.byValue

(* ValueAsMetadata::Get.                                                   *)
LEMMA GetVamFacts ==
  ASSUME NEW h, Tracked(h), NEW k, NEW L, MappedBut(h, k, L), NEW v \in L, v \in Values, k \in DOMAIN h.vams \/ k = 0
  PROVE  LET g == GetVam(h, v).h
             r == GetVam(h, v).md
         IN  Tracked(g) /\ VamOf(h, g, v, r) /\ MappedBut(g, k, L) /\ r # Vam(k)
<1> DEFINE g == GetVam(h, v).h
           r == GetVam(h, v).md
<1>1. h \in Heaps
  BY DEF Tracked, Linked
<1>2. CASE v \in DOMAIN h.byValue
  <2>1. g = h /\ r = Vam(h.byValue[v])
    BY <1>2 DEF GetVam
  <2> HIDE DEF g, r
  <2>2. h.byValue[v] \in DOMAIN h.vams /\ h.vams[h.byValue[v]].live /\ h.vams[h.byValue[v]].val = v /\ h.byValue[v] # k /\ v \in h.usedByMd
    BY <1>2 DEF MappedBut
  <2>3. h.byValue[v] \in Nat
    BY <1>1, <2>2, HeapFacts
  <2>4. r \in Refs /\ r[1] = "vam" /\ r[2] = h.byValue[v] /\ r # Vam(k)
    BY <2>1, <2>2, <2>3, Shapes
  <2>5. VamOf(h, g, v, r)
    BY <1>2, <2>1, <2>2, <2>4 DEF VamOf, Known, SameNodes, SameMavs, MoreVams
  <2>6. QED BY <2>1, <2>4, <2>5 DEF g, r
<1>3. CASE v \notin DOMAIN h.byValue
  <2> DEFINE n == Len(h.vams) + 1
  <2>1. g = NewVam(h, v) /\ r = Vam(n)
    BY <1>3 DEF GetVam, NewVam
  <2> HIDE DEF g, r, n
  <2>2. n = Len(h.vams) + 1
    BY DEF n
  <2>3. /\ Tracked(g) /\ SameNodes(h, g) /\ SameMavs(h, g) /\ MoreVams(h, g) /\ g.live = h.live
        /\ g.byValue = Enter(h.byValue, v, n) /\ g.usedByMd = h.usedByMd \cup {v}
        /\ n \in Nat /\ n \notin DOMAIN h.vams /\ DOMAIN g.vams = DOMAIN h.vams \cup {n}
        /\ g.vams[n].val = v /\ g.vams[n].live
    BY ONLY <2>1, <2>2, Tracked(h), v \in Values, NewVamFacts
  <2>4. n # k
    BY <1>1, <2>2, <2>3, HeapFacts
  <2>5. r \in Refs /\ r[1] = "vam" /\ r[2] = n /\ r # Vam(k)
    BY <2>1, <2>3, <2>4, Shapes
  <2>6. DOMAIN g.byValue = DOMAIN h.byValue \cup {v} /\ g.byValue[v] = n /\ \A w \in DOMAIN h.byValue : g.byValue[w] = h.byValue[w]
    BY <1>3, <2>3 DEF Enter
  <2>7. VamOf(h, g, v, r)
    BY <2>3, <2>5, <2>6, Shapes DEF VamOf, Known
  <2>8. MappedBut(g, k, L)
    <3>1. g.usedByMd \cap L = DOMAIN g.byValue
      BY <2>3, <2>6 DEF MappedBut
    <3>2. ASSUME NEW w \in DOMAIN g.byValue
          PROVE  g.byValue[w] \in DOMAIN g.vams /\ g.vams[g.byValue[w]].live /\ g.vams[g.byValue[w]].val = w /\ g.byValue[w] # k
      BY <2>3, <2>4, <2>6 DEF MappedBut, MoreVams
    <3>3. ASSUME NEW j \in DOMAIN g.vams, g.vams[j].live, j # k
          PROVE  g.vams[j].val \in DOMAIN g.byValue /\ g.byValue[g.vams[j].val] = j
      BY <2>3, <2>6, <3>3 DEF MappedBut, MoreVams
    <3>4. QED BY <3>1, <3>2, <3>3 DEF MappedBut
  <2>9. QED BY <2>3, <2>5, <2>7, <2>8 DEF g, r
<1>4. QED BY <1>2, <1>3
(***************************************************************************)
(* From h to g, value k is replaced by md, which g may have made, and      *)
(* deleted.                                                                *)
(***************************************************************************)
Removed(h, g, k, md) ==
  \E f, e : /\ Tracked(f) /\ SameNodes(h, f) /\ SameMavs(h, f) /\ MoreVams(h, f) /\ Known(f, md) /\ md # Vam(k)
            /\ Settled(f, e, k, md) /\ Discarded(e, g, k)

(* Replacing and deleting leaves everything tracked and found.             *)
LEMMA RemovedFacts ==
  ASSUME NEW h, NEW f, Tracked(f), SameNodes(h, f), SameMavs(h, f), MoreVams(h, f), f.live = h.live,
         NEW k \in DOMAIN f.vams, NEW L, MappedBut(f, k, L),
         NEW md \in Refs, Known(f, md), md # Vam(k), md[1] # "node", NEW g, g = Discard(f, k, md)
  PROVE  /\ Tracked(g) /\ MappedBut(g, 0, L) /\ g.live = h.live /\ Removed(h, g, k, md)
         /\ \A j \in DOMAIN f.vams : j # k => g.vams[j].val = f.vams[j].val
<1> DEFINE e == ReplaceAllUsesWith(f, k, md)
<1>1. Tracked(e) /\ Settled(f, e, k, md) /\ Tracked(g) /\ Discarded(e, g, k)
  BY DiscardFacts
<1> HIDE DEF e
<1>2. 0 \notin DOMAIN f.vams
  BY HeapFacts DEF Tracked, Linked
<1>3. MappedBut(g, 0, L)
  BY ONLY <1>1, <1>2, MappedBut(f, k, L), DiscardedMapped
<1>4. g.live = h.live
  BY <1>1 DEF Settled, Discarded, SameMap
<1>5. Removed(h, g, k, md)
  BY <1>1 DEF Removed
<1>6. \A j \in DOMAIN f.vams : j # k => g.vams[j].val = f.vams[j].val
  BY <1>1 DEF Settled, SameVams, Discarded
<1>7. QED BY <1>1, <1>3, <1>4, <1>5, <1>6

(***************************************************************************)
(* A value is deleted.                                                     *)
(***************************************************************************)
Deleted(h, g, v) ==
  \/ v \notin DOMAIN h.byValue /\ g = h
  \/ v \in DOMAIN h.byValue /\ Removed(h, g, h.byValue[v], Nil)

(* ValueAsMetadata::HandleDeletion.                                        *)
LEMMA HandleDeletionFacts ==
  ASSUME NEW h, Tracked(h), Mapped(h), NEW v, NEW g, g = HandleDeletion(h, v)
  PROVE  Tracked(g) /\ MappedBut(g, 0, h.live \ {v}) /\ g.live = h.live /\ Deleted(h, g, v)
<1>1. CASE v \notin DOMAIN h.byValue
  <2>1. g = h
    BY <1>1 DEF HandleDeletion
  <2>2. MappedBut(h, 0, h.live)
    BY MappedIs DEF Tracked, Linked
  <2>3. MappedBut(h, 0, h.live \ {v})
    BY <1>1, <2>2 DEF MappedBut
  <2>4. QED BY <1>1, <2>1, <2>3 DEF Deleted
<1>2. CASE v \in DOMAIN h.byValue
  <2> DEFINE f == Unmap(h, v)
             k == h.byValue[v]
  <2>1. g = Discard(f, k, Nil)
    BY <1>2 DEF HandleDeletion
  <2>2. /\ Tracked(f) /\ SameWraps(h, f) /\ f.live = h.live /\ MappedBut(f, k, h.live \ {v})
        /\ k \in DOMAIN h.vams
    BY <1>2, UnmapFacts
  <2> HIDE DEF f, k
  <2>3. SameNodes(h, f) /\ SameMavs(h, f) /\ MoreVams(h, f) /\ k \in DOMAIN f.vams
    BY <2>2 DEF SameWraps, MoreVams
  <2>4. Nil \in Refs /\ Known(f, Nil) /\ Nil # Vam(k) /\ Nil[1] # "node"
    BY Shapes DEF Known
  <2>5. Tracked(g) /\ MappedBut(g, 0, h.live \ {v}) /\ g.live = h.live /\ Removed(h, g, k, Nil)
    BY ONLY <2>1, <2>2, <2>3, <2>4, RemovedFacts
  <2>6. QED BY <1>2, <2>5 DEF Deleted, k
<1>3. QED BY <1>1, <1>2

(***************************************************************************)
(* A value is no longer one that metadata refers to, but lives on.         *)
(***************************************************************************)
Unused(h, v) == [Unmap(h, v) EXCEPT !.usedByMd = @ \ {v}]

(* What wrapped it is still there.                                         *)
LEMMA UnusedFacts ==
  ASSUME NEW h, Tracked(h), Mapped(h), NEW v \in DOMAIN h.byValue, NEW g, g = Unused(h, v), NEW k, k = h.byValue[v]
  PROVE  /\ Tracked(g) /\ SameWraps(h, g) /\ MappedBut(g, k, h.live)
         /\ g.live = h.live /\ g.usedByMd = h.usedByMd \ {v} /\ v \notin DOMAIN g.byValue
         /\ g.byValue \in Partial(Values, Nat)
         /\ k \in DOMAIN h.vams /\ h.vams[k].live /\ h.vams[k].val = v /\ v \in Values
<1> DEFINE f == Unmap(h, v)
<1>1. /\ Tracked(f) /\ SameWraps(h, f)
      /\ f.usedByMd = h.usedByMd /\ f.live = h.live /\ f.byValue \in Partial(Values, Nat)
      /\ MappedBut(f, k, h.live \ {v})
      /\ k \in DOMAIN h.vams /\ h.vams[k].live /\ h.vams[k].val = v /\ v \in Values
  BY UnmapFacts
<1>2. v \notin DOMAIN f.byValue
  BY DEF Unmap, Tracked, Linked, Heaps
<1>3. g = [f EXCEPT !.usedByMd = f.usedByMd \ {v}]
  BY DEF Unused
<1> HIDE DEF f
<1>4. f \in Heaps /\ f.usedByMd \ {v} \in SUBSET Values /\ f.live \in SUBSET Values
  BY <1>1, HeapFacts DEF Tracked, Linked
<1>5. g = Remapped(f, f.byValue, f.usedByMd \ {v}, f.live)
  BY <1>3, <1>4 DEF Remapped, Heaps
<1>6. Tracked(g) /\ SameWraps(f, g) /\ g.byValue = f.byValue /\ g.usedByMd = f.usedByMd \ {v} /\ g.live = f.live
  BY ONLY <1>1, <1>4, <1>5, OtherMap
<1>7. SameWraps(h, g)
  BY <1>1, <1>6 DEF SameWraps, SameNodes, SameMavs
<1>8. MappedBut(g, k, h.live)
  BY <1>1, <1>2, <1>6 DEF MappedBut, SameWraps
<1>9. QED BY <1>1, <1>2, <1>6, <1>7, <1>8

(***************************************************************************)
(* What wrapped one value wraps another.                                   *)
(***************************************************************************)
Rewrap(h, k, to) ==
  [h EXCEPT !.usedByMd = @ \cup {to}, !.vams[k].val = to, !.byValue = Enter(@, to, k)]

Rewrapped(h, g, k, to) ==
  /\ SameNodes(h, g) /\ SameMavs(h, g) /\ DOMAIN g.vams = DOMAIN h.vams /\ g.vams[k].val = to
  /\ \A j \in DOMAIN h.vams : j # k => g.vams[j] = h.vams[j]

(* It is found under the other value.                                      *)
LEMMA RewrapFacts ==
  ASSUME NEW h, Tracked(h), NEW k \in DOMAIN h.vams, h.vams[k].live, NEW L, MappedBut(h, k, L),
         NEW to \in L, to \in Values, to \notin DOMAIN h.byValue, NEW g, g = Rewrap(h, k, to)
  PROVE  Tracked(g) /\ MappedBut(g, 0, L) /\ g.live = h.live /\ Rewrapped(h, g, k, to)
<1> DEFINE x == [h.vams[k] EXCEPT !.val = to]
           vams == [h.vams EXCEPT ![k] = x]
           byValue == Enter(h.byValue, to, k)
<1>1. h \in Heaps /\ h.vams \in Seq(VamSet) /\ h.vams[k] \in VamSet /\ k \in Nat /\ h.byValue \in Partial(Values, Nat) /\ 0 \notin DOMAIN h.vams
  BY HeapFacts DEF Tracked, Linked
<1>2. x \in VamSet /\ x.val = to /\ x.live = h.vams[k].live /\ x.uses = h.vams[k].uses
  BY <1>1 DEF VamSet
<1>3. byValue \in Partial(Values, Nat)
  BY <1>1, EnterTyped
<1>4. DOMAIN byValue = DOMAIN h.byValue \cup {to} /\ byValue[to] = k /\ \A w \in DOMAIN h.byValue : byValue[w] = h.byValue[w]
  BY DEF Enter
<1>5. g = [h EXCEPT !.usedByMd = h.usedByMd \cup {to}, !.vams = vams, !.byValue = byValue]
  BY <1>1 DEF Rewrap, Heaps
<1> HIDE DEF x
<1>6. vams \in Seq(VamSet) /\ DOMAIN vams = DOMAIN h.vams /\ vams[k] = x /\ \A j \in DOMAIN h.vams : j # k => vams[j] = h.vams[j]
  BY ONLY <1>1, <1>2, k \in DOMAIN h.vams
<1> HIDE DEF vams, byValue
<1>7. h.usedByMd \cup {to} \in SUBSET Values
  BY <1>1, HeapFacts
<1>8. /\ g \in Heaps /\ g.vams = vams /\ g.byValue = byValue /\ g.usedByMd = h.usedByMd \cup {to} /\ g.live = h.live
      /\ SameNodes(h, g) /\ SameMavs(h, g)
  <2>1. g \in Heaps /\ g.vams = vams /\ g.byValue = byValue /\ g.usedByMd = h.usedByMd \cup {to} /\ g.live = h.live
    BY ONLY <1>1, <1>3, <1>5, <1>6, <1>7 DEF Heaps
  <2>2. SameNodes(h, g) /\ SameMavs(h, g)
    BY ONLY <1>1, <1>5 DEF Heaps, SameNodes, SameMavs
  <2>3. QED BY ONLY <2>1, <2>2
<1>9. SameLinks(h, g)
  <2>1. \A j \in DOMAIN h.vams : vams[j].uses = h.vams[j].uses /\ vams[j].live = h.vams[j].live
    BY ONLY <1>2, <1>6
  <2>2. g.mavs = h.mavs
    BY ONLY <1>8 DEF SameMavs
  <2>3. QED BY ONLY <1>6, <1>8, <2>1, <2>2 DEF SameLinks
<1>10. Linked(g)
  BY <1>9, LinkedStays DEF Tracked
<1>11. Wrapped(g)
  BY <1>8 DEF Tracked, Wrapped, SameMavs
<1>12. Rewrapped(h, g, k, to)
  BY <1>2, <1>6, <1>8 DEF Rewrapped
<1>13. MappedBut(g, 0, L)
  <2>1. g.usedByMd \cap L = DOMAIN g.byValue
    BY <1>4, <1>8 DEF MappedBut
  <2>2. ASSUME NEW w \in DOMAIN g.byValue
        PROVE  g.byValue[w] \in DOMAIN g.vams /\ g.vams[g.byValue[w]].live /\ g.vams[g.byValue[w]].val = w /\ g.byValue[w] # 0
    <3>1. CASE w = to
      <4>1. g.byValue[w] = k /\ k \in DOMAIN g.vams /\ g.vams[k] = x
        BY ONLY <1>4, <1>6, <1>8, <3>1, k \in DOMAIN h.vams
      <4>2. k # 0
        BY <1>1
      <4>3. x.live /\ x.val = w
        BY <1>2, <3>1
      <4>4. QED BY <4>1, <4>2, <4>3
    <3>2. CASE w # to
      <4>1. w \in DOMAIN h.byValue /\ g.byValue[w] = h.byValue[w]
        BY <1>4, <1>8, <3>2
      <4>2. h.byValue[w] \in DOMAIN h.vams /\ h.vams[h.byValue[w]].live /\ h.vams[h.byValue[w]].val = w /\ h.byValue[w] # k
        BY <4>1 DEF MappedBut
      <4>3. QED BY <1>1, <1>6, <1>8, <4>1, <4>2
    <3>3. QED BY <3>1, <3>2
  <2>3. ASSUME NEW j \in DOMAIN g.vams, g.vams[j].live
        PROVE  g.vams[j].val \in DOMAIN g.byValue /\ g.byValue[g.vams[j].val] = j
    <3>1. CASE j = k
      BY <1>2, <1>4, <1>6, <1>8, <3>1
    <3>2. CASE j # k
      <4>1. j \in DOMAIN h.vams /\ g.vams[j] = h.vams[j]
        BY <1>6, <1>8, <3>2
      <4>2. h.vams[j].val \in DOMAIN h.byValue /\ h.byValue[h.vams[j].val] = j
        BY <2>3, <3>2, <4>1 DEF MappedBut
      <4>3. QED BY <1>4, <1>8, <4>1, <4>2
    <3>3. QED BY <3>1, <3>2
  <2>4. QED BY <2>1, <2>2, <2>3 DEF MappedBut
<1>14. QED BY <1>8, <1>10, <1>11, <1>12, <1>13 DEF Tracked

(***************************************************************************)
(* A value is replaced by another, or, where metadata must not refer to    *)
(* the other one, by nothing.                                              *)
(***************************************************************************)
Keeps(from, to) == IsConstant(to) \/ (~IsConstant(from) /\ ~OtherFunction(from, to))

TakesOver(h, g, k, to) ==
  \/ \E f : SameWraps(h, f) /\ Rewrapped(f, g, k, to)
  \/ \E md \in Refs : md[1] = "vam" /\ Removed(h, g, k, md) /\ g.vams[md[2]].val = to

ReplacedBy(h, g, from, to) ==
  \/ from \notin DOMAIN h.byValue /\ g = h
  \/ from \in DOMAIN h.byValue /\ Keeps(from, to) /\ TakesOver(h, g, h.byValue[from], to)
  \/ from \in DOMAIN h.byValue /\ ~ Keeps(from, to) /\ Removed(h, g, h.byValue[from], Nil)

(* ValueAsMetadata::HandleRAUW.                                            *)
LEMMA HandleRAUWFacts ==
  ASSUME NEW h, Tracked(h), Mapped(h), NEW from, NEW to \in h.live, from # to, NEW g, g = HandleRAUW(h, from, to)
  PROVE  Tracked(g) /\ MappedBut(g, 0, h.live) /\ g.live = h.live /\ ReplacedBy(h, g, from, to)
<1>1. h \in Heaps /\ to \in Values
  BY HeapFacts DEF Tracked, Linked
<1>2. CASE from \notin DOMAIN h.byValue
  <2>1. g = h
    BY <1>2 DEF HandleRAUW
  <2>2. MappedBut(h, 0, h.live)
    BY <1>1, MappedIs
  <2>3. QED BY <1>2, <2>1, <2>2 DEF ReplacedBy
<1>3. CASE from \in DOMAIN h.byValue
  <2> DEFINE k == h.byValue[from]
             f == Unused(h, from)
             e == GetVam(f, to).h
             r == GetVam(f, to).md
  <2>1. g = IF ~IsConstant(from) /\ IsConstant(to) THEN Discard(e, k, r)
            ELSE IF IsConstant(from) # IsConstant(to) \/ (~IsConstant(from) /\ OtherFunction(from, to)) THEN Discard(f, k, Nil)
            ELSE IF to \in DOMAIN f.byValue THEN Discard(f, k, Vam(f.byValue[to])) ELSE Rewrap(f, k, to)
    BY <1>3, Zenon DEF HandleRAUW, Unused, Rewrap
  <2>2. /\ Tracked(f) /\ SameWraps(h, f) /\ MappedBut(f, k, h.live) /\ f.live = h.live /\ from \notin DOMAIN f.byValue
        /\ k \in DOMAIN h.vams /\ h.vams[k].live
    BY <1>3, UnusedFacts
  <2>3. Tracked(e) /\ VamOf(f, e, to, r) /\ MappedBut(e, k, h.live) /\ r # Vam(k)
    <3> HIDE DEF f, k
    <3>1. k \in DOMAIN f.vams
      BY <2>2 DEF SameWraps
    <3>2. QED BY ONLY <1>1, <2>2, <3>1, to \in h.live, GetVamFacts
  <2> HIDE DEF k, f, e, r
  <2>4. SameNodes(h, f) /\ SameMavs(h, f) /\ MoreVams(h, f) /\ k \in DOMAIN f.vams /\ f.vams[k].live /\ f.vams = h.vams
    BY <2>2 DEF SameWraps, MoreVams
  <2>5. CASE ~IsConstant(from) /\ IsConstant(to)
    <3>1. g = Discard(e, k, r) /\ Keeps(from, to)
      BY ONLY <2>1, <2>5 DEF Keeps
    <3>2. SameNodes(h, e) /\ SameMavs(h, e) /\ MoreVams(h, e) /\ e.live = h.live /\ k \in DOMAIN e.vams
      BY <2>2, <2>3, <2>4 DEF VamOf, SameNodes, SameMavs, MoreVams
    <3>3. r \in Refs /\ r[1] = "vam" /\ r[1] # "node" /\ Known(e, r) /\ e.vams[r[2]].val = to /\ r[2] \in DOMAIN e.vams /\ r[2] # k
      BY <2>3, Shapes DEF VamOf, Known
    <3>4. Tracked(g) /\ MappedBut(g, 0, h.live) /\ g.live = h.live /\ Removed(h, g, k, r) /\ \A j \in DOMAIN e.vams : j # k => g.vams[j].val = e.vams[j].val
      BY ONLY <2>3, <3>1, <3>2, <3>3, RemovedFacts
    <3>5. TakesOver(h, g, k, to)
      BY <3>3, <3>4 DEF TakesOver
    <3>6. QED BY <1>3, <3>1, <3>4, <3>5 DEF ReplacedBy, k
  <2>6. CASE ~ Keeps(from, to)
    <3>1. g = Discard(f, k, Nil)
      BY ONLY <2>1, <2>6 DEF Keeps, IsConstant
    <3>2. Nil \in Refs /\ Known(f, Nil) /\ Nil # Vam(k) /\ Nil[1] # "node"
      BY Shapes DEF Known
    <3>3. Tracked(g) /\ MappedBut(g, 0, h.live) /\ g.live = h.live /\ Removed(h, g, k, Nil)
      BY ONLY <2>2, <2>4, <3>1, <3>2, RemovedFacts
    <3>4. QED BY <1>3, <2>6, <3>3 DEF ReplacedBy, k
  <2>7. CASE Keeps(from, to) /\ (IsConstant(from) \/ ~IsConstant(to)) /\ to \in DOMAIN f.byValue
    <3> DEFINE w == f.byValue[to]
    <3>1. g = Discard(f, k, Vam(w))
      BY ONLY <2>1, <2>7 DEF Keeps, IsConstant
    <3>2. w \in DOMAIN f.vams /\ f.vams[w].live /\ f.vams[w].val = to /\ w # k
      BY <2>2, <2>7 DEF MappedBut
    <3> HIDE DEF w
    <3>3. w \in Nat
      BY <2>2, <3>2, HeapFacts DEF Tracked, Linked
    <3>4. Vam(w) \in Refs /\ Vam(w)[1] = "vam" /\ Vam(w)[1] # "node" /\ Vam(w)[2] = w /\ Known(f, Vam(w)) /\ Vam(w) # Vam(k)
      BY <3>2, <3>3, Shapes DEF Known
    <3>5. Tracked(g) /\ MappedBut(g, 0, h.live) /\ g.live = h.live /\ Removed(h, g, k, Vam(w)) /\ \A j \in DOMAIN f.vams : j # k => g.vams[j].val = f.vams[j].val
      BY ONLY <2>2, <2>4, <3>1, <3>4, RemovedFacts
    <3>6. TakesOver(h, g, k, to)
      BY <3>2, <3>4, <3>5 DEF TakesOver
    <3>7. QED BY <1>3, <2>7, <3>5, <3>6 DEF ReplacedBy, k
  <2>8. CASE Keeps(from, to) /\ (IsConstant(from) \/ ~IsConstant(to)) /\ to \notin DOMAIN f.byValue
    <3>1. g = Rewrap(f, k, to)
      BY ONLY <2>1, <2>8 DEF Keeps, IsConstant
    <3>2. Tracked(g) /\ MappedBut(g, 0, h.live) /\ g.live = f.live /\ Rewrapped(f, g, k, to)
      BY ONLY <1>1, <2>2, <2>4, <2>8, <3>1, to \in h.live, RewrapFacts
    <3>3. TakesOver(h, g, k, to)
      BY <2>2, <3>2 DEF TakesOver
    <3>4. QED BY <1>3, <2>2, <2>8, <3>2, <3>3 DEF ReplacedBy, k
  <2>9. QED BY <2>5, <2>6, <2>7, <2>8
<1>4. QED BY <1>2, <1>3

-----------------------------------------------------------------------------
(***************************************************************************)
(* What a record names is wrapped, one after the other.                    *)
(***************************************************************************)
LEMMA WrapFacts ==
  ASSUME NEW h, Tracked(h), Mapped(h), NEW op, op \in Refs => Known(h, op) /\ op[1] # "value",
         op \in Refs \/ (op[1] = "value" /\ op[2] \in h.live)
  PROVE  LET g == Wrap(h, op).h
             r == Wrap(h, op).md
         IN  /\ Tracked(g) /\ Mapped(g) /\ SameNodes(h, g) /\ SameMavs(h, g) /\ MoreVams(h, g) /\ g.live = h.live
             /\ r \in Refs /\ Known(g, r) /\ (op \in Refs => g = h /\ r = op)
             /\ op[1] = "value" => r[1] = "vam" /\ g.vams[r[2]].val = op[2]
<1> DEFINE g == Wrap(h, op).h
           r == Wrap(h, op).md
<1>1. h \in Heaps
  BY DEF Tracked, Linked
<1>2. CASE op[1] = "value"
  <2> DEFINE v == op[2]
  <2>1. g = GetVam(h, v).h /\ r = GetVam(h, v).md /\ op \notin Refs /\ v \in h.live /\ v \in Values
    BY <1>1, <1>2, HeapFacts DEF Wrap
  <2>2. MappedBut(h, 0, h.live)
    BY <1>1, MappedIs
  <2> HIDE DEF v
  <2>3. LET e == GetVam(h, v).h
            q == GetVam(h, v).md
        IN  Tracked(e) /\ VamOf(h, e, v, q) /\ MappedBut(e, 0, h.live) /\ q # Vam(0)
    BY ONLY <2>1, <2>2, Tracked(h), GetVamFacts
  <2> HIDE DEF g, r
  <2>4. Tracked(g) /\ VamOf(h, g, v, r) /\ MappedBut(g, 0, h.live)
    BY <2>1, <2>3
  <2>5. g.live = h.live /\ g \in Heaps
    BY <2>4 DEF VamOf, Tracked, Linked
  <2>6. Mapped(g)
    BY <2>4, <2>5, MappedIs
  <2>7. QED BY <2>1, <2>4, <2>5, <2>6 DEF VamOf, g, r, v
<1>3. CASE op \in Refs
  <2>1. g = h /\ r = op /\ op[1] # "value"
    BY <1>3 DEF Wrap
  <2> HIDE DEF g, r
  <2>2. SameNodes(h, h) /\ SameMavs(h, h) /\ MoreVams(h, h)
    BY DEF SameNodes, SameMavs, MoreVams
  <2>3. QED BY <1>3, <2>1, <2>2 DEF g, r
<1>4. QED BY <1>2, <1>3

(* From h to g, values are wrapped.                                        *)
MoreWrapped(h, g) ==
  Tracked(g) /\ Mapped(g) /\ SameNodes(h, g) /\ SameMavs(h, g) /\ MoreVams(h, g) /\ g.live = h.live

(* More values are wrapped twice.                                          *)
LEMMA MoreWrappedTwice ==
  ASSUME NEW h, NEW g, NEW f, MoreWrapped(h, g), MoreWrapped(g, f)
  PROVE  MoreWrapped(h, f)
BY DEF MoreWrapped, SameNodes, SameMavs, MoreVams

(* What is known stays known.                                              *)
LEMMA KnownStays ==
  ASSUME NEW h, NEW g, SameNodes(h, g), MoreVams(h, g), NEW md, Known(h, md)
  PROVE  Known(g, md)
BY DEF SameNodes, MoreVams, Known
(***************************************************************************)
(* The operands of a record, wrapped one after the other.                  *)
(***************************************************************************)
WrapNext(a, op) == LET w == Wrap(a.h, op) IN [h |-> w.h, ops |-> Append(a.ops, w.md)]

(* What a record names is a reference, or a value that lives.              *)
LEMMA GivenFacts ==
  ASSUME IInv, NEW op \in Given, NEW h, MoreWrapped(heap, h)
  PROVE  (op \in Refs => Known(h, op) /\ op[1] # "value") /\ (op \in Refs \/ (op[1] = "value" /\ op[2] \in h.live))
<1>1. heap \in Heaps /\ h.live = heap.live /\ h.nodes = heap.nodes
  BY DEF IInv, Tracked, Linked, MoreWrapped, SameNodes
<1>2. CASE op = Nil
  BY <1>2, Shapes DEF Known
<1>3. CASE op \in {<<"value", v>> : v \in {w \in heap.live : IsConstant(w)}}
  BY <1>1, <1>3, Shapes
<1>4. CASE op \in {Node(n) : n \in DOMAIN heap.nodes}
  <2>1. PICK n \in DOMAIN heap.nodes : op = Node(n)
    BY <1>4
  <2>2. n \in Nat
    BY <1>1, HeapFacts
  <2>3. op \in Refs /\ op[1] = "node" /\ op[2] = n
    BY <2>1, <2>2, Shapes
  <2>4. QED BY <1>1, <2>1, <2>3 DEF Known
<1>5. QED BY <1>2, <1>3, <1>4 DEF Given

(* One more operand.                                                       *)
LEMMA WrapNextFacts ==
  ASSUME IInv, NEW a, MoreWrapped(heap, a.h), a.ops \in Seq(Refs), \A i \in DOMAIN a.ops : Known(a.h, a.ops[i]), NEW op \in Given,
         NEW b, b = WrapNext(a, op)
  PROVE  MoreWrapped(heap, b.h) /\ b.ops \in Seq(Refs) /\ \A i \in DOMAIN b.ops : Known(b.h, b.ops[i])
<1> DEFINE g == Wrap(a.h, op).h
           r == Wrap(a.h, op).md
<1>1. b.h = g /\ b.ops = Append(a.ops, r)
  BY DEF WrapNext
<1>2. Tracked(a.h) /\ Mapped(a.h)
  BY DEF MoreWrapped
<1>3. (op \in Refs => Known(a.h, op) /\ op[1] # "value") /\ (op \in Refs \/ (op[1] = "value" /\ op[2] \in a.h.live))
  BY GivenFacts, Shapes
<1>4. MoreWrapped(a.h, g) /\ r \in Refs /\ Known(g, r)
  BY ONLY <1>2, <1>3, WrapFacts DEF MoreWrapped
<1> HIDE DEF g, r
<1>5. MoreWrapped(heap, b.h)
  BY <1>1, <1>4, MoreWrappedTwice
<1>6. b.ops \in Seq(Refs)
  BY <1>1, <1>4
<1>7. ASSUME NEW i \in DOMAIN b.ops PROVE Known(b.h, b.ops[i])
  <2>1. (i \in DOMAIN a.ops /\ b.ops[i] = a.ops[i]) \/ b.ops[i] = r
    BY <1>1, <1>4
  <2>2. i \in DOMAIN a.ops => Known(g, a.ops[i])
    BY <1>4, KnownStays DEF MoreWrapped
  <2>3. QED BY <1>1, <1>4, <2>1, <2>2
<1>8. QED BY <1>5, <1>6, <1>7

(* All operands, by induction along the fold.                              *)
LEMMA WrapAllFacts ==
  ASSUME IInv, NEW ops \in Seq(Given)
  PROVE  LET a == WrapAll(ops)
         IN  MoreWrapped(heap, a.h) /\ a.ops \in Seq(Refs) /\ \A i \in DOMAIN a.ops : Known(a.h, a.ops[i])
<1> DEFINE N == Len(ops)
           I == Given
           X == {a \in [h : Heaps, ops : Seq(Refs)] : MoreWrapped(heap, a.h) /\ \A i \in DOMAIN a.ops : Known(a.h, a.ops[i])}
           base == [h |-> heap, ops |-> <<>>]
           G == [p \in X \X I |-> WrapNext(p[1], p[2])]
           g == CHOOSE g : g = [x \in SUBSET DOMAIN ops |->
                                 IF x = {} THEN base ELSE WrapNext(g[x \ {Max(x)}], ops[Max(x)])]
           c == [j \in 0 .. N |-> g[1 .. j]]
<1>1. WrapAll(ops) = g[DOMAIN ops]
  BY Zenon DEF WrapAll, FoldLeft, MapThenFoldSet, WrapNext
<1> HIDE DEF g
<1>2. ops \in Seq(I)
  OBVIOUS
<1>3. DOMAIN ops = 1 .. N /\ N \in Nat /\ \A j \in 1 .. N : ops[j] \in I
  OBVIOUS
<1> HIDE DEF N
<1>4. ASSUME NEW a \in X, NEW op \in I PROVE WrapNext(a, op) \in X
  <2> DEFINE b == WrapNext(a, op)
  <2>1. MoreWrapped(heap, a.h) /\ a.ops \in Seq(Refs) /\ (\A i \in DOMAIN a.ops : Known(a.h, a.ops[i])) /\ op \in Given
    OBVIOUS
  <2>2. MoreWrapped(heap, b.h) /\ b.ops \in Seq(Refs) /\ \A i \in DOMAIN b.ops : Known(b.h, b.ops[i])
    <3> HIDE DEF X, I
    <3>1. QED BY <2>1, WrapNextFacts
  <2>3. b = [h |-> b.h, ops |-> b.ops]
    BY DEF WrapNext
  <2> HIDE DEF b
  <2>4. b.h \in Heaps
    BY <2>2 DEF MoreWrapped, Tracked, Linked
  <2>5. QED BY <2>2, <2>3, <2>4 DEF b
<1>5. G \in [X \X I -> X] /\ \A a \in X, op \in I : G[<<a, op>>] = WrapNext(a, op)
  BY <1>4
<1>6. base \in X
  <2>1. heap \in Heaps /\ MoreWrapped(heap, heap)
    BY DEF IInv, Tracked, Linked, MoreWrapped, SameNodes, SameMavs, MoreVams
  <2>2. QED BY <2>1
<1> HIDE DEF G, X, I, base
<1>7. PICK t \in [SUBSET (1 .. N) -> X] : FoldsBy(G, base, ops, N, t)
  BY ONLY <1>2, <1>3, <1>5, <1>6, FoldDefined DEF N
<1>8. t = [x \in SUBSET DOMAIN ops |-> IF x = {} THEN base ELSE WrapNext(t[x \ {Max(x)}], ops[Max(x)])]
  <2>1. \A x \in SUBSET (1 .. N) : x # {} => Max(x) \in x /\ t[x \ {Max(x)}] \in X /\ ops[Max(x)] \in I
    BY <1>3, <1>7, GreatestIn
  <2>2. \A x \in SUBSET (1 .. N) : x # {} => G[<<t[x \ {Max(x)}], ops[Max(x)]>>] = WrapNext(t[x \ {Max(x)}], ops[Max(x)])
    BY <1>5, <2>1
  <2>3. t = [x \in SUBSET (1 .. N) |-> IF x = {} THEN base ELSE G[<<t[x \ {Max(x)}], ops[Max(x)]>>]]
    BY ONLY <1>7 DEF FoldsBy
  <2>4. QED BY ONLY <1>3, <2>2, <2>3
<1>9. g = [x \in SUBSET DOMAIN ops |-> IF x = {} THEN base ELSE WrapNext(g[x \ {Max(x)}], ops[Max(x)])]
  BY ONLY <1>8, Zenon DEF g
<1> HIDE DEF g
<1>10. c[0] = base
  <2>1. 1 .. 0 = {} /\ 1 .. 0 \in SUBSET DOMAIN ops
    BY <1>3
  <2>2. g[1 .. 0] = base
    BY ONLY <1>9, <2>1
  <2>3. QED BY <1>3, <2>2
<1>11. ASSUME NEW j \in 1 .. N PROVE c[j] = WrapNext(c[j - 1], ops[j])
  <2>1. /\ 1 .. j \in SUBSET (1 .. N) /\ 1 .. j # {} /\ Max(1 .. j) = j /\ (1 .. j) \ {j} = 1 .. j - 1
        /\ j - 1 \in 0 .. N
    BY ONLY <1>3, j \in 1 .. N, UpToLess, Zenon
  <2>2. g[1 .. j] = LET x == 1 .. j IN WrapNext(g[x \ {Max(x)}], ops[Max(x)])
    BY ONLY <1>3, <1>9, <2>1
  <2>3. c[j] = g[1 .. j] /\ c[j - 1] = g[1 .. j - 1]
    BY <1>3, <2>1
  <2> HIDE DEF c
  <2>4. QED BY <2>1, <2>2, <2>3
<1>12. c[N] = g[DOMAIN ops] /\ N \in 0 .. N
  BY <1>3
<1> HIDE DEF c
<1>13. c[N] \in X
  <2>1. \A j \in 1 .. N : c[j - 1] \in X => c[j] = G[<<c[j - 1], ops[j]>>]
    BY <1>3, <1>5, <1>11
  <2>2. Stepwise(G, ops, c, X)
    BY <1>3, <2>1 DEF Stepwise, N
  <2>3. \A j \in 0 .. Len(ops) : c[j] \in X
    BY ONLY <1>2, <1>3, <1>5, <1>6, <1>10, <2>2, ChainStays
  <2>4. QED BY <1>12, <2>3 DEF N
<1>14. WrapAll(ops) \in X
  BY <1>1, <1>12, <1>13
<1>15. QED BY <1>14 DEF X

(***************************************************************************)
(* What is found under values is not disturbed by nodes that are made.     *)
(***************************************************************************)
LEMMA SameMapped ==
  ASSUME NEW h, NEW g, Mapped(h), SameVams(h, g), SameMap(h, g)
  PROVE  Mapped(g)
BY DEF Mapped, SameVams, SameMap

(* What a record of a node makes.                                          *)
LEMMA ReadNodeFacts ==
  ASSUME IInv, NEW ops \in Seq(Given), NEW storage \in {"uniqued", "distinct"}
  PROVE  LET a == WrapAll(ops)
             g == GetNode(a.h, a.ops, storage).h
         IN  Tracked(g) /\ Mapped(g) /\ MoreWrapped(heap, a.h) /\ Grown(a.h, g)
<1> DEFINE a == WrapAll(ops)
           g == GetNode(a.h, a.ops, storage).h
<1>1. MoreWrapped(heap, a.h) /\ a.ops \in Seq(Refs) /\ \A i \in DOMAIN a.ops : Known(a.h, a.ops[i])
  BY WrapAllFacts
<1> HIDE DEF a
<1>2. Tracked(a.h) /\ Mapped(a.h)
  BY <1>1 DEF MoreWrapped
<1>3. Tracked(g) /\ Grown(a.h, g)
  BY ONLY <1>1, <1>2, storage \in {"uniqued", "distinct"}, GetNodeFacts
<1> HIDE DEF g
<1>4. Mapped(g)
  BY <1>2, <1>3, SameMapped DEF Grown
<1>5. QED BY <1>1, <1>3, <1>4 DEF a, g

(***************************************************************************)
(* A new MetadataAsValue.                                                  *)
(***************************************************************************)
Wrapping(h, md, n) == [h EXCEPT !.mavs = Append(@, [md |-> md, live |-> TRUE]), !.byMd = Enter(@, md, n)]

WithMav(h, g, m, md) ==
  /\ SameVams(h, g) /\ SameMap(h, g) /\ SameNodes(h, g) /\ g.calls = h.calls /\ g.changes = h.changes
  /\ DOMAIN h.mavs \subseteq DOMAIN g.mavs /\ \A j \in DOMAIN h.mavs : g.mavs[j] = h.mavs[j]
  /\ m \in DOMAIN g.mavs /\ m \in Nat /\ g.mavs[m].md = md

(* It is entered, and not tracked yet.                                     *)
LEMMA WrappingFacts ==
  ASSUME NEW h, Tracked(h), NEW md \in Refs, Known(h, md), md # Nil, NEW n, n = Len(h.mavs) + 1, NEW g, g = Wrapping(h, md, n)
  PROVE  /\ g \in Heaps /\ g.vams = h.vams /\ WithMav(h, g, n, md) /\ UsesKept(g, AllSlots(h)) /\ Wrapped(g)
         /\ AllSlots(g) = AllSlots(h) \cup {MavSlot(n)} /\ MavSlot(n) \notin AllSlots(h) /\ MavSlot(n) \in Slots
         /\ \A s \in AllSlots(g) : Known(g, Content(g, s))
<1> DEFINE x == [md |-> md, live |-> TRUE]
           mavs == Append(h.mavs, x)
           byMd == Enter(h.byMd, md, n)
<1>1. h \in Heaps /\ h.mavs \in Seq(Mavs) /\ h.byMd \in Partial(Refs, Nat)
  BY HeapFacts DEF Tracked, Linked
<1>2. x \in Mavs /\ x.md = md /\ x.live
  BY DEF Mavs
<1> HIDE DEF x
<1>3. /\ mavs \in Seq(Mavs) /\ n \in Nat /\ n \notin DOMAIN h.mavs /\ DOMAIN mavs = DOMAIN h.mavs \cup {n}
      /\ mavs[n] = x /\ \A j \in DOMAIN h.mavs : mavs[j] = h.mavs[j]
  BY <1>1, <1>2
<1>4. byMd \in Partial(Refs, Nat)
  BY <1>1, <1>3, EnterTyped
<1>5. DOMAIN byMd = DOMAIN h.byMd \cup {md} /\ byMd[md] = n /\ \A y \in DOMAIN h.byMd : y # md => byMd[y] = h.byMd[y]
  BY DEF Enter
<1>6. g = [h EXCEPT !.mavs = mavs, !.byMd = byMd]
  BY <1>1 DEF Wrapping, x, Heaps
<1> HIDE DEF mavs, byMd
<1>7. /\ g \in Heaps /\ g.mavs = mavs /\ g.byMd = byMd /\ g.vams = h.vams
      /\ SameNodes(h, g) /\ SameMap(h, g) /\ g.calls = h.calls /\ g.changes = h.changes
  BY <1>1, <1>3, <1>4, <1>6 DEF Heaps, SameNodes, SameMap
<1>8. WithMav(h, g, n, md)
  BY <1>2, <1>3, <1>7 DEF WithMav, SameVams
<1>9. AllSlots(g) = AllSlots(h) \cup {MavSlot(n)}
  <2>1. g.nodes = h.nodes /\ DOMAIN g.mavs = DOMAIN h.mavs \cup {n}
    BY <1>3, <1>7 DEF SameNodes
  <2>2. QED BY ONLY <2>1 DEF AllSlots, OpSlots
<1>10. MavSlot(n) \notin AllSlots(h) /\ MavSlot(n) \in Slots
  <2>1. MavSlot(n) \in Slots
    BY <1>3 DEF MavSlot, Slots
  <2>2. QED BY <1>1, <1>3, <2>1, SlotFacts, Shapes
<1>11. ASSUME NEW s \in AllSlots(h) PROVE Content(g, s) = Content(h, s)
  BY <1>1, <1>3, <1>7, SlotFacts DEF Content, SameNodes
<1>12. Content(g, MavSlot(n)) = md
  BY <1>2, <1>3, <1>7, SlotFacts
<1>13. UsesKept(g, AllSlots(h))
  BY <1>7, <1>11 DEF Tracked, Linked, UsesKept
<1>14. ASSUME NEW s \in AllSlots(g) PROVE Known(g, Content(g, s))
  <2>1. \A y : Known(h, y) => Known(g, y)
    BY <1>7 DEF Known, SameNodes
  <2>2. QED BY <1>9, <1>11, <1>12, <2>1 DEF Tracked, Linked
<1>15. Wrapped(g)
  <2>1. ASSUME NEW y \in DOMAIN g.byMd
        PROVE  g.byMd[y] \in DOMAIN g.mavs /\ g.mavs[g.byMd[y]].live /\ (y # Nil => g.mavs[g.byMd[y]].md = y)
    BY <1>2, <1>3, <1>5, <1>7 DEF Tracked, Wrapped
  <2>2. Nil \in DOMAIN g.byMd => g.changes > 0
    BY <1>5, <1>7 DEF Tracked, Wrapped
  <2>3. \A c \in Calls : g.calls[c] # 0 => g.calls[c] \in DOMAIN g.mavs
    BY <1>3, <1>7 DEF Tracked, Wrapped
  <2>4. \A j \in DOMAIN g.mavs : ~ g.mavs[j].live => g.mavs[j].md = Nil
    BY <1>2, <1>3, <1>7 DEF Tracked, Wrapped
  <2>5. QED BY <2>1, <2>2, <2>3, <2>4 DEF Wrapped
<1>16. QED BY <1>7, <1>8, <1>9, <1>10, <1>13, <1>14, <1>15

(* It is tracked.                                                          *)
LEMMA NewMavFacts ==
  ASSUME NEW h, Tracked(h), NEW md \in Refs, Known(h, md), md # Nil, NEW n, n = Len(h.mavs) + 1
  PROVE  LET f == Track(Wrapping(h, md, n), MavSlot(n), TRUE)
         IN  Tracked(f) /\ WithMav(h, f, n, md)
<1> DEFINE g == Wrapping(h, md, n)
           s == MavSlot(n)
           u == [slot |-> s, owned |-> TRUE]
           f == Track(g, s, TRUE)
<1>1. /\ g \in Heaps /\ g.vams = h.vams /\ WithMav(h, g, n, md) /\ UsesKept(g, AllSlots(h)) /\ Wrapped(g)
      /\ AllSlots(g) = AllSlots(h) \cup {s} /\ s \notin AllSlots(h) /\ s \in Slots
      /\ \A t \in AllSlots(g) : Known(g, Content(g, t))
  BY WrappingFacts
<1> HIDE DEF g, s
<1>2. Content(g, s) \in Refs /\ (Content(g, s)[1] = "vam" => Content(g, s)[2] \in DOMAIN g.vams)
  BY <1>1, SlotFacts DEF Known
<1>3. /\ OnlyUses(g, f) /\ UsesKept(f, AllSlots(h) \cup {s})
      /\ \A k \in DOMAIN g.vams : Among(f.vams[k].uses) \subseteq Among(g.vams[k].uses) \cup {u}
  <2>1. TRUE \in BOOLEAN
    OBVIOUS
  <2>2. QED BY ONLY <1>1, <1>2, <2>1, TrackFacts
<1>4. u.owned
  OBVIOUS
<1> HIDE DEF f, u
<1>5. f \in Heaps /\ f.nodes = g.nodes /\ f.mavs = g.mavs /\ SameVams(g, f) /\ SameMavs(g, f) /\ SameNodes(g, f) /\ SameMap(g, f)
  BY <1>3 DEF OnlyUses, SameNodes, SameMavs
<1>6. AllSlots(f) = AllSlots(g) /\ \A t : Content(f, t) = Content(g, t)
  BY ONLY <1>5, SameContent
<1>7. \A t \in AllSlots(f) : Known(f, Content(f, t))
  <2>1. \A x : Known(f, x) <=> Known(g, x)
    BY ONLY <1>5, SameKnown
  <2>2. QED BY ONLY <1>1, <1>6, <2>1
<1>8. Owned(f)
  <2>1. ASSUME NEW k \in DOMAIN f.vams, NEW use \in Among(f.vams[k].uses) PROVE OwnedAs(f, use)
    <3>1. k \in DOMAIN h.vams /\ g.vams[k] = h.vams[k] /\ f.nodes = h.nodes
      BY <1>1, <1>5 DEF SameVams, WithMav, SameNodes
    <3>2. use \in Among(h.vams[k].uses) \/ use = u
      BY <1>1, <1>3, <2>1, <3>1
    <3>3. use \in Among(h.vams[k].uses) => OwnedAs(f, use)
      BY <3>1 DEF Tracked, Linked, Owned, OwnedAs
    <3>4. OwnedAs(f, u)
      BY <1>4 DEF OwnedAs
    <3>5. QED BY <3>2, <3>3, <3>4
  <2>2. QED BY <2>1 DEF Owned
<1>9. Unique(f) /\ Stored(f)
  <2>1. f.nodes = h.nodes /\ f.store = h.store
    BY <1>1, <1>5 DEF WithMav, SameNodes
  <2>2. QED BY <2>1 DEF Tracked, Linked, Unique, UniqueNode, Stored
<1>10. Wrapped(f)
  BY <1>1, <1>5 DEF Wrapped, SameMavs
<1>11. Tracked(f)
  BY <1>1, <1>3, <1>5, <1>6, <1>7, <1>8, <1>9, <1>10 DEF Tracked, Linked
<1>12. WithMav(h, f, n, md)
  BY <1>1, <1>5 DEF WithMav, SameVams, SameMap, SameNodes, SameMavs
<1>13. QED BY <1>11, <1>12 DEF f, g, s

(***************************************************************************)
(* MetadataAsValue::Get returns what wraps the canonical metadata.         *)
(***************************************************************************)
LEMMA GetMavFacts ==
  ASSUME NEW h, Tracked(h), NEW md \in Refs, Known(h, md)
  PROVE  LET c == Canonicalize(h, md)
             m == GetMav(h, md)
         IN  Tracked(m.h) /\ WithMav(c.h, m.h, m.mav, c.md) /\ Tracked(c.h) /\ Grown(h, c.h)
<1> DEFINE e == Canonicalize(h, md).h
           r == Canonicalize(h, md).md
           n == Len(h.mavs) + 1
           g == GetMav(h, md).h
           m == GetMav(h, md).mav
<1>1. Tracked(e) /\ Grown(h, e) /\ r \in Refs /\ r # Nil /\ Known(e, r)
  BY CanonicalizeFacts
<1> DEFINE f == Track(Wrapping(e, r, n), MavSlot(n), TRUE)
<1>2. /\ r \in DOMAIN e.byMd => g = e /\ m = e.byMd[r]
      /\ r \notin DOMAIN e.byMd => g = f /\ m = n
  BY Zenon DEF GetMav, Wrapping
<1>3. n = Len(e.mavs) + 1
  BY <1>1 DEF Grown, SameMavs
<1> HIDE DEF e, r, g, m, n, f
<1>4. CASE r \in DOMAIN e.byMd
  <2>1. g = e /\ m = e.byMd[r]
    BY <1>2, <1>4
  <2>2. m \in DOMAIN e.mavs /\ e.mavs[m].md = r
    BY <1>1, <1>4, <2>1 DEF Tracked, Wrapped
  <2>3. m \in Nat
    BY <1>1, <2>2, HeapFacts DEF Tracked, Linked
  <2>4. WithMav(e, g, m, r)
    BY <2>1, <2>2, <2>3 DEF WithMav, SameVams, SameMap, SameNodes
  <2>5. QED BY <1>1, <2>1, <2>4 DEF e, r, g, m
<1>5. CASE r \notin DOMAIN e.byMd
  <2>1. g = f /\ m = n
    BY <1>2, <1>5
  <2>2. Tracked(f) /\ WithMav(e, f, n, r)
    BY ONLY <1>1, <1>3, NewMavFacts DEF f
  <2>3. QED BY <1>1, <2>1, <2>2 DEF e, r, g, m
<1>6. QED BY <1>4, <1>5

(* A call holds a MetadataAsValue.                                         *)
Held(h, c, m) == [h EXCEPT !.calls[c] = m]

(* Holding one disturbs nothing.                                           *)
LEMMA HeldFacts ==
  ASSUME NEW h, Tracked(h), NEW c \in Calls, NEW m \in DOMAIN h.mavs, NEW g, g = Held(h, c, m)
  PROVE  /\ Tracked(g) /\ g.vams = h.vams /\ SameMap(h, g) /\ SameNodes(h, g) /\ g.mavs = h.mavs /\ g.changes = h.changes
         /\ g.calls[c] = m /\ \A d \in Calls : d # c => g.calls[d] = h.calls[d]
<1>1. h \in Heaps /\ m \in Nat /\ h.calls \in [Calls -> Nat]
  BY HeapFacts DEF Tracked, Linked
<1>2. /\ g \in Heaps /\ g.vams = h.vams /\ SameMap(h, g) /\ SameNodes(h, g) /\ g.mavs = h.mavs /\ g.changes = h.changes
      /\ g.byMd = h.byMd /\ g.calls[c] = m /\ \A d \in Calls : d # c => g.calls[d] = h.calls[d]
  BY <1>1 DEF Held, Heaps, SameMap, SameNodes
<1>3. SameLinks(h, g)
  BY <1>2 DEF SameLinks
<1>4. Linked(g)
  BY <1>3, LinkedStays DEF Tracked
<1>5. Wrapped(g)
  BY <1>2 DEF Tracked, Wrapped
<1>6. QED BY <1>2, <1>4, <1>5 DEF Tracked

-----------------------------------------------------------------------------
(***************************************************************************)
(* The actions.                                                            *)
(***************************************************************************)
LEMMA InitFacts == Init => IInv
<1> SUFFICES ASSUME Init PROVE IInv
  OBVIOUS
<1>1. /\ heap.vams = <<>> /\ heap.nodes = <<>> /\ heap.mavs = <<>> /\ heap.byValue = <<>> /\ heap.store = <<>> /\ heap.byMd = <<>>
      /\ heap.usedByMd = {} /\ heap.live = Values /\ heap.changes = 0
      /\ \A c \in Calls : heap.calls[c] = 0
  BY DEF Init
<1>2. DOMAIN <<>> = {}
  OBVIOUS
<1>3. <<>> \in Partial(Values, Nat) /\ <<>> \in Partial(Seq(Refs), Nat) /\ <<>> \in Partial(Refs, Nat)
  <2>1. \A D : <<>> \in Partial(D, Nat)
    <3>1. \A D : DOMAIN <<>> \subseteq D /\ <<>> \in [DOMAIN <<>> -> Nat]
      BY <1>2
    <3>2. QED BY <3>1, PartialIs
  <2>2. QED BY <2>1
<1>4. heap \in Heaps
  <2>1. <<>> \in Seq(VamSet) /\ <<>> \in Seq(Nodes) /\ <<>> \in Seq(Mavs) /\ [c \in Calls |-> 0] \in [Calls -> Nat]
    OBVIOUS
  <2>2. QED BY <1>3, <2>1 DEF Init, Heaps
<1>5. AllSlots(heap) = {}
  BY <1>1, <1>2, <1>4, SlotFacts
<1>6. Linked(heap)
  BY <1>1, <1>2, <1>4, <1>5 DEF Linked, UsesKept, Owned, Unique, Stored
<1>7. Wrapped(heap)
  BY <1>1, <1>2 DEF Wrapped
<1>8. Mapped(heap)
  BY <1>1, <1>2 DEF Mapped
<1>9. QED BY <1>6, <1>7, <1>8 DEF IInv, Tracked

(* A short sequence is a sequence.                                         *)
LEMMA ShortSeq ==
  ASSUME NEW S, NEW s \in SeqOf(S, MaxOps)
  PROVE  s \in Seq(S)
<1>1. PICK N \in 0 .. MaxOps : s \in [1 .. N -> S]
  BY DEF SeqOf
<1>2. N \in Nat
  BY MetadataAssumption
<1>3. QED BY <1>1, <1>2

(***************************************************************************)
(* Each action keeps the invariant.                                        *)
(***************************************************************************)
LEMMA ReadNodeKeeps == IInv /\ ReadNode => IInv'
<1> SUFFICES ASSUME IInv, ReadNode PROVE IInv'
  OBVIOUS
<1>1. PICK ops \in SeqOf(Given, MaxOps), storage \in {"uniqued", "distinct"} : heap' = GetNode(WrapAll(ops).h, WrapAll(ops).ops, storage).h
  BY DEF ReadNode
<1>2. ops \in Seq(Given)
  BY ShortSeq
<1>3. Tracked(heap') /\ Mapped(heap')
  BY <1>1, <1>2, ReadNodeFacts
<1>4. QED BY <1>3 DEF IInv

(***************************************************************************)
(* What a call is given: a value that is wrapped, or a node.               *)
(***************************************************************************)
GivenCall == {<<"value", v>> : v \in heap.live} \cup {Node(n) : n \in DOMAIN heap.nodes}

(* The operand of a call is wrapped, made canonical and wrapped again.     *)
LEMMA ReadCallFacts ==
  ASSUME IInv, NEW md \in GivenCall
  PROVE  LET w == Wrap(heap, md)
             c == Canonicalize(w.h, w.md)
             m == GetMav(w.h, w.md)
         IN  /\ MoreWrapped(heap, w.h) /\ Grown(w.h, c.h) /\ WithMav(c.h, m.h, m.mav, c.md) /\ Tracked(m.h) /\ Mapped(m.h)
             /\ w.md \in Refs /\ Known(w.h, w.md) /\ \A n \in DOMAIN m.h.nodes \ DOMAIN heap.nodes : m.h.nodes[n].ops = <<>>
<1> DEFINE e == Wrap(heap, md).h
           r == Wrap(heap, md).md
           c == Canonicalize(e, r)
           g == GetMav(e, r).h
           m == GetMav(e, r).mav
<1>1. heap \in Heaps /\ Tracked(heap) /\ Mapped(heap)
  BY DEF IInv, Tracked, Linked
<1>2. (md \in Refs => Known(heap, md) /\ md[1] # "value") /\ (md \in Refs \/ (md[1] = "value" /\ md[2] \in heap.live))
  <2>1. CASE md \in {<<"value", v>> : v \in heap.live}
    BY <2>1, Shapes
  <2>2. CASE md \in {Node(n) : n \in DOMAIN heap.nodes}
    <3>1. PICK n \in DOMAIN heap.nodes : md = Node(n)
      BY <2>2
    <3>2. n \in Nat
      BY <1>1, HeapFacts
    <3>3. md \in Refs /\ md[1] = "node" /\ md[2] = n
      BY <3>1, <3>2, Shapes
    <3>4. QED BY <3>3 DEF Known
  <2>3. QED BY <2>1, <2>2 DEF GivenCall
<1>3. MoreWrapped(heap, e) /\ r \in Refs /\ Known(e, r)
  BY ONLY <1>1, <1>2, WrapFacts DEF MoreWrapped
<1> HIDE DEF e, r
<1>4. Tracked(e) /\ Mapped(e)
  BY <1>3 DEF MoreWrapped
<1>5. Tracked(g) /\ WithMav(c.h, g, m, c.md) /\ Grown(e, c.h)
  BY ONLY <1>3, <1>4, GetMavFacts
<1>9. \A n \in DOMAIN c.h.nodes \ DOMAIN e.nodes : c.h.nodes[n].ops = <<>>
  BY ONLY <1>3, <1>4, CanonicalizeFacts
<1> HIDE DEF c, g, m
<1>10. \A n \in DOMAIN g.nodes \ DOMAIN heap.nodes : g.nodes[n].ops = <<>>
  BY <1>3, <1>5, <1>9 DEF MoreWrapped, WithMav, SameNodes
<1>6. SameVams(e, g) /\ SameMap(e, g)
  BY <1>5 DEF WithMav, Grown, SameVams, SameMap
<1>7. Mapped(g)
  BY <1>4, <1>6, SameMapped
<1>8. QED BY <1>3, <1>5, <1>7, <1>10 DEF e, r, c, g, m

(* ReadCall.                                                               *)
LEMMA ReadCallKeeps == IInv /\ ReadCall => IInv'
<1> SUFFICES ASSUME IInv, ReadCall PROVE IInv'
  OBVIOUS
<1>1. PICK c \in Calls, md \in GivenCall :
        LET w == Wrap(heap, md)
            m == GetMav(w.h, w.md)
        IN  heap' = [m.h EXCEPT !.calls[c] = m.mav]
  BY DEF ReadCall, GivenCall
<1> DEFINE e == Wrap(heap, md).h
           r == Wrap(heap, md).md
           g == GetMav(e, r).h
           m == GetMav(e, r).mav
<1>2. heap' = Held(g, c, m)
  BY <1>1 DEF Held
<1>3. WithMav(Canonicalize(e, r).h, g, m, Canonicalize(e, r).md) /\ Tracked(g) /\ Mapped(g)
  BY ReadCallFacts
<1> HIDE DEF g, m
<1>4. m \in DOMAIN g.mavs
  BY <1>3 DEF WithMav
<1>5. Tracked(heap') /\ heap'.vams = g.vams /\ SameMap(g, heap')
  BY ONLY <1>2, <1>3, <1>4, c \in Calls, HeldFacts
<1>6. Mapped(heap')
  BY <1>3, <1>5, SameMapped DEF SameVams
<1>7. QED BY <1>5, <1>6 DEF IInv

(***************************************************************************)
(* A value is gone.                                                        *)
(***************************************************************************)
Gone(h, v) == [h EXCEPT !.live = @ \ {v}]

(* A value that is not found has no metadata to be told.                   *)
LEMMA DeleteValueFacts ==
  ASSUME IInv, NEW v \in heap.live, NEW g, g = IF v \in heap.usedByMd THEN HandleDeletion(heap, v) ELSE heap,
         NEW e, e = Gone(g, v)
  PROVE  Tracked(e) /\ Mapped(e) /\ Deleted(heap, g, v) /\ SameWraps(g, e) /\ e.live = heap.live \ {v}
<1>1. Tracked(heap) /\ Mapped(heap) /\ heap \in Heaps
  BY DEF IInv, Tracked, Linked
<1>2. g = HandleDeletion(heap, v)
  BY <1>1 DEF HandleDeletion, Mapped
<1>3. Tracked(g) /\ MappedBut(g, 0, heap.live \ {v}) /\ g.live = heap.live /\ Deleted(heap, g, v)
  BY <1>1, <1>2, HandleDeletionFacts
<1>4. g \in Heaps /\ g.byValue \in Partial(Values, Nat) /\ g.usedByMd \in SUBSET Values /\ heap.live \ {v} \in SUBSET Values
  BY <1>3, HeapFacts DEF Tracked, Linked
<1>5. e = Remapped(g, g.byValue, g.usedByMd, heap.live \ {v})
  BY <1>3, <1>4 DEF Gone, Remapped, Heaps
<1>6. Tracked(e) /\ SameWraps(g, e) /\ e.byValue = g.byValue /\ e.usedByMd = g.usedByMd /\ e.live = heap.live \ {v}
  BY ONLY <1>3, <1>4, <1>5, OtherMap
<1>7. MappedBut(e, 0, e.live) /\ e \in Heaps
  <2>1. MappedBut(e, 0, e.live)
    BY ONLY <1>3, <1>6 DEF MappedBut, SameWraps
  <2>2. e \in Heaps
    BY ONLY <1>6 DEF Tracked, Linked
  <2>3. QED BY ONLY <2>1, <2>2
<1>8. Mapped(e)
  BY <1>7, MappedIs
<1>9. QED BY <1>3, <1>6, <1>8

(* DeleteValue.                                                            *)
LEMMA DeleteValueKeeps == IInv /\ DeleteValue => IInv'
<1> SUFFICES ASSUME IInv, DeleteValue PROVE IInv'
  OBVIOUS
<1>1. PICK v \in heap.live : heap' = Gone(IF v \in heap.usedByMd THEN HandleDeletion(heap, v) ELSE heap, v)
  BY DEF DeleteValue, Gone
<1>2. Tracked(heap') /\ Mapped(heap')
  BY <1>1, DeleteValueFacts
<1>3. QED BY <1>2 DEF IInv

(* ReplaceValue.                                                           *)
LEMMA ReplaceValueKeeps == IInv /\ ReplaceValue => IInv'
<1> SUFFICES ASSUME IInv, ReplaceValue PROVE IInv'
  OBVIOUS
<1>1. PICK from \in heap.usedByMd, to \in heap.live : from # to /\ heap' = HandleRAUW(heap, from, to)
  BY DEF ReplaceValue
<1>2. Tracked(heap) /\ Mapped(heap)
  BY DEF IInv
<1>3. Tracked(heap') /\ MappedBut(heap', 0, heap.live) /\ heap'.live = heap.live
  BY ONLY <1>1, <1>2, HandleRAUWFacts
<1>4. Mapped(heap')
  BY <1>3, MappedIs DEF Tracked, Linked
<1>5. QED BY <1>3, <1>4 DEF IInv

(* Every step keeps the invariant.                                         *)
LEMMA NextKeeps == IInv /\ [Next]_vars => IInv'
<1> SUFFICES ASSUME IInv, [Next]_vars PROVE IInv'
  OBVIOUS
<1>1. CASE ReadNode
  BY <1>1, ReadNodeKeeps
<1>2. CASE ReadCall
  BY <1>2, ReadCallKeeps
<1>3. CASE DeleteValue
  BY <1>3, DeleteValueKeeps
<1>4. CASE ReplaceValue
  BY <1>4, ReplaceValueKeeps
<1>5. CASE UNCHANGED vars
  BY <1>5 DEF vars, IInv
<1>6. QED BY <1>1, <1>2, <1>3, <1>4, <1>5 DEF Next

-----------------------------------------------------------------------------
(* What the invariant says of the slots that live.                         *)
LEMMA TrackedMeans == IInv => UsesTracked /\ NodesUnique
<1> SUFFICES ASSUME IInv PROVE UsesTracked /\ NodesUnique
  OBVIOUS
<1>1. heap \in Heaps /\ Linked(heap) /\ Wrapped(heap) /\ Mapped(heap)
  BY DEF IInv, Tracked, Linked
<1>2. LiveSlots \subseteq AllSlots(heap)
  BY DEF LiveSlots, LiveMavs, AllSlots
<1>3. ASSUME NEW s \in AllSlots(heap), NEW k, Content(heap, s) = Vam(k) PROVE s \in LiveSlots
  <2>1. CASE s \in OpSlots(heap)
    BY <2>1 DEF LiveSlots
  <2>2. CASE s \in {MavSlot(m) : m \in DOMAIN heap.mavs}
    <3>1. PICK m \in DOMAIN heap.mavs : s = MavSlot(m)
      BY <2>2
    <3>2. heap.mavs[m].md = Vam(k) /\ heap.mavs[m].md # Nil
      BY <1>1, <1>3, <3>1, SlotFacts, Shapes
    <3>3. heap.mavs[m].live
      BY <1>1, <3>2 DEF Wrapped
    <3>4. QED BY <3>1, <3>3 DEF LiveSlots, LiveMavs
  <2>3. QED BY <2>1, <2>2 DEF AllSlots
<1>4. \A s \in LiveSlots : Content(heap, s)[1] = "vam" => heap.vams[Content(heap, s)[2]].live
  BY <1>1, <1>2 DEF Linked, Known
<1>5. ASSUME NEW k \in DOMAIN heap.vams
      PROVE  LET uses == heap.vams[k].uses
             IN  /\ {uses[i].slot : i \in DOMAIN uses} = {s \in LiveSlots : Content(heap, s) = Vam(k)}
                 /\ \A i, j \in DOMAIN uses : uses[i].slot = uses[j].slot => i = j
  <2> DEFINE uses == heap.vams[k].uses
  <2>1. Once(uses) /\ SlotsIn(uses) = {s \in AllSlots(heap) : Content(heap, s) = Vam(k)}
    BY <1>1 DEF Linked, UsesKept
  <2>2. {s \in AllSlots(heap) : Content(heap, s) = Vam(k)} = {s \in LiveSlots : Content(heap, s) = Vam(k)}
    BY <1>2, <1>3
  <2>3. QED BY <2>1, <2>2 DEF Once, SlotsIn
<1>6. UsesTracked
  BY <1>1, <1>4, <1>5 DEF UsesTracked, Mapped
<1>7. NodesUnique
  BY <1>1 DEF NodesUnique, Linked, Unique, UniqueNode
<1>8. QED BY <1>6, <1>7

(***************************************************************************)
(* Every ValueAsMetadata knows the slots that refer to it, and only those: *)
(* Metadata.cpp, whatever is read, replaced and deleted.                   *)
(***************************************************************************)
THEOREM UsesTrackedHolds == Spec => []UsesTracked
<1>1. Init => IInv
  BY InitFacts
<1>2. IInv /\ [Next]_vars => IInv'
  BY NextKeeps
<1>3. IInv => UsesTracked
  BY TrackedMeans
<1>4. QED BY <1>1, <1>2, <1>3, PTL DEF Spec

(***************************************************************************)
(* A uniqued node is found under the operands it has now, so that no two   *)
(* have the same: Metadata.cpp, MDNode::HandleChangedOperand.              *)
(***************************************************************************)
THEOREM NodesUniqueHolds == Spec => []NodesUnique
<1>1. Init => IInv
  BY InitFacts
<1>2. IInv /\ [Next]_vars => IInv'
  BY NextKeeps
<1>3. IInv => NodesUnique
  BY TrackedMeans
<1>4. QED BY <1>1, <1>2, <1>3, PTL DEF Spec

-----------------------------------------------------------------------------
(***************************************************************************)
(* What references mean.                                                   *)
(***************************************************************************)
Lasting(h, g) ==
  /\ DOMAIN h.vams \subseteq DOMAIN g.vams /\ \A k \in DOMAIN h.vams : g.vams[k].val = h.vams[k].val
  /\ DOMAIN h.nodes \subseteq DOMAIN g.nodes /\ \A n \in DOMAIN h.nodes : g.nodes[n].ops = h.nodes[n].ops

(* The meaning of each kind of reference.                                  *)
LEMMA MeaningIs ==
  ASSUME NEW h, NEW md \in Refs
  PROVE  /\ md[1] = "vam" => Meaning(h, md) = <<"value", h.vams[md[2]].val>>
         /\ md[1] = "node" => Meaning(h, md) = IF h.nodes[md[2]].ops = <<>> THEN <<"empty", 0>> ELSE md
         /\ md = Nil => Meaning(h, md) = Nil
         /\ md[1] # "vam" => \A v : Meaning(h, md) # <<"value", v>>
<1>1. md[1] = "vam" => Meaning(h, md) = <<"value", h.vams[md[2]].val>>
  BY DEF Meaning
<1>2. md[1] = "node" => Meaning(h, md) = IF h.nodes[md[2]].ops = <<>> THEN <<"empty", 0>> ELSE md
  BY DEF Meaning
<1>3. md = Nil => Meaning(h, md) = Nil
  BY Shapes DEF Meaning
<1>4. ASSUME md[1] # "vam", NEW v PROVE Meaning(h, md) # <<"value", v>>
  <2>1. Meaning(h, md) = <<"empty", 0>> \/ Meaning(h, md) = md
    BY <1>2, <1>3, <1>4, Shapes
  <2>2. <<"empty", 0>> # <<"value", v>>
    OBVIOUS
  <2>3. md # <<"value", v>>
    BY Shapes
  <2>4. QED BY <2>1, <2>2, <2>3
<1>5. QED BY <1>1, <1>2, <1>3, <1>4

(* What is known means what it did.                                        *)
LEMMA MeaningLasts ==
  ASSUME NEW h, NEW g, Lasting(h, g), NEW md \in Refs, Known(h, md)
  PROVE  Meaning(g, md) = Meaning(h, md)
<1>1. CASE md[1] = "vam"
  BY <1>1, MeaningIs DEF Lasting, Known
<1>2. CASE md[1] = "node"
  BY <1>2, MeaningIs DEF Lasting, Known
<1>3. CASE md = Nil
  BY <1>3, MeaningIs
<1>4. QED BY <1>1, <1>2, <1>3, Shapes

(* Wrapping values and making nodes lets meanings last.                    *)
LEMMA LastingFacts ==
  ASSUME NEW h, NEW g
  PROVE  /\ MoreWrapped(h, g) => Lasting(h, g) /\ SameNodes(h, g) /\ SameMavs(h, g)
         /\ Grown(h, g) => Lasting(h, g) /\ SameMavs(h, g)
         /\ SameVams(h, g) /\ SameNodes(h, g) => Lasting(h, g)
         /\ \A f : Lasting(h, g) /\ Lasting(g, f) => Lasting(h, f)
BY DEF MoreWrapped, MoreVams, SameNodes, Grown, SameVams, Lasting

(* The operands of nodes that there were stay slots.                       *)
LEMMA OpSlotsIs ==
  ASSUME NEW h
  PROVE  \A s : s \in OpSlots(h) <=> \E n \in DOMAIN h.nodes : \E i \in DOMAIN h.nodes[n].ops : s = OpSlot(n, i)
BY DEF OpSlots

(* The node without operands.                                              *)
LEMMA EmptyNode ==
  ASSUME NEW h, Tracked(h)
  PROVE  LET f == GetNode(h, <<>>, "uniqued").h
             q == GetNode(h, <<>>, "uniqued").md
         IN  <<>> \in DOMAIN f.store /\ q[2] = f.store[<<>>] /\ q = Node(q[2])
<1>1. \E ops \in Seq(Refs) : ops = <<>> /\ DOMAIN ops = {}
  <2>1. <<>> \in Seq(Refs) /\ <<>> = <<>> /\ DOMAIN <<>> = {}
    OBVIOUS
  <2> HIDE DEF Refs
  <2>2. QED BY ONLY <2>1, Zenon
<1>2. \E storage \in {"uniqued", "distinct"} : storage = "uniqued"
  OBVIOUS
<1>3. PICK ops \in Seq(Refs), storage \in {"uniqued", "distinct"} : ops = <<>> /\ DOMAIN ops = {} /\ storage = "uniqued"
  BY ONLY <1>1, <1>2
<1> DEFINE r == GetNode(h, ops, storage)
<1>4. ops \in DOMAIN r.h.store /\ r.md[2] = r.h.store[ops] /\ r.md = Node(r.md[2])
  <2>1. \A i \in DOMAIN ops : Known(h, ops[i])
    BY <1>3
  <2>2. storage = "uniqued"
    BY <1>3
  <2>3. QED BY ONLY <2>1, <2>2, Tracked(h), ops \in Seq(Refs), storage \in {"uniqued", "distinct"}, GetNodeFacts
<1>5. r = GetNode(h, <<>>, "uniqued")
  BY <1>3
<1>6. ops = <<>>
  BY <1>3
<1> HIDE DEF r
<1>7. <<>> \in DOMAIN r.h.store /\ r.md[2] = r.h.store[<<>>] /\ r.md = Node(r.md[2])
  BY ONLY <1>4, <1>6
<1>8. QED BY ONLY <1>5, <1>7

(***************************************************************************)
(* CanonicalizeMetadataForValue gives the same when it is asked again.     *)
(***************************************************************************)
LEMMA CanonicalTwice ==
  ASSUME NEW h, Tracked(h), NEW md \in Refs, Known(h, md), NEW g, SameNodes(Canonicalize(h, md).h, g), SameVams(Canonicalize(h, md).h, g)
  PROVE  Canonicalize(g, md).md = Canonicalize(h, md).md
<1> DEFINE Ops(a) == IF md[1] = "node" THEN a.nodes[md[2]].ops ELSE <<>>
           e == Canonicalize(h, md).h
           f == GetNode(h, <<>>, "uniqued").h
           q == GetNode(h, <<>>, "uniqued").md
           P == md = Nil \/ Ops(h) = <<Nil>>
<1>1. \A a : Canonicalize(a, md) =
               IF md = Nil \/ Ops(a) = <<Nil>> THEN GetNode(a, <<>>, "uniqued")
               ELSE [h |-> a, md |-> IF Len(Ops(a)) = 1 /\ Ops(a)[1][1] = "vam" /\ IsConstant(a.vams[Ops(a)[1][2]].val) THEN Ops(a)[1] ELSE md]
  BY Zenon DEF Canonicalize
<1>2. Grown(h, e)
  BY CanonicalizeFacts
<1>3. Lasting(h, g)
  <2>1. Lasting(h, e) /\ Lasting(e, g)
    BY <1>2, LastingFacts
  <2>2. QED BY ONLY <2>1, LastingFacts
<1>4. Ops(g) = Ops(h)
  BY <1>3 DEF Lasting, Known
<1>5. CASE P
  <2>1. Canonicalize(h, md) = GetNode(h, <<>>, "uniqued") /\ Canonicalize(g, md) = GetNode(g, <<>>, "uniqued")
    BY <1>1, <1>4, <1>5
  <2>2. f = e /\ q = Canonicalize(h, md).md
    BY <2>1
  <2>3. <<>> \in DOMAIN f.store /\ q[2] = f.store[<<>>] /\ q = Node(q[2])
    <3> HIDE DEF P, Ops, e
    <3> QED BY ONLY Tracked(h), EmptyNode
  <2>4. g.store = f.store
    BY <2>2 DEF SameNodes
  <2> HIDE DEF f, q, e
  <2>5. GetNode(g, <<>>, "uniqued").md = Node(g.store[<<>>])
    BY <2>3, <2>4 DEF GetNode
  <2>6. QED BY <2>1, <2>2, <2>3, <2>4, <2>5
<1>6. CASE ~ P
  <2>1. ASSUME Len(Ops(h)) = 1, Ops(h)[1][1] = "vam" PROVE g.vams[Ops(h)[1][2]].val = h.vams[Ops(h)[1][2]].val
    <3> DEFINE n == md[2]
    <3>1. CASE md[1] # "node"
      BY <2>1, <3>1
    <3>2. CASE md[1] = "node"
      <4>1. n \in DOMAIN h.nodes /\ Ops(h) = h.nodes[n].ops /\ h \in Heaps
        BY <3>2 DEF Known, Tracked, Linked
      <4>2. h.nodes[n].ops \in Seq(Refs)
        BY <4>1, HeapFacts
      <4>3. 1 \in DOMAIN h.nodes[n].ops
        BY <2>1, <4>1, <4>2
      <4>4. OpSlot(n, 1) \in AllSlots(h) /\ Content(h, OpSlot(n, 1)) = Ops(h)[1]
        BY <4>1, <4>3, SlotFacts
      <4>5. Known(h, Ops(h)[1])
        BY <4>4 DEF Tracked, Linked
      <4>6. QED BY <1>3, <2>1, <4>5 DEF Known, Lasting
    <3>3. QED BY <3>1, <3>2
  <2> DEFINE R(a) == IF Len(Ops(a)) = 1 /\ Ops(a)[1][1] = "vam" /\ IsConstant(a.vams[Ops(a)[1][2]].val) THEN Ops(a)[1] ELSE md
  <2>2. Canonicalize(h, md).md = R(h) /\ Canonicalize(g, md).md = R(g)
    <3>1. \A a : Ops(a) = Ops(h) => Canonicalize(a, md).md = R(a)
      <4> HIDE DEF Ops
      <4>1. QED BY ONLY <1>1, <1>6 DEF P
    <3> HIDE DEF Ops
    <3>2. QED BY ONLY <1>4, <3>1
  <2> HIDE DEF Ops
  <2>3. R(g) = R(h)
    <3>1. CASE Len(Ops(h)) = 1 /\ Ops(h)[1][1] = "vam"
      BY ONLY <1>4, <2>1, <3>1 DEF IsConstant
    <3>2. CASE ~ (Len(Ops(h)) = 1 /\ Ops(h)[1][1] = "vam")
      BY ONLY <1>4, <3>2
    <3>3. QED BY <3>1, <3>2
  <2>4. QED BY <2>2, <2>3
<1>7. QED BY <1>5, <1>6

-----------------------------------------------------------------------------
(***************************************************************************)
(* What is meant is what is referred to.  A call has a meaning when it is  *)
(* given metadata, a slot when its node is made.                           *)
(***************************************************************************)
MeantBy(h, mt) ==
  /\ h.changes <= 1
  /\ OpSlots(h) \subseteq DOMAIN mt /\ \A s \in DOMAIN mt : s \in OpSlots(h) \/ s[1] = "call"
  /\ \A s \in OpSlots(h) : mt[s] = Meaning(h, Content(h, s))
  /\ \A c \in Calls : h.calls[c] # 0 =>
       CallSlot(c) \in DOMAIN mt /\ mt[CallSlot(c)] = Meaning(h, h.mavs[h.calls[c]].md)

(* Slots and what they refer to.                                           *)
LEMMA SlotContent ==
  ASSUME NEW h, Tracked(h)
  PROVE  /\ \A s \in OpSlots(h) : s[1] = "op" /\ Content(h, s) \in Refs /\ Known(h, Content(h, s))
         /\ \A m \in DOMAIN h.mavs : h.mavs[m].md \in Refs /\ Known(h, h.mavs[m].md)
         /\ \A c \in Calls : h.calls[c] # 0 => h.calls[c] \in DOMAIN h.mavs
<1>1. h \in Heaps /\ OpSlots(h) \subseteq AllSlots(h) /\ \A s \in AllSlots(h) : Known(h, Content(h, s)) /\ Content(h, s) \in Refs
  BY SlotFacts DEF Tracked, Linked, AllSlots
<1>2. \A m \in DOMAIN h.mavs : MavSlot(m) \in AllSlots(h) /\ Content(h, MavSlot(m)) = h.mavs[m].md
  BY <1>1, SlotFacts
<1>3. \A s \in OpSlots(h) : s[1] = "op"
  BY OpSlotsIs, Shapes
<1>4. \A c \in Calls : h.calls[c] # 0 => h.calls[c] \in DOMAIN h.mavs
  BY DEF Tracked, Wrapped
<1>5. QED BY <1>1, <1>2, <1>3, <1>4

(* A slot that there was refers to what it did.                            *)
LEMMA ContentLasts ==
  ASSUME NEW h, NEW g, Lasting(h, g), NEW s \in OpSlots(h)
  PROVE  s \in OpSlots(g) /\ Content(g, s) = Content(h, s)
<1>1. PICK n \in DOMAIN h.nodes : \E i \in DOMAIN h.nodes[n].ops : s = OpSlot(n, i)
  BY OpSlotsIs
<1>2. n \in DOMAIN g.nodes /\ g.nodes[n].ops = h.nodes[n].ops
  BY DEF Lasting
<1>3. s \in OpSlots(g)
  BY <1>1, <1>2, OpSlotsIs
<1>4. QED BY <1>1, <1>2, <1>3, Shapes DEF Content

(* Calls have slots of their own.                                          *)
LEMMA CallSlotFacts ==
  \A c : CallSlot(c)[1] = "call" /\ \A d : CallSlot(c) = CallSlot(d) => c = d
BY DEF CallSlot

(***************************************************************************)
(* A node is read.                                                         *)
(***************************************************************************)
LEMMA ReadNodeMeans ==
  ASSUME IInv, MeantBy(heap, meant), ReadNode
  PROVE  MeantBy(heap', meant')
<1>1. PICK ops \in SeqOf(Given, MaxOps), storage \in {"uniqued", "distinct"} :
        /\ heap' = GetNode(WrapAll(ops).h, WrapAll(ops).ops, storage).h
        /\ meant' = [s \in DOMAIN meant \cup OpSlots(heap') |->
                       IF s \in DOMAIN meant THEN meant[s] ELSE Meaning(heap', Content(heap', s))]
  BY Zenon DEF ReadNode
<1>2. ops \in Seq(Given)
  BY ShortSeq
<1> DEFINE g == heap'
           a == WrapAll(ops)
<1>3. Tracked(g) /\ MoreWrapped(heap, a.h) /\ Grown(a.h, g)
  BY <1>1, <1>2, ReadNodeFacts
<1>4. Tracked(heap)
  BY DEF IInv
<1>5. meant' = [s \in DOMAIN meant \cup OpSlots(g) |-> IF s \in DOMAIN meant THEN meant[s] ELSE Meaning(g, Content(g, s))]
  BY <1>1
<1> HIDE DEF g, a
<1>6. Lasting(heap, g) /\ SameMavs(heap, g)
  <2>1. Lasting(heap, a.h) /\ SameMavs(heap, a.h) /\ Lasting(a.h, g) /\ SameMavs(a.h, g)
    BY <1>3, LastingFacts
  <2>2. Lasting(heap, g)
    BY ONLY <2>1, LastingFacts
  <2>3. QED BY <2>1, <2>2 DEF SameMavs
<1>7. DOMAIN meant' = DOMAIN meant \cup OpSlots(g) /\ \A s \in DOMAIN meant : meant'[s] = meant[s]
  BY <1>5
<1>8. ASSUME NEW s \in OpSlots(g) PROVE meant'[s] = Meaning(g, Content(g, s))
  <2>1. CASE s \in DOMAIN meant
    <3>1. s \in OpSlots(heap)
      BY <1>3, <2>1, SlotContent DEF MeantBy
    <3>2. Content(heap, s) \in Refs /\ Known(heap, Content(heap, s))
      BY <1>4, <3>1, SlotContent
    <3>3. Meaning(g, Content(heap, s)) = Meaning(heap, Content(heap, s)) /\ Content(g, s) = Content(heap, s)
      BY <1>6, <3>1, <3>2, MeaningLasts, ContentLasts
    <3>4. QED BY <1>7, <2>1, <3>1, <3>3 DEF MeantBy
  <2>2. CASE s \notin DOMAIN meant
    BY <1>5, <2>2
  <2>3. QED BY <2>1, <2>2
<1>9. OpSlots(g) \subseteq DOMAIN meant' /\ \A s \in DOMAIN meant' : s \in OpSlots(g) \/ s[1] = "call"
  BY <1>6, <1>7, ContentLasts DEF MeantBy
<1>10. ASSUME NEW c \in Calls, g.calls[c] # 0
       PROVE  CallSlot(c) \in DOMAIN meant' /\ meant'[CallSlot(c)] = Meaning(g, g.mavs[g.calls[c]].md)
  <2>1. g.calls[c] = heap.calls[c] /\ g.mavs = heap.mavs
    BY <1>6 DEF SameMavs
  <2>2. CallSlot(c) \in DOMAIN meant /\ meant[CallSlot(c)] = Meaning(heap, heap.mavs[heap.calls[c]].md)
    BY <1>10, <2>1 DEF MeantBy
  <2>3. heap.mavs[heap.calls[c]].md \in Refs /\ Known(heap, heap.mavs[heap.calls[c]].md)
    BY <1>4, <1>10, <2>1, SlotContent
  <2>4. QED BY <1>6, <1>7, <2>1, <2>2, <2>3, MeaningLasts
<1>11. g.changes <= 1
  BY <1>6 DEF SameMavs, MeantBy
<1>12. MeantBy(g, meant')
  BY <1>8, <1>9, <1>10, <1>11 DEF MeantBy
<1>13. QED BY <1>12 DEF g

(***************************************************************************)
(* A call is given metadata.                                               *)
(***************************************************************************)
LEMMA ReadCallMeans ==
  ASSUME IInv, MeantBy(heap, meant), ReadCall
  PROVE  MeantBy(heap', meant')
<1>1. PICK c \in Calls, md \in GivenCall :
        LET w == Wrap(heap, md)
            m == GetMav(w.h, w.md)
        IN  /\ heap' = [m.h EXCEPT !.calls[c] = m.mav]
            /\ meant' = Enter(meant, CallSlot(c), Meaning(m.h, Canonicalize(m.h, w.md).md))
  BY DEF ReadCall, GivenCall
<1> DEFINE e == Wrap(heap, md).h
           r == Wrap(heap, md).md
           k == Canonicalize(e, r)
           g == GetMav(e, r).h
           m == GetMav(e, r).mav
           x == Meaning(g, Canonicalize(g, r).md)
           f == heap'
<1>2. f = Held(g, c, m) /\ meant' = Enter(meant, CallSlot(c), x)
  BY <1>1 DEF Held
<1>3. /\ MoreWrapped(heap, e) /\ Grown(e, k.h) /\ WithMav(k.h, g, m, k.md) /\ Tracked(g)
      /\ r \in Refs /\ Known(e, r) /\ \A n \in DOMAIN g.nodes \ DOMAIN heap.nodes : g.nodes[n].ops = <<>>
  BY ReadCallFacts
<1>4. Canonicalize(g, r).md = k.md
  <2>1. SameNodes(k.h, g) /\ SameVams(k.h, g)
    BY <1>3 DEF WithMav
  <2>2. Tracked(e)
    BY <1>3 DEF MoreWrapped
  <2> HIDE DEF g, m, e, r, x, f
  <2>3. QED BY ONLY <1>3, <2>1, <2>2, CanonicalTwice
<1>5. x = Meaning(g, k.md)
  <2> HIDE DEF g, k
  <2>1. QED BY <1>4
<1> HIDE DEF e, r, x, f, k, g, m
<1>6. Tracked(heap) /\ m \in DOMAIN g.mavs /\ m # 0 /\ g.mavs[m].md = k.md
  <2>1. Tracked(heap) /\ m \in DOMAIN g.mavs /\ g.mavs[m].md = k.md /\ g.mavs \in Seq(Mavs)
    BY <1>3, HeapFacts DEF IInv, WithMav, Tracked, Linked
  <2>2. QED BY <2>1
<1>7. /\ Tracked(f) /\ f.vams = g.vams /\ SameMap(g, f) /\ SameNodes(g, f) /\ f.mavs = g.mavs /\ f.changes = g.changes
      /\ f.calls[c] = m /\ \A d \in Calls : d # c => f.calls[d] = g.calls[d]
  BY ONLY <1>2, <1>3, <1>6, c \in Calls, HeldFacts
<1>8. Lasting(heap, g) /\ Lasting(heap, f) /\ Lasting(g, f)
  <2>1. Lasting(heap, e) /\ Lasting(e, k.h)
    BY <1>3, LastingFacts
  <2>2. Lasting(k.h, g)
    BY <1>3, LastingFacts DEF WithMav
  <2>3. Lasting(g, f)
    BY <1>7, LastingFacts DEF SameVams
  <2>4. Lasting(heap, g)
    BY ONLY <2>1, <2>2, LastingFacts
  <2>5. Lasting(heap, f)
    BY ONLY <2>3, <2>4, LastingFacts
  <2>6. QED BY <2>3, <2>4, <2>5
<1>9. OpSlots(f) = OpSlots(heap)
  <2>1. \A s \in OpSlots(heap) : s \in OpSlots(f)
    BY <1>8, ContentLasts
  <2>2. ASSUME NEW s \in OpSlots(f) PROVE s \in OpSlots(heap)
    <3>1. PICK n \in DOMAIN f.nodes : \E i \in DOMAIN f.nodes[n].ops : s = OpSlot(n, i)
      BY OpSlotsIs
    <3>2. n \in DOMAIN heap.nodes
      BY <1>3, <1>7, <3>1 DEF SameNodes
    <3>3. f.nodes[n].ops = heap.nodes[n].ops
      BY <1>8, <3>2 DEF Lasting
    <3>4. QED BY <3>1, <3>2, <3>3, OpSlotsIs
  <2>3. QED BY <2>1, <2>2
<1>10. \A d \in Calls : d # c => f.calls[d] = heap.calls[d]
  BY <1>3, <1>7 DEF MoreWrapped, Grown, WithMav, SameMavs
<1>11. \A j \in DOMAIN heap.mavs : f.mavs[j] = heap.mavs[j]
  BY <1>3, <1>7 DEF MoreWrapped, Grown, WithMav, SameMavs
<1>12. f.changes <= 1
  BY <1>3, <1>7 DEF MoreWrapped, Grown, WithMav, SameMavs, MeantBy
<1>13. /\ DOMAIN meant' = DOMAIN meant \cup {CallSlot(c)} /\ meant'[CallSlot(c)] = x
       /\ \A s \in DOMAIN meant : s # CallSlot(c) => meant'[s] = meant[s]
  BY <1>2 DEF Enter
<1>14. OpSlots(f) \subseteq DOMAIN meant' /\ \A s \in DOMAIN meant' : s \in OpSlots(f) \/ s[1] = "call"
  BY <1>9, <1>13, CallSlotFacts DEF MeantBy
<1>15. ASSUME NEW s \in OpSlots(f) PROVE meant'[s] = Meaning(f, Content(f, s))
  <2>1. s \in OpSlots(heap) /\ s \in DOMAIN meant /\ s # CallSlot(c) /\ Content(heap, s) \in Refs /\ Known(heap, Content(heap, s))
    BY <1>6, <1>9, SlotContent, CallSlotFacts DEF MeantBy
  <2>2. Content(f, s) = Content(heap, s) /\ Meaning(f, Content(heap, s)) = Meaning(heap, Content(heap, s))
    BY <1>8, <2>1, ContentLasts, MeaningLasts
  <2>3. QED BY <1>13, <2>1, <2>2 DEF MeantBy
<1>16. ASSUME NEW d \in Calls, f.calls[d] # 0
       PROVE  CallSlot(d) \in DOMAIN meant' /\ meant'[CallSlot(d)] = Meaning(f, f.mavs[f.calls[d]].md)
  <2>1. CASE d = c
    <3>1. k.md \in Refs /\ Known(g, k.md)
      BY <1>3, <1>6, SlotContent
    <3>2. Meaning(f, k.md) = x
      BY <1>5, <1>8, <3>1, MeaningLasts
    <3>3. QED BY <1>6, <1>7, <1>13, <2>1, <3>2
  <2>2. CASE d # c
    <3>1. f.calls[d] = heap.calls[d] /\ heap.calls[d] # 0 /\ CallSlot(d) # CallSlot(c)
      BY <1>10, <1>16, <2>2, CallSlotFacts
    <3>2. heap.calls[d] \in DOMAIN heap.mavs /\ heap.mavs[heap.calls[d]].md \in Refs /\ Known(heap, heap.mavs[heap.calls[d]].md)
      BY <1>6, <3>1, SlotContent
    <3>3. f.mavs[f.calls[d]].md = heap.mavs[heap.calls[d]].md
      BY <1>11, <3>1, <3>2
    <3>4. Meaning(f, heap.mavs[heap.calls[d]].md) = Meaning(heap, heap.mavs[heap.calls[d]].md)
      BY <1>8, <3>2, MeaningLasts
    <3>5. CallSlot(d) \in DOMAIN meant /\ meant[CallSlot(d)] = Meaning(heap, heap.mavs[heap.calls[d]].md)
      BY <3>1 DEF MeantBy
    <3>6. QED BY <1>13, <3>1, <3>3, <3>4, <3>5
  <2>3. QED BY <2>1, <2>2
<1>17. MeantBy(f, meant')
  BY <1>12, <1>14, <1>15, <1>16 DEF MeantBy
<1>18. QED BY <1>17 DEF f

(***************************************************************************)
(* From h to g, what meant value v means by, or, where a call holds it and *)
(* by is none, the node without operands; anything else means what it did. *)
(***************************************************************************)
Means(x, y, v, by) == y = IF x = <<"value", v>> THEN by ELSE x

Renewed(h, g, v, by) ==
  /\ OpSlots(g) = OpSlots(h) /\ g.calls = h.calls
  /\ \A s \in OpSlots(h) : Means(Meaning(h, Content(h, s)), Meaning(g, Content(g, s)), v, by)
  /\ \A m \in DOMAIN h.mavs :
       Means(Meaning(h, h.mavs[m].md), Meaning(g, g.mavs[m].md), v, IF by = Nil THEN <<"empty", 0>> ELSE by)

(* What the client asked for is what has happened.                         *)
LEMMA RenewedMeans ==
  ASSUME IInv, MeantBy(heap, meant), NEW g, NEW v, NEW by, Renewed(heap, g, v, by), g.changes <= 1,
         NEW mt, mt = Replaced(v, by)
  PROVE  MeantBy(g, mt)
<1>1. Tracked(heap)
  BY DEF IInv
<1>2. DOMAIN mt = DOMAIN meant /\ \A s \in DOMAIN meant :
        mt[s] = IF meant[s] # <<"value", v>> THEN meant[s] ELSE IF by = Nil /\ s[1] = "call" THEN <<"empty", 0>> ELSE by
  BY DEF Replaced
<1>3. OpSlots(g) = OpSlots(heap) /\ g.calls = heap.calls
  BY DEF Renewed
<1>4. ASSUME NEW s \in OpSlots(g) PROVE mt[s] = Meaning(g, Content(g, s))
  <2>1. s \in OpSlots(heap) /\ s \in DOMAIN meant /\ s[1] # "call" /\ meant[s] = Meaning(heap, Content(heap, s))
    BY <1>1, <1>3, SlotContent DEF MeantBy
  <2>2. mt[s] = IF meant[s] # <<"value", v>> THEN meant[s] ELSE by
    BY <1>2, <2>1
  <2>3. QED BY <2>1, <2>2 DEF Renewed, Means
<1>5. ASSUME NEW c \in Calls, g.calls[c] # 0
      PROVE  CallSlot(c) \in DOMAIN mt /\ mt[CallSlot(c)] = Meaning(g, g.mavs[g.calls[c]].md)
  <2> DEFINE s == CallSlot(c)
             m == heap.calls[c]
  <2>1. g.calls[c] = m /\ s \in DOMAIN meant /\ s[1] = "call" /\ meant[s] = Meaning(heap, heap.mavs[m].md) /\ m \in DOMAIN heap.mavs
    BY <1>1, <1>3, <1>5, SlotContent, CallSlotFacts DEF MeantBy
  <2> HIDE DEF s, m
  <2>2. mt[s] = IF meant[s] # <<"value", v>> THEN meant[s] ELSE IF by = Nil THEN <<"empty", 0>> ELSE by
    BY <1>2, <2>1
  <2>3. Means(meant[s], Meaning(g, g.mavs[m].md), v, IF by = Nil THEN <<"empty", 0>> ELSE by)
    BY <2>1 DEF Renewed
  <2>4. s \in DOMAIN mt /\ mt[s] = Meaning(g, g.mavs[m].md)
    BY <1>2, <2>1, <2>2, <2>3 DEF Means
  <2>5. QED BY <2>1, <2>4 DEF s
<1>6. OpSlots(g) \subseteq DOMAIN mt /\ \A s \in DOMAIN mt : s \in OpSlots(g) \/ s[1] = "call"
  BY <1>2, <1>3 DEF MeantBy
<1>7. QED BY <1>4, <1>5, <1>6 DEF MeantBy

(***************************************************************************)
(* Of what is referred to, only the ValueAsMetadata of a value means it.   *)
(***************************************************************************)
LEMMA OnlyVamMeans ==
  ASSUME NEW h, Tracked(h), Mapped(h), NEW v, NEW md \in Refs, Known(h, md)
  PROVE  Meaning(h, md) = <<"value", v>> <=> v \in DOMAIN h.byValue /\ md = Vam(h.byValue[v])
<1>1. CASE md[1] # "vam"
  <2>1. Meaning(h, md) # <<"value", v>>
    BY <1>1, MeaningIs
  <2>2. \A k : md # Vam(k)
    BY <1>1, Shapes
  <2>3. QED BY <2>1, <2>2
<1>2. CASE md[1] = "vam"
  <2> DEFINE k == md[2]
  <2>1. md = Vam(k) /\ k \in DOMAIN h.vams /\ h.vams[k].live /\ Meaning(h, md) = <<"value", h.vams[k].val>>
    BY <1>2, MeaningIs, Shapes DEF Known
  <2> HIDE DEF k
  <2>2. h.vams[k].val \in DOMAIN h.byValue /\ h.byValue[h.vams[k].val] = k
    BY <2>1 DEF Mapped
  <2>3. v \in DOMAIN h.byValue => h.vams[h.byValue[v]].val = v
    BY DEF Mapped
  <2>4. <<"value", h.vams[k].val>> = <<"value", v>> <=> h.vams[k].val = v
    OBVIOUS
  <2>5. \A j : Vam(k) = Vam(j) => k = j
    BY DEF Vam
  <2>6. QED BY <2>1, <2>2, <2>3, <2>4, <2>5
<1>3. QED BY <1>1, <1>2

(* Nothing is replaced when a value is not wrapped.                        *)
LEMMA UnwrappedRenews ==
  ASSUME NEW h, Tracked(h), Mapped(h), NEW v, v \notin DOMAIN h.byValue, NEW by, NEW g, SameWraps(h, g)
  PROVE  Renewed(h, g, v, by)
<1>1. Lasting(h, g) /\ g.nodes = h.nodes /\ g.mavs = h.mavs /\ g.calls = h.calls
  BY DEF SameWraps, SameNodes, SameMavs, Lasting
<1>2. OpSlots(g) = OpSlots(h) /\ \A s : Content(g, s) = Content(h, s)
  BY <1>1, SameContent DEF OpSlots
<1>3. ASSUME NEW md \in Refs, Known(h, md), NEW to PROVE Means(Meaning(h, md), Meaning(g, md), v, to)
  <2>1. Meaning(h, md) # <<"value", v>> /\ Meaning(g, md) = Meaning(h, md)
    BY <1>1, <1>3, OnlyVamMeans, MeaningLasts
  <2>2. QED BY <2>1 DEF Means
<1>4. QED BY <1>1, <1>2, <1>3, SlotContent DEF Renewed

(***************************************************************************)
(* A ValueAsMetadata is replaced and deleted.                              *)
(***************************************************************************)
LEMMA RemovedRenews ==
  ASSUME NEW h, Tracked(h), Mapped(h), NEW v \in DOMAIN h.byValue, NEW k, k = h.byValue[v],
         NEW md \in Refs, NEW g, Removed(h, g, k, md), Tracked(g), g.changes <= 1,
         NEW by, \/ md = Nil /\ by = Nil
                 \/ md[1] = "vam" /\ by = <<"value", g.vams[md[2]].val>>
  PROVE  Renewed(h, g, v, by)
<1>1. PICK f, e : /\ Tracked(f) /\ SameNodes(h, f) /\ SameMavs(h, f) /\ MoreVams(h, f) /\ Known(f, md) /\ md # Vam(k)
                  /\ Settled(f, e, k, md) /\ Discarded(e, g, k)
  BY DEF Removed
<1>2. k \in DOMAIN h.vams /\ h.vams[k].val = v /\ k \in Nat
  <2>1. k \in DOMAIN h.vams /\ h.vams[k].val = v
    BY DEF Mapped
  <2>2. QED BY <2>1, HeapFacts DEF Tracked, Linked
<1>3. /\ ~ g.vams[k].live /\ k \in DOMAIN g.vams
      /\ \A j \in DOMAIN h.vams : j # k => g.vams[j].val = h.vams[j].val
  BY <1>1, <1>2 DEF Settled, SameVams, Discarded, MoreVams
<1>4. /\ DOMAIN h.nodes \subseteq DOMAIN g.nodes
      /\ \A n \in DOMAIN h.nodes : DOMAIN g.nodes[n].ops = DOMAIN h.nodes[n].ops
      /\ \A n \in DOMAIN h.nodes : \A i \in DOMAIN h.nodes[n].ops :
           g.nodes[n].ops[i] = h.nodes[n].ops[i] \/ (h.nodes[n].ops[i] = Vam(k) /\ g.nodes[n].ops[i] = md)
      /\ \A n \in DOMAIN g.nodes \ DOMAIN h.nodes : g.nodes[n].ops = <<>>
  BY <1>1 DEF Settled, Discarded, SameNodes
<1>5. /\ g.calls = h.calls /\ DOMAIN g.mavs = DOMAIN h.mavs
      /\ \A m \in DOMAIN h.mavs : g.mavs[m].md = h.mavs[m].md \/ (h.mavs[m].md = Vam(k) /\ Stands(g, g.mavs[m].md, md))
  <2>1. e.changes <= 1 /\ e.calls = g.calls /\ e.mavs = g.mavs /\ e.nodes = g.nodes /\ h.calls = f.calls /\ h.mavs = f.mavs
    BY <1>1 DEF Discarded, SameMavs, SameNodes
  <2>2. QED BY <1>1, <2>1 DEF Settled, Stands
<1>6. OpSlots(g) = OpSlots(h)
  <2>1. ASSUME NEW s \in OpSlots(h) PROVE s \in OpSlots(g)
    <3>1. PICK n \in DOMAIN h.nodes : \E i \in DOMAIN h.nodes[n].ops : s = OpSlot(n, i)
      BY OpSlotsIs
    <3>2. n \in DOMAIN g.nodes /\ DOMAIN g.nodes[n].ops = DOMAIN h.nodes[n].ops
      BY <1>4
    <3>3. QED BY <3>1, <3>2, OpSlotsIs
  <2>2. ASSUME NEW s \in OpSlots(g) PROVE s \in OpSlots(h)
    <3>1. PICK n \in DOMAIN g.nodes : \E i \in DOMAIN g.nodes[n].ops : s = OpSlot(n, i)
      BY OpSlotsIs
    <3>2. n \in DOMAIN h.nodes
      BY <1>4, <3>1
    <3>3. DOMAIN g.nodes[n].ops = DOMAIN h.nodes[n].ops
      BY <1>4, <3>2
    <3>4. QED BY <3>1, <3>2, <3>3, OpSlotsIs
  <2>3. QED BY <2>1, <2>2
<1>7. ASSUME NEW s \in OpSlots(h)
      PROVE  \/ Content(h, s) # Vam(k) /\ Content(g, s) = Content(h, s)
             \/ Content(h, s) = Vam(k) /\ Content(g, s) = md
  <2>1. PICK n \in DOMAIN h.nodes : \E i \in DOMAIN h.nodes[n].ops : s = OpSlot(n, i)
    BY OpSlotsIs
  <2>2. Content(g, s) = Content(h, s) \/ (Content(h, s) = Vam(k) /\ Content(g, s) = md)
    BY <1>4, <2>1, Shapes DEF Content
  <2>3. Known(g, Content(g, s))
    BY <1>6, SlotContent
  <2>4. Content(g, s) # Vam(k)
    BY <1>3, <2>3, Shapes DEF Known
  <2>5. QED BY <2>2, <2>4
<1>8. ASSUME NEW m \in DOMAIN h.mavs
      PROVE  \/ h.mavs[m].md # Vam(k) /\ g.mavs[m].md = h.mavs[m].md
             \/ h.mavs[m].md = Vam(k) /\ Stands(g, g.mavs[m].md, md) /\ g.mavs[m].md \in Refs
  <2>1. Known(g, g.mavs[m].md) /\ g.mavs[m].md \in Refs
    BY <1>5, SlotContent
  <2>2. g.mavs[m].md # Vam(k)
    BY <1>3, <2>1, Shapes DEF Known
  <2>3. QED BY <1>5, <2>1, <2>2
<1>9. ASSUME NEW x \in Refs, Known(h, x), x # Vam(k) PROVE Meaning(g, x) = Meaning(h, x)
  <2>1. CASE x[1] = "vam"
    <3>1. x[2] \in DOMAIN h.vams /\ x[2] # k
      BY <1>9, <2>1, Shapes DEF Known
    <3>2. QED BY <1>3, <2>1, <3>1, MeaningIs
  <2>2. CASE x[1] = "node"
    <3> DEFINE n == x[2]
    <3>1. n \in DOMAIN h.nodes /\ n \in DOMAIN g.nodes /\ DOMAIN g.nodes[n].ops = DOMAIN h.nodes[n].ops
      BY <1>4, <1>9, <2>2 DEF Known
    <3>2. h.nodes[n].ops \in Seq(Refs) /\ g.nodes[n].ops \in Seq(Refs)
      BY <3>1, HeapFacts DEF Tracked, Linked
    <3> HIDE DEF n
    <3>3. g.nodes[n].ops = <<>> <=> h.nodes[n].ops = <<>>
      BY ONLY <3>1, <3>2, NoOperands
    <3>4. QED BY <2>2, <3>3, MeaningIs DEF n
  <2>3. CASE x = Nil
    BY <2>3, MeaningIs
  <2>4. QED BY <2>1, <2>2, <2>3, Shapes
<1>10. ASSUME NEW x \in Refs, Known(h, x) PROVE Meaning(h, x) = <<"value", v>> <=> x = Vam(k)
  BY <1>10, OnlyVamMeans
<1>11. Meaning(g, md) = by
  BY MeaningIs
<1>12. ASSUME NEW y \in Refs, Stands(g, y, md) PROVE Meaning(g, y) = IF by = Nil THEN <<"empty", 0>> ELSE by
  <2>1. CASE md = Nil
    <3>1. by = Nil /\ y[1] = "node" /\ g.nodes[y[2]].ops = <<>>
      BY <1>12, <2>1, Shapes DEF Stands
    <3>2. QED BY <3>1, MeaningIs
  <2>2. CASE md # Nil
    <3>1. y = md /\ by = <<"value", g.vams[md[2]].val>>
      BY <1>12, <2>2 DEF Stands
    <3>2. by # Nil
      BY <3>1 DEF Nil
    <3>3. QED BY <1>11, <3>1, <3>2
  <2>3. QED BY <2>1, <2>2
<1>13. ASSUME NEW s \in OpSlots(h) PROVE Means(Meaning(h, Content(h, s)), Meaning(g, Content(g, s)), v, by)
  <2>1. Content(h, s) \in Refs /\ Known(h, Content(h, s))
    BY SlotContent
  <2>2. QED BY <1>7, <1>9, <1>10, <1>11, <2>1 DEF Means
<1>14. ASSUME NEW m \in DOMAIN h.mavs
       PROVE  Means(Meaning(h, h.mavs[m].md), Meaning(g, g.mavs[m].md), v, IF by = Nil THEN <<"empty", 0>> ELSE by)
  <2>1. h.mavs[m].md \in Refs /\ Known(h, h.mavs[m].md)
    BY SlotContent
  <2>2. QED BY <1>8, <1>9, <1>10, <1>12, <2>1 DEF Means
<1>15. QED BY <1>5, <1>6, <1>13, <1>14 DEF Renewed

(***************************************************************************)
(* A ValueAsMetadata is given another value.                               *)
(***************************************************************************)
LEMMA RewrappedRenews ==
  ASSUME NEW h, Tracked(h), Mapped(h), NEW v \in DOMAIN h.byValue, NEW k, k = h.byValue[v],
         NEW to, NEW f, SameWraps(h, f), NEW g, Rewrapped(f, g, k, to)
  PROVE  Renewed(h, g, v, <<"value", to>>)
<1>1. /\ g.nodes = h.nodes /\ g.mavs = h.mavs /\ g.calls = h.calls /\ DOMAIN g.vams = DOMAIN h.vams
      /\ g.vams[k].val = to /\ \A j \in DOMAIN h.vams : j # k => g.vams[j] = h.vams[j]
  BY DEF SameWraps, Rewrapped, SameNodes, SameMavs
<1>2. OpSlots(g) = OpSlots(h) /\ \A s : Content(g, s) = Content(h, s)
  BY <1>1, SameContent DEF OpSlots
<1>3. <<"value", to>> # Nil
  BY DEF Nil
<1>4. ASSUME NEW x \in Refs, Known(h, x) PROVE Means(Meaning(h, x), Meaning(g, x), v, <<"value", to>>)
  <2>1. Meaning(h, x) = <<"value", v>> <=> x = Vam(k)
    BY <1>4, OnlyVamMeans
  <2>2. CASE x = Vam(k)
    <3>1. Meaning(g, x) = <<"value", to>>
      BY <1>1, <2>2, MeaningIs, Shapes
    <3>2. QED BY <2>1, <2>2, <3>1 DEF Means
  <2>3. CASE x # Vam(k)
    <3>1. Meaning(g, x) = Meaning(h, x)
      <4>1. CASE x[1] = "vam"
        <5>1. x[2] \in DOMAIN h.vams /\ x[2] # k
          BY <1>4, <2>3, <4>1, Shapes DEF Known
        <5>2. QED BY <1>1, <4>1, <5>1, MeaningIs
      <4>2. CASE x[1] = "node"
        BY <1>1, <4>2, MeaningIs
      <4>3. CASE x = Nil
        BY <4>3, MeaningIs
      <4>4. QED BY <4>1, <4>2, <4>3, Shapes
    <3>2. QED BY <2>1, <2>3, <3>1 DEF Means
  <2>4. QED BY <2>2, <2>3
<1>5. \A s \in OpSlots(h) : Content(h, s) \in Refs /\ Known(h, Content(h, s))
  BY SlotContent
<1>6. \A m \in DOMAIN h.mavs : h.mavs[m].md \in Refs /\ Known(h, h.mavs[m].md)
  BY SlotContent
<1>7. QED BY <1>1, <1>2, <1>3, <1>4, <1>5, <1>6 DEF Renewed

(***************************************************************************)
(* A value is deleted, and a value is replaced by another.                 *)
(***************************************************************************)
LEMMA RemovedCounts ==
  ASSUME NEW h, NEW g, NEW k, NEW md, Removed(h, g, k, md)
  PROVE  h.changes <= g.changes
BY DEF Removed, Settled, Discarded, SameMavs

(* Nor does it matter which values live.                                   *)
LEMMA SameRenews ==
  ASSUME NEW h, NEW g, NEW e, NEW v, NEW by, Renewed(h, g, v, by), SameWraps(g, e)
  PROVE  Renewed(h, e, v, by)
<1>1. e.vams = g.vams /\ e.nodes = g.nodes /\ e.mavs = g.mavs /\ e.calls = g.calls
  BY DEF SameWraps, SameNodes, SameMavs
<1>2. OpSlots(e) = OpSlots(g) /\ \A s : Content(e, s) = Content(g, s)
  BY <1>1, SameContent DEF OpSlots
<1>3. \A md : Meaning(e, md) = Meaning(g, md)
  BY <1>1 DEF Meaning
<1>4. QED BY <1>1, <1>2, <1>3 DEF Renewed

(* DeleteValue.                                                            *)
LEMMA DeletedRenews ==
  ASSUME IInv, NEW v \in heap.live, NEW g, g = IF v \in heap.usedByMd THEN HandleDeletion(heap, v) ELSE heap,
         NEW e, e = Gone(g, v)
  PROVE  heap.changes <= e.changes /\ g.changes = e.changes /\ (e.changes <= 1 => Renewed(heap, e, v, Nil))
<1>1. Tracked(heap) /\ Mapped(heap) /\ heap.changes \in Nat
  BY HeapFacts DEF IInv, Tracked, Linked
<1>2. Tracked(e) /\ Deleted(heap, g, v) /\ SameWraps(g, e)
  BY DeleteValueFacts
<1>3. g.changes = e.changes
  BY <1>2 DEF SameWraps, SameMavs
<1>4. CASE v \notin DOMAIN heap.byValue
  <2>1. g = heap
    BY <1>2, <1>4 DEF Deleted
  <2>2. Renewed(heap, e, v, Nil)
    BY ONLY <1>1, <1>2, <1>4, <2>1, UnwrappedRenews
  <2>3. QED BY <1>1, <1>3, <2>1, <2>2
<1>5. CASE v \in DOMAIN heap.byValue
  <2> DEFINE k == heap.byValue[v]
  <2>1. Removed(heap, g, k, Nil)
    BY <1>2, <1>5 DEF Deleted
  <2> HIDE DEF k
  <2>2. heap.changes <= g.changes
    BY <2>1, RemovedCounts
  <2>3. Tracked(g)
    <3>1. g = HandleDeletion(heap, v)
      BY <1>1, <1>5 DEF Mapped
    <3>2. QED BY ONLY <1>1, <3>1, HandleDeletionFacts
  <2>4. ASSUME g.changes <= 1 PROVE Renewed(heap, e, v, Nil)
    <3>1. k = heap.byValue[v] /\ Nil \in Refs
      BY Shapes DEF k
    <3>2. Renewed(heap, g, v, Nil)
      BY ONLY <1>1, <1>5, <2>1, <2>3, <2>4, <3>1, RemovedRenews
    <3>3. QED BY ONLY <1>2, <3>2, SameRenews
  <2>5. QED BY <1>3, <2>2, <2>4
<1>6. QED BY <1>4, <1>5

(* ReplaceValue.                                                           *)
LEMMA ReplacedRenews ==
  ASSUME IInv, NEW from, NEW to \in heap.live, from # to, NEW g, g = HandleRAUW(heap, from, to)
  PROVE  /\ heap.changes <= g.changes
         /\ g.changes <= 1 => Renewed(heap, g, from, IF Keeps(from, to) THEN <<"value", to>> ELSE Nil)
<1>1. Tracked(heap) /\ Mapped(heap) /\ heap.changes \in Nat
  BY HeapFacts DEF IInv, Tracked, Linked
<1>2. Tracked(g) /\ ReplacedBy(heap, g, from, to)
  BY ONLY <1>1, g = HandleRAUW(heap, from, to), from # to, to \in heap.live, HandleRAUWFacts
<1> DEFINE k == heap.byValue[from]
           by == IF Keeps(from, to) THEN <<"value", to>> ELSE Nil
<1>3. CASE from \notin DOMAIN heap.byValue
  <2>1. g = heap
    BY <1>2, <1>3 DEF ReplacedBy
  <2>2. SameWraps(heap, heap)
    BY DEF SameWraps, SameNodes, SameMavs
  <2> HIDE DEF by
  <2>3. Renewed(heap, heap, from, by)
    BY ONLY <1>1, <1>3, <2>2, UnwrappedRenews
  <2>4. QED BY <1>1, <2>1, <2>3 DEF by
<1>4. CASE from \in DOMAIN heap.byValue
  <2>1. (Keeps(from, to) /\ TakesOver(heap, g, k, to)) \/ (~ Keeps(from, to) /\ Removed(heap, g, k, Nil))
    BY <1>2, <1>4 DEF ReplacedBy
  <2>2. k = heap.byValue[from]
    OBVIOUS
  <2> HIDE DEF k
  <2>3. CASE ~ Keeps(from, to)
    <3>1. Removed(heap, g, k, Nil) /\ by = Nil /\ Nil \in Refs
      BY <2>1, <2>3, Shapes
    <3>2. g.changes <= 1 => Renewed(heap, g, from, Nil)
      BY ONLY <1>1, <1>2, <1>4, <2>2, <3>1, RemovedRenews
    <3>3. heap.changes <= g.changes
      BY <3>1, RemovedCounts
    <3>4. QED BY <3>1, <3>2, <3>3
  <2>4. CASE Keeps(from, to) /\ \E f : SameWraps(heap, f) /\ Rewrapped(f, g, k, to)
    <3>1. PICK f : SameWraps(heap, f) /\ Rewrapped(f, g, k, to)
      BY <2>4
    <3>2. Renewed(heap, g, from, <<"value", to>>)
      BY ONLY <1>1, <1>4, <2>2, <3>1, RewrappedRenews
    <3>3. heap.changes = g.changes
      BY <3>1 DEF SameWraps, Rewrapped, SameMavs
    <3>4. QED BY <1>1, <2>4, <3>2, <3>3
  <2>5. CASE Keeps(from, to) /\ \E md \in Refs : md[1] = "vam" /\ Removed(heap, g, k, md) /\ g.vams[md[2]].val = to
    <3>1. PICK md \in Refs : md[1] = "vam" /\ Removed(heap, g, k, md) /\ g.vams[md[2]].val = to
      BY <2>5
    <3>2. md[1] = "vam" /\ <<"value", to>> = <<"value", g.vams[md[2]].val>>
      BY <3>1
    <3> DEFINE b == <<"value", to>>
    <3>3. b = <<"value", g.vams[md[2]].val>>
      BY <3>2
    <3> HIDE DEF b
    <3>4. g.changes <= 1 => Renewed(heap, g, from, b)
      BY ONLY <1>1, <1>2, <1>4, <2>2, <3>1, <3>3, RemovedRenews
    <3>5. heap.changes <= g.changes
      BY <3>1, RemovedCounts
    <3>6. QED BY <2>5, <3>4, <3>5 DEF b
  <2>6. QED BY <2>1, <2>3, <2>4, <2>5 DEF TakesOver
<1>5. QED BY <1>3, <1>4

(***************************************************************************)
(* The invariant, and what it says of SlotsMean.                           *)
(***************************************************************************)
MInv == IInv /\ (heap.changes <= 1 => MeantBy(heap, meant))

(* There is nothing to mean anything.                                      *)
LEMMA MeansInit == Init => MInv
<1> SUFFICES ASSUME Init PROVE MInv
  OBVIOUS
<1>1. IInv
  BY InitFacts
<1>2. heap.nodes = <<>> /\ DOMAIN meant = {} /\ heap.changes = 0 /\ \A c \in Calls : heap.calls[c] = 0
  BY DEF Init
<1>3. OpSlots(heap) = {}
  BY <1>2, OpSlotsIs
<1>4. QED BY <1>1, <1>2, <1>3 DEF MInv, MeantBy

(* No MetadataAsValue changes when a node is read.                         *)
LEMMA ReadNodeCounts ==
  ASSUME IInv, ReadNode
  PROVE  heap'.changes = heap.changes
<1>1. PICK ops \in SeqOf(Given, MaxOps), storage \in {"uniqued", "distinct"} : heap' = GetNode(WrapAll(ops).h, WrapAll(ops).ops, storage).h
  BY DEF ReadNode
<1>2. ops \in Seq(Given)
  BY ShortSeq
<1>3. MoreWrapped(heap, WrapAll(ops).h) /\ Grown(WrapAll(ops).h, heap')
  BY <1>1, <1>2, ReadNodeFacts
<1>4. QED BY <1>3 DEF MoreWrapped, Grown, SameMavs

(* No MetadataAsValue changes when a call is read.                         *)
LEMMA ReadCallCounts ==
  ASSUME IInv, ReadCall
  PROVE  heap'.changes = heap.changes
<1>1. PICK c \in Calls, md \in GivenCall :
        LET w == Wrap(heap, md)
            m == GetMav(w.h, w.md)
        IN  heap' = [m.h EXCEPT !.calls[c] = m.mav]
  BY DEF ReadCall, GivenCall
<1> DEFINE e == Wrap(heap, md).h
           r == Wrap(heap, md).md
           k == Canonicalize(e, r)
           g == GetMav(e, r).h
           m == GetMav(e, r).mav
<1>2. heap' = Held(g, c, m)
  BY <1>1 DEF Held
<1>3. MoreWrapped(heap, e) /\ Grown(e, k.h) /\ WithMav(k.h, g, m, k.md) /\ Tracked(g)
  BY ReadCallFacts
<1> HIDE DEF e, r, k, g, m
<1>4. m \in DOMAIN g.mavs
  BY <1>3 DEF WithMav
<1>5. heap'.changes = g.changes
  BY ONLY <1>2, <1>3, <1>4, c \in Calls, HeldFacts
<1>6. QED BY <1>3, <1>5 DEF MoreWrapped, Grown, WithMav, SameMavs

(* Every step keeps the invariant, and the bound on changes.               *)
LEMMA MeansKept ==
  ASSUME MInv, [Next]_vars
  PROVE  MInv' /\ (heap'.changes = heap.changes \/ heap'.changes <= MaxChanges)
<1>1. IInv /\ (heap.changes <= 1 => MeantBy(heap, meant)) /\ heap.changes \in Nat
  BY HeapFacts DEF MInv, IInv, Tracked, Linked
<1>2. IInv' /\ heap'.changes \in Nat
  <2>1. IInv'
    BY <1>1, NextKeeps
  <2>2. heap' \in Heaps
    BY <2>1 DEF IInv, Tracked, Linked
  <2>3. QED BY <2>1, <2>2, HeapFacts
<1>3. CASE ReadNode
  <2>1. heap'.changes = heap.changes
    BY <1>1, <1>3, ReadNodeCounts
  <2>2. QED BY <1>1, <1>2, <1>3, <2>1, ReadNodeMeans DEF MInv
<1>4. CASE ReadCall
  <2>1. heap'.changes = heap.changes
    BY <1>1, <1>4, ReadCallCounts
  <2>2. QED BY <1>1, <1>2, <1>4, <2>1, ReadCallMeans DEF MInv
<1>5. CASE DeleteValue
  <2>1. PICK v \in heap.live :
          LET g == IF v \in heap.usedByMd THEN HandleDeletion(heap, v) ELSE heap
          IN  g.changes <= MaxChanges /\ heap' = Gone(g, v) /\ meant' = Replaced(v, Nil)
    BY <1>5 DEF DeleteValue, Gone
  <2> DEFINE g == IF v \in heap.usedByMd THEN HandleDeletion(heap, v) ELSE heap
             e == heap'
  <2>2. g.changes <= MaxChanges /\ e = Gone(g, v) /\ meant' = Replaced(v, Nil)
    BY <2>1
  <2> HIDE DEF e
  <2>3. heap.changes <= e.changes /\ g.changes = e.changes /\ (e.changes <= 1 => Renewed(heap, e, v, Nil))
    BY <1>1, <2>2, DeletedRenews
  <2> HIDE DEF g
  <2>4. ASSUME e.changes <= 1 PROVE MeantBy(e, meant')
    <3>1. MeantBy(heap, meant) /\ Renewed(heap, e, v, Nil)
      BY <1>1, <1>2, <2>3, <2>4 DEF e
    <3>2. QED BY ONLY <1>1, <2>2, <2>4, <3>1, RenewedMeans
  <2>5. QED BY <1>2, <2>2, <2>3, <2>4 DEF MInv, e
<1>6. CASE ReplaceValue
  <2>1. PICK from \in heap.usedByMd, to \in heap.live :
          /\ from # to /\ heap' = HandleRAUW(heap, from, to) /\ heap'.changes <= MaxChanges
          /\ meant' = Replaced(from, IF Keeps(from, to) THEN <<"value", to>> ELSE Nil)
    BY <1>6 DEF ReplaceValue, Keeps
  <2> DEFINE e == heap'
             by == IF Keeps(from, to) THEN <<"value", to>> ELSE Nil
  <2>2. e = HandleRAUW(heap, from, to) /\ e.changes <= MaxChanges /\ meant' = Replaced(from, by)
    BY <2>1
  <2> HIDE DEF e
  <2>3. heap.changes <= e.changes /\ (e.changes <= 1 => Renewed(heap, e, from, by))
    BY <1>1, <2>1, <2>2, ReplacedRenews
  <2> HIDE DEF by
  <2>4. ASSUME e.changes <= 1 PROVE MeantBy(e, meant')
    <3>1. MeantBy(heap, meant) /\ Renewed(heap, e, from, by)
      BY <1>1, <1>2, <2>3, <2>4 DEF e
    <3>2. QED BY ONLY <1>1, <2>2, <2>4, <3>1, RenewedMeans
  <2>5. QED BY <1>2, <2>2, <2>4 DEF MInv, e
<1>7. CASE UNCHANGED vars
  BY <1>1, <1>2, <1>7 DEF vars, MInv
<1>8. QED BY <1>3, <1>4, <1>5, <1>6, <1>7 DEF Next

(* What the client sees of the invariant.                                  *)
LEMMA MeansSlots == MInv /\ heap.changes <= 1 => SlotsMean
BY DEF MInv, MeantBy, SlotsMean

(***************************************************************************)
(* Metadata refers to what the client thinks it does, in every node and in *)
(* every call, until a MetadataAsValue is told of a change for the second  *)
(* time: then the first one that changed was filed under no metadata, and  *)
(* is taken to be what the second one has become (Metadata.cpp 190).       *)
(***************************************************************************)
THEOREM SlotsMeanUntilTwo == Spec => [](heap.changes <= 1 => SlotsMean)
<1>1. Init => MInv
  BY MeansInit
<1>2. MInv /\ [Next]_vars => MInv'
  BY MeansKept
<1>3. MInv => (heap.changes <= 1 => SlotsMean)
  BY MeansSlots
<1>4. QED BY <1>1, <1>2, <1>3, PTL DEF Spec

(* As the runs have it: MaxChanges bounds the changes.                     *)
THEOREM SlotsMeanHolds ==
  ASSUME MaxChanges \in {0, 1}
  PROVE  Spec => []SlotsMean
<1> DEFINE Few == MInv /\ heap.changes <= 1
<1>1. Init => Few
  BY MeansInit DEF Init
<1>2. Few /\ [Next]_vars => Few'
  <2> SUFFICES ASSUME Few, [Next]_vars PROVE Few'
    OBVIOUS
  <2>1. MInv' /\ (heap'.changes = heap.changes \/ heap'.changes <= MaxChanges)
    BY MeansKept
  <2>2. heap'.changes \in Nat
    <3>1. heap' \in Heaps
      BY <2>1 DEF MInv, IInv, Tracked, Linked
    <3>2. QED BY <3>1, HeapFacts
  <2>3. QED BY <2>1, <2>2
<1>3. Few => SlotsMean
  BY MeansSlots
<1> HIDE DEF Few
<1>4. QED BY <1>1, <1>2, <1>3, PTL DEF Spec
=============================================================================
