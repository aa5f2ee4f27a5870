-------------------------------- MODULE Metadata --------------------------------
(***************************************************************************)
(* Metadata that refers to values (Metadata.cpp).  A value is wrapped by   *)
(* one ValueAsMetadata, which knows every slot that refers to it, so that  *)
(* the value can be replaced or destroyed behind the metadata's back; a    *)
(* uniqued node whose operands change is uniqued again; and a piece of     *)
(* metadata that is the operand of a call is wrapped by a MetadataAsValue. *)
(*                                                                         *)
(* Everything is identified by when it was made: an address that the       *)
(* allocator hands out twice is not modelled.  Nodes are resolved, there   *)
(* being no way to make a temporary one.                                   *)
(***************************************************************************)
EXTENDS Integers, SequencesExt

CONSTANTS
  Values,      \* values that metadata may refer to
  FunctionOf,  \* for each value its function (of an argument or an instruction), "constant", or Null
  Calls,       \* operands of calls that hold metadata
  MaxNodes,    \* bound: nodes made
  MaxOps,      \* bound: operands of a node
  MaxVams,     \* bound: values wrapped
  MaxChanges,  \* bound: times a MetadataAsValue is told that its metadata has changed; the second
               \* time it may be made to replace itself, which Value.cpp 319 forbids
  Null

ASSUME MetadataAssumption == MaxOps \in Nat

VARIABLES
  heap,   \* the metadata of a context, and what the calls hold
  meant   \* what each slot refers to, values replaced as the client asked

vars == <<heap, meant>>

(***************************************************************************)
(* A reference is a pair of a kind and an identity.  A slot is operand i   *)
(* of node n, <<"op", n, i>>, or what MetadataAsValue m wraps.             *)
(***************************************************************************)
Nil     == <<"null", 0>>
Node(n) == <<"node", n>>
Vam(k)  == <<"vam", k>>

IsConstant(v) == FunctionOf[v] = "constant"

(* emplace, for a key that is not there, or an assignment to the entry.    *)
Enter(f, key, v) == [k \in DOMAIN f \cup {key} |-> IF k = key THEN v ELSE f[k]]

OpSlot(n, i) == <<"op", n, i>>
MavSlot(m)   == <<"mav", m, 0>>

Content(h, s) == IF s[1] = "op" THEN h.nodes[s[2]].ops[s[3]] ELSE h.mavs[s[2]].md

Put(h, s, md) ==
  IF s[1] = "op" THEN [h EXCEPT !.nodes[s[2]].ops[s[3]] = md] ELSE [h EXCEPT !.mavs[s[2]].md = md]

-----------------------------------------------------------------------------
(* Tracking: MetadataTracking, AddRef and DropRef.  Only a ValueAsMetadata *)
(* keeps its uses, in the order they were made; one that has no owner is   *)
(* written to, the owner of any other is told.                             *)
Without(uses, s) == RemoveFirstMatch(uses, LAMBDA use : use.slot = s)

Track(h, s, owned) ==
  LET md == Content(h, s)
  IN  IF md[1] # "vam" THEN h
      ELSE [h EXCEPT !.vams[md[2]].uses = Append(@, [slot |-> s, owned |-> owned])]

Untrack(h, s) ==
  LET md == Content(h, s)
  IN  IF md[1] # "vam" THEN h
      ELSE [h EXCEPT !.vams[md[2]].uses = Without(@, s)]

(* MDNode::Operand.  Mutated: the new operand is not tracked.              *)
SetOperandOnly(h, n, i, md) == Put(Untrack(h, OpSlot(n, i)), OpSlot(n, i), md)

SetOperand(h, n, i, md) ==
  Track(Put(Untrack(h, OpSlot(n, i)), OpSlot(n, i), md), OpSlot(n, i), h.nodes[n].storage = "uniqued")

-----------------------------------------------------------------------------
(* Nodes: MDTuple::GetImpl and the constructor of MDNode.  The store finds *)
(* a node by the hash of the operands it had when it was stored: here, by  *)
(* those operands.                                                         *)
NewNode(h, ops, storage) ==
  LET n == Len(h.nodes) + 1
      g == [h EXCEPT !.nodes = Append(@, [storage |-> storage, ops |-> ops])]
  IN  FoldLeft(LAMBDA f, i : Track(f, OpSlot(n, i), storage = "uniqued"), g, [i \in DOMAIN ops |-> i])

GetNode(h, ops, storage) ==
  IF storage = "uniqued" /\ ops \in DOMAIN h.store THEN [h |-> h, md |-> Node(h.store[ops])]
  ELSE LET g == NewNode(h, ops, storage)
           n == Len(g.nodes)
       IN  [h |-> IF storage = "uniqued" THEN [g EXCEPT !.store = Enter(@, ops, n)] ELSE g, md |-> Node(n)]

StoreDistinctInContext(h, n) == [h EXCEPT !.nodes[n].storage = "distinct"]

(* Uniquify: the store is asked for the operands as they are now; the      *)
(* entry for what they were stays.  Mutated: it is not asked.              *)
UniquifyUnasked(h, n) == [h EXCEPT !.store = Enter(@, h.nodes[n].ops, n)]

Uniquify(h, n) ==
  LET ops == h.nodes[n].ops
  IN  IF ops \notin DOMAIN h.store THEN [h EXCEPT !.store = Enter(@, ops, n)]
      ELSE IF h.store[ops] = n THEN h ELSE StoreDistinctInContext(h, n)

HandleChangedOperand(h, n, i, md) ==
  LET g == SetOperand(h, n, i, md)
  IN  IF h.nodes[n].storage # "uniqued" THEN g
      ELSE IF md = Node(n) THEN StoreDistinctInContext(g, n)
      ELSE Uniquify(g, n)

-----------------------------------------------------------------------------
(* CanonicalizeMetadataForValue.                                           *)
Canonicalize(h, md) ==
  LET ops == IF md[1] = "node" THEN h.nodes[md[2]].ops ELSE <<>>
  IN  IF md = Nil \/ ops = <<Nil>> THEN GetNode(h, <<>>, "uniqued")
      ELSE [h  |-> h,
            md |-> IF Len(ops) = 1 /\ ops[1][1] = "vam" /\ IsConstant(h.vams[ops[1][2]].val)
                   THEN ops[1] ELSE md]

(* MetadataAsValue::Get.                                                   *)
GetMav(h, md) ==
  LET c == Canonicalize(h, md)
      m == Len(h.mavs) + 1
      g == [c.h EXCEPT !.mavs = Append(@, [md |-> c.md, live |-> TRUE]), !.byMd = Enter(@, c.md, m)]
  IN  IF c.md \in DOMAIN c.h.byMd THEN [h |-> c.h, mav |-> c.h.byMd[c.md]]
      ELSE [h |-> Track(g, MavSlot(m), TRUE), mav |-> m]

Forget(h, md) == [h EXCEPT !.byMd = [k \in DOMAIN @ \ {md} |-> @[k]]]

(* MetadataAsValue::HandleChangedMetadata: the reference is cleared before *)
(* it is used as the key of the table, so that the entry looked for, and   *)
(* made, is the one of no metadata at all.                                 *)
HandleChangedMetadata(h, m, md) ==
  LET c == Canonicalize(h, md)
      g == [Put(Untrack(Forget(c.h, h.mavs[m].md), MavSlot(m)), MavSlot(m), Nil) EXCEPT !.changes = @ + 1]
  IN  IF Nil \in DOMAIN g.byMd
      THEN [Forget(g, Nil) EXCEPT !.calls = [k \in Calls |-> IF @[k] = m THEN g.byMd[Nil] ELSE @[k]],
                                  !.mavs[m].live = FALSE]
      ELSE [Track(Put(g, MavSlot(m), c.md), MavSlot(m), TRUE) EXCEPT !.byMd = Enter(@, Nil, m)]

(* ReplaceableMetadataImpl::ReplaceAllUsesWith: the uses there are at the  *)
(* start, in the order they were made, those gone in the meantime left out.*)
ReplaceUse(h, k, use, md) ==
  LET s == use.slot
  IN  IF ~Contains(h.vams[k].uses, use) THEN h
       ELSE IF ~use.owned
       THEN [Track(Put(h, s, md), s, FALSE) EXCEPT !.vams[k].uses = Without(@, s)]
       ELSE IF s[1] = "mav" THEN HandleChangedMetadata(h, s[2], md)
       ELSE HandleChangedOperand(h, s[2], s[3], md)

ReplaceAllUsesWith(h, k, md) ==
  FoldLeft(LAMBDA g, use : ReplaceUse(g, k, use, md), h, h.vams[k].uses)

(* Replaced and then deleted.                                              *)
Discard(h, k, md) == [ReplaceAllUsesWith(h, k, md) EXCEPT !.vams[k].live = FALSE, !.vams[k].val = Null]

-----------------------------------------------------------------------------
(* ValueAsMetadata.                                                        *)
GetVam(h, v) ==
  IF v \in DOMAIN h.byValue THEN [h |-> h, md |-> Vam(h.byValue[v])]
  ELSE LET k == Len(h.vams) + 1
       IN  [h  |-> [h EXCEPT !.vams = Append(@, [val |-> v, live |-> TRUE, uses |-> <<>>]),
                             !.byValue = Enter(@, v, k), !.usedByMd = @ \cup {v}],
            md |-> Vam(k)]

Unmap(h, v) == [h EXCEPT !.byValue = [w \in DOMAIN @ \ {v} |-> @[w]]]

HandleDeletion(h, v) ==
  IF v \notin DOMAIN h.byValue THEN h ELSE Discard(Unmap(h, v), h.byValue[v], Nil)

OtherFunction(from, to) == FunctionOf[from] # Null /\ FunctionOf[to] # Null /\ FunctionOf[from] # FunctionOf[to]

(* Mutated: what another value has already is not looked at.               *)
HandleRAUWAlone(h, from, to) ==
  IF from \notin DOMAIN h.byValue THEN h
  ELSE LET k == h.byValue[from]
       IN  [Unmap(h, from) EXCEPT !.vams[k].val = to, !.byValue = Enter(@, to, k),
                                  !.usedByMd = (@ \ {from}) \cup {to}]

HandleRAUW(h, from, to) ==
  IF from \notin DOMAIN h.byValue THEN h
  ELSE LET k == h.byValue[from]
           g == [Unmap(h, from) EXCEPT !.usedByMd = @ \ {from}]
       IN  IF ~IsConstant(from) /\ IsConstant(to)
           THEN LET e == GetVam(g, to) IN Discard(e.h, k, e.md)
           ELSE IF IsConstant(from) # IsConstant(to) \/ (~IsConstant(from) /\ OtherFunction(from, to))
           THEN Discard(g, k, Nil)
           ELSE IF to \in DOMAIN g.byValue THEN Discard(g, k, Vam(g.byValue[to]))
           ELSE [g EXCEPT !.usedByMd = @ \cup {to}, !.vams[k].val = to, !.byValue = Enter(@, to, k)]

-----------------------------------------------------------------------------
(* What a reference means, whatever wraps the value.                       *)
Meaning(h, md) ==
  CASE md[1] = "vam"                                 -> <<"value", h.vams[md[2]].val>>
    [] md[1] = "node" /\ h.nodes[md[2]].ops = <<>>   -> <<"empty", 0>>
    [] OTHER                                         -> md

OpSlots(h) == UNION {{OpSlot(n, i) : i \in DOMAIN h.nodes[n].ops} : n \in DOMAIN h.nodes}

CallSlot(c) == <<"call", c, 0>>

(* What the client asked for: every slot that refers to a value refers to  *)
(* what it was replaced by; an operand of a call that has nothing left is  *)
(* the node without operands.                                              *)
Replaced(from, by) ==
  [s \in DOMAIN meant |->
     IF meant[s] # <<"value", from>> THEN meant[s]
     ELSE IF by = Nil /\ s[1] = "call" THEN <<"empty", 0>> ELSE by]

Init ==
  /\ heap = [vams |-> <<>>, byValue |-> <<>>, usedByMd |-> {}, nodes |-> <<>>, store |-> <<>>,
             mavs |-> <<>>, byMd |-> <<>>, calls |-> [c \in Calls |-> 0], live |-> Values,
             changes |-> 0]
  /\ meant = <<>>

(* What a record of the metadata block names: nothing, a                   *)
(* constant or a node made before.                                         *)
Given == {Nil} \cup {<<"value", v>> : v \in {w \in heap.live : IsConstant(w)}}
           \cup {Node(n) : n \in DOMAIN heap.nodes}

Wrap(h, op) == IF op[1] = "value" THEN GetVam(h, op[2]) ELSE [h |-> h, md |-> op]

WrapAll(ops) ==
  FoldLeft(LAMBDA a, op : LET w == Wrap(a.h, op) IN [h |-> w.h, ops |-> Append(a.ops, w.md)],
           [h |-> heap, ops |-> <<>>], ops)

ReadNode ==
  /\ Len(heap.nodes) < MaxNodes
  /\ \E ops \in SeqOf(Given, MaxOps), storage \in {"uniqued", "distinct"} :
       LET a == WrapAll(ops)
           g == GetNode(a.h, a.ops, storage).h
       IN  /\ g # heap /\ Len(g.vams) <= MaxVams
           /\ heap' = g
           /\ meant' = [s \in DOMAIN meant \cup OpSlots(g) |->
                          IF s \in DOMAIN meant THEN meant[s] ELSE Meaning(g, Content(g, s))]

(* ValueByTypeAndId: the operand of a call is metadata.                    *)
ReadCall ==
  \E c \in Calls, md \in {<<"value", v>> : v \in heap.live} \cup {Node(n) : n \in DOMAIN heap.nodes} :
    /\ heap.calls[c] = 0
    /\ LET w == Wrap(heap, md)
           m == GetMav(w.h, w.md)
       IN  /\ Len(m.h.nodes) <= MaxNodes /\ Len(m.h.vams) <= MaxVams
           /\ heap' = [m.h EXCEPT !.calls[c] = m.mav]
           /\ meant' = Enter(meant, CallSlot(c), Meaning(m.h, Canonicalize(m.h, w.md).md))

(* ~Value.                                                                 *)
DeleteValue ==
  \E v \in heap.live :
    LET g == IF v \in heap.usedByMd THEN HandleDeletion(heap, v) ELSE heap
    IN  /\ g.changes <= MaxChanges
        /\ heap' = [g EXCEPT !.live = @ \ {v}]
        /\ meant' = Replaced(v, Nil)

(* Value::ReplaceAllUsesWith.                                              *)
ReplaceValue ==
  \E from \in heap.usedByMd, to \in heap.live :
    /\ from # to
    /\ heap' = HandleRAUW(heap, from, to)
    /\ heap'.changes <= MaxChanges /\ Len(heap'.vams) <= MaxVams
    /\ meant' = Replaced(from, IF IsConstant(to) \/ (~IsConstant(from) /\ ~OtherFunction(from, to))
                               THEN <<"value", to>> ELSE Nil)

Next == ReadNode \/ ReadCall \/ DeleteValue \/ ReplaceValue

Spec == Init /\ [][Next]_vars

-----------------------------------------------------------------------------
LiveMavs  == {m \in DOMAIN heap.mavs : heap.mavs[m].live}
LiveSlots == OpSlots(heap) \cup {MavSlot(m) : m \in LiveMavs}

(***************************************************************************)
(* The uses a ValueAsMetadata keeps are the slots that refer to it, no     *)
(* slot refers to a deleted one, and the table of a context, the bit in    *)
(* the value and the value it wraps agree: whatever was replaced, deleted, *)
(* uniqued again or merged in between.                                     *)
(***************************************************************************)
UsesTracked ==
  /\ \A s \in LiveSlots : Content(heap, s)[1] = "vam" => heap.vams[Content(heap, s)[2]].live
  /\ \A k \in DOMAIN heap.vams :
       LET uses == heap.vams[k].uses
       IN  /\ {uses[i].slot : i \in DOMAIN uses} = {s \in LiveSlots : Content(heap, s) = Vam(k)}
           /\ \A i, j \in DOMAIN uses : uses[i].slot = uses[j].slot => i = j
  /\ heap.usedByMd \cap heap.live = DOMAIN heap.byValue
  /\ \A v \in DOMAIN heap.byValue : LET w == heap.vams[heap.byValue[v]] IN w.live /\ w.val = v

(***************************************************************************)
(* Two uniqued nodes never have the same operands, and each is found under *)
(* its operands: a node made equal to another by a replacement stops being *)
(* uniqued.                                                                *)
(***************************************************************************)
NodesUnique ==
  \A n \in DOMAIN heap.nodes :
    heap.nodes[n].storage = "uniqued" => /\ heap.nodes[n].ops \in DOMAIN heap.store
                                         /\ heap.store[heap.nodes[n].ops] = n

(***************************************************************************)
(* Metadata refers to what the client thinks it does: values replaced and  *)
(* deleted are replaced and gone in every node and in every call, and      *)
(* nothing else has changed.                                               *)
(***************************************************************************)
SlotsMean ==
  /\ \A s \in OpSlots(heap) : meant[s] = Meaning(heap, Content(heap, s))
  /\ \A c \in Calls : heap.calls[c] # 0 =>
       meant[CallSlot(c)] = Meaning(heap, heap.mavs[heap.calls[c]].md)
=============================================================================
