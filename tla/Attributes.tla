------------------------------- MODULE Attributes -------------------------------
(***************************************************************************)
(* Attributes of functions, results and parameters (Attributes.cpp,        *)
(* AttributeImpl.cpp), read from the two attribute blocks of a module      *)
(* (BitcodeReader.cpp).  Attributes, the sorted attributes of one index,   *)
(* and the lists of these by index are each made once per context, so that *)
(* lists are the same exactly if they are one object: the printer numbers  *)
(* its attribute groups by that.                                           *)
(*                                                                         *)
(* Only attributes without a value are read; one with a value, an          *)
(* alignment say, and one that is a string are not implemented.            *)
(***************************************************************************)
EXTENDS Integers, Sequences, FiniteSets
LOCAL INSTANCE SequencesExt

CONSTANTS
  Documents,  \* attribute blocks: groups (idx and codes by id) and entries (ids of groups)
  Null

VARIABLES
  doc,
  context,  \* attrs_set, attrs_set_nodes and attrs_lists
  groups,   \* m_attrib_groups_
  attribs   \* m_attribs_

vars == <<doc, context, groups, attribs>>

(* Attribute::AttrKind, in order.                                          *)
AttrKind ==
  << "Alignment", "AlwaysInline", "Builtin", "ByVal", "InAlloca", "Cold", "Convergent", "InlineHint",
     "InReg", "JumpTable", "MinSize", "Naked", "Nest", "NoAlias", "NoBuiltin", "NoCapture",
     "NoDuplicate", "NoImplicitFloat", "NoInline", "NonLazyBind", "NonNull", "Dereferenceable",
     "DereferenceableOrNull", "NoRedZone", "NoReturn", "NoUnwind", "OptimizeForSize", "OptimizeNone",
     "ReadNone", "ReadOnly", "ArgMemOnly", "Returned", "ReturnsTwice", "SExt", "StackAlignment",
     "StackProtect", "StackProtectReq", "StackProtectStrong", "SafeStack", "StructRet",
     "SanitizeAddress", "SanitizeThread", "SanitizeMemory", "UWTable", "ZExt" >>

(* AttributeKindCode, from 1.                                              *)
AttributeKindCode ==
  << "Alignment", "AlwaysInline", "ByVal", "InlineHint", "InReg", "MinSize", "Naked", "Nest", "NoAlias",
     "NoBuiltin", "NoCapture", "NoDuplicate", "NoImplicitFloat", "NoInline", "NonLazyBind", "NoRedZone",
     "NoReturn", "NoUnwind", "OptimizeForSize", "ReadNone", "ReadOnly", "Returned", "ReturnsTwice",
     "SExt", "StackAlignment", "StackProtect", "StackProtectReq", "StackProtectStrong", "StructRet",
     "SanitizeAddress", "SanitizeThread", "SanitizeMemory", "UWTable", "ZExt", "Builtin", "Cold",
     "OptimizeNone", "InAlloca", "NonNull", "JumpTable", "Dereferenceable", "DereferenceableOrNull",
     "Convergent", "SafeStack", "ArgMemOnly" >>

AttrFromCode(code) == IF code \in DOMAIN AttributeKindCode THEN AttributeKindCode[code] ELSE "None"

(* Attribute::GetAsString.                                                 *)
AttrText ==
  [ SanitizeAddress |-> "sanitize_address", AlwaysInline |-> "alwaysinline", ArgMemOnly |-> "argmemonly",
    Builtin |-> "builtin", ByVal |-> "byval", Convergent |-> "convergent", InAlloca |-> "inalloca",
    InlineHint |-> "inlinehint", InReg |-> "inreg", JumpTable |-> "jumptable", MinSize |-> "minsize",
    Naked |-> "naked", Nest |-> "nest", NoAlias |-> "noalias", NoBuiltin |-> "nobuiltin",
    NoCapture |-> "nocapture", NoDuplicate |-> "noduplicate", NoImplicitFloat |-> "noimplicitfloat",
    NoInline |-> "noinline", NonLazyBind |-> "nonlazybind", NonNull |-> "nonnull",
    NoRedZone |-> "noredzone", NoReturn |-> "noreturn", NoUnwind |-> "nounwind",
    OptimizeNone |-> "optnone", OptimizeForSize |-> "optsize", ReadNone |-> "readnone",
    ReadOnly |-> "readonly", Returned |-> "returned", ReturnsTwice |-> "returns_twice",
    SExt |-> "signext", StackProtect |-> "ssp", StackProtectReq |-> "sspreq",
    StackProtectStrong |-> "sspstrong", SafeStack |-> "safestack", StructRet |-> "sret",
    SanitizeThread |-> "sanitize_thread", SanitizeMemory |-> "sanitize_memory", UWTable |-> "uwtable",
    ZExt |-> "zeroext", Cold |-> "cold" ]

AI_ReturnIndex   == 0
AI_FunctionIndex == 2147483647   \* ~0U in the code: behind every other index

-----------------------------------------------------------------------------
(* An object of a context is its place in the table of its kind, which     *)
(* finds it by what it was made from (in the code, by a hash of it).       *)
Find(table, key) == SelectInSeq(table, LAMBDA entry : entry = key)

Made(ctx, which, key) ==
  IF Contains(ctx[which], key) THEN [ctx |-> ctx, id |-> Find(ctx[which], key)]
  ELSE [ctx |-> [ctx EXCEPT ![which] = Append(@, key)], id |-> Len(ctx[which]) + 1]

(* Attribute::Get, of one kind after the other.                            *)
GetAttributes(ctx, kinds) ==
  FoldLeft(LAMBDA a, kind : LET m == Made(a.ctx, "attrs", kind)
                            IN  [ctx |-> m.ctx, ids |-> Append(a.ids, m.id)],
           [ctx |-> ctx, ids |-> <<>>], kinds)

KindOrder(kind) == Find(AttrKind, kind)

(* AttributeSetNode::Get.                                                  *)
GetNode(ctx, ids) ==
  LET Before(a, b) == KindOrder(ctx.attrs[a]) < KindOrder(ctx.attrs[b])
  IN  Made(ctx, "nodes", SortSeq(ids, Before))

(* AttributeSet::Get of an index and an AttrBuilder, which is a set of     *)
(* kinds: nothing for none.                                                *)
GetOfBuilder(ctx, index, builder) ==
  IF builder = {} THEN [ctx |-> ctx, id |-> Null]
  ELSE LET a == GetAttributes(ctx, SelectSeq(AttrKind, LAMBDA kind : kind \in builder))
           n == GetNode(a.ctx, a.ids)
       IN  Made(n.ctx, "lists", <<[index |-> index, node |-> n.id]>>)

Slots(ctx, id) == IF id = Null THEN <<>> ELSE ctx.lists[id]

(* AttributeSet::Get of several: each slot goes behind those of its index  *)
(* and of smaller ones, from the place of the one before it.               *)
Merge(into, slots) ==
  LET Insert(a, slot) ==
        LET later == {n \in a.from .. Len(a.seq) : a.seq[n].index > slot.index}
            at    == IF later = {} THEN Len(a.seq) + 1 ELSE CHOOSE n \in later : \A m \in later : n <= m
        IN  [seq |-> InsertAt(a.seq, at, slot), from |-> at + 1]
  IN  FoldLeft(Insert, [seq |-> into, from |-> 1], slots).seq

(* Mutated: one behind the other.                                          *)
GetOfSetsAppended(ctx, ids) ==
  CASE ids = <<>>    -> [ctx |-> ctx, id |-> Null]
    [] Len(ids) = 1  -> [ctx |-> ctx, id |-> ids[1]]
    [] OTHER         -> Made(ctx, "lists", FoldLeft(LAMBDA s, id : s \o Slots(ctx, id), <<>>, ids))

GetOfSets(ctx, ids) ==
  CASE ids = <<>>    -> [ctx |-> ctx, id |-> Null]
    [] Len(ids) = 1  -> [ctx |-> ctx, id |-> ids[1]]
    [] OTHER         -> Made(ctx, "lists", FoldLeft(LAMBDA s, id : Merge(s, Slots(ctx, id)), <<>>, ids))

(* AttributeSet::GetAttributes: the first slot with the index.             *)
NodeAt(ctx, id, index) ==
  LET n == SelectInSeq(Slots(ctx, id), LAMBDA slot : slot.index = index)
  IN  IF n = 0 THEN Null ELSE Slots(ctx, id)[n].node

GetFnAttributes(ctx, id) ==
  IF NodeAt(ctx, id, AI_FunctionIndex) = Null THEN [ctx |-> ctx, id |-> Null]
  ELSE Made(ctx, "lists", <<[index |-> AI_FunctionIndex, node |-> NodeAt(ctx, id, AI_FunctionIndex)]>>)

(* AttributeSet::GetAsString.                                              *)
Text(ctx, id, index) ==
  LET node == NodeAt(ctx, id, index)
  IN  IF node = Null THEN <<>>
      ELSE [n \in DOMAIN ctx.nodes[node] |-> AttrText[ctx.attrs[ctx.nodes[node][n]]]]

-----------------------------------------------------------------------------
Init ==
  /\ doc \in Documents
  /\ context = [attrs |-> <<>>, nodes |-> <<>>, lists |-> <<>>]
  /\ groups = <<>>
  /\ attribs = <<>>

(* ParseAttributeGroupBlock: the kinds of a record go into an AttrBuilder. *)
ReadGroup ==
  /\ Len(groups) < Len(doc.groups)
  /\ LET grp == doc.groups[Len(groups) + 1]
         g   == GetOfBuilder(context, grp.idx, {AttrFromCode(code) : code \in grp.codes})
     IN  /\ context' = g.ctx
         /\ groups' = Append(groups, [id |-> grp.id, set |-> g.id])
  /\ UNCHANGED <<doc, attribs>>

(* m_attrib_groups_[id]: the last group of that id.                        *)
GroupOf(id) ==
  LET n == SelectLastInSeq(groups, LAMBDA grp : grp.id = id) IN IF n = 0 THEN Null ELSE groups[n].set

(* ParseAttributeBlock.                                                    *)
ReadEntry ==
  /\ Len(groups) = Len(doc.groups) /\ Len(attribs) < Len(doc.entries)
  /\ LET entry == doc.entries[Len(attribs) + 1]
         s     == GetOfSets(context, [n \in DOMAIN entry |-> GroupOf(entry[n])])
     IN  /\ context' = s.ctx
         /\ attribs' = Append(attribs, s.id)
  /\ UNCHANGED <<doc, groups>>

Next == ReadGroup \/ ReadEntry

Spec == Init /\ [][Next]_vars

-----------------------------------------------------------------------------
(* What an entry gives an index, as the document says it.                  *)
Written(n, index) ==
  UNION {grp.codes : grp \in {g \in Range(doc.groups) : g.idx = index /\ g.id \in Range(doc.entries[n])}}

(***************************************************************************)
(* Two lists are one object, and have one object for their function's      *)
(* attributes, exactly if they were written with the same attributes at    *)
(* the same indexes (at the function's): whatever the order of groups,     *)
(* of their ids in an entry and of the codes in a group.  An entry prints  *)
(* what was written for the index.                                         *)
(***************************************************************************)
AttributesCanonical ==
  LET Indexes == {grp.idx : grp \in Range(doc.groups)} \cup {AI_FunctionIndex}
  IN  \A m, n \in DOMAIN attribs :
        /\ (attribs[m] = attribs[n]) <=> (\A i \in Indexes : Written(m, i) = Written(n, i))
        /\ (GetFnAttributes(context, attribs[m]).id = GetFnAttributes(context, attribs[n]).id)
             <=> (Written(m, AI_FunctionIndex) = Written(n, AI_FunctionIndex))
        /\ \A i \in Indexes :
             (Text(context, attribs[m], i) = Text(context, attribs[n], i)) <=> (Written(m, i) = Written(n, i))
=============================================================================
