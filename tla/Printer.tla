-------------------------------- MODULE Printer --------------------------------
(***************************************************************************)
(* A module as text (AsmWriter.cpp).  What has no name is referred to by a *)
(* number: local values within their function, metadata nodes, attribute   *)
(* groups and struct types within the module.  Types and nodes are         *)
(* numbered before anything is printed, local values and the attributes of *)
(* calls when a function is printed and the first number is asked for.     *)
(*                                                                         *)
(* The text is the sequence of the numbers in it, each with what it is     *)
(* meant for: a definition or a reference.                                 *)
(***************************************************************************)
EXTENDS Integers, Sequences, FiniteSets
LOCAL INSTANCE SequencesExt
LOCAL INSTANCE TLC

CONSTANTS
  Modules,   \* the modules printed
  Null

VARIABLES
  mod,      \* the module
  machine,  \* its SlotTracker
  types,    \* TypePrinting: what TypeFinder has visited, and numbered_types_
  text,
  todo      \* the parts of the module not printed yet

vars == <<mod, machine, types, text, todo>>

(***************************************************************************)
(* A module is a record of named (the nodes of each named metadata), nodes *)
(* (their operands), typeOf (kind and parts of each type), consts (the     *)
(* type of each constant) and funcs.  A block is its function and its      *)
(* place in it; an instruction has the place in its block behind.          *)
(***************************************************************************)
Blocks(f)   == mod.funcs[f].blocks
Insts(f, b) == Blocks(f)[b].insts
Inst(v)     == Insts(v[1], v[2])[v[3]]

BlockIds(f)   == [b \in DOMAIN Blocks(f) |-> <<f, b>>]
InstIds(f, b) == [i \in DOMAIN Insts(f, b) |-> <<f, b, i>>]

-----------------------------------------------------------------------------
(* TypeFinder: the struct types in the order they are met, F.structs.      *)
RECURSIVE Drain(_, _)
Drain(F, worklist) ==
  IF worklist = <<>> THEN F
  ELSE LET ty == Last(worklist)
           S  == IF mod.typeOf[ty].kind = "struct" THEN [F EXCEPT !.structs = Append(@, ty)] ELSE F
           Push(sub, P) ==
             IF sub \in P.F.types THEN P
             ELSE [F |-> [P.F EXCEPT !.types = @ \cup {sub}], work |-> Append(P.work, sub)]
           P == FoldRight(Push, mod.typeOf[ty].subs, [F |-> S, work |-> Front(worklist)])
       IN  Drain(P.F, P.work)

IncorporateType(F, ty) ==
  IF ty \in F.types THEN F ELSE Drain([F EXCEPT !.types = @ \cup {ty}], <<ty>>)

(* The operands of constants are not met: the constants there are have     *)
(* none.                                                                   *)
IncorporateConstant(F, c) ==
  IF c \in F.values THEN F ELSE IncorporateType([F EXCEPT !.values = @ \cup {c}], mod.consts[c])

RECURSIVE IncorporateMDNode(_, _)
IncorporateMDNode(F, n) ==
  LET Op(G, op) == CASE op.kind = "node"  -> IncorporateMDNode(G, op.id)
                     [] op.kind = "const" -> IncorporateConstant(G, op.id)
                     [] OTHER             -> G
  IN  IF n \in F.nodes THEN F
      ELSE FoldLeft(Op, [F EXCEPT !.nodes = @ \cup {n}], mod.nodes[n].ops)

IncorporateValue(F, v) ==
  CASE v.kind \in {"const", "md const"} -> IncorporateConstant(F, v.id)
    [] v.kind = "md node"               -> IncorporateMDNode(F, v.id)
    [] OTHER                            -> F

TypesOfInst(F, v) ==
  FoldLeft(IncorporateValue, IncorporateType(F, Inst(v).type), Inst(v).args)

TypesOfFunction(F, f) ==
  LET G == FoldLeft(IncorporateValue, IncorporateType(F, mod.funcs[f].type), mod.funcs[f].data)
  IN  FoldLeft(LAMBDA H, b : FoldLeft(TypesOfInst, H, InstIds(f, b[2])), G, BlockIds(f))

NoTypes == [types |-> {}, values |-> {}, nodes |-> {}, structs |-> <<>>]

Run ==
  LET F == FoldLeft(TypesOfFunction, NoTypes, [f \in DOMAIN mod.funcs |-> f])
  IN  FoldLeft(LAMBDA G, nmd : FoldLeft(IncorporateMDNode, G, nmd), F, mod.named)

(* The struct types without a name, in the order of their numbers, and     *)
(* those that have one; literal ones are printed where they are used.      *)
Numbered(F) ==
  SelectSeq(F.structs, LAMBDA ty : ~mod.typeOf[ty].literal /\ ~mod.typeOf[ty].named)
NamedTypes(F) ==
  SelectSeq(F.structs, LAMBDA ty : ~mod.typeOf[ty].literal /\ mod.typeOf[ty].named)

-----------------------------------------------------------------------------
(* SlotTracker.  Slots of nodes and of attribute groups are their places   *)
(* in a sequence.                                                          *)
NewTracker(f) ==
  [module |-> TRUE, function |-> f, processed |-> FALSE, functionMap |-> <<>>,
   functionNext |-> 0, nodes |-> <<>>, groups |-> <<>>]

CreateFunctionSlot(t, v) ==
  [t EXCEPT !.functionMap = (v :> t.functionNext) @@ @, !.functionNext = @ + 1]

CreateAttributeSetSlot(t, as) ==
  IF as = Null \/ Contains(t.groups, as) THEN t ELSE [t EXCEPT !.groups = Append(@, as)]

(* Mutated: what a node refers to gets no number.                          *)
CreateRootSlot(t, n) ==
  IF Contains(t.nodes, n) THEN t ELSE [t EXCEPT !.nodes = Append(@, n)]

RECURSIVE CreateMetadataSlot(_, _)
CreateMetadataSlot(t, n) ==
  IF Contains(t.nodes, n) THEN t
  ELSE FoldLeft(LAMBDA s, op : IF op.kind = "node" THEN CreateMetadataSlot(s, op.id) ELSE s,
                [t EXCEPT !.nodes = Append(@, n)], mod.nodes[n].ops)

(* Functions have names: the code gives up on one that has none.           *)
ProcessModule(t) ==
  LET N == FoldLeft(LAMBDA s, nmd : FoldLeft(CreateMetadataSlot, s, nmd), t, mod.named)
  IN  FoldLeft(LAMBDA s, func : CreateAttributeSetSlot(s, func.attrs), N, mod.funcs)

ProcessInst(t, v) ==
  CreateAttributeSetSlot(
    IF Inst(v).type # "void" /\ ~Inst(v).named THEN CreateFunctionSlot(t, v) ELSE t, Inst(v).attrs)

ProcessBlock(t, b) ==
  FoldLeft(ProcessInst,
           IF Blocks(b[1])[b[2]].named THEN t ELSE CreateFunctionSlot(t, b), InstIds(b[1], b[2]))

(* Mutated: the numbers go on from where the last function stopped.        *)
ProcessFunctionOn(t) ==
  [FoldLeft(ProcessBlock, t, BlockIds(t.function)) EXCEPT !.processed = TRUE]

(* The functions whose body is printed have no arguments: printing one is  *)
(* not implemented.                                                        *)
ProcessFunction(t) ==
  [FoldLeft(ProcessBlock, [t EXCEPT !.functionNext = 0], BlockIds(t.function))
     EXCEPT !.processed = TRUE]

Initialize(t) ==
  LET s == IF t.module THEN [ProcessModule(t) EXCEPT !.module = FALSE] ELSE t
  IN  IF s.function # Null /\ ~s.processed THEN ProcessFunction(s) ELSE s

IncorporateFunction(t, f) == [t EXCEPT !.function = f, !.processed = FALSE]

PurgeFunction(t) == [t EXCEPT !.functionMap = <<>>, !.function = Null, !.processed = FALSE]

SlotIn(seq, x) == IF Contains(seq, x) THEN IndexFirstSubSeq(<<x>>, seq) - 1 ELSE -1

LocalSlot(t, v) == IF v \in DOMAIN t.functionMap THEN t.functionMap[v] ELSE -1

-----------------------------------------------------------------------------
(* Printing: p is the tracker and the text so far.                         *)
Def(space, slot, of) == <<[def |-> TRUE, space |-> space, slot |-> slot, of |-> of]>>
Ref(space, slot, of) == <<[def |-> FALSE, space |-> space, slot |-> slot, of |-> of]>>

Emit(p, items) == [p EXCEPT !.out = @ \o items]

(* Every question for a slot initialises the tracker first.                *)
Asked(p) == [p EXCEPT !.m = Initialize(@)]

(* TypePrinting::Print and PrintStructBody.                                *)
RECURSIVE TypeText(_)
TypeText(ty) ==
  LET T == mod.typeOf[ty]
  IN  IF T.kind # "struct" \/ T.literal THEN FlattenSeq([n \in DOMAIN T.subs |-> TypeText(T.subs[n])])
      ELSE IF T.named THEN <<>>
      ELSE Ref("type", SlotIn(Numbered(types), ty), ty)

StructBody(ty) ==
  FlattenSeq([n \in DOMAIN mod.typeOf[ty].subs |-> TypeText(mod.typeOf[ty].subs[n])])

NodeOperand(p, n) ==
  LET q == Asked(p) IN Emit(q, Ref("node", SlotIn(q.m.nodes, n), n))

LocalOperand(p, v) ==
  LET q == Asked(p) IN IF Inst(v).named THEN p ELSE Emit(q, Ref("local", LocalSlot(q.m, v), v))

WriteAsOperand(p, v) ==
  CASE v.kind = "local"    -> LocalOperand(Emit(p, TypeText(Inst(v.id).type)), v.id)
    [] v.kind = "md local" -> LocalOperand(Emit(p, TypeText(Inst(v.id).type)), v.id)
    [] v.kind = "md node"  -> NodeOperand(p, v.id)
    [] v.kind \in {"const", "md const"} -> Emit(p, TypeText(mod.consts[v.id]))

WriteMDTuple(p, n) ==
  LET Op(q, op) == CASE op.kind = "node"  -> NodeOperand(q, op.id)
                     [] op.kind = "const" -> Emit(q, TypeText(mod.consts[op.id]))
                     [] OTHER             -> q
  IN  FoldLeft(Op, p, mod.nodes[n].ops)

PrintAttributes(p, as) ==
  LET q == Asked(p) IN IF as = Null THEN p ELSE Emit(q, Ref("group", SlotIn(q.m.groups, as), as))

(* The type of a function's value is a pointer to its function type, whose *)
(* parts are the result and the parameters.                                *)
PrintInst(p, v) ==
  LET i == Inst(v)
      q == Asked(p)
      d == IF i.type = "void" \/ i.named THEN p ELSE Emit(q, Def("local", LocalSlot(q.m, v), v))
      a == FoldLeft(WriteAsOperand, Emit(d, TypeText(i.type)), i.args)
  IN  IF i.kind = "call" THEN PrintAttributes(a, i.attrs) ELSE d

(* Nothing refers to a block, there being no branches: its number is not   *)
(* printed.                                                                *)
Unprinted == -2

PrintBlock(p, b) ==
  FoldLeft(PrintInst,
           IF Blocks(b[1])[b[2]].named THEN p ELSE Emit(p, Def("local", Unprinted, b)),
           InstIds(b[1], b[2]))

WriteData(p, c) == Emit(p, TypeText(mod.consts[c.id]))

PrintFunction(p, f) ==
  LET F == mod.funcs[f]
      h == Emit([p EXCEPT !.m = IncorporateFunction(@, f)], TypeText(F.type))
      d == FoldLeft(WriteData, PrintAttributes(h, F.attrs), F.data)
  IN  [FoldLeft(PrintBlock, d, BlockIds(f)) EXCEPT !.m = PurgeFunction(@)]

-----------------------------------------------------------------------------
Printing == [m |-> machine, out |-> text]

Printed(p) == machine' = p.m /\ text' = p.out

Part(what, f) == [what |-> what, f |-> f]

(* LLVMModule::Print, and the constructor of AssemblyWriter.               *)
Init ==
  /\ mod \in Modules
  /\ machine = NewTracker(Null)
  /\ types = Run
  /\ text = <<>>
  /\ todo = <<Part("types", 0)>> \o [f \in DOMAIN mod.funcs |-> Part("function", f)]
             \o <<Part("groups", 0), Part("named", 0), Part("nodes", 0)>>

PrintTypeIdentities ==
  /\ Head(todo).what = "types"
  /\ LET N == Numbered(types)
         D == FlattenSeq([n \in DOMAIN N |-> Def("type", n - 1, N[n]) \o StructBody(N[n])])
         B == FlattenSeq([n \in DOMAIN NamedTypes(types) |-> StructBody(NamedTypes(types)[n])])
     IN  Printed([m |-> Initialize(machine), out |-> text \o D \o B])

PrintNextFunction ==
  /\ Head(todo).what = "function"
  /\ Printed(PrintFunction(Printing, Head(todo).f))

WriteAllAttributeGroups ==
  /\ Head(todo).what = "groups"
  /\ Printed(Emit(Printing, FlattenSeq([n \in DOMAIN machine.groups |->
                                          Def("group", n - 1, machine.groups[n])])))

PrintNamedMDNodes ==
  /\ Head(todo).what = "named"
  /\ Printed(FoldLeft(LAMBDA p, nmd : FoldLeft(NodeOperand, p, nmd), Printing, mod.named))

WriteAllMDNodes ==
  /\ Head(todo).what = "nodes"
  /\ LET Write(p, n) ==
           WriteMDTuple(Emit(p, Def("node", SlotIn(machine.nodes, n), n)), n)
     IN  Printed(FoldLeft(Write, Printing, machine.nodes))

Next ==
  /\ todo # <<>>
  /\ \/ PrintTypeIdentities \/ PrintNextFunction \/ WriteAllAttributeGroups
     \/ PrintNamedMDNodes \/ WriteAllMDNodes
  /\ todo' = Tail(todo)
  /\ UNCHANGED <<mod, types>>

Spec == Init /\ [][Next]_vars

-----------------------------------------------------------------------------
Defs(space) == {n \in DOMAIN text : text[n].def /\ text[n].space = space}
Refs(space) == {n \in DOMAIN text : ~text[n].def /\ text[n].space = space}

(***************************************************************************)
(* Whatever is referred to by a number in the text of a module is defined  *)
(* in it, once, with that number: local values in their own function, and  *)
(* types, nodes and attribute groups anywhere in the module.               *)
(***************************************************************************)
NumbersResolve ==
  todo = <<>> =>
    \A space \in {"local", "node", "group", "type"} : \A r \in Refs(space) :
      LET same == {d \in Defs(space) : /\ text[d].slot \in {text[r].slot, Unprinted}
                                       /\ text[d].of = text[r].of}
          rivals == {d \in Defs(space) : /\ text[d].slot = text[r].slot
                                         /\ space = "local" => text[d].of[1] = text[r].of[1]}
      IN  Cardinality(same) = 1 /\ rivals \subseteq same

(***************************************************************************)
(* A reader of the text numbers the unnamed blocks and values of each      *)
(* function as it meets them, from zero: every number printed at a         *)
(* definition is the one the reader has arrived at.                        *)
(***************************************************************************)
NumbersInOrder ==
  \A f \in DOMAIN mod.funcs :
    LET own  == SelectSeq(text, LAMBDA item : item.def /\ item.space = "local" /\ item.of[1] = f)
    IN  \A n \in DOMAIN own : own[n].slot \in {n - 1, Unprinted}
=============================================================================
