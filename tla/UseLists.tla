-------------------------------- MODULE UseLists --------------------------------
(***************************************************************************)
(* Operands.  Every User owns an array of Use objects; a Use that refers   *)
(* to a value is a node of that value's use list (Use.cpp), so that        *)
(* Value::ReplaceAllUsesWith can redirect them all.  The values belong to  *)
(* a module: functions own blocks and arguments, blocks own instructions;  *)
(* constants belong to the context and outlive the module.                 *)
(*                                                                         *)
(* A replacement walks a list that each visit changes, and is modelled     *)
(* visit by visit.  The destructor of the module is a list of errands, the *)
(* operands it resets and the values it destroys in the order of the code. *)
(***************************************************************************)
EXTENDS IntrusiveList, Integers, SequencesExt

Uses   == Nodes
Values == Owners

CONSTANTS
  FunctionList,   \* function_list_ of the module
  BlocksOf,       \* basic_blocks_ of each function
  ArgsOf,         \* argument_list_ of each function
  InstsOf,        \* the instructions each block gets, in order
  OperandsOf,     \* operands_ of each user; a function's is its personality
  Constants,      \* values of the context
  TypeOf          \* the type of each value

Elems(s)   == {s[n] : n \in DOMAIN s}
Functions  == Elems(FunctionList)
InstsIn    == [f \in Functions |-> UNION {Elems(InstsOf[b]) : b \in Elems(BlocksOf[f])}]
LocalTo    == [f \in Functions |-> Elems(BlocksOf[f]) \cup Elems(ArgsOf[f]) \cup InstsIn[f]]
Blocks     == UNION {Elems(BlocksOf[f]) : f \in Functions}
Globals    == Functions \cup Constants
Insts      == UNION {InstsIn[f] : f \in Functions}

(* The lists of a module are lists, and what they hold is the module's.    *)
ASSUME ListAssumption ==
  /\ FunctionList \in Seq(Values)
  /\ \A f \in Functions : BlocksOf[f] \in Seq(Values) /\ ArgsOf[f] \in Seq(Values)
  /\ \A b \in Blocks : InstsOf[b] \in Seq(Values)
  /\ \A v \in Functions \cup Insts : OperandsOf[v] \in Seq(Uses)

ASSUME UseAssumption ==
  /\ Values = Globals \cup UNION {LocalTo[f] : f \in Functions}
  /\ Uses = UNION {Elems(OperandsOf[v]) : v \in Functions \cup Insts}
  /\ \A u, v \in Functions \cup Insts :
       u # v => Elems(OperandsOf[u]) \cap Elems(OperandsOf[v]) = {}

(* A block, an argument or an instruction has one parent, a function.      *)
ASSUME ParentAssumption ==
  /\ \A f \in Functions : LocalTo[f] \cap Globals = {}
  /\ \A f, g \in Functions : f # g => LocalTo[f] \cap LocalTo[g] = {}

UserOf == [u \in Uses |-> CHOOSE v \in Functions \cup Insts : u \in Elems(OperandsOf[v])]
Locals == [v \in Functions \cup Insts |->
            IF v \in Functions THEN {} ELSE LocalTo[CHOOSE f \in Functions : v \in InstsIn[f]]]

VARIABLES
  list,     \* val_, prev_ptr_ and next_ of the uses, use_list_ of the values
  alive,    \* the values constructed and not destroyed
  walk,     \* the replacement in progress, or Idle
  errands   \* Open, or what is left of ~LLVMModule

vars == <<list, alive, walk, errands>>

-----------------------------------------------------------------------------
(* The member functions of Use.                                            *)

(* prev_ptr_ and next_ of a use that refers to nothing are never read; they *)
(* are Null here, where the code leaves what they were.                    *)
Detach(L, u) == SetPrev(SetNext(SetVal(L, u, Null), u, Null), u, Null)

Put(L, u, v) == IF v = Null THEN Detach(L, u) ELSE Insert(SetVal(L, u, v), HeadOf(v), u)

RemoveFromList(L, u) == IF L.val[u] = Null THEN L ELSE Unlink(L, u)

(* Mutated: the use is linked on the new list while it is on the old one.  *)
SetStaysLinked(L, u, v) == Put(IF v = Null THEN RemoveFromList(L, u) ELSE L, u, v)

Set(L, u, v) == Put(RemoveFromList(L, u), u, v)

Swap(L, u, w) ==
  IF L.val[u] = L.val[w] THEN L
  ELSE LET old == L.val[u]
           new == L.val[w]
           R   == RemoveFromList(RemoveFromList(L, u), w)
       IN  Put(Put(R, u, new), w, old)

-----------------------------------------------------------------------------
(* What ~LLVMModule does, in order.                                        *)

Drop(u)    == [what |-> "drop", which |-> u]
Destroy(v) == [what |-> "destroy", which |-> v]

Drops(v)      == [k \in DOMAIN OperandsOf[v] |-> Drop(OperandsOf[v][k])]
Each(s, f(_)) == FlattenSeq([k \in DOMAIN s |-> f(s[k])])
Created(b)    == Each(InstsOf[b], LAMBDA i : IF i \in alive THEN <<i>> ELSE <<>>)

(* ~Instruction resets nothing, but its uses unlink themselves.            *)
DestroyInst(i) == Append(Drops(i), Destroy(i))

DropBlock(b)    == Each(Created(b), Drops)
DestroyBlock(b) == DropBlock(b) \o Each(Created(b), DestroyInst) \o <<Destroy(b)>>

DropFunction(f) ==
  Each(BlocksOf[f], DropBlock) \o Each(BlocksOf[f], DestroyBlock) \o Drops(f)

(* A function whose references were dropped before has no blocks left.     *)
DestroyFunction(f) ==
  Drops(f) \o [n \in DOMAIN ArgsOf[f] |-> Destroy(ArgsOf[f][n])] \o <<Destroy(f)>>

(* Mutated: each function is destroyed before the next one is dropped.     *)
DestroyInTurn ==
  Each(FunctionList, LAMBDA f : DropFunction(f) \o DestroyFunction(f))

DestroyModule == Each(FunctionList, DropFunction) \o Each(FunctionList, DestroyFunction)

-----------------------------------------------------------------------------
Open == <<[what |-> "open", which |-> Null]>>
Idle == [kind |-> "idle", from |-> Null, to |-> Null, block |-> Null, at |-> Null]

Init ==
  /\ list = [val  |-> [u \in Uses |-> Null], prev |-> [u \in Uses |-> Null],
             next |-> [u \in Uses |-> Null], head |-> [v \in Values |-> Null]]
  /\ alive = Values \ Insts
  /\ walk = Idle
  /\ errands = Open

InClient == walk = Idle /\ errands = Open

(* Instructions are appended to their block; their operands start null.    *)
CreateInst(b, k) ==
  /\ InClient
  /\ \A j \in 1 .. k : InstsOf[b][j] \in alive <=> j < k
  /\ alive' = alive \cup {InstsOf[b][k]}
  /\ UNCHANGED <<list, walk, errands>>

(* What an operand of a function's instructions may refer to; a            *)
(* personality function is a constant.                                     *)
MayRefer(u, v) ==
  /\ UserOf[u] \in alive
  /\ v = Null \/ (v \in alive /\ v \in Globals \cup Locals[UserOf[u]])

SetOperand(u, v) ==
  /\ InClient
  /\ MayRefer(u, v)
  /\ list' = Set(list, u, v)
  /\ UNCHANGED <<alive, walk, errands>>

SwapOperands(u, w) ==
  /\ InClient
  /\ MayRefer(u, list.val[w]) /\ MayRefer(w, list.val[u])
  /\ list' = Swap(list, u, w)
  /\ UNCHANGED <<alive, walk, errands>>

(* The callers' side of a replacement: another value of the same type that *)
(* is in scope wherever the old one is.                                    *)
MayReplace(v, w) ==
  /\ v \in alive /\ w \in alive /\ v # w
  /\ TypeOf[v] = TypeOf[w]
  /\ w \in Globals \/ \E f \in Functions : {v, w} \subseteq LocalTo[f]

-----------------------------------------------------------------------------
(* GetUser returns the address after the last operand, where the user is   *)
(* not: operands_ is an array of its own.  Asked what it is, that memory   *)
(* answers anything.                                                       *)
Answers == {"constant", "instruction of the block", "neither"}

ReplaceAllUsesWith(v, w) ==
  /\ InClient
  /\ MayReplace(v, w)
  /\ walk' = [kind |-> "all", from |-> v, to |-> w, block |-> Null, at |-> Null]
  /\ UNCHANGED <<list, alive, errands>>

(* HandleOperandChange of a constant is not implemented: it throws.        *)
ReplaceNext(answer) ==
  LET u == list.head[walk.from]
  IN  /\ walk.kind = "all" /\ u # Null
      /\ IF answer = "constant" THEN walk' = Idle /\ UNCHANGED list
         ELSE list' = Set(list, u, walk.to) /\ UNCHANGED walk
      /\ UNCHANGED <<alive, errands>>

(* For a block it ends in ReplaceSuccessorsPhiUsesWith, which throws.      *)
ReplaceDone ==
  /\ walk.kind = "all" /\ list.head[walk.from] = Null
  /\ walk' = Idle
  /\ UNCHANGED <<list, alive, errands>>

(* Mutated: the walk starts at the address of the list head.               *)
UseBeginAddress(L, v) == HeadOf(v)

UseBegin(L, v) == L.head[v]

ReplaceUsesOutsideBlock(v, w, b) ==
  /\ InClient
  /\ MayReplace(v, w)
  /\ b \in alive
  /\ walk' = [kind |-> "outside", from |-> v, to |-> w, block |-> b, at |-> UseBegin(list, v)]
  /\ UNCHANGED <<list, alive, errands>>

(* Mutated: the iterator is advanced after the use has moved.              *)
AdvanceLate(L, R, u) == R.next[u]

(* ++ iter before Set.                                                     *)
Advance(L, R, u) == L.next[u]

OutsideNext(answer) ==
  LET u == walk.at
      R == IF answer = "instruction of the block" THEN list ELSE Set(list, u, walk.to)
  IN  /\ walk.kind = "outside" /\ u # Null
      /\ list' = R
      /\ walk' = [walk EXCEPT !.at = Advance(list, R, u)]
      /\ UNCHANGED <<alive, errands>>

OutsideDone ==
  /\ walk.kind = "outside" /\ walk.at = Null
  /\ walk' = Idle
  /\ UNCHANGED <<list, alive, errands>>

-----------------------------------------------------------------------------
LetGoOfModule ==
  /\ InClient
  /\ errands' = DestroyModule
  /\ UNCHANGED <<list, alive, walk>>

DropUse(u) ==
  /\ errands # <<>> /\ Head(errands) = Drop(u)
  /\ list' = Set(list, u, Null)
  /\ errands' = Tail(errands)
  /\ UNCHANGED <<alive, walk>>

(* ~Value only asserts that the use list is empty.                         *)
DestroyValue(v) ==
  /\ errands # <<>> /\ Head(errands) = Destroy(v)
  /\ alive' = alive \ {v}
  /\ errands' = Tail(errands)
  /\ UNCHANGED <<list, walk>>

Client ==
  \/ \E b \in Blocks : \E k \in DOMAIN InstsOf[b] : CreateInst(b, k)
  \/ \E u \in Uses, v \in Values \cup {Null} : SetOperand(u, v)
  \/ \E u, w \in Uses : SwapOperands(u, w)
  \/ \E v, w \in Values : ReplaceAllUsesWith(v, w)
  \/ \E v, w \in Values, b \in Blocks : ReplaceUsesOutsideBlock(v, w, b)
  \/ LetGoOfModule

Visit ==
  \/ \E answer \in Answers : ReplaceNext(answer) \/ OutsideNext(answer)
  \/ ReplaceDone \/ OutsideDone

Teardown == \E u \in Uses : DropUse(u)
TeardownValue == \E v \in Values : DestroyValue(v)

Next == Client \/ Visit \/ Teardown \/ TeardownValue

Spec == Init /\ [][Next]_vars /\ WF_vars(Visit)

-----------------------------------------------------------------------------
Walks ==
  [kind : {"idle", "all", "outside"}, from : Values \cup {Null}, to : Values \cup {Null},
   block : Blocks \cup {Null}, at : Uses \cup {Null}]

Used == {u \in Uses : list.val[u] # Null}

(* The variables range over what the code can store in them.               *)
TypeOK ==
  /\ list \in Lists(Values \cup {Null})
  /\ alive \subseteq Values
  /\ walk \in Walks

(***************************************************************************)
(* Whatever is set, swapped, replaced or dropped, a value's use list holds *)
(* exactly the uses that refer to the value, paired both ways and in no    *)
(* ring (Use::Set, Use::Swap, Use::RemoveFromList).                        *)
(***************************************************************************)
ListIntegrity == Linked(list, Used) /\ Anchored(list, Used)

(***************************************************************************)
(* The iterator of ReplaceUsesOutsideBlock, kept while the use it was at   *)
(* moves to another list, stays on the list of the old value or is at its  *)
(* end: no use of the new value is visited.                                *)
(***************************************************************************)
WalkStaysOnList ==
  walk.kind = "outside" /\ walk.at # Null => list.val[walk.at] = walk.from

(***************************************************************************)
(* "Uses remain when a value is destroyed!": a use that is linked refers   *)
(* to a value that exists, and its own user exists, while the module is    *)
(* taken apart with calls and operands across functions and blocks.        *)
(***************************************************************************)
NoUseOfDestroyed ==
  \A u \in Used : list.val[u] \in alive /\ UserOf[u] \in alive

(***************************************************************************)
(* A replacement ends, whatever the memory after the operands answers.     *)
(***************************************************************************)
WalkEnds == walk # Idle ~> walk = Idle

(***************************************************************************)
(* "This routine leaves uses within BB" (ReplaceUsesOutsideBlock).         *)
(***************************************************************************)
LeavesUsesInBlock ==
  [][\A u \in Uses :
       /\ walk.kind = "outside" /\ walk.at = u
       /\ UserOf[u] \in Elems(InstsOf[walk.block])
       => list'.val[u] = list.val[u]]_vars
=============================================================================
