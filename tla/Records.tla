------------------------------ MODULE Records ------------------------------
(***************************************************************************)
(* The records of a module and the tables of the reader: functions,        *)
(* constants, metadata, names and the calls of the bodies, which refer to  *)
(* all of these by number.  A document is the sequence of the records with *)
(* the marks that enter and end their blocks, in the order in which they   *)
(* are read (LazyReader has that order); an error or a case the source     *)
(* does not implement ends the load.  A value or a piece of metadata is    *)
(* named by what wrote it: <<p, 0>> for the record at p, <<p, i>> for      *)
(* argument i of the body entered at p.                                    *)
(***************************************************************************)
EXTENDS Integers, Sequences, FiniteSets
LOCAL INSTANCE SequencesExt

CONSTANTS
  Documents,  \* the sequences of records read
  Types,      \* the type table
  Attribs,    \* the number of attribute lists read
  WORD,       \* 2^32, scaled: a number is cut to this
  LONG,       \* 2^64, scaled: what a field of a record holds
  Null        \* a null pointer

VARIABLES
  doc, at,     \* what is read, and where
  scope,       \* the blocks that are open
  relative,    \* use_relative_ids_
  values,      \* value_list_
  mds,         \* md_value_list_
  context,     \* the kinds of metadata of the context, in the order of their ids
  kinds,       \* md_kind_map_
  named,       \* the named metadata of the module
  functions,   \* the functions of the module
  bodies,      \* the functions whose bodies are still to come
  constants,   \* the type and the number of the next constant
  body,        \* where ParseFunctionBody is
  names,       \* who has been given a name
  failed       \* whether the load has been given up

vars == <<doc, at, scope, relative, values, mds, context, kinds, named, functions, bodies,
          constants, body, names, failed>>

code == doc[at].code
rec == doc[at].rec
Field(n) == rec[n] % WORD       \* a field cast to uint32_t
Bit(word, n) == (word \div 2^n) % 2
In(block) == IF scope = <<>> THEN block = "Module" ELSE scope[Len(scope)] = block
Own == <<at, 0>>

Exists(s, Test(_)) == \E i \in DOMAIN s : Test(s[i])
TypeByID(id) == IF id < Len(Types) THEN Types[id + 1] ELSE Null
Attributes(i) == IF i \in 1..Attribs THEN i ELSE 0
PointerTo(type) == [kind |-> "ptr", to |-> type]
Int32Type == [kind |-> "int", range |-> WORD]

(* Linkage, visibility and storage class, and what old files said of them. *)
DecodedLinkage(n) ==
  CASE n = 2 -> "Appending" [] n = 3 -> "Internal" [] n = 7 -> "ExternalWeak" [] n = 8 -> "Common"
    [] n \in {9, 13, 14} -> "Private" [] n = 12 -> "AvailableExternally"
    [] n \in {1, 16} -> "WeakAny" [] n \in {10, 17} -> "WeakODR"
    [] n \in {4, 18} -> "LinkOnceAny" [] n \in {11, 19} -> "LinkOnceODR" [] OTHER -> "External"
HasImplicitComdat(n) == n \in {1, 4, 10, 11}
DecodedVisibility(n) == CASE n = 1 -> "Hidden" [] n = 2 -> "Protected" [] OTHER -> "Default"
DecodedDLLStorageClass(n) == CASE n = 1 -> "Import" [] n = 2 -> "Export" [] OTHER -> "Default"
UpgradeDLLImportExportLinkage(n) == CASE n = 5 -> "Import" [] n = 6 -> "Export" [] OTHER -> "Default"
HasLocalLinkage(linkage) == linkage \in {"Internal", "Private"}

(* The packed words of a function: five bits of alignment and the bits of  *)
(* the function above them; the lazy arguments, two more bits and the      *)
(* calling convention, in sixteen.                                         *)
ALIGNMENT_BITS == 5
MAX_ALIGNMENT_EXPONENT == 29
AlignmentOf(data) == 2^(data % 2^ALIGNMENT_BITS) \div 2
Log2_32(n) == IF n = 0 THEN -1 ELSE CHOOSE e \in 0..MAX_ALIGNMENT_EXPONENT : 2^e <= n /\ n < 2^(e + 1)
SetAlignment(data, align) == data - (data % 2^ALIGNMENT_BITS) + Log2_32(align) + 1
SetObjectData(data, bits) == (data % 2^ALIGNMENT_BITS) + bits * 2^ALIGNMENT_BITS
ObjectData(data) == data \div 2^ALIGNMENT_BITS
SetMaterializable(data, m) ==
  SetObjectData(data, ObjectData(data) - Bit(ObjectData(data), 0) + IF m THEN 1 ELSE 0)
SetFunctionCallingConv(sub, cc) == ((sub % 8) + (cc % 2^16) * 8) % 2^16
FunctionCallingConv(sub) == sub \div 8

(* The same for a call: how it is a tail call, and its convention.         *)
SetCallCallingConv(sub, cc) == ((sub % 4) + (cc % 2^16) * 4) % 2^16
SetTailCallKind(sub, kind) == sub - (sub % 4) + kind

(* Values by their numbers.                                                *)
ValueFwdRef(id, type) == IF id < Len(values) THEN values[id + 1] ELSE Null
MetadataFwdRef(id) == IF id < Len(mds) THEN mds[id + 1] ELSE Null

FnValueByID(id, type) ==
  IF type = Null \/ type.kind # "metadata" THEN ValueFwdRef(id, type)
  ELSE IF MetadataFwdRef(id) = Null THEN Null
       ELSE [id |-> MetadataFwdRef(id).id, what |-> "metadata", type |-> type, no |-> 0]

ValueNo(n) == IF relative THEN (body.next - n) % WORD ELSE n
GetBasicBlock(id) ==
  IF id < body.blocks THEN [id |-> <<body.entered, id>>, what |-> "block", type |-> [kind |-> "label"], no |-> id]
  ELSE Null

(* A value whose type is written only when the value is not known yet, and *)
(* the field after it.                                                     *)
ValueTypePair(slot) ==
  IF slot > Len(rec) THEN [value |-> Null, next |-> slot]
  ELSE LET no == ValueNo(Field(slot)) IN
       IF no < body.next THEN [value |-> FnValueByID(no, Null), next |-> slot + 1]
       ELSE IF slot = Len(rec) THEN [value |-> Null, next |-> slot + 1]
       ELSE [value |-> FnValueByID(no, TypeByID(Field(slot + 1))), next |-> slot + 2]

GetValue(slot, type) == FnValueByID(ValueNo(Field(slot)), type)

(* AssignValue: the next number is always the size of the list.            *)
AssignValue(v) == values' = Append(values, v)
AssignMetadata(what, ops) == mds' = Append(mds, [id |-> Own, what |-> what, ops |-> ops])

(* The records of the module.                                              *)
FunctionTypeOf(id) ==
  LET type == TypeByID(id) IN
  IF type = Null THEN Null
  ELSE LET pointee == IF type.kind = "ptr" THEN type.to ELSE type IN
       IF pointee.kind = "fn" THEN pointee ELSE Null

FunctionValid ==
  /\ Len(rec) >= 8 /\ FunctionTypeOf(Field(1)) # Null
  /\ FunctionCallingConv(SetFunctionCallingConv(0, rec[2])) = 0
  /\ rec[6] <= MAX_ALIGNMENT_EXPONENT + 1
  /\ rec[7] = 0                                   \* no section is ever known
  /\ Len(rec) > 8 => rec[9] = 0
  /\ IF Len(rec) > 12 THEN Field(13) = 0 ELSE ~HasImplicitComdat(Field(4))

ReadFunction ==
  LET type == FunctionTypeOf(Field(1))
      linkage == DecodedLinkage(Field(4))
      alignment == 2^rec[6] \div 2
      aligned == SetAlignment(SetObjectData(0, 0), alignment)
      f == [id |-> Own, type |-> type, linkage |-> linkage, attributes |-> Attributes(Field(5)),
            sub |-> SetFunctionCallingConv(IF type.params = <<>> THEN 0 ELSE 1, rec[2]),
            data |-> IF rec[3] = 0 THEN SetMaterializable(aligned, TRUE) ELSE aligned,
            visibility |-> IF HasLocalLinkage(linkage) THEN "Default" ELSE DecodedVisibility(Field(8)),
            unnamed |-> Len(rec) > 9 /\ rec[10] # 0,
            storage |-> IF Len(rec) > 11 THEN DecodedDLLStorageClass(Field(12))
                        ELSE UpgradeDLLImportExportLinkage(Field(4)),
            calls |-> <<>>]
  IN /\ In("Module") /\ code = "Function" /\ FunctionValid
     /\ functions' = Append(functions, f)
     /\ AssignValue([id |-> Own, what |-> "function", type |-> PointerTo(type), no |-> 0])
     /\ bodies' = IF rec[3] = 0 THEN Append(bodies, Len(functions) + 1) ELSE bodies
     /\ UNCHANGED <<scope, relative, mds, context, kinds, named, constants, body, names>>

VersionValid == Len(rec) >= 1 /\ Field(1) \in {0, 1}

ReadVersion ==
  /\ In("Module") /\ code = "Version" /\ VersionValid
  /\ relative' = (Field(1) = 1)
  /\ UNCHANGED <<scope, values, mds, context, kinds, named, functions, bodies, constants, body, names>>

(* Constants: their type is written once for those that follow.            *)
DecodeSignRotatedValue(v) ==
  IF v % 2 = 0 THEN v \div 2 ELSE IF v # 1 THEN LONG - v \div 2 ELSE LONG \div 2

SetTypeValid == rec # <<>> /\ rec[1] < Len(Types)

ReadSetType ==
  /\ In("Constants") /\ code = "SetType" /\ SetTypeValid
  /\ constants' = [constants EXCEPT !.type = Types[rec[1] + 1]]
  /\ UNCHANGED <<scope, relative, values, mds, context, kinds, named, functions, bodies, body, names>>

ConstantValid ==
  CASE code = "Integer" -> constants.type.kind = "int" /\ rec # <<>>
    [] code = "Null" -> constants.type.kind = "int"
    [] OTHER -> code = "Undef"

ReadConstant ==
  /\ In("Constants") /\ code \in {"Integer", "Null", "Undef"} /\ ConstantValid
  /\ LET number == IF code = "Integer" THEN DecodeSignRotatedValue(rec[1]) % constants.type.range ELSE 0 IN
     AssignValue([id |-> Own, what |-> code, type |-> constants.type, no |-> number])
  /\ constants' = [constants EXCEPT !.next = @ + 1]
  /\ UNCHANGED <<scope, relative, mds, context, kinds, named, functions, bodies, body, names>>

(* Names of values and of blocks.                                          *)
EntryValid ==
  /\ rec # <<>>
  /\ IF code = "BbEntry" THEN GetBasicBlock(Field(1)) # Null ELSE Field(1) < Len(values)

ReadEntry ==
  /\ In("ValueSymTab") /\ code \in {"Entry", "BbEntry"} /\ EntryValid
  /\ LET who == IF code = "BbEntry" THEN GetBasicBlock(Field(1)) ELSE values[Field(1) + 1] IN
     names' = names \cup {<<who.id, rec[2]>>}
  /\ UNCHANGED <<scope, relative, values, mds, context, kinds, named, functions, bodies, constants, body>>

(* Metadata.  The operands of a node are one more than their numbers, zero *)
(* being a null operand.                                                   *)
OperandNode(n) == IF n = 0 THEN Null ELSE MetadataFwdRef((n - 1) % WORD)

MetadataValid ==
  CASE code = "NamedNode" -> ~Exists(rec[2], LAMBDA n :
                               MetadataFwdRef(n % WORD) = Null \/ MetadataFwdRef(n % WORD).what \notin {"Node", "DistinctNode"})
    [] code = "Value" -> /\ Len(rec) = 2 /\ TypeByID(Field(1)).kind \notin {"metadata", "void"}
                         /\ ValueFwdRef(Field(2), TypeByID(Field(1))) # Null
    [] code = "Kind" -> Len(rec) >= 2 /\ Field(1) \notin DOMAIN kinds
    [] code \in {"Node", "DistinctNode"} -> ~Exists(rec, LAMBDA n : n # 0 /\ OperandNode(n) = Null)
    [] OTHER -> TRUE

ReadNamedNode ==
  /\ In("Metadata") /\ code = "NamedNode" /\ MetadataValid
  /\ LET before == IF rec[1] \in DOMAIN named THEN named[rec[1]] ELSE <<>>
         added == [i \in DOMAIN rec[2] |-> MetadataFwdRef(rec[2][i] % WORD).id]
     IN named' = [n \in DOMAIN named \cup {rec[1]} |-> IF n = rec[1] THEN before \o added ELSE named[n]]
  /\ UNCHANGED <<scope, relative, values, mds, context, kinds, functions, bodies, constants, body, names>>

ReadMetadata ==
  /\ In("Metadata") /\ code \in {"Value", "Node", "DistinctNode", "String"} /\ MetadataValid
  /\ CASE code = "Value" -> AssignMetadata(code, <<ValueFwdRef(Field(2), TypeByID(Field(1))).id>>)
       [] code = "String" -> AssignMetadata(code, <<>>)
       [] OTHER -> AssignMetadata(code, [i \in DOMAIN rec |-> IF rec[i] = 0 THEN Null ELSE OperandNode(rec[i]).id])
  /\ UNCHANGED <<scope, relative, values, context, kinds, named, functions, bodies, constants, body, names>>

(* The kinds of metadata a context starts with: their numbers, and the     *)
(* names in the order in which the constructor asks for their ids.         *)
MDKinds ==
  [ MD_Dbg |-> 0, MD_Tbaa |-> 1, MD_Prof |-> 2, MD_FpMath |-> 3, MD_Range |-> 4, MD_TbaaStruct |-> 5,
    MD_InvariantLoad |-> 6, MD_AliasScope |-> 7, MD_NoAlias |-> 8, MD_NonTemporal |-> 9,
    MD_MemParallelLoopAccess |-> 10, MD_NonNull |-> 11, MD_Dereferenceable |-> 12,
    MD_DereferenceableOrNull |-> 13 ]

Pinned ==
  << <<"MD_Dbg", "dbg">>, <<"MD_Tbaa", "tbaa">>, <<"MD_Prof", "prof">>, <<"MD_FpMath", "fpmath">>,
     <<"MD_Range", "range">>, <<"MD_TbaaStruct", "tbaa.struct">>,
     <<"MD_InvariantLoad", "invariant.load">>, <<"MD_AliasScope", "alias.scope">>,
     <<"MD_NoAlias", "noalias">>, <<"MD_NonTemporal", "nontemporal">>,
     <<"MD_MemParallelLoopAccess", "llvm.mem.parallel_loop_access">>, <<"MD_NonNull", "nonnull">>,
     <<"MD_Dereferenceable", "dereferenceable">>,
     <<"MD_DereferenceableOrNull", "dereferenceable_or_null">> >>

MdKindId(known, name) ==
  IF \E i \in DOMAIN known : known[i] = name
  THEN (CHOOSE i \in DOMAIN known : known[i] = name) - 1 ELSE Len(known)

Registered(known, name) == IF MdKindId(known, name) = Len(known) THEN Append(known, name) ELSE known
LLVMContext == FoldLeft(LAMBDA known, kind : Registered(known, kind[2]), <<>>, Pinned)

ReadKind ==
  /\ In("Metadata") /\ code = "Kind" /\ MetadataValid
  /\ kinds' = [k \in DOMAIN kinds \cup {Field(1)} |-> IF k = Field(1) THEN MdKindId(context, rec[2]) ELSE kinds[k]]
  /\ context' = Registered(context, rec[2])
  /\ UNCHANGED <<scope, relative, values, mds, named, functions, bodies, constants, body, names>>

(* Bodies.                                                                 *)
DeclareBlocksValid == rec # <<>> /\ rec[1] # 0

DeclareBlocks ==
  /\ In("Function") /\ code = "DeclareBlocks" /\ DeclareBlocksValid
  /\ body' = [body EXCEPT !.blocks = rec[1], !.current = 1]
  /\ UNCHANGED <<scope, relative, values, mds, context, kinds, named, functions, bodies, constants, names>>

Callee == ValueTypePair(4)
ExplicitType == LET type == TypeByID(Field(3)) IN IF type.kind = "fn" THEN type ELSE Null
CallType == IF ExplicitType # Null THEN ExplicitType ELSE Callee.value.type.to

(* The fixed arguments, then pairs for the others.                         *)
Arguments ==
  LET type == CallType
      first == Callee.next
      rest[slot \in Nat] ==
        IF slot > Len(rec) THEN <<>>
        ELSE LET pair == ValueTypePair(slot) IN <<pair.value>> \o rest[pair.next]
  IN [i \in DOMAIN type.params |->
        IF type.params[i].kind = "label" THEN GetBasicBlock(Field(first + i - 1))
        ELSE GetValue(first + i - 1, type.params[i])]
     \o (IF type.vararg THEN rest[first + Len(type.params)] ELSE <<>>)

CallValid ==
  /\ Len(rec) >= 3
  /\ Bit(Field(2), 15) = 1 => ExplicitType # Null
  /\ Callee.value # Null
  /\ Callee.value.type.kind = "ptr"
  /\ IF ExplicitType = Null THEN CallType.kind = "fn" ELSE Callee.value.type.to = CallType
  /\ Len(rec) + 1 >= Len(CallType.params) + Callee.next
  /\ ~CallType.vararg => Len(rec) + 1 = Len(CallType.params) + Callee.next
  /\ ~Exists(Arguments, LAMBDA v : v = Null)
  /\ body.current # 0

ReadCall ==
  LET cc == Field(2)
      plain == cc - Bit(cc, 14) * 2^14
      tail == IF Bit(cc, 14) = 1 THEN 2 ELSE Bit(cc, 0)
      call == [at |-> at, block |-> body.current, type |-> CallType, callee |-> Callee.value, args |-> Arguments,
               attributes |-> Attributes(Field(1)),
               sub |-> SetTailCallKind(SetCallCallingConv(0, plain \div 2), tail)]
      isVoid == CallType.result.kind = "void"
  IN /\ In("Function") /\ code = "Call" /\ CallValid
     /\ functions' = [functions EXCEPT ![body.function].calls = Append(@, call)]
     /\ IF isVoid THEN UNCHANGED <<values, body>>
        ELSE /\ AssignValue([id |-> Own, what |-> "call", type |-> CallType.result, no |-> 0])
             /\ body' = [body EXCEPT !.next = @ + 1]
     /\ UNCHANGED <<scope, relative, mds, context, kinds, named, bodies, constants, names>>

RetValid == rec = <<>> /\ body.current # 0

(* A terminator moves on to the next block, if there is one.               *)
ReadRet ==
  /\ In("Function") /\ code = "Ret" /\ RetValid
  /\ body' = [body EXCEPT !.current = IF @ < body.blocks THEN @ + 1 ELSE 0]
  /\ UNCHANGED <<scope, relative, values, mds, context, kinds, named, functions, bodies, constants, names>>

(* Blocks: those of a module, and those a body may hold.                   *)
NoBody == [function |-> 0, entered |-> 0, blocks |-> 0, current |-> 0, next |-> 0, values |-> 0, mds |-> 0]

EnterBlock ==
  /\ code = "Enter" /\ rec # "Function"
  /\ scope' = Append(scope, rec)
  /\ constants' = IF rec = "Constants" THEN [type |-> Int32Type, next |-> Len(values)] ELSE constants
  /\ UNCHANGED <<relative, values, mds, context, kinds, named, functions, bodies, body, names>>

EnterFunction ==
  /\ code = "Enter" /\ rec = "Function" /\ bodies # <<>>
  /\ LET params == functions[bodies[1]].type.params
         args == [i \in DOMAIN params |-> [id |-> <<at, i>>, what |-> "argument", type |-> params[i], no |-> i]]
     IN /\ values' = values \o args
        /\ body' = [function |-> bodies[1], entered |-> at, blocks |-> 0, current |-> 0,
                    next |-> Len(values) + Len(args), values |-> Len(values), mds |-> Len(mds)]
  /\ bodies' = Tail(bodies)
  /\ scope' = Append(scope, rec)
  /\ UNCHANGED <<relative, mds, context, kinds, named, functions, constants, names>>

(* The list is as long as the numbers given: an error otherwise.           *)
EndBlockValid == In("Constants") => constants.next = Len(values)

EndBlock ==
  /\ code = "End" /\ ~In("Function") /\ EndBlockValid
  /\ scope' = SubSeq(scope, 1, Len(scope) - 1)
  /\ body' = IF In("Constants") /\ Len(scope) > 1 THEN [body EXCEPT !.next = Len(values)] ELSE body
  /\ UNCHANGED <<relative, values, mds, context, kinds, named, functions, bodies, constants, names>>

(* A last value that is an argument is where LLVM looks for unresolved     *)
(* references, and is not implemented here.                                *)
EndFunctionValid == values # <<>> /\ values[Len(values)].what # "argument"

TruncateNothing(list, size) == list      \* mutant: the tables of a body are left to the next
Truncate(list, size) == SubSeq(list, 1, size)

EndFunction ==
  /\ code = "End" /\ In("Function") /\ EndFunctionValid
  /\ values' = Truncate(values, body.values)
  /\ mds' = Truncate(mds, body.mds)
  /\ functions' = [functions EXCEPT ![body.function].data = SetMaterializable(@, FALSE)]
  /\ body' = NoBody
  /\ scope' = SubSeq(scope, 1, Len(scope) - 1)
  /\ UNCHANGED <<relative, context, kinds, named, bodies, constants, names>>

(* Whether the record at hand is one the reader takes.                     *)
Valid ==
  CASE code = "Version" -> VersionValid
    [] code = "Function" -> FunctionValid
    [] code = "SetType" -> SetTypeValid
    [] code \in {"Integer", "Null", "Undef", "Float"} -> In("Constants") => ConstantValid
    [] code \in {"Entry", "BbEntry"} -> EntryValid
    [] code \in {"NamedNode", "Value", "Node", "DistinctNode", "String", "Kind"} -> MetadataValid
    [] code = "DeclareBlocks" -> DeclareBlocksValid
    [] code = "Call" -> CallValid
    [] code = "Ret" -> RetValid
    [] code = "Enter" -> rec = "Function" => bodies # <<>>
    [] code = "End" -> IF In("Function") THEN EndFunctionValid ELSE EndBlockValid

Init ==
  /\ doc \in Documents /\ at = 1 /\ scope = <<>> /\ relative = FALSE
  /\ values = <<>> /\ mds = <<>> /\ context = LLVMContext /\ kinds = <<>> /\ named = <<>>
  /\ functions = <<>> /\ bodies = <<>> /\ names = {} /\ failed = FALSE
  /\ constants = [type |-> Int32Type, next |-> 0] /\ body = NoBody

ReadRecord ==
  /\ at <= Len(doc) /\ ~failed
  /\ \/ ReadFunction \/ ReadVersion \/ ReadSetType \/ ReadConstant \/ ReadEntry \/ ReadNamedNode
     \/ ReadMetadata \/ ReadKind \/ DeclareBlocks \/ ReadCall \/ ReadRet
     \/ EnterBlock \/ EnterFunction \/ EndBlock \/ EndFunction
  /\ at' = at + 1 /\ UNCHANGED <<doc, failed>>

Fail ==
  /\ at <= Len(doc) /\ ~failed /\ ~Valid
  /\ failed' = TRUE
  /\ UNCHANGED <<doc, at, scope, relative, values, mds, context, kinds, named, functions, bodies,
                 constants, body, names>>

Next == ReadRecord \/ Fail
Spec == Init /\ [][Next]_vars

(* What the document says, whatever the reader has done: the body a place  *)
(* is in, and the values and the metadata known there by their numbers.    *)
BodyAt(p) ==
  LET entered == {q \in 1..p - 1 : doc[q].code = "Enter" /\ doc[q].rec = "Function"}
      last == CHOOSE m \in entered : \A n \in entered : n <= m
      Marks(mark) == Cardinality({q \in last..p - 1 : doc[q].code = mark})
  IN IF entered # {} /\ Marks("Enter") > Marks("End") THEN last ELSE 0

CallsRead == UNION {{f.calls[i] : i \in DOMAIN f.calls} : f \in {functions[k] : k \in DOMAIN functions}}

(* The n-th body belongs to the n-th function written with one.            *)
Enters == SelectSeq([q \in DOMAIN doc |-> q], LAMBDA q : doc[q].code = "Enter" /\ doc[q].rec = "Function")
Defined == SelectSeq(functions, LAMBDA f : doc[f.id[1]].rec[3] = 0)
FunctionEntered(entered) == Defined[CHOOSE n \in DOMAIN Enters : Enters[n] = entered]

ValuesOf(q, p) ==
  CASE q = BodyAt(p) -> [i \in DOMAIN FunctionEntered(q).type.params |-> <<q, i>>]
    [] BodyAt(q) \in {0, BodyAt(p)} /\ doc[q].code \in {"Function", "Integer", "Null", "Undef"} -> <<<<q, 0>>>>
    [] BodyAt(q) = BodyAt(p) /\ doc[q].code = "Call" ->
         IF (CHOOSE c \in CallsRead : c.at = q).type.result.kind = "void" THEN <<>> ELSE <<<<q, 0>>>>
    [] OTHER -> <<>>

MetadataOf(q, p) ==
  IF BodyAt(q) \in {0, BodyAt(p)} /\ doc[q].code \in {"Value", "Node", "DistinctNode", "String"}
  THEN <<<<q, 0>>>> ELSE <<>>

ValuesAt(p) == FlattenSeq([q \in 1..p - 1 |-> ValuesOf(q, p)])
MetadataAt(p) == FlattenSeq([q \in 1..p - 1 |-> MetadataOf(q, p)])
Ids(list) == [i \in DOMAIN list |-> list[i].id]

TablesAsWritten == Ids(values) = ValuesAt(at) /\ Ids(mds) = MetadataAt(at)

CallAsWritten(c) ==
  LET r == doc[c.at].rec
      known == ValuesAt(c.at)
      params == c.type.params
      number(n) == IF relative THEN Len(known) - n ELSE n
      means(n, i) ==
        CASE i \in DOMAIN params /\ params[i].kind = "label" -> <<BodyAt(c.at), n>>
          [] i \in DOMAIN params /\ params[i].kind = "metadata" -> MetadataAt(c.at)[number(n) + 1]
          [] OTHER -> known[number(n) + 1]
  IN /\ c.callee.id = known[number(r[4]) + 1]
     /\ \A i \in DOMAIN c.args : c.args[i].id = means(r[4 + i], i)
     /\ c.sub \div 4 = (r[2] \div 2) % 2^13
     /\ c.sub % 4 = CASE Bit(r[2], 14) = 1 -> 2 [] OTHER -> r[2] % 2

FunctionAsWritten(k) ==
  LET f == functions[k]
      r == doc[f.id[1]].rec
      waits == body.function = k \/ \E i \in DOMAIN bodies : bodies[i] = k
  IN /\ AlignmentOf(f.data) = 2^r[6] \div 2
     /\ ObjectData(f.data) = IF waits THEN 1 ELSE 0
     /\ f.sub = IF f.type.params = <<>> THEN 0 ELSE 1
     /\ HasLocalLinkage(f.linkage) => f.visibility = "Default"

(* A writer turns the sign of a number into its lowest bit.                *)
SignRotated(n) == IF n >= 0 THEN 2 * n ELSE IF n = -(LONG \div 2) THEN 1 ELSE -2 * n + 1

IntegerAsWritten(v) ==
  LET written == doc[v.id[1]].rec[1] IN
  \A n \in {written \div 2, -(written \div 2), -(LONG \div 2)} :
    SignRotated(n) = written => v.no = n % v.type.range

(* Whatever the order of the records, of the blocks and of the bodies: at  *)
(* every place the tables hold what the module wrote for their numbers -   *)
(* nothing of an earlier body - (BitcodeReader.cpp:2285); every call has   *)
(* the callee, the arguments and the convention it was written with        *)
(* (BitcodeReader.cpp:2128); every function the alignment, and waits for   *)
(* its body as long as it has not been read (GlobalObject.cpp:56);         *)
(* integers have their values (BitcodeReader.cpp:741), and the kinds of    *)
(* metadata their names (BitcodeReader.cpp:2540), those known beforehand   *)
(* under their own numbers (LLVMContext.cpp:49).                           *)
ReadAsWritten ==
  /\ ~failed => TablesAsWritten
  /\ \A c \in CallsRead : CallAsWritten(c)
  /\ \A k \in DOMAIN functions : FunctionAsWritten(k)
  /\ \A i \in DOMAIN values : values[i].what = "Integer" => IntegerAsWritten(values[i])
  /\ \A k \in DOMAIN kinds : \E q \in 1..at - 1 :
       doc[q].code = "Kind" /\ doc[q].rec[1] = k /\ doc[q].rec[2] = context[kinds[k] + 1]
  /\ \A i, j \in DOMAIN context : context[i] = context[j] => i = j
  /\ \A i \in DOMAIN Pinned : context[MDKinds[Pinned[i][1]] + 1] = Pinned[i][2]

(* Instructions.cpp:161 says of a call whose argument does not have the    *)
(* type of its parameter: "Calling a function with a bad signature!".      *)
(* ValueFwdRef is given the type, and returns the value all the same.      *)
CallsTyped ==
  \A c \in CallsRead : \A i \in DOMAIN c.type.params : c.args[i].type = c.type.params[i]
=============================================================================
