---------------------------------- MODULE Types ----------------------------------
(***************************************************************************)
(* Types (Type.cpp, DerivedType.cpp), each made once per context, and the  *)
(* type table of a module that they are read from (BitcodeReader.cpp).     *)
(* Types are compared by address everywhere: the same type read twice must *)
(* be one object, and different types never are.                           *)
(*                                                                         *)
(* Structs, arrays and vectors are not implemented, nor are integers of    *)
(* 128 bits and the extended floating point types.                         *)
(***************************************************************************)
EXTENDS Integers, Sequences, FiniteSets
LOCAL INSTANCE SequencesExt

CONSTANTS
  TypeRecords,  \* records of a type table: [code, ops]
  NumEntry,     \* the count of types the table begins with
  MaxRecords,   \* bound: records read
  Null

VARIABLES
  document,  \* the records read so far
  context,   \* the types of the context
  typeList,  \* type_list_
  status     \* "reading", "end", or how the reader has given up

vars == <<document, context, typeList, status>>

MinIntBits == 1
MaxIntBits == 2^23 - 1

Type(tid, data, contained) == [tid |-> tid, data |-> data, contained |-> contained]
Simple(tid) == Type(tid, 0, <<>>)

(* The types a context begins with.                                        *)
BuiltIn ==
  << Simple("void"), Simple("label"), Simple("half"), Simple("float"), Simple("double"),
     Simple("metadata"), Type("integer", 1, <<>>), Type("integer", 8, <<>>), Type("integer", 16, <<>>),
     Type("integer", 32, <<>>), Type("integer", 64, <<>>) >>

(* A type is its place in the context's table; pointers, functions and     *)
(* integers are looked up by what they are made from.                      *)
Get(ctx, type) ==
  IF Contains(ctx, type) THEN [ctx |-> ctx, ty |-> SelectInSeq(ctx, LAMBDA t : t = type)]
  ELSE [ctx |-> Append(ctx, type), ty |-> Len(ctx) + 1]

GetInteger(ctx, bits) == Get(ctx, Type("integer", bits, <<>>))
GetFunction(ctx, ret, params, var) == Get(ctx, Type("function", var, <<ret>> \o params))

(* Mutated: the table of the pointers without an address space is asked.   *)
GetPointerAnyway(ctx, elem, space) ==
  LET near == SelectInSeq(ctx, LAMBDA t : t.tid = "pointer" /\ t.contained = <<elem>>)
  IN  IF near # 0 THEN [ctx |-> ctx, ty |-> near] ELSE Get(ctx, Type("pointer", space, <<elem>>))

GetPointer(ctx, elem, space) == Get(ctx, Type("pointer", space, <<elem>>))

IsValidPointerElement(t) == t.tid \notin {"void", "label", "metadata"}
IsFirstClass(t) == t.tid \notin {"function", "void"}
IsFloatingPoint(t) == t.tid \in {"half", "float", "double"}

IsSized(t) == t.tid \in {"integer", "pointer"} \/ IsFloatingPoint(t)

PrimitiveSizeInBits(t) ==
  CASE t.tid = "half" -> 16 [] t.tid = "float" -> 32 [] t.tid = "double" -> 64
    [] t.tid = "integer" -> t.data [] OTHER -> 0

-----------------------------------------------------------------------------
(* TypeByID: nothing beyond the table; a type not read yet would be a      *)
(* struct, which is not implemented.                                       *)
TypeByID(id) == IF id + 1 \notin DOMAIN typeList THEN Null ELSE typeList[id + 1]

Beyond(id) == id + 1 > NumEntry
NotRead(id) == ~Beyond(id) /\ TypeByID(id) = Null
TypeOf(id) == context[TypeByID(id)]

Init ==
  /\ document = <<>>
  /\ context = BuiltIn
  /\ typeList = [n \in 1 .. NumEntry |-> Null]
  /\ status = "reading"

Read(g) ==
  IF Len(document') > NumEntry THEN status' = "error" /\ UNCHANGED <<context, typeList>>
  ELSE /\ context' = g.ctx
       /\ typeList' = [typeList EXCEPT ![Len(document')] = g.ty]
       /\ UNCHANGED status

GiveUp(how) == status' = how /\ UNCHANGED <<context, typeList>>

ReadSimple ==
  \E r \in TypeRecords :
    /\ r.code \in {"void", "label", "half", "float", "double", "metadata"}
    /\ document' = Append(document, r)
    /\ Read(Get(context, Simple(r.code)))

ReadInteger ==
  \E r \in TypeRecords :
    /\ r.code = "integer"
    /\ document' = Append(document, r)
    /\ IF r.ops[1] \notin MinIntBits .. MaxIntBits THEN GiveUp("error")
       ELSE IF r.ops[1] = 128 THEN GiveUp("not implemented")
       ELSE Read(GetInteger(context, r.ops[1]))

(* [pointee] or [pointee, address space]                                   *)
ReadPointer ==
  \E r \in TypeRecords :
    /\ r.code = "pointer"
    /\ document' = Append(document, r)
    /\ IF NotRead(r.ops[1]) THEN GiveUp("not implemented")
       ELSE IF Beyond(r.ops[1]) \/ ~IsValidPointerElement(TypeOf(r.ops[1])) THEN GiveUp("error")
       ELSE Read(GetPointer(context, TypeByID(r.ops[1]), IF Len(r.ops) = 2 THEN r.ops[2] ELSE 0))

(* [vararg, result, parameters]: the parameters are looked at first.       *)
ReadFunction ==
  \E r \in TypeRecords :
    /\ r.code = "function"
    /\ document' = Append(document, r)
    /\ LET params == SubSeq(r.ops, 3, Len(r.ops))
           Bad(n) == Beyond(params[n]) \/ NotRead(params[n]) \/ ~IsFirstClass(TypeOf(params[n]))
           bad    == SelectInSeq([n \in DOMAIN params |-> Bad(n)], LAMBDA b : b)
       IN  IF bad # 0 /\ NotRead(params[bad]) THEN GiveUp("not implemented")
           ELSE IF bad # 0 /\ ~Beyond(params[bad]) THEN GiveUp("error")
           ELSE IF NotRead(r.ops[2]) THEN GiveUp("not implemented")
           ELSE IF bad # 0 \/ Beyond(r.ops[2]) THEN GiveUp("error")
           ELSE Read(GetFunction(context, TypeByID(r.ops[2]), [n \in DOMAIN params |-> TypeByID(params[n])],
                                 r.ops[1]))

(* Structs, arrays [count, element] and vectors: looked at, and then given *)
(* up on.  A named struct may have been referred to before.                *)
ReadAggregate ==
  \E r \in TypeRecords :
    /\ r.code \in {"struct", "named struct", "array", "vector"}
    /\ document' = Append(document, r)
    /\ LET first == SelectInSeq(Tail(r.ops), LAMBDA id : Beyond(id) \/ NotRead(id))
           wrong == \/ r.code = "named struct" /\ Len(document') > NumEntry
                    \/ r.code = "vector" /\ r.ops[1] = 0
                    \/ r.code # "named struct" /\ first # 0 /\ Beyond(Tail(r.ops)[first])
       IN  GiveUp(IF wrong THEN "error" ELSE "not implemented")

EndBlock ==
  /\ status' = IF Len(document) = NumEntry THEN "end" ELSE "error"
  /\ UNCHANGED <<document, context, typeList>>

Next ==
  /\ status = "reading"
  /\ \/ EndBlock
     \/ /\ Len(document) < MaxRecords
        /\ ReadSimple \/ ReadInteger \/ ReadPointer \/ ReadFunction \/ ReadAggregate

Spec == Init /\ [][Next]_vars

-----------------------------------------------------------------------------
(* What entry n was written as: its record, with the entries it refers to. *)
RECURSIVE Written(_)
Written(n) ==
  LET r == document[n]
      Part(id) == IF id + 1 < n THEN Written(id + 1) ELSE <<"forward", id>>
  IN  CASE r.code = "integer"  -> <<r.code, r.ops[1]>>
        [] r.code = "pointer"  -> <<r.code, Part(r.ops[1]), IF Len(r.ops) = 2 THEN r.ops[2] ELSE 0>>
        [] r.code = "function" -> <<r.code, r.ops[1], [k \in 1 .. Len(r.ops) - 1 |-> Part(r.ops[k + 1])]>>
        [] OTHER               -> <<r.code>>

(***************************************************************************)
(* Two entries of a table are one object exactly if they were written as   *)
(* the same type, however often and in whichever order its parts were      *)
(* read, and no entry is ever taken from one that is not read yet.  The    *)
(* context never has two objects for one type.                             *)
(***************************************************************************)
TypesCanonical ==
  /\ \A m, n \in DOMAIN typeList :
       typeList[m] # Null /\ typeList[n] # Null =>
         (typeList[m] = typeList[n] <=> Written(m) = Written(n))
  /\ \A m, n \in DOMAIN context : context[m] = context[n] => m = n
  /\ status = "end" => \A n \in DOMAIN typeList : typeList[n] # Null
=============================================================================
