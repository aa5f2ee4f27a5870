----------------------------- MODULE LazyReader -----------------------------
(***************************************************************************)
(* Lazy loading of a module (BitcodeReader.cpp).  ParseModule reads the    *)
(* items of the module's block and stops behind the first function body;   *)
(* Materialize reads the body of one function, for which it may have to    *)
(* resume ParseModule, and MaterializeModule reads everything that is left.*)
(* The bits of an item are BlockReader's subject: here the cursor is the   *)
(* number of the next item, and a place to jump to is such a number.       *)
(* The queue of functions that block addresses refer to stays empty in     *)
(* this code (constants of that kind are not implemented) and is left out. *)
(***************************************************************************)
EXTENDS LazyDocument

CONSTANTS
  Documents,  \* the modules to load: [items, relative, written], relative for
              \* use_relative_ids_, written for what the bodies mean
  Absent,     \* the body of a function that is not materialised
  None        \* no body is being parsed

ASSUME DocumentAssumption ==
  \A d \in Documents :
    WellFormed(d.items) /\ d.relative \in BOOLEAN /\ d.written = Written(d.items)

(* None is none of the things it stands in for: a function, the functions  *)
(* left to visit, a value in its slot, the activation of ParseFunctionBody.*)
ASSUME NoneAssumption ==
  /\ \A d \in Documents : None \notin Functions(d.items) /\ None \notin Seq(Functions(d.items))
  /\ None \notin [item : Nat, nth : Nat, arg : BOOLEAN]
  /\ None \notin [item : Nat, at : Nat, values : Nat, mds : Nat, next_id : Nat, bbs : Nat, bb : Nat]

VARIABLES
  doc, lazy,      \* the document, and whether to put metadata off as well
  cursor,         \* [at, inside]: the next item; whether the module's scope is open
  next_unread,    \* next_unread_bit_, 0 if parsing was not suspended
  seen,           \* [symtab, body, md]: seen_value_sym_tab_, seen_first_func_body_, is_metadata_materialized_
  with_bodies,    \* func_with_bodies_
  deferred,       \* deferred_func_info_
  deferred_md,    \* deferred_metadata_info_
  values, mds,    \* value_list_, md_value_list_
  inits,          \* func_prefixes_ (func_prologues_ and func_personality_fns_ are alike)
  given,          \* the prefix data of the functions
  materializable, \* the functions whose IsMaterializable bit is set
  blocks,         \* the instructions of the functions
  body,           \* the activation of ParseFunctionBody
  phase, func,    \* the call in progress and the function it is about
  todo,           \* the functions MaterializeModule still has to visit
  attached,       \* the module's materializer_
  error

tables == <<next_unread, seen, with_bodies, deferred, deferred_md, values, mds, inits, given, materializable>>
calls  == <<phase, func, todo, attached>>
vars   == <<doc, lazy, cursor, tables, blocks, body, calls, error>>

-----------------------------------------------------------------------------
items == doc.items
Item  == items[cursor.at]

(* The call in progress is in ParseModule.                                 *)
Parsing == phase \in {"load", "search", "rest"}

(* Where ParseModule returns to.                                           *)
Returned == CASE phase = "load" -> "idle" [] phase = "search" -> "find" [] phase = "rest" -> "last"

JumpTo(place) == cursor' = [cursor EXCEPT !.at = place]

Step == cursor' = [cursor EXCEPT !.at = @ + 1]

Read(kind) == Parsing /\ ~error /\ body = None /\ cursor.inside /\ Item.kind = kind

(* ResolveGlobalAndAliasInits: what has its value now is given it, the rest*)
(* is kept, in the opposite order.                                         *)
Ready(vals, init) == init.value < Len(vals)

Resolved(vals, f) ==
  LET its == {i \in DOMAIN inits : inits[i].func = f /\ Ready(vals, inits[i])}
  IN  IF its = {} THEN given[f] ELSE vals[inits[CHOOSE i \in its : TRUE].value + 1]

(* Mutant: what has no value yet is forgotten.                             *)
ResolveOnce(vals) ==
  /\ inits' = << >>
  /\ given' = [f \in DOMAIN given |-> Resolved(vals, f)]

ResolveGlobalAndAliasInits(vals) ==
  /\ inits' = Reverse(FlattenSeq([k \in DOMAIN inits |-> IF Ready(vals, inits[k]) THEN << >> ELSE <<inits[k]>>]))
  /\ given' = [f \in DOMAIN given |-> Resolved(vals, f)]

-----------------------------------------------------------------------------
(* ParseModule, item by item.                                              *)
ParseFunctionRecord ==
  /\ Read("proto") /\ Step
  /\ values' = values \o ItemValues(items, cursor.at)
  /\ inits' = IF Item.init = 0 THEN inits
              ELSE Append(inits, [func |-> Item.func, value |-> Item.init - 1])
  /\ IF Item.body
     THEN /\ materializable' = materializable \cup {Item.func}
          /\ with_bodies' = Append(with_bodies, Item.func)
          /\ deferred' = [deferred EXCEPT ![Item.func] = 0]
     ELSE UNCHANGED <<materializable, with_bodies, deferred>>
  /\ UNCHANGED <<doc, lazy, next_unread, seen, deferred_md, mds, given, blocks, body, calls, error>>

ParseConstants ==
  /\ Read("constants") /\ Step
  /\ values' = values \o ItemValues(items, cursor.at)
  /\ ResolveGlobalAndAliasInits(values')
  /\ UNCHANGED <<doc, lazy, next_unread, seen, with_bodies, deferred, deferred_md, mds, materializable,
                 blocks, body, calls, error>>

(* ParseMetadata, of a block or of one put off.                            *)
Resumed == phase # "load"

ParseModuleMetadata ==
  /\ Read("metadata") /\ Step
  /\ IF lazy /\ ~Resumed /\ ~seen.md
     THEN /\ deferred_md' = Append(deferred_md, cursor.at)
          /\ UNCHANGED <<seen, mds, error>>
     ELSE /\ seen' = [seen EXCEPT !.md = TRUE]
          /\ mds' = mds \o ItemMetadata(items, cursor.at)
          /\ error' = (deferred_md # << >>)
          /\ UNCHANGED deferred_md
  /\ UNCHANGED <<doc, lazy, next_unread, with_bodies, deferred, values, inits, given, materializable,
                 blocks, body, calls>>

ParseValueSymbolTable ==
  /\ Read("symtab") /\ Step
  /\ seen' = [seen EXCEPT !.symtab = TRUE]
  /\ UNCHANGED <<doc, lazy, next_unread, with_bodies, deferred, deferred_md, values, mds, inits, given,
                 materializable, blocks, body, calls, error>>

SkipUnknown ==
  /\ Read("other") /\ Step
  /\ UNCHANGED <<doc, lazy, tables, blocks, body, calls, error>>

(* Mutant: the list is never reversed.                                     *)
InOrderOfProtos == with_bodies

(* The list of functions as RememberAndSkipFunctionBody finds it.          *)
InOrder == IF seen.body THEN with_bodies ELSE Reverse(with_bodies)

Suspend ==
  IF seen.symtab THEN next_unread' = cursor.at + 1 /\ phase' = Returned
                 ELSE UNCHANGED <<next_unread, phase>>

BodyPlace == cursor.at

RememberAndSkipFunctionBody ==
  /\ Read("body")
  /\ seen' = [seen EXCEPT !.body = TRUE]
  /\ IF seen.body THEN UNCHANGED <<inits, given>> ELSE ResolveGlobalAndAliasInits(values)
  /\ IF InOrder = << >>
     THEN /\ error' = TRUE
          /\ UNCHANGED <<cursor, with_bodies, deferred, next_unread, phase>>
     ELSE /\ Step /\ Suspend
          /\ with_bodies' = Front(InOrder)
          /\ deferred' = [deferred EXCEPT ![Last(InOrder)] = BodyPlace]
          /\ UNCHANGED error
  /\ UNCHANGED <<doc, lazy, deferred_md, values, mds, materializable, blocks, body, func, todo, attached>>

EndModule ==
  /\ Read("end")
  /\ cursor' = [at |-> cursor.at + 1, inside |-> FALSE]
  /\ ResolveGlobalAndAliasInits(values)
  /\ phase' = Returned
  /\ UNCHANGED <<doc, lazy, next_unread, seen, with_bodies, deferred, deferred_md, values, mds, materializable,
                 blocks, body, func, todo, attached, error>>

(* ParseModule(true).  Once the module's block was left its reader takes   *)
(* the bits there for something else; anything may follow, and none of it  *)
(* is right.                                                               *)
Resume ==
  /\ JumpTo(next_unread)
  /\ error' = ~cursor.inside

ParseModule ==
  \/ ParseFunctionRecord \/ ParseConstants \/ ParseModuleMetadata \/ ParseValueSymbolTable
  \/ SkipUnknown \/ RememberAndSkipFunctionBody \/ EndModule

-----------------------------------------------------------------------------
(* Materialize and FindFunctionInStream.                                   *)
MaterializeMetadata ==
  /\ mds' = mds \o FlattenSeq([k \in DOMAIN deferred_md |-> ItemMetadata(items, deferred_md[k])])
  /\ seen' = [seen EXCEPT !.md = @ \/ deferred_md # << >>]
  /\ deferred_md' = << >>
  /\ IF deferred_md = << >> THEN UNCHANGED cursor ELSE JumpTo(Last(deferred_md) + 1)

Entering(f) ==
  /\ MaterializeMetadata
  /\ func' = f
  /\ phase' = IF f \notin materializable THEN "done" ELSE "find"
  /\ UNCHANGED <<doc, lazy, next_unread, with_bodies, deferred, values, inits, given, materializable,
                 blocks, body, attached, error>>

Idle == phase = "idle" /\ ~error /\ attached

Materialize(f) == Idle /\ Entering(f) /\ UNCHANGED todo

FindFunctionInStream ==
  /\ phase = "find" /\ ~error /\ body = None /\ deferred[func] = 0
  /\ IF cursor.at > Len(items)
     THEN error' = TRUE /\ UNCHANGED <<cursor, phase>>
     ELSE Resume /\ phase' = "search"
  /\ UNCHANGED <<doc, lazy, tables, blocks, body, func, todo, attached>>

-----------------------------------------------------------------------------
(* ParseFunctionBody.                                                      *)
Code == items[body.item].items
Forth(b) == [b EXCEPT !.at = @ + 1]

EnterFunctionBody ==
  /\ phase = "find" /\ ~error /\ body = None /\ deferred[func] # 0
  /\ LET proto == items[ProtoOf(items, func)]
         local == Arguments(ProtoOf(items, func), proto.args)
     IN  /\ values' = values \o local
         /\ body' = [item |-> deferred[func], at |-> 1, values |-> Len(values), mds |-> Len(mds),
                     next_id |-> Len(values) + Len(local), bbs |-> 0, bb |-> 0]
  /\ JumpTo(deferred[func])
  /\ UNCHANGED <<doc, lazy, next_unread, seen, with_bodies, deferred, deferred_md, mds, inits, given,
                 materializable, blocks, calls, error>>

InBody(kind) == body # None /\ ~error /\ body.at <= Len(Code) /\ Code[body.at].kind = kind

DeclareBlocks ==
  /\ InBody("declare")
  /\ error' = (Code[body.at].blocks = 0)
  /\ body' = [Forth(body) EXCEPT !.bbs = Code[body.at].blocks, !.bb = 1]
  /\ UNCHANGED <<doc, lazy, cursor, tables, blocks, calls>>

(* AssignValue: the value goes into the slot of its id, which must be free.*)
Taken(vals, id) == id < Len(vals) /\ vals[id + 1] # None

AssignValue(vals, id, v) ==
  [k \in 1 .. (IF id < Len(vals) THEN Len(vals) ELSE id + 1) |->
     IF k = id + 1 THEN v ELSE IF k <= Len(vals) THEN vals[k] ELSE None]

Local == [item |-> body.item, nth |-> body.at, arg |-> FALSE]

ParseBodyConstants ==
  /\ InBody("value")
  /\ values' = Append(values, Local)
  /\ body' = [Forth(body) EXCEPT !.next_id = Len(values) + 1]
  /\ UNCHANGED <<doc, lazy, cursor, next_unread, seen, with_bodies, deferred, deferred_md, mds, inits, given,
                 materializable, blocks, calls, error>>

ParseBodyMetadata ==
  /\ InBody("md")
  /\ seen' = [seen EXCEPT !.md = TRUE]
  /\ mds' = Append(mds, Local)
  /\ body' = Forth(body)
  /\ UNCHANGED <<doc, lazy, cursor, next_unread, with_bodies, deferred, deferred_md, values, inits, given,
                 materializable, blocks, calls, error>>

(* The writer's operand, and what ValueTypePair makes of it.               *)
Encoded(j) ==
  IF doc.relative THEN NextId(items, func, body.item, j) - Code[j].operand ELSE Code[j].operand

ValueNumber(j) == IF doc.relative THEN body.next_id - Encoded(j) ELSE Encoded(j)

Add(operands) ==
  blocks' = [blocks EXCEPT ![func] = Append(@, [inst |-> body.at, block |-> body.bb, operands |-> operands])]

InBlock == body.bb \in 1 .. body.bbs

ParseCall ==
  LET call  == Code[body.at]
      val   == ValueNumber(body.at)
      known == val \in 0 .. Len(values) - 1 /\ values[val + 1] # None
  IN  /\ InBody("call")
      /\ IF ~known \/ ~InBlock \/ (call.value /\ Taken(values, body.next_id))
         THEN error' = TRUE /\ UNCHANGED <<values, blocks, body>>
         ELSE /\ Add({values[val + 1]})
              /\ values' = IF call.value THEN AssignValue(values, body.next_id, Local) ELSE values
              /\ body' = [Forth(body) EXCEPT !.next_id = IF call.value THEN @ + 1 ELSE @]
              /\ UNCHANGED error
      /\ UNCHANGED <<doc, lazy, cursor, next_unread, seen, with_bodies, deferred, deferred_md, mds, inits, given,
                     materializable, calls>>

ParseRet ==
  /\ InBody("ret")
  /\ IF ~InBlock
     THEN error' = TRUE /\ UNCHANGED <<blocks, body>>
     ELSE /\ Add({})
          /\ body' = [Forth(body) EXCEPT !.bb = @ + 1]
          /\ UNCHANGED error
  /\ UNCHANGED <<doc, lazy, cursor, tables, calls>>

(* Mutant: the values of the body stay in the table.                       *)
TruncateMetadataOnly ==
  /\ values' = values
  /\ mds' = SubSeq(mds, 1, body.mds)

Truncate ==
  /\ values' = SubSeq(values, 1, body.values)
  /\ mds' = SubSeq(mds, 1, body.mds)

(* A body whose last value is an argument is not implemented.              *)
EndFunctionBody ==
  /\ body # None /\ ~error /\ body.at > Len(Code)
  /\ IF Last(values).arg
     THEN error' = TRUE /\ UNCHANGED <<values, mds, body, materializable, phase, cursor>>
     ELSE /\ Truncate /\ Step
          /\ body' = None
          /\ materializable' = materializable \ {func}
          /\ phase' = "done"
          /\ UNCHANGED error
  /\ UNCHANGED <<doc, lazy, next_unread, seen, with_bodies, deferred, deferred_md, inits, given, blocks,
                 func, todo, attached>>

ParseFunctionBody ==
  \/ EnterFunctionBody \/ DeclareBlocks \/ ParseBodyConstants \/ ParseBodyMetadata
  \/ ParseCall \/ ParseRet \/ EndFunctionBody

-----------------------------------------------------------------------------
(* MaterializeModule, called by LLVMModule::MaterializeAllPermanently; the *)
(* functions of the module it has not come to yet wait in todo.            *)
AllFunctions ==
  LET protos == Protos(items)
  IN  [k \in 1 .. Cardinality(protos) |-> items[CHOOSE i \in protos : Before(protos, i) = k - 1].func]

MaterializeModule ==
  /\ Idle
  /\ MaterializeMetadata
  /\ todo' = AllFunctions
  /\ phase' = "done"
  /\ UNCHANGED <<doc, lazy, next_unread, with_bodies, deferred, values, inits, given, materializable,
                 blocks, body, func, attached, error>>

(* Mutant: the loop does not go on to the next function.                   *)
VisitAgain == phase = "done" /\ ~error /\ todo \notin {None, << >>} /\ Entering(Head(todo)) /\ UNCHANGED todo

VisitNext ==
  /\ phase = "done" /\ ~error /\ todo \notin {None, << >>}
  /\ Entering(Head(todo))
  /\ todo' = Tail(todo)

ReadRest ==
  /\ phase = "done" /\ ~error /\ todo = << >> /\ next_unread # 0
  /\ Resume
  /\ phase' = "rest"
  /\ UNCHANGED <<doc, lazy, tables, blocks, body, func, todo, attached>>

(* Mutant: the module keeps its materializer.                              *)
KeepMaterializer ==
  /\ ~error /\ (phase = "last" \/ (phase = "done" /\ todo = << >> /\ next_unread = 0))
  /\ phase' = "idle" /\ todo' = None
  /\ UNCHANGED <<doc, lazy, cursor, tables, blocks, body, func, attached, error>>

LetGo ==
  /\ ~error /\ (phase = "last" \/ (phase = "done" /\ todo = << >> /\ next_unread = 0))
  /\ phase' = "idle" /\ todo' = None
  /\ attached' = FALSE
  /\ UNCHANGED <<doc, lazy, cursor, tables, blocks, body, func, error>>

(* Materialize returns to the client.                                      *)
Return ==
  /\ phase = "done" /\ ~error /\ todo = None
  /\ phase' = "idle"
  /\ UNCHANGED <<doc, lazy, cursor, tables, blocks, body, func, todo, attached, error>>

-----------------------------------------------------------------------------
(* ParseBitcodeInto has entered the module's block.                        *)
Init ==
  /\ doc \in Documents /\ lazy \in BOOLEAN
  /\ cursor = [at |-> 1, inside |-> TRUE]
  /\ next_unread = 0 /\ seen = [symtab |-> FALSE, body |-> FALSE, md |-> FALSE]
  /\ with_bodies = << >> /\ deferred = [f \in Functions(items) |-> 0] /\ deferred_md = << >>
  /\ values = << >> /\ mds = << >>
  /\ inits = << >> /\ given = [f \in Functions(items) |-> None]
  /\ materializable = {} /\ blocks = [f \in Functions(items) |-> << >>]
  /\ body = None /\ phase = "load" /\ func = None /\ todo = None
  /\ attached = TRUE /\ error = FALSE

Run == ParseModule \/ FindFunctionInStream \/ ParseFunctionBody \/ VisitNext \/ ReadRest \/ LetGo \/ Return

Next == Run \/ (\E f \in Functions(items) : Materialize(f)) \/ MaterializeModule

(* A call runs on its own thread of control until it returns.              *)
Spec == Init /\ [][Next]_vars /\ WF_vars(Run)

-----------------------------------------------------------------------------
(* The shape of the state (the fields of BitcodeReader).                   *)
TypeOK ==
  /\ cursor.at \in 1 .. Len(items) + 1 /\ cursor.inside \in BOOLEAN
  /\ next_unread \in 0 .. Len(items)
  /\ \A k \in DOMAIN with_bodies : with_bodies[k] \in Functions(items)
  /\ \A f \in Functions(items) : deferred[f] = 0 \/ IsBody(items, deferred[f])
  /\ materializable \subseteq WithBody(items)
  /\ phase \in {"load", "idle", "find", "search", "rest", "last", "done"}
  /\ func \in Functions(items) \cup {None}
  /\ body = None \/ (func \in materializable /\ body.at \in 1 .. Len(Code) + 1)

(* Between function bodies the value and metadata tables are exactly those *)
(* of the module, so that the ids of the next body start where its writer  *)
(* counted from (ParseFunctionBody, BitcodeReader.cpp:2285).               *)
TablesMatch ==
  /\ TypeOK
  /\ (phase # "load" /\ body = None /\ ~error) =>
       /\ values = ValuesUpTo(items, Len(items))
       /\ deferred_md = << >> => mds = MetadataUpTo(items, Len(items))

(* By the time a client sees the module, each function has been given the  *)
(* value it is initialised with, wherever that value was defined           *)
(* (ResolveGlobalAndAliasInits, BitcodeReader.cpp:2289).                   *)
InitsGiven ==
  (phase = "idle" /\ ~error) =>
    \A i \in Protos(items) :
      given[items[i].func] = IF items[i].init = 0 THEN None
                             ELSE ValuesUpTo(items, Len(items))[items[i].init]

(* No call of GVMaterializer fails on a well-formed module, in whatever    *)
(* order a client materialises functions, metadata and the whole module    *)
(* (Materialize and FindFunctionInStream, BitcodeReader.cpp:618, :2707).   *)
NeverFails == ~error

(* Each call returns: the search for a body cannot go round in circles     *)
(* (FindFunctionInStream, BitcodeReader.cpp:2711).                         *)
CallsReturn == (phase # "idle") ~> (phase = "idle")

(* Lazy loading shows the client the functions of the document, each at    *)
(* once, whole and as written, and lets go of the materializer only when   *)
(* all are there.                                                          *)
Loaded == INSTANCE LazyModule WITH
  content <- doc.written,
  present <- [f \in WithBody(items) |-> IF phase = "load" \/ f \in materializable THEN Absent ELSE blocks[f]]

ImplementsLazyModule == Loaded!LoadSpec
=============================================================================
