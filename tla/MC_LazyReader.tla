--------------------------- MODULE MC_LazyReader ---------------------------
(* LazyReader on documents of three functions, one of them a declaration.  *)
EXTENDS LazyReader

Proto(f, hasBody, args, init) == [kind |-> "proto", func |-> f, body |-> hasBody, args |-> args, init |-> init]
Values(n)  == [kind |-> "constants", count |-> n]
Nodes(n)   == [kind |-> "metadata", count |-> n]
Plain(k)   == [kind |-> k]
Body(code) == [kind |-> "body", items |-> code]

Declare(n) == [kind |-> "declare", blocks |-> n]
Call(operand, value) == [kind |-> "call", operand |-> operand, value |-> value]

(* The functions f1, f2 and f3 have the ids 0, 1 and 3, constants are 2, 4 *)
(* and 5.  f1 is initialised with the last of them, long after its record, *)
(* f3 with the first.                                                      *)
Prefix ==
  << Proto("f1", TRUE, 1, 6), Proto("f2", FALSE, 1, 0), Values(1), Nodes(1),
     Proto("f3", TRUE, 0, 3), Values(2), Plain("other"), Nodes(2) >>

First ==
  Body(<< Declare(2), Plain("value"), Plain("md"), Call(6, TRUE), Call(5, FALSE), Plain("ret"),
          Call(8, TRUE), Call(9, FALSE), Plain("ret") >>)

Second == Body(<< Declare(1), Call(0, TRUE), Call(6, FALSE), Plain("ret") >>)

(* The symbol table before the bodies, between them, after them, or not at *)
(* all; something after the bodies or nothing.                             *)
Layouts ==
  { <<Plain("symtab"), First, Second, Plain("other"), Plain("end")>>,
    <<First, Plain("symtab"), Second, Plain("end")>>,
    <<First, Second, Plain("symtab"), Plain("end")>>,
    <<First, Plain("other"), Second, Plain("end")>> }

AllDocuments ==
  { [items |-> Prefix \o tail, relative |-> rel, written |-> Written(Prefix \o tail)] :
      tail \in Layouts, rel \in BOOLEAN }
=============================================================================
