------------------------------ MODULE MC_Printer ------------------------------
(* Modules of a declaration and two functions with bodies, for TLC.        *)
EXTENDS Printer

(* No struct types: the program cannot read one yet.                       *)
Plain(k)    == [kind |-> k, literal |-> FALSE, named |-> FALSE, subs |-> <<>>]
Of(k, subs) == [Plain(k) EXCEPT !.subs = subs]

TypeTable ==
  [void |-> Plain("void"), i32 |-> Plain("i32"), half |-> Plain("half"),
   fvoid |-> Of("function", <<"void">>), pvoid |-> Of("pointer", <<"fvoid">>),
   fhalf |-> Of("function", <<"half", "i32">>), phalf |-> Of("pointer", <<"fhalf">>)]

ConstTable == [seven |-> "i32", undef |-> "half", none |-> "half"]

Op(k, x) == [kind |-> k, id |-> x]

(* n1 is a root, n4 only in a call or below n2.                            *)
NodeTable(below) ==
  [n1 |-> [ops |-> <<Op("node", "n2"), Op("const", "undef"), Op("node", "n3")>>],
   n2 |-> [ops |-> <<Op("str", "s"), Op("node", "n3"), Op("node", below)>>],
   n3 |-> [ops |-> <<Op("null", "null")>>],
   n4 |-> [ops |-> <<Op("const", "seven")>>]]

Call(type, named, attrs, args) ==
  [kind |-> "call", type |-> type, named |-> named, attrs |-> attrs, args |-> args]
Ret == [kind |-> "ret", type |-> "void", named |-> FALSE, attrs |-> Null, args |-> <<>>]

Block(named, insts) == [named |-> named, insts |-> insts]

(* The bodies of function f.                                               *)
Bodies(f) ==
  { << Block(nb, << Call("i32", n1, a, <<Op("const", "seven")>>),
                    Call("half", FALSE, Null, <<Op("local", <<f, 1, 1>>), Op("md node", "n1")>>),
                    Call("void", FALSE, "pure", <<Op("md local", <<f, 1, 2>>)>>) >>),
       Block(FALSE, << Call("i32", FALSE, a, <<Op("local", <<f, 1, 2>>), Op("md const", "none")>>),
                       Call("void", FALSE, Null, <<Op("local", <<f, 2, 1>>), Op("md node", "n3")>>),
                       Ret >>) >> : nb \in BOOLEAN, n1 \in BOOLEAN, a \in {Null, "cold"} }
  \cup { << Block(FALSE, <<Ret>>) >>,
         << Block(TRUE, << Call("half", FALSE, Null, <<>>), Ret >>) >> }

Func(type, attrs, data, blocks) == [type |-> type, attrs |-> attrs, data |-> data, blocks |-> blocks]

ModulesPrinted ==
  { [typeOf |-> TypeTable, consts |-> ConstTable, nodes |-> NodeTable(N.below), named |-> N.named,
     funcs |-> << Func("phalf", "cold", <<>>, <<>>), Func("pvoid", attrs, <<Op("const", "none")>>, first),
                  Func("pvoid", Null, <<>>, second) >>] :
      N \in {[below |-> "n4", named |-> <<<<"n1">>>>],
             [below |-> "n3", named |-> <<<<"n3">>, <<"n3", "n1">>>>]},
      attrs \in {Null, "fast"}, first \in Bodies(2), second \in Bodies(3) }
=============================================================================
