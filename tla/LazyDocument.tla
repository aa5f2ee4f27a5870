---------------------------- MODULE LazyDocument ----------------------------
(***************************************************************************)
(* A module of bitcode as its writer sees it: a sequence of items, each a  *)
(* record or a block, and what they mean.                                  *)
(*   proto      a function [func, body, args, init]: whether a body follows*)
(*              later, its number of arguments, and one more than the id of*)
(*              the value it is initialised with (0 for none)              *)
(*   constants, metadata   a block of count values                         *)
(*   symtab, other         a block without values                          *)
(*   body       a function block of the items declare [blocks], value, md, *)
(*              call [operand, value], with the id of its operand and      *)
(*              whether it makes a value, and ret, which ends a basic block*)
(*   end        the end of the module's block                              *)
(* Ids count all values of the module first, then the body's own.          *)
(***************************************************************************)
EXTENDS Integers, Sequences, SequencesExt

(* A value is known by the item that makes it and its number in there.     *)
Made(i, n) == [k \in 1 .. n |-> [item |-> i, nth |-> k, arg |-> FALSE]]
Arguments(i, n) == [k \in 1 .. n |-> [item |-> i, nth |-> k, arg |-> TRUE]]

ItemValues(items, i) ==
  CASE items[i].kind = "proto"     -> Made(i, 1)
    [] items[i].kind = "constants" -> Made(i, items[i].count)
    [] OTHER                       -> << >>

ItemMetadata(items, i) == IF items[i].kind = "metadata" THEN Made(i, items[i].count) ELSE << >>

ValuesUpTo(items, n)   == FlattenSeq([i \in 1 .. n |-> ItemValues(items, i)])
MetadataUpTo(items, n) == FlattenSeq([i \in 1 .. n |-> ItemMetadata(items, i)])

-----------------------------------------------------------------------------
IsProto(items, i)  == items[i].kind = "proto"
HasBody(items, i)  == IsProto(items, i) /\ items[i].body
IsBody(items, i)   == items[i].kind = "body"

Protos(items)    == {i \in DOMAIN items : IsProto(items, i)}
Functions(items) == {items[i].func : i \in Protos(items)}
ProtoOf(items, f) == CHOOSE i \in Protos(items) : items[i].func = f

Before(S, i) == Cardinality({j \in S : j < i})

(* Bodies come in the order of the functions that have one.                *)
BodyOf(items, f) ==
  LET owners == {i \in DOMAIN items : HasBody(items, i)}
      bodies == {i \in DOMAIN items : IsBody(items, i)}
  IN  CHOOSE b \in bodies : Before(bodies, b) = Before(owners, ProtoOf(items, f))

(* The id of the next value before item j of the body b of f.              *)
MakesValue(item) == item.kind = "value" \/ (item.kind = "call" /\ item.value)

NextId(items, f, b, j) ==
  Len(ValuesUpTo(items, Len(items))) + items[ProtoOf(items, f)].args
    + Cardinality({k \in 1 .. j - 1 : MakesValue(items[b].items[k])})

(* All values that the body b of f may name, in the order of their ids.    *)
BodyValues(items, f, b) ==
  ValuesUpTo(items, Len(items)) \o Arguments(ProtoOf(items, f), items[ProtoOf(items, f)].args)
    \o FlattenSeq([k \in DOMAIN items[b].items |->
                    IF MakesValue(items[b].items[k]) THEN <<[item |-> b, nth |-> k, arg |-> FALSE]>> ELSE << >>])

(* What the function is once it is there: each instruction with its block  *)
(* and its operands.                                                       *)
WrittenBody(items, f) ==
  LET b     == BodyOf(items, f)
      code  == items[b].items
      ends(j) == Cardinality({k \in 1 .. j - 1 : code[k].kind = "ret"})
      operands(j) == IF code[j].kind = "ret" THEN {} ELSE {BodyValues(items, f, b)[code[j].operand + 1]}
  IN  FlattenSeq([j \in DOMAIN code |->
        IF code[j].kind \notin {"call", "ret"} THEN << >>
        ELSE <<[inst |-> j, block |-> 1 + ends(j), operands |-> operands(j)]>>])

WithBody(items) == {items[i].func : i \in {j \in DOMAIN items : HasBody(items, j)}}

Written(items) == [f \in WithBody(items) |-> WrittenBody(items, f)]

-----------------------------------------------------------------------------
(* The documents a writer makes and this reader supports: all values of the*)
(* module come before the first body, there is a body for each function    *)
(* that announces one, ids refer backwards, and no body names an argument  *)
(* as its last value.                                                      *)
WellFormedBody(items, f, b) ==
  LET code == items[b].items
      blocks == {j \in DOMAIN code : code[j].kind = "declare"}
      ending == {j \in DOMAIN code : code[j].kind = "ret"}
  IN  /\ blocks = {1} /\ code[1].blocks = Cardinality(ending) /\ Len(code) \in ending
      /\ \A j \in DOMAIN code : code[j].kind = "call" => code[j].operand < NextId(items, f, b, j)
      /\ items[ProtoOf(items, f)].args = 0 \/ \E j \in DOMAIN code : MakesValue(code[j])

(* What the fields of an item, and of the items of a body, are.            *)
IsSequence(s) == Len(s) \in Nat /\ DOMAIN s = 1 .. Len(s)

ShapedCode(code) ==
  /\ IsSequence(code)
  /\ \A j \in DOMAIN code :
       /\ code[j].kind \in {"declare", "value", "md", "call", "ret"}
       /\ code[j].kind = "declare" => code[j].blocks \in Nat
       /\ code[j].kind = "call" => code[j].operand \in Nat /\ code[j].value \in BOOLEAN

Shaped(items) ==
  /\ IsSequence(items)
  /\ \A i \in DOMAIN items :
       /\ items[i].kind \in {"proto", "constants", "metadata", "symtab", "other", "body", "end"}
       /\ items[i].kind = "proto" =>
            items[i].body \in BOOLEAN /\ items[i].args \in Nat /\ items[i].init \in Nat
       /\ items[i].kind \in {"constants", "metadata"} => items[i].count \in Nat
       /\ items[i].kind = "body" => ShapedCode(items[i].items)

WellFormed(items) ==
  LET bodies == {i \in DOMAIN items : IsBody(items, i)}
      owners == {i \in DOMAIN items : HasBody(items, i)}
      valued == {i \in DOMAIN items : items[i].kind \in {"proto", "constants", "metadata"}}
  IN  /\ Shaped(items)
      /\ items # << >> /\ {i \in DOMAIN items : items[i].kind = "end"} = {Len(items)}
      /\ Cardinality(bodies) = Cardinality(owners)
      /\ \A i, j \in Protos(items) : items[i].func = items[j].func => i = j
      /\ \A i \in valued, b \in bodies : i < b
      /\ \A i \in Protos(items) : items[i].init <= Len(ValuesUpTo(items, Len(items)))
      /\ \A i \in owners : WellFormedBody(items, items[i].func, BodyOf(items, items[i].func))
=============================================================================
