------------------------------ MODULE MC_UseLists ------------------------------
(* A module of two functions for TLC.  f has an argument and a block with   *)
(* two instructions, the second with two operands; g has a block with one  *)
(* instruction, and a personality.                                         *)
EXTENDS UseLists, TLC

CONSTANTS f, g, fb, gb, i, j, k, a, u1, u2, u3, u4

FunctionsOfModule == <<f, g>>
BlockList  == (f :> <<fb>>) @@ (g :> <<gb>>)
Args       == (f :> <<a>>) @@ (g :> <<>>)
Body       == (fb :> <<i, j>>) @@ (gb :> <<k>>)
Operands   == (i :> <<>>) @@ (j :> <<u1, u2>>) @@ (k :> <<u3>>) @@ (f :> <<>>) @@ (g :> <<u4>>)
Types      == [v \in Owners |-> CASE v \in {f, g} -> "function"
                                  [] v \in {fb, gb} -> "label"
                                  [] OTHER -> "int"]
=============================================================================
