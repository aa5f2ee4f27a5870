---------------------------- MODULE MC_SymbolTable ----------------------------
(* Two functions, two blocks and two instructions that may go anywhere,    *)
(* and two names, one of which is the other with a one: the number that    *)
(* would make the shorter unique may be taken too.                         *)
EXTENDS SymbolTable, TLC

CONSTANTS f, g, a, b, i, j

X == <<11>>

NamesAskedFor ==
  (f :> {X}) @@ (g :> {}) @@ (a :> {NoName, X}) @@ (b :> {Append(X, 1)})
    @@ (i :> {NoName, X}) @@ (j :> {X})

(* Names are made unique twice in f.                                       *)
Attempts == (f :> 2) @@ (g :> 0) @@ (Module :> 0)
=============================================================================
