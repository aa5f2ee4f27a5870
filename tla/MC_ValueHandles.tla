-------------------------- MODULE MC_ValueHandles --------------------------
(* Small instances of ValueHandles for TLC: model values for a weak, a     *)
(* tracking and a callback handle, two walk iterators and two values.  A   *)
(* configuration picks the nodes it needs.                                 *)
EXTENDS ValueHandles, TLC

CONSTANTS w1, t1, c1, i1, i2, a, b

OneIter  == <<i1>>
TwoIters == <<i1, i2>>

KindOf == [n \in Nodes |-> CASE n = w1 -> "Weak"
                             [] n = t1 -> "Tracking"
                             [] n = c1 -> "Callback"
                             [] n \in {i1, i2} -> "Assert"]
=============================================================================
