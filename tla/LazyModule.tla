----------------------------- MODULE LazyModule -----------------------------
(***************************************************************************)
(* What lazy loading promises: a module whose functions appear one by one, *)
(* whole and as they were written, stay as they are, and are all there     *)
(* when the module lets go of its materializer.                            *)
(***************************************************************************)
CONSTANT Absent   \* the body of a function that is not materialised

VARIABLES
  content,   \* what was written: the body of every function that has one
  present,   \* of each of them, the body the client sees
  attached   \* whether the module still has its materializer

LoadInit ==
  /\ present = [f \in DOMAIN content |-> Absent]
  /\ attached = TRUE

Appear(f) ==
  /\ attached /\ present[f] = Absent
  /\ present' = [present EXCEPT ![f] = content[f]]
  /\ UNCHANGED <<content, attached>>

LetGo ==
  /\ attached /\ present = content
  /\ attached' = FALSE
  /\ UNCHANGED <<content, present>>

LoadNext == (\E f \in DOMAIN content : Appear(f)) \/ LetGo

LoadSpec == LoadInit /\ [][LoadNext]_<<content, present, attached>>
=============================================================================
