--------------------------- MODULE HandleContract ---------------------------
(***************************************************************************)
(* What value handles promise to the code that holds them: a reference     *)
(* that client code or the library moves one at a time, and a value that   *)
(* ceases to exist only when no handle refers to it.  There are no lists,  *)
(* bits, iterators or walks here; ValueHandles is shown to implement it.   *)
(***************************************************************************)
CONSTANTS Handles, Values, Null, Tombstone

VARIABLES
  ref,   \* what each handle refers to; Null also for a handle not constructed
  life   \* "none", "live", or "dying" while the value is being destroyed

contractVars == <<ref, life>>

ContractInit ==
  /\ ref = [h \in Handles |-> Null]
  /\ life = [v \in Values |-> "none"]

Existing(v) == v \in {Null, Tombstone} \/ (v \in Values /\ life[v] # "none")

Bind(h, v) ==
  /\ Existing(v)
  /\ ref' = [ref EXCEPT ![h] = v]
  /\ UNCHANGED life

Create(v) ==
  /\ life[v] = "none"
  /\ life' = [life EXCEPT ![v] = "live"]
  /\ UNCHANGED ref

Condemn(v) ==
  /\ life[v] = "live"
  /\ life' = [life EXCEPT ![v] = "dying"]
  /\ UNCHANGED ref

Free(v) ==
  /\ life[v] \in {"live", "dying"}
  /\ \A h \in Handles : ref[h] # v
  /\ life' = [life EXCEPT ![v] = "none"]
  /\ UNCHANGED ref

ContractNext ==
  \/ \E h \in Handles, v \in Values \cup {Null, Tombstone} : Bind(h, v)
  \/ \E v \in Values : Create(v) \/ Condemn(v) \/ Free(v)

ContractSpec == ContractInit /\ [][ContractNext]_contractVars
=============================================================================
