----------------------------- MODULE BitSource ------------------------------
(***************************************************************************)
(* What a bit cursor promises: a place in the stream, reads that return    *)
(* exactly the bits at that place, jumps that arrive, and an end that is   *)
(* reported where it is.  Nothing is promised once a client has read past  *)
(* the end.                                                                *)
(***************************************************************************)
EXTENDS Integers, Sequences

CONSTANTS Stream, Half

VARIABLES
  place,    \* the bit the client is at
  request,  \* the last operation it asked for
  reply,    \* what that returned
  overrun   \* it has asked for bits after the end

sourceVars == <<place, request, reply, overrun>>

SourceInit == place = 0 /\ request = << >> /\ reply = << >> /\ overrun = FALSE

Take(n) ==
  /\ ~overrun /\ place + n <= Len(Stream)
  /\ request' = <<"read", n>>
  /\ reply' = SubSeq(Stream, place + 1, place + n)
  /\ place' = place + n
  /\ UNCHANGED overrun

Overrun == overrun' = TRUE

Jump(b) ==
  /\ ~overrun
  /\ request' = <<"jump", b>>
  /\ place' = b
  /\ UNCHANGED <<reply, overrun>>

(* To the next multiple of Half, if not at one.                            *)
Boundaries == {k * Half : k \in 0 .. Len(Stream)}

Align ==
  /\ ~overrun
  /\ request' = <<"align">>
  /\ place' \in place .. place + Half - 1 /\ place' \in Boundaries
  /\ UNCHANGED <<reply, overrun>>

AskEnd ==
  /\ ~overrun
  /\ request' = <<"end">>
  /\ reply' = IF place = Len(Stream) THEN <<1>> ELSE <<0>>
  /\ UNCHANGED <<place, overrun>>

SourceNext ==
  \/ \E n \in 1 .. 2 * Half : Take(n)
  \/ \E b \in 0 .. Len(Stream) : Jump(b)
  \/ Align \/ AskEnd \/ Overrun

SourceSpec == SourceInit /\ [][SourceNext]_sourceVars
=============================================================================
