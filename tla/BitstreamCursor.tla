-------------------------- MODULE BitstreamCursor ---------------------------
(***************************************************************************)
(* A BitStreamCursor used by a client that reads, aligns, jumps and asks   *)
(* for the end in any order, as BitcodeReader does when it skips function  *)
(* bodies and comes back to them.                                          *)
(***************************************************************************)
EXTENDS BitWord

VARIABLES
  cursor,
  request, \* history: the last operation, with its argument
  reply,   \* history: the bits, or the answer, the last operation returned
  overrun  \* history: the client has asked for bits after the end

vars == <<cursor, request, reply, overrun>>

(* The bit a client is at; CurrBitNo is that only while the stream is good.*)
Place == IF cursor.bad THEN Size - Len(cursor.word) ELSE CurrBitNo(cursor)

Usable == ~cursor.fatal

ReadBits(n) ==
  /\ Usable
  /\ request' = <<"read", n>>
  /\ cursor' = Read(cursor, n).cursor
  /\ reply' = Read(cursor, n).bits
  /\ overrun' = (overrun \/ Place + n > Size)

(* "Invalid location" is what JumpToBit asserts of any other bit.  This    *)
(* client does not jump back once the end has been met: BlockWalk has one  *)
(* that does.                                                              *)
JumpTo(b) ==
  /\ Usable /\ CanSkipTo(b - (b % Word)) /\ ~cursor.bad
  /\ request' = <<"jump", b>>
  /\ cursor' = JumpToBit(cursor, b)
  /\ UNCHANGED <<reply, overrun>>

(* Every caller has read a code or a length before it aligns, so that the  *)
(* window is never a whole unread word.                                    *)
AlignTo32 ==
  /\ Usable /\ Len(cursor.word) < Word
  /\ request' = <<"align">>
  /\ cursor' = SkipToFourByteBoundary(cursor)
  /\ UNCHANGED <<reply, overrun>>

CheckEnd ==
  /\ Usable
  /\ request' = <<"end">>
  /\ cursor' = AtEndOfStream(cursor).cursor
  /\ reply' = AtEndOfStream(cursor).bits
  /\ UNCHANGED overrun

Init == cursor = NewCursor /\ request = << >> /\ reply = << >> /\ overrun = FALSE

Next ==
  \/ \E n \in 1 .. Word : ReadBits(n)
  \/ \E b \in 0 .. Size : JumpTo(b)
  \/ AlignTo32 \/ CheckEnd

Spec == Init /\ [][Next]_vars

-----------------------------------------------------------------------------
(* The types of the variables.                                             *)
TypeOK ==
  /\ cursor \in Cursors /\ Len(cursor.word) <= Word
  /\ reply \in Seq(Bit) /\ overrun \in BOOLEAN

(* The window is what the stream holds before the place it was filled to:  *)
(* no bit is lost, repeated or taken from elsewhere, through refills, jumps*)
(* and alignment.                                                          *)
WindowInStream ==
  ~overrun =>
    /\ cursor.bad \/ cursor.next = cursor.at
    /\ cursor.word = SubSeq(Stream, Place + 1, Place + Len(cursor.word))

(* "Unexpected end of file" is thrown only at a client that asked for bits *)
(* after the end, however it came there.                                   *)
EndIsReal == cursor.fatal => overrun

Source == INSTANCE BitSource WITH place <- Place

(* The cursor implements the abstract bit source: every read returns the   *)
(* bits at its place, every jump arrives, alignment goes to the next four- *)
(* byte boundary and no further, and the end is found where it is.         *)
ImplementsSource == Source!SourceSpec

-----------------------------------------------------------------------------
(* A stream of a few bits for TLC: words of six bits, of which the last is *)
(* only half there.  The pattern has no two equal words.                   *)
ShortTail == <<1, 0, 0, 1, 1, 0,  0, 1, 0, 1, 1, 1,  1, 0, 1>>
=============================================================================
