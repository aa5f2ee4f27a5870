------------------------------ MODULE BitWord -------------------------------
(***************************************************************************)
(* The bit window of BitStreamCursor (BitstreamReader.cpp) over the memory *)
(* stream it shares with the reader (MemStreamBuf.cpp): FillCurrWord, Read,*)
(* JumpToBit, SkipToFourByteBoundary and AtEndOfStream, with the error     *)
(* state of std::istream that makes them interact.  Positions count bits;  *)
(* Half is the 32 bits a stream is aligned to, a word_t is two of them.    *)
(***************************************************************************)
EXTENDS Integers, Sequences

CONSTANTS
  Stream,  \* the bits of the buffer
  Half,    \* the bits of four bytes
  Npos     \* static_cast<size_t>(tellg()) of a failed stream, as a bit position

Word == 2 * Half
Size == Len(Stream)
Bit  == {0, 1}

(* "Bitcode stream not a multiple of 4 bytes"                              *)
ASSUME StreamAssumption ==
  /\ Half \in Nat \ {0} /\ Stream \in Seq(Bit) /\ Stream # << >>
  /\ \E k \in 1 .. Len(Stream) : Len(Stream) = k * Half
  /\ Npos \in Nat /\ Npos > Len(Stream) + Word

(***************************************************************************)
(* at is where the stream buffer stands, bad the eof and fail bits of the  *)
(* stream; next, size and word are next_char_, size_ and the bits left in  *)
(* curr_word_ (bits_in_curr_word_ is its length); fatal means that         *)
(* ReportFatalError threw.                                                 *)
(***************************************************************************)
Cursors ==
  [at : 0 .. Size, bad : BOOLEAN, next : 0 .. Size \cup {Npos},
   size : 0 .. Size \cup {Npos}, word : Seq(Bit), fatal : BOOLEAN]

NewCursor ==
  [at |-> 0, bad |-> FALSE, next |-> 0, size |-> 0, word |-> << >>, fatal |-> FALSE]

CurrBitNo(c) == c.next - Len(c.word)

(* xsgetn stops at the end of the buffer; a failed stream delivers nothing.*)
Available(c) ==
  IF c.bad THEN 0 ELSE IF Size - c.at < Word THEN Size - c.at ELSE Word

(* Mutant: what is left of the window is kept in front of the new word.    *)
FillCurrWordAppends(c) ==
  LET n    == Available(c)
      bad  == c.bad \/ n < Word
      next == IF bad THEN Npos ELSE c.at + n
  IN  IF c.size # 0 /\ c.next >= c.size
        THEN [c EXCEPT !.fatal = TRUE]
        ELSE [at |-> c.at + n, bad |-> bad, next |-> next, fatal |-> c.fatal,
              size |-> IF n = 0 THEN next ELSE c.size,
              word |-> c.word \o SubSeq(Stream, c.at + 1, c.at + n)]

(* A short read sets the eof and fail bits, and from then on tellg fails.  *)
FillCurrWord(c) ==
  LET n    == Available(c)
      bad  == c.bad \/ n < Word
      next == IF bad THEN Npos ELSE c.at + n
  IN  IF c.size # 0 /\ c.next >= c.size
        THEN [c EXCEPT !.fatal = TRUE]
        ELSE [at |-> c.at + n, bad |-> bad, next |-> next, fatal |-> c.fatal,
              size |-> IF n = 0 THEN next ELSE c.size,
              word |-> IF n = 0 THEN c.word ELSE SubSeq(Stream, c.at + 1, c.at + n)]

Drop(s, n) == SubSeq(s, n + 1, Len(s))

Zeros(n) == [i \in 1 .. n |-> 0]

Answer(c, b) == [cursor |-> c, bits |-> b]

(* Mutant: a refilled word is masked where it should be shifted.           *)
ReadMasks(c, n) ==
  LET f    == FillCurrWord(c)
      left == n - Len(c.word)
  IN  IF Len(c.word) >= n
        THEN Answer([c EXCEPT !.word = Drop(c.word, n)], SubSeq(c.word, 1, n))
      ELSE IF f.fatal
        THEN Answer(f, << >>)
      ELSE IF left > Len(f.word)
        THEN Answer(f, Zeros(n))
        ELSE Answer([f EXCEPT !.word = SubSeq(f.word, 1, Len(f.word) - left)],
                    c.word \o SubSeq(f.word, 1, left))

(* Read(n), low bits first; nothing when it throws.                        *)
Read(c, n) ==
  LET f    == FillCurrWord(c)
      left == n - Len(c.word)
  IN  IF Len(c.word) >= n
        THEN Answer([c EXCEPT !.word = Drop(c.word, n)], SubSeq(c.word, 1, n))
      ELSE IF f.fatal
        THEN Answer(f, << >>)
      ELSE IF left > Len(f.word)
        THEN Answer(f, Zeros(n))
        ELSE Answer([f EXCEPT !.word = Drop(f.word, left)],
                    c.word \o SubSeq(f.word, 1, left))

(* MemStreamBuf::seekpos refuses the end of the buffer; a failed stream is *)
(* not moved at all.                                                       *)
Seek(c, p) ==
  LET bad == c.bad \/ p >= Size
  IN  [c EXCEPT !.bad = bad, !.at = IF bad THEN c.at ELSE p,
                !.next = IF bad THEN Npos ELSE p, !.word = << >>]

JumpToBit(c, b) ==
  LET s == Seek(c, b - (b % Word))
  IN  IF b % Word = 0 THEN s ELSE Read(s, b % Word).cursor

CanSkipTo(b) == b <= Size

(* Mutant: a half that is wholly unread is skipped too.                    *)
SkipPastWholeHalf(c) ==
  [c EXCEPT !.word = IF Len(c.word) > Half THEN Drop(c.word, Len(c.word) - Half) ELSE << >>]

SkipToFourByteBoundary(c) ==
  [c EXCEPT !.word = IF Len(c.word) >= Half THEN Drop(c.word, Len(c.word) - Half) ELSE << >>]

(* Mutant: it fills again although the size is known.                      *)
AtEndOfStreamRefills(c) ==
  LET f == FillCurrWord(c)
  IN  IF c.word # << >> THEN Answer(c, <<0>>)
      ELSE Answer(f, IF f.word = << >> THEN <<1>> ELSE <<0>>)

(* AtEndOfStream may fill the word to find out; it answers with one bit.   *)
AtEndOfStream(c) ==
  LET f == FillCurrWord(c)
  IN  IF c.word # << >> THEN Answer(c, <<0>>)
      ELSE IF c.size # 0 THEN Answer(c, IF c.size = c.next THEN <<1>> ELSE <<0>>)
      ELSE Answer(f, IF f.word = << >> THEN <<1>> ELSE <<0>>)
=============================================================================
