----------------------- MODULE BitstreamCursorProofs ------------------------
(***************************************************************************)
(* The bit cursor delivers the bits of the stream in order, for every      *)
(* stream whose size is a multiple of four bytes, as long as the client    *)
(* does not come back after it has met the end of the stream.              *)
(***************************************************************************)
EXTENDS BitstreamCursor, SequenceTheorems, TLAPS

(* k bits of the stream from the bit p on.                                 *)
Window(p, k) == SubSeq(Stream, p + 1, p + k)

(* Taking from a window, and putting adjacent windows together, gives      *)
(* windows.                                                                *)
LEMMA WindowFacts ==
  ASSUME NEW p \in 0 .. Size, NEW k \in 0 .. Size - p
  PROVE  /\ Window(p, k) \in Seq(Bit) /\ Len(Window(p, k)) = k
         /\ k = 0 => Window(p, k) = << >>
<1>1. Stream \in Seq(Bit) /\ Size = Len(Stream) /\ Size \in Nat
  BY StreamAssumption DEF Size
<1>2. \A i \in p + 1 .. p + k : Stream[i] \in Bit
  BY <1>1, ElementOfSeq
<1>3. QED BY <1>1, <1>2, SubSeqProperties, SubSeqEmpty DEF Window

(* The window left after n of its bits are taken, and those n bits.        *)
LEMMA WindowDrop ==
  ASSUME NEW p \in 0 .. Size, NEW k \in 0 .. Size - p, NEW n \in 0 .. k
  PROVE  /\ Drop(Window(p, k), n) = Window(p + n, k - n)
         /\ SubSeq(Window(p, k), 1, n) = Window(p, n)
<1>1. Stream \in Seq(Bit) /\ Size = Len(Stream) /\ Size \in Nat
  BY StreamAssumption DEF Size
<1> DEFINE w == Window(p, k)
<1>2. w \in Seq(Bit) /\ Len(w) = k
  BY WindowFacts
<1>3. ASSUME n < k PROVE Drop(w, n) = Window(p + n, k - n)
  <2>1. Drop(w, n) = SubSeq(SubSeq(Stream, p + 1, p + k), n + 1, k)
    BY <1>2 DEF Drop, Window
  <2>2. SubSeq(SubSeq(Stream, p + 1, p + k), n + 1, k) = SubSeq(Stream, p + n + 1, p + k)
    BY <1>1, <1>3, SubSeqOfSubSeq
  <2>3. QED BY <1>1, <2>1, <2>2 DEF Window
<1>4. ASSUME n = k PROVE Drop(w, n) = Window(p + n, k - n)
  BY <1>1, <1>2, <1>4, SubSeqEmpty DEF Drop, Window
<1>5. ASSUME n > 0 PROVE SubSeq(w, 1, n) = Window(p, n)
  BY <1>1, <1>5, SubSeqOfSubSeq DEF Window
<1>6. ASSUME n = 0 PROVE SubSeq(w, 1, n) = Window(p, n)
  BY <1>1, <1>6, SubSeqEmpty DEF Window
<1>7. QED BY <1>3, <1>4, <1>5, <1>6

(* Two windows side by side are one window.                                *)
LEMMA WindowJoin ==
  ASSUME NEW p \in 0 .. Size, NEW k \in 0 .. Size - p, NEW m \in 0 .. Size - p - k
  PROVE  Window(p, k) \o Window(p + k, m) = Window(p, k + m)
<1>1. Stream \in Seq(Bit) /\ Size = Len(Stream) /\ Size \in Nat
  BY StreamAssumption DEF Size
<1>2. SubSeq(Stream, p + 1, p + k) \o SubSeq(Stream, (p + k) + 1, p + k + m)
        = SubSeq(Stream, p + 1, p + k + m)
  <2>1. /\ p + 1 \in 1 .. Len(Stream) + 1 /\ p + k \in (p + 1) - 1 .. Len(Stream)
        /\ p + k + m \in p + k .. Len(Stream)
    BY <1>1
  <2>2. QED BY ONLY <1>1, <2>1, ConcatAdjacentSubSeq
<1>3. p + k + m = p + (k + m)
  BY <1>1
<1>4. QED BY <1>2, <1>3 DEF Window

-----------------------------------------------------------------------------
(* Four-byte boundaries.                                                   *)
OnBoundary(p) == \E k \in Nat : p = k * Half

(***************************************************************************)
(* The cursor c stands exactly at the bit p: its window is what the stream *)
(* holds from p on, up to where the buffer stands, or up to the end once   *)
(* the end has been met.                                                   *)
(***************************************************************************)
Exact(c, p) ==
  /\ c \in Cursors /\ ~c.fatal /\ p \in 0 .. Size
  /\ Len(c.word) \in 0 .. Word /\ Len(c.word) <= Size - p
  /\ c.word = Window(p, Len(c.word))
  /\ c.size = 0 \/ c.size = Npos
  /\ c.bad => p + Len(c.word) = Size /\ c.next = Npos
  /\ ~c.bad => /\ c.next = c.at /\ p + Len(c.word) = c.at
               /\ c.size = 0 /\ OnBoundary(c.at)

(* What the assumptions on the constants come to.                          *)
LEMMA Constants ==
  /\ Half \in Nat /\ Half >= 1 /\ Word \in Nat /\ Word = 2 * Half /\ Word >= 1
  /\ Stream \in Seq(Bit) /\ Size \in Nat /\ Size >= 1 /\ Size = Len(Stream) /\ OnBoundary(Size)
  /\ Npos \in Nat /\ Npos > Size + Word
<1>1. Stream \in Seq(Bit) /\ Stream # << >> /\ Len(Stream) \in Nat
  BY StreamAssumption
<1>2. Len(Stream) >= 1
  BY <1>1, EmptySeq
<1>3. \E k \in Nat : Len(Stream) = k * Half
  BY <1>1, StreamAssumption
<1>4. Word \in Nat /\ Word = 2 * Half /\ Word >= 1
  BY StreamAssumption DEF Word
<1>5. OnBoundary(Size)
  BY <1>3 DEF OnBoundary, Size
<1>6. QED BY <1>1, <1>2, <1>4, <1>5, StreamAssumption DEF Size

(* Filling the window of a cursor that has used up its own, when the       *)
(* stream is good: the next bits come in, as many as there are.            *)
LEMMA FillFacts ==
  ASSUME NEW c \in Cursors, ~c.bad, c.size = 0, c.next = c.at,
         NEW f, f = FillCurrWord(c)
  PROVE  /\ f \in Cursors /\ f.fatal = c.fatal
         /\ Available(c) \in 0 .. Word /\ c.at + Available(c) <= Size
         /\ Available(c) = Word \/ c.at + Available(c) = Size
         /\ f.at = c.at + Available(c)
         /\ f.bad => Available(c) < Word /\ f.next = Npos
         /\ ~f.bad => Available(c) = Word /\ f.next = f.at
         /\ Available(c) = 0 => f.word = c.word /\ f.size = Npos
         /\ Available(c) # 0 => f.size = 0 /\ f.word = Window(c.at, Available(c))
                                /\ Len(f.word) = Available(c)
<1> DEFINE n == Available(c)
<1>1. c.at \in 0 .. Size /\ c.next \in Nat
  BY Constants DEF Cursors
<1>2. n \in 0 .. Word /\ c.at + n <= Size /\ (n = Word \/ c.at + n = Size)
  BY <1>1, Constants DEF Available
<1>3. Window(c.at, n) \in Seq(Bit) /\ Len(Window(c.at, n)) = n
  <2>1. n \in 0 .. Size - c.at
    BY <1>1, <1>2, Constants
  <2>2. QED BY <1>1, <2>1, WindowFacts
<1> PICK b \in BOOLEAN : b = (n < Word)
  <2>1. CASE n < Word
    <3>1. (n < Word) = TRUE
      BY <2>1
    <3>2. QED BY <3>1, Zenon
  <2>2. CASE ~(n < Word)
    <3>1. (n < Word) = FALSE
      BY <2>2
    <3>2. QED BY <3>1, Zenon
  <2>3. QED BY <2>1, <2>2
<1>4. f = [at |-> c.at + n, bad |-> b, next |-> IF b THEN Npos ELSE c.at + n,
           fatal |-> c.fatal, size |-> IF n = 0 THEN IF b THEN Npos ELSE c.at + n ELSE c.size,
           word |-> IF n = 0 THEN c.word ELSE Window(c.at, n)]
  <2>1. c.bad = FALSE
    BY DEF Cursors
  <2>2. (c.bad \/ n < Word) = b
    BY <2>1
  <2>3. QED BY <1>1, <2>2 DEF FillCurrWord, Window
<1>5. c.word \in Seq(Bit) /\ c.fatal \in BOOLEAN
  BY DEF Cursors
<1>6. f \in Cursors
  BY <1>1, <1>2, <1>3, <1>4, <1>5, Constants DEF Cursors
<1>7. n = 0 => f.word = c.word /\ f.size = Npos
  <2>1. ASSUME n = 0 PROVE b
    <3>1. n < Word
      BY <2>1, Constants
    <3>2. QED BY <3>1, Zenon
  <2>2. QED BY <1>4, <2>1
<1>8. n # 0 => f.size = 0 /\ f.word = Window(c.at, n) /\ Len(f.word) = n
  BY <1>3, <1>4
<1>9. f.fatal = c.fatal /\ f.at = c.at + n
  BY <1>4
<1>10. (f.bad => n < Word /\ f.next = Npos) /\ (~f.bad => n = Word /\ f.next = f.at)
  <2>1. f.bad = b /\ f.next = IF b THEN Npos ELSE f.at
    BY <1>4
  <2>2. (b => n < Word) /\ (~b => ~(n < Word))
    BY Zenon
  <2>3. ~(n < Word) => n = Word
    BY <1>2, Constants
  <2>4. (b => f.next = Npos) /\ (~b => f.next = f.at)
    BY <1>9, <2>1
  <2>5. QED BY <2>1, <2>2, <2>3, <2>4, Zenon
<1>11. QED BY <1>2, <1>6, <1>7, <1>8, <1>9, <1>10

(***************************************************************************)
(* A read within the stream returns the next n bits and advances by n,     *)
(* whether the window held them, part of them or none.                     *)
(***************************************************************************)
LEMMA ReadExact ==
  ASSUME NEW c, NEW p, Exact(c, p), NEW n \in 1 .. Word, p + n <= Size
  PROVE  Exact(Read(c, n).cursor, p + n) /\ Read(c, n).bits = Window(p, n)
<1> DEFINE k == Len(c.word)
           f == FillCurrWord(c)
           left == n - k
<1>1. /\ c \in Cursors /\ ~c.fatal /\ p \in 0 .. Size /\ k \in 0 .. Word /\ k \in 0 .. Size - p
      /\ c.word = Window(p, k)
  BY Constants DEF Exact
<1>2. CASE k >= n
  <2> DEFINE r == [c EXCEPT !.word = Drop(c.word, n)]
  <2>1. Drop(c.word, n) = Window(p + n, k - n) /\ SubSeq(c.word, 1, n) = Window(p, n)
    <3>1. n \in 0 .. k
      BY <1>1, <1>2, Constants
    <3>2. Drop(Window(p, k), n) = Window(p + n, k - n) /\ SubSeq(Window(p, k), 1, n) = Window(p, n)
      BY ONLY <1>1, <3>1, WindowDrop
    <3>3. QED BY ONLY <1>1, <3>2
  <2>2. Window(p + n, k - n) \in Seq(Bit) /\ Len(Window(p + n, k - n)) = k - n
    <3>1. p + n \in 0 .. Size /\ k - n \in 0 .. Size - (p + n)
      BY <1>1, <1>2, Constants
    <3>2. QED BY ONLY <3>1, WindowFacts
  <2>3. Read(c, n).cursor = r /\ Read(c, n).bits = Window(p, n)
    BY <1>2, <2>1 DEF Read, Answer
  <2>4. /\ r \in Cursors /\ r.word = Window(p + n, k - n) /\ r.fatal = c.fatal
        /\ r.bad = c.bad /\ r.next = c.next /\ r.at = c.at /\ r.size = c.size
    BY <1>1, <2>1, <2>2 DEF Cursors
  <2>5. Exact(r, p + n)
    <3> HIDE DEF r, k
    <3>0. k = Len(c.word)
      BY DEF k
    <3>1. /\ Len(r.word) = k - n /\ r.word = Window(p + n, Len(r.word))
          /\ p + n \in 0 .. Size /\ Len(r.word) \in 0 .. Word /\ Len(r.word) <= Size - (p + n)
          /\ p + n + Len(r.word) = p + k
      <4>1. Len(r.word) = k - n /\ r.word = Window(p + n, Len(r.word))
        BY ONLY <2>2, <2>4
      <4>2. k \in Nat /\ n \in Nat /\ p \in Nat /\ n <= k /\ k <= Word /\ k <= Size - p
        BY ONLY <1>1, <1>2, n \in 1 .. Word, Constants
      <4>3. k - n \in 0 .. Word /\ k - n <= Size - (p + n) /\ p + n \in 0 .. Size
            /\ p + n + (k - n) = p + k
        BY ONLY <4>2, Constants
      <4>4. QED BY ONLY <4>1, <4>3
    <3>2. QED BY <1>1, <2>4, <3>0, <3>1 DEF Exact
  <2>6. QED BY <2>3, <2>5
<1>3. CASE k < n
  <2>1. ~c.bad /\ c.next = c.at /\ p + k = c.at /\ c.size = 0 /\ OnBoundary(c.at)
    BY <1>1, <1>3, Constants DEF Exact
  <2> PICK m : m = Available(c)
    OBVIOUS
  <2>2. /\ f \in Cursors /\ f.fatal = c.fatal /\ m \in 0 .. Word /\ c.at + m <= Size
        /\ m = Word \/ c.at + m = Size
        /\ f.at = c.at + m
        /\ f.bad => m < Word /\ f.next = Npos
        /\ ~f.bad => m = Word /\ f.next = f.at
        /\ m # 0 => f.size = 0 /\ f.word = Window(c.at, m) /\ Len(f.word) = m
    BY <1>1, <2>1, FillFacts
  <2> HIDE DEF f
  <2>3. left \in 1 .. m /\ m # 0
    <3>1. k \in Nat /\ n \in Nat /\ p \in Nat /\ m \in Nat /\ k < n /\ n <= Word /\ p + n <= Size
      BY ONLY <1>1, <1>3, <2>2, n \in 1 .. Word, p + n <= Size, Constants
    <3>2. m = Word \/ p + k + m = Size
      BY ONLY <2>1, <2>2
    <3>3. QED BY ONLY <3>1, <3>2, Constants
  <2> DEFINE r == [f EXCEPT !.word = Drop(f.word, left)]
  <2> HIDE DEF r
  <2>4. /\ c.at \in 0 .. Size /\ m \in 0 .. Size - c.at /\ left \in 0 .. m
        /\ m - left \in 0 .. Size - (c.at + left) /\ c.at + left \in 0 .. Size
    <3>1. c.at \in 0 .. Size
      BY <1>1 DEF Cursors
    <3> HIDE DEF left
    <3>2. m \in Nat /\ c.at + m <= Size
      BY <2>2, Constants
    <3>3. QED BY ONLY <2>3, <3>1, <3>2, Constants
  <2>5. Drop(f.word, left) = Window(c.at + left, m - left)
        /\ SubSeq(f.word, 1, left) = Window(c.at, left)
    <3> HIDE DEF left
    <3>1. Drop(Window(c.at, m), left) = Window(c.at + left, m - left)
          /\ SubSeq(Window(c.at, m), 1, left) = Window(c.at, left)
      BY ONLY <2>4, WindowDrop
    <3>2. f.word = Window(c.at, m)
      BY <2>2, <2>3
    <3>3. QED BY ONLY <3>1, <3>2
  <2>6. Window(c.at + left, m - left) \in Seq(Bit)
        /\ Len(Window(c.at + left, m - left)) = m - left
    BY <2>4, WindowFacts
  <2>7. c.word \o SubSeq(f.word, 1, left) = Window(p, n)
    <3>1. left \in 0 .. Size - p - k
      BY <1>1, <2>1, <2>2, <2>3, Constants
    <3>2. Window(p, k) \o Window(p + k, left) = Window(p, k + left)
      BY <1>1, <3>1, WindowJoin
    <3>3. k + left = n
      BY <1>1
    <3>4. QED BY <1>1, <2>1, <2>5, <3>2, <3>3
  <2>8. Read(c, n).cursor = r /\ Read(c, n).bits = Window(p, n)
    <3>1. ~(Len(c.word) >= n) /\ ~(f.fatal) /\ ~(left > Len(f.word))
      BY <1>1, <1>3, <2>2, <2>3
    <3>2. QED BY <2>7, <3>1 DEF Read, Answer, r, f
  <2>9. /\ r \in Cursors /\ r.word = Window(c.at + left, m - left) /\ r.fatal = f.fatal
        /\ r.bad = f.bad /\ r.next = f.next /\ r.at = f.at /\ r.size = f.size
    BY <2>2, <2>5, <2>6 DEF Cursors, r
  <2>10. c.at + left = p + n
    BY <1>1, <2>1, Constants DEF Cursors
  <2>11. m = Word => OnBoundary(c.at + m)
    <3> SUFFICES ASSUME m = Word PROVE OnBoundary(c.at + m)
      OBVIOUS
    <3>1. PICK j \in Nat : c.at = j * Half
      BY <2>1 DEF OnBoundary
    <3>2. c.at + m = (j + 2) * Half
      BY <3>1, Constants
    <3>3. QED BY <3>2 DEF OnBoundary
  <2>12. Exact(r, p + n)
    <3>1. r \in Cursors /\ ~r.fatal /\ p + n \in 0 .. Size
      BY <1>1, <2>2, <2>9, Constants
    <3>2. /\ Len(r.word) = m - left /\ Len(r.word) \in 0 .. Word /\ Len(r.word) <= Size - (p + n)
          /\ r.word = Window(p + n, Len(r.word))
      <4>1. Len(r.word) = m - left /\ r.word = Window(p + n, m - left)
        BY <2>6, <2>9, <2>10
      <4> HIDE DEF left
      <4>2. QED BY ONLY <2>2, <2>3, <2>4, <2>10, <4>1, Constants
    <3>3. p + n + Len(r.word) = c.at + m
      <4>1. left \in Int /\ m \in Int /\ c.at \in Int
        BY <2>3, <2>4
      <4> HIDE DEF left
      <4>2. QED BY ONLY <2>10, <3>2, <4>1
    <3>4. CASE r.bad
      <4>1. c.at + m = Size
        BY <2>2, <2>9, <3>4, Constants
      <4>2. r.size = 0 /\ r.next = Npos
        BY <2>2, <2>3, <2>9, <3>4
      <4>3. QED BY <3>1, <3>2, <3>3, <3>4, <4>1, <4>2 DEF Exact
    <3>5. CASE ~r.bad
      <4>1. m = Word
        BY <2>2, <2>9, <3>5, Constants
      <4>2. r.next = r.at /\ r.at = c.at + m /\ r.size = 0 /\ OnBoundary(r.at)
        BY <2>2, <2>3, <2>9, <2>11, <3>5, <4>1
      <4>3. QED BY <3>1, <3>2, <3>3, <3>5, <4>2 DEF Exact
    <3>6. QED BY <3>4, <3>5
  <2>13. QED BY <2>8, <2>12
<1>4. QED BY <1>1, <1>2, <1>3

-----------------------------------------------------------------------------
(* A word boundary at or before b is a four-byte boundary of the stream.   *)
LEMMA WordStart ==
  ASSUME NEW b \in 0 .. Size
  PROVE  /\ b % Word \in 0 .. Word - 1 /\ b - (b % Word) \in 0 .. Size
         /\ OnBoundary(b - (b % Word))
<1> DEFINE q == b \div Word
<1>1. q \in Int /\ b % Word \in 0 .. Word - 1 /\ b = Word * q + (b % Word)
  BY Constants, SMTT(30)
<1> HIDE DEF q
<1>2. q >= 0
  <2>1. CASE q < 0
    <3>1. Word * q <= 0 - Word
      BY <1>1, <2>1, Constants
    <3>2. QED BY <1>1, <3>1, Constants
  <2>2. QED BY <1>1, <2>1
<1>3. b - (b % Word) = (2 * q) * Half
  <2>1. b - (b % Word) = Word * q
    BY <1>1, Constants
  <2>2. Word * q = (2 * q) * Half
    BY <1>1, Constants
  <2>3. QED BY <2>1, <2>2
<1>4. 2 * q \in Nat
  BY <1>1, <1>2
<1>5. OnBoundary(b - (b % Word))
  BY <1>3, <1>4 DEF OnBoundary
<1>6. (2 * q) * Half >= 0
  BY <1>4, Constants
<1>7. b - (b % Word) \in 0 .. Size
  <2> DEFINE r == b % Word
  <2>1. r \in Nat /\ b - r >= 0
    BY <1>1, <1>3, <1>6, Constants
  <2> HIDE DEF r
  <2>2. b - r \in 0 .. Size
    BY <2>1, Constants
  <2>3. QED BY <2>2 DEF r
<1>8. QED BY <1>1, <1>5, <1>7

(* Jumping from a good stream arrives, the end of the stream included.     *)
LEMMA JumpExact ==
  ASSUME NEW c, NEW p, Exact(c, p), ~c.bad, NEW b \in 0 .. Size
  PROVE  Exact(JumpToBit(c, b), b)
<1> DEFINE m == b % Word
           w == b - m
           s == Seek(c, w)
<1>1. m \in 0 .. Word - 1 /\ w \in 0 .. Size /\ OnBoundary(w) /\ b = w + m
  BY WordStart, Constants
<1>2. c \in Cursors /\ c.bad = FALSE /\ c.fatal = FALSE /\ c.size = 0
  BY DEF Exact, Cursors
<1>3. Window(w, 0) = << >> /\ << >> \in Seq(Bit) /\ Len(<< >>) = 0
  <2>1. 0 \in 0 .. Size - w
    BY <1>1, Constants
  <2>2. QED BY ONLY <1>1, <2>1, WindowFacts
<1> HIDE DEF m, w
<1>4. Exact(s, w)
  <2>1. CASE w < Size
    <3>1. (w >= Size) = FALSE
      BY <1>1, <2>1, Constants
    <3>2. s = [c EXCEPT !.bad = FALSE, !.at = w, !.next = w, !.word = << >>]
      BY <1>2, <3>1 DEF Seek
    <3>3. /\ s \in Cursors /\ s.bad = FALSE /\ s.at = w /\ s.next = w
          /\ s.word = << >> /\ s.size = 0 /\ s.fatal = FALSE
      BY <1>1, <1>2, <1>3, <3>2 DEF Cursors
    <3> HIDE DEF s
    <3>4. QED BY <1>1, <1>3, <3>3, Constants DEF Exact
  <2>2. CASE w = Size
    <3>1. (w >= Size) = TRUE
      BY <1>1, <2>2, Constants
    <3>2. s = [c EXCEPT !.bad = TRUE, !.at = c.at, !.next = Npos, !.word = << >>]
      BY <1>2, <3>1 DEF Seek
    <3>3. /\ s \in Cursors /\ s.bad = TRUE /\ s.next = Npos
          /\ s.word = << >> /\ s.size = 0 /\ s.fatal = FALSE
      BY <1>2, <1>3, <3>2 DEF Cursors
    <3> HIDE DEF s
    <3>4. QED BY <1>1, <1>3, <2>2, <3>3, Constants DEF Exact
  <2>3. QED BY <1>1, <2>1, <2>2, Constants
<1> HIDE DEF s
<1>5. JumpToBit(c, b) = IF m = 0 THEN s ELSE Read(s, m).cursor
  BY DEF JumpToBit, m, w, s
<1>6. CASE m = 0
  BY <1>1, <1>4, <1>5, <1>6
<1>7. CASE m # 0
  <2>1. m \in 1 .. Word /\ w + m <= Size
    BY <1>1, <1>7, Constants
  <2>2. Exact(Read(s, m).cursor, w + m)
    BY <1>4, <2>1, ReadExact
  <2>3. QED BY <1>1, <1>5, <1>7, <2>2
<1>8. QED BY <1>6, <1>7

(* Aligning goes to the next four-byte boundary, less than four bytes on.  *)
LEMMA AlignExact ==
  ASSUME NEW c, NEW p, Exact(c, p), Len(c.word) < Word
  PROVE  \E q \in p .. p + Half - 1 :
           OnBoundary(q) /\ Exact(SkipToFourByteBoundary(c), q)
<1> DEFINE k == Len(c.word)
           s == SkipToFourByteBoundary(c)
<1>1. /\ c \in Cursors /\ ~c.fatal /\ p \in 0 .. Size /\ k \in 0 .. Word - 1
      /\ k \in 0 .. Size - p /\ c.word = Window(p, k) /\ OnBoundary(p + k)
  BY Constants DEF Exact
<1>2. PICK j \in Nat : p + k = j * Half
  BY <1>1 DEF OnBoundary
<1>3. CASE k >= Half
  <2> DEFINE q == p + (k - Half)
  <2>1. k - Half \in 0 .. Half - 1 /\ k - Half \in 0 .. k /\ Half \in 0 .. Size - q
        /\ q \in p .. p + Half - 1 /\ q \in 0 .. Size /\ k - (k - Half) = Half
    BY <1>1, <1>3, Constants
  <2>2. OnBoundary(q)
    <3>1. j # 0
      BY <1>1, <1>2, <1>3, Constants
    <3>2. j - 1 \in Nat /\ q = (j - 1) * Half
      BY <1>1, <1>2, <3>1, Constants
    <3>3. QED BY <3>2 DEF OnBoundary
  <2>3. Drop(c.word, k - Half) = Window(q, Half)
    <3>1. Drop(Window(p, k), k - Half) = Window(p + (k - Half), k - (k - Half))
      BY ONLY <1>1, <2>1, WindowDrop
    <3>2. QED BY <1>1, <2>1, <3>1
  <2>4. Window(q, Half) \in Seq(Bit) /\ Len(Window(q, Half)) = Half
    BY ONLY <2>1, WindowFacts
  <2>5. s = [c EXCEPT !.word = Window(q, Half)]
    BY <1>3, <2>3 DEF SkipToFourByteBoundary
  <2>6. /\ s \in Cursors /\ s.word = Window(q, Half) /\ s.fatal = c.fatal
        /\ s.bad = c.bad /\ s.next = c.next /\ s.at = c.at /\ s.size = c.size
    BY <1>1, <2>4, <2>5 DEF Cursors
  <2>7. q + Half = p + k /\ Half \in 0 .. Word
    BY <1>1, Constants
  <2> HIDE DEF s, q
  <2>8. Exact(s, q)
    <3>1. (c.bad => q + Half = Size /\ c.next = Npos) /\ (c.size = 0 \/ c.size = Npos)
      BY <2>7 DEF Exact
    <3>2. ~c.bad => /\ c.next = c.at /\ q + Half = c.at /\ c.size = 0
                    /\ OnBoundary(c.at)
      BY <2>7 DEF Exact
    <3>3. Len(s.word) = Half /\ s.word = Window(q, Len(s.word)) /\ Half <= Size - q
      BY <2>1, <2>4, <2>6
    <3>4. QED BY <1>1, <2>1, <2>6, <2>7, <3>1, <3>2, <3>3 DEF Exact
  <2>9. QED BY <2>1, <2>2, <2>8 DEF s
<1>4. CASE k < Half
  <2> DEFINE q == p + k
  <2>1. q \in p .. p + Half - 1 /\ q \in 0 .. Size /\ 0 \in 0 .. Size - q /\ 0 \in 0 .. Word
    BY <1>1, <1>4, Constants
  <2>2. Window(q, 0) = << >> /\ << >> \in Seq(Bit) /\ Len(<< >>) = 0
    BY ONLY <2>1, WindowFacts
  <2>3. s = [c EXCEPT !.word = << >>]
    <3>1. ~(Len(c.word) >= Half)
      BY <1>1, <1>4, Constants
    <3>2. QED BY <3>1 DEF SkipToFourByteBoundary
  <2>4. /\ s \in Cursors /\ s.word = << >> /\ s.fatal = c.fatal
        /\ s.bad = c.bad /\ s.next = c.next /\ s.at = c.at /\ s.size = c.size
    BY <1>1, <2>2, <2>3 DEF Cursors
  <2> HIDE DEF s
  <2>5. Exact(s, q)
    BY <1>1, <2>1, <2>2, <2>4, Constants DEF Exact
  <2>6. QED BY <1>1, <2>1, <2>5 DEF s
<1>5. QED BY <1>1, <1>3, <1>4, Constants

(* Asking for the end leaves the place, and finds the end where it is.     *)
LEMMA EndExact ==
  ASSUME NEW c, NEW p, Exact(c, p)
  PROVE  /\ Exact(AtEndOfStream(c).cursor, p)
         /\ AtEndOfStream(c).bits = IF p = Size THEN <<1>> ELSE <<0>>
<1> DEFINE f == FillCurrWord(c)
<1>1. /\ c \in Cursors /\ ~c.fatal /\ p \in 0 .. Size /\ Len(c.word) \in 0 .. Word
      /\ Len(c.word) <= Size - p /\ c.word \in Seq(Bit) /\ c.size \in {0, Npos}
  BY Constants DEF Exact, Cursors
<1>2. CASE c.word # << >>
  <2>1. Len(c.word) > 0
    BY <1>1, <1>2, EmptySeq
  <2>2. p # Size
    BY <1>1, <2>1, Constants
  <2>3. QED BY <1>2, <2>2 DEF AtEndOfStream, Answer
<1>3. CASE c.word = << >> /\ c.size # 0
  <2>1. c.bad /\ c.next = Npos /\ c.size = Npos /\ p = Size
    BY <1>1, <1>3, Constants DEF Exact
  <2>2. QED BY <1>3, <2>1 DEF AtEndOfStream, Answer
<1>4. CASE c.word = << >> /\ c.size = 0
  <2>1. AtEndOfStream(c) = Answer(f, IF f.word = << >> THEN <<1>> ELSE <<0>>)
    BY <1>4 DEF AtEndOfStream
  <2>2. CASE c.bad
    <3>1. p = Size /\ c.next = Npos
      BY <1>1, <1>4, <2>2, Constants DEF Exact
    <3>2. c.bad = TRUE /\ Available(c) = 0
      BY <1>1, <2>2 DEF Cursors, Available
    <3>3. f = [at |-> c.at, bad |-> TRUE, next |-> Npos, fatal |-> c.fatal,
               size |-> Npos, word |-> << >>]
      <4>1. /\ ~(c.size # 0 /\ c.next >= c.size) /\ (c.bad \/ Available(c) < Word) = TRUE
            /\ c.at + 0 = c.at
        BY <1>1, <1>4, <3>2 DEF Cursors
      <4>2. QED BY <1>4, <3>2, <4>1 DEF FillCurrWord
    <3>4. /\ f \in Cursors /\ f.bad = TRUE /\ f.next = Npos /\ f.fatal = c.fatal
          /\ f.size = Npos /\ f.word = << >>
      BY <1>1, <1>4, <3>3 DEF Cursors
    <3>5. Window(p, 0) = << >> /\ Len(<< >>) = 0
      <4>1. 0 \in 0 .. Size - p
        BY <1>1, Constants
      <4>2. QED BY ONLY <1>1, <4>1, WindowFacts
    <3> HIDE DEF f
    <3>6. Exact(f, p)
      BY <1>1, <3>1, <3>4, <3>5, Constants DEF Exact
    <3>7. QED BY <2>1, <3>1, <3>4, <3>6 DEF Answer
  <2>3. CASE ~c.bad
    <3>1. c.next = c.at /\ p = c.at /\ OnBoundary(c.at)
      BY <1>1, <1>4, <2>3 DEF Exact
    <3> PICK m : m = Available(c)
      OBVIOUS
    <3>2. /\ f \in Cursors /\ f.fatal = c.fatal /\ m \in 0 .. Word /\ c.at + m <= Size
          /\ m = Word \/ c.at + m = Size
          /\ f.at = c.at + m
          /\ f.bad => m < Word /\ f.next = Npos
          /\ ~f.bad => m = Word /\ f.next = f.at
          /\ m = 0 => f.word = c.word /\ f.size = Npos
          /\ m # 0 => f.size = 0 /\ f.word = Window(c.at, m) /\ Len(f.word) = m
      BY <1>1, <1>4, <2>3, <3>1, FillFacts
    <3>3. OnBoundary(c.at + m)
      <4>1. PICK j \in Nat : c.at = j * Half
        BY <3>1 DEF OnBoundary
      <4>2. CASE m = Word
        <5>1. c.at + m = (j + 2) * Half
          BY <4>1, <4>2, Constants
        <5>2. QED BY <5>1 DEF OnBoundary
      <4>3. CASE c.at + m = Size
        BY <4>3, Constants
      <4>4. QED BY <3>2, <4>2, <4>3
    <3>4. Window(p, 0) = << >> /\ Len(<< >>) = 0
      <4>1. 0 \in 0 .. Size - p
        BY <1>1, Constants
      <4>2. QED BY ONLY <1>1, <4>1, WindowFacts
    <3> HIDE DEF f
    <3>5. CASE m = 0
      <4>1. f.word = << >> /\ f.size = Npos /\ f.bad /\ f.next = Npos /\ p = Size
        BY <1>1, <1>4, <3>1, <3>2, <3>5, Constants
      <4>2. Exact(f, p)
        BY <1>1, <3>2, <3>4, <4>1, Constants DEF Exact
      <4>3. QED BY <2>1, <4>1, <4>2 DEF Answer, f
    <3>6. CASE m # 0
      <4>1. /\ Len(f.word) = m /\ m > 0 /\ f.size = 0 /\ f.word = Window(p, m)
            /\ p # Size /\ m <= Size - p /\ p + m = f.at
        BY <1>1, <3>1, <3>2, <3>6, Constants
      <4>2. f.word # << >>
        BY <4>1
      <4>3. f.bad => p + m = Size
        BY <3>1, <3>2, Constants
      <4>4. Exact(f, p)
        BY <1>1, <3>1, <3>2, <3>3, <4>1, <4>3, Constants DEF Exact
      <4>5. QED BY <2>1, <4>1, <4>2, <4>4 DEF Answer, f
    <3>7. QED BY <3>5, <3>6
  <2>4. QED BY <2>2, <2>3
<1>5. QED BY <1>2, <1>3, <1>4

-----------------------------------------------------------------------------
(* What every operation keeps, even for a client that runs past the end.   *)
Sound(c) == c \in Cursors /\ Len(c.word) <= Word

(* What is left, and what is taken, of a window are sequences of bits.     *)
LEMMA CutType ==
  ASSUME NEW s \in Seq(Bit), NEW n \in 0 .. Len(s)
  PROVE  /\ Drop(s, n) \in Seq(Bit) /\ Len(Drop(s, n)) = Len(s) - n
         /\ SubSeq(s, 1, n) \in Seq(Bit)
<1>1. \A i \in 1 .. Len(s) : s[i] \in Bit
  BY ElementOfSeq
<1>2. CASE n < Len(s) /\ n > 0
  BY <1>1, <1>2, SubSeqProperties DEF Drop
<1>3. CASE n = 0 /\ Len(s) > 0
  BY <1>1, <1>3, SubSeqProperties, SubSeqEmpty DEF Drop
<1>4. CASE n = Len(s)
  BY <1>1, <1>4, SubSeqProperties, SubSeqEmpty DEF Drop
<1>5. QED BY <1>2, <1>3, <1>4

(* Putting another window in place of a cursor's.                          *)
LEMMA WordType ==
  ASSUME NEW c, Sound(c), NEW w \in Seq(Bit), Len(w) <= Word
  PROVE  Sound([c EXCEPT !.word = w])
BY DEF Sound, Cursors

(* FillCurrWord keeps the cursor sound.                                    *)
LEMMA FillType ==
  ASSUME NEW c, Sound(c)
  PROVE  Sound(FillCurrWord(c))
<1> DEFINE n == Available(c)
<1>1. /\ c.at \in 0 .. Size /\ c.next \in 0 .. Size \cup {Npos} /\ c.size \in 0 .. Size \cup {Npos}
      /\ c.word \in Seq(Bit) /\ c.fatal \in BOOLEAN /\ Len(c.word) <= Word /\ c.bad \in BOOLEAN
  BY DEF Sound, Cursors
<1>2. n \in 0 .. Word /\ c.at + n \in 0 .. Size /\ n \in 0 .. Size - c.at
  BY <1>1, Constants DEF Available
<1>3. Window(c.at, n) \in Seq(Bit) /\ Len(Window(c.at, n)) = n
  BY ONLY <1>1, <1>2, WindowFacts
<1> HIDE DEF n
<1>4. CASE c.size # 0 /\ c.next >= c.size
  BY <1>4 DEF FillCurrWord, Sound, Cursors
<1>5. CASE ~(c.size # 0 /\ c.next >= c.size)
  <2>1. PICK b \in BOOLEAN : b = (c.bad \/ n < Word)
    <3>1. CASE c.bad \/ n < Word
      <4>1. (c.bad \/ n < Word) = TRUE
        BY <3>1
      <4>2. QED BY <4>1, Zenon
    <3>2. CASE ~(c.bad \/ n < Word)
      <4>1. (c.bad \/ n < Word) = FALSE
        BY <3>2
      <4>2. QED BY <4>1, Zenon
    <3>3. QED BY <3>1, <3>2
  <2> DEFINE next == IF b THEN Npos ELSE c.at + n
             size == IF n = 0 THEN next ELSE c.size
             word == IF n = 0 THEN c.word ELSE Window(c.at, n)
  <2>2. FillCurrWord(c) = [at |-> c.at + n, bad |-> b, next |-> next, fatal |-> c.fatal,
                           size |-> size, word |-> word]
    BY <1>5, <2>1 DEF FillCurrWord, Window, n
  <2>3. /\ next \in 0 .. Size \cup {Npos} /\ size \in 0 .. Size \cup {Npos}
        /\ word \in Seq(Bit) /\ Len(word) <= Word
    BY <1>1, <1>2, <1>3, Constants
  <2> HIDE DEF next, size, word
  <2>4. QED BY <1>1, <1>2, <2>2, <2>3 DEF Sound, Cursors
<1>6. QED BY <1>4, <1>5

(* So does Read, which returns bits, zeros when the stream ran short.      *)
LEMMA ReadType ==
  ASSUME NEW c, Sound(c), NEW n \in 1 .. Word
  PROVE  Sound(Read(c, n).cursor) /\ Read(c, n).bits \in Seq(Bit)
<1> DEFINE f == FillCurrWord(c)
           left == n - Len(c.word)
<1>1. Sound(f) /\ c.word \in Seq(Bit) /\ f.word \in Seq(Bit) /\ Len(c.word) <= Word
      /\ Len(f.word) <= Word /\ n \in Nat
  BY FillType, Constants DEF Sound, Cursors
<1> HIDE DEF f
<1>2. CASE Len(c.word) >= n
  <2>1. n \in 0 .. Len(c.word)
    BY <1>1, <1>2
  <2>2. /\ Drop(c.word, n) \in Seq(Bit) /\ Len(Drop(c.word, n)) <= Word
        /\ SubSeq(c.word, 1, n) \in Seq(Bit)
    BY <1>1, <2>1, CutType, Constants
  <2>3. Sound([c EXCEPT !.word = Drop(c.word, n)])
    BY <2>2, WordType
  <2>4. QED BY <1>2, <2>2, <2>3 DEF Read, Answer
<1>3. CASE ~(Len(c.word) >= n) /\ f.fatal
  <2>1. Read(c, n) = Answer(f, << >>)
    BY <1>3 DEF Read, f
  <2>2. QED BY <1>1, <2>1 DEF Answer
<1>4. CASE ~(Len(c.word) >= n) /\ ~f.fatal /\ left > Len(f.word)
  <2>1. Read(c, n) = Answer(f, Zeros(n))
    BY <1>4 DEF Read, f
  <2>2. Zeros(n) \in Seq(Bit)
    BY <1>1 DEF Zeros, Bit
  <2>3. QED BY <1>1, <2>1, <2>2 DEF Answer
<1>5. CASE ~(Len(c.word) >= n) /\ ~f.fatal /\ ~(left > Len(f.word))
  <2>1. left \in 0 .. Len(f.word)
    BY <1>1, <1>5
  <2>2. Read(c, n) = Answer([f EXCEPT !.word = Drop(f.word, left)],
                            c.word \o SubSeq(f.word, 1, left))
    BY <1>5 DEF Read, f
  <2> HIDE DEF left
  <2>3. /\ Drop(f.word, left) \in Seq(Bit) /\ Len(Drop(f.word, left)) <= Word
        /\ SubSeq(f.word, 1, left) \in Seq(Bit)
    BY <1>1, <2>1, CutType, Constants
  <2>4. Sound([f EXCEPT !.word = Drop(f.word, left)])
    BY <1>1, <2>3, WordType
  <2>5. c.word \o SubSeq(f.word, 1, left) \in Seq(Bit)
    BY <1>1, <2>3, ConcatProperties
  <2>6. QED BY <2>2, <2>4, <2>5 DEF Answer
<1>6. QED BY <1>2, <1>3, <1>4, <1>5

(* So does JumpToBit.                                                      *)
LEMMA JumpType ==
  ASSUME NEW c, Sound(c), NEW b \in 0 .. Size
  PROVE  Sound(JumpToBit(c, b))
<1> DEFINE m == b % Word
           w == b - m
           s == Seek(c, w)
<1>0. c \in Cursors /\ << >> \in Seq(Bit) /\ Len(<< >>) <= Word
  BY Constants DEF Sound
<1>1. m \in 0 .. Word - 1 /\ w \in 0 .. Size
  BY WordStart
<1> HIDE DEF m, w
<1>2. Sound(s)
  <2>1. CASE c.bad \/ w >= Size
    <3>1. s = [c EXCEPT !.bad = TRUE, !.at = c.at, !.next = Npos, !.word = << >>]
      <4>1. (c.bad \/ w >= Size) = TRUE
        BY <2>1
      <4>2. QED BY <4>1 DEF Seek
    <3>2. s \in Cursors /\ s.word = << >>
      BY <1>0, <3>1, Constants DEF Cursors
    <3>3. QED BY <1>0, <3>2 DEF Sound
  <2>2. CASE ~(c.bad \/ w >= Size)
    <3>1. s = [c EXCEPT !.bad = FALSE, !.at = w, !.next = w, !.word = << >>]
      <4>1. (c.bad \/ w >= Size) = FALSE
        BY <2>2
      <4>2. QED BY <4>1 DEF Seek
    <3>2. s \in Cursors /\ s.word = << >>
      BY <1>0, <1>1, <3>1, Constants DEF Cursors
    <3>3. QED BY <1>0, <3>2 DEF Sound
  <2>3. QED BY <2>1, <2>2
<1> HIDE DEF s
<1>3. JumpToBit(c, b) = IF m = 0 THEN s ELSE Read(s, m).cursor
  BY DEF JumpToBit, m, w, s
<1>4. m # 0 => m \in 1 .. Word
  BY <1>1, Constants
<1>5. QED BY <1>2, <1>3, <1>4, ReadType

(* So does SkipToFourByteBoundary.                                         *)
LEMMA AlignType ==
  ASSUME NEW c, Sound(c)
  PROVE  Sound(SkipToFourByteBoundary(c))
<1>1. c.word \in Seq(Bit) /\ Len(c.word) <= Word /\ << >> \in Seq(Bit) /\ Len(<< >>) <= Word
  BY Constants DEF Sound, Cursors
<1>2. CASE Len(c.word) >= Half
  <2> DEFINE n == Len(c.word) - Half
  <2>1. n \in 0 .. Len(c.word)
    BY <1>1, <1>2, Constants
  <2> HIDE DEF n
  <2>2. Drop(c.word, n) \in Seq(Bit) /\ Len(Drop(c.word, n)) <= Word
    BY <1>1, <2>1, CutType, Constants
  <2>3. SkipToFourByteBoundary(c) = [c EXCEPT !.word = Drop(c.word, n)]
    BY <1>2 DEF SkipToFourByteBoundary, n
  <2>4. QED BY <2>2, <2>3, WordType
<1>3. CASE ~(Len(c.word) >= Half)
  BY <1>1, <1>3, WordType DEF SkipToFourByteBoundary
<1>4. QED BY <1>2, <1>3

(* So does AtEndOfStream, which may fill the window.                       *)
LEMMA EndType ==
  ASSUME NEW c, Sound(c)
  PROVE  /\ Sound(AtEndOfStream(c).cursor)
         /\ AtEndOfStream(c).bits \in Seq(Bit)
<1>1. <<0>> \in Seq(Bit) /\ <<1>> \in Seq(Bit)
  BY DEF Bit
<1>2. Sound(FillCurrWord(c))
  BY FillType
<1>3. QED BY <1>1, <1>2 DEF AtEndOfStream, Answer

-----------------------------------------------------------------------------
(***************************************************************************)
(* The inductive invariant: the window alone does not say where the buffer *)
(* stands, so what is inductive is that the cursor is exactly at Place.    *)
(***************************************************************************)
IInv == TypeOK /\ (~overrun => Exact(cursor, Place))

(* A cursor that is exactly somewhere is at its place.                     *)
LEMMA ExactPlace ==
  ASSUME NEW p, Exact(cursor, p)
  PROVE  Place = p
<1>1. /\ cursor.bad => p + Len(cursor.word) = Size
      /\ ~cursor.bad => cursor.next = cursor.at /\ p + Len(cursor.word) = cursor.at
      /\ p \in Int /\ Len(cursor.word) \in Int
  BY Constants DEF Exact
<1>2. QED BY <1>1, Constants DEF Place, CurrBitNo

(* The same in the next state.                                             *)
LEMMA ExactPlaceNext ==
  ASSUME NEW p, Exact(cursor', p)
  PROVE  Place' = p
<1>1. /\ cursor'.bad => p + Len(cursor'.word) = Size
      /\ ~cursor'.bad => cursor'.next = cursor'.at /\ p + Len(cursor'.word) = cursor'.at
      /\ p \in Int /\ Len(cursor'.word) \in Int
  BY Constants DEF Exact
<1>2. QED BY <1>1, Constants DEF Place, CurrBitNo

(* A read within the stream returns the bits there and advances the place. *)
LEMMA ReadStep ==
  ASSUME IInv, NEW n \in 1 .. Word, ReadBits(n), ~overrun, Place + n <= Size
  PROVE  /\ Exact(cursor', Place + n) /\ ~overrun'
         /\ reply' = Window(Place, n)
<1>1. Place \in 0 .. Size /\ Exact(cursor, Place)
  BY DEF IInv, Exact
<1> PICK p : p = Place
  OBVIOUS
<1>2. Exact(Read(cursor, n).cursor, p + n) /\ Read(cursor, n).bits = Window(p, n)
  BY <1>1, ReadExact
<1>3. ~(p + n > Size)
  BY <1>1, Constants
<1>4. QED BY <1>2, <1>3 DEF ReadBits

(* A jump arrives.                                                         *)
LEMMA JumpStep ==
  ASSUME IInv, NEW b \in 0 .. Size, JumpTo(b), ~overrun
  PROVE  Exact(cursor', b)
BY JumpExact DEF IInv, JumpTo

(* Aligning moves the place to the next four-byte boundary.                *)
LEMMA AlignStep ==
  ASSUME IInv, AlignTo32, ~overrun
  PROVE  \E q \in Place .. Place + Half - 1 : OnBoundary(q) /\ Exact(cursor', q)
<1> PICK p : p = Place
  OBVIOUS
<1>1. QED BY AlignExact DEF IInv, AlignTo32

(* Asking for the end keeps the place and tells the truth.                 *)
LEMMA EndStep ==
  ASSUME IInv, CheckEnd, ~overrun
  PROVE  /\ Exact(cursor', Place)
         /\ reply' = IF Place = Size THEN <<1>> ELSE <<0>>
<1> PICK p : p = Place
  OBVIOUS
<1>1. QED BY EndExact DEF IInv, CheckEnd

(* The start.                                                              *)
LEMMA InitInv == Init => IInv /\ Place = 0
<1> SUFFICES ASSUME Init PROVE IInv /\ Place = 0
  OBVIOUS
<1>1. << >> \in Seq(Bit) /\ Len(<< >>) = 0 /\ 0 \in 0 .. Size /\ OnBoundary(0)
  <2>1. 0 = 0 * Half
    BY Constants
  <2>2. QED BY <2>1, Constants DEF OnBoundary
<1>2. Window(0, 0) = << >>
  <2>1. 0 \in 0 .. Size - 0
    BY Constants
  <2>2. QED BY ONLY <1>1, <2>1, WindowFacts
<1>3. /\ cursor \in Cursors /\ cursor.bad = FALSE /\ cursor.fatal = FALSE
      /\ cursor.word = << >> /\ cursor.next = 0 /\ cursor.at = 0 /\ cursor.size = 0
  BY <1>1 DEF Init, NewCursor, Cursors
<1>4. Exact(cursor, 0)
  BY <1>1, <1>2, <1>3, Constants DEF Exact
<1>5. TypeOK
  <2>1. cursor \in Cursors /\ Len(cursor.word) <= Word
    BY <1>1, <1>3, Constants
  <2>2. reply \in Seq(Bit) /\ overrun \in BOOLEAN
    BY <1>1 DEF Init
  <2>3. QED BY <2>1, <2>2 DEF TypeOK
<1>6. QED BY <1>4, <1>5, ExactPlace DEF IInv

(* Every operation keeps the invariant.                                    *)
LEMMA StepInv == IInv /\ [Next]_vars => IInv'
<1> SUFFICES ASSUME IInv, [Next]_vars PROVE IInv'
  OBVIOUS
<1>1. Sound(cursor) /\ reply \in Seq(Bit) /\ overrun \in BOOLEAN
  BY DEF IInv, TypeOK, Sound
<1>2. ASSUME NEW n \in 1 .. Word, ReadBits(n) PROVE IInv'
  <2>1. Sound(cursor') /\ reply' \in Seq(Bit)
    BY <1>1, <1>2, ReadType DEF ReadBits
  <2>2. overrun' \in BOOLEAN /\ (~overrun' => ~overrun /\ ~(Place + n > Size))
    BY <1>2 DEF ReadBits
  <2>3. ASSUME ~overrun' PROVE Exact(cursor', Place')
    <3>1. Place \in Int
      BY <2>2, <2>3, Constants DEF IInv, Exact
    <3>2. Place + n <= Size
      BY <2>2, <2>3, <3>1, Constants
    <3>3. Exact(cursor', Place + n)
      BY <1>2, <2>2, <2>3, <3>2, ReadStep
    <3>4. QED BY <3>3, ExactPlaceNext
  <2>4. QED BY <2>1, <2>2, <2>3 DEF IInv, TypeOK, Sound
<1>3. ASSUME NEW b \in 0 .. Size, JumpTo(b) PROVE IInv'
  <2>1. Sound(cursor') /\ reply' = reply /\ overrun' = overrun
    BY <1>1, <1>3, JumpType DEF JumpTo
  <2>2. ASSUME ~overrun' PROVE Exact(cursor', Place')
    <3>1. Exact(cursor', b)
      BY <1>3, <2>1, <2>2, JumpStep
    <3>2. QED BY <3>1, ExactPlaceNext
  <2>3. QED BY <1>1, <2>1, <2>2 DEF IInv, TypeOK, Sound
<1>4. ASSUME AlignTo32 PROVE IInv'
  <2>1. Sound(cursor') /\ reply' = reply /\ overrun' = overrun
    BY <1>1, <1>4, AlignType DEF AlignTo32
  <2>2. ASSUME ~overrun' PROVE Exact(cursor', Place')
    <3>1. PICK q : Exact(cursor', q)
      BY <1>4, <2>1, <2>2, AlignStep
    <3>2. QED BY <3>1, ExactPlaceNext
  <2>3. QED BY <1>1, <2>1, <2>2 DEF IInv, TypeOK, Sound
<1>5. ASSUME CheckEnd PROVE IInv'
  <2>1. Sound(cursor') /\ reply' \in Seq(Bit) /\ overrun' = overrun
    BY <1>1, <1>5, EndType DEF CheckEnd
  <2>2. ASSUME ~overrun' PROVE Exact(cursor', Place')
    <3>1. Exact(cursor', Place)
      BY <1>5, <2>1, <2>2, EndStep
    <3>2. QED BY <3>1, ExactPlaceNext
  <2>3. QED BY <1>1, <2>1, <2>2 DEF IInv, TypeOK, Sound
<1>6. CASE UNCHANGED vars
  BY <1>6 DEF vars, IInv, TypeOK, Place, CurrBitNo
<1>7. QED BY <1>2, <1>3, <1>4, <1>5, <1>6 DEF Next

(* The invariant holds in every reachable state.                           *)
LEMMA Invariance == Spec => []IInv
<1>1. Init => IInv
  BY InitInv
<1>2. IInv /\ [Next]_vars => IInv'
  BY StepInv
<1>3. QED BY <1>1, <1>2, PTL DEF Spec

(* The types of the variables, for every stream and word size.             *)
THEOREM TypeCorrect == Spec => []TypeOK
<1>1. IInv => TypeOK
  BY DEF IInv
<1>2. QED BY <1>1, Invariance, PTL

(* The window always holds the bits of the stream that follow the place of *)
(* the cursor: refills, jumps and alignment lose, repeat or mix up none.   *)
THEOREM WindowCorrect == Spec => []WindowInStream
<1>1. IInv => WindowInStream
  BY DEF IInv, WindowInStream, Exact, Window
<1>2. QED BY <1>1, Invariance, PTL

(* "Unexpected end of file" is thrown only at a client that read past it.  *)
THEOREM EndCorrect == Spec => []EndIsReal
<1>1. IInv => EndIsReal
  BY DEF IInv, EndIsReal, Exact
<1>2. QED BY <1>1, Invariance, PTL

(***************************************************************************)
(* The cursor implements the abstract bit source: every read returns the   *)
(* bits at its place, every jump arrives, alignment goes to the next       *)
(* boundary and the end is found where it is.                              *)
(***************************************************************************)
THEOREM CursorImplementsSource == Spec => ImplementsSource
<1>1. Init => Source!SourceInit
  BY InitInv DEF Init, Source!SourceInit
<1>2. IInv /\ [Next]_vars => [Source!SourceNext]_(Source!sourceVars)
  <2> SUFFICES ASSUME IInv, [Next]_vars
               PROVE  Source!SourceNext \/ UNCHANGED Source!sourceVars
    OBVIOUS
  <2>1. CASE overrun
    <3>1. CASE UNCHANGED vars
      BY <3>1 DEF vars, Source!sourceVars, Place, CurrBitNo
    <3>2. CASE Next
      <4>1. overrun' = TRUE
        BY <2>1, <3>2 DEF Next, ReadBits, JumpTo, AlignTo32, CheckEnd
      <4>2. QED BY <4>1 DEF Source!SourceNext, Source!Overrun
    <3>3. QED BY <3>1, <3>2
  <2>2. CASE ~overrun
    <3>0. Exact(cursor, Place) /\ Place \in 0 .. Size
      BY <2>2 DEF IInv, Exact
    <3>1. ASSUME NEW n \in 1 .. Word, ReadBits(n) PROVE Source!SourceNext
      <4>1. CASE Place + n <= Size
        <5>1. Exact(cursor', Place + n) /\ ~overrun' /\ reply' = Window(Place, n)
          BY <2>2, <3>1, <4>1, ReadStep
        <5>2. Place' = Place + n
          BY <5>1, ExactPlaceNext
        <5>3. /\ n \in 1 .. 2 * Half /\ Place + n <= Len(Stream) /\ overrun' = overrun
              /\ request' = <<"read", n>>
          BY <2>2, <3>1, <4>1, <5>1, Constants DEF ReadBits, IInv, TypeOK
        <5>4. Source!Take(n)
          BY <2>2, <5>1, <5>2, <5>3 DEF Source!Take, Window
        <5>5. QED BY <5>3, <5>4 DEF Source!SourceNext
      <4>2. CASE ~(Place + n <= Size)
        <5>1. Place + n > Size
          BY <3>0, <4>2, Constants
        <5>2. overrun' = TRUE
          BY <3>1, <5>1 DEF ReadBits
        <5>3. QED BY <5>2 DEF Source!SourceNext, Source!Overrun
      <4>3. QED BY <4>1, <4>2
    <3>2. ASSUME NEW b \in 0 .. Size, JumpTo(b) PROVE Source!SourceNext
      <4>1. Place' = b
        BY <2>2, <3>2, JumpStep, ExactPlaceNext
      <4>2. b \in 0 .. Len(Stream)
        BY Constants
      <4>3. Source!Jump(b)
        BY <2>2, <3>2, <4>1 DEF Source!Jump, JumpTo
      <4>4. QED BY <4>2, <4>3 DEF Source!SourceNext
    <3>3. ASSUME AlignTo32 PROVE Source!SourceNext
      <4>1. PICK q \in Place .. Place + Half - 1 : OnBoundary(q) /\ Exact(cursor', q)
        BY <2>2, <3>3, AlignStep
      <4>2. Place' = q /\ q \in 0 .. Size
        BY <4>1, ExactPlaceNext DEF Exact
      <4>3. q \in Source!Boundaries
        <5>1. PICK k \in Nat : q = k * Half
          BY <4>1 DEF OnBoundary
        <5>2. k <= k * Half
          BY <5>1, Constants
        <5>3. k \in 0 .. Len(Stream)
          BY <4>2, <5>1, <5>2, Constants
        <5>4. QED BY <5>1, <5>3 DEF Source!Boundaries
      <4>4. Source!Align
        BY <2>2, <3>3, <4>1, <4>2, <4>3 DEF Source!Align, AlignTo32
      <4>5. QED BY <4>4 DEF Source!SourceNext
    <3>4. ASSUME CheckEnd PROVE Source!SourceNext
      <4>1. Exact(cursor', Place) /\ reply' = IF Place = Size THEN <<1>> ELSE <<0>>
        BY <2>2, <3>4, EndStep
      <4>2. Place' = Place
        BY <4>1, ExactPlaceNext
      <4>3. Source!AskEnd
        BY <2>2, <3>4, <4>1, <4>2, Constants DEF Source!AskEnd, CheckEnd
      <4>4. QED BY <4>3 DEF Source!SourceNext
    <3>5. CASE UNCHANGED vars
      BY <3>5 DEF vars, Source!sourceVars, Place, CurrBitNo
    <3>6. QED BY <3>1, <3>2, <3>3, <3>4, <3>5 DEF Next
  <2>3. QED BY <2>1, <2>2
<1>3. QED BY <1>1, <1>2, Invariance, PTL DEF Spec, ImplementsSource, Source!SourceSpec
=============================================================================
