------------------------------- MODULE Arithmetic -------------------------------
(***************************************************************************)
(* The numbers of constants: integers of up to Bits bits (MPInt.cpp),      *)
(* which the code keeps in one 64-bit word each, and half precision floats *)
(* (Half.cpp).  An accumulator goes through a sequence of operations;      *)
(* exact is what whole numbers would have given.                           *)
(***************************************************************************)
EXTENDS Integers, Sequences, FiniteSets
LOCAL INSTANCE SequencesExt
LOCAL INSTANCE Bitwise

CONSTANTS
  Bits,     \* MPINT_BITS_PER_WORD
  MaxOps,   \* bound: operations on one accumulator
  Halves    \* the half floats converted, as their 16 bits

VARIABLES acc, exact, done

vars == <<acc, exact, done>>

Word == 2^Bits

(* The constructor clears the bits above the width, and so do the          *)
(* operators that assign, with ClearUnusedBits, where they do.             *)
MPInt(width, val) == [width |-> width, val |-> val % 2^width]

ClearUnusedBits(a) == [a EXCEPT !.val = @ % 2^a.width]

Raw(a, val) == [a EXCEPT !.val = val % Word]

-----------------------------------------------------------------------------
Plus(a, b)      == MPInt(a.width, (a.val + b.val) % Word)
Minus(a, b)     == MPInt(a.width, (a.val - b.val) % Word)
Times(a, b)     == MPInt(a.width, (a.val * b.val) % Word)
BitAnd(a, b)    == MPInt(a.width, a.val & b.val)
BitOr(a, b)     == MPInt(a.width, a.val | b.val)
BitXor(a, b)    == MPInt(a.width, a.val ^^ b.val)
Negate(a)       == Minus(MPInt(a.width, 0), a)
FlipAllBits(a)  == ClearUnusedBits(Raw(a, Word - 1 - a.val))
Increment(a)    == ClearUnusedBits(Raw(a, a.val + 1))
Decrement(a)    == ClearUnusedBits(Raw(a, a.val - 1))
SetBit(a, pos)   == Raw(a, a.val | 2^pos)
ClearBit(a, pos) == Raw(a, a.val & (Word - 1 - 2^pos))

PlusAssign(a, b)  == ClearUnusedBits(Raw(a, a.val + b.val))
TimesAssign(a, b) == ClearUnusedBits(Raw(a, a.val * b.val))

(* Alone among them, <<= leaves what it shifts out in the word.            *)
ShlAssign(a, shift) == Raw(a, IF shift >= a.width THEN 0 ELSE a.val * 2^shift)

LimitedValue(a, limit) == IF a.val > limit THEN limit ELSE a.val

Shl(a, shift)  == MPInt(a.width, IF shift >= a.width THEN 0 ELSE (a.val * 2^shift) % Word)
LShr(a, shift) == MPInt(a.width, IF shift >= a.width THEN 0 ELSE a.val \div 2^shift)

(* The word as int64_t.                                                    *)
Signed(val) == IF val >= Word \div 2 THEN val - Word ELSE val

(* Mutated: the sign is looked for in the word as it is.                   *)
SExtValueOfWord(a) == Signed(a.val)

SExtValue(a) == Signed((a.val * 2^(Bits - a.width)) % Word) \div 2^(Bits - a.width)

(* Shifted by the whole of its width, a negative number becomes zero.      *)
AShr(a, shift) ==
  CASE shift = 0       -> a
    [] shift = a.width -> MPInt(a.width, 0)
    [] OTHER           -> MPInt(a.width, (SExtValue(a) \div 2^shift) % Word)

Trunc(a, width) == MPInt(width, a.val)
ZExt(a, width)  == MPInt(width, a.val)

(* The word is unsigned when it is shifted back: the sign is not extended. *)
SExt(a, width) ==
  LET top == ((a.val * 2^(Bits - a.width)) % Word) \div 2^(width - a.width)
  IN  MPInt(width, top \div 2^(Bits - width))

SExtOrTrunc(a, width) ==
  CASE a.width < width -> SExt(a, width)
    [] a.width > width -> Trunc(a, width)
    [] OTHER           -> a

ZExtOrSelf(a, width) == IF a.width < width THEN ZExt(a, width) ELSE a

RECURSIVE SplatFrom(_, _)
SplatFrom(a, from) ==
  IF from >= a.width THEN a ELSE SplatFrom(BitOr(a, Shl(a, from)), from * 2)

Splat(width, a) == SplatFrom(ZExtOrSelf(a, width), a.width)

AllOnesValue(width) == MPInt(width, Word - 1)

LowBitsSet(width, n) ==
  CASE n = 0     -> MPInt(width, 0)
    [] n <= Bits -> MPInt(width, (Word - 1) \div 2^(Bits - n))
    [] OTHER     -> LShr(AllOnesValue(width), width - n)

BitAt(val, pos)      == (val \div 2^pos) % 2 = 1
CountPopulation(a)   == Cardinality({p \in 0 .. Bits - 1 : BitAt(a.val, p)})
ZerosAbove(val)      == Bits - Cardinality({p \in 0 .. Bits - 1 : val >= 2^p})
CountLeadingZeros(a) == ZerosAbove(a.val) - (Bits - a.width)
ActiveBits(a)        == a.width - CountLeadingZeros(a)

IsNegative(a)       == BitAt(a.val, a.width - 1)
IsPowerOf2(a)       == CountPopulation(a) = 1
IsAllOnesValue(a)   == a.val = (Word - 1) \div 2^(Bits - a.width)
IsMaxSignedValue(a) == ~IsNegative(a) /\ CountPopulation(a) = a.width - 1
IsMinSignedValue(a) == IsNegative(a) /\ IsPowerOf2(a)

-----------------------------------------------------------------------------
(* Text is a sign and its digits.  The bit width that the digits take is   *)
(* asserted to be enough.                                                  *)
ShiftOf(radix) == CASE radix = 16 -> 4 [] radix = 8 -> 3 [] radix = 2 -> 1 [] OTHER -> 0

TakeDigit(a, digit, radix, many) ==
  LET moved == IF ~many THEN a
               ELSE IF ShiftOf(radix) # 0 THEN ShlAssign(a, ShiftOf(radix))
               ELSE TimesAssign(a, MPInt(a.width, radix))
  IN  PlusAssign(moved, [width |-> a.width, val |-> digit])

FromString(width, str, radix) ==
  LET a == FoldLeft(LAMBDA v, d : TakeDigit(v, d, radix, Len(str.digits) > 1), MPInt(width, 0), str.digits)
  IN  IF str.neg THEN FlipAllBits(Decrement(a)) ELSE a

RECURSIVE Digits(_, _)
Digits(n, radix) == IF n = 0 THEN <<>> ELSE Append(Digits(n \div radix, radix), n % radix)

ToDigits(a, radix, isSigned) ==
  LET n == IF isSigned THEN SExtValue(a) ELSE a.val
  IN  IF a.val = 0 THEN [neg |-> FALSE, digits |-> <<0>>]
      ELSE [neg |-> n < 0, digits |-> Digits(IF n < 0 THEN -n ELSE n, radix)]

-----------------------------------------------------------------------------
(* half <-> float.  A float is its sign, exponent field and significand    *)
(* field; a half is 16 bits.                                               *)
SignOf(h) == h \div 2^15
ExpOf(h)  == (h \div 2^10) % 2^5
ManOf(h)  == h % 2^10

RECURSIVE Renormalize(_, _)
Renormalize(e, m) == IF m >= 2^10 THEN <<e + 1, m - 2^10>> ELSE Renormalize(e - 1, m * 2)

(* The exponents of zero and of the infinities are taken for ordinary ones.*)
ToFloat(h) ==
  LET n == IF ExpOf(h) = 0 /\ ManOf(h) # 0 THEN Renormalize(0, ManOf(h)) ELSE <<ExpOf(h), ManOf(h)>>
      e == IF ExpOf(h) = 31 /\ ManOf(h) # 0 THEN 255 - 112 ELSE n[1]
  IN  [s |-> SignOf(h), e |-> e + 112, m |-> n[2] * 2^13]

Round(m) == IF BitAt(m, 12) THEN m + 2^13 ELSE m

(* s | e << 10 | m >> 13, in 16 bits                                       *)
Packed(s, e, m) == ((s * 2^15) | ((e * 2^10) % 2^16)) | (m \div 2^13)

FromFloat(f) ==
  LET e == f.e - 112
      r == Round(f.m)
  IN  CASE e < -10  -> 0
        [] e \in -10 .. 0 -> Packed(f.s, 0, Round((f.m + 2^23) \div 2^(1 - e)))
        [] e = 143  -> Packed(f.s, 31, f.m)
        [] OTHER    -> IF r >= 2^23 THEN Packed(f.s, e + 1, 0) ELSE Packed(f.s, e, r)

-----------------------------------------------------------------------------
MPInts(width) == {MPInt(width, v) : v \in 0 .. 2^width - 1}

Init ==
  /\ \E width \in 1 .. Bits : acc \in MPInts(width)
  /\ exact = acc.val
  /\ done = 0

Step(a, value) ==
  /\ done < MaxOps
  /\ done' = done + 1
  /\ acc' = a
  /\ exact' = value % 2^a.width

Calculate ==
  \E b \in MPInts(acc.width) :
    \/ Step(Plus(acc, b), exact + b.val)
    \/ Step(Minus(acc, b), exact - b.val)
    \/ Step(Times(acc, b), exact * b.val)

Combine ==
  \E b \in MPInts(acc.width) :
    \/ Step(BitAnd(acc, b), exact & b.val)
    \/ Step(BitOr(acc, b), exact + b.val - (exact & b.val))
    \/ Step(BitXor(acc, b), exact + b.val - 2 * (exact & b.val))

Count ==
  \/ Step(Increment(acc), exact + 1)
  \/ Step(Decrement(acc), exact - 1)
  \/ Step(Negate(acc), -exact)
  \/ Step(FlipAllBits(acc), -exact - 1)

AsSigned(n, width) == IF n >= 2^(width - 1) THEN n - 2^width ELSE n

Shift ==
  \E n \in 0 .. acc.width :
    \/ Step(Shl(acc, LimitedValue(MPInt(acc.width, n), acc.width)), exact * 2^(n % 2^acc.width))
    \/ Step(LShr(acc, n), exact \div 2^n)
    \/ n < acc.width /\ Step(AShr(acc, n), AsSigned(exact, acc.width) \div 2^n)

Resize ==
  \E width \in 1 .. Bits :
    \/ width < acc.width /\ Step(Trunc(acc, width), exact)
    \/ Step(ZExtOrSelf(acc, width), exact)
    \/ width <= acc.width /\ Step(SExtOrTrunc(acc, width), AsSigned(exact, acc.width))
    \/ /\ width > acc.width /\ width % acc.width = 0
       /\ Step(Splat(width, acc), exact * ((2^width - 1) \div (2^acc.width - 1)))
    \/ width <= acc.width /\ Step(LowBitsSet(acc.width, width), 2^width - 1)

Set ==
  \E pos \in 0 .. acc.width - 1 :
    \/ Step(SetBit(acc, pos), IF BitAt(exact, pos) THEN exact ELSE exact + 2^pos)
    \/ Step(ClearBit(acc, pos), IF BitAt(exact, pos) THEN exact - 2^pos ELSE exact)

Reread ==
  \E radix \in {2, 8, 10, 16}, isSigned \in BOOLEAN :
    Step(FromString(acc.width, ToDigits(acc, radix, isSigned), radix), exact)

Next == Calculate \/ Combine \/ Count \/ Shift \/ Resize \/ Set \/ Reread

Spec == Init /\ [][Next]_vars

-----------------------------------------------------------------------------
(* The number whose two's complement of width bits is n has this many      *)
(* bits that say more than its sign or its size.                           *)
Size(n) == CHOOSE k \in 0 .. Bits : n < 2^k /\ (k = 0 \/ n >= 2^(k - 1))

(***************************************************************************)
(* However long the sequence, an integer is what arithmetic modulo 2^width *)
(* gives, with no bit set above its width, and its questions are answered  *)
(* of that number; and every half but the zeros survives being a float.    *)
(***************************************************************************)
ArithmeticExact ==
  /\ acc.val = exact
  /\ SExtValue(acc) = AsSigned(exact, acc.width)
  /\ ActiveBits(acc) = Size(exact)
  /\ IsNegative(acc) <=> SExtValue(acc) < 0
  /\ IsAllOnesValue(acc) <=> exact = 2^acc.width - 1
  /\ IsMinSignedValue(acc) <=> SExtValue(acc) = -(2^(acc.width - 1))
  /\ IsMaxSignedValue(acc) <=> SExtValue(acc) = 2^(acc.width - 1) - 1

(* The conversions do not depend on the accumulator: they are checked once.*)
HalvesSurvive ==
  done = 0 /\ acc = MPInt(1, 0) => \A h \in Halves : FromFloat(ToFloat(h)) = h

NumbersExact == ArithmeticExact /\ HalvesSurvive
=============================================================================
