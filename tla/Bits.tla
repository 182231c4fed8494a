-------------------------------- MODULE Bits --------------------------------
(***************************************************************************)
(* Bit fields (a6/help.c): an array of words of BitsPerLong bits, here the *)
(* set of the numbers of the bits that are 1.  Testing and clearing a bit  *)
(* are membership and \ {b}; setting a range goes word by word.            *)
(***************************************************************************)
EXTENDS Integers

CONSTANT BitsPerLong    \* bits in a word, 64 in the code

ASSUME BitsPerLongAssumption == BitsPerLong \in Nat \ {0}

\* The word of a bit, and the first bit of a word.
Word(b) == b \div BitsPerLong
FirstBit(w) == BitsPerLong * w

\* Both ends of a range are forced into a field of n bits.
Clamp(b, n) == IF b < 0 THEN 0 ELSE IF b >= n THEN n - 1 ELSE b
RangeFirst(r, n) == IF Clamp(r[1], n) > Clamp(r[2], n) THEN Clamp(r[2], n) ELSE Clamp(r[1], n)
RangeLast(r, n) == Clamp(r[2], n)

\* The bits a caller of bits_setrange() means.
BitRange(r, n) == RangeFirst(r, n) .. RangeLast(r, n)

(***************************************************************************)
(* The mask of the low word is made with a shift by BitsPerLong - bit + 1. *)
(* For bit 1 that is the width of the word, which C leaves undefined: the  *)
(* mask is empty if the processor takes the count modulo the width, and    *)
(* exact if it shifts everything out.                                      *)
(***************************************************************************)
Undefined(r, n) ==
    /\ Word(RangeFirst(r, n)) # Word(RangeLast(r, n))
    /\ RangeFirst(r, n) = FirstBit(Word(RangeFirst(r, n))) + 1

\* Mutant: the whole of the low word is set.
LowWordWhole(r, n, lost) ==
    FirstBit(Word(RangeFirst(r, n))) .. FirstBit(Word(RangeFirst(r, n)) + 1) - 1

LowWord(r, n, lost) ==
    IF Undefined(r, n) /\ lost THEN {}
    ELSE RangeFirst(r, n) .. FirstBit(Word(RangeFirst(r, n)) + 1) - 1

MiddleWords(r, n) == FirstBit(Word(RangeFirst(r, n)) + 1) .. FirstBit(Word(RangeLast(r, n))) - 1
HighWord(r, n) == FirstBit(Word(RangeLast(r, n))) .. RangeLast(r, n)

\* Mutant: the ends of the range are taken as they are.
SetRangeUnclamped(r, n, lost) == r[1] .. r[2]

\* The bits that bits_setrange() sets.
SetRange(r, n, lost) ==
    IF Word(RangeFirst(r, n)) = Word(RangeLast(r, n))
    THEN BitRange(r, n)
    ELSE LowWord(r, n, lost) \cup MiddleWords(r, n) \cup HighWord(r, n)

=============================================================================
