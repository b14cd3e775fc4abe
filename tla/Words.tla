------------------------------- MODULE Words -------------------------------
(***************************************************************************)
(* Unsigned words of 2 * half values, as RTP uses them: 16-bit sequence       *)
(* numbers (half = 2^15) and 32-bit timestamps (half = 2^31).  For arguments  *)
(* that are words, Plus and Minus are Go's + and -, that is % (2 * half).     *)
(***************************************************************************)
EXTENDS Integers

CONSTANTS
  SeqHalf,  \* half the range of a sequence number, 2^15 in the code
  TsHalf    \* half the range of a timestamp, 2^31

Word(half) == 0 .. 2 * half - 1

Plus(a, b, half) == IF a + b < 2 * half THEN a + b ELSE a + b - 2 * half

Minus(a, b, half) == IF a >= b THEN a - b ELSE a - b + 2 * half

\* The word read as a two's complement number, int16(w) in Go.
Signed(w, half) == IF w < half THEN w ELSE w - 2 * half

\* Mutant of Newer: the words are compared as numbers.
NewerUnsigned(a, b, half) == a > b

\* seqNewer: a is ahead of b by less than half the range.
Newer(a, b, half) == Signed(Minus(a, b, half), half) > 0

Abs(i) == IF i < 0 THEN -i ELSE i
=============================================================================
