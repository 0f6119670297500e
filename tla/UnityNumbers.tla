---------------------------- MODULE UnityNumbers ----------------------------
(***************************************************************************)
(* How Unity converts and prints integers (unity/src/unity.c,              *)
(* unity_internals.h).  A byte is two nibbles; every integer goes through  *)
(* UNITY_INT, the widest type, and is printed in a display style, which    *)
(* has a range and a size in bytes.                                        *)
(*                                                                         *)
(* A UNITY_INT is an integer, a UNITY_UINT a natural number, and a text a  *)
(* sequence of ASCII codes.                                                *)
(***************************************************************************)
EXTENDS Integers, SequencesExt

CONSTANTS
  NibbleBits,   \* bits of a nibble, 4 in the code
  IntBytes,     \* bytes of a UNITY_INT, 8 with 64-bit support
  IntWidth,     \* bytes of an int, UNITY_INT_WIDTH / 8
  NULL          \* the null pointer

ASSUME NumbersAssumption ==
  /\ NibbleBits \in 1..4
  /\ IntBytes \in Nat \ {0}
  /\ IntWidth \in 1..IntBytes

Bits(bytes) == 2 * NibbleBits * bytes

(* What a power of two is, as far as the widest type: the provers have no  *)
(* definition of ^.                                                        *)
ASSUME PowersAssumption ==
  2^0 = 1 /\ \A k \in 0..Bits(IntBytes) - 1 : 2^(k + 1) = 2 * 2^k

\* Conversion to the unsigned and to the signed type of that many bytes.
ToUnsigned(n, bytes) == n % 2^Bits(bytes)

ToSigned(n, bytes) ==
  LET u == ToUnsigned(n, bytes)
  IN  IF u < 2^(Bits(bytes) - 1) THEN u ELSE u - 2^Bits(bytes)

UNITY_INT == -(2^(Bits(IntBytes) - 1)) .. 2^(Bits(IntBytes) - 1) - 1

BitOf(n, i) == (ToUnsigned(n, IntBytes) \div 2^i) % 2

SameUnder(mask, m, n) ==
  \A i \in 0..Bits(IntBytes) - 1 : BitOf(mask, i) = 1 => BitOf(m, i) = BitOf(n, i)

-----------------------------------------------------------------------------

Minus == 45
Quote == 39
Backslash == 92
Zero == 48
LetterX == 88
Printable == 32..126

Digit(d) == IF d <= 9 THEN Zero + d ELSE 65 + d - 10

UnityPrintNumberUnsigned(n) ==
  LET Divisor[d \in Nat] ==
        IF n \div d > 9 THEN Divisor[ToUnsigned(d * 10, IntBytes)] ELSE d
      From[d \in Nat] ==
        IF d = 0 THEN <<>> ELSE <<Digit((n \div d) % 10)>> \o From[d \div 10]
  IN  From[Divisor[1]]

(* A slip: the complement is taken for the negation.                       *)
PrintNumberComplement(n) ==
  IF n < 0 THEN <<Minus>> \o UnityPrintNumberUnsigned(ToUnsigned(-n - 1, IntBytes))
           ELSE UnityPrintNumberUnsigned(n)

\* (~number) + 1 is the magnitude, that of the least number included.
UnityPrintNumber(n) ==
  IF n < 0 THEN <<Minus>> \o UnityPrintNumberUnsigned(ToUnsigned(-n, IntBytes))
           ELSE UnityPrintNumberUnsigned(n)

(* A slip: the digits are counted in bytes.                                *)
PrintHexBytes(u, nibbles) ==
  [i \in 1..(nibbles \div 2) |->
     Digit((u \div 2^(NibbleBits * (nibbles \div 2 - i))) % 2^NibbleBits)]

UnityPrintNumberHex(u, nibbles) ==
  LET count == Min({nibbles, 2 * IntBytes})
  IN  [i \in 1..count |-> Digit((u \div 2^(NibbleBits * (count - i))) % 2^NibbleBits)]

(* A slip: a bit left out is printed as it is.                             *)
PrintMaskAll(mask, n) ==
  [i \in 1..Bits(IntWidth) |-> Zero + BitOf(n, Bits(IntWidth) - i)]

UnityPrintMask(mask, n) ==
  LET width == Bits(IntWidth)
  IN  [i \in 1..width |-> IF BitOf(mask, width - i) = 0 THEN LetterX
                          ELSE Zero + BitOf(n, width - i)]

(* A slip: negative and control characters pass for printable ones.        *)
PrintCharacterLow(n) ==
  IF n <= 126 THEN <<n>>
  ELSE <<Backslash, 120>> \o UnityPrintNumberHex(ToUnsigned(n, IntBytes), 2)

\* Shared by UnityPrintChar, UnityPrintLen and the CHAR style.
PrintCharacter(n) ==
  CASE n \in Printable -> <<n>>
    [] n = 13          -> <<Backslash, 114>>
    [] n = 10          -> <<Backslash, 110>>
    [] OTHER           -> <<Backslash, 120>>
                            \o UnityPrintNumberHex(ToUnsigned(n, IntBytes), 2)

UnityPrintNumberByStyle(n, style) ==
  CASE style.range = "CHAR" -> <<Quote>> \o PrintCharacter(n) \o <<Quote>>
    [] style.range = "INT"  -> UnityPrintNumber(n)
    [] style.range = "UINT" -> UnityPrintNumberUnsigned(ToUnsigned(n, IntBytes))
    [] style.range = "HEX"  -> <<Zero, 120>>
         \o UnityPrintNumberHex(ToUnsigned(n, IntBytes), 2 * style.size)

UnityPrintLen(s, length) ==
  IF s = NULL THEN <<>>
  ELSE FlattenSeq([i \in 1..Min({length, Len(s)}) |-> PrintCharacter(s[i])])

-----------------------------------------------------------------------------

\* The number a text of digits reads as.
Read(digits, base) ==
  LET value(c) == IF c >= 65 THEN c - 55 ELSE c - 48
      prefix[k \in 0..Len(digits)] ==
        IF k = 0 THEN 0 ELSE base * prefix[k - 1] + value(digits[k])
  IN  prefix[Len(digits)]
=============================================================================
