-------------------------- MODULE UnityFloatPrint ---------------------------
(***************************************************************************)
(* UnityPrintFloat (unity/src/unity.c): scale a number to an integer of    *)
(* sig_digits digits, round it, place the decimal point, and print.        *)
(*                                                                         *)
(* A number is a fraction num / den.  Each multiplication and division of  *)
(* the code rounds to the significand of a UNITY_DOUBLE, ties to even; its *)
(* other operations on numbers are exact, as are the powers of ten.  The   *)
(* exponents of the format do not end where the numbers are scaled to.     *)
(***************************************************************************)
EXTENDS Integers, FiniteSets, SequencesExt

CONSTANTS
  sig_digits,    \* 9 with UNITY_INCLUDE_DOUBLE, 7 without
  BigExponent,   \* of the large power of ten of the first scaling, 10
  Significand,   \* the bits of a UNITY_DOUBLE: 53 with UNITY_INCLUDE_DOUBLE, 24 without
  MaxExponent,   \* bound on the powers of ten searched
  MaxShift,      \* bound on the powers of two searched
  Numbers        \* the numbers printed

min_scaled == 10^(sig_digits - 1)
max_scaled == 10^sig_digits

(* The powers of ten and the integers of the code are numbers of its type. *)
ASSUME FloatPrintAssumption ==
  /\ sig_digits \in Nat \ {0}
  /\ MaxExponent \in Nat /\ sig_digits + 4 <= MaxExponent
  /\ BigExponent \in sig_digits..MaxExponent
  /\ MaxShift \in Nat /\ MaxExponent <= MaxShift /\ Significand \in 1..MaxShift
  /\ max_scaled <= 2^Significand /\ 5^BigExponent <= 2^Significand
  /\ 2 * (MaxExponent + 1) <= 2^Significand
  /\ \A x \in Numbers : x.num \in Int /\ x.den \in Nat \ {0}

(* What powers are, as far as the exponents go: the provers have no        *)
(* definition of ^.                                                        *)
ASSUME TensAssumption ==
  10^0 = 1 /\ \A k \in 0..MaxExponent - 1 : 10^(k + 1) = 10 * 10^k

ASSUME TwosAssumption ==
  2^0 = 1 /\ \A k \in 0..MaxShift - 1 : 2^(k + 1) = 2 * 2^k

VARIABLES
  input_number,
  phase,      \* "input", "scaled", "rounded" or "printed"
  number, exponent, n_int, n,
  text        \* what is printed, in ASCII codes
float_vars == <<input_number, phase, number, exponent, n_int, n, text>>

-----------------------------------------------------------------------------
(* Fractions, exactly.                                                     *)

Rat(num, den) == [num |-> num, den |-> den]
AtMost(x, m) == x.num <= m * x.den
Below(x, m) == x.num < m * x.den
Less(x, y) == x.num * y.den < y.num * x.den

\* The j up to k for which 2^j is the largest to divide both.
CommonTwos(a, b, k) ==
  LET Divides(j) == a % 2^j = 0 /\ b % 2^j = 0
  IN  CHOOSE j \in 0..k : Divides(j) /\ (j = k \/ ~Divides(j + 1))

\* x * 10^k, for a positive or a negative k; common twos are cancelled.
TimesTen(x, k) ==
  IF k < 0
  THEN LET twos == 2^CommonTwos(x.num, 10^(-k), -k)
       IN  Rat(x.num \div twos, x.den * (10^(-k) \div twos))
  ELSE LET twos == 2^CommonTwos(x.den, 10^k, k)
       IN  Rat(x.num * (10^k \div twos), x.den \div twos)

Floor(x) == x.num \div x.den

Absolute(x) == Rat(IF x.num < 0 THEN -x.num ELSE x.num, x.den)

Nearest(x) == (Floor(Rat(2 * x.num, x.den)) + 1) \div 2

Halfway(m, x) == 2 * (m * x.den - x.num) = x.den

NearestEven(x) ==
  LET m == Nearest(x) IN IF m % 2 = 1 /\ Halfway(m, x) THEN m - 1 ELSE m

-----------------------------------------------------------------------------
(* Numbers of the type UNITY_DOUBLE.                                       *)

\* The least power of two that brings x up to, or down below, a significand.
Up(x) ==
  LET Enough(k) == x.num * 2^k >= 2^(Significand - 1) * x.den
  IN  CHOOSE k \in 0..MaxShift : Enough(k) /\ \A l \in 0..k - 1 : ~Enough(l)
Down(x) ==
  LET Enough(k) == x.num < 2^Significand * x.den * 2^k
  IN  CHOOSE k \in 0..MaxShift : Enough(k) /\ \A l \in 0..k - 1 : ~Enough(l)

Rounded(x) ==
  IF x.num = 0 THEN x
  ELSE Rat(NearestEven(Rat(x.num * 2^Up(x), x.den * 2^Down(x))) * 2^Down(x), 2^Up(x))

IsFloat(x) == x.num * Rounded(x).den = Rounded(x).num * x.den

\* number * 10^k and number / 10^k.
Multiplied(x, k) == Rounded(Rat(x.num * 10^k, x.den))
Divided(x, k) == Rounded(Rat(x.num, x.den * 10^k))

\* After k turns of the first loop that scales up, and of the one that scales down.
ScaledUp(x, k) ==
  LET after[j \in 0..MaxExponent] ==
        IF j = 0 THEN x ELSE Multiplied(after[j - 1], BigExponent)
  IN  after[k]
ScaledDown(x, k) ==
  LET after[j \in 0..MaxExponent] ==
        IF j = 0 THEN x ELSE Divided(after[j - 1], BigExponent)
  IN  after[k]

(* The numbers are those of the type, none too large or too small for the  *)
(* first scaling and the shifts to reach it within their bounds.           *)
ASSUME RangeAssumption ==
  /\ 2^Significand * (10^BigExponent * max_scaled) <= 2^MaxShift
  /\ \A x \in Numbers :
       LET m == Absolute(x)
       IN  /\ m.num < 2^MaxShift /\ 2^Significand * m.den <= 2^MaxShift
           /\ IsFloat(m)
           /\ m.num # 0 /\ Below(m, 1) =>
                \E k \in 0..MaxExponent :
                  /\ BigExponent * (k + 1) <= MaxExponent
                  /\ ~AtMost(TimesTen(m, BigExponent * (k + 1)), 2 * max_scaled)
           /\ ~AtMost(m, max_scaled) =>
                \E k \in 0..MaxExponent :
                  /\ BigExponent * (k + 1) < MaxExponent
                  /\ Below(TimesTen(Rat(2 * m.num, m.den), -(BigExponent * (k + 1))), min_scaled)

-----------------------------------------------------------------------------

\* The number of turns of a loop that stops when done holds.
Turns(done(_)) ==
  CHOOSE k \in 0..MaxExponent : done(k) /\ \A l \in 0..k - 1 : ~done(l)

\* NaN, and the infinities, as fractions over zero.
Specials == {Rat(0, 0), Rat(1, 0), Rat(-1, 0)}

FloatPrintInit ==
  /\ input_number \in Numbers \cup Specials
  /\ phase = "input"
  /\ number = Rat(0, 1) /\ exponent = 0 /\ n_int = 0 /\ n = 0
  /\ text = <<>>

PrintSpecial ==
  /\ phase = "input"
  /\ \/ input_number.den # 0 /\ input_number.num = 0 /\ text' = <<48>>
     \/ input_number = Rat(0, 0)  /\ text' = <<110, 97, 110>>
     \/ input_number = Rat(1, 0)  /\ text' = <<105, 110, 102>>
     \/ input_number = Rat(-1, 0) /\ text' = <<45, 105, 110, 102>>
  /\ phase' = "printed"
  /\ UNCHANGED <<input_number, number, exponent, n_int, n>>

Magnitude == Absolute(input_number)

\* The minus sign, and the number scaled to y * 10^e, with an integer split off.
Begin(y, e, split) ==
  /\ text' = (IF input_number.num < 0 THEN <<45>> ELSE <<>>)
  /\ number' = y /\ exponent' = e /\ n_int' = split
  /\ phase' = "scaled"
  /\ UNCHANGED <<input_number, n>>

Splits == phase = "input" /\ input_number.den # 0 /\ input_number.num # 0

ScaleUp ==
  /\ Splits /\ Below(Magnitude, 1)
  /\ LET enough == Divided(Rat(max_scaled, 1), BigExponent)
         big == Turns(LAMBDA k : ~Less(ScaledUp(Magnitude, k), enough))
         x == ScaledUp(Magnitude, big)
         small == Turns(LAMBDA k : ~Below(Multiplied(x, k), min_scaled))
     IN  Begin(Multiplied(x, small), -(BigExponent * big) - small, 0)

ScaleDown ==
  /\ Splits /\ ~AtMost(Magnitude, max_scaled)
  /\ LET enough == Multiplied(Rat(min_scaled, 1), BigExponent)
         big == Turns(LAMBDA k : ~Less(enough, ScaledDown(Magnitude, k)))
         x == ScaledDown(Magnitude, big)
         small == Turns(LAMBDA k : AtMost(Divided(x, k), max_scaled))
     IN  Begin(Divided(x, small), BigExponent * big + small, 0)

\* What is left of the number after the point is exact.
SplitInteger ==
  /\ Splits /\ ~Below(Magnitude, 1) /\ AtMost(Magnitude, max_scaled)
  /\ LET whole == Floor(Magnitude)
         k == Turns(LAMBDA j : whole * 10^j >= min_scaled)
     IN  Begin(Multiplied(Rat(Magnitude.num % Magnitude.den, Magnitude.den), k),
               -k, whole * 10^k)

(* A slip: what is rounded up to one digit more keeps its exponent.        *)
RoundKeeping ==
  /\ phase = "scaled"
  /\ LET sum == NearestEven(number) + n_int
     IN  n' = (IF sum >= max_scaled THEN min_scaled ELSE sum)
  /\ phase' = "rounded"
  /\ UNCHANGED <<input_number, number, exponent, n_int, text>>

Round ==
  /\ phase = "scaled"
  /\ LET sum == NearestEven(number) + n_int
     IN  /\ n' = (IF sum >= max_scaled THEN min_scaled ELSE sum)
         /\ exponent' = (IF sum >= max_scaled THEN exponent + 1 ELSE exponent)
  /\ phase' = "rounded"
  /\ UNCHANGED <<input_number, number, n_int, text>>

\* The digits of m, at least count of them.
Digits(m, count) ==
  LET length == Turns(LAMBDA k : k >= count /\ 10^k > m)
  IN  [d \in 1..length |-> 48 + ((m \div 10^(length - d)) % 10)]

\* Trailing zeroes after the point are dropped, with their decimals.
PlacePoint(decimals, m) ==
  LET zeroes == Turns(LAMBDA k : k = decimals \/ (m \div 10^k) % 10 # 0)
  IN  <<decimals - zeroes, m \div 10^zeroes>>

ExponentText(e) ==
  IF e = 0 THEN <<>> ELSE <<101, IF e < 0 THEN 45 ELSE 43>> \o Digits(IF e < 0 THEN -e ELSE e, 2)

PrintDigits ==
  /\ phase = "rounded"
  /\ LET plain == exponent <= 0 /\ exponent >= -(sig_digits + 3)
         decimals == IF plain THEN -exponent ELSE sig_digits - 1
         placed == PlacePoint(decimals, n)
         digits == Digits(placed[2], placed[1] + 1)
         point == Len(digits) - placed[1]
     IN  text' = text \o SubSeq(digits, 1, point)
                   \o (IF placed[1] = 0 THEN <<>>
                       ELSE <<46>> \o SubSeq(digits, point + 1, Len(digits)))
                   \o ExponentText(exponent + decimals)
  /\ phase' = "printed"
  /\ UNCHANGED <<input_number, number, exponent, n_int, n>>

FloatPrintNext ==
  PrintSpecial \/ ScaleUp \/ ScaleDown \/ SplitInteger \/ Round \/ PrintDigits

-----------------------------------------------------------------------------

Printed == phase = "printed" /\ input_number.den # 0 /\ input_number.num # 0

\* The number a sequence of digits reads as, in base ten.
Value(digits) ==
  LET prefix[k \in 0..Len(digits)] ==
        IF k = 0 THEN 0 ELSE 10 * prefix[k - 1] + digits[k] - 48
  IN  prefix[Len(digits)]

Position(code) ==
  LET at == {k \in 1..Len(text) : text[k] = code}
  IN  IF at = {} THEN Len(text) + 1 ELSE CHOOSE k \in at : TRUE

\* The text reads as Value(Mantissa) * 10^PrintedPower, up to its sign.
Mantissa ==
  LET first == IF text[1] = 45 THEN 2 ELSE 1
      e == Position(101)
      point == Position(46)
  IN  IF point > Len(text) THEN SubSeq(text, first, e - 1)
      ELSE SubSeq(text, first, point - 1) \o SubSeq(text, point + 1, e - 1)

PrintedPower ==
  LET e == Position(101)
      decimals == IF Position(46) > Len(text) THEN 0 ELSE e - 1 - Position(46)
      written == SubSeq(text, e + 2, Len(text))
  IN  (IF e > Len(text) THEN 0
       ELSE IF text[e + 1] = 45 THEN -Value(written) ELSE Value(written)) - decimals

\* The sig_digits digits printed, those of zeroes dropped at the end included,
\* and the power of ten of the last.
Padding == Turns(LAMBDA k : Value(Mantissa) * 10^k >= min_scaled)
PrintedDigits == Value(Mantissa) * 10^Padding
LastPower == PrintedPower - Padding

\* How many multiplications and divisions brought the number to that power, at most.
Roundings == 1 + (IF LastPower < 0 THEN -LastPower ELSE LastPower) \div BigExponent

\* x is at most y, or more by no more than so many roundings can make it.
NearlyAtMost(x, y, roundings) ==
  (2^Significand - roundings) * x.num * y.den <= 2^Significand * y.num * x.den

\* The numbers nearer to c than to any other of sig_digits digits: below the
\* least of them is one digit more.
LowerEdge(c) == IF c = min_scaled THEN Rat(20 * c - 1, 20) ELSE Rat(2 * c - 1, 2)
UpperEdge(c) == Rat(2 * c + 1, 2)

(* What is printed is the number of sig_digits digits nearest to one that  *)
(* the magnitude is but for the roundings of its scaling, at most one for  *)
(* each multiplication and division: whatever branch scaled it, wherever   *)
(* the point is placed, whatever zeroes are dropped, and when rounding     *)
(* adds a digit.  Those roundings are why "the 7th digit won't always be   *)
(* totally correct" (unity/src/unity.c:329).                               *)
NearestPrinted ==
  Printed =>
    LET scaled == TimesTen(Magnitude, -LastPower)
    IN  /\ PrintedDigits < max_scaled
        /\ NearlyAtMost(LowerEdge(PrintedDigits), scaled, Roundings)
        /\ NearlyAtMost(scaled, UpperEdge(PrintedDigits), Roundings)
        /\ (text[1] = 45) = (input_number.num < 0)

(* A tie goes to the even digit: "round to even if exactly between two     *)
(* integers" (unity/src/unity.c:421).  It does not when an integer was     *)
(* split off: the digit is tested before that is added back.               *)
TiesToEven ==
  (phase = "rounded" /\ \E m \in 0..max_scaled : Halfway(m, number)) => n % 2 = 0
=============================================================================
