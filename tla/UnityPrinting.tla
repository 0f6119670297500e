--------------------------- MODULE UnityPrinting ----------------------------
(***************************************************************************)
(* One call of UnityPrintNumberByStyle or of UnityPrintMask, and what it   *)
(* prints (unity/src/unity.c).                                             *)
(***************************************************************************)
EXTENDS UnityNumbers

CONSTANT Masks   \* the masks, and the numbers printed under one

ASSUME PrintingAssumption == Masks \subseteq UNITY_INT

VARIABLES
  style,     \* a display style, of range "MASK" for UnityPrintMask
  given,     \* the UNITY_INT printed
  mask,      \* its mask, 0 without one
  printed    \* what is printed, or NULL
number_vars == <<style, given, mask, printed>>

\* A number of the style's type, converted to UNITY_INT.
PrintingInit ==
  /\ \/ /\ style \in [range : {"CHAR", "INT", "UINT", "HEX"}, size : 1..IntBytes]
        /\ given \in UNITY_INT /\ given = ToSigned(given, style.size)
        /\ mask = 0
     \/ /\ style = [range |-> "MASK", size |-> IntBytes]
        /\ given \in Masks /\ mask \in Masks
  /\ printed = NULL

PrintNumber ==
  /\ style # NULL /\ printed = NULL
  /\ printed' = (IF style.range = "MASK" THEN UnityPrintMask(mask, given)
                 ELSE UnityPrintNumberByStyle(given, style))
  /\ UNCHANGED <<style, given, mask>>

-----------------------------------------------------------------------------

NoLeadingZero(digits) == Len(digits) > 1 => digits[1] # Zero

(* A number printed reads back as itself: the least one, whose magnitude   *)
(* the signed type cannot hold, an unsigned one converted on the way, and  *)
(* in hexadecimal all the digits of its size and no more.                  *)
ReadsBack ==
  (printed # NULL /\ style.range \in {"INT", "UINT", "HEX"}) =>
    CASE style.range = "INT" /\ given < 0 ->
           /\ printed[1] = Minus /\ -Read(Tail(printed), 10) = given
           /\ NoLeadingZero(Tail(printed))
      [] style.range = "INT" /\ given >= 0 -> Read(printed, 10) = given /\ NoLeadingZero(printed)
      [] style.range = "UINT" ->
           Read(printed, 10) = ToUnsigned(given, IntBytes) /\ NoLeadingZero(printed)
      [] style.range = "HEX" ->
           LET digits == SubSeq(printed, 3, Len(printed))
           IN  /\ Len(digits) = 2 * style.size
               /\ Read(digits, 2^NibbleBits) = ToUnsigned(given, style.size)

(* Under a mask a bit shows exactly when the mask has it and it is one of  *)
(* an int's: two numbers that differ in such a bit never print alike, and  *)
(* those that differ in any other do, beyond an int even if it is masked.  *)
MaskShown ==
  (printed # NULL /\ style.range = "MASK") =>
    \A i \in 0..Bits(IntBytes) - 1 :
      LET flipped == IF BitOf(given, i) = 0 THEN given + 2^i ELSE given - 2^i
      IN  (UnityPrintMask(mask, flipped) # printed) = (BitOf(mask, i) = 1 /\ i < Bits(IntWidth))
=============================================================================
