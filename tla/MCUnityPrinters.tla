-------------------------- MODULE MCUnityPrinters ---------------------------
(***************************************************************************)
(* Strings over the letters that matter to the printers: the per cent sign,*)
(* one conversion of each kind (d u p c s f), the modifiers l h z and L, a *)
(* line feed, the characters of an escape sequence and one unprintable one.*)
(* Masks of one bit, all bits, every other bit and half of them.  Floats   *)
(* for two significant digits, whose arithmetic rounds to 7 bits.          *)
(***************************************************************************)
EXTENDS UnityPrinters

MCAlphabet == {Percent, 100, 117, Pointer, Character, StringLetter, 102,
                LetterL, LetterH, LetterZ, CapitalL, Newline, Escape, Bracket, LetterM, -1}
MCInts == {-(2^(Bits(IntBytes) - 1)), 10}
MCStrings == {NULL, <<Escape, 65>>}

MCMasks ==
  {2^k : k \in 0..Bits(IntBytes) - 2} \cup {0, -1, 255, -256, 21845, -21846}

\* Every number of 7 bits from 2^-15 to 2^22, and the negative ones nearer 1.
MCNumbers ==
  {Rat(0, 1)} \cup {Rat(m, 2^k) : m \in 64..127, k \in 0..21}
  \cup {Rat(m * 2^k, 1) : m \in 64..127, k \in 1..15}
  \cup {Rat(-m, 2^k) : m \in 64..127, k \in 3..12}
=============================================================================
