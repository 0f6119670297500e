\* The comment at unity.c:421 against what is printed of a tie.
CONSTANTS
  NibbleBits = 4
  IntBytes = 2
  IntWidth = 1
  MaxLength = 4
  NULL = NULL
  Masks <- MCMasks
  Alphabet <- MCAlphabet
  Ints <- MCInts
  Strings <- MCStrings
  sig_digits = 2
  BigExponent = 3
  Significand = 7
  MaxExponent = 9
  MaxShift = 28
  Numbers <- MCNumbers
SPECIFICATION PrintersSpec
INVARIANT TiesToEven
CHECK_DEADLOCK FALSE
