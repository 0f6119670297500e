\* Real nibbles and a UNITY_INT of 2 bytes; four characters hold a directive
\* with its modifier and what precedes or follows it.
CONSTANTS
  NibbleBits = 4
  IntBytes = 2
  IntWidth = 1
  MaxLength = 4
  NULL = NULL
  Masks <- MCMasks
  Alphabet <- MCAlphabet
  Ints <- MCInts
  Strings <- MCStrings
  sig_digits = 2
  BigExponent = 3
  Significand = 7
  MaxExponent = 9
  MaxShift = 28
  Numbers <- MCNumbers
SPECIFICATION PrintersSpec
INVARIANTS
  ReadsBack
  MaskShown
  ArgumentsAsPrintf
  StopsAtTerminator
  OnlyPrintable
  NearestPrinted
\* A printer that has reached the end of what it prints has returned.
CHECK_DEADLOCK FALSE
