\* Types of 2, 4, 8 and 16 bits; two elements have a first and a later one.
\* Tolerances of a quarter and an eighth of a float, and a largest one of 40: the
\* difference of the two largest overflows.
CONSTANTS
  NibbleBits = 1
  IntBytes = 8
  IntWidth = 4
  NULL = NULL
  MaxElements = 2
  Values <- MCValues
  Deltas <- MCDeltas
  Cells <- MCCells
  Texts <- MCTexts
  MaxFinite = 40
  Precision <- MCPrecision
  References <- MCReferences
  Actuals <- MCActuals
  FiniteDeltas <- MCFiniteDeltas
SPECIFICATION AssertionsSpec
INVARIANTS
  ScalarVerdict
  ArrayAsScalars
  StringVerdict
  MemoryVerdict
  FailureIsVisible
  EqualFloats
  FloatArrayFirst
  OrderedFloats
  OneTrait
\* A call that has reported is over.
CHECK_DEADLOCK FALSE
