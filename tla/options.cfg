\* Every command line of three arguments, twice, and every list of one or two
\* items, quotes in every place, once.
CONSTANTS
  MaxParses = 2
  NULL = NULL
  Letters <- MCLetters
  Commands <- MCCommands
  Reparsed <- ParseCommands
  TestFile <- MCTestFile
  TestNames <- MCTestNames
SPECIFICATION OptionsSpec
INVARIANTS
  OptionsOfThisParse
  SelectionExact
  CursorInside
\* All tests looked up, or an error reported.
CHECK_DEADLOCK FALSE
