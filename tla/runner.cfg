\* Four tests, so that each outcome can precede and follow each other one.
CONSTANT MaxTests = 4
SPECIFICATION UnitySpec
INVARIANTS
  FirstDecides
PROPERTIES
  TearDownEntered
