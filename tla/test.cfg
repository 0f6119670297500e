\* Two threads run the test with two iterations, rand_num 0 or 1, in 5 bytes and two
\* blocks, to its end.
CONSTANTS
  SizeMod = 1024
  ExecMin = 1
  ExecMax = 2
  StorageMin = 2
  StorageMax = 3
  MinReq <- MCMinReq
  MaxReq <- MCMaxReq
  Threads = {t1, t2}
  Blocks = {b1, b2}
  NULL = NULL
  NoPool = NoPool
  Totals = {5}
  Requests = {}
  HeapBytes = 12
  MaxSlack = 1
  Rounds = 2
  SmallExec = 1
SPECIFICATION FairTest
INVARIANTS
  CleanAtTearDown
  UsedWhileInitialised
PROPERTIES
  TestEnds
