\* Two threads and three blocks: room for one excess beyond the total.
CONSTANTS
  SizeMod = 1024
  ExecMin = 1
  ExecMax = 2
  StorageMin = 2
  StorageMax = 3
  MinReq <- MCMinReq
  MaxReq <- MCMaxReq
  Threads = {t1, t2}
  Blocks = {b1, b2, b3}
  NULL = NULL
  NoPool = NoPool
  Totals = {5}
  Requests = {0, 1, 2, 3, 4, 1023}
  HeapBytes = 8
  MaxSlack = 1
SYMMETRY Symmetry
SPECIFICATION Spec
INVARIANTS
  UsedWithinTotal
