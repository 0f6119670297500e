\* Three threads, as in testMultiThreadAccess, and four blocks share a manager whose
\* size_t has 8 bits.  Of 5 bytes, 2 are the execution pool's and 3 the storage
\* pool's; 7 is a total whose product with the quota wraps, so that storage is
\* entitled to all of it; the other totals are edges: 0, below every minimum and below
\* the maxima.  Requests are of every legal size, and 0, 4 (above both maxima) and
\* SIZE_MAX (-1).
CONSTANTS
  SizeMod = 256
  ExecMin = 1
  ExecMax = 2
  StorageMin = 2
  StorageMax = 3
  MinReq <- MCMinReq
  MaxReq <- MCMaxReq
  Threads = {t1, t2, t3}
  Blocks = {b1, b2, b3, b4}
  NULL = NULL
  NoPool = NoPool
  Totals = {0, 1, 3, 5, 7}
  Requests = {0, 1, 2, 3, 4, 255}
  HeapBytes = 12
  MaxSlack = 1
SYMMETRY Symmetry
SPECIFICATION Spec
INVARIANTS
  TypeOK
  Accounting
  LiveWithinBudget
  StorageWithinQuota
PROPERTIES
  DecisionsExact
  KeepsLedger
