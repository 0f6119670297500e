\* 1 GB, 128 MB and 500 MB in units of 512 KB; je_malloc may fail twice.
CONSTANTS
  SizeMod = 1048576
  MinReq <- MCMinReq
  MaxReq <- MCMaxReq
  Threads = {t1}
  Blocks <- MCBlocks
  NULL = 0
  NoPool = NoPool
  Totals <- MCTotals
  Requests <- MCRequests
  HeapBytes = 1024
  MaxSlack = 1
  MaxTests = 10
  UnitTotal = 2048
  FuncTotal = 256
  ConcTotal = 1000
  SizeClasses = {2, 3, 4, 16, 32, 128}
  Byte4 = 1
  Byte8 = 2
  Byte128 = 3
  Kilo8 = 2
  Kilo16 = 4
  Mega1 = 2
  Mega16 = 32
  SerialAllocs = 3
  MaxFailures = 2
SPECIFICATION ProgramSpec
INVARIANTS
  FailsOnlyWithMalloc
  SessionAccounting
  PassingTestsFreeAll
  MutexLifetime
