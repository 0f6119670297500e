\* Access by access: three threads that keep running contend for the mutex and for
\* one block; 3 bytes of execution memory are above its maximum, so some calls are
\* refused whatever the others do.
CONSTANTS
  SizeMod = 1024
  ExecMin = 1
  ExecMax = 2
  StorageMin = 2
  StorageMax = 3
  MinReq <- MCMinReq
  MaxReq <- MCMaxReq
  Threads = {t1, t2, t3}
  Blocks = {b1}
  NULL = NULL
  NoPool = NoPool
  NoThread = NoThread
  Totals = {5}
  Requests = {2, 3}
  HeapBytes = 8
  MaxSlack = 1
SPECIFICATION RunningSpec
INVARIANTS
  LockedTypeOK
  NoLostUpdate
PROPERTIES
  Atomicity
  EveryCallReturns
  SomeCallReturns
