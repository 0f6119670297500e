\* As in core.cfg, with two threads: a pool's counter can go below zero by
\* everything the other pool holds.
CONSTANTS
  SizeMod = 1024
  MinReq <- MCMinReq
  MaxReq <- MCMaxReq
  Threads = {t1, t2}
  Blocks = {b1, b2, b3, b4}
  NULL = NULL
  NoPool = NoPool
  Totals = {7}
  Requests = {1, 2, 3}
  HeapBytes = 12
  MaxSlack = 1
SYMMETRY Symmetry
SPECIFICATION MisuseSpec
INVARIANTS
  TotalAccounted
  MisuseWithinBudget
