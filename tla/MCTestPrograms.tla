--------------------------- MODULE MCTestPrograms ---------------------------
(* The tests of src/tests.c in units that keep the order of their sizes:   *)
(* 2 for 1 MB, so that the totals and the larger sizes keep their ratios.  *)
EXTENDS TestPrograms

MCMinReq == [p \in Pool |-> IF p = ExecPool THEN 1 ELSE 3]
MCMaxReq == [p \in Pool |-> IF p = ExecPool THEN 16 ELSE 128]
MCBlocks == 1 .. 140
MCTotals == {UnitTotal, FuncTotal, ConcTotal}
MCRequests ==
  {0, Byte4, Byte8, Byte128, Kilo8, Kilo16, Mega1, Mega16, SizeMod - 1}
    \cup {MinReq[p] : p \in Pool} \cup {MaxReq[p] : p \in Pool}
    \cup {MaxReq[p] + 1 : p \in Pool}
=============================================================================
