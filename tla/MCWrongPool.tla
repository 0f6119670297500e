---------------------------- MODULE MCWrongPool ----------------------------
(* A small instance of WrongPool.                                          *)
EXTENDS WrongPool, TLC

MCMinReq == [p \in Pool |-> IF p = ExecPool THEN 1 ELSE 2]
MCMaxReq == [p \in Pool |-> IF p = ExecPool THEN 2 ELSE 3]

Symmetry == Permutations(Threads) \cup Permutations(Blocks)
=============================================================================
