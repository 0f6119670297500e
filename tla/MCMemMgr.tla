------------------------------ MODULE MCMemMgr ------------------------------
(* Small instances of MemMgr.                                              *)
EXTENDS MemMgrInv, TLC

CONSTANTS ExecMin, ExecMax, StorageMin, StorageMax

MCMinReq == [p \in Pool |-> IF p = ExecPool THEN ExecMin ELSE StorageMin]
MCMaxReq == [p \in Pool |-> IF p = ExecPool THEN ExecMax ELSE StorageMax]

Symmetry == Permutations(Threads) \cup Permutations(Blocks)
=============================================================================
