---------------------------- MODULE MCDocClaims ----------------------------
(* Small instances of DocClaims.                                           *)
EXTENDS DocClaims, TLC

CONSTANTS ExecMin, ExecMax, StorageMin, StorageMax

MCMinReq == [p \in Pool |-> IF p = ExecPool THEN ExecMin ELSE StorageMin]
MCMaxReq == [p \in Pool |-> IF p = ExecPool THEN ExecMax ELSE StorageMax]

Symmetry == Permutations(Threads) \cup Permutations(Blocks)
=============================================================================
