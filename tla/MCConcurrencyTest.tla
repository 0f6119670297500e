------------------------- MODULE MCConcurrencyTest -------------------------
(* Small instances of ConcurrencyTest.                                     *)
EXTENDS ConcurrencyTest

CONSTANTS ExecMin, ExecMax, StorageMin, StorageMax

MCMinReq == [p \in Pool |-> IF p = ExecPool THEN ExecMin ELSE StorageMin]
MCMaxReq == [p \in Pool |-> IF p = ExecPool THEN ExecMax ELSE StorageMax]
=============================================================================
