----------------------------- MODULE WrongPool -----------------------------
(***************************************************************************)
(* MemMgr with callers that free a block through either routine.  freeMem  *)
(* takes the pool from the routine that was called and the size from the   *)
(* block, so freeStorageMemory of an execution block refunds the storage   *)
(* pool with what the execution pool was charged (src/mem_mgr.c).          *)
(***************************************************************************)
EXTENDS MemMgr

Other(p) == IF p = ExecPool THEN StoragePool ELSE ExecPool

CallFreeOther(t, b) ==
  /\ b \in held
  /\ heap[b] > 0
  /\ Goto(t, "idle", "free")
  /\ pool' = [pool EXCEPT ![t] = Other(tag[b])]
  /\ num_bytes' = [num_bytes EXCEPT ![t] = heap[b]]
  /\ ptr' = [ptr EXCEPT ![t] = b]
  /\ held' = held \ {b}
  /\ UNCHANGED <<policy_vars, heap_vars>>

MisuseNext ==
  Next \/ \E t \in Threads, b \in Blocks : CallFreeOther(t, b)

MisuseSpec == Init /\ [][MisuseNext]_vars

-----------------------------------------------------------------------------
(* Properties.  Accounting and StorageWithinQuota fail: one counter keeps  *)
(* bytes that are gone and the other wraps below zero.                     *)

(* The two errors cancel: the sum policyMgrAlloc computes in a size_t is   *)
(* exact, calls in flight included, although one of its terms may have     *)
(* wrapped.                                                                *)
TotalAccounted ==
  Word(used_memory[ExecPool] + used_memory[StoragePool]
       + Unsettled(ExecPool) + Unsettled(StoragePool))
    = LiveBytes + Claimed(ExecPool) + Claimed(StoragePool)

(* So the system's limit is kept however blocks are returned: misuse       *)
(* costs memory its users, never memory the system has not got (the last   *)
(* test of policyMgrAlloc).                                                *)
MisuseWithinBudget ==
  LiveBytes <= total_memory + MaxSlack * Cardinality(Threads)
=============================================================================
