----------------------------- MODULE PolicyMgr -----------------------------
(***************************************************************************)
(* The policy manager (src/policy_mgr.c, src/policy_mgr.h): the counters   *)
(* of pm_stats, the decision policyMgrAlloc takes on them and the          *)
(* correction policyMgrAdjustAlloc applies to them.  Both run with         *)
(* mutex_policyMgrStats held from their first access to their last, so     *)
(* each is one atomic step here.                                           *)
(***************************************************************************)
EXTENDS SizeArith

CONSTANTS
  MinReq,   \* PM_*_POOL_MIN_REQ_SIZE: smallest request of each pool
  MaxReq    \* PM_*_POOL_MAX_REQ_SIZE: largest request of each pool

ExecPool == "exec"
StoragePool == "storage"
Pool == {ExecPool, StoragePool}

ExecPoolQuota == 50   \* POLICY_MGR_EXEC_POOL_QUOTA, in percent

ASSUME ReqSizeAssumption ==
  /\ MinReq \in [Pool -> SizeT]
  /\ MaxReq \in [Pool -> SizeT]
  /\ \A p \in Pool : 0 < MinReq[p] /\ MinReq[p] <= MaxReq[p]

VARIABLES
  total_memory,     \* bytes the manager was initialised with
  total_pool_mem,   \* bytes each pool is entitled to
  used_memory       \* bytes charged to each pool

policy_vars == <<total_memory, total_pool_mem, used_memory>>

PolicyTypeOK ==
  /\ total_memory \in SizeT
  /\ total_pool_mem \in [Pool -> SizeT]
  /\ used_memory \in [Pool -> SizeT]

-----------------------------------------------------------------------------

(* The execution pool gets its percentage, the storage pool the rest.  The *)
(* product is computed in a size_t before it is divided.                   *)
PoolSplit(total) ==
  LET exec_pool_total_mem == Word(ExecPoolQuota * total) \div 100
  IN  [p \in Pool |-> IF p = ExecPool THEN exec_pool_total_mem
                      ELSE Word(total - exec_pool_total_mem)]

InitPolicyMgr(total) ==
  /\ total_memory = total
  /\ total_pool_mem = PoolSplit(total)
  /\ used_memory = [p \in Pool |-> 0]

(* Slips in the tests of policyMgrAlloc that its properties must not       *)
(* survive: without "Check if hit system max", with storage requests       *)
(* measured like execution requests, and without the test that keeps the   *)
(* subtraction from wrapping.                                              *)
AdmitsWithoutSystemMax(p, n, used) ==
  LET ceiling == IF p = ExecPool THEN total_memory
                 ELSE total_pool_mem[StoragePool]
  IN  n \in MinReq[p] .. MaxReq[p] /\ n <= ceiling /\ ceiling - n >= used[p]

AdmitsStorageAsExec(p, n, used) ==
  /\ n \in MinReq[p] .. MaxReq[p]
  /\ n <= total_memory
  /\ Word(total_memory - n) >= Word(used[ExecPool] + used[StoragePool])

AdmitsWrapping(p, n, used) ==
  LET ceiling == IF p = ExecPool THEN total_memory
                 ELSE total_pool_mem[StoragePool]
  IN  /\ n \in MinReq[p] .. MaxReq[p]
      /\ Word(ceiling - n) >= used[p]
      /\ Word(total_memory - n) >= Word(used[ExecPool] + used[StoragePool])

(* The tests of policyMgrAlloc, in its order: the request's size, then     *)
(* what the pool has left, then what the system has left.  An execution    *)
(* request is measured against the whole memory, which is how it borrows   *)
(* from the storage pool.                                                  *)
Admits(p, n, used) ==
  LET total_used == Word(used[ExecPool] + used[StoragePool])
      ceiling == IF p = ExecPool THEN total_memory
                 ELSE total_pool_mem[StoragePool]
  IN  /\ n \in MinReq[p] .. MaxReq[p]
      /\ n <= ceiling
      /\ Word(ceiling - n) >= used[p]
      /\ Word(total_memory - n) >= total_used

(* The counters after policyMgrAlloc has granted n bytes of pool p.        *)
PolicyMgrAlloc(p, n, used) == [used EXCEPT ![p] = Word(@ + n)]

(* The counters after policyMgrAdjustAlloc(p, bytes_diff).                 *)
PolicyMgrAdjustAlloc(p, bytes_diff, used) ==
  [used EXCEPT ![p] = Word(AsSigned(@) + bytes_diff)]
=============================================================================
