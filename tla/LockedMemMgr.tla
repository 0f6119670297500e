---------------------------- MODULE LockedMemMgr ----------------------------
(***************************************************************************)
(* The policy manager one access at a time.  policyMgrAlloc and            *)
(* policyMgrAdjustAlloc lock mutex_policyMgrStats, copy the counters they  *)
(* need, compute with the copies, store one counter and unlock; the other  *)
(* threads may run between any two of these accesses.  The jemalloc calls  *)
(* and the calls themselves are those of MemMgr, which this module         *)
(* refines: a thread that has decided, or stored its counter, has done its *)
(* step there, and only its return is yet to come.                         *)
(***************************************************************************)
EXTENDS MemMgr

CONSTANT NoThread   \* owner of the mutex when it is free

ASSUME LockAssumption == NoThread \notin Threads

VARIABLES
  mutex,    \* the thread that has locked mutex_policyMgrStats
  cs,       \* where each thread is in a function of the policy manager
  copy,     \* the counters it has copied: exec_pool_used, storage_pool_used
  ret       \* what its policyMgrAlloc is about to return

lock_vars == <<mutex, cs, copy, ret>>
locked_vars == <<vars, lock_vars>>

CS == {"out", "load", "load_storage", "decide", "store", "unlock"}

LockedTypeOK ==
  /\ TypeOK
  /\ mutex \in Threads \cup {NoThread}
  /\ cs \in [Threads -> CS]
  /\ copy \in [Threads -> [Pool -> SizeT]]
  /\ ret \in [Threads -> BOOLEAN]

-----------------------------------------------------------------------------
(* The functions of the policy manager.                                    *)

Enter(t, from, to) == cs[t] = from /\ cs' = [cs EXCEPT ![t] = to]

Load(t, p) == copy' = [copy EXCEPT ![t][p] = used_memory[p]]

(* A block of exactly the size asked for needs no correction.              *)
Exact(t) == pc[t] = "settle" /\ heap[ptr[t]] = num_bytes[t]

Adjusting(t) == pc[t] \in {"settle", "rollback", "refund"} /\ ~ Exact(t)

(* A slip: the mutex is not waited for.                                    *)
LockWithoutWaiting(t) ==
  /\ pc[t] = "decide" \/ Adjusting(t)
  /\ Enter(t, "out", "load")
  /\ mutex' = t
  /\ UNCHANGED <<vars, copy, ret>>

Lock(t) ==
  /\ pc[t] = "decide" \/ Adjusting(t)
  /\ Enter(t, "out", "load")
  /\ mutex = NoThread
  /\ mutex' = t
  /\ UNCHANGED <<vars, copy, ret>>

LoadExec(t) ==
  /\ pc[t] = "decide"
  /\ Enter(t, "load", "load_storage")
  /\ Load(t, ExecPool)
  /\ UNCHANGED <<vars, mutex, ret>>

(* A slip: storage_pool_used read before the mutex is held, as it was      *)
(* when the manager was initialised.                                       *)
LoadStorageStale(t) ==
  /\ Enter(t, "load_storage", "decide")
  /\ UNCHANGED <<vars, mutex, copy, ret>>

LoadStorage(t) ==
  /\ Enter(t, "load_storage", "decide")
  /\ Load(t, StoragePool)
  /\ UNCHANGED <<vars, mutex, ret>>

(* A slip: a request that does not fit is held, with the mutex, until it   *)
(* does.                                                                   *)
DecideHolding(t) ==
  LET admitted == Admits(pool[t], num_bytes[t], copy[t])
  IN  /\ Enter(t, "decide", IF admitted THEN "store" ELSE "load")
      /\ ret' = [ret EXCEPT ![t] = admitted]
      /\ UNCHANGED <<vars, mutex, copy>>

(* The total and the shares are constant once the manager is initialised.  *)
Decide(t) ==
  LET admitted == Admits(pool[t], num_bytes[t], copy[t])
  IN  /\ Enter(t, "decide", IF admitted THEN "store" ELSE "unlock")
      /\ ret' = [ret EXCEPT ![t] = admitted]
      /\ UNCHANGED <<vars, mutex, copy>>

LoadPool(t) ==
  /\ Adjusting(t)
  /\ Enter(t, "load", "store")
  /\ Load(t, pool[t])
  /\ UNCHANGED <<vars, mutex, ret>>

(* bytes_diff of policyMgrAdjustAlloc, a signed long.                      *)
BytesDiff(t) ==
  AsSigned(Word(IF pc[t] = "settle" THEN heap[ptr[t]] - num_bytes[t]
                                    ELSE -num_bytes[t]))

(* The new value of the pool's counter is computed from the copy.          *)
Store(t) ==
  LET stats == IF pc[t] = "decide"
               THEN PolicyMgrAlloc(pool[t], num_bytes[t], copy[t])
               ELSE PolicyMgrAdjustAlloc(pool[t], BytesDiff(t), copy[t])
  IN  /\ Enter(t, "store", "unlock")
      /\ used_memory' = [used_memory EXCEPT ![pool[t]] = stats[pool[t]]]
      /\ UNCHANGED <<total_memory, total_pool_mem, call_vars, heap_vars, held,
                     mutex, copy, ret>>

ReleaseMutex(t) ==
  /\ Enter(t, "unlock", "out")
  /\ mutex' = NoThread
  /\ copy' = [copy EXCEPT ![t] = [p \in Pool |-> 0]]
  /\ ret' = [ret EXCEPT ![t] = FALSE]

(* policyMgrAlloc returns true: je_malloc is called next.                  *)
UnlockGranted(t) ==
  /\ ret[t]
  /\ ReleaseMutex(t)
  /\ Goto(t, "decide", "malloc")
  /\ UNCHANGED <<policy_vars, pool, num_bytes, ptr, heap_vars, held>>

(* A slip: a request that does not fit is tried again and again.           *)
UnlockRetrying(t) ==
  /\ pc[t] # "settle" /\ ~ ret[t]
  /\ ReleaseMutex(t)
  /\ IF pc[t] = "decide" THEN UNCHANGED call_vars ELSE Return(t, pc[t])
  /\ UNCHANGED <<policy_vars, heap_vars, held>>

(* allocMem returns NULL, refused or rolled back, or freeMem returns.      *)
UnlockReturn(t) ==
  /\ pc[t] # "settle" /\ ~ ret[t]
  /\ ReleaseMutex(t)
  /\ Return(t, pc[t])
  /\ UNCHANGED <<policy_vars, heap_vars, held>>

(* allocMem returns the block it has settled ...                           *)
UnlockBlock(t) ==
  /\ ReleaseMutex(t)
  /\ Return(t, "settle")
  /\ held' = held \cup {ptr[t]}
  /\ UNCHANGED <<policy_vars, heap_vars>>

(* ... or a block that needs no correction.                                *)
ReturnExact(t) ==
  /\ Exact(t)
  /\ Return(t, "settle")
  /\ held' = held \cup {ptr[t]}
  /\ UNCHANGED <<policy_vars, heap_vars, lock_vars>>

-----------------------------------------------------------------------------

LockedInit ==
  /\ Init
  /\ mutex = NoThread
  /\ cs = [t \in Threads |-> "out"]
  /\ copy = [t \in Threads |-> [p \in Pool |-> 0]]
  /\ ret = [t \in Threads |-> FALSE]

(* je_malloc and je_free, which take no lock of the policy manager.        *)
JeStep(t) ==
  /\ \/ \E b \in Blocks, s \in UsableSizes(num_bytes[t]) : JeMalloc(t, b, s)
     \/ JeMallocFails(t)
     \/ JeFree(t)
  /\ UNCHANGED lock_vars

(* What a thread does without waiting for another.                         *)
LockedStep(t) ==
  \/ LoadExec(t) \/ LoadStorage(t) \/ Decide(t) \/ LoadPool(t) \/ Store(t)
  \/ UnlockGranted(t) \/ UnlockReturn(t) \/ UnlockBlock(t) \/ ReturnExact(t)
  \/ JeStep(t)

LockedNext ==
  \E t \in Threads : \/ Caller(t) /\ UNCHANGED lock_vars
                     \/ Lock(t)
                     \/ LockedStep(t)

LockedSpec == LockedInit /\ [][LockedNext]_locked_vars

(* Every thread keeps running, but whom the mutex is given to is open: two *)
(* threads may keep a third one waiting.                                   *)
RunningSpec ==
  LockedSpec /\ \A t \in Threads : WF_locked_vars(Lock(t) \/ LockedStep(t))

(* No thread that waits for the mutex is passed over for ever.             *)
FairMutex == \A t \in Threads : SF_locked_vars(Lock(t))

-----------------------------------------------------------------------------
(* The refinement: stored or refused, a thread has taken MemMgr's step.    *)

Granted(t) == cs[t] = "unlock" /\ ret[t]
Returning(t) == cs[t] = "unlock" /\ ~ ret[t]

AbsPc == [t \in Threads |-> IF Granted(t) THEN "malloc"
                            ELSE IF Returning(t) THEN "idle" ELSE pc[t]]
AbsPool == [t \in Threads |-> IF Returning(t) THEN NoPool ELSE pool[t]]
AbsNumBytes == [t \in Threads |-> IF Returning(t) THEN 0 ELSE num_bytes[t]]
AbsPtr == [t \in Threads |-> IF Returning(t) THEN NULL ELSE ptr[t]]

(* A block whose correction is stored is as good as returned.              *)
AbsHeld == held \cup {ptr[t] : t \in {u \in Threads :
                                       Returning(u) /\ pc[u] = "settle"}}

Atomic == INSTANCE MemMgr
  WITH pc <- AbsPc, pool <- AbsPool, num_bytes <- AbsNumBytes,
       ptr <- AbsPtr, held <- AbsHeld

-----------------------------------------------------------------------------
(* Properties.                                                             *)

(* Whatever the interleaving of loads, stores and lock operations, the     *)
(* policy manager behaves as if each of its functions ran at one instant,  *)
(* so what MemMgr guarantees holds of the code access by access.           *)
Atomicity == Atomic!Spec

(* While a call is between its last load and its store nobody else stores: *)
(* the counter it overwrites is the one it has computed with, and the one  *)
(* its decision was about.                                                 *)
NoLostUpdate ==
  \A t \in Threads :
    /\ cs[t] = "store" => copy[t][pool[t]] = used_memory[pool[t]]
    /\ cs[t] \in {"decide", "store"} /\ pc[t] = "decide" =>
         copy[t] = used_memory

(* Under a mutex that starves nobody every call returns, with memory or    *)
(* without: no path through the policy manager keeps it, or goes round.    *)
EveryCallReturns ==
  FairMutex => \A t \in Threads : pc[t] # "idle" ~> pc[t] = "idle"

(* Even when the mutex plays favourites, some call returns.                *)
SomeCallReturns ==
  (\A t \in Threads : pc[t] # "idle") ~> (\E t \in Threads : pc[t] = "idle")
=============================================================================
