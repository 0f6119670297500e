---------------------------- MODULE LockedProofs ----------------------------
(***************************************************************************)
(* The policy manager taken one access at a time implements the one whose  *)
(* functions are atomic, for any number of threads: the proofs.            *)
(***************************************************************************)
EXTENDS LockedMemMgr, MemMgrProofs

(* The thread that owns the mutex is the one inside a critical section.    *)
OwnerInv == \A t \in Threads : cs[t] # "out" <=> mutex = t

(* Which function of the policy manager a thread is in.                    *)
PlaceInv ==
  \A t \in Threads :
    /\ cs[t] \in {"load", "unlock"} => pc[t] = "decide" \/ Adjusting(t)
    /\ cs[t] \in {"load_storage", "decide"} => pc[t] = "decide"
    /\ cs[t] = "store" => (pc[t] = "decide" /\ ret[t]) \/ Adjusting(t)
    /\ ret[t] => /\ pc[t] = "decide" /\ cs[t] \in {"store", "unlock"}
                 /\ num_bytes[t] \in MinReq[pool[t]] .. MaxReq[pool[t]]

(* What it has copied is still current, and so is its decision.            *)
CopyInv ==
  \A t \in Threads :
    /\ cs[t] = "load_storage" =>
         copy[t][ExecPool] = used_memory[ExecPool]
    /\ cs[t] = "store" /\ pc[t] = "decide" =>
         Admits(pool[t], num_bytes[t], used_memory)

LockInv ==
  /\ SafeInv /\ LockedTypeOK
  /\ OwnerInv /\ PlaceInv /\ CopyInv /\ NoLostUpdate

-----------------------------------------------------------------------------
(* LockInv is inductive.                                                   *)

LEMMA LockInit == LockedInit => LockInv
<1> SUFFICES ASSUME LockedInit
             PROVE  LockInv
  OBVIOUS
<1>1. SafeInv
  BY SafeInit DEF LockedInit
<1>2. LockedTypeOK
  BY <1>1, SizeModAssumption
  DEF LockedInit, LockedTypeOK, SafeInv, CS, SizeT
<1>3. OwnerInv /\ PlaceInv /\ CopyInv /\ NoLostUpdate
  BY LockAssumption
  DEF LockedInit, OwnerInv, PlaceInv, CopyInv, NoLostUpdate
<1>4. QED
  BY <1>1, <1>2, <1>3 DEF LockInv

(* Nobody but t moves, and the others' blocks stay as they are.            *)
Moves(t) ==
  \A u \in Threads \ {t} :
    /\ pc'[u] = pc[u] /\ pool'[u] = pool[u] /\ num_bytes'[u] = num_bytes[u]
    /\ pc[u] = "settle" => ptr'[u] = ptr[u] /\ heap'[ptr[u]] = heap[ptr[u]]

(* A step outside the critical sections disturbs none of them.             *)
LEMMA LockOutside ==
  ASSUME LockInv, SafeInv', NEW t \in Threads, cs[t] = "out", Moves(t),
         UNCHANGED <<policy_vars, lock_vars>>
  PROVE  LockInv'
<1> USE DEF lock_vars, policy_vars
<1>1. LockedTypeOK'
  BY DEF LockInv, LockedTypeOK, SafeInv
<1>2. OwnerInv'
  BY DEF LockInv, OwnerInv
<1>3. PlaceInv'
  BY DEF LockInv, PlaceInv, Adjusting, Exact, Moves
<1>4. CopyInv' /\ NoLostUpdate'
  BY DEF LockInv, CopyInv, NoLostUpdate, Moves, Admits
<1>5. QED
  BY <1>1, <1>2, <1>3, <1>4 DEF LockInv

(* Steps inside that store nothing: one thread at a time.                  *)
LEMMA LockInside ==
  ASSUME LockInv, NEW t \in Threads, UNCHANGED vars,
         Lock(t) \/ LoadExec(t) \/ LoadStorage(t) \/ Decide(t) \/ LoadPool(t)
  PROVE  LockInv'
<1> USE DEF vars, policy_vars, call_vars, heap_vars, Enter, Load
<1>1. SafeInv'
  BY SafeStutter DEF LockInv
<1>2. pc[t] # "idle" /\ pool[t] \in Pool
  <2>1. pc[t] # "idle"
    BY DEF LockInv, PlaceInv, Lock, Adjusting, LoadExec, LoadStorage,
           Decide, LoadPool
  <2>2. QED
    BY <2>1 DEF LockInv, SafeInv, TypeOK
<1>3. LockedTypeOK'
  <2>1. copy' \in [Threads -> [Pool -> SizeT]]
    <3>1. \/ copy' = copy
          \/ \E p \in Pool : copy' = [copy EXCEPT ![t][p] = used_memory[p]]
      BY <1>2 DEF Lock, LoadExec, LoadStorage, Decide, LoadPool, Pool
    <3>2. /\ copy \in [Threads -> [Pool -> SizeT]]
          /\ \A p \in Pool : used_memory[p] \in SizeT
      BY DEF LockInv, SafeInv, TypeOK, PolicyTypeOK, LockedTypeOK
    <3>3. QED
      BY <3>1, <3>2
  <2>2. ret' \in [Threads -> BOOLEAN]
    BY DEF LockInv, LockedTypeOK, Lock, LoadExec, LoadStorage, Decide,
           LoadPool, Admits
  <2>3. cs' \in [Threads -> CS] /\ mutex' \in Threads \cup {NoThread}
    BY DEF LockInv, LockedTypeOK, Lock, LoadExec, LoadStorage, Decide,
           LoadPool, CS
  <2>4. QED
    BY <1>1, <2>1, <2>2, <2>3 DEF LockedTypeOK, SafeInv
<1>4. OwnerInv'
  BY LockAssumption
  DEF LockInv, LockedTypeOK, OwnerInv, Lock, LoadExec, LoadStorage, Decide,
      LoadPool
<1>5. \A u \in Threads \ {t} : cs'[u] = "out" /\ ~ ret'[u]
  BY LockAssumption
  DEF LockInv, LockedTypeOK, OwnerInv, PlaceInv, Lock, LoadExec, LoadStorage,
      Decide, LoadPool
<1>6. PlaceInv'
  BY <1>5 DEF LockInv, LockedTypeOK, PlaceInv, Adjusting, Exact, Lock,
              LoadExec, LoadStorage, Decide, LoadPool, Admits
<1>7. CopyInv'
  BY <1>2, <1>5
  DEF LockInv, SafeInv, TypeOK, PolicyTypeOK, LockedTypeOK, PlaceInv,
      CopyInv, NoLostUpdate, Adjusting, Lock, LoadExec, LoadStorage, Decide,
      LoadPool, Pool, Admits
<1>8. NoLostUpdate'
  BY <1>2, <1>5
  DEF LockInv, SafeInv, TypeOK, PolicyTypeOK, LockedTypeOK, PlaceInv,
      CopyInv, NoLostUpdate, Adjusting, Lock, LoadExec, LoadStorage, Decide,
      LoadPool, Pool, Admits
<1>9. QED
  BY <1>1, <1>3, <1>4, <1>6, <1>7, <1>8 DEF LockInv

(* The critical section ends with a store or a refusal, and an unlock.     *)
LEMMA LockStore ==
  ASSUME LockInv, NEW t \in Threads, Store(t)
  PROVE  LockInv'
<1> USE DEF Store, Enter, call_vars, heap_vars
<1>1. pc[t] # "idle" /\ pool[t] \in Pool
  <2>1. pc[t] # "idle"
    BY DEF LockInv, PlaceInv, Adjusting
  <2>2. QED
    BY <2>1 DEF LockInv, SafeInv, TypeOK
<1>2. used_memory' \in [Pool -> SizeT]
  <2>1. /\ used_memory \in [Pool -> SizeT]
        /\ copy[t] \in [Pool -> SizeT] /\ copy[t][pool[t]] \in Int
    BY <1>1 DEF LockInv, SafeInv, TypeOK, PolicyTypeOK, LockedTypeOK, SizeT
  <2>2. /\ num_bytes[t] \in Int
        /\ pc[t] = "settle" => heap[ptr[t]] \in Int
    BY MemMgrAssumption DEF LockInv, SafeInv, TypeOK, SizeT
  <2>3. BytesDiff(t) \in Int
    <3>1. ASSUME NEW d \in Int
          PROVE  AsSigned(Word(d)) \in Int
      <4>1. Word(d) \in Int
        BY WordType DEF SizeT
      <4>2. QED
        BY <4>1, SizeModAssumption DEF AsSigned
    <3>2. QED
      BY <2>2, <3>1 DEF BytesDiff
  <2>4. AsSigned(copy[t][pool[t]]) \in Int
    BY <2>1, SizeModAssumption DEF AsSigned
  <2>5. /\ Word(copy[t][pool[t]] + num_bytes[t]) \in SizeT
        /\ Word(AsSigned(copy[t][pool[t]]) + BytesDiff(t)) \in SizeT
    BY <2>1, <2>2, <2>3, <2>4, WordType
  <2>6. QED
    BY <1>1, <2>1, <2>5 DEF PolicyMgrAlloc, PolicyMgrAdjustAlloc
<1>3. SafeInv'
  <2>1. PolicyTypeOK'
    BY <1>2 DEF LockInv, SafeInv, TypeOK, PolicyTypeOK
  <2>2. QED
    BY <2>1 DEF LockInv, SafeInv, TypeOK, FrameInv, CallInv, OwnershipInv,
                BlockInv, UsableSizes
<1>4. LockedTypeOK' /\ OwnerInv'
  BY <1>3, LockAssumption
  DEF LockInv, LockedTypeOK, OwnerInv, SafeInv, CS
<1>5. \A u \in Threads \ {t} : cs'[u] = "out" /\ ~ ret'[u]
  BY LockAssumption DEF LockInv, LockedTypeOK, OwnerInv, PlaceInv
<1>6. PlaceInv'
  BY <1>5 DEF LockInv, LockedTypeOK, PlaceInv, Adjusting, Exact
<1>7. CopyInv' /\ NoLostUpdate'
  BY <1>5 DEF LockInv, LockedTypeOK, CopyInv, NoLostUpdate
<1>8. QED
  BY <1>3, <1>4, <1>6, <1>7 DEF LockInv

LEMMA LockUnlock ==
  ASSUME LockInv, NEW t \in Threads,
         UnlockGranted(t) \/ UnlockReturn(t) \/ UnlockBlock(t)
  PROVE  LockInv'
<1> USE DEF ReleaseMutex, Enter, Return, Goto, policy_vars, heap_vars
<1>1. PolicyTypeOK'
  BY DEF UnlockGranted, UnlockReturn, UnlockBlock, LockInv, SafeInv, TypeOK,
         PolicyTypeOK
<1>2. SafeInv'
  <2>1. CASE UnlockGranted(t)
    <3>1. num_bytes[t] \in MinReq[pool[t]] .. MaxReq[pool[t]]
      BY <2>1 DEF UnlockGranted, LockInv, PlaceInv
    <3>2. TypeOK'
      BY <1>1, <2>1 DEF UnlockGranted, LockInv, SafeInv, TypeOK, PC
    <3>3. FrameInv'
      BY <2>1, <3>1
      DEF UnlockGranted, LockInv, SafeInv, TypeOK, FrameInv, CallInv,
          OwnershipInv, BlockInv, UsableSizes
    <3>4. QED
      BY <3>2, <3>3 DEF SafeInv
  <2>2. CASE UnlockReturn(t)
    <3>1. pc[t] \in {"decide", "rollback", "refund"}
      BY <2>2 DEF UnlockReturn, LockInv, PlaceInv, Adjusting
    <3>2. QED
      BY <1>1, <2>2, <3>1, SafeReturn DEF UnlockReturn, LockInv
  <2>3. CASE UnlockBlock(t)
    BY <1>1, <2>3, SafeReturnBlock DEF UnlockBlock, LockInv
  <2>4. QED
    BY <2>1, <2>2, <2>3
<1>3. LockedTypeOK'
  <2>1. 0 \in SizeT
    BY SizeModAssumption DEF SizeT
  <2>2. ReleaseMutex(t)
    BY DEF UnlockGranted, UnlockReturn, UnlockBlock
  <2>3. copy' \in [Threads -> [Pool -> SizeT]]
    BY <2>1, <2>2 DEF LockInv, LockedTypeOK
  <2>4. /\ cs' \in [Threads -> CS] /\ ret' \in [Threads -> BOOLEAN]
        /\ mutex' \in Threads \cup {NoThread}
    BY <2>2 DEF LockInv, LockedTypeOK, CS
  <2>5. QED
    BY <1>2, <2>3, <2>4 DEF LockedTypeOK, SafeInv
<1>4. OwnerInv'
  BY LockAssumption
  DEF UnlockGranted, UnlockReturn, UnlockBlock, LockInv, LockedTypeOK, OwnerInv
<1>5. \A u \in Threads : cs'[u] = "out" /\ ~ ret'[u]
  BY LockAssumption
  DEF UnlockGranted, UnlockReturn, UnlockBlock, LockInv, LockedTypeOK,
      OwnerInv, PlaceInv
<1>6. PlaceInv' /\ CopyInv' /\ NoLostUpdate'
  BY <1>5 DEF PlaceInv, CopyInv, NoLostUpdate
<1>7. QED
  BY <1>2, <1>3, <1>4, <1>6 DEF LockInv

(* The steps of MemMgr that the mutex has no part in.                      *)
LEMMA LockJemalloc ==
  ASSUME LockInv, NEW t \in Threads, JeStep(t)
  PROVE  LockInv'
<1>1. SafeInv'
  BY SafeJeMalloc, SafeJeMallocFails, SafeJeFree DEF JeStep, LockInv
<1>2. cs[t] = "out"
  BY DEF JeStep, JeMalloc, JeMallocFails, JeFree, Goto, LockInv, LockedTypeOK,
         CS, PlaceInv, Adjusting
<1>3. Moves(t)
  <2>1. ASSUME NEW b \in Blocks, NEW s, JeMalloc(t, b, s)
        PROVE  Moves(t)
    <3>1. \A u \in Threads : pc[u] = "settle" => ptr[u] # b
      BY <2>1, MemMgrAssumption
      DEF JeMalloc, LockInv, SafeInv, TypeOK, FrameInv, CallInv, BlockInv
    <3>2. QED
      BY <2>1, <3>1 DEF JeMalloc, Goto, Moves, LockInv, SafeInv, TypeOK
  <2>2. CASE JeMallocFails(t)
    BY <2>2 DEF JeMallocFails, Goto, heap_vars, Moves, LockInv, SafeInv, TypeOK
  <2>3. CASE JeFree(t)
    <3>1. \A u \in Threads \ {t} : pc[u] = "settle" => ptr[u] # ptr[t]
      BY <2>3, MemMgrAssumption
      DEF JeFree, Goto, LockInv, SafeInv, TypeOK, FrameInv, OwnershipInv
    <3>2. QED
      BY <2>3, <3>1 DEF JeFree, Goto, Moves, LockInv, SafeInv, TypeOK
  <2>4. QED
    BY <2>1, <2>2, <2>3 DEF JeStep
<1>4. UNCHANGED <<policy_vars, lock_vars>>
  BY DEF JeStep, JeMalloc, JeMallocFails, JeFree
<1>5. QED
  BY <1>1, <1>2, <1>3, <1>4, LockOutside

LEMMA LockCaller ==
  ASSUME LockInv, NEW t \in Threads, Caller(t), UNCHANGED lock_vars
  PROVE  LockInv'
<1>1. SafeInv'
  BY SafeCallAlloc, SafeCallFree, MemMgrAssumption DEF Caller, LockInv
<1>2. cs[t] = "out"
  BY DEF Caller, CallAlloc, CallFree, Goto, LockInv, LockedTypeOK, CS,
         PlaceInv, Adjusting
<1>3. Moves(t) /\ UNCHANGED <<policy_vars, lock_vars>>
  BY DEF Caller, CallAlloc, CallFree, Goto, heap_vars, Moves, LockInv,
         SafeInv, TypeOK
<1>4. QED
  BY <1>1, <1>2, <1>3, LockOutside

LEMMA LockReturnExact ==
  ASSUME LockInv, NEW t \in Threads, ReturnExact(t)
  PROVE  LockInv'
<1> USE DEF ReturnExact
<1>1. PolicyTypeOK'
  BY DEF policy_vars, LockInv, SafeInv, TypeOK, PolicyTypeOK
<1>2. SafeInv'
  BY <1>1, SafeReturnBlock DEF LockInv
<1>3. cs[t] = "out"
  BY DEF Exact, LockInv, LockedTypeOK, CS, PlaceInv, Adjusting
<1>4. Moves(t) /\ UNCHANGED <<policy_vars, lock_vars>>
  BY DEF Return, Goto, heap_vars, Moves, LockInv, SafeInv, TypeOK
<1>5. QED
  BY <1>2, <1>3, <1>4, LockOutside

LEMMA LockStutter == LockInv /\ UNCHANGED locked_vars => LockInv'
<1> SUFFICES ASSUME LockInv, UNCHANGED locked_vars
             PROVE  LockInv'
  OBVIOUS
<1> USE DEF locked_vars, lock_vars, vars, policy_vars, call_vars, heap_vars
<1>1. SafeInv'
  BY SafeStutter DEF LockInv
<1>2. LockedTypeOK'
  BY <1>1 DEF LockInv, LockedTypeOK, SafeInv
<1>3. OwnerInv' /\ PlaceInv' /\ CopyInv' /\ NoLostUpdate'
  BY DEF LockInv, OwnerInv, PlaceInv, CopyInv, NoLostUpdate, Adjusting,
         Exact, Admits
<1>4. QED
  BY <1>1, <1>2, <1>3 DEF LockInv

LEMMA LockNext == LockInv /\ [LockedNext]_locked_vars => LockInv'
<1> SUFFICES ASSUME LockInv, [LockedNext]_locked_vars
             PROVE  LockInv'
  OBVIOUS
<1>1. CASE UNCHANGED locked_vars
  BY <1>1, LockStutter
<1>2. ASSUME NEW t \in Threads, Caller(t), UNCHANGED lock_vars
      PROVE  LockInv'
  BY <1>2, LockCaller
<1>3. ASSUME NEW t \in Threads, Lock(t)
      PROVE  LockInv'
  BY <1>3, LockInside DEF Lock
<1>4. ASSUME NEW t \in Threads, LockedStep(t)
      PROVE  LockInv'
  <2>1. CASE LoadExec(t) \/ LoadStorage(t) \/ Decide(t) \/ LoadPool(t)
    BY <2>1, LockInside DEF LoadExec, LoadStorage, Decide, LoadPool
  <2>2. QED
    BY <1>4, <2>1, LockStore, LockUnlock, LockReturnExact, LockJemalloc
    DEF LockedStep
<1>5. QED
  BY <1>1, <1>2, <1>3, <1>4 DEF LockedNext

LEMMA LockInvHolds == LockedSpec => []LockInv
BY LockInit, LockNext, PTL DEF LockedSpec

(* The mutex, the copies each thread works on and what it returns keep     *)
(* their types, whichever thread is where in its critical section.         *)
THEOREM LockedTypesHold == LockedSpec => []LockedTypeOK
<1>1. LockInv => LockedTypeOK
  BY DEF LockInv
<1>2. QED
  BY <1>1, LockInvHolds, PTL

(* No thread overwrites a counter that has changed since it was copied, or *)
(* acts on a decision that is out of date, for any number of threads.      *)
THEOREM NoUpdateIsLost == LockedSpec => []NoLostUpdate
<1>1. LockInv => NoLostUpdate
  BY DEF LockInv
<1>2. QED
  BY <1>1, LockInvHolds, PTL

-----------------------------------------------------------------------------
(* The refinement.                                                         *)

(* The operators of the atomic manager that take no part in the mapping.   *)
LEMMA SameOperators ==
  /\ Atomic!Pool = Pool
  /\ \A n : Atomic!UsableSizes(n) = UsableSizes(n)
  /\ \A p, n, u : Atomic!Admits(p, n, u) <=> Admits(p, n, u)
  /\ \A p, n, u : Atomic!PolicyMgrAlloc(p, n, u) = PolicyMgrAlloc(p, n, u)
  /\ \A p, n, u : Atomic!PolicyMgrAdjustAlloc(p, n, u)
                    = PolicyMgrAdjustAlloc(p, n, u)
  /\ \A n : Atomic!AsSigned(Atomic!Word(n)) = AsSigned(Word(n))
  /\ \A total : Atomic!InitPolicyMgr(total) <=> InitPolicyMgr(total)
  /\ Atomic!LiveBytes = LiveBytes
<1> USE DEF Atomic!Word, Word, Atomic!AsSigned, AsSigned, Atomic!Pool, Pool,
            Atomic!ExecPool, ExecPool, Atomic!StoragePool, StoragePool
<1>1. /\ Atomic!Pool = Pool
      /\ \A n : Atomic!AsSigned(Atomic!Word(n)) = AsSigned(Word(n))
  OBVIOUS
<1>2. \A n : Atomic!UsableSizes(n) = UsableSizes(n)
  BY DEF Atomic!UsableSizes, UsableSizes
<1>3. \A p, n, u : Atomic!Admits(p, n, u) <=> Admits(p, n, u)
  BY DEF Atomic!Admits, Admits
<1>4. \A p, n, u :
        /\ Atomic!PolicyMgrAlloc(p, n, u) = PolicyMgrAlloc(p, n, u)
        /\ Atomic!PolicyMgrAdjustAlloc(p, n, u) = PolicyMgrAdjustAlloc(p, n, u)
  BY DEF Atomic!PolicyMgrAlloc, PolicyMgrAlloc, Atomic!PolicyMgrAdjustAlloc,
         PolicyMgrAdjustAlloc
<1>5. \A total : Atomic!InitPolicyMgr(total) <=> InitPolicyMgr(total)
  BY DEF Atomic!InitPolicyMgr, InitPolicyMgr, Atomic!PoolSplit, PoolSplit,
         Atomic!ExecPoolQuota, ExecPoolQuota
<1>6. \A S : Atomic!Cardinality(S) = Cardinality(S)
  BY DEF Atomic!Cardinality, Cardinality
<1>7. Atomic!LiveBytes = LiveBytes
  BY <1>6 DEF Atomic!LiveBytes, LiveBytes, Atomic!PoolLive, PoolLive,
         Atomic!SumOver, SumOver, Atomic!BytesOf, BytesOf
<1>8. QED
  BY <1>1, <1>2, <1>3, <1>4, <1>5, <1>7

(* What the others are seen to do is what they were seen to do.            *)
Still(t) ==
  \A u \in Threads \ {t} :
    /\ cs'[u] = cs[u] /\ ret'[u] = ret[u] /\ pc'[u] = pc[u]
    /\ pool'[u] = pool[u] /\ num_bytes'[u] = num_bytes[u]
    /\ ptr'[u] = ptr[u]

LEMMA AbsOthers ==
  ASSUME NEW t \in Threads, Still(t)
  PROVE  /\ AbsPc' = [AbsPc EXCEPT ![t] = AbsPc'[t]]
         /\ AbsPool' = [AbsPool EXCEPT ![t] = AbsPool'[t]]
         /\ AbsNumBytes' = [AbsNumBytes EXCEPT ![t] = AbsNumBytes'[t]]
         /\ AbsPtr' = [AbsPtr EXCEPT ![t] = AbsPtr'[t]]
<1> USE DEF Still, Granted, Returning
<1>1. AbsPc' = [AbsPc EXCEPT ![t] = AbsPc'[t]]
  BY DEF AbsPc
<1>2. AbsPool' = [AbsPool EXCEPT ![t] = AbsPool'[t]]
  BY DEF AbsPool
<1>3. AbsNumBytes' = [AbsNumBytes EXCEPT ![t] = AbsNumBytes'[t]]
  BY DEF AbsNumBytes
<1>4. AbsPtr' = [AbsPtr EXCEPT ![t] = AbsPtr'[t]]
  BY DEF AbsPtr
<1>5. QED
  BY <1>1, <1>2, <1>3, <1>4

(* Whether t has stored the correction of the block it is returning.       *)
Settled(t) == Returning(t) /\ pc[t] = "settle"

(* The blocks seen as returned: those that are, and that of t if settled.  *)
LEMMA AbsHeldOthers ==
  ASSUME NEW t \in Threads, Still(t)
  PROVE  AbsHeld' = held' \cup {ptr[u] : u \in {v \in Threads \ {t} : Settled(v)}}
                          \cup (IF Settled(t)' THEN {ptr'[t]} ELSE {})
BY DEF Still, Settled, Returning, AbsHeld

LEMMA AbsHeldNow ==
  ASSUME NEW t \in Threads
  PROVE  AbsHeld = held \cup {ptr[u] : u \in {v \in Threads \ {t} : Settled(v)}}
                        \cup (IF Settled(t) THEN {ptr[t]} ELSE {})
BY DEF Settled, Returning, AbsHeld

(* Loads, lock operations and returns are stutters.                        *)
LEMMA StutterOutside ==
  ASSUME LockInv, NEW t \in Threads,
         Lock(t) \/ LoadExec(t) \/ LoadStorage(t) \/ LoadPool(t)
  PROVE  UNCHANGED Atomic!vars
<1> USE DEF vars, policy_vars, call_vars, heap_vars
<1>1. \A u \in Threads : Granted(u)' = Granted(u) /\ Returning(u)' = Returning(u)
  BY DEF Granted, Returning, Lock, LoadExec, LoadStorage, LoadPool, Enter,
         LockInv, LockedTypeOK
<1>2. UNCHANGED <<vars>>
  BY DEF Lock, LoadExec, LoadStorage, LoadPool
<1>3. UNCHANGED <<AbsPc, AbsPool, AbsNumBytes, AbsPtr, AbsHeld>>
  BY <1>1, <1>2 DEF AbsPc, AbsPool, AbsNumBytes, AbsPtr, AbsHeld
<1>4. QED
  BY <1>2, <1>3
  DEF Atomic!vars, Atomic!policy_vars, Atomic!call_vars, Atomic!heap_vars

LEMMA StutterUnlock ==
  ASSUME LockInv, NEW t \in Threads,
         UnlockGranted(t) \/ UnlockReturn(t) \/ UnlockBlock(t)
  PROVE  UNCHANGED Atomic!vars
<1> USE DEF ReleaseMutex, Enter, Return, Goto, policy_vars, heap_vars
<1>1. Still(t)
  BY DEF UnlockGranted, UnlockReturn, UnlockBlock, Still, LockInv,
         LockedTypeOK, SafeInv, TypeOK
<1>2. /\ AbsPc'[t] = AbsPc[t] /\ AbsPool'[t] = AbsPool[t]
      /\ AbsNumBytes'[t] = AbsNumBytes[t] /\ AbsPtr'[t] = AbsPtr[t]
  BY DEF UnlockGranted, UnlockReturn, UnlockBlock, LockInv, LockedTypeOK,
         SafeInv, TypeOK, PlaceInv, AbsPc, AbsPool, AbsNumBytes, AbsPtr,
         Granted, Returning
<1>3. AbsHeld' = AbsHeld
  <2>1. ~ Settled(t)'
    BY DEF UnlockGranted, UnlockReturn, UnlockBlock, LockInv, LockedTypeOK,
           Settled, Returning
  <2>2. held' = held \cup (IF Settled(t) THEN {ptr[t]} ELSE {})
    BY DEF UnlockGranted, UnlockReturn, UnlockBlock, LockInv, PlaceInv,
           Settled, Returning
  <2>3. QED
    BY <1>1, <2>1, <2>2, AbsHeldOthers, AbsHeldNow
<1>4. UNCHANGED <<AbsPc, AbsPool, AbsNumBytes, AbsPtr>>
  <2>1. /\ AbsPc = [AbsPc EXCEPT ![t] = AbsPc[t]]
        /\ AbsPool = [AbsPool EXCEPT ![t] = AbsPool[t]]
        /\ AbsNumBytes = [AbsNumBytes EXCEPT ![t] = AbsNumBytes[t]]
        /\ AbsPtr = [AbsPtr EXCEPT ![t] = AbsPtr[t]]
    BY DEF AbsPc, AbsPool, AbsNumBytes, AbsPtr
  <2>2. QED
    BY <1>1, <1>2, <2>1, AbsOthers
<1>5. UNCHANGED <<policy_vars, heap_vars>>
  BY DEF UnlockGranted, UnlockReturn, UnlockBlock
<1>6. QED
  BY <1>3, <1>4, <1>5
  DEF Atomic!vars, Atomic!policy_vars, Atomic!call_vars, Atomic!heap_vars

(* A refusal is the step of a thread that will return NULL.                *)
LEMMA DecideMaps ==
  ASSUME LockInv, NEW t \in Threads, Decide(t)
  PROVE  Atomic!Refuse(t) \/ UNCHANGED Atomic!vars
<1> USE DEF Decide, Enter, vars, policy_vars, call_vars, heap_vars
<1>1. pc[t] = "decide" /\ copy[t] = used_memory /\ ~ Granted(t) /\ ~ Returning(t)
  BY DEF LockInv, PlaceInv, NoLostUpdate, Granted, Returning
<1>2. Still(t) /\ ~ Settled(t) /\ ~ Settled(t)'
  BY <1>1 DEF Still, Settled, Returning, LockInv, LockedTypeOK
<1>3. AbsHeld' = AbsHeld
  BY <1>2, AbsHeldOthers, AbsHeldNow
<1>4. CASE Admits(pool[t], num_bytes[t], copy[t])
  <2>1. ~ Granted(t)' /\ ~ Returning(t)'
    BY <1>4 DEF Granted, Returning, LockInv, LockedTypeOK
  <2>2. /\ AbsPc' = AbsPc /\ AbsPool' = AbsPool
        /\ AbsNumBytes' = AbsNumBytes /\ AbsPtr' = AbsPtr
    BY <1>1, <1>2, <2>1
    DEF AbsPc, AbsPool, AbsNumBytes, AbsPtr, Granted, Returning, Still
  <2>3. QED
    BY <1>3, <2>2
    DEF Atomic!vars, Atomic!policy_vars, Atomic!call_vars, Atomic!heap_vars
<1>5. CASE ~ Admits(pool[t], num_bytes[t], copy[t])
  <2>1. Returning(t)' /\ ~ Granted(t)'
    BY <1>5 DEF Granted, Returning, LockInv, LockedTypeOK
  <2>2. /\ AbsPc[t] = "decide" /\ AbsPool[t] = pool[t]
        /\ AbsNumBytes[t] = num_bytes[t]
    BY <1>1 DEF AbsPc, AbsPool, AbsNumBytes
  <2>3. /\ AbsPc'[t] = "idle" /\ AbsPool'[t] = NoPool
        /\ AbsNumBytes'[t] = 0 /\ AbsPtr'[t] = NULL
    BY <2>1 DEF AbsPc, AbsPool, AbsNumBytes, AbsPtr, Granted, Returning
  <2>4. Atomic!Return(t, "decide")
    BY <1>2, <2>2, <2>3, AbsOthers DEF Atomic!Return, Atomic!Goto
  <2>5. ~ Atomic!Admits(AbsPool[t], AbsNumBytes[t], used_memory)
    BY <1>1, <1>5, <2>2, SameOperators
  <2>6. QED
    BY <1>3, <2>4, <2>5
    DEF Atomic!Refuse, Atomic!policy_vars, Atomic!heap_vars
<1>6. QED
  BY <1>4, <1>5

(* A thread outside the policy manager is seen as it is.                   *)
LEMMA AbsOutside ==
  ASSUME NEW t \in Threads, ~ Granted(t), ~ Returning(t)
  PROVE  /\ AbsPc[t] = pc[t] /\ AbsPool[t] = pool[t]
         /\ AbsNumBytes[t] = num_bytes[t] /\ AbsPtr[t] = ptr[t]
BY DEF AbsPc, AbsPool, AbsNumBytes, AbsPtr

LEMMA AbsReturning ==
  ASSUME NEW t \in Threads, Returning(t)
  PROVE  /\ AbsPc[t] = "idle" /\ AbsPool[t] = NoPool
         /\ AbsNumBytes[t] = 0 /\ AbsPtr[t] = NULL
BY DEF AbsPc, AbsPool, AbsNumBytes, AbsPtr, Granted, Returning

(* The store of the counter is the step of the function that makes it.     *)
LEMMA StoreMaps ==
  ASSUME LockInv, NEW t \in Threads, Store(t)
  PROVE  Atomic!Reserve(t) \/ Atomic!Settle(t) \/ Atomic!Rollback(t)
         \/ Atomic!Refund(t)
<1> USE DEF Store, Enter, call_vars, heap_vars
<1>1. ~ Granted(t) /\ ~ Returning(t) /\ ~ Settled(t) /\ Still(t)
  BY DEF Granted, Returning, Settled, Still, LockInv, LockedTypeOK
<1>2. /\ AbsPc[t] = pc[t] /\ AbsPool[t] = pool[t]
      /\ AbsNumBytes[t] = num_bytes[t] /\ AbsPtr[t] = ptr[t]
  BY <1>1, AbsOutside
<1>3. pool[t] \in Pool /\ used_memory \in [Pool -> SizeT]
  <2>1. pc[t] # "idle"
    BY DEF LockInv, PlaceInv, Adjusting
  <2>2. QED
    BY <2>1 DEF LockInv, SafeInv, TypeOK, PolicyTypeOK
<1>4. CASE pc[t] = "decide"
  <2>1. copy[t] = used_memory /\ ret[t]
    BY <1>4 DEF LockInv, NoLostUpdate, PlaceInv, Adjusting
  <2>2. Granted(t)' /\ ~ Returning(t)' /\ ~ Settled(t)'
    BY <2>1 DEF Granted, Returning, Settled, LockInv, LockedTypeOK
  <2>3. /\ AbsPc'[t] = "malloc" /\ AbsPool'[t] = pool[t]
        /\ AbsNumBytes'[t] = num_bytes[t] /\ AbsPtr'[t] = ptr[t]
    BY <2>2 DEF AbsPc, AbsPool, AbsNumBytes, AbsPtr
  <2>4. UNCHANGED <<AbsPool, AbsNumBytes, AbsPtr>>
    BY <1>1, <1>2, <2>3, AbsOthers DEF AbsPool, AbsNumBytes, AbsPtr
  <2>5. Atomic!Goto(t, "decide", "malloc")
    BY <1>1, <1>2, <1>4, <2>3, AbsOthers DEF Atomic!Goto
  <2>6. AbsHeld' = AbsHeld
    BY <1>1, <2>2, AbsHeldOthers, AbsHeldNow
  <2>7. Atomic!Admits(AbsPool[t], AbsNumBytes[t], used_memory)
    BY <1>2, <1>4, SameOperators DEF LockInv, CopyInv
  <2>8. used_memory' = PolicyMgrAlloc(pool[t], num_bytes[t], used_memory)
    BY <1>3, <1>4, <2>1 DEF PolicyMgrAlloc
  <2>9. used_memory' = Atomic!PolicyMgrAlloc(AbsPool[t], AbsNumBytes[t],
                                             used_memory)
    BY <1>2, <2>8, SameOperators
  <2>10. QED
    BY <2>4, <2>5, <2>6, <2>7, <2>9 DEF Atomic!Reserve, Atomic!heap_vars
<1>5. CASE pc[t] # "decide"
  <2>1. Adjusting(t) /\ ~ ret[t]
    BY <1>5 DEF LockInv, PlaceInv
  <2>2. Returning(t)' /\ ~ Granted(t)'
    BY <2>1 DEF Granted, Returning, LockInv, LockedTypeOK
  <2>3. Atomic!Return(t, pc[t])
    <3>1. /\ AbsPc'[t] = "idle" /\ AbsPool'[t] = NoPool
          /\ AbsNumBytes'[t] = 0 /\ AbsPtr'[t] = NULL
      BY <2>2 DEF AbsPc, AbsPool, AbsNumBytes, AbsPtr, Granted, Returning
    <3>2. QED
      BY <1>1, <1>2, <3>1, AbsOthers DEF Atomic!Return, Atomic!Goto
  <2>4. AbsHeld' = AbsHeld \cup (IF pc[t] = "settle" THEN {ptr[t]} ELSE {})
    <3>1. Settled(t)' <=> pc[t] = "settle"
      BY <2>2 DEF Settled
    <3>2. QED
      BY <1>1, <3>1, AbsHeldOthers, AbsHeldNow
  <2>5. /\ used_memory' = PolicyMgrAdjustAlloc(pool[t], BytesDiff(t),
                                               used_memory)
        /\ UNCHANGED <<total_memory, total_pool_mem>>
    <3>1. copy[t][pool[t]] = used_memory[pool[t]]
      BY DEF LockInv, NoLostUpdate
    <3>2. PolicyMgrAdjustAlloc(pool[t], BytesDiff(t), copy[t])[pool[t]]
            = Word(AsSigned(used_memory[pool[t]]) + BytesDiff(t))
      BY <1>3, <3>1
      DEF PolicyMgrAdjustAlloc, LockInv, LockedTypeOK
    <3>3. used_memory' = [used_memory EXCEPT ![pool[t]] =
            Word(AsSigned(used_memory[pool[t]]) + BytesDiff(t))]
      BY <1>5, <3>2
    <3>4. QED
      BY <3>3 DEF PolicyMgrAdjustAlloc
  <2>6. Atomic!AdjustAlloc(t, BytesDiff(t))
    BY <1>2, <2>5, SameOperators DEF Atomic!AdjustAlloc
  <2>7. CASE pc[t] = "settle"
    <3>1. heap[ptr[t]] > num_bytes[t]
      <4>1. /\ heap[ptr[t]] # num_bytes[t]
            /\ heap[ptr[t]] \in UsableSizes(num_bytes[t])
        BY <2>1, <2>7
        DEF Adjusting, Exact, LockInv, SafeInv, FrameInv, CallInv
      <4>2. num_bytes[t] \in Int
        BY DEF LockInv, SafeInv, TypeOK, SizeT
      <4>3. QED
        BY <4>1, <4>2, MemMgrAssumption DEF UsableSizes
    <3>2. BytesDiff(t) =
            Atomic!AsSigned(Atomic!Word(heap[ptr[t]] - num_bytes[t]))
      BY <2>7, SameOperators DEF BytesDiff
    <3>3. Atomic!Settle(t)
      BY <1>2, <2>3, <2>4, <2>6, <2>7, <3>1, <3>2
      DEF Atomic!Settle, Atomic!heap_vars
    <3>4. QED
      BY <3>3
  <2>8. CASE pc[t] \in {"rollback", "refund"}
    <3>1. BytesDiff(t) = Atomic!AsSigned(Atomic!Word(-AbsNumBytes[t]))
      BY <1>2, <2>8, SameOperators DEF BytesDiff
    <3>2. AbsHeld' = AbsHeld
      BY <2>4, <2>8
    <3>3. QED
      BY <2>3, <2>6, <2>8, <3>1, <3>2
      DEF Atomic!Rollback, Atomic!Refund, Atomic!heap_vars
  <2>9. QED
    BY <2>1, <2>7, <2>8 DEF Adjusting
<1>6. QED
  BY <1>4, <1>5

(* The steps without the mutex are the steps of the same name.             *)
LEMMA ReturnExactMaps ==
  ASSUME LockInv, NEW t \in Threads, ReturnExact(t)
  PROVE  Atomic!Settle(t)
<1> USE DEF ReturnExact, Exact, Return, Goto
<1>1. cs[t] = "out" /\ pc[t] = "settle"
  BY DEF LockInv, LockedTypeOK, CS, PlaceInv, Adjusting
<1>2. /\ ~ Granted(t) /\ ~ Returning(t) /\ ~ Settled(t)
      /\ ~ Granted(t)' /\ ~ Returning(t)' /\ ~ Settled(t)'
  BY <1>1 DEF Granted, Returning, Settled, lock_vars
<1>3. Still(t)
  BY DEF Still, lock_vars, LockInv, SafeInv, TypeOK
<1>4. /\ AbsPc[t] = pc[t] /\ AbsNumBytes[t] = num_bytes[t]
      /\ AbsPtr[t] = ptr[t]
  BY <1>2, AbsOutside
<1>5. /\ AbsPc'[t] = "idle" /\ AbsPool'[t] = NoPool
      /\ AbsNumBytes'[t] = 0 /\ AbsPtr'[t] = NULL
  <2>1. /\ pc'[t] = "idle" /\ pool'[t] = NoPool
        /\ num_bytes'[t] = 0 /\ ptr'[t] = NULL
    BY DEF LockInv, SafeInv, TypeOK
  <2>2. QED
    BY <1>2, <2>1 DEF AbsPc, AbsPool, AbsNumBytes, AbsPtr
<1>6. Atomic!Return(t, "settle")
  BY <1>1, <1>3, <1>4, <1>5, AbsOthers DEF Atomic!Return, Atomic!Goto
<1>7. AbsHeld' = AbsHeld \cup {ptr[t]}
  BY <1>2, <1>3, AbsHeldOthers, AbsHeldNow
<1>8. ~ heap[ptr[t]] > num_bytes[t]
  <2>1. num_bytes[t] \in Int
    BY DEF LockInv, SafeInv, TypeOK, SizeT
  <2>2. QED
    BY <2>1
<1>9. QED
  BY <1>4, <1>6, <1>7, <1>8
  DEF Atomic!Settle, Atomic!heap_vars, heap_vars, Atomic!policy_vars, policy_vars

(* What is seen of a thread that stays outside the policy manager.         *)
LEMMA AbsStep ==
  ASSUME NEW t \in Threads, Still(t), cs[t] = "out", UNCHANGED lock_vars
  PROVE  /\ AbsPc[t] = pc[t] /\ AbsPool[t] = pool[t]
         /\ AbsNumBytes[t] = num_bytes[t] /\ AbsPtr[t] = ptr[t]
         /\ AbsPc' = [AbsPc EXCEPT ![t] = pc'[t]]
         /\ AbsPool' = [AbsPool EXCEPT ![t] = pool'[t]]
         /\ AbsNumBytes' = [AbsNumBytes EXCEPT ![t] = num_bytes'[t]]
         /\ AbsPtr' = [AbsPtr EXCEPT ![t] = ptr'[t]]
         /\ held' = held => AbsHeld' = AbsHeld
<1>1. /\ ~ Granted(t) /\ ~ Returning(t) /\ ~ Settled(t)
      /\ ~ Granted(t)' /\ ~ Returning(t)' /\ ~ Settled(t)'
  BY DEF Granted, Returning, Settled, lock_vars
<1>2. /\ AbsPc'[t] = pc'[t] /\ AbsPool'[t] = pool'[t]
      /\ AbsNumBytes'[t] = num_bytes'[t] /\ AbsPtr'[t] = ptr'[t]
  BY <1>1 DEF AbsPc, AbsPool, AbsNumBytes, AbsPtr
<1>3. held' = held => AbsHeld' = AbsHeld
  BY <1>1, AbsHeldOthers, AbsHeldNow
<1>4. QED
  BY <1>1, <1>2, <1>3, AbsOthers, AbsOutside

(* What is not assigned is assigned its own value.                         *)
LEMMA AbsIdentity ==
  ASSUME NEW t \in Threads
  PROVE  /\ [AbsPool EXCEPT ![t] = AbsPool[t]] = AbsPool
         /\ [AbsNumBytes EXCEPT ![t] = AbsNumBytes[t]] = AbsNumBytes
         /\ [AbsPtr EXCEPT ![t] = AbsPtr[t]] = AbsPtr
BY DEF AbsPool, AbsNumBytes, AbsPtr

LEMMA JeMaps ==
  ASSUME LockInv, NEW t \in Threads, JeStep(t)
  PROVE  Atomic!Step(t)
<1>1. cs[t] = "out" /\ UNCHANGED lock_vars
  BY DEF JeStep, JeMalloc, JeMallocFails, JeFree, Goto, LockInv, LockedTypeOK,
         CS, PlaceInv, Adjusting
<1>2. Still(t) /\ held' = held
  BY <1>1 DEF JeStep, JeMalloc, JeMallocFails, JeFree, Goto, Still, lock_vars,
              LockInv, SafeInv, TypeOK
<1>3. ASSUME NEW b \in Blocks, NEW s \in UsableSizes(num_bytes[t]),
             JeMalloc(t, b, s)
      PROVE  Atomic!Step(t)
  <2>1. /\ pc[t] = "malloc" /\ pc'[t] = "settle" /\ ptr'[t] = b
        /\ pool'[t] = pool[t] /\ num_bytes'[t] = num_bytes[t]
    BY <1>3 DEF JeMalloc, Goto, LockInv, SafeInv, TypeOK
  <2>2. Atomic!Goto(t, "malloc", "settle")
    BY <1>1, <1>2, <2>1, AbsStep DEF Atomic!Goto
  <2>3. /\ AbsPtr' = [AbsPtr EXCEPT ![t] = b] /\ AbsHeld' = AbsHeld
        /\ AbsPool' = AbsPool /\ AbsNumBytes' = AbsNumBytes
        /\ AbsPool[t] = pool[t] /\ AbsNumBytes[t] = num_bytes[t]
    BY <1>1, <1>2, <2>1, AbsStep, AbsIdentity
  <2>4. Atomic!JeMalloc(t, b, s)
    BY <1>3, <2>2, <2>3, SameOperators
    DEF JeMalloc, Atomic!JeMalloc, policy_vars, Atomic!policy_vars
  <2>5. s \in Atomic!UsableSizes(AbsNumBytes[t])
    BY <2>3, SameOperators
  <2>6. QED
    BY <2>4, <2>5 DEF Atomic!Step
<1>4. CASE JeMallocFails(t)
  <2>1. /\ pc[t] = "malloc" /\ pc'[t] = "rollback" /\ ptr'[t] = ptr[t]
        /\ pool'[t] = pool[t] /\ num_bytes'[t] = num_bytes[t]
    BY <1>4 DEF JeMallocFails, Goto, LockInv, SafeInv, TypeOK
  <2>2. Atomic!Goto(t, "malloc", "rollback")
    BY <1>1, <1>2, <2>1, AbsStep DEF Atomic!Goto
  <2>3. UNCHANGED <<AbsPtr, AbsHeld, AbsPool, AbsNumBytes>>
    BY <1>1, <1>2, <2>1, AbsStep, AbsIdentity
  <2>4. QED
    BY <1>4, <2>2, <2>3
    DEF JeMallocFails, Atomic!Step, Atomic!JeMallocFails, policy_vars,
        Atomic!policy_vars, heap_vars, Atomic!heap_vars
<1>5. CASE JeFree(t)
  <2>1. /\ pc[t] = "free" /\ pc'[t] = "refund" /\ ptr'[t] = NULL
        /\ pool'[t] = pool[t] /\ num_bytes'[t] = num_bytes[t]
    BY <1>5 DEF JeFree, Goto, LockInv, SafeInv, TypeOK
  <2>2. Atomic!Goto(t, "free", "refund")
    BY <1>1, <1>2, <2>1, AbsStep DEF Atomic!Goto
  <2>3. /\ AbsPtr' = [AbsPtr EXCEPT ![t] = NULL] /\ AbsHeld' = AbsHeld
        /\ AbsPool' = AbsPool /\ AbsNumBytes' = AbsNumBytes
        /\ AbsPtr[t] = ptr[t]
    BY <1>1, <1>2, <2>1, AbsStep, AbsIdentity
  <2>4. QED
    BY <1>5, <2>2, <2>3
    DEF JeFree, Atomic!Step, Atomic!JeFree, policy_vars, Atomic!policy_vars
<1>6. QED
  BY <1>3, <1>4, <1>5 DEF JeStep

LEMMA CallerMaps ==
  ASSUME LockInv, NEW t \in Threads, Caller(t), UNCHANGED lock_vars
  PROVE  Atomic!Caller(t)
<1>1. cs[t] = "out"
  BY DEF Caller, CallAlloc, CallFree, Goto, LockInv, LockedTypeOK, CS,
         PlaceInv, Adjusting
<1>2. Still(t)
  BY DEF Caller, CallAlloc, CallFree, Goto, Still, lock_vars, LockInv,
         SafeInv, TypeOK
<1>3. ASSUME NEW p \in Pool, NEW n \in Requests, CallAlloc(t, p, n)
      PROVE  Atomic!Caller(t)
  <2>1. /\ pc[t] = "idle" /\ pc'[t] = "decide" /\ ptr'[t] = ptr[t]
        /\ pool'[t] = p /\ num_bytes'[t] = n /\ held' = held
    BY <1>3 DEF CallAlloc, Goto, LockInv, SafeInv, TypeOK
  <2>2. Atomic!Goto(t, "idle", "decide")
    BY <1>1, <1>2, <2>1, AbsStep DEF Atomic!Goto
  <2>3. /\ AbsPool' = [AbsPool EXCEPT ![t] = p]
        /\ AbsNumBytes' = [AbsNumBytes EXCEPT ![t] = n]
        /\ AbsPtr' = AbsPtr /\ AbsHeld' = AbsHeld
    BY <1>1, <1>2, <2>1, AbsStep, AbsIdentity
  <2>4. QED
    BY <1>3, <2>2, <2>3, SameOperators
    DEF CallAlloc, Atomic!Caller, Atomic!CallAlloc, policy_vars,
        Atomic!policy_vars, heap_vars, Atomic!heap_vars
<1>4. ASSUME NEW b \in Blocks, CallFree(t, b)
      PROVE  Atomic!Caller(t)
  <2>1. /\ pc[t] = "idle" /\ pc'[t] = "free" /\ ptr'[t] = b
        /\ pool'[t] = tag[b] /\ num_bytes'[t] = heap[b]
    BY <1>4 DEF CallFree, Goto, LockInv, SafeInv, TypeOK
  <2>2. Atomic!Goto(t, "idle", "free")
    BY <1>1, <1>2, <2>1, AbsStep DEF Atomic!Goto
  <2>3. /\ AbsPool' = [AbsPool EXCEPT ![t] = tag[b]]
        /\ AbsNumBytes' = [AbsNumBytes EXCEPT ![t] = heap[b]]
        /\ AbsPtr' = [AbsPtr EXCEPT ![t] = b]
    BY <1>1, <1>2, <2>1, AbsStep
  <2>4. b \in AbsHeld /\ AbsHeld' = AbsHeld \ {b}
    <3>1. \A u \in Threads \ {t} : Settled(u) => ptr[u] # b
      BY <1>4, MemMgrAssumption
      DEF CallFree, Settled, LockInv, SafeInv, TypeOK, FrameInv, CallInv
    <3>2. ~ Settled(t) /\ ~ Settled(t)'
      BY <1>1 DEF Settled, Returning, lock_vars
    <3>3. b \in held /\ held' = held \ {b}
      BY <1>4 DEF CallFree
    <3>4. QED
      BY <1>2, <3>1, <3>2, <3>3, AbsHeldOthers, AbsHeldNow
  <2>5. QED
    BY <1>4, <2>2, <2>3, <2>4
    DEF CallFree, Atomic!Caller, Atomic!CallFree, policy_vars,
        Atomic!policy_vars, heap_vars, Atomic!heap_vars
<1>5. QED
  BY <1>3, <1>4 DEF Caller

LEMMA InitMaps == LockedInit => Atomic!Init
<1> SUFFICES ASSUME LockedInit
             PROVE  Atomic!Init
  OBVIOUS
<1> USE DEF LockedInit, Init
<1>1. \A t \in Threads : ~ Granted(t) /\ ~ Returning(t)
  BY DEF Granted, Returning
<1>2. /\ AbsPc = pc /\ AbsPool = pool
      /\ AbsNumBytes = num_bytes /\ AbsPtr = ptr
  BY <1>1 DEF AbsPc, AbsPool, AbsNumBytes, AbsPtr
<1>3. AbsHeld = held
  BY <1>1 DEF AbsHeld
<1>4. \E total \in Totals : Atomic!InitPolicyMgr(total)
  BY SameOperators
<1>5. QED
  BY <1>2, <1>3, <1>4 DEF Atomic!Init

LEMMA StepMaps ==
  LockInv /\ [LockedNext]_locked_vars => [Atomic!Next]_(Atomic!vars)
<1> SUFFICES ASSUME LockInv, [LockedNext]_locked_vars
             PROVE  Atomic!Next \/ UNCHANGED Atomic!vars
  OBVIOUS
<1>1. CASE UNCHANGED locked_vars
  BY <1>1
  DEF locked_vars, lock_vars, vars, policy_vars, call_vars, heap_vars,
      Atomic!vars, Atomic!policy_vars, Atomic!call_vars, Atomic!heap_vars,
      AbsPc, AbsPool, AbsNumBytes, AbsPtr, AbsHeld, Granted, Returning
<1>2. ASSUME NEW t \in Threads, Caller(t), UNCHANGED lock_vars
      PROVE  Atomic!Next
  BY <1>2, CallerMaps DEF Atomic!Next
<1>3. ASSUME NEW t \in Threads, Lock(t)
      PROVE  UNCHANGED Atomic!vars
  BY <1>3, StutterOutside
<1>4. ASSUME NEW t \in Threads, LockedStep(t)
      PROVE  Atomic!Step(t) \/ UNCHANGED Atomic!vars
  <2>1. CASE LoadExec(t) \/ LoadStorage(t) \/ LoadPool(t)
    BY <2>1, StutterOutside
  <2>2. CASE UnlockGranted(t) \/ UnlockReturn(t) \/ UnlockBlock(t)
    BY <2>2, StutterUnlock
  <2>3. CASE Decide(t)
    BY <2>3, DecideMaps DEF Atomic!Step
  <2>4. CASE Store(t)
    BY <2>4, StoreMaps DEF Atomic!Step
  <2>5. CASE ReturnExact(t)
    BY <2>5, ReturnExactMaps DEF Atomic!Step
  <2>6. CASE JeStep(t)
    BY <2>6, JeMaps
  <2>7. QED
    BY <1>4, <2>1, <2>2, <2>3, <2>4, <2>5, <2>6 DEF LockedStep
<1>5. QED
  BY <1>1, <1>2, <1>3, <1>4 DEF LockedNext, Atomic!Next

(* The manager whose functions run one access at a time under the mutex    *)
(* implements the one whose functions are atomic: every theorem about Spec *)
(* holds of the code at the grain of its loads and stores.                 *)
THEOREM FunctionsAreAtomic == LockedSpec => Atomicity
BY InitMaps, StepMaps, LockInvHolds, PTL DEF LockedSpec, Atomicity, Atomic!Spec

-----------------------------------------------------------------------------
(* The budgets are about the heap and the configuration, which the         *)
(* refinement leaves as they are, so what MemMgrProofs proves of the atomic*)
(* manager is carried over.                                                *)

Carried == INSTANCE MemMgrProofs
  WITH pc <- AbsPc, pool <- AbsPool, num_bytes <- AbsNumBytes,
       ptr <- AbsPtr, held <- AbsHeld

(* The byte counts of the heap are those of the carried-over theorems.     *)
LEMMA SameBytes ==
  /\ Carried!LiveBytes = LiveBytes
  /\ Carried!PoolLive(Carried!StoragePool) = PoolLive(StoragePool)
  /\ Carried!Cardinality(Threads) = Cardinality(Threads)
<1>1. \A S : Carried!Cardinality(S) = Cardinality(S)
  BY DEF Carried!Cardinality, Cardinality
<1>2. \A p : Carried!PoolLive(p) = PoolLive(p)
  BY <1>1 DEF Carried!PoolLive, PoolLive, Carried!SumOver, SumOver,
         Carried!BytesOf, BytesOf
<1>3. QED
  BY <1>1, <1>2 DEF Carried!LiveBytes, LiveBytes, Carried!ExecPool, ExecPool,
         Carried!StoragePool, StoragePool

(* Both instances of MemMgr start in the same states.                      *)
LEMMA SameInit == Atomic!Init => Carried!Init
BY DEF Atomic!Init, Carried!Init, Atomic!InitPolicyMgr, Carried!InitPolicyMgr,
       Atomic!PoolSplit, Carried!PoolSplit, Atomic!ExecPoolQuota,
       Carried!ExecPoolQuota, Atomic!Word, Carried!Word, Atomic!Pool,
       Carried!Pool, Atomic!ExecPool, Carried!ExecPool, Atomic!StoragePool,
       Carried!StoragePool

(* The operators that the two instances share.                             *)
LEMMA CarriedOperators ==
  /\ Atomic!Pool = Carried!Pool
  /\ \A n : Atomic!UsableSizes(n) = Carried!UsableSizes(n)
  /\ \A n : Atomic!AsSigned(Atomic!Word(n)) = Carried!AsSigned(Carried!Word(n))
  /\ \A p, n, u : Atomic!Admits(p, n, u) <=> Carried!Admits(p, n, u)
  /\ \A p, n, u : Atomic!PolicyMgrAlloc(p, n, u) = Carried!PolicyMgrAlloc(p, n, u)
  /\ \A p, n, u : Atomic!PolicyMgrAdjustAlloc(p, n, u)
                    = Carried!PolicyMgrAdjustAlloc(p, n, u)
  /\ Atomic!LiveBytes = Carried!LiveBytes
<1> USE DEF Atomic!Word, Carried!Word, Atomic!AsSigned, Carried!AsSigned,
            Atomic!Pool, Carried!Pool, Atomic!ExecPool, Carried!ExecPool,
            Atomic!StoragePool, Carried!StoragePool
<1>1. /\ Atomic!Pool = Carried!Pool
      /\ \A n : Atomic!AsSigned(Atomic!Word(n)) = Carried!AsSigned(Carried!Word(n))
  OBVIOUS
<1>2. \A n : Atomic!UsableSizes(n) = Carried!UsableSizes(n)
  BY DEF Atomic!UsableSizes, Carried!UsableSizes
<1>3. \A p, n, u : Atomic!Admits(p, n, u) <=> Carried!Admits(p, n, u)
  BY DEF Atomic!Admits, Carried!Admits
<1>4. \A p, n, u :
        /\ Atomic!PolicyMgrAlloc(p, n, u) = Carried!PolicyMgrAlloc(p, n, u)
        /\ Atomic!PolicyMgrAdjustAlloc(p, n, u) = Carried!PolicyMgrAdjustAlloc(p, n, u)
  BY DEF Atomic!PolicyMgrAlloc, Carried!PolicyMgrAlloc,
         Atomic!PolicyMgrAdjustAlloc, Carried!PolicyMgrAdjustAlloc
<1>5. QED
  BY <1>1, <1>2, <1>3, <1>4, SameBytes, SameOperators

(* Each step of the one instance is the step of the other.                 *)
LEMMA SameNext == [Atomic!Next]_Atomic!vars => [Carried!Next]_Carried!vars
<1> USE CarriedOperators DEF Atomic!Goto, Carried!Goto, Atomic!Return,
    Carried!Return, Atomic!AdjustAlloc, Carried!AdjustAlloc,
    Atomic!policy_vars, Carried!policy_vars, Atomic!heap_vars, Carried!heap_vars
<1>1. \A t, p, n : Atomic!CallAlloc(t, p, n) => Carried!CallAlloc(t, p, n)
  BY DEF Atomic!CallAlloc, Carried!CallAlloc
<1>2. \A t : Atomic!Reserve(t) => Carried!Reserve(t)
  BY DEF Atomic!Reserve, Carried!Reserve
<1>3. \A t : Atomic!Refuse(t) => Carried!Refuse(t)
  BY DEF Atomic!Refuse, Carried!Refuse
<1>4. \A t, b, s : Atomic!JeMalloc(t, b, s) => Carried!JeMalloc(t, b, s)
  BY DEF Atomic!JeMalloc, Carried!JeMalloc
<1>5. \A t : Atomic!JeMallocFails(t) => Carried!JeMallocFails(t)
  BY DEF Atomic!JeMallocFails, Carried!JeMallocFails
<1>6. \A t : Atomic!Settle(t) => Carried!Settle(t)
  BY DEF Atomic!Settle, Carried!Settle
<1>7. \A t : Atomic!Rollback(t) => Carried!Rollback(t)
  BY DEF Atomic!Rollback, Carried!Rollback
<1>8. \A t, b : Atomic!CallFree(t, b) => Carried!CallFree(t, b)
  BY DEF Atomic!CallFree, Carried!CallFree
<1>9. \A t : Atomic!JeFree(t) => Carried!JeFree(t)
  BY DEF Atomic!JeFree, Carried!JeFree
<1>10. \A t : Atomic!Refund(t) => Carried!Refund(t)
  BY DEF Atomic!Refund, Carried!Refund
<1>11. Atomic!Next => Carried!Next
  BY <1>1, <1>2, <1>3, <1>4, <1>5, <1>6, <1>7, <1>8, <1>9, <1>10
  DEF Atomic!Next, Carried!Next, Atomic!Caller, Carried!Caller, Atomic!Step, Carried!Step
<1>12. UNCHANGED Atomic!vars => UNCHANGED Carried!vars
  BY DEF Atomic!vars, Carried!vars, Atomic!call_vars, Carried!call_vars
<1>13. QED
  BY <1>11, <1>12

(* What the theorems carried over assume.                                  *)
LEMMA CarriedAssumptions ==
  /\ SizeMod \in Nat /\ SizeMod > 1
  /\ /\ MinReq \in [Carried!Pool -> Carried!SizeT]
     /\ MaxReq \in [Carried!Pool -> Carried!SizeT]
     /\ \A p \in Carried!Pool : 0 < MinReq[p] /\ MinReq[p] <= MaxReq[p]
  /\ /\ Carried!IsFiniteSet(Threads) /\ Carried!IsFiniteSet(Blocks)
     /\ NULL \notin Blocks /\ NoPool \notin Carried!Pool
     /\ Totals \subseteq Carried!SizeT /\ Requests \subseteq Carried!SizeT
     /\ HeapBytes \in Nat /\ MaxSlack \in Nat
  /\ \A p \in Carried!Pool :
       2 * (HeapBytes + Carried!Cardinality(Threads) * (MaxReq[p] + MaxSlack)) < SizeMod
<1> Carried!Pool = Pool /\ Carried!SizeT = SizeT
  BY DEF Carried!Pool, Pool, Carried!ExecPool, ExecPool, Carried!StoragePool,
         StoragePool, Carried!SizeT, SizeT
<1>1. \A S : Carried!IsFiniteSet(S) <=> IsFiniteSet(S)
  BY DEF Carried!IsFiniteSet, IsFiniteSet
<1>2. QED
  BY <1>1, SameBytes, SizeModAssumption, ReqSizeAssumption, MemMgrAssumption,
     CapacityAssumption

(* Access by access, and however long the program runs, the blocks live at *)
(* once pass the configured total by at most one excess for each thread.   *)
THEOREM LockedBudgetHolds == LockedSpec => []LiveWithinBudget
<1>1. Carried!LiveWithinBudget => LiveWithinBudget
  BY SameBytes DEF Carried!LiveWithinBudget, LiveWithinBudget
<1>2. Carried!Spec => []Carried!LiveWithinBudget
  BY CarriedAssumptions, Carried!BudgetHolds, PTL
<1>3. QED
  BY <1>1, <1>2, SameInit, SameNext, FunctionsAreAtomic, PTL
  DEF Atomicity, Atomic!Spec, Carried!Spec

(* And those of the storage pool pass its share by no more.                *)
THEOREM LockedStorageQuotaHolds == LockedSpec => []StorageWithinQuota
<1>1. Carried!StorageWithinQuota => StorageWithinQuota
  BY SameBytes DEF Carried!StorageWithinQuota, StorageWithinQuota,
     Carried!StoragePool, StoragePool
<1>2. Carried!Spec => []Carried!StorageWithinQuota
  BY CarriedAssumptions, Carried!StorageQuotaHolds, PTL
<1>3. QED
  BY <1>1, <1>2, SameInit, SameNext, FunctionsAreAtomic, PTL
  DEF Atomicity, Atomic!Spec, Carried!Spec

(* Access by access the manager is the ledger too: no interleaving of the  *)
(* loads and stores of its critical sections grants, refuses or books a    *)
(* byte that the ledger, deciding one call at a time, would not.           *)
THEOREM LockedImplementsLedger == LockedSpec => Carried!KeepsLedger
<1>1. Carried!Spec => Carried!KeepsLedger
  BY CarriedAssumptions, Carried!LedgerImplemented, PTL
<1>2. QED
  BY <1>1, SameInit, SameNext, FunctionsAreAtomic, PTL
  DEF Atomicity, Atomic!Spec, Carried!Spec
=============================================================================
