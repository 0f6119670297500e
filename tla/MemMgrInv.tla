----------------------------- MODULE MemMgrInv -----------------------------
(***************************************************************************)
(* The inductive invariant of MemMgr: what each call in flight knows of    *)
(* its request and its block, and what the counters owe to the heap.       *)
(***************************************************************************)
EXTENDS MemMgr

(* What a call knows of its request and of its block, through whichever    *)
(* routine the block is being freed.                                       *)
CallInv ==
  \A t \in Threads :
    /\ pc[t] \in {"malloc", "rollback", "settle"} =>
         num_bytes[t] \in MinReq[pool[t]] .. MaxReq[pool[t]]
    /\ pc[t] \in {"free", "refund"} =>
         \E p \in Pool : num_bytes[t] <= MaxReq[p] + MaxSlack
    /\ pc[t] = "settle" => /\ heap[ptr[t]] \in UsableSizes(num_bytes[t])
                           /\ tag[ptr[t]] = pool[t]
    /\ pc[t] = "free" => heap[ptr[t]] = num_bytes[t] /\ tag[ptr[t]] \in Pool
    /\ pc[t] \in {"settle", "free"} => ptr[t] \notin held

(* A block is freed through the routine of the pool it is charged to.      *)
PoolInv == \A t \in Threads : pc[t] = "free" => tag[ptr[t]] = pool[t]

(* No two calls have hold of the same block.                               *)
OwnershipInv ==
  \A t, u \in Threads : t # u /\ ptr[t] # NULL => ptr[t] # ptr[u]

(* Live blocks are the tagged ones, and callers own live blocks only.      *)
BlockInv ==
  \A b \in Blocks :
    /\ heap[b] = 0 <=> tag[b] = NoPool
    /\ b \in held => tag[b] \in Pool
    /\ tag[b] \in Pool => heap[b] <= MaxReq[tag[b]] + MaxSlack

HeapInv == LiveBytes <= HeapBytes

QuotaInv == total_pool_mem[StoragePool] <= total_memory

(* What is charged to a pool once the calls in flight that may still find  *)
(* an excess have charged it, at its largest for those yet to allocate.    *)
Pending(p) == SumOver(Callers(p, {"malloc"}), [t \in Threads |-> MaxSlack])

Exposure(p) == used_memory[p] + Unsettled(p) + Pending(p)

ExposureInv ==
  /\ Exposure(ExecPool) + Exposure(StoragePool)
       <= total_memory + MaxSlack * Cardinality(Threads)
  /\ Exposure(StoragePool)
       <= total_pool_mem[StoragePool] + MaxSlack * Cardinality(Threads)

FrameInv == CallInv /\ OwnershipInv /\ BlockInv

SumInv == HeapInv /\ QuotaInv /\ Accounting /\ ExposureInv

IInv == TypeOK /\ FrameInv /\ PoolInv /\ SumInv

SafeInv == TypeOK /\ FrameInv

-----------------------------------------------------------------------------
(* The ledger the manager implements.  A call is asking until its decision *)
(* and promised what it asked for until je_malloc answers; then its excess *)
(* is still to be charged.  freeMem asks nothing: up to je_free its block  *)
(* is lent, and from there on returned.                                    *)

Entry(t) ==
  LET Call(at, n) == [at |-> at, pool |-> pool[t], bytes |-> n]
  IN  CASE pc[t] = "decide"                 -> Call("asked", num_bytes[t])
        [] pc[t] \in {"malloc", "rollback"} -> Call("promised", num_bytes[t])
        [] pc[t] = "settle"                 -> Call("excess", Excess[t])
        [] pc[t] = "refund"                 -> Call("returned", num_bytes[t])
        [] pc[t] \in {"idle", "free"}       -> [at |-> "idle", pool |-> NoPool, bytes |-> 0]

Entries == [t \in Threads |-> Entry(t)]

Lent == [p \in Pool |-> PoolLive(p)]

Contract == INSTANCE Ledger
  WITH total <- total_memory, share <- total_pool_mem[StoragePool],
       lent <- Lent, call <- Entries

(* Whatever the interleaving of its calls, the manager behaves as the      *)
(* ledger does, which has no counters, machine words or addresses: each    *)
(* request is granted or refused once, on the bytes lent and those of the  *)
(* calls in progress, and every byte that is lent, found in excess, given  *)
(* back or not obtained changes the ledger once (src/policy_mgr.c and      *)
(* src/mem_mgr.c).                                                         *)
KeepsLedger == Contract!LedgerSpec
=============================================================================
