------------------------------- MODULE MemMgr -------------------------------
(***************************************************************************)
(* The memory manager (src/mem_mgr.c) in a process of several threads: the *)
(* policy manager decides on and accounts for every request, jemalloc      *)
(* supplies the memory.  A call is a sequence of atomic steps, one for     *)
(* each critical section of the policy manager and one for each jemalloc   *)
(* call that changes the heap; the steps of different threads interleave.  *)
(*                                                                         *)
(*   allocMem:  CallAlloc, then Refuse, or Reserve followed by             *)
(*              JeMalloc and Settle, or by JeMallocFails and Rollback      *)
(*   freeMem:   CallFree, JeFree, Refund                                   *)
(*                                                                         *)
(* The caller's part of the contract is modelled with it: it frees only    *)
(* what it was given, once, and through the pool it asked for.             *)
(***************************************************************************)
EXTENDS PolicyMgr, ByteSums

CONSTANTS
  Threads,      \* threads calling the manager
  Blocks,       \* addresses je_malloc can return
  NULL,         \* the null pointer
  NoPool,       \* what is tagged for neither pool
  Totals,       \* sizes the manager may be initialised with
  Requests,     \* num_bytes a caller may ask for
  HeapBytes,    \* bytes jemalloc can obtain from the system
  MaxSlack      \* most a block's usable size exceeds the size asked for

ASSUME MemMgrAssumption ==
  /\ IsFiniteSet(Threads)
  /\ IsFiniteSet(Blocks)
  /\ NULL \notin Blocks
  /\ NoPool \notin Pool
  /\ Totals \subseteq SizeT
  /\ Requests \subseteq SizeT
  /\ HeapBytes \in Nat
  /\ MaxSlack \in Nat

(* Twice the heap and the largest blocks the threads can be holding at     *)
(* once does not fill a size_t: 2^48 bytes of address space and a few      *)
(* hundred MB per thread, against 2^64.  The configured total is not       *)
(* bounded: it may be SIZE_MAX.                                            *)
ASSUME CapacityAssumption ==
  \A p \in Pool :
    2 * (HeapBytes + Cardinality(Threads) * (MaxReq[p] + MaxSlack)) < SizeMod

VARIABLES
  pc,          \* where each thread is in allocMem or freeMem
  pool,        \* the pool argument of its call
  num_bytes,   \* num_bytes of allocMem, num_bytes_freed of freeMem
  ptr,         \* alloc_ptr of allocMem, p of freeMem
  heap,        \* usable size of each live block, 0 for a free one
  tag,         \* pool each live block was requested for
  held         \* blocks the callers own: returned to them, not yet freed

call_vars == <<pc, pool, num_bytes, ptr>>
heap_vars == <<heap, tag>>
vars == <<policy_vars, call_vars, heap_vars, held>>

PC == {"idle", "decide", "malloc", "settle", "rollback", "free", "refund"}

(* Types, and what each program point knows: a call is in progress iff it  *)
(* has a pool; past je_malloc, and until je_free, it has a block.          *)
TypeOK ==
  /\ PolicyTypeOK
  /\ pc \in [Threads -> PC]
  /\ pool \in [Threads -> Pool \cup {NoPool}]
  /\ num_bytes \in [Threads -> SizeT]
  /\ ptr \in [Threads -> Blocks \cup {NULL}]
  /\ heap \in [Blocks -> 0 .. HeapBytes]
  /\ tag \in [Blocks -> Pool \cup {NoPool}]
  /\ held \subseteq Blocks
  /\ \A t \in Threads : pc[t] = "idle" <=> pool[t] = NoPool
  /\ \A t \in Threads : pc[t] \in {"settle", "free"} <=> ptr[t] # NULL

-----------------------------------------------------------------------------
(* Byte counts.                                                            *)

Callers(p, points) == {t \in Threads : pool[t] = p /\ pc[t] \in points}

(* Bytes jemalloc has live on behalf of pool p, and of both pools.         *)
PoolLive(p) == SumOver({b \in Blocks : tag[b] = p}, heap)

LiveBytes == PoolLive(ExecPool) + PoolLive(StoragePool)

(* Bytes charged to pool p that no live block backs: reserved and not yet  *)
(* allocated, or allocated no more and not yet given back.                 *)
Claimed(p) == SumOver(Callers(p, {"malloc", "rollback", "refund"}), num_bytes)

(* Bytes of live blocks of pool p not yet charged: the excess of the       *)
(* usable size over the request, until it is settled.                      *)
Excess == [t \in Threads |-> IF pc[t] = "settle"
                             THEN heap[ptr[t]] - num_bytes[t] ELSE 0]

Unsettled(p) == SumOver(Callers(p, {"settle"}), Excess)

-----------------------------------------------------------------------------
(* Steps of a call.                                                        *)

Goto(t, from, to) == pc[t] = from /\ pc' = [pc EXCEPT ![t] = to]

(* The call returns and its frame is gone.                                 *)
Return(t, from) ==
  /\ Goto(t, from, "idle")
  /\ pool' = [pool EXCEPT ![t] = NoPool]
  /\ num_bytes' = [num_bytes EXCEPT ![t] = 0]
  /\ ptr' = [ptr EXCEPT ![t] = NULL]

AdjustAlloc(t, bytes_diff) ==
  /\ used_memory' = PolicyMgrAdjustAlloc(pool[t], bytes_diff, used_memory)
  /\ UNCHANGED <<total_memory, total_pool_mem>>

(* allocStorageMemory(n) and allocExecMemory(n) enter allocMem.            *)
CallAlloc(t, p, n) ==
  /\ Goto(t, "idle", "decide")
  /\ pool' = [pool EXCEPT ![t] = p]
  /\ num_bytes' = [num_bytes EXCEPT ![t] = n]
  /\ UNCHANGED <<policy_vars, ptr, heap_vars, held>>

(* policyMgrAlloc returns true ...                                         *)
Reserve(t) ==
  /\ Goto(t, "decide", "malloc")
  /\ Admits(pool[t], num_bytes[t], used_memory)
  /\ used_memory' = PolicyMgrAlloc(pool[t], num_bytes[t], used_memory)
  /\ UNCHANGED <<total_memory, total_pool_mem, pool, num_bytes, ptr,
                 heap_vars, held>>

(* ... or false, and allocMem returns NULL.                                *)
Refuse(t) ==
  /\ Return(t, "decide")
  /\ ~ Admits(pool[t], num_bytes[t], used_memory)
  /\ UNCHANGED <<policy_vars, heap_vars, held>>

(* je_malloc finds a free block, whose usable size je_sallocx reports.     *)
JeMalloc(t, b, real_alloc_size) ==
  /\ Goto(t, "malloc", "settle")
  /\ heap[b] = 0
  /\ LiveBytes + real_alloc_size <= HeapBytes
  /\ heap' = [heap EXCEPT ![b] = real_alloc_size]
  /\ tag' = [tag EXCEPT ![b] = pool[t]]
  /\ ptr' = [ptr EXCEPT ![t] = b]
  /\ UNCHANGED <<policy_vars, pool, num_bytes, held>>

UsableSizes(n) == n .. n + MaxSlack

(* A slip: the pointer je_malloc returned is used without a test for NULL. *)
JeMallocUnchecked(t) ==
  /\ Goto(t, "malloc", "settle")
  /\ UNCHANGED <<policy_vars, pool, num_bytes, ptr, heap_vars, held>>

JeMallocFails(t) ==
  /\ Goto(t, "malloc", "rollback")
  /\ UNCHANGED <<policy_vars, pool, num_bytes, ptr, heap_vars, held>>

(* A slip: the difference is taken the wrong way round.                    *)
SettleReversed(t) ==
  LET real_alloc_size == heap[ptr[t]]
  IN  /\ Return(t, "settle")
      /\ IF real_alloc_size > num_bytes[t]
         THEN AdjustAlloc(t, AsSigned(Word(num_bytes[t] - real_alloc_size)))
         ELSE UNCHANGED policy_vars
      /\ held' = held \cup {ptr[t]}
      /\ UNCHANGED heap_vars

(* A block larger than asked for is charged in full, and the caller gets   *)
(* the block.                                                              *)
Settle(t) ==
  LET real_alloc_size == heap[ptr[t]]
  IN  /\ Return(t, "settle")
      /\ IF real_alloc_size > num_bytes[t]
         THEN AdjustAlloc(t, AsSigned(Word(real_alloc_size - num_bytes[t])))
         ELSE UNCHANGED policy_vars
      /\ held' = held \cup {ptr[t]}
      /\ UNCHANGED heap_vars

(* A slip: NULL is returned and the reservation kept.                      *)
RollbackForgotten(t) ==
  /\ Return(t, "rollback")
  /\ UNCHANGED <<policy_vars, heap_vars, held>>

(* je_malloc returned NULL: the reservation is undone and NULL returned.   *)
Rollback(t) ==
  /\ Return(t, "rollback")
  /\ AdjustAlloc(t, AsSigned(Word(-num_bytes[t])))
  /\ UNCHANGED <<heap_vars, held>>

(* freeStorageMemory(b) and freeExecMemory(b) enter freeMem, which asks    *)
(* for the block's size before it lets the block go.                       *)
CallFree(t, b) ==
  /\ b \in held
  /\ heap[b] > 0
  /\ Goto(t, "idle", "free")
  /\ pool' = [pool EXCEPT ![t] = tag[b]]
  /\ num_bytes' = [num_bytes EXCEPT ![t] = heap[b]]
  /\ ptr' = [ptr EXCEPT ![t] = b]
  /\ held' = held \ {b}
  /\ UNCHANGED <<policy_vars, heap_vars>>

(* From here on the address can be handed out again.                       *)
JeFree(t) ==
  /\ Goto(t, "free", "refund")
  /\ heap' = [heap EXCEPT ![ptr[t]] = 0]
  /\ tag' = [tag EXCEPT ![ptr[t]] = NoPool]
  /\ ptr' = [ptr EXCEPT ![t] = NULL]
  /\ UNCHANGED <<policy_vars, pool, num_bytes, held>>

Refund(t) ==
  /\ Return(t, "refund")
  /\ AdjustAlloc(t, AsSigned(Word(-num_bytes[t])))
  /\ UNCHANGED <<heap_vars, held>>

-----------------------------------------------------------------------------

Init ==
  /\ \E total \in Totals : InitPolicyMgr(total)
  /\ pc = [t \in Threads |-> "idle"]
  /\ pool = [t \in Threads |-> NoPool]
  /\ num_bytes = [t \in Threads |-> 0]
  /\ ptr = [t \in Threads |-> NULL]
  /\ heap = [b \in Blocks |-> 0]
  /\ tag = [b \in Blocks |-> NoPool]
  /\ held = {}

Caller(t) ==
  \/ \E p \in Pool, n \in Requests : CallAlloc(t, p, n)
  \/ \E b \in Blocks : CallFree(t, b)

Step(t) ==
  \/ Reserve(t)
  \/ Refuse(t)
  \/ \E b \in Blocks, s \in UsableSizes(num_bytes[t]) : JeMalloc(t, b, s)
  \/ JeMallocFails(t)
  \/ Settle(t)
  \/ Rollback(t)
  \/ JeFree(t)
  \/ Refund(t)

Next == \E t \in Threads : Caller(t) \/ Step(t)

Spec == Init /\ [][Next]_vars

-----------------------------------------------------------------------------
(* Properties.                                                             *)

(* The counter of a pool is never off by a byte: at every instant, calls   *)
(* in flight included, it equals the bytes live for the pool plus those    *)
(* claimed by calls that hold no block, less the excess not settled yet.   *)
(* No interleaving of policyMgrAlloc, je_malloc, je_free and               *)
(* policyMgrAdjustAlloc loses, repeats or misplaces a correction, and no   *)
(* counter ever wraps (src/mem_mgr.c allocMem and freeMem).                *)
Accounting ==
  \A p \in Pool : used_memory[p] + Unsettled(p) = PoolLive(p) + Claimed(p)

(* The excess of a block is charged after the decision that admitted it,   *)
(* so the memory in use may pass the configured total; but once it is      *)
(* charged nothing more is admitted, so it passes the total by at most one *)
(* excess per thread, however long the program runs.                       *)
LiveWithinBudget ==
  LiveBytes <= total_memory + MaxSlack * Cardinality(Threads)

(* The same for the storage pool and its share, as initPolicyMgr has       *)
(* computed it: storage requests never borrow from the execution pool,     *)
(* whatever the execution pool does.                                       *)
StorageWithinQuota ==
  PoolLive(StoragePool) <= total_pool_mem[StoragePool]
                           + MaxSlack * Cardinality(Threads)

(* What the policy promises a request of n bytes when it looks at the      *)
(* memory really in use rather than at its counters.                       *)
Fits(p, n) ==
  /\ n \in MinReq[p] .. MaxReq[p]
  /\ p = StoragePool => PoolLive(p) + n <= total_pool_mem[p]
  /\ LiveBytes + n <= total_memory

Alone(t) == \A u \in Threads \ {t} : pc[u] \in {"idle", "decide"}

(* A request decided while no other call is between its decision and its   *)
(* return is granted exactly when it fits the memory really in use: no     *)
(* history of failed allocations, excesses and frees leaves the counters   *)
(* with a byte that is charged for nothing or free and refused, and what   *)
(* the execution pool borrowed from the storage pool comes back to it.     *)
DecisionsExact ==
  [][\A t \in Threads : Alone(t) =>
       /\ Reserve(t) => Fits(pool[t], num_bytes[t])
       /\ Refuse(t) => ~ Fits(pool[t], num_bytes[t])]_vars
=============================================================================
