--------------------------- MODULE ConcurrencyTest ---------------------------
(***************************************************************************)
(* The concurrency test of src/tests.c as a client of MemMgr, and the life *)
(* of the manager around it: RUN_TEST calls setUp, which initialises the   *)
(* manager, the test, which starts threads and joins them, and tearDown,   *)
(* which destroys the manager.  Each thread runs testThreadMemAllocs: four *)
(* loops of allocations, after each of which it frees the blocks it has    *)
(* kept in its arrays.                                                     *)
(***************************************************************************)
EXTENDS MemMgr, Sequences

CONSTANTS
  Rounds,       \* SERIAL_ALLOCS_MAX, the length of the first loop
  SmallExec     \* the 1 KB of the second loop

ASSUME TestAssumption == Rounds \in Nat \ {0} /\ SmallExec \in SizeT

VARIABLES
  main,    \* what RUN_TEST is doing
  run,     \* whether each thread is created, running or finished
  loop,    \* the loop it is in
  left,    \* iterations it has left
  op,      \* its place in the body of the loop
  got,     \* pe or ps: a block to be freed at once
  kept     \* pe_arr and ps_arr: blocks to be freed after the loop

main_vars == <<main, run>>
script_vars == <<loop, left, op, got, kept>>
test_vars == <<vars, main_vars, script_vars>>

-----------------------------------------------------------------------------
(* The script.                                                             *)

Alloc(p, sizes, keep) == [pool |-> p, sizes |-> sizes, keep |-> keep]

AnySize(p) == 0 .. MaxReq[p] - 1   \* rand() % PM_*_POOL_MAX_REQ_SIZE

LoopBody ==
  << << Alloc(ExecPool, AnySize(ExecPool), FALSE),
        Alloc(ExecPool, AnySize(ExecPool), TRUE),
        Alloc(StoragePool, AnySize(StoragePool), FALSE),
        Alloc(StoragePool, AnySize(StoragePool), TRUE) >>,
     << Alloc(ExecPool, {SmallExec}, TRUE) >>,
     << Alloc(StoragePool, {MaxReq[StoragePool]}, TRUE) >>,
     << Alloc(ExecPool, AnySize(ExecPool), FALSE),
        Alloc(StoragePool, AnySize(StoragePool), FALSE) >> >>

Current(t) == LoopBody[loop[t]][op[t]]

(* A slip: the loop variable is not incremented.                           *)
AdvanceInPlace(t) ==
  LET last == op[t] = Len(LoopBody[loop[t]])
  IN  /\ op' = [op EXCEPT ![t] = IF last THEN 1 ELSE @ + 1]
      /\ UNCHANGED <<loop, left>>

(* The allocation is done: on to the next one, or to the next iteration.   *)
Advance(t) ==
  LET last == op[t] = Len(LoopBody[loop[t]])
  IN  /\ op' = [op EXCEPT ![t] = IF last THEN 1 ELSE @ + 1]
      /\ left' = [left EXCEPT ![t] = IF last THEN @ - 1 ELSE @]
      /\ UNCHANGED loop

AtRest(t) == run[t] = "running" /\ pc[t] = "idle"

CallAllocNext(t) ==
  /\ AtRest(t) /\ got[t] = NULL /\ left[t] > 0
  /\ \E n \in Current(t).sizes : CallAlloc(t, Current(t).pool, n)
  /\ UNCHANGED <<main_vars, script_vars>>

(* The block an allocation returns, or NULL.                               *)
Result(t) == IF pc[t] = "settle" THEN ptr[t] ELSE NULL

(* A slip: every block is stored in the same element of the array.         *)
ReturnedOverwriting(t) ==
  /\ Refuse(t) \/ Settle(t) \/ Rollback(t)
  /\ \/ /\ Result(t) = NULL
        /\ Advance(t)
        /\ UNCHANGED <<got, kept>>
     \/ /\ Result(t) # NULL /\ Current(t).keep
        /\ kept' = [kept EXCEPT ![t] = <<Result(t)>>]
        /\ Advance(t)
        /\ UNCHANGED got
     \/ /\ Result(t) # NULL /\ ~ Current(t).keep
        /\ got' = [got EXCEPT ![t] = Result(t)]
        /\ UNCHANGED <<loop, left, op, kept>>
  /\ UNCHANGED main_vars

(* What is returned is kept, or freed at once unless it is NULL.           *)
Returned(t) ==
  /\ Refuse(t) \/ Settle(t) \/ Rollback(t)
  /\ \/ /\ Result(t) = NULL
        /\ Advance(t)
        /\ UNCHANGED <<got, kept>>
     \/ /\ Result(t) # NULL /\ Current(t).keep
        /\ kept' = [kept EXCEPT ![t] = Append(@, Result(t))]
        /\ Advance(t)
        /\ UNCHANGED got
     \/ /\ Result(t) # NULL /\ ~ Current(t).keep
        /\ got' = [got EXCEPT ![t] = Result(t)]
        /\ UNCHANGED <<loop, left, op, kept>>
  /\ UNCHANGED main_vars

(* The next block to free, in the order of the arrays.                     *)
CallFreeNext(t) ==
  /\ AtRest(t)
  /\ \/ got[t] # NULL /\ CallFree(t, got[t])
     \/ got[t] = NULL /\ left[t] = 0 /\ kept[t] # <<>>
        /\ CallFree(t, Head(kept[t]))
  /\ UNCHANGED <<main_vars, script_vars>>

Freed(t) ==
  /\ Refund(t)
  /\ \/ /\ got[t] # NULL
        /\ got' = [got EXCEPT ![t] = NULL]
        /\ Advance(t)
        /\ UNCHANGED kept
     \/ /\ got[t] = NULL
        /\ kept' = [kept EXCEPT ![t] = Tail(@)]
        /\ UNCHANGED <<loop, left, op, got>>
  /\ UNCHANGED main_vars

InCall(t) ==
  /\ \/ Reserve(t)
     \/ \E b \in Blocks, s \in UsableSizes(num_bytes[t]) : JeMalloc(t, b, s)
     \/ JeMallocFails(t)
     \/ JeFree(t)
  /\ UNCHANGED <<main_vars, script_vars>>

LoopDone(t) == AtRest(t) /\ got[t] = NULL /\ left[t] = 0 /\ kept[t] = <<>>

(* rand() % SERIAL_ALLOCS_MAX iterations of the next loop, maybe none.     *)
NextLoop(t) ==
  /\ LoopDone(t)
  /\ loop[t] < Len(LoopBody)
  /\ loop' = [loop EXCEPT ![t] = @ + 1]
  /\ \E rand_num \in 0 .. Rounds - 1 : left' = [left EXCEPT ![t] = rand_num]
  /\ UNCHANGED <<vars, main_vars, op, got, kept>>

Finish(t) ==
  /\ LoopDone(t)
  /\ loop[t] = Len(LoopBody)
  /\ run' = [run EXCEPT ![t] = "finished"]
  /\ UNCHANGED <<vars, main, script_vars>>

-----------------------------------------------------------------------------
(* RUN_TEST.                                                               *)

SetUp ==
  /\ main = "setUp"
  /\ total_memory' \in Totals
  /\ total_pool_mem' = PoolSplit(total_memory')
  /\ used_memory' = [p \in Pool |-> 0]
  /\ main' = "create"
  /\ UNCHANGED <<call_vars, heap_vars, held, run, script_vars>>

Create(t) ==
  /\ main = "create"
  /\ run[t] = "none"
  /\ run' = [run EXCEPT ![t] = "running"]
  /\ main' = IF \A u \in Threads \ {t} : run[u] # "none" THEN "join" ELSE main
  /\ UNCHANGED <<vars, script_vars>>

(* A slip: only one of the threads is joined.                              *)
JoinOne ==
  /\ main = "join"
  /\ \E t \in Threads : run[t] = "finished"
  /\ main' = "tearDown"
  /\ UNCHANGED <<vars, run, script_vars>>

Join ==
  /\ main = "join"
  /\ \A t \in Threads : run[t] = "finished"
  /\ main' = "tearDown"
  /\ UNCHANGED <<vars, run, script_vars>>

(* destroyMemoryManager: the mutex is gone, the counters stay.             *)
TearDown ==
  /\ main = "tearDown"
  /\ main' = "end"
  /\ UNCHANGED <<vars, run, script_vars>>

(* pm_stats is zero before the first initialisation.                       *)
TestInit ==
  /\ total_memory = 0
  /\ total_pool_mem = [p \in Pool |-> 0]
  /\ used_memory = [p \in Pool |-> 0]
  /\ pc = [t \in Threads |-> "idle"]
  /\ pool = [t \in Threads |-> NoPool]
  /\ num_bytes = [t \in Threads |-> 0]
  /\ ptr = [t \in Threads |-> NULL]
  /\ heap = [b \in Blocks |-> 0]
  /\ tag = [b \in Blocks |-> NoPool]
  /\ held = {}
  /\ main = "setUp"
  /\ run = [t \in Threads |-> "none"]
  /\ loop = [t \in Threads |-> 1]
  /\ left = [t \in Threads |-> Rounds]
  /\ op = [t \in Threads |-> 1]
  /\ got = [t \in Threads |-> NULL]
  /\ kept = [t \in Threads |-> <<>>]

Main == SetUp \/ (\E t \in Threads : Create(t)) \/ Join \/ TearDown

ThreadStep(t) ==
  \/ CallAllocNext(t) \/ CallFreeNext(t) \/ InCall(t)
  \/ Returned(t) \/ Freed(t) \/ NextLoop(t) \/ Finish(t)

(* The test has ended; without it TLC would call its end a deadlock.       *)
Ended == main = "end" /\ UNCHANGED test_vars

TestNext == Main \/ (\E t \in Threads : ThreadStep(t)) \/ Ended

TestSpec == TestInit /\ [][TestNext]_test_vars

FairTest ==
  /\ TestSpec
  /\ WF_test_vars(Main)
  /\ \A t \in Threads : WF_test_vars(ThreadStep(t))

-----------------------------------------------------------------------------
(* Properties.                                                             *)

(* Whatever the test is refused, whichever allocation fails and however    *)
(* its threads interleave, when it has ended no byte is live and none is   *)
(* charged to a pool: the check src/tests.c:451 leaves to be done.         *)
CleanAtTearDown ==
  main \in {"tearDown", "end"} =>
    LiveBytes = 0 /\ \A p \in Pool : used_memory[p] = 0

(* The mutex is used only between its initialisation and its destruction:  *)
(* no call of a thread is in flight before setUp or after tearDown.        *)
UsedWhileInitialised ==
  \A t \in Threads : pc[t] # "idle" => main \in {"create", "join"}

(* The test ends, even if every request is refused or fails.               *)
TestEnds == <>(main = "end")
=============================================================================
