---------------------------- MODULE TestPrograms ----------------------------
(***************************************************************************)
(* The program of src/tests.c: main runs three suites, Unity runs their    *)
(* tests (UnityRunner), the tests call the memory manager (MemMgr), and    *)
(* setUp and tearDown initialise and destroy the manager around each test. *)
(* A failing assertion leaves the test by longjmp, past the calls that     *)
(* would have freed its blocks; the next setUp initialises the manager     *)
(* again while those blocks are live.  The threads of the concurrency test *)
(* are in ConcurrencyTest; here it is the assertion it ends with.          *)
(***************************************************************************)
EXTENDS MemMgr, SequencesExt

CONSTANTS
  MaxTests,      \* at least as many as a suite has
  UnitTotal,     \* TEST_UNIT_TEST_MAX_SIZE
  FuncTotal,     \* TEST_FUNC_TEST_MAX_SIZE
  ConcTotal,     \* TEST_CONC_TEST_MAX_SIZE
  SizeClasses,   \* usable sizes of jemalloc's blocks
  Byte4, Byte8, Byte128, Kilo8, Kilo16, Mega1, Mega16,
  SerialAllocs,  \* SERIAL_ALLOCS_MAX of testMultipleSerialAllocs
  MaxFailures    \* bound on the times je_malloc returns NULL

VARIABLES
  at, NumberOfTests, TestFailures, TestIgnores, CurrentTestFailed,
  CurrentTestIgnored, first, concluded,
  suite,      \* how many suites main has begun
  test,       \* the next test of the suite, or the one running
  line,       \* the next instruction of its script
  slot,       \* its pointers
  mutex,      \* whether mutex_policyMgrStats is initialised
  lost,       \* blocks of earlier tests that were live at the last setUp
  failures,   \* times je_malloc has returned NULL, ...
  failed,     \* ... and whether it has since the test began
  crashed     \* je_sallocx was given NULL

U == INSTANCE UnityRunner

unity_vars ==
  <<at, NumberOfTests, TestFailures, TestIgnores, CurrentTestFailed,
    CurrentTestIgnored, first, concluded>>
script_vars == <<suite, test, line, slot>>
watch_vars == <<mutex, lost, failures, failed, crashed>>
program_vars == <<vars, unity_vars, script_vars, watch_vars>>

-----------------------------------------------------------------------------
(* The tests, one instruction for each call and each assertion.            *)

Alloc(p, n, s) == <<[op |-> "alloc", pool |-> p, size |-> n, slot |-> s]>>
Free(s) == <<[op |-> "free", slot |-> s]>>
EqualNull(s) == <<[op |-> "null", slot |-> s]>>
NotEqualNull(s) == <<[op |-> "block", slot |-> s]>>
EqualSize(n, s) == <<[op |-> "size", size |-> n, slot |-> s]>>

Repeat(n, Body(_)) == FlattenSeq([i \in 1 .. n |-> Body(i)])

Refused(p, n) == Alloc(p, n, 1) \o EqualNull(1)
Granted(p, n, s) == Alloc(p, n, s) \o NotEqualNull(s)

SmallExecAlloc(n) ==
  Granted(ExecPool, n, 1) \o EqualSize(Byte8, 1) \o Free(1)

testStorage4KBAlloc ==
  LET n == MinReq[StoragePool]
  IN  Alloc(StoragePool, n, 1) \o EqualSize(n, 1) \o Free(1)

testNegativeCases ==
  Refused(ExecPool, 0) \o Refused(ExecPool, Word(-1)) \o
  Refused(StoragePool, 0) \o Refused(StoragePool, Word(-1))

UnitTests ==
  << SmallExecAlloc(MinReq[ExecPool]), SmallExecAlloc(Byte4),
     SmallExecAlloc(Byte8), Refused(ExecPool, MaxReq[ExecPool] + 1),
     testStorage4KBAlloc, Refused(StoragePool, MaxReq[StoragePool] + 1),
     Refused(StoragePool, 1), Refused(StoragePool, Byte4),
     Refused(StoragePool, Byte8), testNegativeCases >>

testMultipleSerialAllocs ==
  LET Body(i) ==
        Granted(ExecPool, Kilo8, 1) \o Free(1) \o
        Granted(ExecPool, Byte128, 2 * i) \o
        Granted(StoragePool, Mega16, 1) \o Free(1) \o
        Granted(StoragePool, Kilo16, 2 * i + 1)
      Release(i) == Free(2 * i) \o Free(2 * i + 1)
  IN  Repeat(SerialAllocs, Body) \o Repeat(SerialAllocs, Release)

(* testExecPoolQuota and testStoragePoolQuota: n blocks of the largest     *)
(* size fill the pool, then neither a smallest nor a largest one fits.     *)
PoolQuota(p, n) ==
  LET Body(i) == Granted(p, MaxReq[p], i + 1)
      Release(i) == Free(i + 1)
  IN  Repeat(n, Body) \o Refused(p, MinReq[p]) \o Refused(p, MaxReq[p]) \o
      Repeat(n, Release)

testMixedWorkload ==
  LET Body(i) == Granted(ExecPool, Mega1, i + 3)
      Release(i) == Free(i + 3)
      min(p) == Refused(p, MinReq[p])
      storage1 == Granted(StoragePool, MaxReq[StoragePool], 3)
  IN  Granted(ExecPool, Mega1, 2) \o storage1 \o min(StoragePool) \o
      Repeat(63, Body) \o min(ExecPool) \o min(StoragePool) \o
      Free(3) \o storage1 \o min(StoragePool) \o min(ExecPool) \o
      Repeat(63, Release) \o Free(2) \o Free(3)

testFree == <<>>   \* it returns before its first call

FunctionalTests ==
  << testMultipleSerialAllocs,
     PoolQuota(ExecPool, FuncTotal \div MaxReq[ExecPool]),
     PoolQuota(StoragePool, (FuncTotal \div MaxReq[StoragePool]) - 1),
     testMixedWorkload, testFree >>

Suites ==
  << [total |-> UnitTotal, tests |-> UnitTests],
     [total |-> FuncTotal, tests |-> FunctionalTests],
     [total |-> ConcTotal, tests |-> << <<>> >>] >>

Slots == 1 .. 2 * SerialAllocs + 66
Tests == Suites[suite].tests
Script == Tests[test]
Now == Script[line]

Instructions ==
  [op : {"alloc"}, pool : Pool, size : Requests, slot : Slots]
    \cup [op : {"free", "null", "block"}, slot : Slots]
    \cup [op : {"size"}, size : SizeT, slot : Slots]

(* The smallest size class that holds n bytes.                             *)
UsableSize(n) ==
  CHOOSE c \in SizeClasses : c >= n /\ \A d \in SizeClasses : d >= n => c <= d

(* An allocation the test expects to be refused.                           *)
ExpectsNull(script, i) ==
  /\ i + 1 <= Len(script)
  /\ script[i + 1].op = "null" /\ script[i + 1].slot = script[i].slot

(* A test frees only what it obtained, and frees every block it keeps      *)
(* before it uses the pointer for another.                                 *)
FreesWhatItKeeps(script) ==
  \A i \in 1 .. Len(script) :
    /\ script[i].op = "free" =>
         \E j \in 1 .. i - 1 :
           script[j].op = "alloc" /\ script[j].slot = script[i].slot
    /\ script[i].op = "alloc" /\ ~ ExpectsNull(script, i) =>
         \E k \in i + 1 .. Len(script) :
           /\ script[k].op = "free" /\ script[k].slot = script[i].slot
           /\ \A j \in i + 1 .. k - 1 :
                script[j].op = "alloc" => script[j].slot # script[i].slot

(* What jemalloc returns for a request exceeds it by MaxSlack at most.     *)
ServedClosely(script) ==
  \A i \in 1 .. Len(script) :
    script[i].op = "alloc" =>
      LET p == script[i].pool  n == script[i].size
      IN  n \in MinReq[p] .. MaxReq[p] => UsableSize(n) \in UsableSizes(n)

(* The allocations whose blocks a script has when it comes to its          *)
(* instruction i, if each was granted unless it expects to be refused, ... *)
Kept(script, i) ==
  {j \in 1 .. i - 1 :
     /\ script[j].op = "alloc" /\ ~ ExpectsNull(script, j)
     /\ \A k \in j + 1 .. i - 1 :
          script[k].op \in {"alloc", "free"} => script[k].slot # script[j].slot}

(* ... the bytes of pool p in them, and whether the one that it asks for   *)
(* there fits what is left.                                                *)
Charge(script, i, p) ==
  LET ofPool == {j \in Kept(script, i) : script[j].pool = p}
  IN  SumOver(ofPool, [j \in ofPool |-> UsableSize(script[j].size)])

HasRoom(script, i, total) ==
  LET p == script[i].pool  n == script[i].size
  IN  /\ n \in MinReq[p] .. MaxReq[p]
      /\ p = StoragePool => Charge(script, i, p) + n <= PoolSplit(total)[p]
      /\ Charge(script, i, ExecPool) + Charge(script, i, StoragePool) + n
           <= total

(* What a script asserts follows from the memory it has taken of the total *)
(* its suite sets: requests are refused for want of room only, and what is *)
(* freed or measured is a block it still has.                              *)
AssertsWhatFollows(script, total) ==
  \A i \in 1 .. Len(script) :
    /\ script[i].op = "alloc" =>
         (ExpectsNull(script, i) <=> ~ HasRoom(script, i, total))
    /\ script[i].op = "null" =>
         i > 1 /\ script[i - 1].op = "alloc" /\ ExpectsNull(script, i - 1)
    /\ script[i].op \in {"free", "block", "size"} =>
         \E j \in Kept(script, i) :
           /\ script[j].slot = script[i].slot
           /\ script[i].op = "size" =>
                UsableSize(script[j].size) = script[i].size

(* The tests of src/tests.c call the manager in these ways only, ...       *)
ASSUME TestsAssumption ==
  \A s \in 1 .. Len(Suites) :
    /\ Suites[s].total \in SizeT
    /\ \A k \in 1 .. Len(Suites[s].tests) :
         LET script == Suites[s].tests[k]
         IN  /\ script \in Seq(Instructions)
             /\ FreesWhatItKeeps(script)
             /\ ServedClosely(script)
             /\ AssertsWhatFollows(script, Suites[s].total)

(* ... and from one thread.                                                *)
ASSUME OneThread == \E t \in Threads : Threads = {t}

-----------------------------------------------------------------------------
(* Steps of main, setUp and tearDown.                                      *)

BeginSuite ==
  /\ suite < Len(Suites)
  /\ U!UnityBegin
  /\ suite' = suite + 1
  /\ test' = 1
  /\ UNCHANGED <<vars, line, slot, watch_vars>>

StartTest ==
  /\ U!RunTest
  /\ test <= Len(Tests)
  /\ line' = 1
  /\ failed' = FALSE
  /\ UNCHANGED <<vars, suite, test, slot, mutex, lost, failures, crashed>>

(* A slip: the counters keep what the last test left in them.              *)
SetUpKeeping ==
  /\ at = "setUp"
  /\ total_memory' = Suites[suite].total
  /\ total_pool_mem' = PoolSplit(total_memory')
  /\ mutex' = TRUE
  /\ U!Leave
  /\ lost' = {b \in Blocks : heap[b] > 0}
  /\ UNCHANGED <<used_memory, call_vars, heap_vars, held, script_vars,
                 failures, failed, crashed>>

SetUp ==
  /\ at = "setUp"
  /\ total_memory' = Suites[suite].total
  /\ total_pool_mem' = PoolSplit(total_memory')
  /\ used_memory' = [p \in Pool |-> 0]
  /\ mutex' = TRUE
  /\ U!Leave
  /\ lost' = {b \in Blocks : heap[b] > 0}
  /\ UNCHANGED <<call_vars, heap_vars, held, script_vars, failures, failed,
                 crashed>>

TearDown ==
  /\ at = "tearDown"
  /\ mutex' = FALSE
  /\ U!Leave
  /\ UNCHANGED <<vars, script_vars, lost, failures, failed, crashed>>

Conclude ==
  /\ U!UnityConcludeTest
  /\ test' = test + 1
  /\ UNCHANGED <<vars, suite, line, slot, watch_vars>>

EndSuite ==
  /\ U!UnityEnd
  /\ test > Len(Tests)
  /\ UNCHANGED <<vars, script_vars, watch_vars>>

-----------------------------------------------------------------------------
(* Steps of a test, in the one thread of the process.                      *)

Ready(t, op) ==
  at = "test" /\ pc[t] = "idle" /\ line <= Len(Script) /\ Now.op = op

CallAllocNow(t) ==
  /\ Ready(t, "alloc")
  /\ CallAlloc(t, Now.pool, Now.size)
  /\ UNCHANGED <<unity_vars, script_vars, watch_vars>>

FreeBlock == CHOOSE b \in Blocks : heap[b] = 0

InCall(t) ==
  /\ \/ Reserve(t)
     \/ /\ pc[t] = "malloc" /\ \E b \in Blocks : heap[b] = 0
        /\ JeMalloc(t, FreeBlock, UsableSize(num_bytes[t]))
     \/ JeFree(t)
  /\ UNCHANGED <<unity_vars, script_vars, watch_vars>>

MallocFails(t) ==
  /\ failures < MaxFailures
  /\ JeMallocFails(t)
  /\ failures' = failures + 1
  /\ failed' = TRUE
  /\ UNCHANGED <<unity_vars, script_vars, mutex, lost, crashed>>

AllocReturns(t) ==
  /\ Refuse(t) \/ Settle(t) \/ Rollback(t)
  /\ slot' = [slot EXCEPT ![Now.slot] =
                IF pc[t] = "settle" THEN ptr[t] ELSE NULL]
  /\ line' = line + 1
  /\ UNCHANGED <<unity_vars, suite, test, watch_vars>>

CallFreeNow(t) ==
  /\ Ready(t, "free")
  /\ CallFree(t, slot[Now.slot])
  /\ UNCHANGED <<unity_vars, script_vars, watch_vars>>

FreeReturns(t) ==
  /\ Refund(t)
  /\ line' = line + 1
  /\ UNCHANGED <<unity_vars, suite, test, slot, watch_vars>>

Holds ==
  CASE Now.op = "null" -> slot[Now.slot] = NULL
    [] Now.op = "block" -> slot[Now.slot] # NULL
    [] Now.op = "size" -> heap[slot[Now.slot]] = Now.size

TestAssert(t) ==
  /\ \E op \in {"null", "block", "size"} : Ready(t, op)
  /\ Now.op = "size" => slot[Now.slot] # NULL
  /\ IF Holds THEN U!AssertionHolds ELSE U!UnityFail
  /\ line' = line + 1
  /\ UNCHANGED <<vars, suite, test, slot, watch_vars>>

(* testStorage4KBAlloc does not test its pointer before je_sallocx(p, 0).  *)
Crash(t) ==
  /\ Ready(t, "size") /\ slot[Now.slot] = NULL
  /\ crashed' = TRUE
  /\ UNCHANGED <<vars, unity_vars, script_vars, mutex, lost, failures,
                 failed>>

ReturnFromTest ==
  /\ at = "test" /\ line > Len(Script)
  /\ U!Leave
  /\ UNCHANGED <<vars, script_vars, watch_vars>>

-----------------------------------------------------------------------------

ProgramInit ==
  /\ total_memory = 0
  /\ total_pool_mem = [p \in Pool |-> 0]
  /\ used_memory = [p \in Pool |-> 0]
  /\ pc = [t \in Threads |-> "idle"]
  /\ pool = [t \in Threads |-> NoPool]
  /\ num_bytes = [t \in Threads |-> 0]
  /\ ptr = [t \in Threads |-> NULL]
  /\ heap = [b \in Blocks |-> 0]
  /\ tag = [b \in Blocks |-> NoPool]
  /\ held = {}
  /\ U!UnityInit
  /\ suite = 0 /\ test = 1 /\ line = 1
  /\ slot = [s \in Slots |-> NULL]
  /\ mutex = FALSE /\ lost = {}
  /\ failures = 0 /\ failed = FALSE /\ crashed = FALSE

MainStep ==
  BeginSuite \/ StartTest \/ SetUp \/ TearDown \/ Conclude \/ EndSuite

TestStep(t) ==
  \/ CallAllocNow(t) \/ InCall(t) \/ MallocFails(t) \/ AllocReturns(t)
  \/ CallFreeNow(t) \/ FreeReturns(t) \/ TestAssert(t) \/ Crash(t)
  \/ ReturnFromTest

(* main has returned, or the process has crashed.                          *)
Stopped ==
  /\ crashed \/ (at = "outside" /\ suite = Len(Suites))
  /\ UNCHANGED program_vars

ProgramNext ==
  \/ ~ crashed /\ MainStep
  \/ ~ crashed /\ \E t \in Threads : TestStep(t)
  \/ Stopped

ProgramSpec == ProgramInit /\ [][ProgramNext]_program_vars

-----------------------------------------------------------------------------
(* Properties.                                                             *)

(* What src/tests.c asserts is what the manager does: a test fails only if *)
(* je_malloc has returned NULL to that very test, whatever earlier tests   *)
(* failed, left behind or were refused (initPolicyMgr starts from zero).   *)
FailsOnlyWithMalloc == CurrentTestFailed = 1 => failed

(* A second initialisation forgets the blocks that are still live: the     *)
(* counters account for every byte the running test obtained, and for none *)
(* of the bytes lost before it (policy_mgr.c:25).                          *)
SessionAccounting ==
  \A p \in Pool :
    used_memory[p] + Unsettled(p)
      = SumOver({b \in Blocks \ lost : tag[b] = p}, heap) + Claimed(p)

(* A test that passes has freed every block it obtained.                   *)
PassingTestsFreeAll ==
  at = "conclude" /\ CurrentTestFailed = 0 =>
    \A b \in Blocks \ lost : heap[b] = 0

(* Wherever a test is left, the mutex is destroyed before it is            *)
(* initialised again, and no call uses it in between.                      *)
MutexLifetime ==
  /\ at = "setUp" => ~ mutex
  /\ \A t \in Threads : pc[t] # "idle" => mutex
=============================================================================
