# memory_manager in TLA+

A verification development for the programs of this repository: the memory manager
(`src/mem_mgr.c`, `src/policy_mgr.c/.h`, `include/mem_mgr.h`), its test program
(`src/tests.c`) and the Unity test framework that runs it (`unity/src/`). Paths and line
numbers are those of the repository. It holds models of these parts, TLC configurations
that check them on small instances, and proofs, checked by TLAPS, of the main results
for every size.

## 1. The system

The manager hands out memory to two *pools*, execution and storage. It is a thin
layer of C over two things: a **policy manager** that counts bytes and decides, and
**jemalloc**, which supplies the memory of both pools ("soft partitioning"). `tests.c`
is its only client in the repository and Unity runs those tests.

| component | state it keeps | operations |
|---|---|---|
| memory manager, `mem_mgr.c` | none of its own; the locals of calls in flight | `initMemoryManager`, `destroyMemoryManager`, `allocExecMemory`, `allocStorageMemory`, `freeExecMemory`, `freeStorageMemory` |
| policy manager, `policy_mgr.c/.h` | `pm_stats`: the total; for each pool its share, its request limits and the bytes used; one mutex | `initPolicyMgr`, `destroyPolicyMgr`, `policyMgrAlloc`, `policyMgrAdjustAlloc` |
| jemalloc (headers only) | the heap | `je_malloc`, `je_sallocx`, `je_free` |
| test program, `tests.c` | the pointers of the running test | `main`, `setUp`, `tearDown`, 16 tests, the threads of one of them |
| Unity, the runner | `struct Unity`: counters of tests, failures and ignores, two flags, the longjmp frame | `UnityBegin`, `UnityDefaultTestRun`, `UnityFail`, `UnityIgnore`, `UnityConcludeTest`, `UnityEnd` |
| Unity, assertions | the flags above | some 20 functions on integers, arrays, strings, memory and floats, behind over 400 macros |
| Unity, printing | a cursor over the text | numbers, masks, characters, strings, formats, floats |
| Unity, command line | the lists to include and exclude, the verbosity | `UnityParseOptions`, `UnityTestMatches` |

How the manager works. An allocation is *decide and reserve* (`policyMgrAlloc`, one
critical section), then `je_malloc` outside any lock, then either *settle* (the
usable size `je_sallocx` reports is larger than the request: the excess is charged
by `policyMgrAdjustAlloc`, a second critical section) or *roll back* (`je_malloc`
returned NULL). A release reads the usable size, calls `je_free`, and then *refunds*
the bytes, in a critical section of its own. The counters are therefore ahead of or
behind the heap whenever a call is in flight, and what other threads are told in
those windows depends on it.

How the tests work. `main` runs three suites. Each test is `setUp` (initialise the
manager), the test, `tearDown` (destroy it), inside two protected blocks which a failing
assertion leaves by `longjmp`, past whatever would have freed the test's blocks. The next
`setUp` then initialises the manager over blocks that are still live.

What is hard here: the interleaving of the windows of a call; the failure of `je_malloc` in
the middle; long histories that must not drift by one byte; unsigned arithmetic at its
edges; second initialisations over live blocks; flags that must not outlive a test; casts
between types of different size and sign when values are compared and printed; cursors
that must not leave a string. Nothing is persisted, no message is exchanged and no call has
a timeout, so there is no fault of that kind to model.

What makes each component correct:

* policy manager: a decision is atomic and taken on current counters; unsigned
  subtractions never admit what does not fit; every path releases the mutex;
* memory manager: each byte is charged exactly once, to the right pool, and given back
  exactly once; budgets hold up to the excess that cannot be known in advance; what
  is given back can be granted again, to either pool; every call returns;
* test program: a test fails only for a reason of its own; what passes has freed its
  blocks; no call outlives the manager it was made to; the concurrency test ends;
* Unity: the first thing a test asks for decides it, and `tearDown` is always entered;
  an assertion passes exactly when its relation holds, an array as its elements do, and
  integers, texts and memory found unequal are printed so that a reader can tell them apart; a number reads back as itself; a walk
  over a string stops at its end; a command line selects the tests it names.

## 2. Modules

```
SizeArith     size_t and signed long of a width SizeMod
 └ PolicyMgr      counters, decision, correction         policy_mgr.c/.h
    └ MemMgr (+ ByteSums)   calls in flight, jemalloc, callers     mem_mgr.c
       ├ MemMgrInv          the inductive invariant, and how MemMgr implements Ledger
       │   ├ Ledger                 what the manager promises, in plain integers
       │   └ MCMemMgr               core.cfg
       ├ WrongPool          callers that free through the other pool's routine
       │   └ MCWrongPool            wrong_pool.cfg
       ├ MemMgrProofs       (MemMgrInv, WrongPool)  types, bytes, budgets, decisions, the ledger: proved
       ├ LockedMemMgr       one shared access at a time, with the mutex
       │   ├ MCLockedMemMgr         locked.cfg
       │   └ LockedProofs           (+ MemMgrProofs)  the refinement, proved
       ├ ConcurrencyTest    testMultiThreadAccess between setUp and tearDown
       │   ├ MCConcurrencyTest      test.cfg
       │   └ ConcurrencyTestProofs  (+ MemMgrProofs)  nothing leaks, proved
       ├ TestPrograms (+ UnityRunner)   main, setUp, tearDown and the other tests
       │   ├ MCTestPrograms         programs.cfg
       │   └ TestProgramsProofs     (+ MemMgrProofs)  every test starts anew, proved
       └ DocClaims          documented promises the code does not keep
           └ MCDocClaims            doc_total.cfg, doc_refusal.cfg

UnityRunner   counters, flags and protected blocks of a test: runner.cfg
UnityOptions  the command line └ MCUnityOptions                options.cfg
 (both) └ UnityRunProofs     flags, lists and selection, proved

UnityNumbers  integer types, and how integers and characters are printed
 ├ UnityNumbersProofs        lemmas on casts, digits, powers and walks
 ├ UnityCalls     one call of an assertion and its result
 │   ├ UnityAsserts   integers, arrays, strings, memory
 │   └ UnityFloats    floats and doubles
 │       (both) └ UnityAssertions
 │                 ├ MCUnityAssertions                         assertions.cfg
 │                 └ UnityAssertionsProofs    verdicts and what failures print, proved
 ├ UnityPrinting  one number or mask printed
 ├ UnityText      UnityPrint and UnityPrintFVA
UnityFloatPrint   UnityPrintFloat
         (three) └ UnityPrinters
                   ├ MCUnityPrinters                           printers.cfg, doc_ties.cfg
                   └ UnityPrintersProofs      integers, masks, texts, arguments, floats, proved
```

**SizeArith, PolicyMgr.** `total_memory`, `total_pool_mem` and `used_memory` are the
fields of `pm_stats`; the request limits are constants (the code stores constants in
its structs and never changes them). `Admits` is every test of `policyMgrAlloc` in
its order, with subtraction modulo `SizeMod` where C wraps; `PolicyMgrAlloc` and
`PolicyMgrAdjustAlloc` give the counters afterwards, the latter through the casts of
line 140. A `size_t` reinterpreted as `signed long` goes through `AsSigned`, so
`policyMgrAdjustAlloc(pool, -num_bytes)` is what the machine does with it.

**MemMgr.** Each thread has a program counter `pc` and the locals of its call. The
program points and the code they stand for:

| `pc` | action that leaves it | code |
|---|---|---|
| `idle` | `CallAlloc`, `CallFree` | `alloc*Memory`; `free*Memory` with its `je_sallocx` (mem_mgr.c:61-75, 84-91) |
| `decide` | `Reserve`, `Refuse` | `policyMgrAlloc` returning true or false (mem_mgr.c:32) |
| `malloc` | `JeMalloc`, `JeMallocFails` | `je_malloc` (mem_mgr.c:34-38) |
| `settle` | `Settle` | mem_mgr.c:46-49 |
| `rollback` | `Rollback` | mem_mgr.c:53-54 |
| `free` | `JeFree` | mem_mgr.c:80 |
| `refund` | `Refund` | mem_mgr.c:81 |

jemalloc is external. It is modelled by what the code relies on: `je_malloc` gives an
address that is not live, with a usable size between the request and
`MaxSlack` bytes more, or fails, for whatever reason and at any time; live bytes never
exceed `HeapBytes`. `tag` records which pool each live block was asked for; the code has
no such field (it is how the properties speak of a pool's live bytes). `held` is
the callers' side: the blocks they own. A caller frees a block it owns, once, through
its pool's routine. The early return of `freeMem` (mem_mgr.c:77) cannot be taken within
that contract, since no request of 0 bytes is granted.

**LockedMemMgr.** The same calls, but the two functions of the policy manager are
broken into lock, one step per counter loaded, decision, store and unlock, with the
mutex explicit. `cs` is the place within the critical section, `copy` the local
copies of the counters (policy_mgr.c:55-60), `ret` the local of that name. Fields
that no one writes after initialisation (total, shares, limits) need no load step.

**ConcurrencyTest.** The one multi-threaded client of the repository, with the life of
the manager around it. `main` is RUN_TEST in the main thread: `SetUp` initialises,
`Create` starts the threads one by one, `Join` waits for all of them, `TearDown` destroys.
Each thread runs `testThreadMemAllocs`: `LoopBody` lists the allocations of its four
allocating loops, with their sizes (`rand() % max`, 1 KB, the storage maximum) and
whether the result is stored in `pe_arr`/`ps_arr` (`kept`) or freed at once (`got`);
after each loop the thread frees what it has kept, in order. Waiting (`usleep`) is left
out: a thread may be slow anyway.

**TestPrograms.** The rest of `tests.c`, as a whole program. A test is a script, one
instruction for each call and each assertion it makes (`alloc`, `free`, and assertions that
a pointer is NULL, is not, or has a given usable size); `suite`, `test` and `line` are
where the program is and `slot` its pointers. The calls are those of MemMgr, the
assertions, `RUN_TEST` and the protected blocks those of UnityRunner. `SetUp` initialises the
manager whatever is live; `lost` remembers what was, for the properties. `je_malloc` may
fail anywhere, `MaxFailures` times. `Crash` is `testStorage4KBAlloc` handing
`je_sallocx` a NULL (tests.c:111) after such a failure. Of the concurrency test only
the assertion it ends with is here.

**WrongPool.** MemMgr with callers who also break its contract: `freeStorageMemory` of a
block of the execution pool and the reverse.

**DocClaims.** Promises of README.md and of comments, stated as they are written.

**UnityRunner.** `at` says what `UnityDefaultTestRun` is running; `setUp`, the test and
`tearDown` are the user's, so at each of them any assertion may hold or fail, be ignored or
pass, in any order and number. `Abort` is the `longjmp`: out of `setUp` and the test it leads
to `tearDown`, out of `tearDown` to the conclusion. `first` and `concluded` only record,
for `FirstDecides`, what the tests asked for first.

**UnityNumbers, UnityPrinting.** A byte is two nibbles of `NibbleBits` bits, a UNITY_INT
has `IntBytes` bytes and an int `IntWidth`, so that the types can be scaled down together and
keep their order. Conversions (`ToSigned`, `ToUnsigned`) do what C does on two's
complement. UnityPrinting is one call of a number or mask printer on each of its inputs.

**UnityCalls, UnityAsserts, UnityFloats, UnityAssertions.** A call is a record: the macro, the
type and the arguments; `Report` is its one step. `Narrow` is the macros' casts, `Load` the
read of an array element through the pointer type of its style, `UnityNumToPtr` the cell an
`EACH_EQUAL` macro puts its number in. A failure carries the two values as they are printed
(`shown`). `UnityAssertEqualString` prints its texts with `UnityPrint` (unity.c:596-620) and the
`_LEN` form with `UnityPrintLen`; the model has the latter for both, since they differ only under
`UNITY_OUTPUT_COLOR`, where `UnityPrint` passes escape sequences on as they are. What a failure on floats
prints is not in its result. A float is finite, an infinity or NaN; a sum beyond `MaxFinite`
overflows to infinity, and tolerances are shares of a number, rounded down to the scale of the
model; the rounding of a difference is left out. Doubles are as with `UNITY_INCLUDE_DOUBLE`.

**UnityText, UnityFloatPrint, UnityPrinters.** `UnityPrint` and `UnityPrintFVA` walk a string with
the cursor `pch`; the terminator is read at `Len(s) + 1` and a walk that passes it is
over for the model. `taken` lists the types asked of `va_arg`. UnityFloatPrint is
`UnityPrintFloat`, step by step: scale, round, place the point. Its numbers are fractions
`num / den`, and each multiplication and division by a power of ten (`Multiplied`, `Divided`) rounds to
a significand of `Significand` bits, ties to even, as IEEE 754 arithmetic does (`Rounded`); the loops test and
repeat the rounded values, as those of unity.c:387-397 do. What the code computes without rounding, the
model does too: the powers of ten up to 10^10, the integer split off and the fraction left, the doubling
before the nearest integer is taken. The default build is `sig_digits` 7 and `Significand` 24, with
`UNITY_INCLUDE_DOUBLE` they are 9 and 53. UnityPrinters puts the three together; the variables of the printers that are
not called stand still.

**UnityOptions.** The text of a list of tests is made (`Rendered`) from items the program never
sees; it finds them back with the cursor `ptr1`, one item a step (`TryItem`). `Overrun` and
`LostAnswer` are what becomes of a list that is one lone quote: the search for an item's
end starts behind its first character, so the cursor is lost behind the terminator and
either answer may follow. Formats, colours, options and doubles are in the program only
with `UNITY_INCLUDE_PRINT_FORMATTED`, `UNITY_OUTPUT_COLOR`, `UNITY_USE_COMMAND_LINE_ARGS` and
`UNITY_INCLUDE_DOUBLE`.

Beside some definitions stands a *slip*: the same operator as a plausible mistake
would have it (`RollbackForgotten`, `LockWithoutWaiting`, ...). Nothing uses them. They
tell what a property is worth: with the slip in place of the definition the
property named in `PROJECT.json` fails on the very instance on which it holds.

## 3. What is checked

| run | instance | properties | states |
|---|---|---|---|
| `core` | 3 threads, 4 blocks, totals 0, 1, 3, 5, 7 of an 8-bit `size_t` | `TypeOK`, `Accounting`, `LiveWithinBudget`, `StorageWithinQuota`, `DecisionsExact`, `KeepsLedger` | 464 529 |
| `locked` | 3 threads, 1 block, total 5 | `LockedTypeOK`, `NoLostUpdate`, `Atomicity`, `EveryCallReturns`, `SomeCallReturns` | 73 758 |
| `test` | 2 threads, 2 blocks, total 5, 2 rounds | `CleanAtTearDown`, `UsedWhileInitialised`, `TestEnds` | 208 108 |
| `programs` | the whole of `main`, `je_malloc` failing up to twice | `FailsOnlyWithMalloc`, `SessionAccounting`, `PassingTestsFreeAll`, `MutexLifetime` | 115 630 |
| `wrong_pool` | 2 threads, 4 blocks, total 7 | `TotalAccounted`, `MisuseWithinBudget` | 198 549 |
| `runner` | 4 tests a suite | `FirstDecides`, `TearDownEntered` | 230 |
| `assertions` | types of 2, 4, 8 and 16 bits, arrays of up to 2 elements | `ScalarVerdict`, `ArrayAsScalars`, `StringVerdict`, `MemoryVerdict`, `FailureIsVisible`, `EqualFloats`, `FloatArrayFirst`, `OrderedFloats`, `OneTrait` | 658 436 |
| `printers` | all numbers of 16 bits, texts of up to 4 characters, floats of 7 bits printed with 2 digits | `ReadsBack`, `MaskShown`, `ArgumentsAsPrintf`, `StopsAtTerminator`, `OnlyPrintable`, `NearestPrinted` | 1 487 413 |
| `options` | command lines of up to 3 arguments, lists of up to 2 items | `OptionsOfThisParse`, `SelectionExact`, `CursorInside` | 70 267 |

The memory manager:

* `Accounting`: at every instant, `used + unsettled excess = live + claimed` for each pool.
  No interleaving loses, doubles or misplaces a correction and no counter wraps.
* `LiveWithinBudget`, `StorageWithinQuota`: excesses are charged unconditionally, so
  the budgets are exceeded, but by at most `MaxSlack` for each thread, however long
  the program runs: once an excess is charged nothing more is admitted. The storage share is the
  one `initPolicyMgr` has computed; that it is half of the total, which the product with the quota
  (policy_mgr.c:20) makes false for totals above SIZE_MAX / 50, no property says.
* `DecisionsExact`: a request decided while no other call is between its decision and its return
  is granted exactly when it fits the memory *really* live. Borrowed memory comes
  back, failures leave nothing behind.
* `KeepsLedger`: the same with any number of other calls under way, as a refinement. The manager
  implements `Ledger`, which has no counters: it books to a pool what is lent, what is promised or
  returned by calls in progress, less their excesses, and decides on that.
* `NoLostUpdate`, `Atomicity`: the mutex makes each function of the policy manager one
  step; `Atomicity` is `MemMgr!Spec` under a refinement mapping in which a thread that
  has stored its counter, or been refused, has already taken its atomic step.
* `EveryCallReturns`, `SomeCallReturns`: no path keeps the mutex or goes round.
* `TotalAccounted`, `MisuseWithinBudget`: a block freed through the other routine makes one
  counter wrap and leaves the other too high, but the two errors cancel in the sum
  that `policyMgrAlloc` compares with the total, so the limit of the system is kept.

The test program:

* `CleanAtTearDown`: after the concurrency test no block is live and both counters are 0, the
  leak check that tests.c:451 leaves to be done. `UsedWhileInitialised`: no call is in flight
  outside the life of the mutex. `TestEnds`: the test comes to its end.
* `FailsOnlyWithMalloc`: a test fails only if `je_malloc` returned NULL to that very test,
  whatever earlier ones left behind. So every size and limit `tests.c` asserts is what the
  manager does, and a second initialisation starts clean.
* `SessionAccounting`: after such an initialisation the counters are exact for the blocks
  obtained since, and say nothing of those lost. `PassingTestsFreeAll`: the slots of every
  test are paired with its frees. `MutexLifetime`: however a test is left, its mutex is
  destroyed before the next one is initialised.

Unity:

* `FirstDecides`: a test counts as what it asked for first; nothing done after a failure
  hides it and no flag reaches the next test. `TearDownEntered`: whichever block is left by
  `longjmp`, `tearDown` begins before the test is concluded.
* `ScalarVerdict`, `EqualFloats`, `OrderedFloats`, `OneTrait`: an assertion passes exactly when
  its relation holds between the values of the type it names. On floats the OR_EQUAL orders pass on
  whatever EQUAL passes on, so within the tolerance and on NaN with NaN too; the strict ones never pass
  on NaN. `ArrayAsScalars`,
  `FloatArrayFirst`, `MemoryVerdict`: on an array, when it holds of every element, and
  the one reported is the first of which it does not. `StringVerdict` is the same for texts.
* `FailureIsVisible`: when integers, bits, texts or memory should be equal, or within a delta, and are
  not, what is printed after Expected differs from what is printed after Was. It does not speak of
  orders and NOT_EQUAL, which fail on equal values too, nor of three cases in which a failing test can
  print two equal texts. Floats: nine digits are printed and more are compared, so 1.0 and 1.0000000001 as
  doubles differ by more than the precision of 1e-12 and are both printed as 1. Masks wider
  than an int: `UnityPrintMask` walks UNITY_INT_WIDTH bits (unity.c:305), and `MaskShown` says
  exactly which bits show. Texts with a backslash: `UnityPrintChar` writes a newline as a
  backslash and an `n` and a backslash as itself (unity.c:149-184), so a newline and the two
  characters `\n` are printed alike. The last two are among the calls of `assertions`.
* `ReadsBack`: a printed integer reads back as itself. `OnlyPrintable`: no control character
  reaches the terminal but in the colours' own sequences; with colours on, what follows an escape
  character in one text is not looked at.
* `NearestPrinted`: what is printed of a float is the number of `sig_digits` digits nearest to one that
  the number itself is but for the roundings of its scaling: `Roundings`, one for each
  power of 10^10 and one more for the last multiplication or division. Each is at most one part in
  2^`Significand`. It does not say that the last digit is right, and it need not be: with 24 bits
  a rounding is up to 0.6 of a unit of the seventh of seven digits, "the 7th digit won't always be
  totally correct" (unity.c:329).
* `ArgumentsAsPrintf`: of the directives of C whose letters and modifiers Unity knows (`Directives`), a
  format takes from the argument list as many arguments as C's `printf`, in the same order, and of
  the same types but for those Unity does not support (`Understood`). It does not refuse these: the
  modifiers j, z, t and L are skipped (unity.c:1949-1956), so the argument of `%zu`, `%jd` or `%td` is read as an
  int or unsigned int and that of `%Lf` as a double; `%lc` and `%ls` are read as `%c` and `%s`; and
  `%p` reads its pointer as an unsigned int (unity.c:2037). Where these types are of another size
  than C's, such a directive may print something else and misplace what follows.
* `StopsAtTerminator`: a walk passes the end of a string only when that ends within
  a directive or an escape sequence; those strings do take it there (unity.c:1979).
* `OptionsOfThisParse`: the lists in force are the last ones of the last command line.
  `SelectionExact`: a test runs when an item of one list names it and none of the
  other does. The items are names of files, of tests or both, in quotes or not, with a wildcard at
  the end or as the whole; one that goes on behind a wildcard, like `*:test`, is not among them (the
  code takes it for a match with every test, unity.c:2338). `CursorInside`: the cursor stays in its list, with one exception, the list
  that is a single quote (unity.c:2398).

**Bounds.** Sizes are scaled down: execution requests of 1 to 2 bytes, storage requests
of 2 to 3 (so that, as in the code, a size can be legal for one pool and not for the
other), `MaxSlack` 1. `core` adds requests of 0, of a size above both maxima and of SIZE_MAX
(`allocExecMemory(-1)` of the tests). Three threads are the number
`testMultiThreadAccess` starts, and the fewest of which two can favour each other
over a third. Total 5 (shares 2 and 3) with four blocks lets both pools be full, the
execution pool borrow, and excesses of all threads be outstanding at the limit; 5 is
also the last total whose product with the quota does not wrap in 8 bits, and with 7
it wraps and storage is entitled to everything. 0, 1 and 3 are totals below and between the request
limits. `HeapBytes` is above the total, so that it is the policy that stops
requests, and `je_malloc` may fail anyway. `SizeMod` 256, and 1024 elsewhere, is enough for
`CapacityAssumption`. `locked` has one block, enough for three threads to
contend for the mutex in every function; its safety properties are theorems as well.
`Rounds` 2 stands for the 1000 iterations of the concurrency test: `rand_num` is 0 or 1, and
four loops of several allocations follow one another; two threads are enough for each to run
out of memory because of the other. `programs` has the sizes of `tests.c` in units of 512 KB,
in the order and with the ratios that decide what is granted; `SerialAllocs` is 3 of 1000 rounds, all
alike; two failures of `je_malloc` can fall in one test or in two. `runner` needs each outcome
before and after each other one. `assertions` scales the types (a nibble of one bit) and takes values at and around each of
their limits; two elements have a first and a later one. `printers` has real nibbles in a UNITY_INT of
2 bytes, of which it prints every number; four characters hold a directive, its modifier and
a neighbour. Its floats are every number of 7 bits between 2^-15 and 2^22: 7 bits are to 2 digits what 24 are
to 7 (the digits fit, and a rounding is of the size of a unit of the last), 10^3 is the largest power
of ten that fits them, as 10^10 is for 24 bits, and in that range each loop turns up to
twice, and each branch meets ties and carries. `options` parses every command line of three bare arguments twice and matches
every list of two items with their quotes in every place. No state constraint is used.
Deadlock is checked, except in `assertions`, `printers`, `doc_ties` and `options`, where a call that has
reported, or a command line without further tests, is the end; `Ended` and `Stopped` let
finished test programs stutter. Threads and blocks are symmetric in `core`, `wrong_pool`,
`doc_total` and `doc_refusal`; runs with liveness properties use no symmetry.

**Fairness.** `RunningSpec` asks only that a thread that can run eventually does,
`je_malloc` and `je_free` included (they return): weak fairness of each thread. That suffices
for `SomeCallReturns`. `EveryCallReturns` is stated under a premise, `FairMutex`: strong fairness
of `Lock`, i.e. the mutex starves nobody for ever. POSIX does not promise that of a default mutex;
what the property says of *this* code is that nothing else keeps a
call from returning. Nothing obliges callers to call. In `test` the main thread and each
thread of the test are weakly fair. The functions of the policy manager are atomic there, so
this includes the mutex, but the test needs no fair mutex: its threads make finitely many
calls, so those that are preferred finish.

**Where code and documents disagree.** Each of these runs finds a violation:

| run | claim | what the code does |
|---|---|---|
| `doc_total` | policy_mgr.c:82 "can't go over total_system_memory" | the excess of a block is charged without a test |
| `doc_refusal` | README.md:127 "An execution request will fail only when the entire memory is full" | between `je_free` and the refund requests are refused with an empty heap |
| `doc_ties` | unity.c:421 "round to even if exactly between two integers" | the tie is judged on the fraction, before the integer part is added back |

`doc_refusal` is charitable to the claim: memory a call in flight is about to get, or failed to
get, counts as full. Three smaller ones need no run: README.md:213 promises retries, and
`allocMem` asks `je_malloc` once; the 50% split of policy_mgr.h:22 wraps for totals above
SIZE_MAX / 50, out of reach of real ones; and `TEST_ASSERT_EACH_EQUAL_STRING` of NULL fails
on null strings, since unity.c:1696 takes the expected NULL for a missing array, while the
comment at unity.c:1727 has two null strings pass.

## 4. What is proved

For every number of threads and blocks, every total, request and word size, every number
of tests, every list of arguments, and all values, texts and formats. Every property of section 3
is a theorem but for the three named under *Only model-checked*, all of them liveness.

| theorem | module | says |
|---|---|---|
| `TypeCorrect` | MemMgrProofs | `Spec => []TypeOK` |
| `InvariantHolds` | MemMgrProofs | `Spec => []IInv` |
| `CountersExact` | MemMgrProofs | `Spec => []Accounting` |
| `BudgetHolds` | MemMgrProofs | `Spec => []LiveWithinBudget` |
| `StorageQuotaHolds` | MemMgrProofs | `Spec => []StorageWithinQuota` |
| `ExposureHolds` | MemMgrProofs | `Spec => []ExposureInv` |
| `DecisionsAreExact` | MemMgrProofs | `Spec => DecisionsExact` |
| `LedgerImplemented` | MemMgrProofs | `Spec => KeepsLedger` |
| `TotalIsAccounted` | MemMgrProofs | `MisuseSpec => []TotalAccounted` |
| `MisuseKeepsBudget` | MemMgrProofs | `MisuseSpec => []MisuseWithinBudget` |
| `LockedTypesHold` | LockedProofs | `LockedSpec => []LockedTypeOK` |
| `NoUpdateIsLost` | LockedProofs | `LockedSpec => []NoLostUpdate` |
| `FunctionsAreAtomic` | LockedProofs | `LockedSpec => Atomicity` |
| `LockedImplementsLedger` | LockedProofs | `LockedSpec => Carried!KeepsLedger` |
| `LockedBudgetHolds` | LockedProofs | `LockedSpec => []LiveWithinBudget` |
| `LockedStorageQuotaHolds` | LockedProofs | `LockedSpec => []StorageWithinQuota` |
| `UsedWhileInitialisedHolds` | ConcurrencyTestProofs | `TestSpec => []UsedWhileInitialised` |
| `CleanAtTearDownHolds` | ConcurrencyTestProofs | `TestSpec => []CleanAtTearDown` |
| `MutexLifetimeHolds` | TestProgramsProofs | `ProgramSpec => []MutexLifetime` |
| `SessionAccountingHolds` | TestProgramsProofs | `ProgramSpec => []SessionAccounting` |
| `PassingTestsFreeAllHolds` | TestProgramsProofs | `ProgramSpec => []PassingTestsFreeAll` |
| `FailsOnlyWithMallocHolds` | TestProgramsProofs | `ProgramSpec => []FailsOnlyWithMalloc` |
| `ProgramRunsUnity` | TestProgramsProofs | `ProgramSpec => U!UnitySpec` |
| `UnityTypesHold` | UnityRunProofs | `UnitySpec => []UnityTypeOK` |
| `FirstDecidesHolds` | UnityRunProofs | `UnitySpec => []FirstDecides` |
| `TearDownEnteredHolds` | UnityRunProofs | `UnitySpec => TearDownEntered` |
| `OptionsOfThisParseHolds` | UnityRunProofs | `OptionsSpec => []OptionsOfThisParse` |
| `CursorInsideHolds` | UnityRunProofs | `OptionsSpec => []CursorInside` |
| `SelectionIsExact` | UnityRunProofs | `OptionsSpec => []SelectionExact` |
| `ScalarVerdictHolds` | UnityAssertionsProofs | `AssertionsSpec => []ScalarVerdict` |
| `ArrayAsScalarsHolds` | UnityAssertionsProofs | `AssertionsSpec => []ArrayAsScalars` |
| `StringVerdictHolds` | UnityAssertionsProofs | `AssertionsSpec => []StringVerdict` |
| `MemoryVerdictHolds` | UnityAssertionsProofs | `AssertionsSpec => []MemoryVerdict` |
| `FailureIsVisibleHolds` | UnityAssertionsProofs | `AssertionsSpec => []FailureIsVisible` |
| `EqualFloatsHold` | UnityAssertionsProofs | `AssertionsSpec => []EqualFloats` |
| `FloatArrayFirstHolds` | UnityAssertionsProofs | `AssertionsSpec => []FloatArrayFirst` |
| `OrderedFloatsHold` | UnityAssertionsProofs | `AssertionsSpec => []OrderedFloats` |
| `OneTraitHolds` | UnityAssertionsProofs | `AssertionsSpec => []OneTrait` |
| `ReadsBackHolds` | UnityPrintersProofs | `PrintersSpec => []ReadsBack` |
| `MaskShownHolds` | UnityPrintersProofs | `PrintersSpec => []MaskShown` |
| `ArgumentsAsPrintfHolds` | UnityPrintersProofs | `PrintersSpec => []ArgumentsAsPrintf` |
| `StopsAtTerminatorHolds` | UnityPrintersProofs | `PrintersSpec => []StopsAtTerminator` |
| `OnlyPrintableHolds` | UnityPrintersProofs | `PrintersSpec => []OnlyPrintable` |
| `NearestPrintedHolds` | UnityPrintersProofs | `PrintersSpec => []NearestPrinted` |

**Assumptions** on the memory manager. `SizeModAssumption` (a word has more than one value),
`ReqSizeAssumption` (request limits are positive and ordered, as the header's are),
`MemMgrAssumption` (finite sets, distinct null values), `LockAssumption`, the bounds of the
concurrency test and of the runner (natural numbers), and
`CapacityAssumption`: twice the heap plus the largest blocks all threads can be holding
is less than `SizeMod`. The last is what real machines give (48 address bits, 64 MB
requests); without it `used_memory` could pass half the range and the casts of
policy_mgr.c:140 would be implementation-defined. The configured total is *not* bounded:
`initMemoryManager(SIZE_MAX)` is covered. `TestsAssumption` says of the test program what can be
read off each script and its sizes, without running it: it frees what it keeps, and does not use a slot
again before (`FreesWhatItKeeps`); size classes are within the slack (`ServedClosely`); and it expects a
request to be refused exactly when the blocks it has then leave no room for it, in plain
integers and not in the arithmetic of `policyMgrAlloc` (`AssertsWhatFollows`). The last is a
condition on the constants: with another total than the one
`testMixedWorkload` is written for, it is false. TLC evaluates it for the sizes of `programs`. The calls
come from the thread of `main` (`OneThread`): the one test with threads is ConcurrencyTest.

Assumptions on Unity. `NumbersAssumption`: a nibble has 1 to 4 bits, an int is no wider than a
UNITY_INT. `PowersAssumption` is the definition of the powers of two, which the provers do not
have. `AssertsAssumption`, `PrintingAssumption` and `TextAssumption`: arguments are values of
their C types, texts have no terminator inside. `FloatsAssumption`: the finite floats given
are within the format, and the expected ones are multiples of the precision, so that tolerances
are exact in the model. `OptionsAssumption`: what separates items on a command line is in none
of their names, and an argument that is no option is a value. `FloatPrintAssumption` gives
the digits, the significand and the exponents their ranges: the integers and powers of ten of `UnityPrintFloat`
are numbers of its type. `TensAssumption` and `TwosAssumption` are the definitions of the powers of ten and two.
`RangeAssumption`: every number printed is one of the type, and the first scaling, in steps of
10^`BigExponent`, brings it to its digits before `MaxExponent` cuts the search short. The formats of C are
finite, so some `MaxExponent` and `MaxShift` do for each of them. TLC evaluates all
of these in the runs of the modules that state them.

**The argument for bytes.** `Accounting` alone is not inductive: that a refund does not
wrap needs to know that the block's bytes are charged, that no other call holds the same block, and
that the size read before `je_free` is the block's. `IInv` adds what each call knows
of its request and its block (`CallInv`), that no two calls hold one block
(`OwnershipInv`), that live blocks are the tagged ones (`BlockInv`), the bound of the
heap (`HeapInv`), that the storage share is within the total even when the quota product wraps
(`QuotaInv`), and `ExposureInv`. The last is the heart of the budgets: a
reservation is charged together with the largest excess it can still cause, and the sum
never passes the budget by more than one `MaxSlack` per thread. At `Reserve` the decision
gives `used + n <= total`, and the other threads' pending excesses are at most one
each; at every other step the sum does not grow. `IInv` is `TypeOK /\ FrameInv /\ PoolInv /\
SumInv`: the type and ownership half, `SafeInv == TypeOK /\ FrameInv`, is proved first because it is
inductive by itself; the sums come second.

**The argument for the ledger.** The refinement mapping forgets the counters: `Lent` is the live
bytes of each pool and `Entries` what each call is asking for or still to be booked for (`Entry`). `IInv` makes
what the ledger books equal to `used_memory` (`BookedIsUsed`), so the tests on machine words
decide as the ledger does on integers (`AdmitsAsLedger`). `je_malloc` lends and `je_free` takes
back; settling, rolling back and refunding are one action of the ledger, `Return`; entering
`freeMem` and a failure of `je_malloc` are stutters.

**Sums.** A sum of byte counts (`ByteSums`) is the cardinality of the set of its bytes,
so that the laws of sums (monotonicity, splitting, changing one term: the first lemmas of
MemMgrProofs) are theorems about finite cardinalities.

**The argument for the wrong pool.** When callers free through the other routine, `PoolInv` is lost:
one counter is too high and the other may have wrapped. `MisuseInv` keeps `SafeInv`, `HeapInv` and
`QuotaInv` and replaces the rest by the two counters together: their sum is what is charged,
or that and one `SizeMod`, as one of them may have wrapped but never both (`CounterSumInv`), and what
is charged, pending excesses included, is within the budget (`TotalExposureInv`). The decision adds the
counters modulo `SizeMod`, so it sees the right sum in either case.

**The argument for the mutex.** `LockInv`: the thread inside a critical section is the
owner of the mutex (`OwnerInv`), what it has copied is current (`CopyInv`,
`NoLostUpdate`), and it is where its call has a function to run (`PlaceInv`). Each step
then maps to the step of MemMgr of the same meaning, or to a stutter. The budgets speak of
the heap and the configuration, which the mapping leaves alone, so they are carried over
to the access-by-access manager: the theorems of MemMgrProofs are instantiated under
the mapping (`Carried`) and applied to the specification that `FunctionsAreAtomic` shows implemented.

**The argument for the concurrency test.** Its calls are steps of MemMgr, so `IInv` carries
over from `setUp` on, and before it nothing has happened (`Fresh`). `TestInv` adds where
each script and `RUN_TEST` can be (`ScriptTypeOK`, `ScriptInv`, `RunInv`), and the two facts that
together exclude a leak: a live block is in a call's or the callers' hands (`NoLeak`), and
one in the callers' hands is in some thread's `got` or `kept` (`KeptInv`). A thread that has
finished keeps nothing, so at `tearDown` no block is live, and by `Accounting` both counters are 0.

**The argument for the test program.** A second initialisation over live blocks breaks `IInv`: the
counters start from 0 and the heap does not. But the manager cannot tell the blocks that were
lost from blocks that were never there. `Session` is MemMgr on the heap *without* the lost blocks: there
each step of the program is a step of MemMgr, `setUp` is its `Init`, and `Session!IInv` is
invariant. `ProgramInv` adds that a slot never names a lost block before its test has obtained
it (`SlotInv`), and the pairing of allocations and frees: a live block that is not lost is in a
call's hands or in a slot that some earlier instruction filled and none has emptied (`KeptInv`).
At the end of a script there is no such instruction, by `TestsAssumption`. For `FailsOnlyWithMalloc`,
`LedgerInv` pairs the allocations a script keeps with the blocks of the session, one to one, as long as
`je_malloc` has not failed the test: so when a request is decided, the bytes live are those the
script counts (`ChargeIsLive`), the decision, which is exact for a caller that is alone
(`AloneExact`), is the one it expects, and every assertion holds. `ProgramRunsUnity` is the
refinement of UnityRunner, so that its theorems hold of the program.

**The argument for the runner.** `FirstDecides` needs the flags to agree with `first`
(`FlagInv`): the first request sets exactly its own flag, and none is set for a pass.

**The argument for the command line.** `ParseInv`: the lists in force are those of the last options among
the arguments read so far, and the next argument is not the list of the one before. `CursorInv`: the cursor
stands at the start, behind the end or on a character that is neither quote nor comma. For
`SelectionExact` the rendered text is cut into its items again (`Pieces`, `Offset`): `MatchInv` says
that the cursor is at the start of an item and no item before it names the test, or at the end and
none does.

**The argument for assertions.** A call is answered in one step and its arguments stay:
`VerdictInv` says which calls a macro makes (`CallKinds`), that the answer is the one its function computes
(`Answered`) and which macros show two values (`Shows`). Each verdict is then a lemma about a
function: casts to a narrower type and back lose nothing of a value of that type, a comparison after
them is that of the values, the difference in UNITY_UINT is their distance; the loop over an array
fails first where the least bad element is; dividing a byte's place by the length of an element
finds it again. `FailureIsVisible` is that the printers are injective: decimal, hexadecimal and
character styles on the numbers of each type (`ShownDiffers`), masks (`BitsDiffer`), and texts
(`TextsDiffer`), where two that first differ at a character are escaped alike up to it and
apart there.

**The argument for printers.** A number's digits are those of the loop that finds the first divisor and
the loop that prints from it on, and evaluating them gives the number back. The cursor over a text
moves by at most a directive or an escape sequence, and those end before the terminator unless
it falls inside one (`TextInv`, `Walked`). For the arguments, `ArgumentsInv`: the cursor is never between the
two characters of `%%` (`Boundary`), and what has been taken so far is what the directives before it call
for (`Gathered`).

**The argument for floats.** What a multiplication or a division rounds to is not the number, so an
invariant cannot carry it exactly; it carries how far it may be off. A number is `Short` if the type
has it: then it is what it rounds to. Rounding keeps order, so a rounded number is on the same side of a short
one as the number itself: that is how the loops, which compare with short
numbers (powers of ten and their rounded quotients), bound what they leave, whatever was lost. `Near(x, y, r)`
says that two numbers differ by no more than r roundings can make; a rounded number is near by one
(`RoundedNear`), and the roundings of a chain add up (`NearlyChain`). By
induction over the turns (by least counterexample, below) the scaled number is near the
magnitude times the power of ten the exponent records, by one rounding for each turn and one more
(`ScalesUp`, `ScalesDown`, `SplitOff`).
`FloatInv` says so of each phase. Scaled (`ScaledAs`), the number is that near, and its integer
part and fraction together lie between `min_scaled` and `max_scaled`. Rounded (`RoundedAs`), the
integer is within a half of that, ties included, and the one carry that adds a digit moves the
exponent with it. Printed, the text is a function of that integer and that exponent
(`Formatted`). The roundings are counted from the exponent (`Steps`) as the property counts them from the power
of the last digit printed (`Roundings`), and the two powers are one (`LeastPower`). What is left is that the text
reads back (`FormattedReads`, `LayoutReads`): its digits are those of the integer, each zero
dropped after the point is a decimal less, and the point and the exponent make up the power.
Fractions are compared by cross-multiplication (`NotAbove`), for which the provers are given the
products one at a time.

**Recursion.** Loops over digits and characters are recursive functions. The library's induction
theorems take an operator and cannot be used, so the proofs argue by the least counterexample
(`LeastNat`): a set of natural numbers that is not empty has a least element, and one where a claim
fails leads to a smaller one. That a recursive function has a solution, so that it satisfies its own
equation, is proved once for each (`UnityNumbersProofs`): for each argument there is a
function that obeys the equation up to it, and any two agree.

**Only model-checked:** liveness (`EveryCallReturns`, `SomeCallReturns`, `TestEnds`: fairness is out of
the prover's reach) and the violations of section 3.

## 5. Not modelled

* *jemalloc.* The repository holds its generated headers, some 3 250 lines of declarations
  and name macros without bodies. Size classes are a parameter of TestPrograms;
  alignment, arenas and caches are left out (so README.md:139, page-aligned storage, is
  open).
* *Wording.* `UnityTestResultsBegin`, `UnityTestResultsFailBegin`, `UnityAddMsgIfSpecified`,
  `UnityMessage`, `UnityPrintF` and `UnitySetTestFile` print fixed words around what is modelled, or
  set what is only printed. Details, execution times and most of `unity.h`, which
  names a function and its arguments for each macro, are likewise left out; the casts of
  `unity_internals.h` that change a value are in `Narrow`.
* *Rounding of float arithmetic* in the assertions: the difference of two floats and the tolerance of
  an element are exact sums there, up to the overflow to infinity. In `UnityPrintFloat` it is modelled,
  but for `UNITY_ROUND_TIES_AWAY_FROM_ZERO` and for compilers that keep a wider format than the type's
  between two operations.
* `testFree`, which frees garbage and is disabled in the repository (tests.c:273). A pool other
  than the two (policy_mgr.c:109, an assertion) cannot be asked for through the public
  routines. The Makefile.
* `main` returns what its last suite returned (tests.c:462); nothing says what it should
  return, so no property speaks of it.
