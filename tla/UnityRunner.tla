---------------------------- MODULE UnityRunner ----------------------------
(***************************************************************************)
(* The control flow of the Unity test framework (unity/src/unity.c): the   *)
(* counters and flags of struct Unity, UnityBegin, UnityDefaultTestRun     *)
(* with its two TEST_PROTECT blocks, the assertions that leave them with   *)
(* longjmp, UnityConcludeTest and UnityEnd.                                *)
(*                                                                         *)
(* setUp, the test and tearDown are the user's: any of them may assert,    *)
(* ignore, pass or return at any time.                                     *)
(***************************************************************************)
EXTENDS Naturals

CONSTANT MaxTests   \* bound on the tests run between UnityBegin and UnityEnd

ASSUME MaxTestsAssumption == MaxTests \in Nat

VARIABLES
  at,                    \* what UnityDefaultTestRun is running
  NumberOfTests,
  TestFailures,
  TestIgnores,
  CurrentTestFailed,
  CurrentTestIgnored,
  first,                 \* the first failure or ignore of the running test
  concluded              \* tests concluded since UnityBegin, by their first

counter_vars == <<NumberOfTests, TestFailures, TestIgnores>>
flag_vars == <<CurrentTestFailed, CurrentTestIgnored>>
history_vars == <<first, concluded>>
unity_vars == <<at, counter_vars, flag_vars, history_vars>>

UserCode == {"setUp", "test", "tearDown"}
Running == UserCode \cup {"conclude"}
Verdict == {"pass", "fail", "ignore"}

UnityTypeOK ==
  /\ at \in Running \cup {"main", "outside"}
  /\ NumberOfTests \in Nat /\ TestFailures \in Nat /\ TestIgnores \in Nat
  /\ CurrentTestFailed \in {0, 1} /\ CurrentTestIgnored \in {0, 1}
  /\ first \in Verdict
  /\ concluded \in [Verdict -> Nat]

-----------------------------------------------------------------------------

UnityInit ==
  /\ at = "outside"
  /\ NumberOfTests = 0 /\ TestFailures = 0 /\ TestIgnores = 0
  /\ CurrentTestFailed = 0 /\ CurrentTestIgnored = 0
  /\ first = "pass"
  /\ concluded = [v \in Verdict |-> 0]

UnityBegin ==
  /\ at = "outside"
  /\ at' = "main"
  /\ NumberOfTests' = 0 /\ TestFailures' = 0 /\ TestIgnores' = 0
  /\ CurrentTestFailed' = 0 /\ CurrentTestIgnored' = 0
  /\ concluded' = [v \in Verdict |-> 0]
  /\ UNCHANGED first

RunTest ==
  /\ at = "main"
  /\ NumberOfTests < MaxTests
  /\ at' = "setUp"
  /\ NumberOfTests' = NumberOfTests + 1
  /\ UNCHANGED <<TestFailures, TestIgnores, flag_vars, history_vars>>

(* A slip: one TEST_PROTECT protects all three.                            *)
AbortToEnd == at' = "conclude"

(* TEST_ABORT: longjmp to the TEST_PROTECT set last, whose block is left.  *)
(* The first protects setUp and the test together, the second tearDown.    *)
Abort == at' = IF at = "tearDown" THEN "conclude" ELSE "tearDown"

(* RETURN_IF_FAIL_OR_IGNORE, at the head of every assertion function; the  *)
(* bare condition of TEST_ASSERT has none and changes nothing if it holds. *)
FailOrIgnore == CurrentTestFailed = 1 \/ CurrentTestIgnored = 1

(* What the user's code asked for, when it is the first to ask.            *)
Note(v) == first' = IF first = "pass" THEN v ELSE first

AssertionHolds ==
  /\ at \in UserCode
  /\ IF FailOrIgnore THEN Abort ELSE UNCHANGED at
  /\ UNCHANGED <<counter_vars, flag_vars, history_vars>>

(* A slip: the failure is not noted for UnityConcludeTest.                 *)
UnityFailUnmarked ==
  /\ at \in UserCode
  /\ Abort
  /\ Note("fail")
  /\ UNCHANGED <<counter_vars, flag_vars, concluded>>

UnityFail ==
  /\ at \in UserCode
  /\ CurrentTestFailed' = IF FailOrIgnore THEN CurrentTestFailed ELSE 1
  /\ Abort
  /\ Note("fail")
  /\ UNCHANGED <<counter_vars, CurrentTestIgnored, concluded>>

UnityIgnore ==
  /\ at \in UserCode
  /\ CurrentTestIgnored' = IF FailOrIgnore THEN CurrentTestIgnored ELSE 1
  /\ Abort
  /\ Note("ignore")
  /\ UNCHANGED <<counter_vars, CurrentTestFailed, concluded>>

TestPass ==
  /\ at \in UserCode
  /\ Abort
  /\ UNCHANGED <<counter_vars, flag_vars, history_vars>>

Leave ==
  /\ \/ at = "setUp" /\ at' = "test"
     \/ at = "test" /\ at' = "tearDown"
     \/ at = "tearDown" /\ at' = "conclude"
  /\ UNCHANGED <<counter_vars, flag_vars, history_vars>>

(* A slip: the flags are left for the next test.                           *)
ConcludeWithoutClearing ==
  /\ at = "conclude"
  /\ at' = "main"
  /\ TestIgnores' = TestIgnores + CurrentTestIgnored
  /\ TestFailures' = TestFailures
       + (IF CurrentTestIgnored = 1 THEN 0 ELSE CurrentTestFailed)
  /\ concluded' = [concluded EXCEPT ![first] = @ + 1]
  /\ first' = "pass"
  /\ UNCHANGED <<NumberOfTests, flag_vars>>

UnityConcludeTest ==
  /\ at = "conclude"
  /\ at' = "main"
  /\ TestIgnores' = TestIgnores + CurrentTestIgnored
  /\ TestFailures' = TestFailures
       + (IF CurrentTestIgnored = 1 THEN 0 ELSE CurrentTestFailed)
  /\ CurrentTestFailed' = 0 /\ CurrentTestIgnored' = 0
  /\ concluded' = [concluded EXCEPT ![first] = @ + 1]
  /\ first' = "pass"
  /\ UNCHANGED NumberOfTests

(* The counters it prints and returns stay as they are until UnityBegin.   *)
UnityEnd ==
  /\ at = "main"
  /\ at' = "outside"
  /\ UNCHANGED <<counter_vars, flag_vars, history_vars>>

UserStep ==
  \/ AssertionHolds \/ UnityFail \/ UnityIgnore \/ TestPass \/ Leave

UnityNext == UnityBegin \/ RunTest \/ UserStep \/ UnityConcludeTest \/ UnityEnd

UnitySpec == UnityInit /\ [][UnityNext]_unity_vars

-----------------------------------------------------------------------------
(* Properties.                                                             *)

(* The first thing a test asks for decides what it counts as: a failure is *)
(* not hidden by what tearDown does after it, no flag of one test reaches  *)
(* the next, and the three counters add up to the tests run                *)
(* (UnityConcludeTest, RETURN_IF_FAIL_OR_IGNORE).                          *)
FirstDecides ==
  /\ TestFailures = concluded["fail"]
  /\ TestIgnores = concluded["ignore"]
  /\ NumberOfTests = concluded["pass"] + concluded["fail"]
       + concluded["ignore"] + (IF at \in Running THEN 1 ELSE 0)

(* Wherever a test is left, by return or by longjmp, its tearDown begins   *)
(* before it is concluded (the two TEST_PROTECT of UnityDefaultTestRun).   *)
TearDownEntered ==
  [][at' = "conclude" => at = "tearDown"]_unity_vars
=============================================================================
