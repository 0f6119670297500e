----------------------------- MODULE UnityCalls -----------------------------
(***************************************************************************)
(* A call of an assertion and what it reports (unity/src/unity.c).  The    *)
(* test has neither failed nor been ignored yet; RETURN_IF_FAIL_OR_IGNORE  *)
(* and the longjmp of a failure are in UnityRunner.                        *)
(***************************************************************************)
EXTENDS UnityNumbers

CONSTANT MaxElements   \* bound on num_elements

VARIABLES call, result
call_vars == <<call, result>>

Nothing == [verdict |-> "none"]
Pass == [verdict |-> "pass"]

Report(outcome) == result = Nothing /\ result' = outcome /\ UNCHANGED call

\* ARRAY_TO_VAL never advances the expected pointer.
ExpectedAt(c, i) == IF c.flags = "ARRAY_TO_VAL" THEN c.expected[1] ELSE c.expected[i]
=============================================================================
