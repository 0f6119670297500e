-------------------------- MODULE UnityAssertions ---------------------------
(***************************************************************************)
(* Every assertion of Unity, one call at a time.                           *)
(***************************************************************************)
EXTENDS UnityAsserts, UnityFloats

AssertionsInit == AssertsInit \/ FloatsInit

AssertionsNext == AssertsNext \/ FloatsNext

AssertionsSpec == AssertionsInit /\ [][AssertionsNext]_call_vars
=============================================================================
