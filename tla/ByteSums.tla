------------------------------ MODULE ByteSums ------------------------------
(***************************************************************************)
(* Sums of byte counts over a finite set.  A sum is the number of its      *)
(* bytes, each named by the element it belongs to and its position there,  *)
(* so that every fact about sums is a fact about cardinalities.            *)
(***************************************************************************)
EXTENDS Integers, FiniteSets

BytesOf(S, f) == UNION {{x} \X (1 .. f[x]) : x \in S}

SumOver(S, f) == Cardinality(BytesOf(S, f))
=============================================================================
