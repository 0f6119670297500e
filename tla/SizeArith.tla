----------------------------- MODULE SizeArith -----------------------------
(***************************************************************************)
(* The machine integers of the program: size_t and signed long, which have *)
(* the same width.  SizeMod is SIZE_MAX + 1, 2^64 on the platforms the     *)
(* Makefile builds for; it is a parameter so that TLC can check a narrow   *)
(* machine and the proofs cover every width.                               *)
(***************************************************************************)
EXTENDS Integers

CONSTANT SizeMod

ASSUME SizeModAssumption == SizeMod \in Nat /\ SizeMod > 1

SizeT == 0 .. SizeMod - 1

(* An arithmetic result stored in a size_t: unsigned arithmetic, and the   *)
(* cast from signed long to size_t, both reduce modulo SizeMod.            *)
Word(x) == x % SizeMod

(* A size_t converted to signed long (two's complement).                   *)
AsSigned(u) == IF 2 * u < SizeMod THEN u ELSE u - SizeMod
=============================================================================
