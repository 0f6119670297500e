------------------------- MODULE MCUnityAssertions --------------------------
(***************************************************************************)
(* A nibble of one bit: a byte is 2 bits, an int 8 and a UNITY_INT 16.     *)
(* Values and cells at and around every limit of those types, of either    *)
(* sign.  Floats on either side of the tolerance of what is expected, of   *)
(* both signs, and the largest ones, whose differences overflow.           *)
(***************************************************************************)
EXTENDS UnityAssertions

Around(n) == {n - 1, n}

MCValues ==
  LET limits == UNION {Around(2^(Bits(k) - 1)) \cup Around(2^Bits(k)) : k \in {1, 2, 4}}
  IN  ({-2, -1, 0, 3, 32767, -32768} \cup limits \cup {-x : x \in limits})
        \cap UNITY_INT

MCDeltas == {0, 1, 255, 65535}

MCCells(size) ==
  LET half == 2^(Bits(size) - 1) IN {0, half - 1, half, 2 * half - 1}

MCTexts == {NULL, <<>>, <<97>>, <<98>>, <<97, 98>>, <<97, -1>>, <<10>>, <<92, 110>>}

MCPrecision == [f \in Formats |-> IF f = "float" THEN 4 ELSE 8]
MCReferences == {-40, -8, 0, 8, 40}
MCActuals == {-40, -11, -10, -9, -6, -1, 0, 5, 6, 7, 9, 10, 11, 40}
MCFiniteDeltas == {-2, 0, 40}
=============================================================================
