----------------------------- MODULE UnityFloats -----------------------------
(***************************************************************************)
(* Unity's assertions on floats and doubles (unity/src/unity.c,            *)
(* unity_internals.h).                                                     *)
(*                                                                         *)
(* A number is a finite integer count of a small unit, an infinity or NaN. *)
(* Finite results beyond MaxFinite overflow to an infinity.  Rounding is   *)
(* left out: Precision divides every number a relative tolerance is taken  *)
(* of.                                                                     *)
(***************************************************************************)
EXTENDS UnityCalls

CONSTANTS
  Precision,    \* one over UNITY_FLOAT_PRECISION, UNITY_DOUBLE_PRECISION
  MaxFinite,    \* the largest finite number
  References,   \* the finite numbers expected, multiples of the precisions
  Actuals,      \* the finite numbers tested
  FiniteDeltas

Formats == {"float", "double"}

ASSUME FloatsAssumption ==
  /\ MaxFinite \in Nat
  /\ Precision \in [Formats -> Nat \ {0}]
  /\ Actuals \cup FiniteDeltas \subseteq -MaxFinite..MaxFinite
  /\ \A f \in Formats, r \in References : r \in -MaxFinite..MaxFinite /\ r % Precision[f] = 0

-----------------------------------------------------------------------------
(* Floating-point numbers.                                                 *)

Finite(n) == [class |-> "finite", value |-> n]
Infinity(sign) == [class |-> "inf", value |-> sign]
NaN == [class |-> "nan", value |-> 0]

Specials == {Infinity(1), Infinity(-1), NaN}

isnan(x) == x.class = "nan"
isinf(x) == x.class = "inf"

Rounded(n) == CASE n > MaxFinite  -> Infinity(1)
                [] n < -MaxFinite -> Infinity(-1)
                [] OTHER          -> Finite(n)

\* False as soon as either is NaN.
Less(x, y) ==
  /\ ~isnan(x) /\ ~isnan(y)
  /\ LET rank(z) == IF isinf(z) THEN z.value ELSE 0
     IN  rank(x) < rank(y) \/ (rank(x) = 0 /\ rank(y) = 0 /\ x.value < y.value)

Negative(x) == Less(x, Finite(0))

Negated(x) == [x EXCEPT !.value = -@]

Plus(x, y) ==
  CASE isnan(x) \/ isnan(y)   -> NaN
    [] ~isnan(x) /\ ~isnan(y) ->
         CASE isinf(x) /\ isinf(y) -> IF x = y THEN x ELSE NaN
           [] isinf(x) # isinf(y)  -> IF isinf(x) THEN x ELSE y
           [] OTHER                -> Rounded(x.value + y.value)

Absolute(x) == IF Negative(x) THEN Negated(x) ELSE x

\* x * UNITY_FLOAT_PRECISION, or x * UNITY_DOUBLE_PRECISION.
Scaled(format, x) ==
  IF x.class = "finite" THEN Finite(x.value \div Precision[format]) ELSE x

-----------------------------------------------------------------------------

Failed(why, element) == [verdict |-> "fail", why |-> why, element |-> element]

PassIf(holds) == IF holds THEN Pass ELSE Failed("values", 0)

(* A slip: a negative delta keeps its sign.                                *)
WithinSigned(delta, expected, actual) ==
  \/ isinf(expected) /\ isinf(actual) /\ Negative(expected) = Negative(actual)
  \/ isnan(expected) /\ isnan(actual)
  \/ LET diff == Absolute(Plus(actual, Negated(expected)))
     IN  ~(isnan(diff) \/ isinf(diff) \/ Less(delta, diff))

\* UNITY_FLOAT_OR_DOUBLE_WITHIN, the body of both UnityFloatsWithin and
\* UnityDoublesWithin.
FloatWithin(delta, expected, actual) ==
  \/ isinf(expected) /\ isinf(actual) /\ Negative(expected) = Negative(actual)
  \/ isnan(expected) /\ isnan(actual)
  \/ LET diff == Absolute(Plus(actual, Negated(expected)))
     IN  ~(isnan(diff) \/ isinf(diff) \/ Less(Absolute(delta), diff))

(* A slip: the delta of an element keeps the sign of what is expected.     *)
ElementDeltaSigned(format, delta, expected) == Plus(Absolute(delta), Scaled(format, expected))

ElementDelta(format, delta, expected) ==
  Plus(Absolute(delta), Absolute(Scaled(format, expected)))

WithinArray(c, delta) ==
  LET bad == {i \in 1..c.count :
                ~FloatWithin(ElementDelta(c.format, delta, ExpectedAt(c, i)),
                        ExpectedAt(c, i), c.actual[i])}
  IN  CASE c.count = 0                  -> Failed("pointless", 0)
        [] c.count > 0 /\ isinf(delta)  -> Pass
        [] c.count > 0 /\ isnan(delta)  -> Failed("pointless", 0)
        [] OTHER ->
             CASE c.alias -> Pass
               [] ~c.alias /\ NULL \in {c.expected, c.actual} -> Failed("NULL", 0)
               [] OTHER -> IF bad = {} THEN Pass
                           ELSE Failed("values", CHOOSE i \in bad : \A k \in bad : i <= k)

\* UNITY_COMPARISON_T, as the relations it grants.
FloatComparisons ==
  [FLOAT_GREATER_THAN |-> {"greater"}, FLOAT_GREATER_OR_EQUAL |-> {"greater", "equal"},
   FLOAT_LESS_THAN    |-> {"smaller"}, FLOAT_LESS_OR_EQUAL    |-> {"smaller", "equal"}]

(* A slip: failure is tested for, instead of "not success".                *)
MisorderedDirectly(threshold, actual, compare) ==
  \/ "smaller" \in compare /\ (Less(threshold, actual) \/ actual = threshold)
  \/ "greater" \in compare /\ (Less(actual, threshold) \/ actual = threshold)

Misordered(threshold, actual, compare) ==
  \/ "smaller" \in compare /\ ~Less(actual, threshold)
  \/ "greater" \in compare /\ ~Less(threshold, actual)

GreaterOrLess(format, threshold, actual, compare) ==
  PassIf(~Misordered(threshold, actual, compare)
         \/ ("equal" \in compare /\ FloatWithin(Scaled(format, threshold), threshold, actual)))

Traits == {"INF", "NEG_INF", "NAN", "DET"}

HasTrait(trait, x) ==
  CASE trait = "INF"     -> isinf(x) /\ Less(Finite(0), x)
    [] trait = "NEG_INF" -> isinf(x) /\ Negative(x)
    [] trait = "NAN"     -> isnan(x)
    [] trait = "DET"     -> ~isinf(x) /\ ~isnan(x)

(* A slip: an infinity of either sign is taken for a positive one.         *)
SpecialUnsigned(x, trait, should) ==
  PassIf(trait # "INVALID" /\ (IF trait = "INF" THEN isinf(x) ELSE HasTrait(trait, x)) = should)

\* An invalid trait is never the one asked for.
Special(x, trait, should) ==
  PassIf(trait # "INVALID" /\ HasTrait(trait, x) = should)

-----------------------------------------------------------------------------
(* The functions, which differ in their precision only.                    *)

UnityFloatsWithin(delta, expected, actual) == FloatWithin(delta, expected, actual)
UnityDoublesWithin(delta, expected, actual) == FloatWithin(delta, expected, actual)

UnityAssertFloatsWithin(d, e, a) == PassIf(UnityFloatsWithin(d, e, a))
UnityAssertDoublesWithin(d, e, a) == PassIf(UnityDoublesWithin(d, e, a))

UnityAssertFloatsNotWithin(d, e, a) == PassIf(~UnityFloatsWithin(d, e, a))
UnityAssertDoublesNotWithin(d, e, a) == PassIf(~UnityDoublesWithin(d, e, a))

UnityAssertWithinFloatArray(c, delta) == WithinArray(c, delta)
UnityAssertWithinDoubleArray(c, delta) == WithinArray(c, delta)

UnityAssertGreaterOrLessFloat(threshold, actual, compare) ==
  GreaterOrLess("float", threshold, actual, compare)
UnityAssertGreaterOrLessDouble(threshold, actual, compare) ==
  GreaterOrLess("double", threshold, actual, compare)

UnityAssertFloatSpecial(x, trait, should) == Special(x, trait, should)
UnityAssertDoubleSpecial(x, trait, should) == Special(x, trait, should)

-----------------------------------------------------------------------------
(* The calls: each macro with its arguments, in a build that supports its  *)
(* format or not.                                                          *)

Expecteds == {Finite(n) : n \in References} \cup Specials
Givens == {Finite(n) : n \in Actuals} \cup Specials
FloatDeltas == {Finite(n) : n \in FiniteDeltas} \cup Specials

PairCalls ==
  [macro : {"FLOAT_EQUAL", "FLOAT_NOT_EQUAL"} \cup DOMAIN FloatComparisons,
   format : Formats, supported : BOOLEAN, expected : Expecteds, actual : Givens]

FloatWithinCalls ==
  [macro : {"FLOAT_WITHIN", "FLOAT_NOT_WITHIN"}, format : Formats, supported : BOOLEAN,
   expected : Expecteds, actual : Givens, delta : FloatDeltas]

TraitCalls ==
  [macro : {"FLOAT_IS"}, format : Formats, supported : BOOLEAN, actual : Givens,
   trait : Traits \cup {"INVALID"}, should : BOOLEAN]

FloatPointers(n) == {NULL} \cup [1..n -> Expecteds]

FloatArrayCalls(n) ==
  {c \in [macro : {"FLOAT_ARRAY_EQUAL", "FLOAT_ARRAY_WITHIN"}, format : Formats,
          supported : {TRUE}, flags : {"ARRAY_TO_ARRAY"}, count : {n}, alias : BOOLEAN,
          delta : FloatDeltas, expected : FloatPointers(n), actual : FloatPointers(n)] :
     /\ c.macro = "FLOAT_ARRAY_EQUAL" => c.delta = Finite(0)
     /\ IF c.expected = NULL THEN c.alias = (c.actual = NULL)
        ELSE c.alias => c.expected = c.actual}

FloatEachCalls(n) ==
  {[macro |-> "FLOAT_ARRAY_EQUAL", format |-> f, supported |-> TRUE, flags |-> "ARRAY_TO_VAL",
    count |-> n, alias |-> FALSE, delta |-> Finite(0),
    expected |-> <<x>>, actual |-> a] : f \in Formats, x \in Expecteds, a \in FloatPointers(n)}

FloatsInit ==
  /\ result = Nothing
  /\ \/ call \in PairCalls \cup FloatWithinCalls
     \/ call \in TraitCalls
     \/ \E n \in 0..MaxElements : call \in FloatArrayCalls(n) \cup FloatEachCalls(n)

OnFloats == "format" \in DOMAIN call
Supported == OnFloats /\ call.supported
IsFloat == call.format = "float"

Tolerance(format, expected) == Scaled(format, expected)

ExcludedFormat == OnFloats /\ ~call.supported /\ Report(Failed("disabled", 0))

EqualOrNot ==
  /\ Supported
  /\ call.macro \in {"FLOAT_EQUAL", "FLOAT_WITHIN", "FLOAT_NOT_EQUAL", "FLOAT_NOT_WITHIN"}
  /\ LET d == IF call.macro \in {"FLOAT_EQUAL", "FLOAT_NOT_EQUAL"}
              THEN Tolerance(call.format, call.expected) ELSE call.delta
         e == call.expected
         a == call.actual
     IN  Report(IF call.macro \in {"FLOAT_EQUAL", "FLOAT_WITHIN"}
                THEN IF IsFloat THEN UnityAssertFloatsWithin(d, e, a)
                     ELSE UnityAssertDoublesWithin(d, e, a)
                ELSE IF IsFloat THEN UnityAssertFloatsNotWithin(d, e, a)
                     ELSE UnityAssertDoublesNotWithin(d, e, a))

CompareFloats ==
  /\ Supported
  /\ call.macro \in DOMAIN FloatComparisons
  /\ LET compare == FloatComparisons[call.macro]
     IN  Report(IF IsFloat
                THEN UnityAssertGreaterOrLessFloat(call.expected, call.actual, compare)
                ELSE UnityAssertGreaterOrLessDouble(call.expected, call.actual, compare))

Is ==
  /\ Supported
  /\ call.macro = "FLOAT_IS"
  /\ Report(IF IsFloat THEN UnityAssertFloatSpecial(call.actual, call.trait, call.should)
            ELSE UnityAssertDoubleSpecial(call.actual, call.trait, call.should))

Array ==
  /\ Supported
  /\ call.macro \in {"FLOAT_ARRAY_EQUAL", "FLOAT_ARRAY_WITHIN"}
  /\ Report(IF IsFloat THEN UnityAssertWithinFloatArray(call, call.delta)
            ELSE UnityAssertWithinDoubleArray(call, call.delta))

FloatsNext == ExcludedFormat \/ EqualOrNot \/ CompareFloats \/ Is \/ Array

-----------------------------------------------------------------------------

FloatReported(macros) == result # Nothing /\ Supported /\ call.macro \in macros

AsNumber(x) == x.class = "finite"

Size(n) == IF n < 0 THEN -n ELSE n

\* The difference of two finite numbers is finite in the format.
Subtractable(e, a) == Size(a.value - e.value) <= MaxFinite

\* What it should mean that actual is expected, give or take delta.
Close(delta, e, a) ==
  \/ e = a /\ ~AsNumber(e)
  \/ /\ AsNumber(e) /\ AsNumber(a) /\ Subtractable(e, a)
     /\ AsNumber(delta) => Size(a.value - e.value) <= Size(delta.value)

(* Two floats are equal when both are NaN, or the same infinity, or differ *)
(* by a part in Precision of the expected one; the assertion that they are *)
(* not is its negation.  Neither the sign of the expected number, which is *)
(* that of the tolerance, nor an infinity on one side, nor a difference    *)
(* that overflows makes either of them pass or fail.                       *)
EqualFloats ==
  FloatReported({"FLOAT_EQUAL", "FLOAT_NOT_EQUAL"}) =>
    LET e == call.expected  a == call.actual
        equal == \/ e = a
                 \/ /\ AsNumber(e) /\ AsNumber(a) /\ Subtractable(e, a)
                    /\ Size(a.value - e.value) * Precision[call.format] <= Size(e.value)
    IN  (result = Pass) = (equal = (call.macro = "FLOAT_EQUAL"))

(* An array of floats passes when every element is close to what is        *)
(* expected of it, by the delta and its own tolerance together, and the    *)
(* element reported is the first that is not, whatever the signs.          *)
FloatArrayFirst ==
  (/\ FloatReported({"FLOAT_ARRAY_EQUAL", "FLOAT_ARRAY_WITHIN"})
   /\ AsNumber(call.delta) /\ call.count > 0 /\ ~call.alias
   /\ NULL \notin {call.expected, call.actual}) =>
    LET good(i) ==
          LET e == call.expected[IF Len(call.expected) = 1 THEN 1 ELSE i]
              d == Size(call.delta.value) + Size(e.value) \div Precision[call.format]
          IN  Close(Rounded(d), e, call.actual[i])
    IN  IF result = Pass THEN \A i \in 1..call.count : good(i)
        ELSE ~good(result.element) /\ \A i \in 1..result.element - 1 : good(i)

(* GREATER_OR_EQUAL passes on what GREATER_THAN or EQUAL passes on and on  *)
(* nothing else, and so do the others; GREATER_THAN and LESS_THAN never    *)
(* both pass, and on NaN neither does.                                     *)
OrderedFloats ==
  FloatReported(DOMAIN FloatComparisons) =>
    LET e == call.expected  a == call.actual
        above == /\ ~isnan(e) /\ ~isnan(a) /\ e # a
                 /\ \/ a = Infinity(1) \/ e = Infinity(-1)
                    \/ AsNumber(e) /\ AsNumber(a) /\ a.value > e.value
        below == ~isnan(e) /\ ~isnan(a) /\ e # a /\ ~above
        equal == UnityAssertFloatsWithin(Tolerance(call.format, e), e, a) = Pass
    IN  (result = Pass) =
          CASE call.macro = "FLOAT_GREATER_THAN"     -> above
            [] call.macro = "FLOAT_GREATER_OR_EQUAL" -> above \/ equal
            [] call.macro = "FLOAT_LESS_THAN"        -> below
            [] call.macro = "FLOAT_LESS_OR_EQUAL"    -> below \/ equal

(* Every number has exactly one of the four traits, and the assertion that *)
(* it has one is the negation of the assertion that it has not.            *)
OneTrait ==
  (FloatReported({"FLOAT_IS"}) /\ call.trait # "INVALID") =>
    LET is(trait) == UnityAssertFloatSpecial(call.actual, trait, TRUE) = Pass
    IN  /\ \E t \in Traits : is(t) /\ \A u \in Traits : is(u) => u = t
        /\ (result = Pass) = (is(call.trait) = call.should)
=============================================================================
