----------------------- MODULE UnityAssertionsProofs -----------------------
(***************************************************************************)
(* The verdicts of Unity's assertions, for any values, any texts and any   *)
(* finite floats, whatever the widths of the integers.                     *)
(*                                                                         *)
(* A call never changes and is answered once.  CallKinds says which set of *)
(* calls a macro stands for, Answered that a verdict is the one its macro  *)
(* computes; the properties then speak of one evaluation each.             *)
(***************************************************************************)
EXTENDS UnityAssertions, UnityNumbersProofs, TLAPS

PairMacros == {"FLOAT_EQUAL", "FLOAT_NOT_EQUAL"}
OrderMacros == DOMAIN FloatComparisons
ArrayMacros == {"FLOAT_ARRAY_EQUAL", "FLOAT_ARRAY_WITHIN"}
TextMacros == {"STRING", "STRING_LEN"}
ScalarMacros == {"EQUAL"} \cup DOMAIN Comparisons

CallKinds ==
  /\ call.macro = "FLOAT_IS" => call \in TraitCalls
  /\ call.macro \in PairMacros \cup OrderMacros => call \in PairCalls
  /\ call.macro \in ArrayMacros =>
       \E n \in 0..MaxElements : call \in FloatArrayCalls(n) \cup FloatEachCalls(n)
  /\ call.macro \in TextMacros => call \in StringCalls
  /\ call.macro \in ScalarMacros => call \in ScalarCalls
  /\ call.macro = "WITHIN" => call \in WithinCalls
  /\ call.macro = "BITS" => call \in BitsCalls
  /\ call.macro \in {"ARRAY_EQUAL", "ARRAY_WITHIN"} =>
       \E t \in Types, n \in 0..MaxElements : call \in ArrayCalls(t, n)
  /\ call.macro = "EACH_EQUAL" =>
       \E t \in Types, n \in 0..MaxElements : call \in EachCalls(t, n)
  /\ call.macro = "STRING_ARRAY" =>
       \E n \in 0..MaxElements : call \in StringArrayCalls(n)
  /\ call.macro = "MEMORY" =>
       \E n \in 0..MaxElements, length \in 0..2 : call \in MemoryCalls(n, length)

Answered ==
  /\ FloatReported({"FLOAT_IS"}) =>
       result = Special(call.actual, call.trait, call.should)
  /\ FloatReported({"FLOAT_EQUAL"}) =>
       result = PassIf(FloatWithin(Tolerance(call.format, call.expected),
                                   call.expected, call.actual))
  /\ FloatReported({"FLOAT_NOT_EQUAL"}) =>
       result = PassIf(~FloatWithin(Tolerance(call.format, call.expected),
                                    call.expected, call.actual))
  /\ FloatReported(OrderMacros) =>
       result = GreaterOrLess(call.format, call.expected, call.actual,
                              FloatComparisons[call.macro])
  /\ FloatReported(ArrayMacros) => result = WithinArray(call, call.delta)
  /\ Reported({"STRING"}) =>
       result = UnityAssertEqualString(call.expected, call.actual)
  /\ Reported({"STRING_LEN"}) =>
       result = UnityAssertEqualStringLen(call.expected, call.actual, call.length)
  /\ Reported({"EQUAL"}) =>
       result = UnityAssertEqualNumber(Scalar(call.expected), Scalar(call.actual), call.type)
  /\ Reported(DOMAIN Comparisons) =>
       result = UnityAssertGreaterOrLessOrEqualNumber(Scalar(call.expected),
                  Scalar(call.actual), Comparisons[call.macro], call.type)
  /\ Reported({"WITHIN"}) =>
       result = UnityAssertNumbersWithin(ToUnsigned(call.delta, call.type.narrow),
                  Scalar(call.expected), Scalar(call.actual), call.type)
  /\ Reported({"BITS"}) => result = UnityAssertBits(call.mask, call.expected, call.actual)
  /\ Reported({"ARRAY_EQUAL", "EACH_EQUAL"}) => result = UnityAssertEqualIntArray(call)
  /\ Reported({"ARRAY_WITHIN"}) =>
       result = UnityAssertNumbersArrayWithin(call, ToUnsigned(call.delta, call.type.narrow))
  /\ Reported({"STRING_ARRAY"}) => result = UnityAssertEqualStringArray(call)
  /\ Reported({"MEMORY"}) => result = UnityAssertEqualMemory(call)

\* The macros whose failures show the two values.
ShowingMacros ==
  ScalarMacros \cup TextMacros
  \cup {"WITHIN", "BITS", "ARRAY_EQUAL", "ARRAY_WITHIN", "EACH_EQUAL", "STRING_ARRAY", "MEMORY"}

Shows == "shown" \in DOMAIN result => call.macro \in ShowingMacros

VerdictInv == CallKinds /\ Answered /\ Shows

-----------------------------------------------------------------------------
(* The calls.                                                              *)

LEMMA OrderMacrosAre ==
  OrderMacros = {"FLOAT_GREATER_THAN", "FLOAT_GREATER_OR_EQUAL",
                 "FLOAT_LESS_THAN", "FLOAT_LESS_OR_EQUAL"}
BY DEF OrderMacros, FloatComparisons

LEMMA ComparisonsAre ==
  DOMAIN Comparisons = {"NOT_EQUAL", "GREATER_THAN", "GREATER_OR_EQUAL",
                        "SMALLER_THAN", "SMALLER_OR_EQUAL"}
BY DEF Comparisons

(* The macros of the calls of each kind.                                   *)
LEMMA FloatMacros ==
  /\ \A c \in PairCalls : c.macro \in PairMacros \cup OrderMacros
  /\ \A c \in FloatWithinCalls : c.macro \in {"FLOAT_WITHIN", "FLOAT_NOT_WITHIN"}
  /\ \A c \in TraitCalls : c.macro = "FLOAT_IS"
  /\ \A n : \A c \in FloatArrayCalls(n) : c.macro \in ArrayMacros
  /\ \A n : \A c \in FloatEachCalls(n) : c.macro \in ArrayMacros
<1>1. \A c \in PairCalls : c.macro \in PairMacros \cup OrderMacros
  BY DEF PairCalls, PairMacros, OrderMacros
<1>2. \A c \in FloatWithinCalls : c.macro \in {"FLOAT_WITHIN", "FLOAT_NOT_WITHIN"}
  BY DEF FloatWithinCalls
<1>3. \A c \in TraitCalls : c.macro = "FLOAT_IS"
  BY DEF TraitCalls
<1>4. \A n : \A c \in FloatArrayCalls(n) : c.macro \in ArrayMacros
  BY DEF FloatArrayCalls, ArrayMacros
<1>5. \A n : \A c \in FloatEachCalls(n) : c.macro \in ArrayMacros
  BY DEF FloatEachCalls, ArrayMacros
<1> QED BY <1>1, <1>2, <1>3, <1>4, <1>5

LEMMA AssertMacros ==
  /\ \A c \in ScalarCalls : c.macro \in ScalarMacros
  /\ \A c \in WithinCalls : c.macro = "WITHIN"
  /\ \A c \in BitsCalls : c.macro = "BITS"
  /\ \A t, n : \A c \in ArrayCalls(t, n) : c.macro \in {"ARRAY_EQUAL", "ARRAY_WITHIN"}
  /\ \A t, n : \A c \in EachCalls(t, n) : c.macro = "EACH_EQUAL"
  /\ \A c \in StringCalls : c.macro \in TextMacros
  /\ \A n : \A c \in StringArrayCalls(n) : c.macro = "STRING_ARRAY"
  /\ \A n, length : \A c \in MemoryCalls(n, length) : c.macro = "MEMORY"
<1>1. \A c \in ScalarCalls : c.macro \in ScalarMacros
  BY DEF ScalarCalls, ScalarMacros
<1>2. \A c \in WithinCalls : c.macro = "WITHIN"
  BY DEF WithinCalls
<1>3. \A c \in BitsCalls : c.macro = "BITS"
  BY DEF BitsCalls
<1>4. \A t, n : \A c \in ArrayCalls(t, n) : c.macro \in {"ARRAY_EQUAL", "ARRAY_WITHIN"}
  BY DEF ArrayCalls
<1>5. \A t, n : \A c \in EachCalls(t, n) : c.macro = "EACH_EQUAL"
  BY DEF EachCalls
<1>6. \A c \in StringCalls : c.macro \in TextMacros
  BY DEF StringCalls, TextMacros
<1>7. \A n : \A c \in StringArrayCalls(n) : c.macro = "STRING_ARRAY"
  BY DEF StringArrayCalls
<1>8. \A n, length : \A c \in MemoryCalls(n, length) : c.macro = "MEMORY"
  BY DEF MemoryCalls
<1> QED BY <1>1, <1>2, <1>3, <1>4, <1>5, <1>6, <1>7, <1>8

(* A macro tells the kind of the call.                                     *)
LEMMA KindsInit == AssertionsInit => VerdictInv
<1> SUFFICES ASSUME AssertionsInit PROVE VerdictInv
  OBVIOUS
<1>1. result = Nothing
  BY DEF AssertionsInit, AssertsInit, FloatsInit
<1>2. Answered
  BY <1>1 DEF Answered, FloatReported, Reported
<1>3. CallKinds
  <2> USE FloatMacros, AssertMacros, OrderMacrosAre, ComparisonsAre
      DEF CallKinds, PairMacros, ArrayMacros, TextMacros, ScalarMacros
  <2>1. CASE call \in ScalarCalls
    BY <2>1
  <2>2. CASE call \in WithinCalls
    BY <2>2
  <2>3. CASE call \in BitsCalls
    BY <2>3
  <2>4. CASE \E t \in Types, n \in 0..MaxElements : call \in ArrayCalls(t, n)
    BY <2>4
  <2>5. CASE \E t \in Types, n \in 0..MaxElements : call \in EachCalls(t, n)
    BY <2>5
  <2>6. CASE call \in StringCalls
    BY <2>6
  <2>7. CASE \E n \in 0..MaxElements : call \in StringArrayCalls(n)
    BY <2>7
  <2>8. CASE \E n \in 0..MaxElements, length \in 0..2 : call \in MemoryCalls(n, length)
    BY <2>8
  <2>9. CASE call \in PairCalls
    BY <2>9
  <2>10. CASE call \in FloatWithinCalls
    BY <2>10
  <2>11. CASE call \in TraitCalls
    BY <2>11
  <2>12. CASE \E n \in 0..MaxElements : call \in FloatArrayCalls(n) \cup FloatEachCalls(n)
    BY <2>12
  <2> HIDE FloatMacros, AssertMacros, OrderMacrosAre, ComparisonsAre
           DEF CallKinds
  <2> QED BY <2>1, <2>2, <2>3, <2>4, <2>5, <2>6, <2>7, <2>8, <2>9, <2>10, <2>11, <2>12
          DEF AssertionsInit, AssertsInit, FloatsInit
<1>4. Shows
  BY <1>1 DEF Shows, Nothing
<1> QED BY <1>2, <1>3, <1>4 DEF VerdictInv

-----------------------------------------------------------------------------
(* The answers.                                                            *)

(* An assertion on floats passes, or fails without printing the two.       *)
LEMMA FloatOutcomes ==
  FloatsNext => result' = Pass \/ \E why, element : result' = Failed(why, element)
<1> SUFFICES ASSUME FloatsNext
             PROVE  result' = Pass \/ \E why, element : result' = Failed(why, element)
  OBVIOUS
<1>1. \A holds : PassIf(holds) = Pass \/ PassIf(holds) = Failed("values", 0)
  BY DEF PassIf
<1>2. CASE ExcludedFormat
  BY <1>2 DEF ExcludedFormat, Report
<1>3. CASE EqualOrNot
  BY <1>1, <1>3 DEF EqualOrNot, Report, UnityAssertFloatsWithin, UnityAssertDoublesWithin,
     UnityAssertFloatsNotWithin, UnityAssertDoublesNotWithin
<1>4. CASE CompareFloats
  BY <1>1, <1>4 DEF CompareFloats, Report, UnityAssertGreaterOrLessFloat,
     UnityAssertGreaterOrLessDouble, GreaterOrLess
<1>5. CASE Is
  BY <1>1, <1>5 DEF Is, Report, UnityAssertFloatSpecial, UnityAssertDoubleSpecial, Special
<1>6. CASE Array
  <2>1. result' = WithinArray(call, call.delta)
    BY <1>6 DEF Array, Report, UnityAssertWithinFloatArray, UnityAssertWithinDoubleArray
  <2>2. ASSUME NEW c, NEW d
        PROVE  \/ WithinArray(c, d) = Pass
               \/ \E why, element : WithinArray(c, d) = Failed(why, element)
    <3> DEFINE bad == {i \in 1..c.count :
                         ~FloatWithin(ElementDelta(c.format, d, ExpectedAt(c, i)),
                                      ExpectedAt(c, i), c.actual[i])}
               first == CHOOSE i \in bad : \A k \in bad : i <= k
    <3>1. WithinArray(c, d) =
            CASE c.count = 0                  -> Failed("pointless", 0)
              [] c.count > 0 /\ isinf(d) -> Pass
              [] c.count > 0 /\ isnan(d) -> Failed("pointless", 0)
              [] OTHER ->
                   CASE c.alias -> Pass
                     [] ~c.alias /\ NULL \in {c.expected, c.actual} -> Failed("NULL", 0)
                     [] OTHER -> IF bad = {} THEN Pass ELSE Failed("values", first)
      BY DEF WithinArray
    <3> HIDE DEF bad, first
    <3>2. CASE c.count = 0 \/ (c.count > 0 /\ (isinf(d) \/ isnan(d)))
      BY <3>1, <3>2
    <3>3. CASE ~(c.count = 0 \/ (c.count > 0 /\ (isinf(d) \/ isnan(d))))
      BY <3>1, <3>3
    <3> QED BY <3>2, <3>3
  <2> QED BY <2>1, <2>2
<1> QED BY <1>2, <1>3, <1>4, <1>5, <1>6 DEF FloatsNext

(* A report is of the macro that was called.                               *)
LEMMA VerdictStep == VerdictInv /\ [AssertionsNext]_call_vars => VerdictInv'
<1> SUFFICES ASSUME VerdictInv, [AssertionsNext]_call_vars PROVE VerdictInv'
  OBVIOUS
<1>1. CASE UNCHANGED call_vars
  <2>1. UNCHANGED <<call, result>>
    BY <1>1 DEF call_vars
  <2>2. CallKinds'
    BY <2>1 DEF VerdictInv, CallKinds
  <2>3. Answered'
    BY <2>1 DEF VerdictInv, Answered, FloatReported, Reported, Supported, OnFloats, Scalar
  <2>4. Shows'
    BY <2>1 DEF VerdictInv, Shows
  <2> QED BY <2>2, <2>3, <2>4 DEF VerdictInv
<1>2. CASE AssertionsNext
  <2>1. UNCHANGED call
    BY <1>2 DEF AssertionsNext, AssertsNext, FloatsNext, Report, Equal, Compare, Within,
       TestBits, EqualArray, ArrayWithin, EqualString, EqualStringLen, EqualStringArray,
       EqualMemory, ExcludedFormat, EqualOrNot, CompareFloats, Is, Array
  <2>2. CallKinds'
    BY <2>1 DEF VerdictInv, CallKinds
  <2>12. Shows'
    <3>1. CASE AssertsNext
      BY <2>1, <3>1 DEF AssertsNext, Equal, Compare, Within, TestBits, EqualArray, ArrayWithin,
         EqualString, EqualStringLen, EqualStringArray, EqualMemory, Shows, ShowingMacros,
         ScalarMacros, TextMacros
    <3>2. CASE FloatsNext
      <4>1. \/ result' = Pass \/ \E why, element : result' = Failed(why, element)
        BY <3>2, FloatOutcomes
      <4>2. "shown" \notin DOMAIN result'
        BY <4>1 DEF Pass, Failed
      <4> QED BY <4>2 DEF Shows
    <3> QED BY <1>2, <3>1, <3>2 DEF AssertionsNext
  <2> DEFINE Here == Answered'
  <2> SUFFICES Here
    BY <2>2, <2>12 DEF VerdictInv
  <2> USE <2>1, OrderMacrosAre, ComparisonsAre
      DEF Answered, FloatReported, Reported, Supported, OnFloats, ArrayMacros
  <2>3. CASE Equal \/ Compare \/ Within
    BY <2>3 DEF Equal, Compare, Within, Report, Scalar
  <2>4. CASE TestBits \/ EqualMemory
    BY <2>4 DEF TestBits, EqualMemory, Report
  <2>5. CASE EqualArray \/ ArrayWithin
    BY <2>5 DEF EqualArray, ArrayWithin, Report
  <2>10. CASE EqualString \/ EqualStringLen \/ EqualStringArray
    BY <2>10 DEF EqualString, EqualStringLen, EqualStringArray, Report
  <2>11. CASE ExcludedFormat
    <3>1. "format" \in DOMAIN call /\ ~call.supported
      BY <2>11 DEF ExcludedFormat
    <3>2. call.macro \notin TextMacros
      BY <3>1 DEF VerdictInv, CallKinds, StringCalls, TextMacros
    <3>3. call.macro \notin ScalarMacros
      BY <3>1 DEF VerdictInv, CallKinds, ScalarCalls
    <3>4. call.macro # "WITHIN"
      BY <3>1 DEF VerdictInv, CallKinds, WithinCalls
    <3>9. call.macro # "BITS"
      BY <3>1 DEF VerdictInv, CallKinds, BitsCalls
    <3>5. call.macro \notin {"ARRAY_EQUAL", "ARRAY_WITHIN"}
      BY <3>1 DEF VerdictInv, CallKinds, ArrayCalls
    <3>6. call.macro # "EACH_EQUAL"
      BY <3>1 DEF VerdictInv, CallKinds, EachCalls
    <3>7. call.macro # "STRING_ARRAY"
      BY <3>1 DEF VerdictInv, CallKinds, StringArrayCalls
    <3>8. call.macro # "MEMORY"
      <4>1. \A n, length : \A c \in MemoryCalls(n, length) : "format" \notin DOMAIN c
        BY DEF MemoryCalls
      <4> QED BY <3>1, <4>1 DEF VerdictInv, CallKinds
    <3> QED BY <3>1, <3>2, <3>3, <3>4, <3>5, <3>6, <3>7, <3>8, <3>9
           DEF TextMacros, ScalarMacros
  <2>6. CASE EqualOrNot
    BY <2>6 DEF EqualOrNot, Report, UnityAssertFloatsWithin, UnityAssertDoublesWithin,
       UnityAssertFloatsNotWithin, UnityAssertDoublesNotWithin,
       UnityFloatsWithin, UnityDoublesWithin
  <2>7. CASE CompareFloats
    <3>1. call \in PairCalls
      BY <2>7 DEF CompareFloats, VerdictInv, CallKinds, OrderMacros
    <3>2. call.format \in {"float", "double"}
      BY <3>1 DEF PairCalls, Formats
    <3>3. call.macro \in OrderMacros
      BY <2>7 DEF CompareFloats, OrderMacros
    <3>4. result' = GreaterOrLess(call.format, call.expected, call.actual,
                                  FloatComparisons[call.macro])
      BY <2>7, <3>2 DEF CompareFloats, Report, IsFloat, UnityAssertGreaterOrLessFloat,
         UnityAssertGreaterOrLessDouble
    <3> QED BY <3>3, <3>4 DEF TextMacros
  <2>8. CASE Is
    BY <2>8 DEF Is, Report, UnityAssertFloatSpecial, UnityAssertDoubleSpecial
  <2>9. CASE Array
    BY <2>9 DEF Array, Report, UnityAssertWithinFloatArray, UnityAssertWithinDoubleArray
  <2> QED BY <1>2, <2>3, <2>4, <2>5, <2>6, <2>7, <2>8, <2>9, <2>10, <2>11
          DEF AssertionsNext, FloatsNext, AssertsNext
<1> QED BY <1>1, <1>2

LEMMA VerdictHolds == AssertionsSpec => []VerdictInv
BY KindsInit, VerdictStep, PTL DEF AssertionsSpec

-----------------------------------------------------------------------------
(* Strings.                                                                *)

(* A text cut at n characters.                                             *)
Cut(s, n) == SubSeq(s, 1, Min({n, Len(s)}))

Chars == Int \ {0}

LEMMA CutIs ==
  ASSUME NEW s \in Seq(Chars), NEW n \in Nat
  PROVE  LET l == IF n <= Len(s) THEN n ELSE Len(s)
         IN  /\ Cut(s, n) = SubSeq(s, 1, l) /\ l \in Nat /\ l <= Len(s)
             /\ Cut(s, n) \in Seq(Chars)
             /\ Len(Cut(s, n)) = l
             /\ \A i \in 1..l : Cut(s, n)[i] = s[i]
<1> DEFINE l == IF n <= Len(s) THEN n ELSE Len(s)
<1>1. Len(s) \in Nat /\ l \in Nat /\ l <= Len(s)
  OBVIOUS
<1>2. Cut(s, n) = SubSeq(s, 1, l)
  BY <1>1, LesserOfTwo DEF Cut
<1> HIDE DEF l
<1>3. /\ SubSeq(s, 1, l) \in Seq(Chars) /\ Len(SubSeq(s, 1, l)) = l
      /\ \A i \in 1..l : SubSeq(s, 1, l)[i] = s[i]
  BY <1>1
<1> QED BY <1>1, <1>2, <1>3 DEF l

LEMMA EqualSequences ==
  ASSUME NEW s \in Seq(Chars), NEW t \in Seq(Chars), Len(s) = Len(t),
         \A i \in 1..Len(s) : s[i] = t[i]
  PROVE  s = t
OBVIOUS

(* As many characters are equal, with the terminators, exactly when the    *)
(* texts cut there are.                                                    *)
LEMMA SameUpTo ==
  ASSUME NEW s \in Seq(Chars), NEW t \in Seq(Chars), NEW n \in Nat
  PROVE  (\A i \in 1..n : CharAt(s, i) = CharAt(t, i)) <=> Cut(s, n) = Cut(t, n)
<1> DEFINE l == IF n <= Len(s) THEN n ELSE Len(s)
           m == IF n <= Len(t) THEN n ELSE Len(t)
<1>1. /\ Cut(s, n) \in Seq(Chars) /\ Len(Cut(s, n)) = l
      /\ \A i \in 1..l : Cut(s, n)[i] = s[i]
  BY CutIs
<1>2. /\ Cut(t, n) \in Seq(Chars) /\ Len(Cut(t, n)) = m
      /\ \A i \in 1..m : Cut(t, n)[i] = t[i]
  BY CutIs
<1>3. Len(s) \in Nat /\ Len(t) \in Nat /\ l \in Nat /\ m \in Nat
  OBVIOUS
<1>4. (\A i \in 1..Len(s) : s[i] # 0) /\ (\A i \in 1..Len(t) : t[i] # 0)
  BY DEF Chars
<1>5. ASSUME \A i \in 1..n : CharAt(s, i) = CharAt(t, i)
      PROVE  Cut(s, n) = Cut(t, n)
  <2>1. l = m
    <3>1. ~(l < m)
      <4>1. SUFFICES ASSUME l < m PROVE FALSE
        OBVIOUS
      <4>2. l + 1 \in 1..n /\ l + 1 \in 1..Len(t) /\ ~(l + 1 <= Len(s))
        BY <4>1, <1>3
      <4> QED BY <4>2, <1>4, <1>5, <1>3 DEF CharAt
    <3>2. ~(m < l)
      <4>1. SUFFICES ASSUME m < l PROVE FALSE
        OBVIOUS
      <4>2. m + 1 \in 1..n /\ m + 1 \in 1..Len(s) /\ ~(m + 1 <= Len(t))
        BY <4>1, <1>3
      <4> QED BY <4>2, <1>4, <1>5, <1>3 DEF CharAt
    <3> QED BY <3>1, <3>2, <1>3
  <2>2. \A i \in 1..l : i \in 1..n /\ i <= Len(s) /\ i <= Len(t)
    BY <1>3, <2>1
  <2>3. \A i \in 1..l : s[i] = t[i]
    BY <2>2, <1>5 DEF CharAt
  <2> HIDE DEF l, m
  <2> QED BY <1>1, <1>2, <2>1, <2>3, EqualSequences
<1>6. ASSUME Cut(s, n) = Cut(t, n), NEW i \in 1..n
      PROVE  CharAt(s, i) = CharAt(t, i)
  <2>1. l = m
    BY <1>1, <1>2, <1>6
  <2>2. CASE i <= l
    <3>1. i <= Len(s) /\ i <= Len(t) /\ i \in 1..l /\ i \in 1..m
      BY <2>1, <2>2, <1>3
    <3> HIDE DEF l, m
    <3>2. s[i] = t[i]
      BY <3>1, <1>1, <1>2, <1>6
    <3> QED BY <3>1, <3>2 DEF CharAt
  <2>3. CASE ~(i <= l)
    BY <2>1, <2>3, <1>3 DEF CharAt
  <2> QED BY <2>2, <2>3
<1> QED BY <1>5, <1>6

(* Cut at a length that no text of the two passes, they are themselves.    *)
LEMMA UncutTexts ==
  ASSUME NEW s \in Seq(Chars), NEW n \in Nat, Len(s) <= n
  PROVE  Cut(s, n) = s
<1>1. Cut(s, n) = SubSeq(s, 1, Len(s))
  BY LesserOfTwo DEF Cut
<1> QED BY <1>1

LEMMA CharactersAre == Characters \subseteq Int
<1>1. 1 \in 1..IntBytes
  BY NumbersAssumption
<1>2. Half(1) \in Nat
  BY <1>1, ModulusIs
<1>3. -Half(1)..Half(1) - 1 \subseteq Int
  BY <1>2
<1> QED BY <1>3 DEF Characters, Half, Printable

LEMMA TextsAre ==
  ASSUME NEW s \in Texts, s # NULL
  PROVE  /\ s \in Seq(Chars) /\ Len(s) \in Nat
         /\ \A i \in 1..Len(s) : s[i] \in Characters /\ s[i] # 0
<1>1. s \in Seq(Characters \ {0})
  BY AssertsAssumption
<1>2. /\ Len(s) \in Nat /\ s = [i \in 1..Len(s) |-> s[i]]
      /\ \A i \in 1..Len(s) : s[i] \in Characters \ {0}
  BY <1>1
<1>3. \A i \in 1..Len(s) : s[i] \in Chars
  BY <1>2, CharactersAre DEF Chars
<1>4. s \in Seq(Chars)
  <2>1. [i \in 1..Len(s) |-> s[i]] \in [1..Len(s) -> Chars]
    BY <1>3
  <2>2. [1..Len(s) -> Chars] \subseteq Seq(Chars)
    BY <1>2
  <2> QED BY <1>2, <2>1, <2>2
<1> QED BY <1>2, <1>4

(* The loop of UnityAssertEqualStringLen finds what the texts, cut at the  *)
(* length, say.                                                            *)
LEMMA StringCompare ==
  ASSUME NEW e \in Texts, NEW a \in Texts, NEW n \in Nat
  PROVE  (UnityAssertEqualStringLen(e, a, n) = Pass) <=>
           IF e = NULL \/ a = NULL THEN e = a ELSE Cut(e, n) = Cut(a, n)
<1>1. ASSUME e # NULL, a # NULL
      PROVE  e \in Seq(Chars) /\ a \in Seq(Chars)
  BY <1>1, TextsAre
<1>2. SameString(e, a, n) <=> IF e = NULL \/ a = NULL THEN e = a ELSE Cut(e, n) = Cut(a, n)
  BY <1>1, SameUpTo DEF SameString
<1>3. Strings(0, e, a, n) # Pass
  BY DEF Strings, Fail, Pass
<1> QED BY <1>2, <1>3 DEF UnityAssertEqualStringLen

(* An answer that is given is that of a call that was made.                *)
LEMMA StringInv == VerdictInv => StringVerdict
<1> SUFFICES ASSUME VerdictInv, Reported({"STRING", "STRING_LEN"})
             PROVE  (result = Pass) =
                      (IF call.expected = NULL \/ call.actual = NULL
                       THEN call.expected = call.actual
                       ELSE Limit(call.expected) = Limit(call.actual))
  BY DEF StringVerdict
<1> DEFINE e == call.expected
           a == call.actual
<1>1. call \in StringCalls /\ call.macro \in {"STRING", "STRING_LEN"}
  BY DEF VerdictInv, CallKinds, Reported, TextMacros
<1>2. e \in Texts /\ a \in Texts
  BY <1>1 DEF StringCalls
<1>3. ASSUME e # NULL, a # NULL
      PROVE  e \in Seq(Chars) /\ a \in Seq(Chars)
  BY <1>2, <1>3, TextsAre
<1>4. CASE call.macro = "STRING_LEN"
  <2>1. call.length \in Nat
    BY <1>1, <1>4 DEF StringCalls
  <2>2. result = UnityAssertEqualStringLen(e, a, call.length)
    BY <1>4 DEF VerdictInv, Answered, Reported
  <2>3. Limit(e) = Cut(e, call.length) /\ Limit(a) = Cut(a, call.length)
    BY <1>4 DEF Limit, Cut
  <2>4. (result = Pass) <=> IF e = NULL \/ a = NULL THEN e = a
                            ELSE Cut(e, call.length) = Cut(a, call.length)
    BY <1>2, <2>1, <2>2, StringCompare
  <2> QED BY <2>3, <2>4
<1>5. CASE call.macro = "STRING"
  <2> DEFINE n == NoLimit(e, a)
  <2>1. /\ n \in Nat
        /\ e # NULL /\ a # NULL => Len(e) <= n /\ Len(a) <= n
    <3> DEFINE le == IF e = NULL THEN 0 ELSE Len(e)
                 la == IF a = NULL THEN 0 ELSE Len(a)
    <3>2. le \in Nat /\ la \in Nat
      BY <1>2, TextsAre
    <3>3. n = le + la
      BY DEF NoLimit
    <3> HIDE DEF le, la
    <3>4. le <= le + la /\ la <= le + la /\ le + la \in Nat
      BY <3>2
    <3> QED BY <3>3, <3>4 DEF le, la
  <2>2. result = UnityAssertEqualStringLen(e, a, n)
    BY <1>5 DEF VerdictInv, Answered, Reported, UnityAssertEqualString
  <2>3. Limit(e) = e /\ Limit(a) = a
    BY <1>5 DEF Limit
  <2> HIDE DEF n
  <2>4. (result = Pass) <=> IF e = NULL \/ a = NULL THEN e = a ELSE Cut(e, n) = Cut(a, n)
    BY <1>2, <2>1, <2>2, StringCompare
  <2>5. e # NULL /\ a # NULL => Cut(e, n) = e /\ Cut(a, n) = a
    BY <1>3, <2>1, UncutTexts
  <2> QED BY <2>3, <2>4, <2>5
<1> QED BY <1>1, <1>4, <1>5

(* Two strings are equal when their texts are, cut at the length if there  *)
(* is one, for any texts and any length: UnityAssertEqualString and        *)
(* UnityAssertEqualStringLen neither take a beginning for the whole nor    *)
(* read beyond a terminator.                                               *)
THEOREM StringVerdictHolds == AssertionsSpec => []StringVerdict
BY VerdictHolds, StringInv, PTL

-----------------------------------------------------------------------------
(* Floating-point numbers.                                                 *)

Floats == {Finite(n) : n \in Int} \cup Specials

(* A float by its class and its value.                                     *)
LEMMA FloatForm ==
  ASSUME NEW x \in Floats
  PROVE  /\ x = [class |-> x.class, value |-> x.value]
         /\ x.class \in {"finite", "inf", "nan"} /\ x.value \in Int
         /\ x.class = "inf" => x.value \in {1, -1}
         /\ x.class = "nan" => x.value = 0
BY DEF Floats, Specials, Finite, Infinity, NaN

LEMMA FloatsDiffer ==
  ASSUME NEW x \in Floats, NEW y \in Floats
  PROVE  x = y <=> x.class = y.class /\ x.value = y.value
BY FloatForm

LEMMA FiniteAreFloats ==
  /\ \A n \in Int : Finite(n) \in Floats
  /\ Specials \subseteq Floats
  /\ \A n \in Int : Finite(n).class = "finite" /\ Finite(n).value = n
  /\ NaN.class = "nan" /\ NaN.value = 0
  /\ \A s : Infinity(s).class = "inf" /\ Infinity(s).value = s
BY DEF Floats, Finite, NaN, Infinity

(* The floats of the calls are floats, and the finite ones are in range.   *)
LEMMA GivenFloats ==
  /\ \A x \in Expecteds \cup Givens \cup FloatDeltas :
       x \in Floats /\ (AsNumber(x) => x.value \in -MaxFinite..MaxFinite)
  /\ \A f \in Formats, x \in Expecteds : AsNumber(x) => x.value % Precision[f] = 0
<1>1. ASSUME NEW x \in Expecteds \cup Givens \cup FloatDeltas
      PROVE  x \in Floats /\ (AsNumber(x) => x.value \in -MaxFinite..MaxFinite)
  <2>1. CASE x \in Specials
    BY <2>1, FiniteAreFloats DEF AsNumber, Specials
  <2>2. CASE \E n \in References \cup Actuals \cup FiniteDeltas : x = Finite(n)
    <3>1. PICK n \in References \cup Actuals \cup FiniteDeltas : x = Finite(n)
      BY <2>2
    <3>2. "float" \in Formats
      BY DEF Formats
    <3>3. n \in -MaxFinite..MaxFinite /\ n \in Int
      BY <3>2, FloatsAssumption
    <3> QED BY <3>1, <3>3, FiniteAreFloats
  <2> QED BY <2>1, <2>2 DEF Expecteds, Givens, FloatDeltas
<1>2. ASSUME NEW f \in Formats, NEW x \in Expecteds, AsNumber(x)
      PROVE  x.value % Precision[f] = 0
  <2>1. x \notin Specials
    BY <1>2, FiniteAreFloats DEF AsNumber, Specials
  <2>2. PICK n \in References : x = Finite(n)
    BY <2>1 DEF Expecteds
  <2>3. n \in Int
    BY FloatsAssumption
  <2> QED BY <2>2, <2>3, FloatsAssumption, FiniteAreFloats
<1> QED BY <1>1, <1>2

(* The comparison of the machine, by class and value.                      *)
LEMMA LessIs ==
  ASSUME NEW x \in Floats, NEW y \in Floats
  PROVE  Less(x, y) <=>
           /\ x.class # "nan" /\ y.class # "nan"
           /\ \/ x.class = "inf" /\ x.value = -1 /\ ~(y.class = "inf" /\ y.value = -1)
              \/ y.class = "inf" /\ y.value = 1 /\ ~(x.class = "inf" /\ x.value = 1)
              \/ x.class = "finite" /\ y.class = "finite" /\ x.value < y.value
BY FloatForm DEF Less, isnan, isinf

LEMMA NegatedIs ==
  ASSUME NEW x \in Floats
  PROVE  /\ Negated(x) = [class |-> x.class, value |-> -x.value]
         /\ Negated(x) \in Floats
<1>1. Negated(x) = [class |-> x.class, value |-> -x.value]
  BY FloatForm DEF Negated
<1>2. [class |-> x.class, value |-> -x.value] \in Floats
  BY FloatForm DEF Floats, Specials, Finite, Infinity, NaN
<1> QED BY <1>1, <1>2

LEMMA AbsoluteIs ==
  ASSUME NEW x \in Floats
  PROVE  /\ Absolute(x) \in Floats /\ Absolute(x).class = x.class
         /\ Absolute(x).value = Size(x.value)
<1>1. Negative(x) <=> (x.class # "nan" /\ x.value < 0)
  BY LessIs, FloatForm, FiniteAreFloats DEF Negative
<1>2. Size(x.value) = (IF x.value < 0 THEN -x.value ELSE x.value)
  BY DEF Size
<1>3. CASE Negative(x)
  BY <1>1, <1>2, <1>3, NegatedIs DEF Absolute
<1>4. CASE ~Negative(x)
  BY <1>1, <1>2, <1>4, FloatForm DEF Absolute
<1> QED BY <1>3, <1>4

LEMMA RoundedIs ==
  ASSUME NEW n \in Int
  PROVE  /\ Rounded(n) \in Floats
         /\ Rounded(n).class # "nan"
         /\ Rounded(n).class = "finite" <=> Size(n) <= MaxFinite
         /\ Rounded(n).class = "finite" => Rounded(n).value = n
<1>1. MaxFinite \in Nat
  BY FloatsAssumption
<1>2. CASE n > MaxFinite
  BY <1>1, <1>2, FiniteAreFloats DEF Rounded, Size, Specials
<1>3. CASE n < -MaxFinite
  BY <1>1, <1>3, FiniteAreFloats DEF Rounded, Size, Specials
<1>4. CASE ~(n > MaxFinite) /\ ~(n < -MaxFinite)
  BY <1>1, <1>4, FiniteAreFloats DEF Rounded, Size, Specials
<1> QED BY <1>2, <1>3, <1>4

LEMMA PlusIs ==
  ASSUME NEW x \in Floats, NEW y \in Floats
  PROVE  /\ Plus(x, y) \in Floats
         /\ x.class = "nan" \/ y.class = "nan" => Plus(x, y) = NaN
         /\ x.class = "finite" /\ y.class = "finite" =>
              Plus(x, y) = Rounded(x.value + y.value)
         /\ x.class = "inf" /\ y.class = "finite" => Plus(x, y) = x
         /\ y.class = "inf" /\ x.class = "finite" => Plus(x, y) = y
         /\ x.class = "inf" /\ y.class = "inf" => Plus(x, y) = IF x = y THEN x ELSE NaN
<1> USE FloatForm
<1>1. x.class = "nan" \/ y.class = "nan" => Plus(x, y) = NaN
  BY DEF Plus, isnan
<1>2. x.class = "finite" /\ y.class = "finite" => Plus(x, y) = Rounded(x.value + y.value)
  BY DEF Plus, isnan, isinf
<1>3. x.class = "inf" /\ y.class = "finite" => Plus(x, y) = x
  BY DEF Plus, isnan, isinf
<1>4. y.class = "inf" /\ x.class = "finite" => Plus(x, y) = y
  BY DEF Plus, isnan, isinf
<1>5. x.class = "inf" /\ y.class = "inf" => Plus(x, y) = IF x = y THEN x ELSE NaN
  BY DEF Plus, isnan, isinf
<1>6. NaN \in Floats /\ (\A n \in Int : Rounded(n) \in Floats)
  BY RoundedIs, FiniteAreFloats DEF Specials
<1>7. Plus(x, y) \in Floats
  BY <1>1, <1>2, <1>3, <1>4, <1>5, <1>6
<1> QED BY <1>1, <1>2, <1>3, <1>4, <1>5, <1>7

(* UNITY_FLOAT_OR_DOUBLE_WITHIN says that two floats are close, whatever   *)
(* the sign of the delta and whatever is infinite or NaN.                  *)
LEMMA WithinIsClose ==
  ASSUME NEW delta \in Floats, NEW e \in Floats, NEW a \in Floats
  PROVE  FloatWithin(delta, e, a) <=> Close(delta, e, a)
<1> DEFINE diff == Absolute(Plus(a, Negated(e)))
           near == ~(isnan(diff) \/ isinf(diff) \/ Less(Absolute(delta), diff))
<1>1. FloatWithin(delta, e, a) <=>
        \/ isinf(e) /\ isinf(a) /\ Negative(e) = Negative(a)
        \/ isnan(e) /\ isnan(a)
        \/ near
  BY DEF FloatWithin
<1>2. Negated(e) = [class |-> e.class, value |-> -e.value] /\ Negated(e) \in Floats
  BY NegatedIs
<1>3. /\ Plus(a, Negated(e)) \in Floats
      /\ AsNumber(a) /\ AsNumber(e) => Plus(a, Negated(e)) = Rounded(a.value - e.value)
      /\ ~(AsNumber(a) /\ AsNumber(e)) => Plus(a, Negated(e)).class # "finite"
  <2> DEFINE m == Negated(e)
  <2>1. m \in Floats /\ m.class = e.class /\ m.value = -e.value
    BY <1>2
  <2> HIDE DEF m
  <2>2. /\ Plus(a, m) \in Floats
        /\ a.class = "nan" \/ m.class = "nan" => Plus(a, m) = NaN
        /\ a.class = "finite" /\ m.class = "finite" => Plus(a, m) = Rounded(a.value + m.value)
        /\ a.class = "inf" /\ m.class = "finite" => Plus(a, m) = a
        /\ m.class = "inf" /\ a.class = "finite" => Plus(a, m) = m
        /\ a.class = "inf" /\ m.class = "inf" => Plus(a, m) = IF a = m THEN a ELSE NaN
    BY <2>1, PlusIs
  <2>3. a.value + m.value = a.value - e.value
    BY <2>1, FloatForm
  <2>4. AsNumber(a) /\ AsNumber(e) => Plus(a, m) = Rounded(a.value - e.value)
    BY <2>1, <2>2, <2>3 DEF AsNumber
  <2>5. ASSUME ~(AsNumber(a) /\ AsNumber(e)) PROVE Plus(a, m).class # "finite"
    <3>1. a.class \in {"finite", "inf", "nan"} /\ m.class \in {"finite", "inf", "nan"}
      BY <2>1, FloatForm
    <3>2. ~(a.class = "finite" /\ m.class = "finite")
      BY <2>1, <2>5 DEF AsNumber
    <3> QED BY <2>2, <3>1, <3>2, FiniteAreFloats
  <2> QED BY <2>2, <2>4, <2>5 DEF m
<1>4. diff \in Floats /\ diff.class = Plus(a, Negated(e)).class
      /\ diff.value = Size(Plus(a, Negated(e)).value)
  BY <1>3, AbsoluteIs
<1>5. /\ Absolute(delta) \in Floats /\ Absolute(delta).class = delta.class
      /\ Absolute(delta).value = Size(delta.value)
  BY AbsoluteIs
<1> HIDE DEF diff
<1>6. near <=> /\ diff.class = "finite"
               /\ AsNumber(delta) => Size(diff.value) <= Size(delta.value)
  <2>1. diff.class = "finite" => diff.value >= 0
    BY <1>3, <1>4, FloatForm DEF Size
  <2>2. Less(Absolute(delta), diff) <=>
          /\ delta.class # "nan" /\ diff.class # "nan"
          /\ \/ delta.class = "inf" /\ Size(delta.value) = -1
                /\ ~(diff.class = "inf" /\ diff.value = -1)
             \/ diff.class = "inf" /\ diff.value = 1
                /\ ~(delta.class = "inf" /\ Size(delta.value) = 1)
             \/ delta.class = "finite" /\ diff.class = "finite"
                /\ Size(delta.value) < diff.value
    BY <1>4, <1>5, LessIs
  <2>3. Size(delta.value) \in Nat
    BY FloatForm DEF Size
  <2>4. diff.class = "finite" => Size(diff.value) = diff.value
    BY <2>1, <1>4, FloatForm DEF Size
  <2> QED BY <2>2, <2>3, <2>4, <1>4, FloatForm DEF isnan, isinf, AsNumber
<1>7. CASE AsNumber(e) /\ AsNumber(a)
  <2>1. Plus(a, Negated(e)) = Rounded(a.value - e.value) /\ a.value - e.value \in Int
    BY <1>3, <1>7, FloatForm
  <2>2. diff.class = "finite" <=> Size(a.value - e.value) <= MaxFinite
    BY <2>1, <1>4, RoundedIs
  <2>3. diff.class = "finite" => diff.value = Size(a.value - e.value)
    BY <2>1, <1>4, RoundedIs
  <2>4. Size(Size(a.value - e.value)) = Size(a.value - e.value)
    BY <2>1 DEF Size
  <2> QED BY <1>1, <1>6, <1>7, <2>2, <2>3, <2>4 DEF Close, Subtractable, AsNumber, isinf, isnan
<1>8. CASE ~(AsNumber(e) /\ AsNumber(a))
  <2>1. Close(delta, e, a) <=> e = a
    BY <1>8 DEF Close
  <2>2. ~near
    BY <1>3, <1>4, <1>6, <1>8
  <2>3. isinf(e) /\ isinf(a) => (Negative(e) = Negative(a) <=> e = a)
    <3>1. isinf(e) => (Negative(e) <=> e.value = -1)
      BY LessIs, FloatForm, FiniteAreFloats DEF Negative, isinf
    <3>2. isinf(a) => (Negative(a) <=> a.value = -1)
      BY LessIs, FloatForm, FiniteAreFloats DEF Negative, isinf
    <3>3. Negative(e) \in BOOLEAN /\ Negative(a) \in BOOLEAN
      BY DEF Negative, Less
    <3> QED BY <3>1, <3>2, <3>3, FloatForm, FloatsDiffer DEF isinf
  <2>4. isnan(e) /\ isnan(a) => e = a
    BY FloatForm, FloatsDiffer DEF isnan
  <2>5. e = a => (isinf(e) /\ isinf(a)) \/ (isnan(e) /\ isnan(a))
    BY <1>8, FloatForm DEF isinf, isnan, AsNumber
  <2> QED BY <1>1, <2>1, <2>2, <2>3, <2>4, <2>5
<1> QED BY <1>7, <1>8

LEMMA PassOrNot ==
  /\ \A h : h <=> PassIf(h) = Pass
  /\ \A why, element : Failed(why, element) # Pass
<1>1. \A why, element : Failed(why, element) # Pass
  BY DEF Failed, Pass
<1> QED BY <1>1 DEF PassIf

-----------------------------------------------------------------------------
(* Traits.                                                                 *)

LEMMA TraitInv == VerdictInv => OneTrait
<1> SUFFICES ASSUME VerdictInv, FloatReported({"FLOAT_IS"}), call.trait # "INVALID"
             PROVE  LET is(trait) == UnityAssertFloatSpecial(call.actual, trait, TRUE) = Pass
                    IN  /\ \E t \in Traits : is(t) /\ \A u \in Traits : is(u) => u = t
                        /\ (result = Pass) = (is(call.trait) = call.should)
  BY DEF OneTrait
<1> DEFINE x == call.actual
           is(trait) == UnityAssertFloatSpecial(x, trait, TRUE) = Pass
<1>1. /\ x \in Floats /\ call.trait \in Traits /\ call.should \in BOOLEAN
      /\ result = Special(x, call.trait, call.should)
  <2>1. call \in TraitCalls /\ result = Special(x, call.trait, call.should)
    BY DEF VerdictInv, CallKinds, Answered, FloatReported
  <2> QED BY <2>1, GivenFloats DEF TraitCalls
<1>2. \A t \in Traits : HasTrait(t, x) <=>
        \/ t = "INF" /\ x.class = "inf" /\ x.value = 1
        \/ t = "NEG_INF" /\ x.class = "inf" /\ x.value = -1
        \/ t = "NAN" /\ x.class = "nan"
        \/ t = "DET" /\ x.class = "finite"
  <2>1. Less(Finite(0), x) <=> \/ x.class = "inf" /\ x.value = 1
                               \/ x.class = "finite" /\ x.value > 0
    BY <1>1, LessIs, FloatForm, FiniteAreFloats
  <2>2. Negative(x) <=> \/ x.class = "inf" /\ x.value = -1
                        \/ x.class = "finite" /\ x.value < 0
    BY <1>1, LessIs, FloatForm, FiniteAreFloats DEF Negative
  <2> QED BY <1>1, <2>1, <2>2, FloatForm DEF HasTrait, Traits, isinf, isnan
<1>3. \A t \in Traits : HasTrait(t, x) \in BOOLEAN
  BY DEF HasTrait, Traits, isinf, isnan, Less, Negative
<1>4. \A t \in Traits : is(t) <=> HasTrait(t, x)
  BY <1>3, PassOrNot DEF UnityAssertFloatSpecial, Special, Traits
<1>5. (result = Pass) <=> (HasTrait(call.trait, x) = call.should)
  BY <1>1, PassOrNot DEF Special
<1>6. \E t \in Traits : is(t) /\ \A u \in Traits : is(u) => u = t
  <2>1. \E t \in Traits : HasTrait(t, x) /\ \A u \in Traits : HasTrait(u, x) => u = t
    BY <1>1, <1>2, FloatForm DEF Traits
  <2> QED BY <2>1, <1>4
<1>7. (result = Pass) = (is(call.trait) = call.should)
  BY <1>1, <1>3, <1>4, <1>5
<1> QED BY <1>6, <1>7

(* Every float has one of the four traits, and UnityAssertFloatSpecial and *)
(* UnityAssertDoubleSpecial tell which, asked either way.                  *)
THEOREM OneTraitHolds == AssertionsSpec => []OneTrait
BY VerdictHolds, TraitInv, PTL

-----------------------------------------------------------------------------
(* Tolerances.                                                             *)

LEMMA Scaling ==
  ASSUME NEW d \in Nat, NEW q \in Nat, NEW p \in Nat \ {0}
  PROVE  d * p <= q * p <=> d <= q
<1>1. ASSUME d <= q PROVE d * p <= q * p
  <2>1. q - d \in Nat /\ (q - d) * p \in Nat
    BY <1>1
  <2>2. q * p = d * p + (q - d) * p
    OBVIOUS
  <2> QED BY <2>1, <2>2
<1>2. ASSUME q < d PROVE q * p < d * p
  <2>1. d - q \in Nat \ {0} /\ (d - q) * p \in Nat \ {0}
    BY <1>2
  <2>2. d * p = q * p + (d - q) * p
    OBVIOUS
  <2> QED BY <2>1, <2>2
<1> QED BY <1>1, <1>2

(* A multiple of the precision is divided without a remainder, whatever    *)
(* its sign.                                                               *)
LEMMA ExactQuotient ==
  ASSUME NEW n \in Int, NEW p \in Nat \ {0}, n % p = 0
  PROVE  /\ n \div p \in Int /\ n = (n \div p) * p
         /\ Size(n) = Size(n \div p) * p
         /\ Size(n) \div p = Size(n \div p)
<1>1. n \div p \in Int /\ n = (n \div p) * p
  OBVIOUS
<1>2. PICK q \in Int : q = n \div p /\ n = q * p
  BY <1>1
<1>3. (q < 0 => n < 0) /\ (q >= 0 => n >= 0)
  BY <1>2
<1>4. Size(n) = Size(q) * p
  BY <1>2, <1>3 DEF Size
<1>5. (Size(q) * p) \div p = Size(q)
  <2>1. \A m \in Nat : (m * p) \div p = m
    OBVIOUS
  <2>2. Size(q) \in Nat
    BY DEF Size
  <2> QED BY <2>1, <2>2
<1> QED BY <1>1, <1>2, <1>4, <1>5

(* What the calls that compare two floats are given.                       *)
LEMMA PairFacts ==
  ASSUME VerdictInv, call.macro \in PairMacros \cup OrderMacros
  PROVE  /\ call.expected \in Expecteds /\ call.expected \in Floats
         /\ call.actual \in Floats /\ call.format \in Formats
         /\ Precision[call.format] \in Nat \ {0}
<1>1. call \in PairCalls
  BY DEF VerdictInv, CallKinds
<1>2. /\ call.expected \in Expecteds /\ call.actual \in Givens /\ call.format \in Formats
  BY <1>1 DEF PairCalls
<1> QED BY <1>2, GivenFloats, FloatsAssumption

(* The tolerance of a float: Close, multiplied out.                        *)
LEMMA ToleranceIs ==
  ASSUME NEW f \in Formats, NEW e \in Expecteds, NEW a \in Floats
  PROVE  /\ Tolerance(f, e) \in Floats
         /\ Close(Tolerance(f, e), e, a) <=>
              \/ e = a
              \/ /\ AsNumber(e) /\ AsNumber(a) /\ Subtractable(e, a)
                 /\ Size(a.value - e.value) * Precision[f] <= Size(e.value)
<1> DEFINE p == Precision[f]
           q == e.value \div p
<1>1. e \in Floats /\ p \in Nat \ {0} /\ MaxFinite \in Nat
  BY GivenFloats, FloatsAssumption
<1>2. CASE ~AsNumber(e)
  BY <1>1, <1>2 DEF Close, Tolerance, Scaled, AsNumber
<1>3. CASE AsNumber(e)
  <2>1. e.value % p = 0 /\ e.value \in Int
    BY <1>1, <1>3, GivenFloats, FloatForm
  <2>2. q \in Int /\ Size(e.value) = Size(q) * p
    BY <1>1, <2>1, ExactQuotient
  <2>3. Tolerance(f, e) = Finite(q)
    BY <1>3 DEF Tolerance, Scaled, AsNumber
  <2>4. Tolerance(f, e) \in Floats /\ AsNumber(Tolerance(f, e)) /\ Tolerance(f, e).value = q
    BY <2>2, <2>3, FiniteAreFloats DEF AsNumber
  <2>5. Size(q) \in Nat
    BY <2>2 DEF Size
  <2> HIDE DEF q, p
  <2>6. ASSUME AsNumber(a)
        PROVE  Size(a.value - e.value) <= Size(q) <=>
                 Size(a.value - e.value) * p <= Size(e.value)
    <3>1. a.value \in Int
      BY FloatForm
    <3>2. Size(a.value - e.value) \in Nat
      BY <3>1, <2>1 DEF Size
    <3> QED BY <1>1, <2>2, <2>5, <3>2, Scaling
  <2>7. ASSUME e = a
        PROVE  AsNumber(a) /\ Subtractable(e, a) /\ Size(a.value - e.value) <= Size(q)
    <3>1. a.value - e.value = 0
      BY <2>1, <2>7
    <3> QED BY <1>1, <1>3, <2>5, <2>7, <3>1 DEF Subtractable, Size
  <2>8. Close(Tolerance(f, e), e, a) <=>
          /\ AsNumber(a) /\ Subtractable(e, a) /\ Size(a.value - e.value) <= Size(q)
    BY <1>3, <2>4, <2>7 DEF Close
  <2> QED BY <1>3, <2>4, <2>6, <2>7, <2>8 DEF p
<1> QED BY <1>2, <1>3

LEMMA EqualInv == VerdictInv => EqualFloats
<1> SUFFICES ASSUME VerdictInv, FloatReported({"FLOAT_EQUAL", "FLOAT_NOT_EQUAL"})
             PROVE  EqualFloats
  BY DEF EqualFloats
<1> DEFINE e == call.expected
           a == call.actual
           equal == \/ e = a
                    \/ /\ AsNumber(e) /\ AsNumber(a) /\ Subtractable(e, a)
                       /\ Size(a.value - e.value) * Precision[call.format] <= Size(e.value)
           within == FloatWithin(Tolerance(call.format, e), e, a)
<1>1. call.macro \in {"FLOAT_EQUAL", "FLOAT_NOT_EQUAL"}
  BY DEF FloatReported
<1>2. e \in Expecteds /\ e \in Floats /\ a \in Floats /\ call.format \in Formats
  BY <1>1, PairFacts DEF PairMacros
<1>3. within <=> equal
  BY <1>2, ToleranceIs, WithinIsClose
<1>4. (result = Pass) <=> IF call.macro = "FLOAT_EQUAL" THEN within ELSE ~within
  <2>1. CASE call.macro = "FLOAT_EQUAL"
    <3>1. result = PassIf(within)
      BY <2>1 DEF VerdictInv, Answered, FloatReported
    <3> QED BY <2>1, <3>1, PassOrNot
  <2>2. CASE call.macro = "FLOAT_NOT_EQUAL"
    <3>1. result = PassIf(~within)
      BY <2>2 DEF VerdictInv, Answered, FloatReported
    <3> QED BY <2>2, <3>1, PassOrNot
  <2> QED BY <1>1, <2>1, <2>2
<1>5. (result = Pass) = (equal = (call.macro = "FLOAT_EQUAL"))
  BY <1>1, <1>3, <1>4
<1> QED BY <1>5 DEF EqualFloats

(* Two floats are equal when they differ by at most a part in Precision of *)
(* the expected one, are the same infinity or both NaN, and the assertion  *)
(* that they are not is the negation: no sign, infinity or overflow of     *)
(* UNITY_FLOAT_OR_DOUBLE_WITHIN makes either pass or fail.                 *)
THEOREM EqualFloatsHold == AssertionsSpec => []EqualFloats
BY VerdictHolds, EqualInv, PTL

-----------------------------------------------------------------------------
(* Order.                                                                  *)

(* Above and below, as OrderedFloats has them, are the machine's Less.     *)
LEMMA AboveIs ==
  ASSUME NEW e \in Floats, NEW a \in Floats
  PROVE  LET above == /\ ~isnan(e) /\ ~isnan(a) /\ e # a
                      /\ \/ a = Infinity(1) \/ e = Infinity(-1)
                         \/ AsNumber(e) /\ AsNumber(a) /\ a.value > e.value
         IN  /\ above <=> Less(e, a)
             /\ (~isnan(e) /\ ~isnan(a) /\ e # a /\ ~above) <=> Less(a, e)
<1>1. \A x \in Floats, s \in {1, -1} : x = Infinity(s) <=> x.class = "inf" /\ x.value = s
  BY FloatForm DEF Infinity
<1>2. e = a <=> e.class = a.class /\ e.value = a.value
  BY FloatsDiffer
<1> QED BY <1>1, <1>2, LessIs, FloatForm DEF isnan, AsNumber

LEMMA OrderInv == VerdictInv => OrderedFloats
<1> SUFFICES ASSUME VerdictInv, FloatReported(DOMAIN FloatComparisons)
             PROVE  OrderedFloats
  BY DEF OrderedFloats
<1> DEFINE e == call.expected
           a == call.actual
           above == /\ ~isnan(e) /\ ~isnan(a) /\ e # a
                    /\ \/ a = Infinity(1) \/ e = Infinity(-1)
                       \/ AsNumber(e) /\ AsNumber(a) /\ a.value > e.value
           below == ~isnan(e) /\ ~isnan(a) /\ e # a /\ ~above
           equal == UnityAssertFloatsWithin(Tolerance(call.format, e), e, a) = Pass
           compare == FloatComparisons[call.macro]
<1>1. call.macro \in OrderMacros
  BY DEF FloatReported, OrderMacros
<1>2. e \in Floats /\ a \in Floats
  BY <1>1, PairFacts
<1>3. (above <=> Less(e, a)) /\ (below <=> Less(a, e))
  BY <1>2, AboveIs
<1>4. equal <=> FloatWithin(Scaled(call.format, e), e, a)
  BY PassOrNot DEF UnityAssertFloatsWithin, UnityFloatsWithin, Tolerance
<1>5. (result = Pass) <=>
        \/ ~Misordered(e, a, compare)
        \/ "equal" \in compare /\ FloatWithin(Scaled(call.format, e), e, a)
  BY PassOrNot DEF VerdictInv, Answered, FloatReported, OrderMacros, GreaterOrLess
<1>6. compare = CASE call.macro = "FLOAT_GREATER_THAN"     -> {"greater"}
                  [] call.macro = "FLOAT_GREATER_OR_EQUAL" -> {"greater", "equal"}
                  [] call.macro = "FLOAT_LESS_THAN"        -> {"smaller"}
                  [] call.macro = "FLOAT_LESS_OR_EQUAL"    -> {"smaller", "equal"}
  BY <1>1, OrderMacrosAre DEF FloatComparisons
<1> HIDE DEF above, below, equal, compare
<1>7. (result = Pass) <=>
        CASE call.macro = "FLOAT_GREATER_THAN"     -> above
          [] call.macro = "FLOAT_GREATER_OR_EQUAL" -> above \/ equal
          [] call.macro = "FLOAT_LESS_THAN"        -> below
          [] call.macro = "FLOAT_LESS_OR_EQUAL"    -> below \/ equal
  <2>1. ("greater" \in compare <=> call.macro \in {"FLOAT_GREATER_THAN", "FLOAT_GREATER_OR_EQUAL"})
        /\ ("smaller" \in compare <=> call.macro \in {"FLOAT_LESS_THAN", "FLOAT_LESS_OR_EQUAL"})
        /\ (   "equal" \in compare
            <=> call.macro \in {"FLOAT_GREATER_OR_EQUAL", "FLOAT_LESS_OR_EQUAL"})
    BY <1>1, <1>6, OrderMacrosAre
  <2>2. ~Misordered(e, a, compare) <=>
          IF call.macro \in {"FLOAT_GREATER_THAN", "FLOAT_GREATER_OR_EQUAL"} THEN above ELSE below
    BY <1>1, <1>3, <2>1, OrderMacrosAre DEF Misordered
  <2> QED BY <1>1, <1>4, <1>5, <2>1, <2>2, OrderMacrosAre
<1>8. (result = Pass) =
        CASE call.macro = "FLOAT_GREATER_THAN"     -> above
          [] call.macro = "FLOAT_GREATER_OR_EQUAL" -> above \/ equal
          [] call.macro = "FLOAT_LESS_THAN"        -> below
          [] call.macro = "FLOAT_LESS_OR_EQUAL"    -> below \/ equal
  <2>1. above \in BOOLEAN /\ below \in BOOLEAN /\ equal \in BOOLEAN
    BY DEF above, below, equal
  <2> QED BY <1>1, <1>7, <2>1, OrderMacrosAre
<1> QED BY <1>8 DEF OrderedFloats, above, below, equal

(* The comparisons of floats pass on what lies on the side they name, the  *)
(* ones with OR_EQUAL also on what EQUAL passes on, and none of the strict *)
(* ones on NaN: UNITY_FLOAT_OR_DOUBLE comparisons test "not success".      *)
THEOREM OrderedFloatsHold == AssertionsSpec => []OrderedFloats
BY VerdictHolds, OrderInv, PTL

-----------------------------------------------------------------------------
(* Arrays.                                                                 *)

LEMMA ArrayFacts ==
  ASSUME VerdictInv, call.macro \in ArrayMacros,
         call.count > 0, NULL \notin {call.expected, call.actual}
  PROVE  /\ call.count \in Nat /\ call.format \in Formats
         /\ call.delta \in Floats
         /\ \A i \in 1..call.count :
              /\ call.actual[i] \in Expecteds /\ ExpectedAt(call, i) \in Expecteds
              /\ ExpectedAt(call, i) = call.expected[IF Len(call.expected) = 1 THEN 1 ELSE i]
<1>1. PICK n \in 0..MaxElements : call \in FloatArrayCalls(n) \cup FloatEachCalls(n)
  BY DEF VerdictInv, CallKinds
<1>2. n \in Nat
  BY <1>1, AssertsAssumption
<1>3. CASE call \in FloatArrayCalls(n)
  <2>1. /\ call.count = n /\ call.format \in Formats /\ call.delta \in FloatDeltas
        /\ call.flags = "ARRAY_TO_ARRAY"
        /\ call.expected \in FloatPointers(n) /\ call.actual \in FloatPointers(n)
    BY <1>3 DEF FloatArrayCalls
  <2>2. call.expected \in [1..n -> Expecteds] /\ call.actual \in [1..n -> Expecteds]
    BY <2>1 DEF FloatPointers
  <2>3. Len(call.expected) = n
    BY <1>2, <2>2
  <2> QED BY <1>2, <2>1, <2>2, <2>3, GivenFloats DEF ExpectedAt
<1>4. CASE call \in FloatEachCalls(n)
  <2>1. PICK f \in Formats, x \in Expecteds, a \in FloatPointers(n) :
          call = [macro |-> "FLOAT_ARRAY_EQUAL", format |-> f, supported |-> TRUE,
                  flags |-> "ARRAY_TO_VAL", count |-> n, alias |-> FALSE,
                  delta |-> Finite(0), expected |-> <<x>>, actual |-> a]
    BY <1>4 DEF FloatEachCalls
  <2>2. /\ call.count = n /\ call.format \in Formats /\ call.delta = Finite(0)
        /\ call.flags = "ARRAY_TO_VAL"
        /\ call.expected = <<x>> /\ call.actual \in FloatPointers(n)
    BY <2>1
  <2>3. call.actual \in [1..n -> Expecteds]
    BY <2>2 DEF FloatPointers
  <2>4. Len(call.expected) = 1
    BY <2>2
  <2> QED BY <1>2, <2>2, <2>3, <2>4, FiniteAreFloats DEF ExpectedAt
<1> QED BY <1>1, <1>3, <1>4

(* The delta of an element makes it as close as FloatArrayFirst asks.      *)
LEMMA ElementDeltaIs ==
  ASSUME NEW f \in Formats, NEW delta \in Floats, AsNumber(delta),
         NEW e \in Expecteds, NEW a \in Floats
  PROVE  /\ ElementDelta(f, delta, e) \in Floats
         /\ Close(ElementDelta(f, delta, e), e, a) <=>
              Close(Rounded(Size(delta.value) + Size(e.value) \div Precision[f]), e, a)
<1> DEFINE p == Precision[f]
           scaled == Scaled(f, e)
<1>1. e \in Floats /\ p \in Nat \ {0}
  BY GivenFloats, FloatsAssumption
<1>2. scaled \in Floats
  <2>1. AsNumber(e) => e.value \div p \in Int
    BY <1>1, FloatForm, GivenFloats, ExactQuotient
  <2> QED BY <1>1, <2>1, FiniteAreFloats DEF Scaled, AsNumber
<1>3. /\ Absolute(scaled) \in Floats /\ Absolute(scaled).class = scaled.class
      /\ Absolute(scaled).value = Size(scaled.value)
  BY <1>2, AbsoluteIs
<1>4. /\ Absolute(delta) \in Floats /\ Absolute(delta).class = "finite"
      /\ Absolute(delta).value = Size(delta.value)
  BY AbsoluteIs DEF AsNumber
<1>5. ElementDelta(f, delta, e) \in Floats
  BY <1>3, <1>4, PlusIs DEF ElementDelta
<1>6. CASE AsNumber(e)
  <2>1. e.value \in Int /\ Size(e.value) \div p = Size(e.value \div p)
    BY <1>1, <1>6, FloatForm, GivenFloats, ExactQuotient
  <2>2. e.value \div p \in Int
    BY <1>1, <1>6, FloatForm, GivenFloats, ExactQuotient
  <2>3. scaled.class = "finite" /\ scaled.value = e.value \div p
    BY <1>6, <2>2, FiniteAreFloats DEF Scaled, AsNumber
  <2>4. ElementDelta(f, delta, e) = Rounded(Size(delta.value) + Size(e.value \div p))
    BY <1>3, <1>4, <2>3, PlusIs DEF ElementDelta
  <2> QED BY <1>5, <2>1, <2>4
<1>7. CASE ~AsNumber(e)
  BY <1>5, <1>7 DEF Close
<1> QED BY <1>6, <1>7

LEMMA FloatArrayInv == VerdictInv => FloatArrayFirst
<1> SUFFICES ASSUME VerdictInv, FloatReported({"FLOAT_ARRAY_EQUAL", "FLOAT_ARRAY_WITHIN"}),
                    AsNumber(call.delta), call.count > 0, ~call.alias,
                    NULL \notin {call.expected, call.actual}
             PROVE  FloatArrayFirst
  BY DEF FloatArrayFirst
<1> DEFINE n == call.count
           want(i) == call.expected[IF Len(call.expected) = 1 THEN 1 ELSE i]
           good(i) ==
             Close(Rounded(Size(call.delta.value)
                           + Size(want(i).value) \div Precision[call.format]),
                   want(i), call.actual[i])
           bad == {i \in 1..n : ~FloatWithin(ElementDelta(call.format, call.delta,
                                               ExpectedAt(call, i)),
                                             ExpectedAt(call, i), call.actual[i])}
<1>1. call.macro \in ArrayMacros
  BY DEF FloatReported, ArrayMacros
<1>2. n \in Nat /\ call.format \in Formats /\ call.delta \in Floats
  BY <1>1, ArrayFacts
<1>3. \A i \in 1..n : i \in bad <=> ~good(i)
  <2>1. SUFFICES ASSUME NEW i \in 1..n PROVE i \in bad <=> ~good(i)
    OBVIOUS
  <2>2. /\ call.actual[i] \in Expecteds /\ ExpectedAt(call, i) \in Expecteds
        /\ want(i) = ExpectedAt(call, i)
    BY <1>1, ArrayFacts
  <2>3. call.actual[i] \in Floats /\ ExpectedAt(call, i) \in Floats
    BY <2>2, GivenFloats
  <2> QED BY <1>2, <2>2, <2>3, ElementDeltaIs, WithinIsClose
<1>4. result = IF bad = {} THEN Pass
               ELSE Failed("values", CHOOSE i \in bad : \A k \in bad : i <= k)
  <2>1. result = WithinArray(call, call.delta)
    BY <1>1 DEF VerdictInv, Answered, FloatReported
  <2>2. ~isinf(call.delta) /\ ~isnan(call.delta) /\ n # 0
    BY DEF AsNumber, isinf, isnan
  <2> HIDE DEF good
  <2> QED BY <2>1, <2>2 DEF WithinArray
<1> HIDE DEF bad, good
<1>5. CASE bad = {}
  BY <1>3, <1>4, <1>5, PassOrNot DEF FloatArrayFirst, good
<1>6. CASE bad # {}
  <2> DEFINE first == CHOOSE i \in bad : \A k \in bad : i <= k
  <2>1. bad \in SUBSET Nat /\ bad \subseteq 1..n
    BY <1>2 DEF bad
  <2>2. first \in bad /\ \A k \in bad : first <= k
    BY <1>6, <2>1, LeastNat
  <2>3. result # Pass /\ result.element = first
    BY <1>4, <1>6, PassOrNot DEF Failed
  <2> HIDE DEF first
  <2>4. ~good(first) /\ \A i \in 1..first - 1 : good(i)
    <3>1. first \in 1..n /\ ~good(first)
      BY <1>3, <2>1, <2>2
    <3>2. \A i \in 1..first - 1 : i \in 1..n /\ i \notin bad
      BY <1>2, <2>1, <2>2, <3>1
    <3> QED BY <1>3, <3>1, <3>2
  <2> QED BY <2>3, <2>4 DEF FloatArrayFirst, good
<1> QED BY <1>5, <1>6

(* An array of floats passes when every element is as close as the delta   *)
(* and its own tolerance allow, and reports the first that is not, for any *)
(* number of elements: UnityAssertWithinFloatArray and -DoubleArray take   *)
(* both by size, so that no sign narrows what they allow.                  *)
THEOREM FloatArrayFirstHolds == AssertionsSpec => []FloatArrayFirst
BY VerdictHolds, FloatArrayInv, PTL

-----------------------------------------------------------------------------
(* Scalars.                                                                *)

LEMMA TypesAre ==
  ASSUME NEW t \in Types
  PROVE  /\ t.size \in 1..IntBytes /\ t.narrow \in 1..IntBytes /\ t.size <= t.narrow
         /\ t.range \in {"INT", "UINT", "HEX", "CHAR"}
         /\ t.range = "HEX" => t.size = t.narrow
         /\ IntBytes \in 1..IntBytes /\ t.narrow <= IntBytes
<1>1. /\ IntBytes \in 1..IntBytes /\ 1 \in 1..IntBytes
      /\ IntWidth \in 1..IntBytes /\ IntWidth <= IntBytes
  BY NumbersAssumption
<1>2. /\ t.size \in 1..IntBytes /\ t.narrow \in 1..IntBytes /\ t.size <= t.narrow
      /\ t.range \in {"INT", "UINT", "HEX", "CHAR"}
      /\ t.range = "HEX" => t.size = t.narrow
  <2>1. CASE t \in {Type(r, s, s) : r \in {"INT", "UINT", "HEX"}, s \in Sizes}
    <3>1. PICK r \in {"INT", "UINT", "HEX"}, s \in Sizes : t = Type(r, s, s)
      BY <2>1
    <3>2. s \in 1..IntBytes
      BY DEF Sizes
    <3> QED BY <3>1, <3>2 DEF Type
  <2>2. CASE t \in {Type(r, IntWidth, IntBytes) : r \in {"INT", "UINT"}}
    BY <1>1, <2>2 DEF Type
  <2>3. CASE t = Type("CHAR", 1, 1)
    BY <1>1, <2>3 DEF Type
  <2> QED BY <2>1, <2>2, <2>3 DEF Types
<1> QED BY <1>1, <1>2

LEMMA TypedIs ==
  ASSUME NEW t \in Types, NEW x \in Int
  PROVE  /\ Typed(t, x) \in Int
         /\ SignedStyle(t) => Typed(t, x) = ToSigned(x, t.narrow)
         /\ ~SignedStyle(t) => Typed(t, x) = ToUnsigned(x, t.narrow)
         /\ ~SignedStyle(t) => Typed(t, x) \in 0..Modulus(IntBytes) - 1
<1>1. /\ t.narrow \in 1..IntBytes /\ IntBytes \in 1..IntBytes /\ t.narrow <= IntBytes
  BY TypesAre
<1>2. /\ Modulus(t.narrow) <= Modulus(IntBytes)
      /\ Modulus(t.narrow) \in Nat /\ Modulus(IntBytes) \in Nat
  BY <1>1, ModulusIs
<1>3. ToUnsigned(x, t.narrow) \in 0..Modulus(t.narrow) - 1 /\ ToUnsigned(x, t.narrow) \in Nat
  BY <1>1, UnsignedIs
<1>4. ToSigned(x, t.narrow) \in Int
  BY <1>1, SignedIs
<1>5. ToUnsigned(x, t.narrow) \in 0..Modulus(IntBytes) - 1
  BY <1>2, <1>3
<1> QED BY <1>3, <1>4, <1>5 DEF Typed

(* What a macro casts its argument to is the value in its type, through    *)
(* UNITY_INT; for the equality of HEX styles, the signed reading of it.    *)
LEMMA NarrowIs ==
  ASSUME NEW t \in Types, NEW x \in Int, NEW macro
  PROVE  /\ Narrow(macro, t, x) \in Int
         /\ ~(t.range = "HEX" /\ macro = "EQUAL") => Ordered(t, Narrow(macro, t, x)) = Typed(t, x)
         /\ \A y \in Int : Narrow(macro, t, x) = Narrow(macro, t, y) <=> Typed(t, x) = Typed(t, y)
<1>1. t.narrow \in 1..IntBytes /\ IntBytes \in 1..IntBytes
  BY TypesAre
<1>2. ASSUME NEW z \in Int
      PROVE  /\ Narrow(macro, t, z) \in Int
             /\ ~SignedStyle(t) /\ ~(t.range = "HEX" /\ macro = "EQUAL") =>
                  Narrow(macro, t, z) = ToSigned(Typed(t, z), IntBytes)
             /\ SignedStyle(t) \/ (t.range = "HEX" /\ macro = "EQUAL") =>
                  Narrow(macro, t, z) = ToSigned(z, t.narrow)
  <2>1. ToUnsigned(z, t.narrow) \in Int
    <3>1. ToUnsigned(z, t.narrow) \in Nat
      BY <1>1, UnsignedIs
    <3> QED BY <3>1
  <2>2. ToSigned(z, t.narrow) \in Int /\ ToSigned(ToUnsigned(z, t.narrow), IntBytes) \in Int
    BY <1>1, <2>1, SignedIs
  <2> QED BY <2>1, <2>2 DEF Narrow, Reinterpreted, Typed
<1>3. CASE SignedStyle(t)
  BY <1>2, <1>3, TypedIs DEF Ordered
<1>4. CASE ~SignedStyle(t) /\ ~(t.range = "HEX" /\ macro = "EQUAL")
  <2>1. ASSUME NEW z \in Int
        PROVE  ToUnsigned(ToSigned(Typed(t, z), IntBytes), IntBytes) = Typed(t, z)
    <3>1. Typed(t, z) \in Int /\ Typed(t, z) \in 0..Modulus(IntBytes) - 1
      BY <1>4, TypedIs
    <3>2. ToUnsigned(Typed(t, z), IntBytes) = Typed(t, z)
      BY <1>1, <3>1, UnsignedIs
    <3> QED BY <1>1, <3>1, <3>2, SignedRead
  <2>2. ASSUME NEW z \in Int
        PROVE  ToUnsigned(Narrow(macro, t, z), IntBytes) = Typed(t, z)
    BY <1>2, <1>4, <2>1
  <2>3. \A y \in Int : Narrow(macro, t, x) = Narrow(macro, t, y) <=> Typed(t, x) = Typed(t, y)
    BY <1>2, <1>4, <2>2
  <2> QED BY <1>2, <1>4, <2>2, <2>3 DEF Ordered
<1>5. CASE ~SignedStyle(t) /\ t.range = "HEX" /\ macro = "EQUAL"
  <2>1. ASSUME NEW y \in Int
        PROVE  Narrow(macro, t, x) = Narrow(macro, t, y) <=> Typed(t, x) = Typed(t, y)
    <3>1. ToSigned(x, t.narrow) = ToSigned(y, t.narrow)
            <=> ToUnsigned(x, t.narrow) = ToUnsigned(y, t.narrow)
      BY <1>1, SignedRead
    <3> QED BY <1>2, <1>5, <3>1, TypedIs
  <2> QED BY <1>2, <1>5, <2>1
<1> QED BY <1>3, <1>4, <1>5

(* The UNITY_UINT distance of two UNITY_INTs is that of the values they    *)
(* stand for: the difference never wraps.                                  *)
LEMMA DistanceIs ==
  ASSUME NEW t \in Types, NEW m \in UNITY_INT, NEW n \in UNITY_INT
  PROVE  /\ Distance(t, m, n) = Size(Ordered(t, m) - Ordered(t, n))
         /\ Ordered(t, m) \in Int /\ Ordered(t, n) \in Int
<1> DEFINE M == Modulus(IntBytes)
           a == Ordered(t, m)
           b == Ordered(t, n)
<1>1. /\ IntBytes \in 1..IntBytes /\ M \in Nat \ {0} /\ Half(IntBytes) \in Nat \ {0}
      /\ M = 2 * Half(IntBytes)
  BY TypesAre, ModulusIs
<1>2. m \in -Half(IntBytes)..Half(IntBytes) - 1 /\ n \in -Half(IntBytes)..Half(IntBytes) - 1
      /\ m \in Int /\ n \in Int
  BY DEF UNITY_INT, Half
<1>3. /\ a \in Int /\ b \in Int /\ a - b \in -(M - 1)..M - 1
      /\ \E k \in Int : a = m + k * M
      /\ \E k \in Int : b = n + k * M
  <2>1. CASE SignedStyle(t)
    <3>1. a = m /\ b = n
      BY <2>1 DEF Ordered
    <3>2. m = m + 0 * M /\ n = n + 0 * M
      BY <1>1, <1>2
    <3> QED BY <1>1, <1>2, <3>1, <3>2
  <2>2. CASE ~SignedStyle(t)
    <3>1. a = ToUnsigned(m, IntBytes) /\ b = ToUnsigned(n, IntBytes)
      BY <2>2 DEF Ordered
    <3>2. a \in 0..M - 1 /\ b \in 0..M - 1
      BY <1>1, <1>2, <3>1, UnsignedIs
    <3>3. PICK p \in Int, q \in Int : m = p * M + a /\ n = q * M + b
      BY <1>1, <1>2, <3>1, UnsignedIs
    <3>4. a = m + (-p) * M /\ b = n + (-q) * M /\ -p \in Int /\ -q \in Int
      BY <1>1, <3>2, <3>3
    <3> QED BY <1>1, <3>2, <3>4
  <2> QED BY <2>1, <2>2
<1> HIDE DEF a, b, M
<1>4. PICK j \in Int, k \in Int : a = m + j * M /\ b = n + k * M
  BY <1>3
<1>5. CASE a > b
  <2>1. m - n = (a - b) + (k - j) * M /\ a - b \in 0..M - 1 /\ k - j \in Int /\ a - b \in Int
    BY <1>1, <1>2, <1>3, <1>4, <1>5
  <2>2. ToUnsigned(m - n, IntBytes) = a - b
    BY <1>1, <2>1, UnsignedIs DEF M
  <2> QED BY <1>3, <1>5, <2>2 DEF Distance, Size, a, b
<1>6. CASE ~(a > b)
  <2>1. b - a \in 0..M - 1 /\ j - k \in Int /\ b - a \in Int
    BY <1>1, <1>3, <1>6
  <2>4. n - m = (b - a) + (j - k) * M
    <3>1. j * M \in Int /\ k * M \in Int /\ (j - k) * M = j * M - k * M
      BY <1>1
    <3> QED BY <1>2, <1>3, <1>4, <3>1
  <2>2. ToUnsigned(n - m, IntBytes) = b - a
    BY <1>1, <2>1, <2>4, UnsignedIs DEF M
  <2>3. Size(a - b) = b - a
    BY <1>3, <1>6 DEF Size
  <2> QED BY <1>3, <1>6, <2>2, <2>3 DEF Distance, a, b
<1> QED BY <1>5, <1>6

LEMMA SignedFits ==
  ASSUME NEW x \in Int, NEW b \in 1..IntBytes
  PROVE  ToSigned(x, b) \in UNITY_INT
<1>1. IntBytes \in 1..IntBytes /\ b <= IntBytes
  BY NumbersAssumption
<1>2. /\ Half(b) \in Nat /\ Half(IntBytes) \in Nat /\ Half(b) <= Half(IntBytes)
  <2>1. /\ Modulus(b) <= Modulus(IntBytes)
        /\ Modulus(b) = 2 * Half(b) /\ Modulus(IntBytes) = 2 * Half(IntBytes)
        /\ Half(b) \in Nat /\ Half(IntBytes) \in Nat
    BY <1>1, ModulusIs
  <2> QED BY <2>1
<1>3. UNITY_INT = -Half(IntBytes)..Half(IntBytes) - 1
  BY DEF UNITY_INT, Half
<1>4. ToSigned(x, b) \in -Half(b)..Half(b) - 1
  BY SignedIs
<1> QED BY <1>2, <1>3, <1>4

LEMMA NarrowFits ==
  ASSUME NEW t \in Types, NEW x \in Int, NEW macro
  PROVE  Narrow(macro, t, x) \in UNITY_INT
<1>1. t.narrow \in 1..IntBytes /\ IntBytes \in 1..IntBytes
  BY TypesAre
<1>2. ToUnsigned(x, t.narrow) \in Int
  <2>1. ToUnsigned(x, t.narrow) \in Nat
    BY <1>1, UnsignedIs
  <2> QED BY <2>1
<1>3. ToSigned(x, t.narrow) \in UNITY_INT
  BY <1>1, SignedFits
<1>4. ToSigned(ToUnsigned(x, t.narrow), IntBytes) \in UNITY_INT
  BY <1>1, <1>2, SignedFits
<1> QED BY <1>3, <1>4 DEF Narrow, Reinterpreted

LEMMA Verdicts ==
  /\ \A why, element, expected, was : Fail(why, element, expected, was) # Pass
  /\ Pointless # Pass
BY DEF Fail, Pointless, Pass

(* The scalar assertions on what their macros pass them.                   *)
LEMMA EqualIs ==
  ASSUME NEW t \in Types, NEW x \in Int, NEW y \in Int
  PROVE  UnityAssertEqualNumber(Narrow("EQUAL", t, x), Narrow("EQUAL", t, y), t) = Pass
           <=> Typed(t, x) = Typed(t, y)
BY NarrowIs, Verdicts DEF UnityAssertEqualNumber

LEMMA CompareIs ==
  ASSUME NEW t \in Types, NEW x \in Int, NEW y \in Int, NEW macro \in DOMAIN Comparisons
  PROVE  LET e == Typed(t, x)  a == Typed(t, y)
         IN  UnityAssertGreaterOrLessOrEqualNumber(
               Narrow(macro, t, x), Narrow(macro, t, y), Comparisons[macro], t) = Pass
             <=> /\ a = e => macro \in {"GREATER_OR_EQUAL", "SMALLER_OR_EQUAL"}
                 /\ a > e => macro \in {"NOT_EQUAL", "GREATER_THAN", "GREATER_OR_EQUAL"}
                 /\ a < e => macro \in {"NOT_EQUAL", "SMALLER_THAN", "SMALLER_OR_EQUAL"}
<1>1. macro \in {"NOT_EQUAL", "GREATER_THAN", "GREATER_OR_EQUAL",
                   "SMALLER_THAN", "SMALLER_OR_EQUAL"}
  BY ComparisonsAre
<1>2. /\ Ordered(t, Narrow(macro, t, x)) = Typed(t, x)
      /\ Ordered(t, Narrow(macro, t, y)) = Typed(t, y)
  BY <1>1, NarrowIs
<1>3. /\ "equal" \in Comparisons[macro] <=> macro \in {"GREATER_OR_EQUAL", "SMALLER_OR_EQUAL"}
      /\ "greater" \in Comparisons[macro] <=> macro \in {"GREATER_THAN", "GREATER_OR_EQUAL"}
      /\ "smaller" \in Comparisons[macro] <=> macro \in {"SMALLER_THAN", "SMALLER_OR_EQUAL"}
  BY <1>1 DEF Comparisons
<1> QED BY <1>1, <1>2, <1>3, Verdicts DEF UnityAssertGreaterOrLessOrEqualNumber

LEMMA WithinIs ==
  ASSUME NEW t \in Types, NEW x \in Int, NEW y \in Int, NEW d \in Nat
  PROVE  UnityAssertNumbersWithin(d, Narrow("WITHIN", t, x), Narrow("WITHIN", t, y), t) = Pass
           <=> Typed(t, x) - d <= Typed(t, y) /\ Typed(t, y) <= Typed(t, x) + d
<1> DEFINE e == Typed(t, x)
           a == Typed(t, y)
<1>1. /\ Ordered(t, Narrow("WITHIN", t, x)) = e /\ Ordered(t, Narrow("WITHIN", t, y)) = a
      /\ e \in Int /\ a \in Int
  BY NarrowIs, TypedIs
<1>2. Distance(t, Narrow("WITHIN", t, y), Narrow("WITHIN", t, x)) = Size(a - e)
  BY <1>1, NarrowFits, DistanceIs
<1> HIDE DEF e, a
<1>3. Size(a - e) <= d <=> e - d <= a /\ a <= e + d
  BY <1>1 DEF Size
<1> QED BY <1>2, <1>3, Verdicts DEF UnityAssertNumbersWithin, e, a

LEMMA ScalarInv == VerdictInv => ScalarVerdict
<1> SUFFICES ASSUME VerdictInv, Reported({"EQUAL", "WITHIN"} \cup DOMAIN Comparisons)
             PROVE  ScalarVerdict
  BY DEF ScalarVerdict
<1> DEFINE t == call.type
           e == Typed(t, call.expected)
           a == Typed(t, call.actual)
           d == ToUnsigned(call.delta, t.narrow)
           holds == CASE call.macro = "EQUAL"            -> a = e
                      [] call.macro = "NOT_EQUAL"        -> a # e
                      [] call.macro = "GREATER_THAN"     -> a > e
                      [] call.macro = "GREATER_OR_EQUAL" -> a >= e
                      [] call.macro = "SMALLER_THAN"     -> a < e
                      [] call.macro = "SMALLER_OR_EQUAL" -> a <= e
                      [] call.macro = "WITHIN"           -> e - d <= a /\ a <= e + d
<1>1. call.macro \in ScalarMacros \cup {"WITHIN"}
  BY DEF Reported, ScalarMacros
<1>2. t \in Types /\ call.expected \in Int /\ call.actual \in Int
  <2>1. Values \subseteq Int
    BY AssertsAssumption DEF UNITY_INT
  <2>2. CASE call.macro \in ScalarMacros
    BY <2>1, <2>2 DEF VerdictInv, CallKinds, ScalarCalls
  <2>3. CASE call.macro = "WITHIN"
    BY <2>1, <2>3 DEF VerdictInv, CallKinds, WithinCalls
  <2> QED BY <1>1, <2>2, <2>3
<1>3. e \in Int /\ a \in Int
  BY <1>2, TypedIs
<1>4. (result = Pass) = holds
  <2>1. CASE call.macro = "EQUAL"
    <3>1. result = UnityAssertEqualNumber(Narrow("EQUAL", t, call.expected),
                                          Narrow("EQUAL", t, call.actual), t)
      BY <2>1 DEF VerdictInv, Answered, Reported, Scalar
    <3>2. (result = Pass) <=> e = a
      BY <1>2, <3>1, EqualIs
    <3> HIDE DEF e, a
    <3> QED BY <2>1, <3>2
  <2>2. CASE call.macro = "WITHIN"
    <3>1. result = UnityAssertNumbersWithin(d, Narrow("WITHIN", t, call.expected),
                                            Narrow("WITHIN", t, call.actual), t)
      BY <2>2 DEF VerdictInv, Answered, Reported, Scalar
    <3>2. d \in Nat
      <4>1. call.delta \in Int
        <5>1. Deltas \subseteq Int
          BY AssertsAssumption
        <5>2. call \in WithinCalls
          BY <2>2 DEF VerdictInv, CallKinds
        <5> QED BY <5>1, <5>2 DEF WithinCalls
      <4> QED BY <1>2, <4>1, TypesAre, UnsignedIs
    <3> HIDE DEF d
    <3>3. (result = Pass) <=> e - d <= a /\ a <= e + d
      BY <1>2, <3>1, <3>2, WithinIs
    <3> HIDE DEF e, a
    <3> QED BY <2>2, <3>3
  <2>3. CASE call.macro \in DOMAIN Comparisons
    <3>1. result = UnityAssertGreaterOrLessOrEqualNumber(
                     Narrow(call.macro, t, call.expected), Narrow(call.macro, t, call.actual),
                     Comparisons[call.macro], t)
      BY <2>3 DEF VerdictInv, Answered, Reported, Scalar
    <3>2. (result = Pass) <=>
            /\ a = e => call.macro \in {"GREATER_OR_EQUAL", "SMALLER_OR_EQUAL"}
            /\ a > e => call.macro \in {"NOT_EQUAL", "GREATER_THAN", "GREATER_OR_EQUAL"}
            /\ a < e => call.macro \in {"NOT_EQUAL", "SMALLER_THAN", "SMALLER_OR_EQUAL"}
      BY <1>2, <2>3, <3>1, CompareIs
    <3>3. call.macro \in {"NOT_EQUAL", "GREATER_THAN", "GREATER_OR_EQUAL",
                          "SMALLER_THAN", "SMALLER_OR_EQUAL"}
      BY <2>3, ComparisonsAre
    <3> HIDE DEF e, a, d
    <3> QED BY <1>3, <3>2, <3>3
  <2> QED BY <1>1, <2>1, <2>2, <2>3 DEF ScalarMacros
<1> QED BY <1>4 DEF ScalarVerdict

(* A scalar assertion passes exactly when its relation holds between the   *)
(* values of the type it names, for every width of the types: neither the  *)
(* casts of the macros, which go through narrower and signed types, nor    *)
(* the difference in UNITY_UINT loses anything.                            *)
THEOREM ScalarVerdictHolds == AssertionsSpec => []ScalarVerdict
BY VerdictHolds, ScalarInv, PTL

-----------------------------------------------------------------------------
(* Arrays of integers and of strings.                                      *)

(* The value of a cell in the type of the elements.                        *)
Value(t, u) == IF SignedStyle(t) THEN ToSigned(u, t.size) ELSE ToUnsigned(u, t.size)

(* What a scalar macro of the type makes of it.                            *)
Passed(macro, t, u) == Narrow(macro, t, Reinterpreted(Value(t, u)))

CellsOf(t) == 0..Modulus(t.size) - 1

LEMMA CellsAre ==
  ASSUME NEW t \in Types
  PROVE  /\ Cells(t.size) \subseteq CellsOf(t) /\ CellsOf(t) \subseteq Int
         /\ Modulus(t.size) \in Nat \ {0}
<1>1. t.size \in 1..IntBytes
  BY TypesAre
<1>2. Cells(t.size) \subseteq 0..2^Bits(t.size) - 1
  BY <1>1, AssertsAssumption
<1> QED BY <1>1, <1>2, ModulusIs DEF CellsOf, Modulus

(* A cell read as an element is what the scalar macro makes of its value,  *)
(* except that HEX styles are compared by their signed reading.            *)
LEMMA PassedIs ==
  ASSUME NEW t \in Types, NEW u \in CellsOf(t), NEW macro
  PROVE  /\ ~(t.range = "HEX" /\ macro = "EQUAL") => Passed(macro, t, u) = Load(t, u)
         /\ t.range = "HEX" /\ macro = "EQUAL" =>
              /\ Passed(macro, t, u) = ToSigned(u, t.size)
              /\ Load(t, u) = ToSigned(u, IntBytes)
<1>1. /\ t.size \in 1..IntBytes /\ t.narrow \in 1..IntBytes /\ IntBytes \in 1..IntBytes
      /\ t.size <= t.narrow /\ t.narrow <= IntBytes /\ t.size <= IntBytes
  <2>1. /\ t.size \in 1..IntBytes /\ t.narrow \in 1..IntBytes /\ IntBytes \in 1..IntBytes
        /\ t.size <= t.narrow /\ t.narrow <= IntBytes
    BY TypesAre
  <2> QED BY <2>1
<1>2. u \in Int /\ u \in 0..Modulus(t.size) - 1
  BY CellsAre DEF CellsOf
<1>3. ToUnsigned(u, t.size) = u
  BY <1>1, <1>2, UnsignedIs
<1>4. CASE SignedStyle(t)
  <2> DEFINE v == ToSigned(u, t.size)
  <2>1. v \in Int /\ v \in -Half(t.size)..Half(t.size) - 1
    BY <1>1, <1>2, SignedIs
  <2> HIDE DEF v
  <2>2. v \in -Half(t.narrow)..Half(t.narrow) - 1
    <3>1. /\ Modulus(t.size) <= Modulus(t.narrow)
          /\ Modulus(t.size) = 2 * Half(t.size) /\ Modulus(t.narrow) = 2 * Half(t.narrow)
          /\ Half(t.size) \in Nat /\ Half(t.narrow) \in Nat
      BY <1>1, ModulusIs
    <3> QED BY <2>1, <3>1
  <2>3. ToSigned(ToSigned(v, IntBytes), t.narrow) = v
    BY <1>1, <2>1, <2>2, Narrowed, SignedRead
  <2>4. t.range # "HEX"
    BY <1>4 DEF SignedStyle
  <2> QED BY <1>4, <2>3, <2>4 DEF Passed, Value, Narrow, Reinterpreted, Load, v
<1>5. CASE ~SignedStyle(t)
  <2>1. Passed(macro, t, u) = Narrow(macro, t, ToSigned(u, IntBytes))
        /\ Load(t, u) = ToSigned(u, IntBytes)
    BY <1>3, <1>5 DEF Passed, Value, Load, Reinterpreted
  <2>2. CASE t.range = "HEX" /\ macro = "EQUAL"
    <3>1. t.narrow = t.size
      BY <2>2, TypesAre
    <3>2. ToSigned(ToSigned(u, IntBytes), t.size) = ToSigned(u, t.size)
      BY <1>1, <1>2, Narrowed
    <3> QED BY <2>1, <2>2, <3>1, <3>2 DEF Narrow
  <2>3. CASE ~(t.range = "HEX" /\ macro = "EQUAL")
    <3>1. ToUnsigned(ToSigned(u, IntBytes), t.narrow) = ToUnsigned(u, t.narrow)
      BY <1>1, <1>2, Narrowed
    <3>2. u \in 0..Modulus(t.narrow) - 1
      <4>1. /\ Modulus(t.size) <= Modulus(t.narrow)
            /\ Modulus(t.size) \in Nat /\ Modulus(t.narrow) \in Nat
        BY <1>1, ModulusIs
      <4> QED BY <1>2, <4>1
    <3>3. ToUnsigned(u, t.narrow) = u
      BY <1>1, <1>2, <3>2, UnsignedIs
    <3> QED BY <1>5, <2>1, <2>3, <3>1, <3>3 DEF Narrow, Reinterpreted
  <2> QED BY <2>2, <2>3
<1> QED BY <1>4, <1>5

(* So a HEX style shows the same digits of a cell, with its sign or not.   *)
LEMMA ShownHex ==
  ASSUME NEW t \in Types, t.range = "HEX", NEW u \in Int
  PROVE  Shown(ToSigned(u, t.size), t) = Shown(ToSigned(u, IntBytes), t)
<1> DEFINE b == t.size
           Hex(n) == UnityPrintNumberHex(ToUnsigned(n, IntBytes), 2 * b)
<1>1. b \in 1..IntBytes /\ IntBytes \in 1..IntBytes /\ b <= IntBytes
      /\ 2 * b \in Nat /\ 2 * IntBytes \in Nat /\ 2 * b <= 2 * IntBytes
  <2>1. b \in 1..IntBytes /\ IntBytes \in 1..IntBytes
    BY TypesAre
  <2> QED BY <2>1
<1>2. Min({2 * b, 2 * IntBytes}) = 2 * b
  BY <1>1, LesserOfTwo
<1>3. \A n : Shown(n, t) = <<Zero, 120>> \o Hex(n)
  BY DEF Shown, UnityPrintNumberByStyle
<1> DEFINE m == ToUnsigned(ToSigned(u, b), IntBytes)
           n == ToUnsigned(ToSigned(u, IntBytes), IntBytes)
<1>4. ToSigned(u, b) \in Int /\ ToSigned(u, IntBytes) \in Int
  BY <1>1, SignedIs
<1>5. m \in Int /\ n \in Int
  <2>1. m \in Nat /\ n \in Nat
    BY <1>1, <1>4, UnsignedIs
  <2> QED BY <2>1
<1>6. ToUnsigned(m, b) = ToUnsigned(n, b)
  <2>1. ToUnsigned(m, b) = ToUnsigned(ToSigned(u, b), b)
    BY <1>1, <1>4, Narrowed
  <2>2. ToUnsigned(n, b) = ToUnsigned(ToSigned(u, IntBytes), b)
    BY <1>1, <1>4, Narrowed
  <2>3. ToUnsigned(ToSigned(u, b), b) = ToUnsigned(u, b)
    BY <1>1, SignedRead
  <2>4. ToUnsigned(ToSigned(u, IntBytes), b) = ToUnsigned(u, b)
    BY <1>1, Narrowed
  <2> QED BY <2>1, <2>2, <2>3, <2>4
<1> HIDE DEF m, n
<1>7. ASSUME NEW i \in 1..2 * b
      PROVE  (m \div 2^(NibbleBits * (2 * b - i))) % 2^NibbleBits
               = (n \div 2^(NibbleBits * (2 * b - i))) % 2^NibbleBits
  <2>1. 2 * b - i \in 0..2 * b - 1
    BY <1>1
  <2> HIDE DEF b
  <2> QED BY <1>1, <1>5, <1>6, <2>1, LowDigit
<1>8. UnityPrintNumberHex(m, 2 * b) = UnityPrintNumberHex(n, 2 * b)
  BY <1>2, <1>7, Zenon DEF UnityPrintNumberHex
<1> QED BY <1>3, <1>8 DEF m, n

LEMMA SignedCells ==
  ASSUME NEW b \in 1..IntBytes, NEW u \in 0..Modulus(b) - 1, NEW v \in 0..Modulus(b) - 1
  PROVE  ToSigned(u, b) = ToSigned(v, b) <=> u = v
<1>1. u \in Int /\ v \in Int
  OBVIOUS
<1>2. ToUnsigned(u, b) = u /\ ToUnsigned(v, b) = v
  BY <1>1, UnsignedIs
<1>3. ToSigned(u, b) = ToSigned(v, b) <=> ToUnsigned(u, b) = ToUnsigned(v, b)
  BY <1>1, SignedRead
<1> QED BY <1>2, <1>3

(* The scalar assertion of EQUAL on two cells compares and shows the       *)
(* elements as the loop over the array does.                               *)
LEMMA EqualCells ==
  ASSUME NEW t \in Types, NEW u \in CellsOf(t), NEW v \in CellsOf(t)
  PROVE  UnityAssertEqualNumber(Passed("EQUAL", t, u), Passed("EQUAL", t, v), t) =
           IF Load(t, u) = Load(t, v) THEN Pass
           ELSE Fail("values", 0, Shown(Load(t, u), t), Shown(Load(t, v), t))
<1>1. CASE t.range # "HEX"
  BY <1>1, PassedIs DEF UnityAssertEqualNumber
<1>2. CASE t.range = "HEX"
  <2>1. /\ Passed("EQUAL", t, u) = ToSigned(u, t.size) /\ Load(t, u) = ToSigned(u, IntBytes)
        /\ Passed("EQUAL", t, v) = ToSigned(v, t.size) /\ Load(t, v) = ToSigned(v, IntBytes)
    BY <1>2, PassedIs
  <2>2. u \in Int /\ v \in Int /\ u \in 0..Modulus(t.size) - 1 /\ v \in 0..Modulus(t.size) - 1
    BY CellsAre DEF CellsOf
  <2>3. t.size \in 1..IntBytes /\ IntBytes \in 1..IntBytes /\ t.size <= IntBytes
    <3>1. t.size \in 1..IntBytes /\ IntBytes \in 1..IntBytes
      BY TypesAre
    <3> QED BY <3>1
  <2>4. u \in 0..Modulus(IntBytes) - 1 /\ v \in 0..Modulus(IntBytes) - 1
    <3>1. /\ Modulus(t.size) <= Modulus(IntBytes)
          /\ Modulus(t.size) \in Nat /\ Modulus(IntBytes) \in Nat
      BY <2>3, ModulusIs
    <3> QED BY <2>2, <3>1
  <2>5. ToSigned(u, t.size) = ToSigned(v, t.size) <=> u = v
    BY <2>2, <2>3, SignedCells
  <2>6. ToSigned(u, IntBytes) = ToSigned(v, IntBytes) <=> u = v
    BY <2>3, <2>4, SignedCells
  <2>7. /\ Shown(ToSigned(u, t.size), t) = Shown(ToSigned(u, IntBytes), t)
        /\ Shown(ToSigned(v, t.size), t) = Shown(ToSigned(v, IntBytes), t)
    BY <1>2, <2>2, ShownHex
  <2> QED BY <2>1, <2>5, <2>6, <2>7 DEF UnityAssertEqualNumber
<1> QED BY <1>1, <1>2

LEMMA WithinCells ==
  ASSUME NEW t \in Types, NEW u \in CellsOf(t), NEW v \in CellsOf(t), NEW d \in Nat
  PROVE  UnityAssertNumbersWithin(d, Passed("WITHIN", t, u), Passed("WITHIN", t, v), t) =
           IF ~(Distance(t, Load(t, v), Load(t, u)) > d) THEN Pass
           ELSE Fail("delta", 0, Shown(Load(t, u), t), Shown(Load(t, v), t))
<1>1. Passed("WITHIN", t, u) = Load(t, u) /\ Passed("WITHIN", t, v) = Load(t, v)
  BY PassedIs
<1>2. Load(t, u) \in UNITY_INT /\ Load(t, v) \in UNITY_INT
  <2>1. ASSUME NEW x \in CellsOf(t) PROVE Passed("WITHIN", t, x) \in UNITY_INT
    <3>1. Value(t, x) \in Int
      <4>1. x \in Int /\ t.size \in 1..IntBytes
        BY CellsAre, TypesAre
      <4>2. ToUnsigned(x, t.size) \in Nat /\ ToSigned(x, t.size) \in Int
        BY <4>1, UnsignedIs, SignedIs
      <4> QED BY <4>2 DEF Value
    <3>2. Reinterpreted(Value(t, x)) \in Int
      BY <3>1, TypesAre, SignedIs DEF Reinterpreted
    <3> QED BY <3>2, NarrowFits DEF Passed
  <2> QED BY <1>1, <2>1
<1>3. Distance(t, Load(t, v), Load(t, u)) \in Int
  BY <1>2, DistanceIs DEF Size
<1> DEFINE D == Distance(t, Load(t, v), Load(t, u))
<1>4. D <= d <=> ~(D > d)
  BY <1>3
<1> QED BY <1>1, <1>4 DEF UnityAssertNumbersWithin

(* The number of an EACH_EQUAL macro, through its cell, is still itself.   *)
LEMMA EachNumber ==
  ASSUME NEW t \in Types, NEW x \in Int
  PROVE  LET cell == ToUnsigned(Narrow("EQUAL", t, x), t.size)
         IN  cell \in CellsOf(t) /\ Passed("EQUAL", t, cell) = Passed("EQUAL", t, x)
<1> DEFINE y == Narrow("EQUAL", t, x)
           cell == ToUnsigned(y, t.size)
<1>1. /\ t.size \in 1..IntBytes /\ t.narrow \in 1..IntBytes /\ IntBytes \in 1..IntBytes
      /\ t.size <= t.narrow /\ t.size <= IntBytes
  <2>1. /\ t.size \in 1..IntBytes /\ t.narrow \in 1..IntBytes /\ IntBytes \in 1..IntBytes
        /\ t.size <= t.narrow
    BY TypesAre
  <2> QED BY <2>1
<1>2. y \in Int
  BY NarrowIs
<1>3. cell \in CellsOf(t) /\ cell \in Int
  <2>1. cell \in 0..Modulus(t.size) - 1 /\ cell \in Nat
    BY <1>1, <1>2, UnsignedIs
  <2> QED BY <2>1 DEF CellsOf
<1>4. ToUnsigned(y, t.size) = ToUnsigned(x, t.size)
  <2>1. ToUnsigned(x, t.narrow) \in Int
    <3>1. ToUnsigned(x, t.narrow) \in Nat
      BY <1>1, UnsignedIs
    <3> QED BY <3>1
  <2>2. /\ ToUnsigned(ToSigned(x, t.narrow), t.size) = ToUnsigned(x, t.size)
        /\ ToUnsigned(ToUnsigned(x, t.narrow), t.size) = ToUnsigned(x, t.size)
    BY <1>1, Narrowed
  <2>3. ToUnsigned(ToSigned(ToUnsigned(x, t.narrow), IntBytes), t.size)
          = ToUnsigned(ToUnsigned(x, t.narrow), t.size)
    BY <1>1, <2>1, Narrowed
  <2> QED BY <2>2, <2>3 DEF Narrow, Reinterpreted
<1>5. ToUnsigned(cell, t.size) = ToUnsigned(x, t.size)
  BY <1>1, <1>2, <1>4, Narrowed
<1>6. ToSigned(cell, t.size) = ToSigned(x, t.size)
  BY <1>1, <1>3, <1>5, SignedRead
<1>7. Value(t, cell) = Value(t, x)
  BY <1>5, <1>6 DEF Value
<1> QED BY <1>3, <1>7 DEF Passed

(* If the loop would report what f says at every element in its domain,    *)
(* and the scalar assertion says the same, then ArrayAsScalars holds.      *)
LEMMA LoopIsScalars ==
  ASSUME NEW n \in Nat, call.count = n,
         NEW f, DOMAIN f \in SUBSET (1..n), result = FirstFailure(f),
         \A i \in DOMAIN f :
           /\ f[i] # Pass /\ f[i].element = i - 1
           /\ ElementVerdict(i) = [f[i] EXCEPT !.element = 0],
         \A i \in (1..n) \ DOMAIN f : ElementVerdict(i) = Pass
  PROVE  ArrayAsScalars
<1> DEFINE bad == DOMAIN f
           first == CHOOSE i \in bad : FirstIn(i, bad)
<1>1. CASE bad = {}
  <2>1. result = Pass
    BY <1>1 DEF FirstFailure
  <2> QED BY <1>1, <2>1 DEF ArrayAsScalars
<1>2. CASE bad # {}
  <2>1. first \in bad /\ \A k \in bad : first <= k
    <3>1. bad \in SUBSET Nat
      OBVIOUS
    <3> QED BY <1>2, <3>1, LeastNat DEF FirstIn
  <2>2. result = f[first]
    BY <1>2 DEF FirstFailure
  <2> HIDE DEF first
  <2>3. first \in 1..n /\ result # Pass /\ result.element + 1 = first
    BY <2>1, <2>2
  <2>4. \A k \in 1..first - 1 : k \in (1..n) \ DOMAIN f
    BY <2>1, <2>3
  <2>5. /\ ElementVerdict(first) = [result EXCEPT !.element = 0]
        /\ \A k \in 1..first - 1 : ElementVerdict(k) = Pass
    BY <2>1, <2>2, <2>4
  <2> QED BY <2>3, <2>5 DEF ArrayAsScalars
<1> QED BY <1>1, <1>2

LEMMA FailureOf ==
  ASSUME NEW why, NEW element, NEW expected, NEW was
  PROVE  /\ Fail(why, element, expected, was) # Pass
         /\ Fail(why, element, expected, was).element = element
         /\ [Fail(why, element, expected, was) EXCEPT !.element = 0]
              = Fail(why, 0, expected, was)
         /\ \A e : [Fail(why, element, expected, was) EXCEPT !.element = e]
                     = Fail(why, e, expected, was)
BY DEF Fail, Pass

(* What the loops over integers work on.                                   *)
LEMMA IntArrayFacts ==
  ASSUME VerdictInv, Compared, call.macro \in {"ARRAY_EQUAL", "ARRAY_WITHIN", "EACH_EQUAL"}
  PROVE  /\ call.count \in Nat /\ call.type \in Types
         /\ call.macro = "ARRAY_WITHIN" => ToUnsigned(call.delta, call.type.narrow) \in Nat
         /\ \A i \in 1..call.count :
              /\ ExpectedAt(call, i) \in CellsOf(call.type)
              /\ call.actual[i] \in CellsOf(call.type)
              /\ call.macro # "EACH_EQUAL" => ExpectedAt(call, i) = call.expected[i]
              /\ call.macro = "EACH_EQUAL" =>
                   Passed("EQUAL", call.type, ExpectedAt(call, i))
                     = Passed("EQUAL", call.type, call.number)
<1>1. CASE call.macro \in {"ARRAY_EQUAL", "ARRAY_WITHIN"}
  <2>1. PICK t \in Types, n \in 0..MaxElements : call \in ArrayCalls(t, n)
    BY <1>1 DEF VerdictInv, CallKinds
  <2>2. /\ call.type = t /\ call.count = n /\ call.flags = "ARRAY_TO_ARRAY" /\ call.delta \in Deltas
        /\ call.expected \in Pointers(Cells(t.size), n)
        /\ call.actual \in Pointers(Cells(t.size), n)
    BY <2>1 DEF ArrayCalls
  <2>3. call.expected \in [1..n -> Cells(t.size)] /\ call.actual \in [1..n -> Cells(t.size)]
    BY <2>2 DEF Compared, Pointers
  <2>4. n \in Nat
    BY <2>1, AssertsAssumption
  <2>5. ToUnsigned(call.delta, t.narrow) \in Nat
    <3>1. Deltas \subseteq Int
      BY AssertsAssumption
    <3> QED BY <2>2, <3>1, TypesAre, UnsignedIs
  <2> QED BY <1>1, <2>2, <2>3, <2>4, <2>5, CellsAre DEF ExpectedAt
<1>2. CASE call.macro = "EACH_EQUAL"
  <2>1. PICK t \in Types, n \in 0..MaxElements : call \in EachCalls(t, n)
    BY <1>2 DEF VerdictInv, CallKinds
  <2>2. PICK x \in Values, a \in Pointers(Cells(t.size), n) :
          call = [macro |-> "EACH_EQUAL", type |-> t, count |-> n, flags |-> "ARRAY_TO_VAL",
                  alias |-> FALSE, number |-> x, actual |-> a,
                  expected |-> UnityNumToPtr(Narrow("EQUAL", t, x), t.size)]
    BY <2>1 DEF EachCalls
  <2>3. /\ call.type = t /\ call.count = n /\ call.flags = "ARRAY_TO_VAL"
        /\ call.number = x /\ call.actual = a
        /\ call.expected = UnityNumToPtr(Narrow("EQUAL", t, x), t.size)
    BY <2>2
  <2>4. call.actual \in [1..n -> Cells(t.size)]
    BY <2>3 DEF Compared, Pointers
  <2>5. x \in Int /\ n \in Nat
    BY <2>1, AssertsAssumption DEF UNITY_INT
  <2>6. \A i : ExpectedAt(call, i) = ToUnsigned(Narrow("EQUAL", t, x), t.size)
    BY <2>3 DEF ExpectedAt, UnityNumToPtr
  <2>7. /\ ToUnsigned(Narrow("EQUAL", t, x), t.size) \in CellsOf(t)
        /\ Passed("EQUAL", t, ToUnsigned(Narrow("EQUAL", t, x), t.size)) = Passed("EQUAL", t, x)
    BY <2>5, EachNumber
  <2> QED BY <1>2, <2>3, <2>4, <2>5, <2>6, <2>7, CellsAre
<1> QED BY <1>1, <1>2

LEMMA EqualArrayInv ==
  ASSUME VerdictInv, Reported({"ARRAY_EQUAL", "EACH_EQUAL"}), Compared
  PROVE  ArrayAsScalars
<1> DEFINE t == call.type
           n == call.count
           u(i) == ExpectedAt(call, i)
           v(i) == call.actual[i]
           bad == {i \in 1..n : Load(t, u(i)) # Load(t, v(i))}
           f == [i \in bad |-> Element(call, i)]
<1>1. call.macro \in {"ARRAY_EQUAL", "EACH_EQUAL"}
  BY DEF Reported
<1>2. /\ n \in Nat /\ t \in Types
      /\ \A i \in 1..n :
           /\ u(i) \in CellsOf(t) /\ v(i) \in CellsOf(t)
           /\ call.macro # "EACH_EQUAL" => u(i) = call.expected[i]
           /\ call.macro = "EACH_EQUAL" =>
                Passed("EQUAL", t, u(i)) = Passed("EQUAL", t, call.number)
  BY <1>1, IntArrayFacts
<1>3. result = FirstFailure(f)
  <2>1. result = UnityAssertEqualIntArray(call)
    BY <1>1 DEF VerdictInv, Answered, Reported
  <2> QED BY <1>2, <2>1 DEF UnityAssertEqualIntArray, Arrays, Compared
<1>4. ASSUME NEW i \in 1..n
      PROVE  ElementVerdict(i) = IF Load(t, u(i)) = Load(t, v(i)) THEN Pass
                                 ELSE [Element(call, i) EXCEPT !.element = 0]
  <2>1. ElementVerdict(i) =
          UnityAssertEqualNumber(Passed("EQUAL", t, u(i)), Passed("EQUAL", t, v(i)), t)
    <3>1. CASE call.macro = "ARRAY_EQUAL"
      <4>1. ElementVerdict(i) = UnityAssertEqualNumber(
              Passed("EQUAL", t, call.expected[i]), Passed("EQUAL", t, call.actual[i]), t)
        BY <3>1 DEF ElementVerdict, Passed, Value
      <4> QED BY <1>2, <3>1, <4>1
    <3>2. CASE call.macro = "EACH_EQUAL"
      <4>1. ElementVerdict(i) = UnityAssertEqualNumber(
              Passed("EQUAL", t, call.number), Passed("EQUAL", t, call.actual[i]), t)
        BY <3>2 DEF ElementVerdict, Passed, Value
      <4> QED BY <1>2, <3>2, <4>1
    <3> QED BY <1>1, <3>1, <3>2
  <2>2. Element(call, i) = Fail("values", i - 1, Shown(Load(t, u(i)), t), Shown(Load(t, v(i)), t))
    BY <1>1 DEF Element
  <2>3. [Element(call, i) EXCEPT !.element = 0]
          = Fail("values", 0, Shown(Load(t, u(i)), t), Shown(Load(t, v(i)), t))
    BY <2>2, FailureOf
  <2>4. u(i) \in CellsOf(t) /\ v(i) \in CellsOf(t)
    BY <1>2
  <2> HIDE DEF u, v, t
  <2> QED BY <1>2, <2>1, <2>3, <2>4, EqualCells
<1>5. \A i \in 1..n : Element(call, i) # Pass /\ Element(call, i).element = i - 1
  BY FailureOf DEF Element
<1>6. DOMAIN f = bad /\ \A i \in bad : f[i] = Element(call, i)
  OBVIOUS
<1> HIDE DEF f
<1>7. \A i \in DOMAIN f :
        /\ f[i] # Pass /\ f[i].element = i - 1
        /\ ElementVerdict(i) = [f[i] EXCEPT !.element = 0]
  BY <1>4, <1>5, <1>6
<1>8. \A i \in (1..n) \ DOMAIN f : ElementVerdict(i) = Pass
  BY <1>4, <1>6
<1>9. DOMAIN f \in SUBSET (1..n)
  BY <1>6
<1> QED BY <1>2, <1>3, <1>7, <1>8, <1>9, LoopIsScalars

LEMMA ArrayWithinInv ==
  ASSUME VerdictInv, Reported({"ARRAY_WITHIN"}), Compared
  PROVE  ArrayAsScalars
<1> DEFINE t == call.type
           n == call.count
           d == ToUnsigned(call.delta, t.narrow)
           u(i) == call.expected[i]
           v(i) == call.actual[i]
           apart(i) == Distance(t, Load(t, v(i)), Load(t, ExpectedAt(call, i)))
           bad == {i \in 1..n : apart(i) > d}
           f == [i \in bad |-> Element(call, i)]
<1>1. call.macro = "ARRAY_WITHIN"
  BY DEF Reported
<1>2. /\ n \in Nat /\ t \in Types /\ d \in Nat
      /\ \A i \in 1..n :
           u(i) \in CellsOf(t) /\ v(i) \in CellsOf(t) /\ ExpectedAt(call, i) = u(i)
  BY <1>1, IntArrayFacts
<1>3. result = FirstFailure(f)
  <2>1. result = UnityAssertNumbersArrayWithin(call, d)
    BY <1>1 DEF VerdictInv, Answered, Reported
  <2> HIDE DEF d
  <2> QED BY <1>2, <2>1 DEF UnityAssertNumbersArrayWithin, Arrays, Compared
<1>4. ASSUME NEW i \in 1..n
      PROVE  ElementVerdict(i) = IF ~(apart(i) > d) THEN Pass
                                 ELSE [Element(call, i) EXCEPT !.element = 0]
  <2>1. ElementVerdict(i) =
          UnityAssertNumbersWithin(d, Passed("WITHIN", t, u(i)), Passed("WITHIN", t, v(i)), t)
    BY <1>1 DEF ElementVerdict, Passed, Value
  <2>2. Element(call, i) = Fail("delta", i - 1, Shown(Load(t, u(i)), t), Shown(Load(t, v(i)), t))
    BY <1>1, <1>2 DEF Element
  <2>3. [Element(call, i) EXCEPT !.element = 0]
          = Fail("delta", 0, Shown(Load(t, u(i)), t), Shown(Load(t, v(i)), t))
    BY <2>2, FailureOf
  <2>4. u(i) \in CellsOf(t) /\ v(i) \in CellsOf(t)
        /\ apart(i) = Distance(t, Load(t, v(i)), Load(t, u(i)))
    BY <1>2
  <2> HIDE DEF u, v, t, d, apart
  <2> QED BY <1>2, <2>1, <2>3, <2>4, WithinCells
<1>5. \A i \in 1..n : Element(call, i) # Pass /\ Element(call, i).element = i - 1
  BY FailureOf DEF Element
<1>6. DOMAIN f = bad /\ \A i \in bad : f[i] = Element(call, i)
  OBVIOUS
<1> HIDE DEF f, apart, d
<1>7. \A i \in DOMAIN f :
        /\ f[i] # Pass /\ f[i].element = i - 1
        /\ ElementVerdict(i) = [f[i] EXCEPT !.element = 0]
  BY <1>4, <1>5, <1>6
<1>8. \A i \in (1..n) \ DOMAIN f : ElementVerdict(i) = Pass
  BY <1>4, <1>6
<1>9. DOMAIN f \in SUBSET (1..n)
  BY <1>6
<1> QED BY <1>2, <1>3, <1>7, <1>8, <1>9, LoopIsScalars

LEMMA StringArrayInv ==
  ASSUME VerdictInv, Reported({"STRING_ARRAY"}), Compared
  PROVE  ArrayAsScalars
<1> DEFINE n == call.count
           same(i) == UnityAssertEqualString(ExpectedAt(call, i), call.actual[i])
           bad == {i \in 1..n : same(i) # Pass}
           f == [i \in bad |-> [same(i) EXCEPT !.element = i - 1]]
<1>1. call.macro = "STRING_ARRAY"
  BY DEF Reported
<1>2. n \in Nat
  <2>1. PICK m \in 0..MaxElements : call \in StringArrayCalls(m)
    BY <1>1 DEF VerdictInv, CallKinds
  <2>2. call.count = m
    BY <2>1 DEF StringArrayCalls
  <2> QED BY <2>2, AssertsAssumption
<1>3. result = FirstFailure(f)
  <2>1. result = UnityAssertEqualStringArray(call)
    BY <1>1 DEF VerdictInv, Answered, Reported
  <2> QED BY <1>2, <2>1 DEF UnityAssertEqualStringArray, Arrays, Compared
<1>4. \A i \in 1..n : ElementVerdict(i) = same(i)
  BY <1>1 DEF ElementVerdict, ExpectedAt
<1>5. ASSUME NEW i \in 1..n, same(i) # Pass
      PROVE  /\ [same(i) EXCEPT !.element = i - 1] # Pass
             /\ [same(i) EXCEPT !.element = i - 1].element = i - 1
             /\ [[same(i) EXCEPT !.element = i - 1] EXCEPT !.element = 0] = same(i)
  <2> DEFINE l == NoLimit(ExpectedAt(call, i), call.actual[i])
             shown(s) == Quoted(s, l)
             moved == [same(i) EXCEPT !.element = i - 1]
  <2>1. same(i) = Fail("values", 0, shown(ExpectedAt(call, i)), shown(call.actual[i]))
    BY <1>5 DEF UnityAssertEqualString, UnityAssertEqualStringLen, Strings
  <2>2. moved = Fail("values", i - 1, shown(ExpectedAt(call, i)), shown(call.actual[i]))
    BY <2>1, FailureOf
  <2> HIDE DEF same, shown, moved
  <2>3. moved # Pass /\ moved.element = i - 1
    BY <2>2, FailureOf
  <2>4. [moved EXCEPT !.element = 0] = same(i)
    BY <2>1, <2>2, FailureOf
  <2>5. moved = [same(i) EXCEPT !.element = i - 1]
    BY DEF moved
  <2> QED BY <2>3, <2>4, <2>5
<1>6. DOMAIN f = bad /\ \A i \in bad : f[i] = [same(i) EXCEPT !.element = i - 1]
  OBVIOUS
<1> HIDE DEF f, same
<1>7. \A i \in DOMAIN f :
        /\ f[i] # Pass /\ f[i].element = i - 1
        /\ ElementVerdict(i) = [f[i] EXCEPT !.element = 0]
  BY <1>4, <1>5, <1>6
<1>8. \A i \in (1..n) \ DOMAIN f : ElementVerdict(i) = Pass
  BY <1>4, <1>6
<1>9. DOMAIN f \in SUBSET (1..n)
  BY <1>6
<1> QED BY <1>2, <1>3, <1>7, <1>8, <1>9, LoopIsScalars

LEMMA ArrayInv == VerdictInv => ArrayAsScalars
<1> SUFFICES ASSUME VerdictInv, Compared,
                    Reported({"ARRAY_EQUAL", "ARRAY_WITHIN", "EACH_EQUAL", "STRING_ARRAY"})
             PROVE  ArrayAsScalars
  BY DEF ArrayAsScalars
<1>1. \/ Reported({"ARRAY_EQUAL", "EACH_EQUAL"}) \/ Reported({"ARRAY_WITHIN"})
      \/ Reported({"STRING_ARRAY"})
  BY DEF Reported
<1> QED BY <1>1, EqualArrayInv, ArrayWithinInv, StringArrayInv

(* An assertion on an array is the scalar assertion on every element, with *)
(* the same verdict and the same two values shown, and the first failure   *)
(* is reported: reading an element through a pointer of its style, of any  *)
(* width, is what the casts of the scalar macros do to it.                 *)
THEOREM ArrayAsScalarsHolds == AssertionsSpec => []ArrayAsScalars
BY VerdictHolds, ArrayInv, PTL

-----------------------------------------------------------------------------
(* Memory.                                                                 *)

(* n copies of L bytes, one after the other.                               *)
LEMMA FlattenCopies ==
  ASSUME NEW n \in Nat \ {0}, NEW L \in Nat \ {0}, NEW e \in [1..L -> Int]
  PROVE  FlattenSeq([i \in 1..n |-> e]) = [k \in 1..n * L |-> e[((k - 1) % L) + 1]]
<1> DEFINE seqs == [i \in 1..n |-> e]
           Next(f, i) == IF i = 1 THEN seqs[i] ELSE f[i - 1] \o seqs[i]
           P(f) == f = [i \in 1..n |-> Next(f, i)]
           copies(i) == [k \in 1..i * L |-> e[((k - 1) % L) + 1]]
           g == [i \in 1..n |-> copies(i)]
           f == CHOOSE h : P(h)
<1>1. copies(1) = e
  <2>1. \A k \in 1..L : (k - 1) % L = k - 1
    OBVIOUS
  <2>2. 1 * L = L
    OBVIOUS
  <2> QED BY <2>1, <2>2
<1>2. ASSUME NEW i \in 1..n, i # 1
      PROVE  copies(i) = copies(i - 1) \o e
  <2> DEFINE m == (i - 1) * L
  <2>1. m \in Nat /\ i * L = m + L /\ i - 1 \in Nat
    OBVIOUS
  <2>2. \A k \in 1..m + L : ((k - 1) % L) + 1 \in 1..L
    OBVIOUS
  <2>3. ASSUME NEW k \in (m + 1)..m + L
        PROVE  (k - 1) % L = k - 1 - m
    <3>1. k - 1 = (i - 1) * L + (k - 1 - m) /\ k - 1 - m \in 0..L - 1 /\ k - 1 \in Int
          /\ i - 1 \in Int
      BY <2>1
    <3> HIDE DEF m
    <3> QED BY <3>1, Remainder
  <2>4. copies(i - 1) = [k \in 1..m |-> e[((k - 1) % L) + 1]]
        /\ copies(i) = [k \in 1..m + L |-> e[((k - 1) % L) + 1]]
    BY <2>1
  <2>5. copies(i - 1) \in Seq(Int) /\ Len(copies(i - 1)) = m
    <3>1. \A k \in 1..m : e[((k - 1) % L) + 1] \in Int
      BY <2>1, <2>2
    <3> HIDE DEF m
    <3> QED BY <2>1, <2>4, <3>1
  <2>6. e \in Seq(Int) /\ Len(e) = L
    OBVIOUS
  <2> HIDE DEF copies, m
  <2>7. copies(i - 1) \o e
          = [k \in 1..m + L |-> IF k <= m THEN copies(i - 1)[k] ELSE e[k - m]]
    <3>1. copies(i - 1) \o e
            = [k \in 1..Len(copies(i - 1)) + Len(e) |->
                 IF k <= Len(copies(i - 1)) THEN copies(i - 1)[k]
                 ELSE e[k - Len(copies(i - 1))]]
      BY <2>5, <2>6, Joined
    <3> QED BY <2>5, <2>6, <3>1
  <2>8. ASSUME NEW k \in 1..m + L
        PROVE  (IF k <= m THEN copies(i - 1)[k] ELSE e[k - m]) = e[((k - 1) % L) + 1]
    <3>1. CASE k <= m
      <4>1. k \in 1..m
        BY <2>1, <3>1
      <4> QED BY <2>4, <3>1, <4>1
    <3>2. CASE ~(k <= m)
      <4>1. k \in (m + 1)..m + L
        BY <2>1, <3>2
      <4>2. ((k - 1) % L) + 1 = k - m
        BY <2>1, <2>3, <4>1
      <4> QED BY <3>2, <4>2
    <3> QED BY <3>1, <3>2
  <2> QED BY <2>4, <2>7, <2>8
<1>3. P(g)
  <2>1. ASSUME NEW i \in 1..n PROVE copies(i) = Next(g, i)
    <3>1. seqs[i] = e
      OBVIOUS
    <3>2. i # 1 => i - 1 \in 1..n
      OBVIOUS
    <3> HIDE DEF copies, seqs
    <3> QED BY <1>1, <1>2, <3>1, <3>2
  <2> HIDE DEF copies, Next
  <2> QED BY <2>1
<1>4. P(f)
  <2> HIDE DEF P
  <2> QED BY <1>3
<1>5. f[n] = g[n]
  <2> HIDE DEF f, g, seqs, copies
  <2> DEFINE bad == {i \in 1..n : f[i] # g[i]}
  <2> SUFFICES ASSUME bad # {} PROVE FALSE
    OBVIOUS
  <2>1. bad \in SUBSET Nat
    OBVIOUS
  <2>2. PICK i \in bad : \A k \in bad : i <= k
    <3> HIDE DEF bad
    <3> QED BY <2>1, LeastNat
  <2>3. i \in 1..n /\ f[i] # g[i] /\ (i # 1 => i - 1 \in 1..n /\ i - 1 \notin bad)
    BY <2>2
  <2>4. i # 1 => f[i - 1] = g[i - 1]
    BY <2>3
  <2>5. f[i] = Next(f, i) /\ g[i] = Next(g, i)
    <3> HIDE DEF Next
    <3> QED BY <1>3, <1>4, <2>3
  <2> QED BY <2>3, <2>4, <2>5
<1>6. FlattenSeq(seqs) = f[n]
  <2>1. Len(seqs) = n /\ n # 0
    OBVIOUS
  <2> HIDE DEF seqs
  <2> QED BY <2>1 DEF FlattenSeq
<1> QED BY <1>5, <1>6

(* What the loop over bytes works on: Want is the memory expected, byte by *)
(* byte, ByteAt what the loop reads in its place.                          *)
MemoryByte(k) ==
  IF call.flags = "ARRAY_TO_VAL" THEN call.expected[((k - 1) % call.length) + 1]
  ELSE call.expected[k]

Want == IF call.flags = "ARRAY_TO_ARRAY" THEN call.expected
        ELSE FlattenSeq([i \in 1..call.count |-> call.expected])

LEMMA MemoryFacts ==
  ASSUME VerdictInv, call.macro = "MEMORY", Compared, call.length > 0
  PROVE  /\ call.count \in Nat \ {0} /\ call.length \in Nat \ {0}
         /\ Want = [k \in 1..call.count * call.length |-> MemoryByte(k)]
         /\ Want \in Seq(Int) /\ Len(Want) = call.count * call.length
         /\ call.actual \in Seq(Int) /\ Len(call.actual) = call.count * call.length
<1>1. PICK n \in 0..MaxElements, length \in 0..2 : call \in MemoryCalls(n, length)
  BY DEF VerdictInv, CallKinds
<1> DEFINE bytes == Cells(1)
           size == n * length
<1>2. bytes \subseteq Int
  <2>1. 1 \in 1..IntBytes
    BY NumbersAssumption
  <2>2. Cells(1) \subseteq 0..2^Bits(1) - 1
    BY <2>1, AssertsAssumption
  <2>3. \A b \in 0..2^Bits(1) - 1 : b \in Int
    OBVIOUS
  <2> QED BY <2>2, <2>3
<1>3. /\ call.count = n /\ call.length = length
      /\ call.flags = "ARRAY_TO_ARRAY" => call.expected \in Pointers(bytes, size)
      /\ call.flags # "ARRAY_TO_ARRAY" =>
           call.flags = "ARRAY_TO_VAL" /\ call.expected \in [1..length -> bytes]
      /\ call.actual \in Pointers(bytes, size)
  <2> HIDE DEF bytes
  <2> QED BY <1>1 DEF MemoryCalls, bytes, Pointers
<1>4. n \in Nat \ {0} /\ length \in Nat \ {0}
  <2>1. MaxElements \in Nat
    BY AssertsAssumption
  <2> QED BY <1>3, <2>1 DEF Compared
<1>5. size \in Nat
  BY <1>4
<1> HIDE DEF bytes, size
<1>6. ASSUME NEW f \in [1..size -> bytes]
      PROVE  f \in Seq(Int) /\ Len(f) = size
  <2>1. f \in [1..size -> Int]
    BY <1>2
  <2> QED BY <1>5, <2>1
<1>7. call.actual \in Seq(Int) /\ Len(call.actual) = size
  BY <1>3, <1>6 DEF Pointers, Compared
<1>8. Want = [k \in 1..size |-> MemoryByte(k)] /\ Want \in Seq(Int) /\ Len(Want) = size
  <2>1. CASE call.flags = "ARRAY_TO_ARRAY"
    <3>1. call.expected \in [1..size -> bytes]
      BY <1>3, <2>1 DEF Pointers, Compared
    <3>2. call.expected = [k \in 1..size |-> call.expected[k]]
      BY <3>1
    <3> QED BY <1>6, <2>1, <3>1, <3>2 DEF Want, MemoryByte
  <2>2. CASE call.flags # "ARRAY_TO_ARRAY"
    <3>1. call.flags = "ARRAY_TO_VAL" /\ call.expected \in [1..length -> Int]
      BY <1>2, <1>3, <2>2
    <3>2. Want = FlattenSeq([i \in 1..n |-> call.expected])
      BY <1>3, <2>2 DEF Want
    <3>3. Want = [k \in 1..size |-> call.expected[((k - 1) % length) + 1]]
      BY <1>4, <3>1, <3>2, FlattenCopies DEF size
    <3>4. \A k \in 1..size : ((k - 1) % length) + 1 \in 1..length
      BY <1>4, <1>5
    <3>5. \A k \in 1..size : call.expected[((k - 1) % length) + 1] \in Int
      BY <3>1, <3>4
    <3>6. Want \in Seq(Int) /\ Len(Want) = size
      BY <1>5, <3>3, <3>5
    <3> QED BY <1>3, <3>1, <3>3, <3>6 DEF MemoryByte
  <2> QED BY <2>1, <2>2
<1> QED BY <1>3, <1>4, <1>7, <1>8 DEF size

LEMMA MemoryInv == VerdictInv => MemoryVerdict
<1> SUFFICES ASSUME VerdictInv, Reported({"MEMORY"}), Compared, call.length > 0
             PROVE  IF result = Pass THEN Want = call.actual
                    ELSE LET k == result.element.element * call.length + result.element.byte
                         IN  /\ SubSeq(Want, 1, k) = SubSeq(call.actual, 1, k)
                             /\ Want[k + 1] # call.actual[k + 1]
  BY DEF MemoryVerdict, Want
<1> DEFINE L == call.length
           size == call.count * L
           At(k) == [element |-> (k - 1) \div L, byte |-> (k - 1) % L]
           hex8 == Type("HEX", 1, 1)
           bad == {k \in 1..size : MemoryByte(k) # call.actual[k]}
           Different(k) ==
             Fail("memory", At(k), Shown(MemoryByte(k), hex8), Shown(call.actual[k], hex8))
           f == [k \in bad |-> Different(k)]
<1>1. /\ call.count \in Nat \ {0} /\ L \in Nat \ {0} /\ size \in Nat
      /\ Want = [k \in 1..size |-> MemoryByte(k)]
      /\ Want \in Seq(Int) /\ Len(Want) = size
      /\ call.actual \in Seq(Int) /\ Len(call.actual) = size
  BY MemoryFacts DEF Reported
<1>2. result = FirstFailure(f)
  <2>1. result = UnityAssertEqualMemory(call)
    BY DEF VerdictInv, Answered, Reported
  <2>2. \A k : MemoryByte(k) = IF call.flags = "ARRAY_TO_VAL" THEN call.expected[At(k).byte + 1]
                               ELSE call.expected[k]
    BY DEF MemoryByte
  <2>3. UnityAssertEqualMemory(call) = Arrays(call, FirstFailure(f))
    <3>1. ~(call.count > 0 /\ call.length = 0)
      BY <1>1
    <3> QED BY <2>2, <3>1 DEF UnityAssertEqualMemory, MemoryByte
  <2> QED BY <1>1, <2>1, <2>3 DEF Arrays, Compared
<1>3. DOMAIN f = bad /\ \A k \in bad : f[k] # Pass /\ f[k].element = At(k)
  BY FailureOf
<1> HIDE DEF f, size
<1>4. CASE bad = {}
  <2>1. result = Pass
    BY <1>2, <1>3, <1>4 DEF FirstFailure
  <2>2. \A k \in 1..size : Want[k] = call.actual[k]
    BY <1>1, <1>4
  <2>3. \A s, t \in Seq(Int) : Len(s) = Len(t) /\ (\A k \in 1..Len(s) : s[k] = t[k]) => s = t
    OBVIOUS
  <2> QED BY <1>1, <2>1, <2>2, <2>3
<1>5. CASE bad # {}
  <2> DEFINE first == CHOOSE i \in bad : FirstIn(i, bad)
  <2>1. first \in bad /\ \A k \in bad : first <= k
    <3>1. bad \in SUBSET Nat
      BY <1>1
    <3> QED BY <1>5, <3>1, LeastNat DEF FirstIn
  <2>2. result = f[first]
    BY <1>2, <1>3, <1>5 DEF FirstFailure
  <2> HIDE DEF first
  <2>3. result # Pass /\ result.element = At(first) /\ first \in 1..size
    BY <1>3, <2>1, <2>2
  <2>4. result.element.element * L + result.element.byte = first - 1
    <3>1. first - 1 = ((first - 1) \div L) * L + ((first - 1) % L)
      <4>1. first - 1 \in Int
        BY <1>1, <2>3
      <4> HIDE DEF L, bad, At
      <4> QED BY <1>1, <4>1, Division
    <3>2. /\ result.element.element = (first - 1) \div L
          /\ result.element.byte = (first - 1) % L
      BY <2>3
    <3> HIDE DEF At
    <3> QED BY <3>1, <3>2
  <2>5. Want[first] # call.actual[first]
    BY <1>1, <2>1, <2>3
  <2>6. \A k \in 1..first - 1 : Want[k] = call.actual[k]
    <3>1. \A k \in 1..first - 1 : k \in 1..size /\ k \notin bad
      BY <1>1, <2>1, <2>3
    <3> QED BY <1>1, <3>1
  <2>7. SubSeq(Want, 1, first - 1) = SubSeq(call.actual, 1, first - 1)
    <3>1. ASSUME NEW s \in Seq(Int), NEW m \in 0..Len(s)
          PROVE  /\ SubSeq(s, 1, m) \in Seq(Int) /\ Len(SubSeq(s, 1, m)) = m
                 /\ \A k \in 1..m : SubSeq(s, 1, m)[k] = s[k]
      OBVIOUS
    <3>2. first - 1 \in 0..size
      <4>1. size \in Nat /\ first \in 1..size
        BY <1>1, <2>3
      <4> HIDE DEF size, bad, L, At, hex8, Different
      <4> QED BY <4>1
    <3>3. \A s, t \in Seq(Int) : Len(s) = Len(t) /\ (\A k \in 1..Len(s) : s[k] = t[k]) => s = t
      OBVIOUS
    <3> DEFINE m == first - 1
               s == SubSeq(Want, 1, m)
               t == SubSeq(call.actual, 1, m)
    <3> HIDE DEF bad, m
    <3>4. m \in 0..Len(Want) /\ m \in 0..Len(call.actual)
      BY <1>1, <3>2 DEF m
    <3>5. s \in Seq(Int) /\ Len(s) = m /\ \A k \in 1..m : s[k] = Want[k]
      BY <1>1, <3>1, <3>4
    <3>6. t \in Seq(Int) /\ Len(t) = m /\ \A k \in 1..m : t[k] = call.actual[k]
      BY <1>1, <3>1, <3>4
    <3>7. \A k \in 1..m : Want[k] = call.actual[k]
      BY <2>6 DEF m
    <3> HIDE DEF s, t
    <3>8. s = t
      BY <3>3, <3>5, <3>6, <3>7
    <3> QED BY <3>8 DEF s, t, m
  <2>8. (first - 1) + 1 = first
    BY <1>1, <2>3
  <2> DEFINE k == result.element.element * L + result.element.byte
  <2> SUFFICES SubSeq(Want, 1, k) = SubSeq(call.actual, 1, k) /\ Want[k + 1] # call.actual[k + 1]
    BY <2>3
  <2> QED BY <2>4, <2>5, <2>7, <2>8
<1> QED BY <1>4, <1>5

(* Memory compares equal exactly when its bytes are, element after element *)
(* or every element to one, and otherwise the element and offset reported  *)
(* are those of the first byte that differs: the division that finds them  *)
(* loses nothing, whatever the length of an element.                       *)
THEOREM MemoryVerdictHolds == AssertionsSpec => []MemoryVerdict
BY VerdictHolds, MemoryInv, PTL

-----------------------------------------------------------------------------
(* What a failure prints: characters.                                      *)

Escaped(n) == n \notin Printable /\ n # 10 /\ n # 13

LEMMA CharacterIs ==
  ASSUME NEW n \in Characters
  PROVE  LET p == PrintCharacter(n)
         IN  /\ n \in Int /\ p \in Seq(Int) /\ Len(p) \in Nat \ {0}
             /\ n \in Printable => Len(p) = 1 /\ p[1] = n
             /\ n = 13 => Len(p) = 2 /\ p[1] = 92 /\ p[2] = 114
             /\ n = 10 => Len(p) = 2 /\ p[1] = 92 /\ p[2] = 110
             /\ Escaped(n) =>
                  /\ n \in -Half(1)..Half(1) - 1
                  /\ Len(p) = 4 /\ p[1] = 92 /\ p[2] = 120
                  /\ \E h \in [1..2 -> Int] : /\ p[3] = h[1] /\ p[4] = h[2]
                                              /\ Read(h, 2^NibbleBits) = ToUnsigned(n, 1)
<1> DEFINE p == PrintCharacter(n)
<1>1. n \in Int
  BY CharactersAre
<1>2. CASE n \in Printable
  <2>1. n # 10 /\ n # 13 /\ ~Escaped(n)
    BY <1>2 DEF Printable, Escaped
  <2>2. p = <<n>>
    BY <1>2, <2>1, Zenon DEF PrintCharacter
  <2> HIDE DEF p
  <2>3. p \in Seq(Int) /\ Len(p) = 1 /\ p[1] = n
    BY <1>1, <2>2
  <2> QED BY <1>1, <2>1, <2>3 DEF p
<1>3. CASE n = 13
  <2>1. n \notin Printable /\ n # 10 /\ ~Escaped(n)
    BY <1>3 DEF Printable, Escaped
  <2>2. p = <<92, 114>>
    BY <1>3, <2>1 DEF PrintCharacter, Backslash
  <2> HIDE DEF p
  <2>3. p \in Seq(Int) /\ Len(p) = 2 /\ p[1] = 92 /\ p[2] = 114
    BY <2>2
  <2> QED BY <1>1, <2>1, <2>3 DEF p
<1>4. CASE n = 10
  <2>1. n \notin Printable /\ n # 13 /\ ~Escaped(n)
    BY <1>4 DEF Printable, Escaped
  <2>2. p = <<92, 110>>
    BY <1>4, <2>1 DEF PrintCharacter, Backslash
  <2> HIDE DEF p
  <2>3. p \in Seq(Int) /\ Len(p) = 2 /\ p[1] = 92 /\ p[2] = 110
    BY <2>2
  <2> QED BY <1>1, <2>1, <2>3 DEF p
<1>5. CASE Escaped(n)
  <2> DEFINE h == UnityPrintNumberHex(ToUnsigned(n, IntBytes), 2)
             e == <<92, 120>>
  <2>1. 1 \in 1..IntBytes /\ 2 * 1 = 2
    BY NumbersAssumption
  <2>2. h \in Seq(Int) /\ Len(h) = 2 /\ Read(h, 2^NibbleBits) = ToUnsigned(n, 1)
    BY <1>1, <2>1, HexIs
  <2>3. n \notin Printable /\ n # 10 /\ n # 13
    BY <1>5 DEF Escaped
  <2>4. p = e \o h
    BY <2>3 DEF PrintCharacter, Backslash
  <2>5. n \in -Half(1)..Half(1) - 1
    BY <2>3 DEF Characters, Half
  <2>6. e \in Seq(Int) /\ Len(e) = 2 /\ e[1] = 92 /\ e[2] = 120
    OBVIOUS
  <2> HIDE DEF h, e
  <2>7. h \in [1..2 -> Int]
    BY <2>2
  <2>8. e \o h = [k \in 1..2 + 2 |-> IF k <= 2 THEN e[k] ELSE h[k - 2]]
    <3>1. e \o h = [k \in 1..Len(e) + Len(h) |-> IF k <= Len(e) THEN e[k] ELSE h[k - Len(e)]]
      BY <2>2, <2>6, Joined
    <3>2. Len(e) = 2 /\ Len(h) = 2
      BY <2>2, <2>6
    <3> QED BY <3>1, <3>2, Zenon
  <2> HIDE DEF p
  <2>9. /\ p \in Seq(Int) /\ Len(p) = 4
        /\ p[1] = 92 /\ p[2] = 120 /\ p[3] = h[1] /\ p[4] = h[2]
    BY <2>4, <2>6, <2>7, <2>8
  <2> QED BY <1>1, <2>2, <2>3, <2>5, <2>7, <2>9 DEF p
<1> QED BY <1>2, <1>3, <1>4, <1>5 DEF Escaped

\* Two texts differ at a place both have.
Apart(p, q) == \E k \in Nat \ {0} : k <= Len(p) /\ k <= Len(q) /\ p[k] # q[k]

(* Two characters are printed differently, and so that neither text begins *)
(* with the other unless one of them is a backslash.                       *)
LEMMA CharactersDiffer ==
  ASSUME NEW m \in Characters, NEW n \in Characters, m # n
  PROVE  /\ PrintCharacter(m) # PrintCharacter(n)
         /\ m # Backslash /\ n # Backslash => Apart(PrintCharacter(m), PrintCharacter(n))
<1> DEFINE p == PrintCharacter(m)
           q == PrintCharacter(n)
<1>1. m \in Int /\ n \in Int
  BY CharactersAre
<1>2. ASSUME Escaped(m), Escaped(n)
      PROVE  /\ p # q
             /\ \E k \in Nat \ {0} : k <= Len(p) /\ k <= Len(q) /\ p[k] # q[k]
  <2>1. PICK g \in [1..2 -> Int] : /\ p[3] = g[1] /\ p[4] = g[2]
                                   /\ Read(g, 2^NibbleBits) = ToUnsigned(m, 1)
    BY <1>2, CharacterIs
  <2>2. PICK h \in [1..2 -> Int] : /\ q[3] = h[1] /\ q[4] = h[2]
                                   /\ Read(h, 2^NibbleBits) = ToUnsigned(n, 1)
    BY <1>2, CharacterIs
  <2>3. ToUnsigned(m, 1) # ToUnsigned(n, 1)
    <3>1. 1 \in 1..IntBytes
      BY NumbersAssumption
    <3>2. m \in -Half(1)..Half(1) - 1 /\ n \in -Half(1)..Half(1) - 1
      BY <1>2, CharacterIs
    <3>3. ToSigned(m, 1) = m /\ ToSigned(n, 1) = n
      BY <1>1, <3>1, <3>2, SignedRead
    <3> QED BY <1>1, <3>1, <3>3, SignedRead
  <2>4. g # h
    BY <2>1, <2>2, <2>3
  <2>5. g[1] # h[1] \/ g[2] # h[2]
    <3>1. \A i \in 1..2 : i = 1 \/ i = 2
      OBVIOUS
    <3> QED BY <2>4, <3>1
  <2>6. Len(p) = 4 /\ Len(q) = 4
    BY <1>2, CharacterIs
  <2> HIDE DEF p, q
  <2> QED BY <2>1, <2>2, <2>5, <2>6
<1>5. /\ m \in Printable => Len(p) = 1 /\ p[1] = m
      /\ m = 13 => Len(p) = 2 /\ p[1] = 92 /\ p[2] = 114
      /\ m = 10 => Len(p) = 2 /\ p[1] = 92 /\ p[2] = 110
      /\ Escaped(m) => Len(p) = 4 /\ p[1] = 92 /\ p[2] = 120
  BY CharacterIs
<1>6. /\ n \in Printable => Len(q) = 1 /\ q[1] = n
      /\ n = 13 => Len(q) = 2 /\ q[1] = 92 /\ q[2] = 114
      /\ n = 10 => Len(q) = 2 /\ q[1] = 92 /\ q[2] = 110
      /\ Escaped(n) => Len(q) = 4 /\ q[1] = 92 /\ q[2] = 120
  BY CharacterIs
<1> HIDE DEF p, q
<1>7. m \in Printable \/ m = 13 \/ m = 10 \/ Escaped(m)
  BY DEF Escaped
<1>8. n \in Printable \/ n = 13 \/ n = 10 \/ Escaped(n)
  BY DEF Escaped
<1>9. p # q
  BY <1>2, <1>5, <1>6, <1>7, <1>8
<1>10. ASSUME m # Backslash, n # Backslash
       PROVE  \E k \in Nat \ {0} : k <= Len(p) /\ k <= Len(q) /\ p[k] # q[k]
  <2>1. m # 92 /\ n # 92
    BY <1>10 DEF Backslash
  <2>2. CASE Escaped(m) /\ Escaped(n)
    BY <1>2, <2>2
  <2>3. CASE m \in Printable \/ n \in Printable
    <3>1. 1 <= Len(p) /\ 1 <= Len(q) /\ p[1] # q[1]
      BY <1>5, <1>6, <1>7, <1>8, <2>1, <2>3
    <3> QED BY <3>1
  <2>4. CASE m \notin Printable /\ n \notin Printable /\ ~(Escaped(m) /\ Escaped(n))
    <3>1. 2 <= Len(p) /\ 2 <= Len(q) /\ p[2] # q[2]
      BY <1>5, <1>6, <1>7, <1>8, <2>4
    <3> QED BY <3>1
  <2> QED BY <2>2, <2>3, <2>4
<1> QED BY <1>9, <1>10 DEF p, q, Apart

-----------------------------------------------------------------------------
(* What a failure prints: numbers.                                         *)

LEMMA JoinCancels ==
  ASSUME NEW e \in Seq(Int), NEW s \in Seq(Int), NEW t \in Seq(Int)
  PROVE  /\ e \o s = e \o t => s = t
         /\ s \o e = t \o e => s = t
<1>1. Len(e) \in Nat /\ Len(s) \in Nat /\ Len(t) \in Nat
  OBVIOUS
<1>2. /\ e \o s = [k \in 1..Len(e) + Len(s) |-> IF k <= Len(e) THEN e[k] ELSE s[k - Len(e)]]
      /\ e \o t = [k \in 1..Len(e) + Len(t) |-> IF k <= Len(e) THEN e[k] ELSE t[k - Len(e)]]
      /\ s \o e = [k \in 1..Len(s) + Len(e) |-> IF k <= Len(s) THEN s[k] ELSE e[k - Len(s)]]
      /\ t \o e = [k \in 1..Len(t) + Len(e) |-> IF k <= Len(t) THEN t[k] ELSE e[k - Len(t)]]
  BY Joined
<1>3. /\ Len(e \o s) = Len(e) + Len(s) /\ Len(e \o t) = Len(e) + Len(t)
      /\ Len(s \o e) = Len(s) + Len(e) /\ Len(t \o e) = Len(t) + Len(e)
  OBVIOUS
<1>4. ASSUME e \o s = e \o t PROVE s = t
  <2>1. Len(s) = Len(t)
    BY <1>1, <1>3, <1>4
  <2>2. ASSUME NEW i \in 1..Len(s) PROVE s[i] = t[i]
    <3>1. /\ Len(e) + i \in 1..Len(e) + Len(s) /\ Len(e) + i \in 1..Len(e) + Len(t)
          /\ ~(Len(e) + i <= Len(e)) /\ (Len(e) + i) - Len(e) = i
      BY <1>1, <2>1
    <3>2. (e \o s)[Len(e) + i] = s[i] /\ (e \o t)[Len(e) + i] = t[i]
      BY <1>2, <3>1
    <3> QED BY <1>4, <3>2
  <2> QED BY <2>1, <2>2
<1>5. ASSUME s \o e = t \o e PROVE s = t
  <2>1. Len(s) = Len(t)
    BY <1>1, <1>3, <1>5
  <2>2. ASSUME NEW i \in 1..Len(s) PROVE s[i] = t[i]
    <3>1. /\ i \in 1..Len(s) + Len(e) /\ i \in 1..Len(t) + Len(e) /\ i <= Len(s) /\ i <= Len(t)
      BY <1>1, <2>1
    <3>2. (s \o e)[i] = s[i] /\ (t \o e)[i] = t[i]
      BY <1>2, <3>1
    <3> QED BY <1>5, <3>2
  <2> QED BY <2>1, <2>2
<1> QED BY <1>4, <1>5

LEMMA DecimalsDiffer ==
  ASSUME NEW m \in 0..Modulus(IntBytes) - 1, NEW n \in 0..Modulus(IntBytes) - 1, m # n
  PROVE  UnityPrintNumberUnsigned(m) # UnityPrintNumberUnsigned(n)
BY DecimalIs

LEMMA DecimalShape ==
  ASSUME NEW n \in 0..Modulus(IntBytes) - 1
  PROVE  /\ UnityPrintNumberUnsigned(n) \in Seq(Int)
         /\ Len(UnityPrintNumberUnsigned(n)) > 0
         /\ UnityPrintNumberUnsigned(n)[1] # Minus
<1> DEFINE s == UnityPrintNumberUnsigned(n)
<1>1. s \in Seq(48..57) /\ Len(s) > 0
  BY DecimalIs
<1> HIDE DEF s
<1>2. s \in Seq(Int)
  BY <1>1, 48..57 \subseteq Int, SeqWider
<1>3. 1 \in 1..Len(s)
  BY <1>1
<1>4. s[1] \in 48..57
  BY <1>1, <1>3
<1>5. s[1] # 45
  BY <1>4
<1> QED BY <1>1, <1>2, <1>5 DEF s, Minus

LEMMA IntegersDiffer ==
  ASSUME NEW m \in UNITY_INT, NEW n \in UNITY_INT, m # n
  PROVE  UnityPrintNumber(m) # UnityPrintNumber(n)
<1> DEFINE U(k) == UnityPrintNumberUnsigned(k)
           top == Modulus(IntBytes) - 1
<1>1. m \in Int /\ n \in Int
  BY UnityInt
<1>2. ASSUME NEW k \in UNITY_INT
      PROVE  /\ k >= 0 => UnityPrintNumber(k) = U(k) /\ k \in 0..top
             /\ k < 0 => UnityPrintNumber(k) = <<Minus>> \o U(-k) /\ -k \in 0..top
  <2>1. k \in Int
    BY UnityInt
  <2>2. k < 0 => ToUnsigned(-k, IntBytes) = -k /\ -k \in 0..top
    BY UnityInt
  <2>3. k >= 0 => k \in 0..top /\ ~(k < 0)
    BY <2>1, UnityInt
  <2> HIDE DEF top
  <2> QED BY <2>1, <2>2, <2>3 DEF UnityPrintNumber
<1>3. ASSUME NEW k \in 0..top
      PROVE  /\ U(k) \in Seq(Int) /\ Len(U(k)) > 0 /\ U(k)[1] # Minus
             /\ <<Minus>> \in Seq(Int)
             /\ (<<Minus>> \o U(k))[1] = Minus
  <2>1. U(k) \in Seq(Int) /\ Len(U(k)) > 0 /\ U(k)[1] # Minus
    BY DecimalShape
  <2>2. <<Minus>> \in Seq(Int) /\ Minus \in Int
    BY DEF Minus
  <2> DEFINE u == U(k)
             c == Minus
  <2> HIDE DEF u, c
  <2>3. u \in Seq(Int) /\ c \in Int => (<<c>> \o u)[1] = c
    OBVIOUS
  <2> QED BY <2>1, <2>2, <2>3 DEF u, c
<1>4. ASSUME NEW j \in 0..top, NEW k \in 0..top, j # k PROVE U(j) # U(k)
  BY <1>4, DecimalsDiffer
<1> HIDE DEF U, top
<1>5. CASE m >= 0 /\ n >= 0
  BY <1>2, <1>4, <1>5
<1>6. CASE m < 0 /\ n < 0
  <2>1. -m # -n /\ -m \in 0..top /\ -n \in 0..top
    BY <1>1, <1>2, <1>6
  <2>2. <<Minus>> \o U(-m) # <<Minus>> \o U(-n)
    BY <1>3, <1>4, <2>1, JoinCancels
  <2> QED BY <1>2, <1>6, <2>2
<1>7. CASE m >= 0 /\ n < 0
  <2>1. UnityPrintNumber(m)[1] # Minus
    BY <1>2, <1>3, <1>7
  <2>2. UnityPrintNumber(n)[1] = Minus
    BY <1>2, <1>3, <1>7
  <2> QED BY <2>1, <2>2
<1>8. CASE m < 0 /\ n >= 0
  <2>1. UnityPrintNumber(n)[1] # Minus
    BY <1>2, <1>3, <1>8
  <2>2. UnityPrintNumber(m)[1] = Minus
    BY <1>2, <1>3, <1>8
  <2> QED BY <2>1, <2>2
<1> QED BY <1>1, <1>5, <1>6, <1>7, <1>8

(* Two numbers look different in every style, unless the style prints only *)
(* bytes in which they agree.                                              *)
LEMMA ShownDiffers ==
  ASSUME NEW t \in Types, NEW m \in UNITY_INT, NEW n \in UNITY_INT, m # n,
         t.range = "HEX" => ToUnsigned(m, t.size) # ToUnsigned(n, t.size),
         t.range = "CHAR" => m \in Characters /\ n \in Characters
  PROVE  Shown(m, t) # Shown(n, t)
<1>1. /\ t.size \in 1..IntBytes /\ t.range \in {"INT", "UINT", "HEX", "CHAR"}
      /\ IntBytes \in 1..IntBytes
  BY TypesAre
<1>2. m \in Int /\ n \in Int
  BY UnityInt
<1>3. CASE t.range = "INT"
  <2>1. Shown(m, t) = UnityPrintNumber(m) /\ Shown(n, t) = UnityPrintNumber(n)
    BY <1>3 DEF Shown, UnityPrintNumberByStyle
  <2> QED BY <2>1, IntegersDiffer
<1>4. CASE t.range = "UINT"
  <2> DEFINE u == ToUnsigned(m, IntBytes)
             v == ToUnsigned(n, IntBytes)
  <2>1. /\ Shown(m, t) = UnityPrintNumberUnsigned(u)
        /\ Shown(n, t) = UnityPrintNumberUnsigned(v)
    BY <1>4 DEF Shown, UnityPrintNumberByStyle
  <2>2. u \in 0..Modulus(IntBytes) - 1 /\ v \in 0..Modulus(IntBytes) - 1
    BY <1>1, <1>2, UnsignedIs
  <2>3. u # v
    <3>1. m \in -Half(IntBytes)..Half(IntBytes) - 1 /\ n \in -Half(IntBytes)..Half(IntBytes) - 1
      BY UnityInt
    <3>2. ToSigned(m, IntBytes) = m /\ ToSigned(n, IntBytes) = n
      BY <1>1, <1>2, <3>1, SignedRead
    <3> QED BY <1>1, <1>2, <3>2, SignedRead
  <2> HIDE DEF u, v
  <2> QED BY <2>1, <2>2, <2>3, DecimalsDiffer
<1>5. CASE t.range = "HEX"
  <2> DEFINE g == UnityPrintNumberHex(ToUnsigned(m, IntBytes), 2 * t.size)
             h == UnityPrintNumberHex(ToUnsigned(n, IntBytes), 2 * t.size)
             e == <<Zero, 120>>
  <2>1. Shown(m, t) = e \o g /\ Shown(n, t) = e \o h
    BY <1>5 DEF Shown, UnityPrintNumberByStyle
  <2>2. g \in Seq(Int) /\ Read(g, 2^NibbleBits) = ToUnsigned(m, t.size)
    BY <1>1, <1>2, HexIs
  <2>3. h \in Seq(Int) /\ Read(h, 2^NibbleBits) = ToUnsigned(n, t.size)
    BY <1>1, <1>2, HexIs
  <2>4. e \in Seq(Int)
    BY DEF Zero
  <2> HIDE DEF g, h, e
  <2>5. g # h
    BY <1>5, <2>2, <2>3
  <2> QED BY <2>1, <2>2, <2>3, <2>4, <2>5, JoinCancels
<1>6. CASE t.range = "CHAR"
  <2> DEFINE p == PrintCharacter(m)
             q == PrintCharacter(n)
             e == <<Quote>>
  <2>1. Shown(m, t) = e \o p \o e /\ Shown(n, t) = e \o q \o e
    BY <1>6 DEF Shown, UnityPrintNumberByStyle
  <2>2. p \in Seq(Int) /\ q \in Seq(Int) /\ p # q
    BY <1>6, CharacterIs, CharactersDiffer
  <2>3. e \in Seq(Int)
    BY DEF Quote
  <2> HIDE DEF p, q, e
  <2>4. e \o p # e \o q /\ e \o p \in Seq(Int) /\ e \o q \in Seq(Int)
    BY <2>2, <2>3, JoinCancels, SequenceJoin
  <2> QED BY <2>1, <2>3, <2>4, JoinCancels
<1> QED BY <1>1, <1>3, <1>4, <1>5, <1>6

LEMMA CharType ==
  ASSUME NEW t \in Types, t.range = "CHAR"
  PROVE  t.size = 1 /\ t.narrow = 1 /\ 1 \in 1..IntBytes
         /\ \A x \in Int : ToSigned(x, 1) \in Characters
<1>1. t.size = 1 /\ t.narrow = 1
  BY DEF Types, Type
<1>2. 1 \in 1..IntBytes
  BY NumbersAssumption
<1>3. ASSUME NEW x \in Int PROVE ToSigned(x, 1) \in Characters
  <2>1. ToSigned(x, 1) \in -Half(1)..Half(1) - 1
    BY <1>2, SignedIs
  <2> QED BY <2>1 DEF Characters, Half
<1> QED BY <1>1, <1>2, <1>3

(* What the macros make of two arguments.                                  *)
LEMMA ScalarsDiffer ==
  ASSUME NEW t \in Types, NEW x \in Int, NEW y \in Int, NEW macro,
         Narrow(macro, t, x) # Narrow(macro, t, y)
  PROVE  Shown(Narrow(macro, t, x), t) # Shown(Narrow(macro, t, y), t)
<1> DEFINE m == Narrow(macro, t, x)
           n == Narrow(macro, t, y)
<1>1. m \in UNITY_INT /\ n \in UNITY_INT
  BY NarrowFits
<1>2. /\ t.size \in 1..IntBytes /\ (t.range = "HEX" => t.size = t.narrow)
      /\ IntBytes \in 1..IntBytes /\ t.size <= IntBytes
  BY TypesAre
<1>3. ASSUME t.range = "HEX" PROVE ToUnsigned(m, t.size) # ToUnsigned(n, t.size)
  <2>1. ~SignedStyle(t) /\ t.size = t.narrow /\ t.size \in 1..IntBytes /\ t.size <= IntBytes
    BY <1>2, <1>3 DEF SignedStyle
  <2>2. CASE macro = "EQUAL"
    <3>1. m = ToSigned(x, t.size) /\ n = ToSigned(y, t.size)
      BY <1>3, <2>1, <2>2 DEF Narrow
    <3>2. /\ ToUnsigned(m, t.size) = ToUnsigned(x, t.size)
          /\ ToUnsigned(n, t.size) = ToUnsigned(y, t.size)
      BY <2>1, <3>1, SignedRead
    <3> QED BY <2>1, <3>1, <3>2, SignedRead
  <2>3. CASE macro # "EQUAL"
    <3> DEFINE u == ToUnsigned(x, t.size)
               v == ToUnsigned(y, t.size)
    <3>1. m = ToSigned(u, IntBytes) /\ n = ToSigned(v, IntBytes)
      BY <2>1, <2>3 DEF Narrow, Reinterpreted
    <3>2. u \in Int /\ v \in Int /\ ToUnsigned(u, t.size) = u /\ ToUnsigned(v, t.size) = v
      BY <2>1, UnsignedIs
    <3> HIDE DEF u, v
    <3>3. ToUnsigned(m, t.size) = u /\ ToUnsigned(n, t.size) = v
      BY <1>2, <2>1, <3>1, <3>2, Narrowed
    <3> QED BY <3>1, <3>3
  <2> QED BY <2>2, <2>3
<1>4. ASSUME t.range = "CHAR" PROVE m \in Characters /\ n \in Characters
  <2>1. m = ToSigned(x, 1) /\ n = ToSigned(y, 1)
    BY <1>4, CharType DEF Narrow, SignedStyle
  <2> QED BY <1>4, <2>1, CharType
<1> HIDE DEF m, n
<1>5. m # n
  BY DEF m, n
<1>6. Shown(m, t) # Shown(n, t)
  BY <1>1, <1>3, <1>4, <1>5, ShownDiffers
<1> QED BY <1>6 DEF m, n

(* What is read of two elements of an array.                               *)
LEMMA ElementsDiffer ==
  ASSUME NEW t \in Types, NEW u \in CellsOf(t), NEW v \in CellsOf(t), Load(t, u) # Load(t, v)
  PROVE  Shown(Load(t, u), t) # Shown(Load(t, v), t)
<1> DEFINE m == Load(t, u)
           n == Load(t, v)
<1>1. t.size \in 1..IntBytes /\ IntBytes \in 1..IntBytes /\ t.size <= IntBytes
  BY TypesAre
<1>2. u \in Int /\ v \in Int
  BY CellsAre
<1>3. m \in UNITY_INT /\ n \in UNITY_INT
  BY <1>1, <1>2, SignedFits DEF Load, Reinterpreted
<1>4. ASSUME t.range = "HEX" PROVE ToUnsigned(m, t.size) # ToUnsigned(n, t.size)
  <2>1. m = ToSigned(u, IntBytes) /\ n = ToSigned(v, IntBytes)
    BY <1>4 DEF Load, SignedStyle, Reinterpreted
  <2>2. /\ ToUnsigned(m, t.size) = ToUnsigned(u, t.size)
        /\ ToUnsigned(n, t.size) = ToUnsigned(v, t.size)
    BY <1>1, <1>2, <2>1, Narrowed
  <2>3. ToUnsigned(u, t.size) = u /\ ToUnsigned(v, t.size) = v
    BY <1>1, <1>2, UnsignedIs DEF CellsOf
  <2> QED BY <2>1, <2>2, <2>3
<1>5. ASSUME t.range = "CHAR" PROVE m \in Characters /\ n \in Characters
  <2>1. m = ToSigned(u, 1) /\ n = ToSigned(v, 1)
    BY <1>5, CharType DEF Load, SignedStyle
  <2> QED BY <1>2, <1>5, <2>1, CharType
<1> HIDE DEF m, n
<1>6. m # n
  BY DEF m, n
<1>7. Shown(m, t) # Shown(n, t)
  BY <1>3, <1>4, <1>5, <1>6, ShownDiffers
<1> QED BY <1>7 DEF m, n

(* Under a mask no wider than an int, numbers that differ show it.         *)
LEMMA BitsDiffer ==
  ASSUME NEW mask \in Int, NEW m \in Int, NEW n \in Int,
         ToUnsigned(mask, IntBytes) < Modulus(IntWidth), ~SameUnder(mask, m, n)
  PROVE  UnityPrintMask(mask, m) # UnityPrintMask(mask, n)
<1> DEFINE u == ToUnsigned(mask, IntBytes)
           width == Bits(IntWidth)
<1>1. IntBytes \in 1..IntBytes /\ IntWidth \in 1..IntBytes
  BY NumbersAssumption
<1>2. u \in Nat /\ width \in Nat /\ width \in Exponents
  BY <1>1, UnsignedIs, BitsOf
<1>3. PICK i \in Places : BitOf(mask, i) = 1 /\ BitOf(m, i) # BitOf(n, i)
  BY DEF SameUnder, Places
<1>4. i \in Nat /\ i \in Exponents /\ 2^i \in Nat \ {0}
  BY PlaceIs
<1>5. BitOf(mask, i) = (u \div 2^i) % 2
  BY DEF BitOf
<1>6. i < width
  <2> SUFFICES ASSUME ~(i < width) PROVE FALSE
    OBVIOUS
  <2>1. 2^width <= 2^i
    BY <1>2, <1>4, PowerDivides
  <2>2. u < 2^i
    <3>1. 2^width \in Nat
      BY <1>2, PowerNat
    <3> DEFINE p == 2^width
               q == 2^i
    <3>2. u < p /\ p <= q /\ p \in Nat /\ q \in Nat
      BY <1>4, <2>1, <3>1 DEF Modulus
    <3> HIDE DEF p, q, u
    <3>3. u < q
      BY <1>2, <3>2
    <3> QED BY <3>3 DEF q
  <2>3. u = 0 * 2^i + u /\ u \in 0..2^i - 1
    <3> DEFINE q == 2^i
    <3>1. q \in Nat
      BY <1>4
    <3> HIDE DEF u, q
    <3>2. u < q => u = 0 * q + u /\ u \in 0..q - 1
      BY <1>2, <3>1
    <3> QED BY <2>2, <3>2 DEF q
  <2>4. u \div 2^i = 0
    <3> HIDE DEF u
    <3> QED BY <1>2, <1>4, <2>3, Remainder
  <2> QED BY <1>3, <1>5, <2>4
<1> HIDE DEF u
<1>7. width - i \in 1..width /\ width - (width - i) = i
  BY <1>2, <1>4, <1>6
<1> DEFINE Mark(k, j) == IF BitOf(mask, width - k) = 0 THEN LetterX
                         ELSE Zero + BitOf(j, width - k)
<1>8. ASSUME NEW j \in Int PROVE UnityPrintMask(mask, j)[width - i] = Zero + BitOf(j, i)
  <2>1. UnityPrintMask(mask, j) = [k \in 1..width |-> Mark(k, j)]
    BY DEF UnityPrintMask
  <2>2. Mark(width - i, j) = Zero + BitOf(j, i)
    <3>1. BitOf(mask, width - (width - i)) = 1
      BY <1>3, <1>7, Zenon
    <3>2. BitOf(mask, width - (width - i)) # 0
      BY <3>1
    <3>3. Mark(width - i, j) = Zero + BitOf(j, width - (width - i))
      BY <3>2
    <3> QED BY <1>7, <3>3, Zenon
  <2> HIDE DEF width, Mark
  <2> QED BY <1>7, <2>1, <2>2
<1>9. BitOf(m, i) \in {0, 1} /\ BitOf(n, i) \in {0, 1}
  BY BitIs
<1>10. Zero + BitOf(m, i) # Zero + BitOf(n, i)
  BY <1>3, <1>9 DEF Zero
<1> QED BY <1>8, <1>10

-----------------------------------------------------------------------------
(* What a failure prints: texts.                                           *)

\* The text r is s with t after it.
Continues(r, s, t) ==
  /\ r \in Seq(Int) /\ Len(r) = Len(s) + Len(t)
  /\ \A x \in 1..Len(s) : r[x] = s[x]
  /\ \A x \in 1..Len(t) : r[Len(s) + x] = t[x]

LEMMA GatherStep ==
  ASSUME NEW N \in Nat, NEW a, NEW g, Gathers(N, Int, a, g),
         NEW k \in 1..N, a[k] \in Seq(Int)
  PROVE  Continues(g[k], g[k - 1], a[k])
<1> DEFINE b == g[k - 1]
           c == a[k]
<1>1. k \in 0..N /\ k - 1 \in 0..N
  OBVIOUS
<1>2. g[k] = b \o c /\ g[k] \in Seq(Int) /\ b \in Seq(Int) /\ c \in Seq(Int)
  BY <1>1 DEF Gathers
<1> HIDE DEF b, c
<1>3. b \o c = [x \in 1..Len(b) + Len(c) |-> IF x <= Len(b) THEN b[x] ELSE c[x - Len(b)]]
  BY <1>2, Joined
<1>4. Len(b) \in Nat /\ Len(c) \in Nat /\ Len(b \o c) = Len(b) + Len(c)
  BY <1>2
<1>5. \A x \in 1..Len(b) : (b \o c)[x] = b[x]
  BY <1>3, <1>4
<1>6. ASSUME NEW x \in 1..Len(c) PROVE (b \o c)[Len(b) + x] = c[x]
  <2>1. Len(b) + x \in 1..Len(b) + Len(c) /\ ~(Len(b) + x <= Len(b)) /\ (Len(b) + x) - Len(b) = x
    BY <1>4
  <2> QED BY <1>3, <2>1
<1> QED BY <1>2, <1>4, <1>5, <1>6 DEF b, c, Continues

LEMMA GatherBegins ==
  ASSUME NEW N \in Nat, NEW a, NEW g, Gathers(N, Int, a, g), \A k \in 1..N : a[k] \in Seq(Int),
         NEW j \in 0..N, NEW l \in j..N
  PROVE  /\ Len(g[j]) \in Nat /\ Len(g[l]) \in Nat /\ Len(g[j]) <= Len(g[l])
         /\ \A x \in 1..Len(g[j]) : g[l][x] = g[j][x]
<1> DEFINE Begun(y) == Len(g[j]) <= Len(g[y]) /\ \A x \in 1..Len(g[j]) : g[y][x] = g[j][x]
           bad == {y \in j..N : ~Begun(y)}
<1>1. ASSUME NEW m \in 0..N PROVE g[m] \in Seq(Int) /\ Len(g[m]) \in Nat
  <2>1. g[m] \in Seq(Int)
    BY DEF Gathers
  <2> QED BY <2>1
<1>2. bad = {}
  <2> SUFFICES ASSUME bad # {} PROVE FALSE
    OBVIOUS
  <2>1. bad \in SUBSET Nat
    OBVIOUS
  <2>2. PICK m \in bad : \A i \in bad : m <= i
    <3> HIDE DEF bad
    <3> QED BY <2>1, LeastNat
  <2>3. m \in j..N /\ ~Begun(m) /\ m \in Nat
    BY <2>2
  <2>4. m # j
    <3>1. Begun(j)
      BY <1>1
    <3> HIDE DEF Begun
    <3> QED BY <2>3, <3>1
  <2>5. m \in 1..N /\ m - 1 \in j..N /\ ~(m <= m - 1) /\ m - 1 \in 0..N
    BY <2>3, <2>4
  <2>6. Begun(m - 1)
    <3> HIDE DEF Begun
    <3> QED BY <2>2, <2>5
  <2>7. /\ Len(g[m]) = Len(g[m - 1]) + Len(a[m]) /\ a[m] \in Seq(Int)
        /\ \A x \in 1..Len(g[m - 1]) : g[m][x] = g[m - 1][x]
    <3>1. a[m] \in Seq(Int)
      BY <2>5
    <3>2. m \in 1..N
      BY <2>5
    <3>3. Continues(g[m], g[m - 1], a[m])
      BY <3>1, <3>2, GatherStep
    <3> QED BY <3>1, <3>3 DEF Continues
  <2>8. Len(a[m]) \in Nat /\ Len(g[m - 1]) \in Nat /\ Len(g[j]) \in Nat
    BY <1>1, <2>5, <2>7
  <2>9. Len(g[j]) <= Len(g[m])
    <3>1. \A x \in Nat, y \in Nat, z \in Nat : x <= y => x <= y + z
      OBVIOUS
    <3>2. Len(g[j]) <= Len(g[m - 1])
      BY <2>6
    <3>3. Len(g[j]) <= Len(g[m - 1]) + Len(a[m])
      BY <2>8, <3>1, <3>2
    <3> QED BY <2>7, <3>3, Zenon
  <2>10. ASSUME NEW x \in 1..Len(g[j]) PROVE g[m][x] = g[j][x]
    <3>1. x \in 1..Len(g[m - 1])
      BY <2>6, <2>8
    <3> QED BY <2>6, <2>7, <3>1
  <2> QED BY <2>3, <2>9, <2>10
<1>3. Begun(l) /\ l \in 0..N
  <2> HIDE DEF Begun
  <2>1. l \in j..N
    OBVIOUS
  <2>2. l \in 0..N
    OBVIOUS
  <2> QED BY <1>2, <2>1, <2>2
<1> QED BY <1>1, <1>3

LEMMA GatherAgrees ==
  ASSUME NEW M \in Nat, NEW N \in Nat, NEW a, NEW b, NEW g, NEW h,
         Gathers(M, Int, a, g), Gathers(N, Int, b, h),
         NEW i \in 0..M, i <= N, \A k \in 1..i : a[k] = b[k]
  PROVE  g[i] = h[i]
<1> DEFINE bad == {m \in 0..i : g[m] # h[m]}
<1> SUFFICES ASSUME bad # {} PROVE FALSE
  <2>1. i \in 0..i
    OBVIOUS
  <2> QED BY <2>1
<1>1. bad \in SUBSET Nat
  OBVIOUS
<1>2. PICK m \in bad : \A k \in bad : m <= k
  <2> HIDE DEF bad
  <2> QED BY <1>1, LeastNat
<1>3. m \in 0..i /\ g[m] # h[m]
  BY <1>2
<1>4. m # 0
  BY <1>3 DEF Gathers
<1>5. m \in 1..i /\ m \in 1..M /\ m \in 1..N /\ m - 1 \in 0..i /\ ~(m <= m - 1)
  BY <1>3, <1>4
<1>6. g[m - 1] = h[m - 1]
  BY <1>2, <1>5
<1>7. g[m] = g[m - 1] \o a[m] /\ h[m] = h[m - 1] \o b[m] /\ a[m] = b[m]
  BY <1>5 DEF Gathers
<1> QED BY <1>3, <1>6, <1>7

(* Two texts spelt from the same pieces up to one place are different when *)
(* one ends there, or when the pieces there are told apart.                *)
LEMMA SpellingsDiffer ==
  ASSUME NEW M \in Nat, NEW N \in Nat, NEW a, NEW b, NEW g, NEW h,
         Gathers(M, Int, a, g), Gathers(N, Int, b, h),
         \A k \in 1..M : a[k] \in Seq(Int), \A k \in 1..N : b[k] \in Seq(Int),
         NEW i \in 1..M, i - 1 <= N, \A k \in 1..i - 1 : a[k] = b[k],
         Len(a[i]) > 0, N = i - 1 \/ (i <= N /\ Apart(a[i], b[i]))
  PROVE  g[M] # h[N]
<1>1. i \in Nat /\ i - 1 \in 0..M /\ i - 1 \in 0..N /\ i \in 0..M /\ M \in i..M
  OBVIOUS
<1>2. g[i - 1] = h[i - 1]
  BY <1>1, GatherAgrees
<1>3. Continues(g[i], g[i - 1], a[i]) /\ a[i] \in Seq(Int)
  <2>1. a[i] \in Seq(Int)
    OBVIOUS
  <2> QED BY <2>1, GatherStep
<1>4. /\ Len(g[i]) \in Nat /\ Len(g[M]) \in Nat /\ Len(g[i]) <= Len(g[M])
      /\ \A x \in 1..Len(g[i]) : g[M][x] = g[i][x]
  BY <1>1, GatherBegins
<1>5. g[i - 1] \in Seq(Int) /\ Len(g[i - 1]) \in Nat /\ Len(a[i]) \in Nat
  <2>1. g[i - 1] \in Seq(Int)
    BY <1>1 DEF Gathers
  <2> QED BY <1>3, <2>1
<1> DEFINE base == Len(g[i - 1])
<1>6. Len(g[i]) = base + Len(a[i])
  BY <1>3 DEF Continues
<1>7. CASE N = i - 1
  <2>1. Len(h[N]) = base
    BY <1>2, <1>7
  <2>2. Len(g[M]) # base
    <3>1. \A x \in Nat, y \in Nat, z \in Nat : y > 0 /\ x + y <= z => z # x
      OBVIOUS
    <3>2. base \in Nat /\ Len(a[i]) \in Nat /\ Len(a[i]) > 0 /\ Len(g[M]) \in Nat
      BY <1>4, <1>5
    <3>3. base + Len(a[i]) <= Len(g[M])
      BY <1>4, <1>6
    <3> HIDE DEF base
    <3> QED BY <3>1, <3>2, <3>3
  <2> QED BY <2>1, <2>2
<1>8. CASE i <= N /\ Apart(a[i], b[i])
  <2>1. i \in 1..N /\ i \in 0..N /\ N \in i..N
    BY <1>1, <1>8
  <2>2. b[i] \in Seq(Int)
    BY <2>1
  <2>3. Continues(h[i], h[i - 1], b[i])
    BY <2>1, <2>2, GatherStep
  <2>4. /\ Len(h[i]) \in Nat /\ Len(h[N]) \in Nat /\ Len(h[i]) <= Len(h[N])
        /\ \A x \in 1..Len(h[i]) : h[N][x] = h[i][x]
    BY <2>1, GatherBegins
  <2>5. PICK k \in Nat \ {0} : k <= Len(a[i]) /\ k <= Len(b[i]) /\ a[i][k] # b[i][k]
    BY <1>8 DEF Apart
  <2>6. Len(h[i]) = base + Len(b[i]) /\ Len(b[i]) \in Nat /\ base \in Nat
    BY <1>2, <1>5, <2>2, <2>3 DEF Continues
  <2> HIDE DEF base
  <2>7. /\ k \in 1..Len(a[i]) /\ k \in 1..Len(b[i])
        /\ base + k \in 1..Len(g[i]) /\ base + k \in 1..Len(h[i])
    BY <1>5, <1>6, <2>5, <2>6
  <2>8. g[i][base + k] = a[i][k]
    BY <1>3, <2>7 DEF base, Continues
  <2>9. h[i][base + k] = b[i][k]
    BY <1>2, <2>3, <2>7 DEF base, Continues
  <2>10. g[M][base + k] = a[i][k] /\ h[N][base + k] = b[i][k]
    BY <1>4, <2>4, <2>7, <2>8, <2>9
  <2> QED BY <2>5, <2>10
<1> QED BY <1>7, <1>8

\* As much of a text as is printed, character by character.
Spelt(s, l) == [i \in 1..l |-> PrintCharacter(s[i])]

LEMMA SpeltIs ==
  ASSUME NEW s \in Texts, s # NULL, NEW n \in Nat
  PROVE  LET l == IF n <= Len(s) THEN n ELSE Len(s)
         IN  /\ l \in Nat /\ l <= n /\ l <= Len(s) /\ (l = n \/ l = Len(s))
             /\ \A k \in 1..l : /\ Spelt(s, l)[k] = PrintCharacter(s[k])
                                /\ Spelt(s, l)[k] \in Seq(Int) /\ Len(Spelt(s, l)[k]) > 0
             /\ \E g : Gathers(l, Int, Spelt(s, l), g) /\ Quoted(s, n) = g[l]
             /\ Quoted(s, n) \in Seq(Int)
<1> DEFINE l == IF n <= Len(s) THEN n ELSE Len(s)
<1>1. Len(s) \in Nat /\ \A i \in 1..Len(s) : s[i] \in Characters
  BY TextsAre
<1>2. l \in Nat /\ l <= n /\ l <= Len(s) /\ (l = n \/ l = Len(s))
  BY <1>1
<1>3. Min({n, Len(s)}) = l
  BY <1>1, LesserOfTwo
<1> HIDE DEF l
<1>4. ASSUME NEW k \in 1..l
      PROVE  /\ Spelt(s, l)[k] = PrintCharacter(s[k])
             /\ Spelt(s, l)[k] \in Seq(Int) /\ Len(Spelt(s, l)[k]) > 0
  <2>1. Spelt(s, l)[k] = PrintCharacter(s[k])
    BY DEF Spelt
  <2>2. s[k] \in Characters
    BY <1>1, <1>2
  <2>3. PrintCharacter(s[k]) \in Seq(Int) /\ Len(PrintCharacter(s[k])) \in Nat \ {0}
    BY <2>2, CharacterIs
  <2> DEFINE p == PrintCharacter(s[k])
  <2> HIDE DEF p
  <2>4. Len(p) \in Nat \ {0} => Len(p) > 0
    OBVIOUS
  <2> QED BY <2>1, <2>3, <2>4 DEF p
<1>5. PICK g : Gathers(l, Int, Spelt(s, l), g)
  BY <1>2, <1>4, GatherExists
<1>6. FlattenSeq([i \in 1..l |-> Spelt(s, l)[i]]) = g[l]
  BY <1>2, <1>4, <1>5, FlattenIs
<1>7. [i \in 1..l |-> Spelt(s, l)[i]] = [i \in 1..l |-> PrintCharacter(s[i])]
  BY DEF Spelt
<1>8. Quoted(s, n) = g[l]
  <2>1. Quoted(s, n) = FlattenSeq([i \in 1..Min({n, Len(s)}) |-> PrintCharacter(s[i])])
    BY Zenon DEF Quoted, UnityPrintLen
  <2> QED BY <1>3, <1>6, <1>7, <2>1, Zenon
<1>9. g[l] \in Seq(Int)
  BY <1>2, <1>5 DEF Gathers
<1> QED BY <1>2, <1>4, <1>5, <1>8, <1>9 DEF l

LEMMA TextsDiffer ==
  ASSUME NEW e \in Texts, NEW a \in Texts, NEW n \in Nat, ~SameString(e, a, n),
         ~HasBackslash(e), ~HasBackslash(a)
  PROVE  Quoted(e, n) # Quoted(a, n)
<1>1. CASE e = NULL /\ a = NULL
  BY <1>1 DEF SameString
<1>2. CASE e = NULL /\ a # NULL
  <2>1. Quoted(e, n) = NULL
    BY <1>2 DEF Quoted
  <2>2. Quoted(a, n) \in Seq(Int)
    BY <1>2, SpeltIs
  <2> QED BY <2>1, <2>2, AssertsAssumption
<1>3. CASE e # NULL /\ a = NULL
  <2>1. Quoted(a, n) = NULL
    BY <1>3 DEF Quoted
  <2>2. Quoted(e, n) \in Seq(Int)
    BY <1>3, SpeltIs
  <2> QED BY <2>1, <2>2, AssertsAssumption
<1>4. CASE e # NULL /\ a # NULL
  <2> DEFINE bad == {i \in 1..n : CharAt(e, i) # CharAt(a, i)}
             le == IF n <= Len(e) THEN n ELSE Len(e)
             la == IF n <= Len(a) THEN n ELSE Len(a)
  <2>1. bad # {}
    BY <1>4 DEF SameString
  <2>2. bad \in SUBSET Nat
    OBVIOUS
  <2>3. PICK i \in bad : \A k \in bad : i <= k
    <3> HIDE DEF bad
    <3> QED BY <2>1, <2>2, LeastNat
  <2>4. i \in 1..n /\ CharAt(e, i) # CharAt(a, i)
    BY <2>3
  <2>5. ASSUME NEW k \in 1..i - 1 PROVE CharAt(e, k) = CharAt(a, k)
    <3>1. k \in 1..n /\ ~(i <= k)
      BY <2>4
    <3> QED BY <2>3, <3>1
  <2> HIDE DEF bad
  <2>6. /\ Len(e) \in Nat /\ \A k \in 1..Len(e) : e[k] \in Characters /\ e[k] # 0
        /\ Len(a) \in Nat /\ \A k \in 1..Len(a) : a[k] \in Characters /\ a[k] # 0
    BY <1>4, TextsAre
  <2>7. /\ \A k \in Nat \ {0} : CharAt(e, k) = IF k <= Len(e) THEN e[k] ELSE 0
        /\ \A k \in Nat \ {0} : CharAt(a, k) = IF k <= Len(a) THEN a[k] ELSE 0
    BY DEF CharAt
  <2>8. ASSUME NEW k \in 1..i - 1
        PROVE  (k <= Len(e) <=> k <= Len(a)) /\ (k <= Len(e) => e[k] = a[k])
    <3>1. k \in Nat \ {0} /\ CharAt(e, k) = CharAt(a, k)
      BY <2>4, <2>5
    <3>2. (k <= Len(e) => k \in 1..Len(e)) /\ (k <= Len(a) => k \in 1..Len(a))
      BY <2>6, <3>1
    <3> QED BY <2>6, <2>7, <3>1, <3>2
  <2>9. i \in Nat \ {0} /\ (i <= Len(e) \/ i <= Len(a))
    BY <2>4, <2>6, <2>7
  <2>10. i <= Len(e) => i - 1 <= Len(a)
    <3> SUFFICES ASSUME i <= Len(e), ~(i - 1 <= Len(a)) PROVE FALSE
      OBVIOUS
    <3>1. i - 1 \in 1..i - 1 /\ i - 1 <= Len(e)
      BY <2>6, <2>9
    <3> QED BY <2>8, <3>1
  <2>11. i <= Len(a) => i - 1 <= Len(e)
    <3> SUFFICES ASSUME i <= Len(a), ~(i - 1 <= Len(e)) PROVE FALSE
      OBVIOUS
    <3>1. i - 1 \in 1..i - 1 /\ i - 1 <= Len(a)
      BY <2>6, <2>9
    <3> QED BY <2>8, <3>1
  <2> DEFINE p == Spelt(e, le)
             q == Spelt(a, la)
  <2>12. /\ le \in Nat /\ le <= n /\ le <= Len(e) /\ (le = n \/ le = Len(e))
         /\ \A k \in 1..le : p[k] = PrintCharacter(e[k]) /\ p[k] \in Seq(Int) /\ Len(p[k]) > 0
         /\ \E g : Gathers(le, Int, p, g) /\ Quoted(e, n) = g[le]
    BY <1>4, SpeltIs
  <2>13. /\ la \in Nat /\ la <= n /\ la <= Len(a) /\ (la = n \/ la = Len(a))
         /\ \A k \in 1..la : q[k] = PrintCharacter(a[k]) /\ q[k] \in Seq(Int) /\ Len(q[k]) > 0
         /\ \E h : Gathers(la, Int, q, h) /\ Quoted(a, n) = h[la]
    BY <1>4, SpeltIs
  <2> HIDE DEF p, q, le, la
  <2>14. PICK g : Gathers(le, Int, p, g) /\ Quoted(e, n) = g[le]
    BY <2>12
  <2>15. PICK h : Gathers(la, Int, q, h) /\ Quoted(a, n) = h[la]
    BY <2>13
  <2>16. /\ le \in Nat /\ le <= Len(e) /\ (le = n \/ le = Len(e))
         /\ la \in Nat /\ la <= Len(a) /\ (la = n \/ la = Len(a))
    BY <2>12, <2>13
  <2>17. /\ \A k \in 1..le : p[k] \in Seq(Int) /\ Len(p[k]) > 0
         /\ \A k \in 1..la : q[k] \in Seq(Int) /\ Len(q[k]) > 0
    BY <2>12, <2>13
  <2>18. ASSUME NEW k \in 1..i - 1, k <= le, k <= la PROVE p[k] = q[k]
    <3>1. k \in 1..le /\ k \in 1..la /\ k <= Len(e)
      BY <2>6, <2>9, <2>16, <2>18
    <3>2. e[k] = a[k]
      BY <2>8, <3>1
    <3> QED BY <2>12, <2>13, <3>1, <3>2
  <2>19. ASSUME i <= le, i <= la PROVE Apart(p[i], q[i]) /\ Apart(q[i], p[i])
    <3>1. i \in 1..le /\ i \in 1..la /\ i \in 1..Len(e) /\ i \in 1..Len(a)
      BY <2>6, <2>9, <2>16, <2>19
    <3>2. e[i] # a[i]
      BY <2>4, <2>7, <2>9, <3>1
    <3>3. e[i] # Backslash /\ a[i] # Backslash
      <4>1. i \in DOMAIN e /\ i \in DOMAIN a
        <5>1. e \in Seq(Chars) /\ a \in Seq(Chars)
          BY <1>4, TextsAre
        <5> QED BY <3>1, <5>1
      <4> QED BY <1>4, <4>1 DEF HasBackslash
    <3>4. Apart(PrintCharacter(e[i]), PrintCharacter(a[i]))
      BY <2>6, <3>1, <3>2, <3>3, CharactersDiffer
    <3>5. p[i] = PrintCharacter(e[i]) /\ q[i] = PrintCharacter(a[i])
      BY <2>12, <2>13, <3>1
    <3>6. Apart(p[i], q[i])
      BY <3>4, <3>5
    <3> QED BY <3>6 DEF Apart
  <2>20. CASE i <= Len(e)
    <3>1. i <= le /\ i \in 1..le /\ i - 1 <= la
      BY <2>4, <2>6, <2>9, <2>10, <2>16, <2>20
    <3>2. la = i - 1 \/ i <= la
      BY <2>9, <2>16, <3>1
    <3>3. \A k \in 1..i - 1 : p[k] = q[k]
      <4>1. \A k \in 1..i - 1 : k <= le /\ k <= la
        BY <2>9, <2>16, <3>1
      <4> QED BY <2>18, <4>1
    <3>4. g[le] # h[la]
      <4>1. la = i - 1 \/ (i <= la /\ Apart(p[i], q[i]))
        BY <2>19, <3>1, <3>2
      <4>2. Len(p[i]) > 0
        BY <2>17, <3>1
      <4>3. Gathers(le, Int, p, g) /\ Gathers(la, Int, q, h) /\ le \in Nat /\ la \in Nat
        BY <2>14, <2>15, <2>16
      <4>4. /\ \A k \in 1..le : p[k] \in Seq(Int)
            /\ \A k \in 1..la : q[k] \in Seq(Int)
        BY <2>17
      <4> QED BY <3>1, <3>3, <4>1, <4>2, <4>3, <4>4, SpellingsDiffer
    <3> QED BY <2>14, <2>15, <3>4
  <2>21. CASE i <= Len(a)
    <3>1. i <= la /\ i \in 1..la /\ i - 1 <= le
      BY <2>4, <2>6, <2>9, <2>11, <2>16, <2>21
    <3>2. le = i - 1 \/ i <= le
      BY <2>9, <2>16, <3>1
    <3>3. \A k \in 1..i - 1 : q[k] = p[k]
      <4>1. \A k \in 1..i - 1 : k <= le /\ k <= la
        BY <2>9, <2>16, <3>1
      <4> QED BY <2>18, <4>1
    <3>4. h[la] # g[le]
      <4>1. le = i - 1 \/ (i <= le /\ Apart(q[i], p[i]))
        BY <2>19, <3>1, <3>2
      <4>2. Len(q[i]) > 0
        BY <2>17, <3>1
      <4>3. Gathers(le, Int, p, g) /\ Gathers(la, Int, q, h) /\ le \in Nat /\ la \in Nat
        BY <2>14, <2>15, <2>16
      <4>4. /\ \A k \in 1..le : p[k] \in Seq(Int)
            /\ \A k \in 1..la : q[k] \in Seq(Int)
        BY <2>17
      <4> QED BY <3>1, <3>3, <4>1, <4>2, <4>3, <4>4, SpellingsDiffer
    <3> QED BY <2>14, <2>15, <3>4
  <2> QED BY <2>9, <2>20, <2>21
<1> QED BY <1>1, <1>2, <1>3, <1>4

-----------------------------------------------------------------------------
(* What a failure prints: the verdicts.                                    *)

\* The result is a failure with two values to show.
ShowsTwo == "shown" \in DOMAIN result /\ result.why \in {"values", "delta", "memory"}

LEMMA FailIs ==
  ASSUME NEW why, NEW element, NEW expected, NEW was
  PROVE  LET f == Fail(why, element, expected, was)
         IN  f.why = why /\ f.element = element /\ f.shown[1] = expected /\ f.shown[2] = was
BY DEF Fail

LEMMA PassShowsNothing ==
  /\ "shown" \notin DOMAIN Pass
  /\ Pointless.why \notin {"values", "delta", "memory"}
BY DEF Pass, Pointless, Fail

(* Two values no distance apart are one.                                   *)
LEMMA ApartDiffer ==
  ASSUME NEW t, NEW m \in Int, NEW n \in Int, NEW d \in Nat, ~(Distance(t, m, n) <= d)
  PROVE  m # n
<1> SUFFICES ASSUME m = n PROVE FALSE
  OBVIOUS
<1>1. m - n = 0 /\ n - m = 0
  OBVIOUS
<1>2. ToUnsigned(0, IntBytes) = 0
  <2>1. IntBytes \in 1..IntBytes
    BY NumbersAssumption
  <2>2. 0 \in 0..Modulus(IntBytes) - 1
    BY <2>1, ModulusIs
  <2> QED BY <2>1, <2>2, UnsignedIs
<1>3. Distance(t, m, n) = 0
  BY <1>1, <1>2 DEF Distance
<1> QED BY <1>3

(* The number of elements of a call on arrays.                             *)
LEMMA CountIs ==
  ASSUME VerdictInv,
         call.macro \in {"ARRAY_EQUAL", "ARRAY_WITHIN", "EACH_EQUAL", "STRING_ARRAY", "MEMORY"}
  PROVE  call.count \in Nat
<1>1. \A n \in 0..MaxElements : n \in Nat
  BY AssertsAssumption
<1>2. CASE call.macro \in {"ARRAY_EQUAL", "ARRAY_WITHIN"}
  <2>1. \A t, n : \A c \in ArrayCalls(t, n) : c.count = n
    BY DEF ArrayCalls
  <2> QED BY <1>1, <1>2, <2>1 DEF VerdictInv, CallKinds
<1>3. CASE call.macro = "EACH_EQUAL"
  <2>1. \A t, n : \A c \in EachCalls(t, n) : c.count = n
    BY DEF EachCalls
  <2> QED BY <1>1, <1>3, <2>1 DEF VerdictInv, CallKinds
<1>4. CASE call.macro = "STRING_ARRAY"
  <2>1. \A n : \A c \in StringArrayCalls(n) : c.count = n
    BY DEF StringArrayCalls
  <2> QED BY <1>1, <1>4, <2>1 DEF VerdictInv, CallKinds
<1>5. CASE call.macro = "MEMORY"
  <2>1. \A n, length : \A c \in MemoryCalls(n, length) : c.count = n
    BY DEF MemoryCalls
  <2> QED BY <1>1, <1>5, <2>1 DEF VerdictInv, CallKinds
<1> QED BY <1>2, <1>3, <1>4, <1>5

(* A failure of a loop over elements is that of one of them.               *)
LEMMA LoopFails ==
  ASSUME NEW f, DOMAIN f \in SUBSET Nat, call.count \in Nat,
         result = Arrays(call, FirstFailure(f)), ShowsTwo
  PROVE  Compared /\ \E i \in DOMAIN f : result = f[i]
<1>1. /\ result # Pass /\ result # Pointless
      /\ result # Fail("expected NULL", 0, <<>>, <<>>)
      /\ result # Fail("actual NULL", 0, <<>>, <<>>)
  <2>1. \A why : Fail(why, 0, <<>>, <<>>).why = why
    BY FailIs
  <2> QED BY <2>1, PassShowsNothing DEF ShowsTwo
<1>2. Compared /\ result = FirstFailure(f)
  <2> DEFINE compared == FirstFailure(f)
             count == call.count
  <2>1. /\ count = 0 => result = Pointless
        /\ count > 0 /\ call.alias => result = Pass
        /\ count > 0 /\ ~call.alias /\ call.expected = NULL =>
             result = Fail("expected NULL", 0, <<>>, <<>>)
        /\ count > 0 /\ ~call.alias /\ call.expected # NULL /\ call.actual = NULL =>
             result = Fail("actual NULL", 0, <<>>, <<>>)
        /\ Compared => result = compared
    <3> HIDE DEF compared
    <3>1. result = Arrays(call, compared)
      BY DEF compared
    <3>2. count = 0 /\ ~(count > 0) => Arrays(call, compared) = Pointless
      BY Zenon DEF Arrays
    <3>3. count > 0 /\ count # 0 /\ call.alias => Arrays(call, compared) = Pass
      BY Zenon DEF Arrays
    <3>4. /\ count > 0 /\ count # 0 /\ ~call.alias /\ call.expected = NULL =>
               Arrays(call, compared) = Fail("expected NULL", 0, <<>>, <<>>)
          /\ count > 0 /\ count # 0 /\ ~call.alias /\ call.expected # NULL /\ call.actual = NULL =>
               Arrays(call, compared) = Fail("actual NULL", 0, <<>>, <<>>)
      BY Zenon DEF Arrays
    <3>5. count # 0 /\ Compared => Arrays(call, compared) = compared
      BY Zenon DEF Arrays, Compared
    <3>6. (count = 0 => ~(count > 0)) /\ (count > 0 => count # 0) /\ (Compared => count > 0)
      BY DEF Compared
    <3> QED BY <3>1, <3>2, <3>3, <3>4, <3>5, <3>6
  <2>2. count = 0 \/ count > 0
    OBVIOUS
  <2> HIDE DEF compared
  <2> QED BY <1>1, <2>1, <2>2 DEF Compared, compared
<1>3. DOMAIN f # {}
  BY <1>1, <1>2 DEF FirstFailure
<1> DEFINE first == CHOOSE i \in DOMAIN f : FirstIn(i, DOMAIN f)
<1>4. first \in DOMAIN f
  BY <1>3, LeastNat DEF FirstIn
<1>5. result = f[first]
  BY <1>2, <1>3 DEF FirstFailure
<1> QED BY <1>2, <1>4, <1>5

LEMMA ScalarVisible ==
  ASSUME VerdictInv, ShowsTwo, call.macro \in {"EQUAL", "WITHIN"}
  PROVE  result.shown[1] # result.shown[2]
<1> DEFINE t == call.type
           m == Scalar(call.expected)
           n == Scalar(call.actual)
<1>1. result # Nothing
  BY DEF ShowsTwo, Nothing
<1>2. t \in Types /\ call.expected \in Int /\ call.actual \in Int
  <2>1. call \in ScalarCalls \cup WithinCalls
    BY DEF VerdictInv, CallKinds, ScalarMacros
  <2>2. Values \subseteq Int
    BY AssertsAssumption DEF UNITY_INT
  <2> QED BY <2>1, <2>2 DEF ScalarCalls, WithinCalls
<1>3. m \in Int /\ n \in Int
  BY <1>2, NarrowFits DEF Scalar, UNITY_INT
<1>4. m # n /\ \E why : result = Fail(why, 0, Shown(m, t), Shown(n, t))
  <2>1. CASE call.macro = "EQUAL"
    <3>1. result = UnityAssertEqualNumber(m, n, t)
      BY <1>1, <2>1 DEF VerdictInv, Answered, Reported
    <3> HIDE DEF m, n, t
    <3> QED BY <3>1, PassShowsNothing DEF UnityAssertEqualNumber, ShowsTwo
  <2>2. CASE call.macro = "WITHIN"
    <3> DEFINE d == ToUnsigned(call.delta, t.narrow)
    <3>1. result = UnityAssertNumbersWithin(d, m, n, t)
      BY <1>1, <2>2 DEF VerdictInv, Answered, Reported
    <3>2. d \in Nat
      <4>1. call.delta \in Deltas
        BY <2>2 DEF VerdictInv, CallKinds, WithinCalls
      <4>2. call.delta \in Int /\ t.narrow \in 1..IntBytes
        <5>1. Deltas \subseteq Int
          BY AssertsAssumption
        <5>2. t.narrow \in 1..IntBytes
          BY <1>2, TypesAre
        <5> QED BY <4>1, <5>1, <5>2
      <4> QED BY <4>2, UnsignedIs
    <3> HIDE DEF m, n, t, d
    <3>3. ~(Distance(t, n, m) <= d) /\ result = Fail("delta", 0, Shown(m, t), Shown(n, t))
      BY <3>1, PassShowsNothing DEF UnityAssertNumbersWithin, ShowsTwo
    <3> QED BY <1>3, <3>2, <3>3, ApartDiffer
  <2> QED BY <2>1, <2>2
<1>5. Shown(m, t) # Shown(n, t)
  BY <1>2, <1>4, ScalarsDiffer DEF Scalar
<1> HIDE DEF m, n, t
<1> QED BY <1>4, <1>5, FailIs

LEMMA LoadFits ==
  ASSUME NEW t \in Types, NEW u \in CellsOf(t)
  PROVE  Load(t, u) \in UNITY_INT /\ Load(t, u) \in Int
<1>1. t.size \in 1..IntBytes /\ IntBytes \in 1..IntBytes /\ u \in Int
  BY TypesAre, CellsAre
<1>2. Load(t, u) \in UNITY_INT
  BY <1>1, SignedFits DEF Load, Reinterpreted
<1>3. Load(t, u) \in Int
  BY <1>2 DEF UNITY_INT
<1> QED BY <1>2, <1>3

LEMMA DistanceNat ==
  ASSUME NEW t, NEW m \in Int, NEW n \in Int
  PROVE  Distance(t, m, n) \in Nat
<1>1. IntBytes \in 1..IntBytes /\ m - n \in Int /\ n - m \in Int
  BY NumbersAssumption
<1>2. ToUnsigned(m - n, IntBytes) \in Nat /\ ToUnsigned(n - m, IntBytes) \in Nat
  BY <1>1, UnsignedIs
<1> QED BY <1>2 DEF Distance

LEMMA BitsVisible ==
  ASSUME VerdictInv, ShowsTwo, call.macro = "BITS",
         ToUnsigned(call.mask, IntBytes) < 2^Bits(IntWidth)
  PROVE  result.shown[1] # result.shown[2]
<1>1. result = UnityAssertBits(call.mask, call.expected, call.actual)
  BY DEF VerdictInv, Answered, Reported, ShowsTwo, Nothing
<1>2. call.mask \in Int /\ call.expected \in Int /\ call.actual \in Int
  <2>1. call \in BitsCalls
    BY DEF VerdictInv, CallKinds
  <2>2. Values \subseteq Int
    BY AssertsAssumption DEF UNITY_INT
  <2> QED BY <2>1, <2>2 DEF BitsCalls
<1>3. /\ ~SameUnder(call.mask, call.expected, call.actual)
      /\ result = Fail("values", 0, UnityPrintMask(call.mask, call.expected),
                       UnityPrintMask(call.mask, call.actual))
  BY <1>1, PassShowsNothing DEF UnityAssertBits, ShowsTwo
<1>4. UnityPrintMask(call.mask, call.expected) # UnityPrintMask(call.mask, call.actual)
  BY <1>2, <1>3, BitsDiffer DEF Modulus
<1> QED BY <1>3, <1>4, FailIs

LEMMA IntArrayVisible ==
  ASSUME VerdictInv, ShowsTwo, call.macro \in {"ARRAY_EQUAL", "EACH_EQUAL", "ARRAY_WITHIN"}
  PROVE  result.shown[1] # result.shown[2]
<1> DEFINE t == call.type
           n == call.count
           d == ToUnsigned(call.delta, t.narrow)
           u(i) == ExpectedAt(call, i)
           v(i) == call.actual[i]
           unequal == {i \in 1..n : Load(t, u(i)) # Load(t, v(i))}
           far == {i \in 1..n : Distance(t, Load(t, v(i)), Load(t, u(i))) > d}
           bad == IF call.macro = "ARRAY_WITHIN" THEN far ELSE unequal
           f == [i \in bad |-> Element(call, i)]
<1>1. n \in Nat
  BY CountIs
<1>2. result = Arrays(call, FirstFailure(f))
  <2>1. CASE call.macro = "ARRAY_WITHIN"
    <3>1. result = UnityAssertNumbersArrayWithin(call, d)
      BY <2>1 DEF VerdictInv, Answered, Reported, ShowsTwo, Nothing
    <3>2. f = [i \in far |-> Element(call, i)]
      BY <2>1
    <3> HIDE DEF f, d
    <3> QED BY <3>1, <3>2 DEF UnityAssertNumbersArrayWithin
  <2>2. CASE call.macro # "ARRAY_WITHIN"
    <3>1. result = UnityAssertEqualIntArray(call)
      BY <2>2 DEF VerdictInv, Answered, Reported, ShowsTwo, Nothing
    <3>2. f = [i \in unequal |-> Element(call, i)]
      BY <2>2
    <3> HIDE DEF f
    <3> QED BY <3>1, <3>2 DEF UnityAssertEqualIntArray
  <2> QED BY <2>1, <2>2
<1>3. DOMAIN f = bad /\ (\A i \in bad : f[i] = Element(call, i)) /\ bad \subseteq 1..n
  OBVIOUS
<1> HIDE DEF f
<1>4. Compared /\ \E i \in bad : result = Element(call, i)
  <2> HIDE DEF bad
  <2>1. DOMAIN f \in SUBSET Nat
    BY <1>1, <1>3
  <2> QED BY <1>1, <1>2, <1>3, <2>1, LoopFails
<1>5. PICK i \in bad : result = Element(call, i)
  BY <1>4
<1>6. t \in Types /\ u(i) \in CellsOf(t) /\ v(i) \in CellsOf(t)
      /\ (call.macro = "ARRAY_WITHIN" => d \in Nat)
  BY <1>3, <1>4, <1>5, IntArrayFacts
<1>7. Load(t, u(i)) \in Int /\ Load(t, v(i)) \in Int
  BY <1>6, LoadFits
<1>8. Load(t, u(i)) # Load(t, v(i))
  <2>1. CASE call.macro = "ARRAY_WITHIN"
    <3>1. Distance(t, Load(t, v(i)), Load(t, u(i))) > d
      BY <1>5, <2>1
    <3>2. Distance(t, Load(t, v(i)), Load(t, u(i))) \in Nat
      BY <1>7, DistanceNat
    <3> DEFINE far_ == Distance(t, Load(t, v(i)), Load(t, u(i)))
    <3> HIDE DEF far_, d
    <3>3. ~(far_ <= d)
      BY <1>6, <2>1, <3>1, <3>2 DEF far_
    <3> HIDE DEF u, v, t
    <3> QED BY <1>6, <1>7, <2>1, <3>3, ApartDiffer DEF far_
  <2>2. CASE call.macro # "ARRAY_WITHIN"
    BY <1>5, <2>2
  <2> QED BY <2>1, <2>2
<1>9. Shown(Load(t, u(i)), t) # Shown(Load(t, v(i)), t)
  <2> HIDE DEF u, v, t
  <2> QED BY <1>6, <1>8, ElementsDiffer
<1>10. \E why : result = Fail(why, i - 1, Shown(Load(t, u(i)), t), Shown(Load(t, v(i)), t))
  BY <1>5 DEF Element
<1> HIDE DEF u, v, t
<1> QED BY <1>9, <1>10, FailIs

(* What the loop over strings works on.                                    *)
LEMMA StringArrayFacts ==
  ASSUME VerdictInv, Compared, call.macro = "STRING_ARRAY"
  PROVE  \A i \in 1..call.count : ExpectedAt(call, i) \in Texts /\ call.actual[i] \in Texts
<1>1. PICK n \in 0..MaxElements : call \in StringArrayCalls(n)
  BY DEF VerdictInv, CallKinds
<1>2. /\ call.count = n /\ call.actual \in Pointers(Texts, n)
      /\ \/ call.flags = "ARRAY_TO_ARRAY" /\ call.expected \in Pointers(Texts, n)
         \/ call.flags = "ARRAY_TO_VAL"
            /\ call.expected \in {NULL} \cup {<<s>> : s \in Texts \ {NULL}}
  BY <1>1 DEF StringArrayCalls
<1>3. call.actual \in [1..n -> Texts]
  BY <1>2 DEF Compared, Pointers
<1>4. CASE call.flags = "ARRAY_TO_ARRAY"
  <2>1. call.expected \in [1..n -> Texts]
    BY <1>2, <1>4 DEF Compared, Pointers
  <2> QED BY <1>2, <1>3, <1>4, <2>1 DEF ExpectedAt
<1>5. CASE call.flags = "ARRAY_TO_VAL"
  <2>1. \E s \in Texts : call.expected = <<s>>
    BY <1>2, <1>5 DEF Compared
  <2>2. call.expected[1] \in Texts
    BY <2>1
  <2> QED BY <1>2, <1>3, <1>5, <2>2 DEF ExpectedAt
<1> QED BY <1>2, <1>4, <1>5

LEMMA NoLimitIs ==
  ASSUME NEW e \in Texts, NEW a \in Texts
  PROVE  NoLimit(e, a) \in Nat
<1> DEFINE le == IF e = NULL THEN 0 ELSE Len(e)
           la == IF a = NULL THEN 0 ELSE Len(a)
<1>1. le \in Nat /\ la \in Nat
  BY TextsAre
<1> HIDE DEF le, la
<1>2. le + la \in Nat
  BY <1>1
<1> QED BY <1>2 DEF NoLimit, le, la

(* Two texts without a backslash that differ before a length are shown.   *)
LEMMA TextsVisible ==
  ASSUME NEW e \in Texts, NEW a \in Texts, NEW n \in Nat,
         ~HasBackslash(e), ~HasBackslash(a),
         UnityAssertEqualStringLen(e, a, n) # Pass
  PROVE  /\ UnityAssertEqualStringLen(e, a, n) = Fail("values", 0, Quoted(e, n), Quoted(a, n))
         /\ Quoted(e, n) # Quoted(a, n)
<1>1. ~SameString(e, a, n)
  BY DEF UnityAssertEqualStringLen
<1>2. UnityAssertEqualStringLen(e, a, n) = Fail("values", 0, Quoted(e, n), Quoted(a, n))
  BY <1>1 DEF UnityAssertEqualStringLen, Strings
<1> QED BY <1>1, <1>2, TextsDiffer

LEMMA StringVisible ==
  ASSUME VerdictInv, ShowsTwo, call.macro \in TextMacros,
         \A s \in TextsCompared : ~HasBackslash(s)
  PROVE  result.shown[1] # result.shown[2]
<1> DEFINE e == call.expected
           a == call.actual
           n == IF call.macro = "STRING" THEN NoLimit(e, a) ELSE call.length
<1>1. call \in StringCalls
  BY DEF VerdictInv, CallKinds
<1>2. e \in Texts /\ a \in Texts /\ (call.macro = "STRING_LEN" => call.length \in Nat)
  BY <1>1 DEF StringCalls
<1>3. n \in Nat
  BY <1>2, NoLimitIs DEF TextMacros
<1>4. result = UnityAssertEqualStringLen(e, a, n)
  BY DEF VerdictInv, Answered, Reported, ShowsTwo, Nothing, TextMacros, UnityAssertEqualString
<1>5. ~HasBackslash(e) /\ ~HasBackslash(a)
  BY DEF TextsCompared, TextMacros
<1> HIDE DEF n, e, a
<1>6. result # Pass
  BY PassShowsNothing DEF ShowsTwo
<1>7. result = Fail("values", 0, Quoted(e, n), Quoted(a, n)) /\ Quoted(e, n) # Quoted(a, n)
  BY <1>2, <1>3, <1>4, <1>5, <1>6, TextsVisible
<1> QED BY <1>7, FailIs

LEMMA StringArrayVisible ==
  ASSUME VerdictInv, ShowsTwo, call.macro = "STRING_ARRAY",
         \A s \in TextsCompared : ~HasBackslash(s)
  PROVE  result.shown[1] # result.shown[2]
<1> DEFINE n == call.count
           same(i) == UnityAssertEqualString(ExpectedAt(call, i), call.actual[i])
           moved(i) == [same(i) EXCEPT !.element = i - 1]
           bad == {i \in 1..n : same(i) # Pass}
           f == [i \in bad |-> moved(i)]
<1>1. n \in Nat
  BY CountIs
<1>2. result = Arrays(call, FirstFailure(f))
  <2>1. result = UnityAssertEqualStringArray(call)
    BY DEF VerdictInv, Answered, Reported, ShowsTwo, Nothing
  <2> QED BY <2>1 DEF UnityAssertEqualStringArray
<1>3. DOMAIN f = bad /\ (\A i \in bad : f[i] = moved(i)) /\ bad \subseteq 1..n
  OBVIOUS
<1> HIDE DEF f
<1>4. Compared /\ \E i \in bad : result = moved(i)
  <2> HIDE DEF bad, moved
  <2>1. DOMAIN f \in SUBSET Nat
    BY <1>1, <1>3
  <2> QED BY <1>1, <1>2, <1>3, <2>1, LoopFails
<1>5. PICK i \in bad : result = moved(i)
  BY <1>4
<1> DEFINE e == ExpectedAt(call, i)
           a == call.actual[i]
           limit == NoLimit(e, a)
<1>6. e \in Texts /\ a \in Texts
  BY <1>3, <1>4, <1>5, StringArrayFacts
<1>7. limit \in Nat
  BY <1>6, NoLimitIs
<1>8. same(i) = UnityAssertEqualStringLen(e, a, limit) /\ same(i) # Pass
  BY <1>5 DEF UnityAssertEqualString
<1>9. \E x, y : same(i) = Fail("values", 0, x, y)
  BY <1>8 DEF UnityAssertEqualStringLen, Strings
<1>10. i \in Int /\ result.element + 1 = i
  <2>1. i \in 1..n
    BY <1>3, <1>5
  <2>2. \E x, y : result = Fail("values", i - 1, x, y)
    <3> HIDE DEF same
    <3> QED BY <1>5, <1>9, FailureOf
  <2>3. result.element = i - 1
    BY <2>2, FailIs
  <2> QED BY <1>1, <2>1, <2>3
<1>11. ~HasBackslash(e) /\ ~HasBackslash(a)
  <2>1. TextsCompared = {e, a}
    BY <1>10 DEF TextsCompared
  <2> HIDE DEF e, a
  <2> QED BY <2>1
<1> HIDE DEF e, a, limit, same
<1>12. same(i) = Fail("values", 0, Quoted(e, limit), Quoted(a, limit))
       /\ Quoted(e, limit) # Quoted(a, limit)
  BY <1>6, <1>7, <1>8, <1>11, TextsVisible
<1>13. result = Fail("values", i - 1, Quoted(e, limit), Quoted(a, limit))
  BY <1>5, <1>12, FailureOf
<1> QED BY <1>12, <1>13, FailIs

\* How UnityAssertEqualMemory shows a byte.
Hex8 == Type("HEX", 1, 1)

LEMMA Hex8Is ==
  /\ Hex8 \in Types /\ Hex8.range = "HEX" /\ Hex8.size = 1
  /\ Cells(1) \subseteq CellsOf(Hex8)
<1>1. 1 \in Sizes /\ 1 \in 1..IntBytes
  <2>1. 2^0 = 1 /\ 1 \in 1..IntBytes
    BY PowersAssumption, NumbersAssumption
  <2> QED BY <2>1 DEF Sizes
<1>2. Hex8 \in Types
  BY <1>1 DEF Types, Hex8
<1>3. Hex8.range = "HEX" /\ Hex8.size = 1
  BY DEF Hex8, Type
<1> QED BY <1>2, <1>3, CellsAre

(* Two bytes that differ are shown.                                        *)
LEMMA BytesDiffer ==
  ASSUME NEW u \in CellsOf(Hex8), NEW v \in CellsOf(Hex8), u # v
  PROVE  Shown(u, Hex8) # Shown(v, Hex8)
<1>1. /\ Hex8 \in Types /\ Hex8.range = "HEX" /\ Hex8.size = 1
      /\ IntBytes \in 1..IntBytes /\ 1 \in 1..IntBytes /\ 1 <= IntBytes
  <2>1. Hex8 \in Types /\ Hex8.range = "HEX" /\ Hex8.size = 1
    BY Hex8Is
  <2>2. IntBytes \in 1..IntBytes /\ 1 \in 1..IntBytes /\ 1 <= IntBytes
    BY NumbersAssumption
  <2> QED BY <2>1, <2>2
<1>2. u \in Int /\ v \in Int
  BY <1>1, CellsAre
<1>3. \A n : Load(Hex8, n) = ToSigned(n, IntBytes)
  BY <1>1 DEF Load, SignedStyle, Reinterpreted
<1>4. ASSUME NEW n \in Int PROVE Shown(Load(Hex8, n), Hex8) = Shown(n, Hex8)
  <2>1. ToUnsigned(ToSigned(n, IntBytes), IntBytes) = ToUnsigned(n, IntBytes)
    BY <1>1, SignedRead
  <2>2. \A k : Shown(k, Hex8) = <<Zero, 120>> \o UnityPrintNumberHex(ToUnsigned(k, IntBytes), 2 * 1)
    BY <1>1 DEF Shown, UnityPrintNumberByStyle
  <2> QED BY <1>3, <2>1, <2>2
<1>5. Load(Hex8, u) # Load(Hex8, v)
  <2>1. u \in 0..Modulus(IntBytes) - 1 /\ v \in 0..Modulus(IntBytes) - 1
    <3>1. /\ Modulus(1) <= Modulus(IntBytes)
          /\ Modulus(1) \in Nat /\ Modulus(IntBytes) \in Nat
      BY <1>1, ModulusIs
    <3> QED BY <1>1, <3>1 DEF CellsOf
  <2> QED BY <1>1, <1>3, <2>1, SignedCells
<1>6. Shown(Load(Hex8, u), Hex8) # Shown(Load(Hex8, v), Hex8)
  BY <1>1, <1>5, ElementsDiffer
<1> QED BY <1>2, <1>4, <1>6

LEMMA MemoryBytes ==
  ASSUME VerdictInv, call.macro = "MEMORY", Compared, call.length > 0
  PROVE  \A k \in 1..call.count * call.length :
           MemoryByte(k) \in Cells(1) /\ call.actual[k] \in Cells(1)
<1>1. PICK n \in 0..MaxElements, length \in 0..2 : call \in MemoryCalls(n, length)
  BY DEF VerdictInv, CallKinds
<1> DEFINE bytes == Cells(1)
           size == n * length
<1>2. /\ call.count = n /\ call.length = length
      /\ \/ call.flags = "ARRAY_TO_ARRAY" /\ call.expected \in Pointers(bytes, size)
         \/ call.flags = "ARRAY_TO_VAL" /\ call.expected \in [1..length -> bytes]
      /\ call.actual \in Pointers(bytes, size)
  <2> HIDE DEF bytes
  <2> QED BY <1>1 DEF MemoryCalls, bytes, Pointers
<1>3. n \in Nat \ {0} /\ length \in Nat \ {0}
  <2>1. MaxElements \in Nat
    BY AssertsAssumption
  <2> QED BY <1>2, <2>1 DEF Compared
<1>4. \A k \in Int : ((k - 1) % length) + 1 \in 1..length
  BY <1>3
<1> HIDE DEF bytes, size
<1>5. call.actual \in [1..size -> bytes]
  BY <1>2 DEF Pointers, Compared
<1>6. ASSUME NEW k \in 1..size PROVE MemoryByte(k) \in bytes
  <2>1. CASE call.flags = "ARRAY_TO_ARRAY"
    <3>1. call.expected \in [1..size -> bytes]
      BY <1>2, <2>1 DEF Pointers, Compared
    <3> QED BY <2>1, <3>1 DEF MemoryByte
  <2>2. CASE call.flags = "ARRAY_TO_VAL"
    <3>1. call.expected \in [1..length -> bytes]
      BY <1>2, <2>2
    <3>2. ((k - 1) % length) + 1 \in 1..length
      BY <1>4
    <3> QED BY <1>2, <2>2, <3>1, <3>2 DEF MemoryByte
  <2> QED BY <1>2, <2>1, <2>2
<1> QED BY <1>2, <1>5, <1>6 DEF size, bytes

LEMMA MemoryVisible ==
  ASSUME VerdictInv, ShowsTwo, call.macro = "MEMORY"
  PROVE  result.shown[1] # result.shown[2]
<1> DEFINE L == call.length
           size == call.count * L
           At(k) == [element |-> (k - 1) \div L, byte |-> (k - 1) % L]
           bad == {k \in 1..size : MemoryByte(k) # call.actual[k]}
           Different(k) ==
             Fail("memory", At(k), Shown(MemoryByte(k), Hex8), Shown(call.actual[k], Hex8))
           f == [k \in bad |-> Different(k)]
<1>1. call.count \in Nat /\ L \in Nat
  <2>1. PICK n \in 0..MaxElements, length \in 0..2 : call \in MemoryCalls(n, length)
    BY DEF VerdictInv, CallKinds
  <2>2. L = length
    BY <2>1 DEF MemoryCalls
  <2> QED BY <2>2, CountIs
<1>2. ~(call.count > 0 /\ L = 0) /\ result = Arrays(call, FirstFailure(f))
  <2>1. result = UnityAssertEqualMemory(call)
    BY DEF VerdictInv, Answered, Reported, ShowsTwo, Nothing
  <2>2. result # Pointless
    BY PassShowsNothing DEF ShowsTwo
  <2>3. ~(call.count > 0 /\ L = 0)
    BY <2>1, <2>2 DEF UnityAssertEqualMemory
  <2>4. \A k : MemoryByte(k) = IF call.flags = "ARRAY_TO_VAL" THEN call.expected[At(k).byte + 1]
                               ELSE call.expected[k]
    BY DEF MemoryByte
  <2>5. UnityAssertEqualMemory(call) = Arrays(call, FirstFailure(f))
    BY <2>3, <2>4 DEF UnityAssertEqualMemory, MemoryByte, Hex8
  <2> QED BY <2>1, <2>3, <2>5
<1>3. DOMAIN f = bad /\ (\A k \in bad : f[k] = Different(k)) /\ bad \subseteq 1..size
  OBVIOUS
<1> HIDE DEF f
<1>4. Compared /\ \E k \in bad : result = Different(k)
  <2>1. DOMAIN f \in SUBSET Nat
    <3>1. 1..size \subseteq Nat
      OBVIOUS
    <3> HIDE DEF bad
    <3> QED BY <1>3, <3>1
  <2> HIDE DEF bad, Different
  <2> QED BY <1>1, <1>2, <1>3, <2>1, LoopFails
<1>5. PICK k \in bad : result = Different(k)
  BY <1>4
<1>6. L > 0
  BY <1>1, <1>2, <1>4 DEF Compared
<1> DEFINE u == MemoryByte(k)
           v == call.actual[k]
<1>7. u \in CellsOf(Hex8) /\ v \in CellsOf(Hex8)
  <2>1. k \in 1..size
    BY <1>3, <1>5
  <2>2. u \in Cells(1) /\ v \in Cells(1)
    BY <1>4, <1>6, <2>1, MemoryBytes
  <2> QED BY <2>2, Hex8Is
<1>8. u # v
  BY <1>5
<1> HIDE DEF u, v, At
<1>9. Shown(u, Hex8) # Shown(v, Hex8)
  BY <1>7, <1>8, BytesDiffer
<1>10. result = Fail("memory", At(k), Shown(u, Hex8), Shown(v, Hex8))
  BY <1>5 DEF u, v
<1> QED BY <1>9, <1>10, FailIs

LEMMA VisibleInv == VerdictInv => FailureIsVisible
<1> SUFFICES ASSUME VerdictInv, ShowsTwo, call.macro \notin DOMAIN Comparisons,
                    call.macro = "BITS" => ToUnsigned(call.mask, IntBytes) < 2^Bits(IntWidth),
                    \A s \in TextsCompared : ~HasBackslash(s)
             PROVE  result.shown[1] # result.shown[2]
  BY DEF FailureIsVisible, ShowsTwo
<1>1. call.macro \in ShowingMacros
  BY DEF VerdictInv, Shows, ShowsTwo
<1>2. \/ call.macro \in {"EQUAL", "WITHIN"} \/ call.macro = "BITS"
      \/ call.macro \in {"ARRAY_EQUAL", "EACH_EQUAL", "ARRAY_WITHIN"}
      \/ call.macro \in TextMacros \/ call.macro = "STRING_ARRAY" \/ call.macro = "MEMORY"
  BY <1>1 DEF ShowingMacros, ScalarMacros
<1> QED BY <1>2, ScalarVisible, BitsVisible, IntArrayVisible, StringVisible,
           StringArrayVisible, MemoryVisible

(* When an assertion that integers, bits, memory or texts without a        *)
(* backslash are equal or within a delta fails, what it prints after       *)
(* Expected is not what it prints after Was; nothing is said of floats:    *)
(* no two numbers that differ in a style are printed alike, whatever the   *)
(* width, and no two texts that differ before the length are escaped into  *)
(* one.                                                                    *)
THEOREM FailureIsVisibleHolds == AssertionsSpec => []FailureIsVisible
BY VerdictHolds, VisibleInv, PTL
=============================================================================
