---------------------------- MODULE UnityAsserts ----------------------------
(***************************************************************************)
(* Unity's assertions on integers, arrays, strings and memory              *)
(* (unity/src/unity.c) as the TEST_ASSERT macros call them                 *)
(* (unity_internals.h).                                                    *)
(***************************************************************************)
EXTENDS UnityCalls

CONSTANTS
  Values,       \* the UNITY_INTs the scalar assertions are given
  Deltas,       \* the UNITY_UINTs given as delta
  Cells(_),     \* the contents of array elements of that many bytes
  Texts         \* the strings, NULL among them

\* The values of a char; where bytes are scaled down, what is printed as itself too.
Characters == -(2^(Bits(1) - 1))..2^(Bits(1) - 1) - 1 \cup Printable \cup {10, 13}

ASSUME AssertsAssumption ==
  /\ Values \subseteq UNITY_INT /\ Deltas \subseteq Nat /\ MaxElements \in Nat
  /\ \A size \in 1..IntBytes : Cells(size) \subseteq 0..2^Bits(size) - 1
  /\ NULL \in Texts /\ NULL \notin Seq(Int)
  /\ Texts \ {NULL} \subseteq Seq(Characters \ {0})   \* a 0 would end the text

Fail(why, element, expected, was) ==
  [verdict |-> "fail", why |-> why, element |-> element, shown |-> <<expected, was>>]
Pointless == Fail("pointless", 0, <<>>, <<>>)

-----------------------------------------------------------------------------

\* A display style, and how many bytes a scalar macro of it narrows to: the
\* INT and UINT macros print as an int but narrow nothing.
Type(range, size, narrow) == [range |-> range, size |-> size, narrow |-> narrow]

Sizes == {2^k : k \in 0..3} \cap 1..IntBytes

Types ==
  {Type(r, s, s) : r \in {"INT", "UINT", "HEX"}, s \in Sizes}
  \cup {Type(r, IntWidth, IntBytes) : r \in {"INT", "UINT"}}
  \cup {Type("CHAR", 1, 1)}

SignedStyle(t) == t.range \in {"INT", "CHAR"}

Reinterpreted(u) == ToSigned(u, IntBytes)   \* (UNITY_INT) of an unsigned value

\* The casts of the macros: TEST_ASSERT_EQUAL_HEX goes through a signed type.
Narrow(macro, t, x) ==
  IF SignedStyle(t) \/ (t.range = "HEX" /\ macro = "EQUAL")
  THEN ToSigned(x, t.narrow)
  ELSE Reinterpreted(ToUnsigned(x, t.narrow))

Shown(n, t) == UnityPrintNumberByStyle(n, t)

UnityAssertEqualNumber(expected, actual, t) ==
  IF expected = actual THEN Pass
  ELSE Fail("values", 0, Shown(expected, t), Shown(actual, t))

UnityAssertBits(mask, expected, actual) ==
  IF SameUnder(mask, expected, actual) THEN Pass
  ELSE Fail("values", 0, UnityPrintMask(mask, expected), UnityPrintMask(mask, actual))

\* UNITY_COMPARISON_T, as the relations it grants.
Comparisons ==
  [NOT_EQUAL        |-> {},
   GREATER_THAN     |-> {"greater"}, GREATER_OR_EQUAL |-> {"greater", "equal"},
   SMALLER_THAN     |-> {"smaller"}, SMALLER_OR_EQUAL |-> {"smaller", "equal"}]

Ordered(t, n) == IF SignedStyle(t) THEN n ELSE ToUnsigned(n, IntBytes)

UnityAssertGreaterOrLessOrEqualNumber(threshold, actual, compare, t) ==
  LET a == Ordered(t, actual)  b == Ordered(t, threshold)
      failed == \/ a = b /\ "equal" \notin compare
                \/ a > b /\ "smaller" \in compare
                \/ a < b /\ "greater" \in compare
  IN  IF failed THEN Fail("values", 0, Shown(actual, t), Shown(threshold, t)) ELSE Pass

(* A slip: the difference is taken in UNITY_INT.                           *)
DistanceSigned(t, m, n) ==
  LET d == ToSigned(m - n, IntBytes) IN IF d < 0 THEN -d ELSE d

\* The UNITY_UINT difference, larger minus smaller in the order of the style.
Distance(t, m, n) ==
  IF Ordered(t, m) > Ordered(t, n) THEN ToUnsigned(m - n, IntBytes)
                                   ELSE ToUnsigned(n - m, IntBytes)

UnityAssertNumbersWithin(delta, expected, actual, t) ==
  IF Distance(t, actual, expected) <= delta THEN Pass
  ELSE Fail("delta", 0, Shown(expected, t), Shown(actual, t))

-----------------------------------------------------------------------------

\* What every assertion on arrays asks of its pointers first, and otherwise.
Arrays(c, compared) ==
  CASE c.count = 0 -> Pointless
    [] c.count > 0 /\ c.alias -> Pass
    [] OTHER -> CASE c.expected = NULL -> Fail("expected NULL", 0, <<>>, <<>>)
                  [] c.expected # NULL /\ c.actual = NULL ->
                       Fail("actual NULL", 0, <<>>, <<>>)
                  [] OTHER -> compared

(* A slip: the elements are walked from the last one.                      *)
LastIn(i, bad) == \A k \in bad : k <= i

FirstIn(i, bad) == \A k \in bad : i <= k

\* The loop over the elements, given what each bad one would report: the first does.
FirstFailure(failures) ==
  LET bad == DOMAIN failures
  IN  IF bad = {} THEN Pass ELSE failures[CHOOSE i \in bad : FirstIn(i, bad)]

(* A slip: every element is read with its sign.                            *)
LoadSigned(t, cell) == ToSigned(cell, t.size)

\* An element read through the pointer type of its style, as a UNITY_INT.
Load(t, cell) == IF SignedStyle(t) THEN ToSigned(cell, t.size) ELSE Reinterpreted(cell)

Element(c, i) ==
  Fail(IF c.macro = "ARRAY_WITHIN" THEN "delta" ELSE "values", i - 1,
       Shown(Load(c.type, ExpectedAt(c, i)), c.type),
       Shown(Load(c.type, c.actual[i]), c.type))

UnityAssertEqualIntArray(c) ==
  LET bad == {i \in 1..c.count : Load(c.type, ExpectedAt(c, i)) # Load(c.type, c.actual[i])}
  IN  Arrays(c, FirstFailure([i \in bad |-> Element(c, i)]))

UnityAssertNumbersArrayWithin(c, delta) ==
  LET Apart(i) ==
        Distance(c.type, Load(c.type, c.actual[i]), Load(c.type, ExpectedAt(c, i)))
      bad == {i \in 1..c.count : Apart(i) > delta}
  IN  Arrays(c, FirstFailure([i \in bad |-> Element(c, i)]))

\* The EACH_EQUAL macros put the expected number in a cell of their own.
UnityNumToPtr(num, size) == <<ToUnsigned(num, size)>>

-----------------------------------------------------------------------------

CharAt(s, i) == IF i <= Len(s) THEN s[i] ELSE 0

(* A slip: the walk stops where the first string ends.                     *)
SameStringPrefix(expected, actual, length) ==
  IF expected = NULL \/ actual = NULL THEN expected = actual
  ELSE \A i \in 1..length : i <= Len(expected) => CharAt(expected, i) = CharAt(actual, i)

\* The loop stops where both strings end, so length may be any number.
SameString(expected, actual, length) ==
  IF expected = NULL \/ actual = NULL THEN expected = actual
  ELSE \A i \in 1..length : CharAt(expected, i) = CharAt(actual, i)

\* UnityAssertEqualString prints by UnityPrint, which does as UnityPrintLen on
\* the whole text unless UNITY_OUTPUT_COLOR is defined; here it is not.
Quoted(s, length) == IF s = NULL THEN NULL ELSE UnityPrintLen(s, length)

Strings(i, expected, actual, length) ==
  Fail("values", i, Quoted(expected, length), Quoted(actual, length))

NoLimit(expected, actual) ==
  (IF expected = NULL THEN 0 ELSE Len(expected)) + (IF actual = NULL THEN 0 ELSE Len(actual))

UnityAssertEqualStringLen(expected, actual, length) ==
  IF SameString(expected, actual, length) THEN Pass
  ELSE Strings(0, expected, actual, length)

UnityAssertEqualString(expected, actual) ==
  UnityAssertEqualStringLen(expected, actual, NoLimit(expected, actual))

UnityAssertEqualStringArray(c) ==
  LET Same(i) == UnityAssertEqualString(ExpectedAt(c, i), c.actual[i])
      bad == {i \in 1..c.count : Same(i) # Pass}
  IN  Arrays(c, FirstFailure([i \in bad |-> [Same(i) EXCEPT !.element = i - 1]]))

\* c.length bytes an element; a byte differs at its element and offset.
UnityAssertEqualMemory(c) ==
  IF c.count > 0 /\ c.length = 0 THEN Pointless
  ELSE LET At(k) == [element |-> (k - 1) \div c.length, byte |-> (k - 1) % c.length]
           ByteAt(k) == IF c.flags = "ARRAY_TO_VAL" THEN c.expected[At(k).byte + 1]
                        ELSE c.expected[k]
           hex8 == Type("HEX", 1, 1)
           bad == {k \in 1..c.count * c.length : ByteAt(k) # c.actual[k]}
           Different(k) ==
             Fail("memory", At(k), Shown(ByteAt(k), hex8), Shown(c.actual[k], hex8))
       IN  Arrays(c, FirstFailure([k \in bad |-> Different(k)]))

-----------------------------------------------------------------------------
(* The calls: each macro with its arguments.                               *)

Pointers(cells, n) == {NULL} \cup [1..n -> cells]

\* Two pointers may be one and the same; null pointers always are.
AliasOf(c) == c.alias \in ({c.expected = c.actual} \cup (IF c.expected = NULL THEN {} ELSE {FALSE}))

ScalarCalls ==
  [macro : {"EQUAL"} \cup DOMAIN Comparisons, type : Types, expected : Values, actual : Values]

WithinCalls ==
  [macro : {"WITHIN"}, type : Types, expected : Values, actual : Values, delta : Deltas]

BitsCalls == [macro : {"BITS"}, mask : Values, expected : Values, actual : Values]

ArrayCalls(t, n) ==
  {c \in [macro : {"ARRAY_EQUAL", "ARRAY_WITHIN"}, type : {t}, count : {n},
          flags : {"ARRAY_TO_ARRAY"}, alias : BOOLEAN, delta : Deltas,
          expected : Pointers(Cells(t.size), n), actual : Pointers(Cells(t.size), n)] :
     AliasOf(c)}

EachCalls(t, n) ==
  {[macro |-> "EACH_EQUAL", type |-> t, count |-> n, flags |-> "ARRAY_TO_VAL",
    alias |-> FALSE, number |-> x, actual |-> a,
    expected |-> UnityNumToPtr(Narrow("EQUAL", t, x), t.size)] :
      x \in Values, a \in Pointers(Cells(t.size), n)}

StringCalls ==
  [macro : {"STRING"}, expected : Texts, actual : Texts]
  \cup [macro : {"STRING_LEN"}, expected : Texts, actual : Texts, length : 0..3]

StringArrayCalls(n) ==
  {c \in [macro : {"STRING_ARRAY"}, count : {n}, flags : {"ARRAY_TO_ARRAY"}, alias : BOOLEAN,
          expected : Pointers(Texts, n), actual : Pointers(Texts, n)] : AliasOf(c)}
  \cup
  {c \in [macro : {"STRING_ARRAY"}, count : {n}, flags : {"ARRAY_TO_VAL"}, alias : BOOLEAN,
          expected : {NULL} \cup {<<s>> : s \in Texts \ {NULL}},
          actual : Pointers(Texts, n)] :
     c.alias = (c.expected = NULL /\ c.actual = NULL)}

MemoryCalls(n, length) ==
  {c \in [macro : {"MEMORY"}, count : {n}, length : {length}, flags : {"ARRAY_TO_ARRAY"},
          alias : BOOLEAN, expected : Pointers(Cells(1), n * length),
          actual : Pointers(Cells(1), n * length)] : AliasOf(c)}
  \cup
  [macro : {"MEMORY"}, count : {n}, length : {length}, flags : {"ARRAY_TO_VAL"},
   alias : {FALSE}, expected : [1..length -> Cells(1)], actual : [1..n * length -> Cells(1)]]

AssertsInit ==
  /\ result = Nothing
  /\ \/ call \in ScalarCalls \cup WithinCalls
     \/ call \in BitsCalls
     \/ \E t \in Types, n \in 0..MaxElements : call \in ArrayCalls(t, n) \cup EachCalls(t, n)
     \/ call \in StringCalls
     \/ \E n \in 0..MaxElements : call \in StringArrayCalls(n)
     \/ \E n \in 0..MaxElements, length \in 0..2 : call \in MemoryCalls(n, length)

Scalar(x) == Narrow(call.macro, call.type, x)

Equal ==
  /\ call.macro = "EQUAL"
  /\ Report(UnityAssertEqualNumber(Scalar(call.expected), Scalar(call.actual), call.type))

Compare ==
  /\ call.macro \in DOMAIN Comparisons
  /\ Report(UnityAssertGreaterOrLessOrEqualNumber(
       Scalar(call.expected), Scalar(call.actual), Comparisons[call.macro], call.type))

Within ==
  /\ call.macro = "WITHIN"
  /\ Report(UnityAssertNumbersWithin(ToUnsigned(call.delta, call.type.narrow),
       Scalar(call.expected), Scalar(call.actual), call.type))

TestBits ==
  /\ call.macro = "BITS"
  /\ Report(UnityAssertBits(call.mask, call.expected, call.actual))

EqualArray ==
  /\ call.macro \in {"ARRAY_EQUAL", "EACH_EQUAL"}
  /\ Report(UnityAssertEqualIntArray(call))

ArrayWithin ==
  /\ call.macro = "ARRAY_WITHIN"
  /\ Report(UnityAssertNumbersArrayWithin(call, ToUnsigned(call.delta, call.type.narrow)))

EqualString ==
  /\ call.macro = "STRING"
  /\ Report(UnityAssertEqualString(call.expected, call.actual))

EqualStringLen ==
  /\ call.macro = "STRING_LEN"
  /\ Report(UnityAssertEqualStringLen(call.expected, call.actual, call.length))

EqualStringArray ==
  /\ call.macro = "STRING_ARRAY"
  /\ Report(UnityAssertEqualStringArray(call))

EqualMemory ==
  /\ call.macro = "MEMORY"
  /\ Report(UnityAssertEqualMemory(call))

AssertsNext ==
  \/ Equal \/ Compare \/ Within \/ TestBits
  \/ EqualArray \/ ArrayWithin
  \/ EqualString \/ EqualStringLen \/ EqualStringArray \/ EqualMemory

-----------------------------------------------------------------------------

Reported(macros) == result # Nothing /\ call.macro \in macros

\* The value of x in the C type a macro is about.
Typed(t, x) == IF SignedStyle(t) THEN ToSigned(x, t.narrow) ELSE ToUnsigned(x, t.narrow)

(* A scalar assertion passes exactly when its relation holds between the   *)
(* values of the type it names: not the casts through a narrower or signed *)
(* type, nor the wrap of a difference taken in UNITY_UINT, shows.          *)
ScalarVerdict ==
  Reported({"EQUAL", "WITHIN"} \cup DOMAIN Comparisons) =>
    LET e == Typed(call.type, call.expected)  a == Typed(call.type, call.actual)
        holds == CASE call.macro = "EQUAL"            -> a = e
                   [] call.macro = "NOT_EQUAL"        -> a # e
                   [] call.macro = "GREATER_THAN"     -> a > e
                   [] call.macro = "GREATER_OR_EQUAL" -> a >= e
                   [] call.macro = "SMALLER_THAN"     -> a < e
                   [] call.macro = "SMALLER_OR_EQUAL" -> a <= e
                   [] call.macro = "WITHIN" ->
                        LET d == ToUnsigned(call.delta, call.type.narrow)
                        IN  e - d <= a /\ a <= e + d
    IN  (result = Pass) = holds

Compared == call.count > 0 /\ ~call.alias /\ call.expected # NULL /\ call.actual # NULL

\* The scalar assertion on element i, its values those of the element type.
ElementVerdict(i) ==
  LET t == call.type
      value(u) == IF SignedStyle(t) THEN ToSigned(u, t.size) ELSE ToUnsigned(u, t.size)
      passed(macro, u) == Narrow(macro, t, Reinterpreted(value(u)))
  IN  CASE call.macro = "ARRAY_EQUAL" ->
             UnityAssertEqualNumber(passed("EQUAL", call.expected[i]),
                                    passed("EQUAL", call.actual[i]), t)
        [] call.macro = "EACH_EQUAL" ->
             UnityAssertEqualNumber(passed("EQUAL", call.number),
                                    passed("EQUAL", call.actual[i]), t)
        [] call.macro = "ARRAY_WITHIN" ->
             UnityAssertNumbersWithin(ToUnsigned(call.delta, t.narrow),
               passed("WITHIN", call.expected[i]), passed("WITHIN", call.actual[i]), t)
        [] call.macro = "STRING_ARRAY" ->
             UnityAssertEqualString(
               call.expected[IF call.flags = "ARRAY_TO_VAL" THEN 1 ELSE i], call.actual[i])

(* An assertion on an array is the scalar assertion on every element, in   *)
(* order: it passes when all of them do, and otherwise reports the first   *)
(* that does not, with the same two values, whatever the element's size    *)
(* and sign (a number given to an EACH_EQUAL macro is first put in a cell).*)
ArrayAsScalars ==
  (Reported({"ARRAY_EQUAL", "ARRAY_WITHIN", "EACH_EQUAL", "STRING_ARRAY"}) /\ Compared) =>
    IF result = Pass THEN \A i \in 1..call.count : ElementVerdict(i) = Pass
    ELSE LET i == result.element + 1
         IN  /\ ElementVerdict(i) = [result EXCEPT !.element = 0]
             /\ \A k \in 1..i - 1 : ElementVerdict(k) = Pass

\* How much of two strings TEST_ASSERT_EQUAL_STRING_LEN is about.
Limit(s) == IF call.macro = "STRING_LEN" THEN SubSeq(s, 1, Min({call.length, Len(s)})) ELSE s

(* Two strings are equal when their texts are, cut at the length if there  *)
(* is one: a string is never equal to one it only begins with, and a null  *)
(* pointer only to another.                                                *)
StringVerdict ==
  Reported({"STRING", "STRING_LEN"}) =>
    (result = Pass) =
      (IF call.expected = NULL \/ call.actual = NULL THEN call.expected = call.actual
       ELSE Limit(call.expected) = Limit(call.actual))

(* Memory is equal when its bytes are, and otherwise the byte reported is  *)
(* the first that differs, found again from its element and offset.        *)
MemoryVerdict ==
  (Reported({"MEMORY"}) /\ Compared /\ call.length > 0) =>
    LET want == IF call.flags = "ARRAY_TO_ARRAY" THEN call.expected
                ELSE FlattenSeq([i \in 1..call.count |-> call.expected])
    IN  IF result = Pass THEN want = call.actual
        ELSE LET k == result.element.element * call.length + result.element.byte
             IN  /\ SubSeq(want, 1, k) = SubSeq(call.actual, 1, k)
                 /\ want[k + 1] # call.actual[k + 1]

\* The two texts of the comparison that failed.
TextsCompared ==
  CASE call.macro \in {"STRING", "STRING_LEN"} -> {call.expected, call.actual}
    [] call.macro = "STRING_ARRAY" ->
         LET i == result.element + 1 IN {ExpectedAt(call, i), call.actual[i]}
    [] OTHER -> {}

HasBackslash(s) == s # NULL /\ \E i \in DOMAIN s : s[i] = Backslash

(* When integers, bits, texts or memory should be equal, or within a delta,*)
(* and are not, what is printed after Expected differs from what is printed*)
(* after Was, though the printers show a style's own bytes only and escape *)
(* what is not printable.  It is not said of orders and NOT_EQUAL, which   *)
(* may fail on two equal values, nor where two unequal ones may be printed *)
(* alike: floats, of which sig_digits digits are shown and more may be     *)
(* compared; a mask wider than an int, of which UnityPrintMask prints the  *)
(* bits of an int; and texts with a backslash, which UnityPrintLen prints  *)
(* as itself and escapes with.                                             *)
FailureIsVisible ==
  (/\ "shown" \in DOMAIN result /\ result.why \in {"values", "delta", "memory"}
   /\ call.macro \notin DOMAIN Comparisons
   /\ call.macro = "BITS" => ToUnsigned(call.mask, IntBytes) < 2^Bits(IntWidth)
   /\ \A s \in TextsCompared : ~HasBackslash(s))
  => result.shown[1] # result.shown[2]
=============================================================================
