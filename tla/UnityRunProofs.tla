--------------------------- MODULE UnityRunProofs ---------------------------
(***************************************************************************)
(* What a command line selects is what its lists say, for any command      *)
(* lines, lists and tests, and every test that is run is counted once, by  *)
(* the first thing it asked for: the proofs about UnityOptions and         *)
(* UnityRunner.                                                            *)
(***************************************************************************)
EXTENDS UnityOptions, UnityRunner, Integers, WellFoundedInduction, TLAPS

-----------------------------------------------------------------------------
(* Tests, flags and counters.                                              *)

(* The flags say what the running test asked for first, and are clear      *)
(* between tests.                                                          *)
FlagInv ==
  /\ CurrentTestFailed = IF first = "fail" THEN 1 ELSE 0
  /\ CurrentTestIgnored = IF first = "ignore" THEN 1 ELSE 0
  /\ at \in {"main", "outside"} => first = "pass"

RunnerInv == UnityTypeOK /\ FlagInv /\ FirstDecides

(* The invariant holds before the first UnityBegin.                        *)
LEMMA RunnerInit == UnityInit => RunnerInv
BY DEF UnityInit, RunnerInv, UnityTypeOK, FlagInv, FirstDecides, Verdict,
       Running, UserCode

(* Every step of Unity, and every step of the user's code, keeps it.       *)
LEMMA RunnerStep == RunnerInv /\ [UnityNext]_unity_vars => RunnerInv'
<1> SUFFICES ASSUME RunnerInv, [UnityNext]_unity_vars PROVE RunnerInv'
  OBVIOUS
<1> USE DEF RunnerInv, UnityTypeOK, FlagInv, FirstDecides, Verdict,
            Running, UserCode, counter_vars, flag_vars, history_vars
<1>1. CASE UnityBegin
  BY <1>1 DEF UnityBegin
<1>2. CASE RunTest
  BY <1>2 DEF RunTest
<1>3. CASE AssertionHolds
  BY <1>3 DEF AssertionHolds, Abort
<1>4. CASE UnityFail
  BY <1>4 DEF UnityFail, Abort, FailOrIgnore, Note
<1>5. CASE UnityIgnore
  BY <1>5 DEF UnityIgnore, Abort, FailOrIgnore, Note
<1>6. CASE TestPass
  BY <1>6 DEF TestPass, Abort
<1>7. CASE Leave
  BY <1>7 DEF Leave
<1>8. CASE UnityConcludeTest
  BY <1>8 DEF UnityConcludeTest
<1>9. CASE UnityEnd
  BY <1>9 DEF UnityEnd
<1>10. CASE UNCHANGED unity_vars
  BY <1>10 DEF unity_vars
<1> QED
  BY <1>1, <1>2, <1>3, <1>4, <1>5, <1>6, <1>7, <1>8, <1>9, <1>10
     DEF UnityNext, UserStep

(* The variables keep their types, however many tests there are.           *)
THEOREM UnityTypesHold == UnitySpec => []UnityTypeOK
<1>1. RunnerInv => UnityTypeOK
  BY DEF RunnerInv
<1> QED
  BY <1>1, RunnerInit, RunnerStep, PTL DEF UnitySpec

(* Whatever the user's setUp, tests and tearDown do, the first failure or  *)
(* ignore of each test decides what it counts as, and the counters add up. *)
THEOREM FirstDecidesHolds == UnitySpec => []FirstDecides
<1>1. RunnerInv => FirstDecides
  BY DEF RunnerInv
<1> QED
  BY <1>1, RunnerInit, RunnerStep, PTL DEF UnitySpec

(* No test is concluded without its tearDown having begun.                 *)
THEOREM TearDownEnteredHolds == UnitySpec => TearDownEntered
<1>1. RunnerInv /\ [UnityNext]_unity_vars
        => [at' = "conclude" => at = "tearDown"]_unity_vars
  <2> SUFFICES ASSUME UnityNext PROVE at' = "conclude" => at = "tearDown"
    BY DEF unity_vars
  <2> QED
    BY DEF UnityNext, UserStep, UnityBegin, RunTest, AssertionHolds, UnityFail,
           UnityIgnore, TestPass, Leave, UnityConcludeTest, UnityEnd, Abort,
           FailOrIgnore, UserCode
<1> QED
  BY <1>1, RunnerInit, RunnerStep, PTL DEF UnitySpec, TearDownEntered

-----------------------------------------------------------------------------
(* Recursion.                                                              *)

(* A set of natural numbers has a least one: what is true of no least      *)
(* exception is true of all.                                               *)
LEMMA LeastNat ==
  ASSUME NEW S \in SUBSET Nat, S # {}
  PROVE  \E k \in S : \A l \in S : k <= l
<1> DEFINE R == OpToRel(<, Nat)
<1>1. IsWellFoundedOn(R, Nat)
  BY NatLessThanWellFounded, Zenon
<1>2. R = {ss \in Nat \X Nat : ss[1] < ss[2]}
  BY DEF OpToRel
<1> HIDE DEF R
<1>3. PICK k \in S : \A l \in S : ~(<<l, k>> \in R)
  BY <1>1, WFMin
<1>4. \A l \in S : l \in Nat /\ k \in Nat /\ ~(l < k)
  BY <1>2, <1>3
<1>5. \A l \in S : k <= l
  BY <1>4
<1> QED BY <1>5

(* The arguments that are options, as OptionsOfThisParse defines them.     *)
OptionAt(args, option, k) ==
  k > 0 /\ args[k].flag # "none" /\ (k > 1 => ~(option[k - 1] /\ IsList(args, k)))

IsOption(args) ==
  CHOOSE option : option = [k \in 0..Len(args) |-> OptionAt(args, option, k)]

LEMMA CommandType ==
  ASSUME NEW args \in Commands
  PROVE  /\ Len(args) \in Nat
         /\ \A k \in 1..Len(args) :
              /\ args[k].flag \in Flags \cup {"none"}
              /\ args[k].value \in {NULL} \cup (Seq(Items) \ {<<>>})
              /\ args[k].flag = "none" => args[k].value # NULL
<1>1. /\ args \in Seq(Arguments)
      /\ \A k \in 1..Len(args) : args[k].flag = "none" => args[k].value # NULL
  BY OptionsAssumption
<1>2. Len(args) \in Nat /\ \A k \in 1..Len(args) : args[k] \in Arguments
  BY <1>1
<1> QED BY <1>1, <1>2 DEF Arguments

LEMMA OptionFacts ==
  ASSUME NEW args \in Commands
  PROVE  \A k \in 0..Len(args) :
           IsOption(args)[k] = OptionAt(args, IsOption(args), k) /\ IsOption(args)[k] \in BOOLEAN
<1> DEFINE P(n, f) == f = [k \in 0..n |-> OptionAt(args, f, k)]
           bad == {n \in Nat : ~ \E f : P(n, f)}
<1>1. bad = {}
  <2> SUFFICES ASSUME bad # {} PROVE FALSE
    OBVIOUS
  <2>1. bad \in SUBSET Nat
    OBVIOUS
  <2>2. PICK n \in bad : \A l \in bad : n <= l
    <3> HIDE DEF bad
    <3> QED BY <2>1, LeastNat
  <2>3. n \in Nat /\ ~ \E f : P(n, f)
    BY <2>2
  <2>4. CASE n = 0
    <3> DEFINE f == [k \in 0..0 |-> FALSE]
    <3>1. \A k \in 0..0 : OptionAt(args, f, k) = FALSE
      BY DEF OptionAt
    <3>2. P(0, f)
      <4> HIDE DEF OptionAt
      <4> QED BY <3>1
    <3> HIDE DEF P
    <3> QED BY <2>3, <2>4, <3>2
  <2>5. CASE n # 0
    <3>1. n - 1 \in Nat /\ n - 1 \notin bad
      BY <2>2, <2>3, <2>5
    <3>2. PICK f : P(n - 1, f)
      BY <3>1
    <3> DEFINE g == [k \in 0..n |-> IF k = n THEN OptionAt(args, f, n) ELSE f[k]]
    <3>3. ASSUME NEW k \in 0..n PROVE g[k] = OptionAt(args, g, k)
      <4>1. k # n => k \in 0..n - 1
        BY <2>3
      <4>2. k # n => g[k] = OptionAt(args, f, k)
        BY <3>2, <4>1
      <4>3. g[k] = OptionAt(args, f, k)
        BY <4>2
      <4>4. k > 1 => k - 1 \in 0..n /\ k - 1 # n
        BY <2>3
      <4>5. k > 1 => g[k - 1] = f[k - 1]
        BY <4>4
      <4> HIDE DEF g
      <4> QED BY <4>3, <4>5 DEF OptionAt
    <3>4. P(n, g)
      <4>1. g = [k \in 0..n |-> g[k]]
        OBVIOUS
      <4> HIDE DEF g
      <4> QED BY <3>3, <4>1
    <3> HIDE DEF P, g
    <3> QED BY <2>3, <3>4
  <2> QED BY <2>4, <2>5
<1>2. \E f : P(Len(args), f)
  BY <1>1, CommandType
<1>3. P(Len(args), IsOption(args))
  <2>1. IsOption(args) = CHOOSE f : P(Len(args), f)
    BY DEF IsOption
  <2> HIDE DEF P
  <2> QED BY <1>2, <2>1
<1>4. \A f, k : OptionAt(args, f, k) \in BOOLEAN
  BY DEF OptionAt
<1> DEFINE option == IsOption(args)
<1>5. option = [k \in 0..Len(args) |-> OptionAt(args, option, k)]
  BY <1>3
<1> HIDE DEF option
<1>6. \A k \in 0..Len(args) : option[k] = OptionAt(args, option, k)
  BY <1>5
<1> QED BY <1>4, <1>6 DEF option

-----------------------------------------------------------------------------
(* Parsing.                                                                *)

(* The options before n with one of these flags, and the list that the last*)
(* of them names.                                                          *)
Given(args, n, flags) == {k \in 1..n - 1 : IsOption(args)[k] /\ args[k].flag \in flags}

Latest(given) == CHOOSE k \in given : \A l \in given : l <= k

ListOf(args, k) == IF args[k].value # NULL THEN args[k].value ELSE AsList(args[k + 1])

InForce(args, n, flags) ==
  IF Given(args, n, flags) = {} THEN NULL ELSE ListOf(args, Latest(Given(args, n, flags)))

Including == {"n", "f"}
Excluding == {"x"}

Lists == {NULL} \cup (Seq(Items) \ {<<>>})

(* What parsing maintains: the next argument is not the list of the option *)
(* before it, and the lists are those of the options so far.               *)
ParseInv ==
  /\ argv \in Commands /\ i \in 1..Len(argv) + 1
  /\ i > 1 /\ i <= Len(argv) => ~(IsOption(argv)[i - 1] /\ IsList(argv, i))
  /\ UnityOptionIncludeNamed = InForce(argv, i, Including)
  /\ UnityOptionExcludeNamed = InForce(argv, i, Excluding)
  /\ UnityOptionIncludeNamed \in Lists /\ UnityOptionExcludeNamed \in Lists

LEMMA OptionsAre ==
  OptionsOfThisParse <=>
    /\ UnityOptionIncludeNamed = InForce(argv, i, Including)
    /\ UnityOptionExcludeNamed = InForce(argv, i, Excluding)
BY DEF OptionsOfThisParse, InForce, ListOf, Latest, Given, IsOption, OptionAt,
       Including, Excluding

LEMMA NoneGiven ==
  ASSUME NEW args, NEW flags
  PROVE  InForce(args, 1, flags) = NULL
BY DEF InForce, Given

(* An argument that is no such option changes nothing.                     *)
LEMMA Skipped ==
  ASSUME NEW args \in Commands, NEW n \in 1..Len(args), NEW flags,
         ~(IsOption(args)[n] /\ args[n].flag \in flags)
  PROVE  InForce(args, n + 1, flags) = InForce(args, n, flags)
<1>1. 1..(n + 1) - 1 = (1..n - 1) \cup {n}
  BY CommandType
<1>2. Given(args, n + 1, flags) = Given(args, n, flags)
  BY <1>1 DEF Given
<1> QED BY <1>2 DEF InForce

(* The next one names the list in force.                                   *)
LEMMA Taken ==
  ASSUME NEW args \in Commands, NEW n \in 1..Len(args), NEW flags,
         IsOption(args)[n], args[n].flag \in flags
  PROVE  InForce(args, n + 1, flags) = ListOf(args, n)
<1> DEFINE given == Given(args, n + 1, flags)
<1>1. n \in given /\ \A l \in given : l \in Nat /\ l <= n
  BY CommandType DEF Given
<1> HIDE DEF given
<1>2. \A k \in given : (\A l \in given : l <= k) => k = n
  BY <1>1
<1>3. (CHOOSE k \in given : \A l \in given : l <= k) = n
  BY <1>1, <1>2
<1>4. Latest(given) = n
  BY <1>3 DEF Latest
<1> QED BY <1>1, <1>4 DEF InForce, given

LEMMA AsListType ==
  ASSUME NEW arg \in Arguments, arg.flag = "none" => arg.value # NULL
  PROVE  AsList(arg) \in Seq(Items) \ {<<>>}
<1>1. arg.flag \in Flags \cup {"none"} /\ arg.value \in Lists
  BY DEF Arguments, Lists
<1> DEFINE flag == <<"-", arg.flag>>
<1>2. ASSUME arg.flag # "none"
      PROVE  flag \in Seq(Letters) /\ <<"=">> \in Seq(Letters)
  <2>1. "-" \in Letters /\ "=" \in Letters /\ arg.flag \in Letters
    BY <1>1, <1>2, OptionsAssumption
  <2> QED BY <2>1
<1>3. CASE arg.flag = "none"
  BY <1>1, <1>3 DEF AsList, Lists
<1>4. CASE arg.flag # "none" /\ arg.value = NULL
  <2> DEFINE item == [part |-> flag, test |-> <<>>, wild |-> FALSE, open |-> FALSE,
                      close |-> FALSE]
  <2>1. item \in Items
    <3> HIDE DEF flag
    <3> QED BY <1>2, <1>4 DEF Items
  <2>2. AsList(arg) = <<item>>
    BY <1>4 DEF AsList
  <2> HIDE DEF item
  <2> QED BY <2>1, <2>2
<1>5. CASE arg.flag # "none" /\ arg.value # NULL
  <2> DEFINE given == arg.value
             part == flag \o <<"=">> \o given[1].part
             item == [given[1] EXCEPT !.part = part]
  <2>1. given \in Seq(Items) /\ given # <<>> /\ given[1] \in Items
    BY <1>1, <1>5 DEF Lists
  <2>2. given[1].part \in Seq(Letters)
    BY <2>1 DEF Items
  <2>3. part \in Seq(Letters)
    <3> HIDE DEF flag
    <3> QED BY <1>2, <1>5, <2>2
  <2>4. item \in Items
    <3> HIDE DEF part
    <3> QED BY <2>1, <2>3 DEF Items
  <2>5. AsList(arg) = <<item>> \o Tail(given)
    BY <1>5 DEF AsList
  <2> HIDE DEF item, given
  <2>6. Tail(given) \in Seq(Items) /\ <<item>> \in Seq(Items) /\ Len(<<item>>) = 1
    BY <2>1, <2>4
  <2>7. <<item>> \o Tail(given) \in Seq(Items) /\ Len(<<item>> \o Tail(given)) > 0
    BY <2>6
  <2> QED BY <2>5, <2>7
<1> QED BY <1>3, <1>4, <1>5

LEMMA ListOfType ==
  ASSUME NEW args \in Commands, NEW n \in 1..Len(args),
         args[n].value = NULL => n < Len(args)
  PROVE  ListOf(args, n) \in Lists
<1>1. args[n].value \in Lists
  BY CommandType DEF Lists
<1>2. args \in Seq(Arguments)
  BY OptionsAssumption
<1>3. CASE n < Len(args)
  <2>1. n + 1 \in 1..Len(args)
    BY <1>2, <1>3
  <2>2. args[n + 1] \in Arguments /\ (args[n + 1].flag = "none" => args[n + 1].value # NULL)
    BY <1>2, <2>1, CommandType
  <2>3. AsList(args[n + 1]) \in Lists
    BY <2>2, AsListType DEF Lists
  <2> QED BY <1>1, <2>3 DEF ListOf
<1> QED BY <1>1, <1>3 DEF ListOf

LEMMA FlagsOf ==
  /\ TakesList = Including \cup Excluding /\ Including \cap Excluding = {}
  /\ "none" \notin TakesList /\ TakesList \cap {"q", "v"} = {}
BY DEF TakesList, Including, Excluding

(* An option at n, with its list in the next argument or not, and what is  *)
(* in force behind it.                                                     *)
LEMMA OptionAtCursor ==
  ASSUME ParseInv, i <= Len(argv)
  PROVE  /\ i \in 1..Len(argv) /\ i + 1 \in 1..Len(argv) + 1
         /\ argv[i].flag = "none" => ~IsOption(argv)[i]
         /\ argv[i].flag # "none" => IsOption(argv)[i]
         /\ i < Len(argv) =>
              /\ i + 1 \in 1..Len(argv) /\ i + 2 \in 1..Len(argv) + 1
              /\ IsList(argv, i + 1) <=> argv[i].flag \in TakesList /\ argv[i].value = NULL
              /\ IsOption(argv)[i] /\ IsList(argv, i + 1) => ~IsOption(argv)[i + 1]
<1>1. argv \in Commands /\ Len(argv) \in Nat /\ i \in 1..Len(argv)
  BY CommandType DEF ParseInv
<1>2. IsOption(argv)[i] = OptionAt(argv, IsOption(argv), i)
  BY <1>1, OptionFacts
<1>3. argv[i].flag = "none" => ~IsOption(argv)[i]
  BY <1>2 DEF OptionAt
<1>4. argv[i].flag # "none" => IsOption(argv)[i]
  <2>1. i > 1 => ~(IsOption(argv)[i - 1] /\ IsList(argv, i))
    BY <1>1 DEF ParseInv
  <2>2. ASSUME argv[i].flag # "none" PROVE OptionAt(argv, IsOption(argv), i)
    BY <1>1, <2>1, <2>2 DEF OptionAt
  <2> QED BY <1>2, <2>2
<1>5. ASSUME i < Len(argv)
      PROVE  /\ i + 1 \in 1..Len(argv) /\ i + 2 \in 1..Len(argv) + 1
             /\ IsList(argv, i + 1) <=> argv[i].flag \in TakesList /\ argv[i].value = NULL
             /\ IsOption(argv)[i] /\ IsList(argv, i + 1) => ~IsOption(argv)[i + 1]
  <2>1. i + 1 \in 0..Len(argv) /\ i + 1 > 1 /\ (i + 1) - 1 = i
    BY <1>1, <1>5
  <2>2. IsOption(argv)[i + 1] = OptionAt(argv, IsOption(argv), i + 1)
    BY <1>1, <2>1, OptionFacts
  <2>3. IsOption(argv)[i] /\ IsList(argv, i + 1) => ~IsOption(argv)[i + 1]
    BY <2>1, <2>2 DEF OptionAt
  <2>4. IsList(argv, i + 1) <=> argv[i].flag \in TakesList /\ argv[i].value = NULL
    BY <2>1 DEF IsList
  <2> QED BY <1>1, <1>5, <2>3, <2>4
<1> QED BY <1>1, <1>3, <1>4, <1>5

LEMMA ParseInit == OptionsInit => ParseInv
<1> SUFFICES ASSUME OptionsInit PROVE ParseInv
  OBVIOUS
<1>1. /\ argv \in Commands /\ i = 1
      /\ UnityOptionIncludeNamed = NULL /\ UnityOptionExcludeNamed = NULL
  BY DEF OptionsInit
<1>2. Len(argv) \in Nat
  BY <1>1, CommandType
<1>3. \A flags : InForce(argv, 1, flags) = NULL
  BY NoneGiven
<1> QED BY <1>1, <1>2, <1>3 DEF ParseInv, Lists

(* One option more: an argument is skipped, or its list taken, alone or    *)
(* with the argument that is its list.                                     *)
LEMMA StepOne ==
  ASSUME ParseInv, i <= Len(argv), argv' = argv, i' = i + 1,
         i < Len(argv) => ~IsList(argv, i + 1),
         UnityOptionIncludeNamed' = InForce(argv, i + 1, Including),
         UnityOptionExcludeNamed' = InForce(argv, i + 1, Excluding),
         UnityOptionIncludeNamed' \in Lists, UnityOptionExcludeNamed' \in Lists
  PROVE  ParseInv'
<1>1. i + 1 \in 1..Len(argv) + 1 /\ (i + 1 <= Len(argv) => i < Len(argv)) /\ argv \in Commands
  BY OptionAtCursor, CommandType DEF ParseInv
<1> QED BY <1>1 DEF ParseInv

LEMMA StepTwo ==
  ASSUME ParseInv, i < Len(argv), argv' = argv, i' = i + 2, ~IsOption(argv)[i + 1],
         UnityOptionIncludeNamed' = InForce(argv, i + 1, Including),
         UnityOptionExcludeNamed' = InForce(argv, i + 1, Excluding),
         UnityOptionIncludeNamed' \in Lists, UnityOptionExcludeNamed' \in Lists
  PROVE  ParseInv'
<1>1. argv \in Commands /\ Len(argv) \in Nat /\ i \in Nat /\ i <= Len(argv)
  BY CommandType DEF ParseInv
<1>2. i + 1 \in 1..Len(argv) /\ i + 2 \in 1..Len(argv) + 1 /\ (i + 1) + 1 = i + 2
      /\ (i + 2) - 1 = i + 1
  BY <1>1, OptionAtCursor
<1>3. \A flags : InForce(argv, i + 2, flags) = InForce(argv, i + 1, flags)
  BY <1>1, <1>2, Skipped
<1> QED BY <1>1, <1>2, <1>3 DEF ParseInv

LEMMA NamedStep ==
  ASSUME ParseInv, NamedOption(argv[i])
  PROVE  ParseInv'
<1> DEFINE flag == argv[i].flag
           next == ListOf(argv, i)
<1>1. /\ i <= Len(argv) /\ flag \in TakesList
      /\ argv' = argv
      /\ \/ argv[i].value # NULL /\ Name(argv[i], argv[i].value) /\ i' = i + 1
         \/ /\ argv[i].value = NULL /\ i < Len(argv)
            /\ Name(argv[i], AsList(argv[i + 1])) /\ i' = i + 2
  BY DEF NamedOption, Parsing
<1>2. /\ argv \in Commands /\ i \in 1..Len(argv) /\ IsOption(argv)[i]
      /\ i < Len(argv) => (IsList(argv, i + 1) <=> argv[i].value = NULL)
      /\ i < Len(argv) /\ argv[i].value = NULL => ~IsOption(argv)[i + 1]
  BY <1>1, OptionAtCursor, FlagsOf DEF ParseInv
<1>3. Name(argv[i], next) /\ next \in Lists
  BY <1>1, <1>2, ListOfType DEF ListOf
<1>4. /\ UnityOptionIncludeNamed' = InForce(argv, i + 1, Including)
      /\ UnityOptionExcludeNamed' = InForce(argv, i + 1, Excluding)
      /\ UnityOptionIncludeNamed' \in Lists /\ UnityOptionExcludeNamed' \in Lists
  <2>1. CASE flag = "x"
    <3>1. flag \in Excluding /\ flag \notin Including
      BY <2>1 DEF Including, Excluding
    <3>2. /\ InForce(argv, i + 1, Excluding) = next
          /\ InForce(argv, i + 1, Including) = InForce(argv, i, Including)
      BY <1>2, <3>1, Taken, Skipped
    <3>3. /\ UnityOptionExcludeNamed' = next
          /\ UnityOptionIncludeNamed' = UnityOptionIncludeNamed
      BY <1>3, <2>1 DEF Name
    <3> QED BY <1>3, <3>2, <3>3 DEF ParseInv
  <2>2. CASE flag # "x"
    <3>1. flag \notin Excluding /\ flag \in Including
      BY <1>1, <2>2 DEF Including, Excluding, TakesList
    <3>2. /\ InForce(argv, i + 1, Including) = next
          /\ InForce(argv, i + 1, Excluding) = InForce(argv, i, Excluding)
      BY <1>2, <3>1, Taken, Skipped
    <3>3. /\ UnityOptionIncludeNamed' = next
          /\ UnityOptionExcludeNamed' = UnityOptionExcludeNamed
      BY <1>3, <2>2 DEF Name
    <3> QED BY <1>3, <3>2, <3>3 DEF ParseInv
  <2> QED BY <2>1, <2>2
<1>5. CASE argv[i].value # NULL
  BY <1>1, <1>2, <1>4, <1>5, StepOne
<1>6. CASE argv[i].value = NULL
  BY <1>1, <1>2, <1>4, <1>6, StepTwo
<1> QED BY <1>5, <1>6

LEMMA ParseStep == ParseInv /\ [OptionsNext]_vars => ParseInv'
<1> SUFFICES ASSUME ParseInv, [OptionsNext]_vars PROVE ParseInv'
  OBVIOUS
<1>1. CASE UNCHANGED parse_vars
  BY <1>1 DEF ParseInv, parse_vars
<1>2. CASE \E k \in 1..Len(argv) : Positional(argv[k]) \/ Verbosity(argv[k])
  <2>1. /\ i <= Len(argv) /\ argv' = argv /\ i' = i + 1
        /\ UnityOptionIncludeNamed' = UnityOptionIncludeNamed
        /\ UnityOptionExcludeNamed' = UnityOptionExcludeNamed
        /\ argv[i].flag \in {"none", "q", "v"}
    BY <1>2 DEF Positional, Verbosity, Parsing
  <2>2. argv[i].flag \notin TakesList /\ argv[i].flag \notin Including \cup Excluding
    BY <2>1, FlagsOf
  <2>3. /\ argv \in Commands /\ i \in 1..Len(argv)
        /\ i < Len(argv) => ~IsList(argv, i + 1)
    BY <2>1, <2>2, OptionAtCursor DEF ParseInv
  <2>4. /\ InForce(argv, i + 1, Including) = InForce(argv, i, Including)
        /\ InForce(argv, i + 1, Excluding) = InForce(argv, i, Excluding)
    BY <2>2, <2>3, Skipped
  <2>5. /\ UnityOptionIncludeNamed' = InForce(argv, i + 1, Including)
        /\ UnityOptionExcludeNamed' = InForce(argv, i + 1, Excluding)
        /\ UnityOptionIncludeNamed' \in Lists /\ UnityOptionExcludeNamed' \in Lists
    BY <2>1, <2>4 DEF ParseInv
  <2> QED BY <2>1, <2>3, <2>5, StepOne
<1>3. CASE \E k \in 1..Len(argv) : NamedOption(argv[k])
  <2>1. NamedOption(argv[i])
    BY <1>3 DEF NamedOption, Parsing
  <2> QED BY <2>1, NamedStep
<1>4. CASE \E k \in 1..Len(argv) : Stop(argv[k])
  BY <1>4 DEF Stop, ParseInv
<1>5. CASE Parsed
  BY <1>5 DEF Parsed, ParseInv
<1>6. CASE ParseAgain
  <2>1. argv' \in Commands /\ i' = 1
        /\ UnityOptionIncludeNamed' = NULL /\ UnityOptionExcludeNamed' = NULL
    BY <1>6, OptionsAssumption DEF ParseAgain, UnityParseOptions
  <2>2. Len(argv') \in Nat
    BY <2>1, CommandType
  <2>3. \A flags : InForce(argv', 1, flags) = NULL
    BY NoneGiven
  <2> QED BY <2>1, <2>2, <2>3 DEF ParseInv, Lists
<1>7. CASE \E test \in TestNames : UnityTestMatches(test)
  BY <1>1, <1>7 DEF UnityTestMatches
<1>8. CASE NoItemLeft \/ TryItem \/ Overrun \/ LostAnswer
  BY <1>1, <1>8 DEF NoItemLeft, TryItem, Overrun, LostAnswer
<1>9. CASE UNCHANGED vars
  BY <1>1, <1>9 DEF vars, parse_vars
<1> QED BY <1>2, <1>3, <1>4, <1>5, <1>6, <1>7, <1>8, <1>9 DEF OptionsNext

LEMMA ParseHolds == OptionsSpec => []ParseInv
BY ParseInit, ParseStep, PTL DEF OptionsSpec

(* The lists in force are those of the last call of UnityParseOptions, by  *)
(* its last option of each kind: whatever the arguments, the one taken for *)
(* a list is never read as an option too, and no option is read as a list  *)
(* but by the option before it.                                            *)
THEOREM OptionsOfThisParseHolds == OptionsSpec => []OptionsOfThisParse
<1>1. ParseInv => OptionsOfThisParse
  BY OptionsAre DEF ParseInv
<1> QED BY <1>1, ParseHolds, PTL

-----------------------------------------------------------------------------
(* The text of a list.                                                     *)

Chars == Letters \cup Delimiters

LEMMA Joining ==
  ASSUME NEW S, NEW a \in Seq(S), NEW b \in Seq(S)
  PROVE  /\ a \o b \in Seq(S) /\ Len(a \o b) = Len(a) + Len(b)
         /\ \A k \in 1..Len(a) : (a \o b)[k] = a[k]
         /\ \A k \in 1..Len(b) : (a \o b)[Len(a) + k] = b[k]
OBVIOUS

LEMMA OneLong ==
  ASSUME NEW S, NEW x \in S
  PROVE  <<x>> \in Seq(S) /\ Len(<<x>>) = 1 /\ <<x>>[1] = x
OBVIOUS

LEMMA Widened ==
  ASSUME NEW S, NEW T, S \subseteq T, NEW s \in Seq(S)
  PROVE  s \in Seq(T)
<1>1. Len(s) \in Nat /\ s = [k \in 1..Len(s) |-> s[k]] /\ \A k \in 1..Len(s) : s[k] \in T
  OBVIOUS
<1> QED BY <1>1

(* What is joined up to each of the texts, as FlattenSeq defines it.       *)
JoinAt(texts, f, k) == IF k = 1 THEN texts[k] ELSE f[k - 1] \o texts[k]

JoinedUpTo(texts) == CHOOSE f : f = [k \in 1..Len(texts) |-> JoinAt(texts, f, k)]

LEMMA JoinedFacts ==
  ASSUME NEW texts \in Seq(Seq(Chars)), texts # <<>>
  PROVE  /\ \A k \in 1..Len(texts) :
              /\ JoinedUpTo(texts)[k] = JoinAt(texts, JoinedUpTo(texts), k)
              /\ JoinedUpTo(texts)[k] \in Seq(Chars)
         /\ FlattenSeq(texts) = JoinedUpTo(texts)[Len(texts)]
<1> DEFINE P(n, f) == f = [k \in 1..n |-> JoinAt(texts, f, k)]
           bad == {n \in Nat : ~ \E f : P(n, f)}
           joined == JoinedUpTo(texts)
<1>0. Len(texts) \in Nat \ {0} /\ \A k \in 1..Len(texts) : texts[k] \in Seq(Chars)
  OBVIOUS
<1>1. bad = {}
  <2> SUFFICES ASSUME bad # {} PROVE FALSE
    OBVIOUS
  <2>1. bad \in SUBSET Nat
    OBVIOUS
  <2>2. PICK n \in bad : \A l \in bad : n <= l
    <3> HIDE DEF bad
    <3> QED BY <2>1, LeastNat
  <2>3. n \in Nat /\ ~ \E f : P(n, f)
    BY <2>2
  <2>4. CASE n = 0
    <3> DEFINE f == [k \in 1..0 |-> <<>>]
    <3>1. P(0, f)
      OBVIOUS
    <3> HIDE DEF P
    <3> QED BY <2>3, <2>4, <3>1
  <2>5. CASE n # 0
    <3>1. n - 1 \in Nat /\ n - 1 \notin bad
      <4> HIDE DEF bad, P
      <4> QED BY <2>2, <2>3, <2>5
    <3>2. PICK f : P(n - 1, f)
      BY <3>1
    <3> DEFINE g == [k \in 1..n |-> IF k = n THEN JoinAt(texts, f, n) ELSE f[k]]
    <3>3. ASSUME NEW k \in 1..n PROVE g[k] = JoinAt(texts, g, k)
      <4>1. k # n => k \in 1..n - 1
        BY <2>3
      <4>2. k # n => g[k] = JoinAt(texts, f, k)
        BY <3>2, <4>1
      <4>3. g[k] = JoinAt(texts, f, k)
        BY <4>2
      <4>4. k # 1 => k - 1 \in 1..n /\ k - 1 # n
        BY <2>3
      <4>5. k # 1 => g[k - 1] = f[k - 1]
        BY <4>4
      <4> HIDE DEF g
      <4> QED BY <4>3, <4>5 DEF JoinAt
    <3>4. P(n, g)
      <4>1. g = [k \in 1..n |-> g[k]]
        OBVIOUS
      <4> HIDE DEF g
      <4> QED BY <3>3, <4>1
    <3> HIDE DEF P, g
    <3> QED BY <2>3, <3>4
  <2> QED BY <2>4, <2>5
<1>2. \E f : P(Len(texts), f)
  BY <1>0, <1>1
<1>3. P(Len(texts), joined)
  <2>1. joined = CHOOSE f : P(Len(texts), f)
    BY DEF JoinedUpTo
  <2> HIDE DEF P, joined
  <2> QED BY <1>2, <2>1
<1> HIDE DEF joined
<1>4. \A k \in 1..Len(texts) : joined[k] = JoinAt(texts, joined, k)
  BY <1>3
<1>5. \A k \in 1..Len(texts) : joined[k] \in Seq(Chars)
  <2> DEFINE no == {k \in 1..Len(texts) : joined[k] \notin Seq(Chars)}
  <2> SUFFICES ASSUME no # {} PROVE FALSE
    OBVIOUS
  <2>1. no \in SUBSET Nat
    OBVIOUS
  <2>2. PICK k \in no : \A l \in no : k <= l
    <3> HIDE DEF no
    <3> QED BY <2>1, LeastNat
  <2>3. k \in 1..Len(texts) /\ (k # 1 => k - 1 \in 1..Len(texts) /\ k - 1 \notin no)
    BY <1>0, <2>2
  <2>4. k # 1 => joined[k - 1] \in Seq(Chars)
    BY <2>3
  <2>5. joined[k] \in Seq(Chars)
    <3>1. k # 1 => joined[k - 1] \o texts[k] \in Seq(Chars)
      BY <1>0, <2>3, <2>4, Joining
    <3>2. joined[k] = IF k = 1 THEN texts[k] ELSE joined[k - 1] \o texts[k]
      BY <1>4, <2>3 DEF JoinAt
    <3> QED BY <1>0, <2>3, <3>1, <3>2
  <2> QED BY <2>2, <2>5
<1>6. FlattenSeq(texts) = joined[Len(texts)]
  BY <1>0 DEF FlattenSeq, JoinedUpTo, JoinAt, joined
<1> QED BY <1>4, <1>5, <1>6 DEF joined

Quoted(is) == IF is THEN <<"'">> ELSE <<>>
TestText(item) == IF item.test = <<>> THEN <<>> ELSE <<":">> \o item.test
WildText(item) == IF item.wild THEN <<"*">> ELSE <<>>
ItemText(item) ==
  Quoted(item.open) \o item.part \o TestText(item) \o WildText(item) \o Quoted(item.close)

(* An item with the comma before it.                                       *)
Piece(items, k) == IF k = 1 THEN ItemText(items[k]) ELSE <<",">> \o ItemText(items[k])

Pieces(items) == [k \in 1..Len(items) |-> Piece(items, k)]

LEMMA RenderedIs ==
  ASSUME NEW items
  PROVE  Rendered(items) = FlattenSeq(Pieces(items))
BY DEF Rendered, Pieces, Piece, ItemText, Quoted, TestText, WildText

LEMMA PartsType ==
  ASSUME NEW item \in Items
  PROVE  /\ Quoted(item.open) \in Seq(Chars) /\ item.part \in Seq(Chars)
         /\ TestText(item) \in Seq(Chars) /\ WildText(item) \in Seq(Chars)
         /\ Quoted(item.close) \in Seq(Chars)
         /\ ItemText(item) \in Seq(Chars)
<1>1. item.part \in Seq(Letters) /\ item.test \in Seq(Letters)
  BY DEF Items
<1>2. "'" \in Chars /\ "," \in Chars /\ ":" \in Chars /\ "*" \in Chars /\ Letters \subseteq Chars
  BY DEF Chars, Delimiters
<1>3. item.part \in Seq(Chars) /\ item.test \in Seq(Chars)
  BY <1>1, <1>2, Widened
<1>4. \A a, b \in Seq(Chars) : a \o b \in Seq(Chars)
  BY Joining
<1>5. /\ <<>> \in Seq(Chars) /\ <<"'">> \in Seq(Chars) /\ <<"*">> \in Seq(Chars)
      /\ <<":">> \in Seq(Chars)
  <2>1. \A x \in Chars : <<x>> \in Seq(Chars)
    BY OneLong
  <2>2. <<>> \in Seq(Chars)
    OBVIOUS
  <2> QED BY <1>2, <2>1, <2>2
<1>6. /\ Quoted(item.open) \in Seq(Chars) /\ TestText(item) \in Seq(Chars)
      /\ WildText(item) \in Seq(Chars) /\ Quoted(item.close) \in Seq(Chars)
  BY <1>3, <1>4, <1>5 DEF Quoted, TestText, WildText
<1>7. ItemText(item) \in Seq(Chars)
  BY <1>3, <1>4, <1>6 DEF ItemText
<1> QED BY <1>3, <1>6, <1>7

LEMMA PiecesType ==
  ASSUME NEW items \in Seq(Items)
  PROVE  /\ Pieces(items) \in Seq(Seq(Chars)) /\ Len(Pieces(items)) = Len(items)
         /\ \A k \in 1..Len(items) : Pieces(items)[k] = Piece(items, k)
<1>1. Len(items) \in Nat
  OBVIOUS
<1>2. ASSUME NEW k \in 1..Len(items) PROVE Piece(items, k) \in Seq(Chars)
  <2>1. items[k] \in Items
    OBVIOUS
  <2>2. ItemText(items[k]) \in Seq(Chars)
    BY <2>1, PartsType
  <2>3. <<",">> \in Seq(Chars)
    <3>1. "," \in Chars
      BY DEF Chars, Delimiters
    <3> QED BY <3>1, OneLong
  <2>4. <<",">> \o ItemText(items[k]) \in Seq(Chars)
    BY <2>2, <2>3, Joining
  <2> QED BY <2>2, <2>4 DEF Piece
<1> QED BY <1>1, <1>2 DEF Pieces

LEMMA RenderedType ==
  ASSUME NEW items \in Seq(Items)
  PROVE  Rendered(items) \in Seq(Chars) /\ Len(Rendered(items)) \in Nat
<1>1. CASE items = <<>>
  <2>1. Len(Pieces(items)) = 0 /\ Pieces(items) = <<>>
    BY <1>1 DEF Pieces
  <2>2. Rendered(items) = <<>>
    BY <2>1, RenderedIs DEF FlattenSeq
  <2> QED BY <2>2
<1>2. CASE items # <<>>
  <2>1. Len(items) \in Nat \ {0}
    BY <1>2
  <2>2. Pieces(items) # <<>>
    BY <2>1, PiecesType
  <2>3. Rendered(items) \in Seq(Chars)
    BY <2>1, <2>2, PiecesType, RenderedIs, JoinedFacts
  <2> QED BY <2>3
<1> QED BY <1>1, <1>2

-----------------------------------------------------------------------------
(* The cursor.                                                             *)

LEMMA FirstIs ==
  ASSUME NEW S \in SUBSET Nat, NEW x \in S, \A l \in S : x <= l
  PROVE  First(S) = x
<1>1. \A k \in S : (\A l \in S : k <= l) => k = x
  OBVIOUS
<1> QED BY <1>1 DEF First

LEMMA FirstOf ==
  ASSUME NEW S \in SUBSET Nat, S # {}
  PROVE  First(S) \in S /\ \A l \in S : First(S) <= l
BY LeastNat DEF First

LEMMA EndIs ==
  ASSUME NEW s \in Seq(Chars)
  PROVE  CharAt(s, Len(s) + 1) = "end"
BY DEF CharAt

LEMMA NextItemIs ==
  ASSUME NEW s \in Seq(Chars), NEW k \in 1..Len(s)
  PROVE  /\ ItemEnd(s, k) \in k + 1..Len(s) + 1
         /\ NextItem(s, k) \in 1..Len(s) + 1
         /\ CharAt(s, NextItem(s, k)) \notin Separators \cup {":"}
<1>1. Len(s) \in Nat /\ Len(s) + 1 \in k + 1..Len(s) + 1 /\ CharAt(s, Len(s) + 1) = "end"
  BY EndIs
<1> DEFINE ends == {l \in k + 1..Len(s) + 1 : CharAt(s, l) \in Separators \cup {"end"}}
<1>2. ends \in SUBSET Nat /\ ends # {}
  BY <1>1
<1>3. First(ends) \in ends
  <2> HIDE DEF ends
  <2> QED BY <1>2, FirstOf
<1>4. ItemEnd(s, k) \in k + 1..Len(s) + 1
  BY <1>3 DEF ItemEnd
<1> DEFINE next == {l \in ItemEnd(s, k)..Len(s) + 1 : CharAt(s, l) \notin Separators \cup {":"}}
<1>5. next \in SUBSET Nat /\ next # {}
  <2>1. "end" \notin Separators \cup {":"}
    BY DEF Separators
  <2>2. Len(s) + 1 \in next
    BY <1>1, <1>4, <2>1
  <2> QED BY <1>4, <2>2
<1>6. First(next) \in next
  <2> HIDE DEF next
  <2> QED BY <1>5, FirstOf
<1>7. NextItem(s, k) = First(next)
  BY DEF NextItem
<1> HIDE DEF next
<1>8. NextItem(s, k) \in next
  BY <1>6, <1>7
<1> QED BY <1>4, <1>8 DEF next

(* How a search begins, and how it goes on to the excluded list.           *)
LEMMA EnterIs ==
  ASSUME NEW name, NEW named, NEW result, Enter(name, named, result)
  PROVE  \/ named # NULL /\ list' = name /\ ptr1' = 1 /\ retval' = result
         \/ /\ named = NULL /\ name = "include" /\ UnityOptionExcludeNamed # NULL
            /\ list' = "exclude" /\ ptr1' = 1 /\ retval' = TRUE
         \/ /\ named = NULL /\ (name # "include" \/ UnityOptionExcludeNamed = NULL)
            /\ list' = NULL /\ ptr1' = 0
            /\ retval' = IF name = "include" THEN TRUE ELSE result
BY DEF Enter

(* A search is on only between the parsing of command lines, in a list that*)
(* was given; a test looked up before the next command line is parsed has  *)
(* an answer.                                                              *)
SearchInv ==
  /\ list \in {NULL, "include", "exclude"}
  /\ list # NULL => status = "run" /\ Named # NULL
  /\ status = "parsing" => list = NULL /\ retval = NULL

(* The cursor is at the start of the list, at the end or at an item, but   *)
(* never at a quote or a comma in between.                                 *)
AtItem(s) == ptr1 \in 1..Len(s) + 1 /\ (ptr1 = 1 \/ CharAt(s, ptr1) \notin Separators)

LoneQuote == <<"'">>

CursorInv ==
  list # NULL =>
    Rendered(Named) = LoneQuote \/ AtItem(Rendered(Named))

LEMMA ListGiven ==
  ASSUME ParseInv, SearchInv, list # NULL
  PROVE  Named \in Seq(Items) \ {<<>>} /\ Rendered(Named) \in Seq(Chars)
<1>1. Named \in Seq(Items) \ {<<>>}
  BY DEF ParseInv, SearchInv, Lists, Named
<1> QED BY <1>1, RenderedType

LEMMA SearchInit == OptionsInit => SearchInv /\ CursorInv
BY DEF OptionsInit, SearchInv, CursorInv

(* A search that begins begins at the start.                               *)
LEMMA SearchBegins ==
  ASSUME ParseInv, status = "run", UNCHANGED parse_vars,
         NEW name \in {"include", "exclude"}, NEW result,
         Enter(name, IF name = "include" THEN UnityOptionIncludeNamed
                     ELSE UnityOptionExcludeNamed, result)
  PROVE  SearchInv' /\ CursorInv'
<1>1. /\ status' = "run" /\ UnityOptionIncludeNamed' = UnityOptionIncludeNamed
      /\ UnityOptionExcludeNamed' = UnityOptionExcludeNamed
      /\ UnityOptionIncludeNamed \in Lists /\ UnityOptionExcludeNamed \in Lists
  BY DEF parse_vars, ParseInv
<1>2. \/ list' = name /\ Named' # NULL /\ ptr1' = 1
      \/ list' = "exclude" /\ Named' # NULL /\ ptr1' = 1
      \/ list' = NULL
  BY <1>1, EnterIs DEF Named
<1>3. SearchInv'
  BY <1>1, <1>2 DEF SearchInv
<1>4. CursorInv'
  <2> SUFFICES ASSUME list' # NULL PROVE AtItem(Rendered(Named))'
    BY DEF CursorInv
  <2>1. Named' \in Seq(Items) /\ ptr1' = 1
    BY <1>1, <1>2 DEF Named, Lists
  <2>2. Rendered(Named)' = Rendered(Named')
    BY DEF Rendered
  <2>3. Len(Rendered(Named')) \in Nat
    BY <2>1, RenderedType
  <2> QED BY <2>1, <2>2, <2>3 DEF AtItem
<1> QED BY <1>3, <1>4

LEMMA SearchEnds ==
  ASSUME SearchInv, status = "run", UNCHANGED parse_vars, list' = NULL
  PROVE  SearchInv' /\ CursorInv'
BY DEF SearchInv, CursorInv, parse_vars

LEMMA AnswerKeeps ==
  ASSUME ParseInv, SearchInv, list # NULL, NEW matched, ArgumentMatched(matched),
         UNCHANGED parse_vars
  PROVE  SearchInv' /\ CursorInv'
<1>1. status = "run" /\ list \in {"include", "exclude"}
  BY DEF SearchInv
<1>2. CASE list = "include"
  <2>1. Enter("exclude", UnityOptionExcludeNamed, matched)
    BY <1>2 DEF ArgumentMatched
  <2>2. Enter("exclude", IF "exclude" = "include" THEN UnityOptionIncludeNamed
                         ELSE UnityOptionExcludeNamed, matched)
    BY <2>1
  <2> QED BY <1>1, <2>2, SearchBegins
<1>3. CASE list = "exclude"
  <2>1. list' = NULL
    BY <1>3 DEF ArgumentMatched
  <2> QED BY <1>1, <2>1, SearchEnds
<1> QED BY <1>1, <1>2, <1>3

(* The list searched is the same as before.                                *)
LEMMA SameList ==
  ASSUME UNCHANGED parse_vars, list' = list
  PROVE  Named' = Named /\ Rendered(Named)' = Rendered(Named) /\ status' = status
<1>1. Named' = Named /\ status' = status
  BY DEF Named, parse_vars
<1>2. Rendered(Named)' = Rendered(Named')
  BY DEF Rendered
<1> QED BY <1>1, <1>2

LEMMA TryKeeps == ParseInv /\ SearchInv /\ CursorInv /\ TryItem => SearchInv' /\ CursorInv'
<1> SUFFICES ASSUME ParseInv, SearchInv, CursorInv, TryItem PROVE SearchInv' /\ CursorInv'
  OBVIOUS
<1> DEFINE s == Rendered(Named)
           k == Unquoted(s, ptr1)
<1>1. /\ list # NULL /\ ptr1 <= Len(s) /\ k <= Len(s) /\ UNCHANGED parse_vars
      /\ \/ ArgumentMatched(TRUE)
         \/ ptr1' = NextItem(s, k) /\ UNCHANGED <<list, retval>>
  BY DEF TryItem
<1>2. CASE ArgumentMatched(TRUE)
  BY <1>1, <1>2, AnswerKeeps
<1>3. CASE ptr1' = NextItem(s, k) /\ UNCHANGED <<list, retval>>
  <2>1. s \in Seq(Chars) /\ Len(s) \in Nat
    BY <1>1, ListGiven
  <2>2. Rendered(Named)' = s /\ Named' = Named /\ status' = status /\ list' = list
        /\ retval' = retval
    BY <1>1, <1>3, SameList
  <2>3. SearchInv'
    BY <2>2 DEF SearchInv
  <2>4. CASE s = LoneQuote
    BY <2>2, <2>3, <2>4 DEF CursorInv
  <2>5. CASE s # LoneQuote
    <3>1. ptr1 \in 1..Len(s)
      BY <1>1, <2>1, <2>5 DEF CursorInv, AtItem
    <3> HIDE DEF s
    <3>2. k \in 1..Len(s)
      BY <1>1, <2>1, <3>1 DEF Unquoted
    <3> HIDE DEF k
    <3>3. AtItem(s)'
      BY <1>3, <2>1, <2>2, <3>2, NextItemIs DEF AtItem, s
    <3> QED BY <2>2, <2>3, <3>3 DEF CursorInv, s
  <2> QED BY <2>4, <2>5
<1> QED BY <1>1, <1>2, <1>3

(* Only the list that is one lone quote takes the cursor past the end.     *)
LEMMA OverrunIs ==
  ASSUME ParseInv, SearchInv, CursorInv, Overrun
  PROVE  Rendered(Named) = LoneQuote
<1> DEFINE s == Rendered(Named)
<1>1. list # NULL /\ ptr1 <= Len(s) /\ Unquoted(s, ptr1) > Len(s)
  BY DEF Overrun
<1>2. s \in Seq(Chars) /\ Len(s) \in Nat
  BY <1>1, ListGiven
<1> SUFFICES ASSUME s # LoneQuote PROVE FALSE
  OBVIOUS
<1>3. AtItem(s)
  BY <1>1 DEF CursorInv
<1> HIDE DEF s
<1>4. ptr1 = Len(s) /\ CharAt(s, ptr1) = "'" /\ ptr1 \in Nat
  BY <1>1, <1>2, <1>3 DEF Unquoted, AtItem
<1>5. ptr1 = 1
  BY <1>3, <1>4 DEF AtItem, Separators
<1>6. Len(s) = 1 /\ s[1] = "'"
  BY <1>4, <1>5 DEF CharAt
<1>7. s = LoneQuote
  BY <1>2, <1>6 DEF LoneQuote
<1> QED BY <1>7

LEMMA SearchStep ==
  ParseInv /\ SearchInv /\ CursorInv /\ [OptionsNext]_vars => SearchInv' /\ CursorInv'
<1> SUFFICES ASSUME ParseInv, SearchInv, CursorInv, [OptionsNext]_vars
             PROVE  SearchInv' /\ CursorInv'
  OBVIOUS
<1>1. CASE \E k \in 1..Len(argv) :
             Positional(argv[k]) \/ NamedOption(argv[k]) \/ Verbosity(argv[k]) \/ Stop(argv[k])
  <2>1. status = "parsing" /\ UNCHANGED match_vars
    BY <1>1 DEF Positional, NamedOption, Verbosity, Stop, Parsing
  <2>2. list' = NULL /\ retval' = NULL
    BY <2>1 DEF SearchInv, match_vars
  <2> QED BY <2>2 DEF SearchInv, CursorInv
<1>2. CASE Parsed
  <2>1. list' = NULL /\ retval' = NULL
    BY <1>2 DEF Parsed, SearchInv, match_vars
  <2> QED BY <2>1 DEF SearchInv, CursorInv
<1>3. CASE ParseAgain
  BY <1>3 DEF ParseAgain, SearchInv, CursorInv
<1>4. CASE \E test \in TestNames : UnityTestMatches(test)
  <2>1. status = "run" /\ UNCHANGED parse_vars /\ Enter("include", UnityOptionIncludeNamed, NULL)
    BY <1>4 DEF UnityTestMatches
  <2>2. Enter("include", IF "include" = "include" THEN UnityOptionIncludeNamed
                         ELSE UnityOptionExcludeNamed, NULL)
    BY <2>1
  <2> QED BY <2>1, <2>2, SearchBegins
<1>5. CASE NoItemLeft
  BY <1>5, AnswerKeeps DEF NoItemLeft
<1>6. CASE TryItem
  BY <1>6, TryKeeps
<1>7. CASE Overrun
  <2>1. Rendered(Named) = LoneQuote
    BY <1>7, OverrunIs
  <2>2. UNCHANGED parse_vars /\ list' = list /\ retval' = retval
    BY <1>7 DEF Overrun
  <2>3. Rendered(Named)' = LoneQuote /\ Named' = Named /\ status' = status
    BY <2>1, <2>2, SameList
  <2> QED BY <2>2, <2>3 DEF SearchInv, CursorInv
<1>8. CASE LostAnswer
  BY <1>8, AnswerKeeps DEF LostAnswer
<1>9. CASE UNCHANGED vars
  <2>1. UNCHANGED parse_vars /\ UNCHANGED <<list, ptr1, retval>>
    BY <1>9 DEF vars, parse_vars
  <2>2. Rendered(Named)' = Rendered(Named) /\ Named' = Named /\ status' = status
    BY <2>1, SameList
  <2> QED BY <2>1, <2>2 DEF SearchInv, CursorInv, AtItem
<1> QED BY <1>1, <1>2, <1>3, <1>4, <1>5, <1>6, <1>7, <1>8, <1>9 DEF OptionsNext

LEMMA SearchHolds == OptionsSpec => [](ParseInv /\ SearchInv /\ CursorInv)
BY ParseInit, ParseStep, SearchInit, SearchStep, PTL DEF OptionsSpec

(* The cursor never passes the end of a list, wherever its quotes, commas  *)
(* and colons stand, except in the one list that is a lone quote.          *)
THEOREM CursorInsideHolds == OptionsSpec => []CursorInside
<1>1. ParseInv /\ SearchInv /\ CursorInv => CursorInside
  <2> SUFFICES ASSUME ParseInv, SearchInv, CursorInv, list # NULL, Rendered(Named) # LoneQuote
               PROVE  ptr1 <= Len(Rendered(Named)) + 1
    BY DEF CursorInside, LoneQuote
  <2>1. AtItem(Rendered(Named)) /\ Len(Rendered(Named)) \in Nat
    BY ListGiven DEF CursorInv
  <2> QED BY <2>1 DEF AtItem
<1> QED BY <1>1, SearchHolds, PTL

-----------------------------------------------------------------------------
(* Where an item stands in the text of a list.                             *)

IsJoined(S, ab, a, b, m, n) ==
  /\ ab \in Seq(S) /\ Len(ab) = m + n
  /\ \A k \in 1..m : ab[k] = a[k]
  /\ \A k \in 1..n : ab[m + k] = b[k]

LEMMA JoinedIs ==
  ASSUME NEW S, NEW a \in Seq(S), NEW b \in Seq(S)
  PROVE  IsJoined(S, a \o b, a, b, Len(a), Len(b))
BY Joining DEF IsJoined

LEMMA JoinedAt ==
  ASSUME NEW S, NEW a \in Seq(S), NEW b \in Seq(S), NEW m, NEW n,
         Len(a) = m, Len(b) = n, NEW ab, ab = a \o b
  PROVE  IsJoined(S, ab, a, b, m, n)
BY JoinedIs

\* s is five texts in a row, of those lengths.
FiveIn(s, a, b, c, d, e, i1, i2, i3, i4, i5) ==
  /\ Len(s) = i1 + i2 + i3 + i4 + i5
  /\ \A k \in 1..i1 : s[k] = a[k]
  /\ \A k \in 1..i2 : s[i1 + k] = b[k]
  /\ \A k \in 1..i3 : s[i1 + i2 + k] = c[k]
  /\ \A k \in 1..i4 : s[i1 + i2 + i3 + k] = d[k]
  /\ \A k \in 1..i5 : s[i1 + i2 + i3 + i4 + k] = e[k]

LEMMA FiveJoined ==
  ASSUME NEW S, NEW a \in Seq(S), NEW b \in Seq(S), NEW c \in Seq(S), NEW d \in Seq(S),
         NEW e \in Seq(S), NEW i1 \in Nat, NEW i2 \in Nat, NEW i3 \in Nat, NEW i4 \in Nat,
         NEW i5 \in Nat,
         Len(a) = i1, Len(b) = i2, Len(c) = i3, Len(d) = i4, Len(e) = i5
  PROVE  FiveIn(a \o b \o c \o d \o e, a, b, c, d, e, i1, i2, i3, i4, i5)
<1> SUFFICES ASSUME NEW ab, NEW abc, NEW abcd, NEW all,
                    ab = a \o b, abc = ab \o c, abcd = abc \o d, all = abcd \o e
             PROVE  FiveIn(all, a, b, c, d, e, i1, i2, i3, i4, i5)
  OBVIOUS
<1>1. IsJoined(S, ab, a, b, i1, i2)
  BY JoinedAt
<1>2. ab \in Seq(S) /\ Len(ab) = i1 + i2
  BY <1>1 DEF IsJoined
<1>3. IsJoined(S, abc, ab, c, i1 + i2, i3)
  BY <1>2, JoinedAt
<1>4. abc \in Seq(S) /\ Len(abc) = i1 + i2 + i3
  BY <1>3 DEF IsJoined
<1>5. IsJoined(S, abcd, abc, d, i1 + i2 + i3, i4)
  BY <1>4, JoinedAt
<1>6. abcd \in Seq(S) /\ Len(abcd) = i1 + i2 + i3 + i4
  BY <1>5 DEF IsJoined
<1>7. IsJoined(S, all, abcd, e, i1 + i2 + i3 + i4, i5)
  BY <1>6, JoinedAt
<1>8. all \in Seq(S) /\ Len(all) = i1 + i2 + i3 + i4 + i5
  BY <1>7 DEF IsJoined
<1>9. \A k \in 1..i1 : all[k] = a[k]
  <2>1. \A k \in 1..i1 : k \in 1..i1 + i2 /\ k \in 1..i1 + i2 + i3
                      /\ k \in 1..i1 + i2 + i3 + i4
    OBVIOUS
  <2> QED BY <2>1, <1>1, <1>3, <1>5, <1>7 DEF IsJoined
<1>10. \A k \in 1..i2 : all[i1 + k] = b[k]
  <2>1. \A k \in 1..i2 : i1 + k \in 1..i1 + i2 /\ i1 + k \in 1..i1 + i2 + i3
                      /\ i1 + k \in 1..i1 + i2 + i3 + i4
    OBVIOUS
  <2> QED BY <2>1, <1>1, <1>3, <1>5, <1>7 DEF IsJoined
<1>11. ASSUME NEW k \in 1..i3 PROVE all[i1 + i2 + k] = c[k]
  <2>1. i1 + i2 + k \in 1..i1 + i2 + i3 /\ i1 + i2 + k \in 1..i1 + i2 + i3 + i4
    OBVIOUS
  <2>2. abc[i1 + i2 + k] = c[k]
    BY <1>3 DEF IsJoined
  <2>3. all[i1 + i2 + k] = abcd[i1 + i2 + k]
    BY <2>1, <1>7 DEF IsJoined
  <2>4. abcd[i1 + i2 + k] = abc[i1 + i2 + k]
    BY <2>1, <1>5 DEF IsJoined
  <2> QED BY <2>2, <2>3, <2>4, Zenon
<1>12. ASSUME NEW k \in 1..i4 PROVE all[i1 + i2 + i3 + k] = d[k]
  <2>1. i1 + i2 + i3 + k \in 1..i1 + i2 + i3 + i4
    OBVIOUS
  <2>2. abcd[i1 + i2 + i3 + k] = d[k]
    BY <1>5 DEF IsJoined
  <2>3. all[i1 + i2 + i3 + k] = abcd[i1 + i2 + i3 + k]
    BY <2>1, <1>7 DEF IsJoined
  <2> QED BY <2>2, <2>3, Zenon
<1>13. \A k \in 1..i5 : all[i1 + i2 + i3 + i4 + k] = e[k]
  BY <1>7 DEF IsJoined
<1> QED BY <1>8, <1>9, <1>10, <1>11, <1>12, <1>13 DEF FiveIn

One(is) == IF is THEN 1 ELSE 0

TestLen(item) == IF item.test = <<>> THEN 0 ELSE 1 + Len(item.test)

\* The item without its quotes.
CoreLen(item) == Len(item.part) + TestLen(item) + One(item.wild)

CoreAt(s, o, item) ==
  /\ \A m \in 1..Len(item.part) : s[o + m] = item.part[m]
  /\ item.test # <<>> =>
       /\ s[o + Len(item.part) + 1] = ":"
       /\ \A m \in 1..Len(item.test) : s[o + Len(item.part) + 1 + m] = item.test[m]
  /\ item.wild => s[o + CoreLen(item)] = "*"

LEMMA LengthsType ==
  ASSUME NEW item \in Items
  PROVE  /\ Len(item.part) \in Nat /\ Len(item.test) \in Nat
         /\ TestLen(item) \in Nat /\ CoreLen(item) \in Nat
         /\ item.open \in BOOLEAN /\ item.wild \in BOOLEAN /\ item.close \in BOOLEAN
         /\ \A is : One(is) \in {0, 1}
<1>1. item.part \in Seq(Letters) /\ item.test \in Seq(Letters)
      /\ item.open \in BOOLEAN /\ item.wild \in BOOLEAN /\ item.close \in BOOLEAN
  BY DEF Items
<1>2. Len(item.part) \in Nat /\ Len(item.test) \in Nat /\ \A is : One(is) \in {0, 1}
  BY <1>1 DEF One
<1>3. TestLen(item) \in Nat
  BY <1>2 DEF TestLen
<1>4. One(item.wild) \in Nat
  BY <1>2
<1> QED BY <1>1, <1>2, <1>3, <1>4 DEF CoreLen

LEMMA PartLengths ==
  ASSUME NEW item \in Items
  PROVE  /\ Len(Quoted(item.open)) = One(item.open)
         /\ Len(TestText(item)) = TestLen(item)
         /\ Len(WildText(item)) = One(item.wild)
         /\ Len(Quoted(item.close)) = One(item.close)
         /\ item.open => Quoted(item.open)[1] = "'"
         /\ item.test # <<>> =>
              /\ TestText(item)[1] = ":"
              /\ \A m \in 1..Len(item.test) : TestText(item)[1 + m] = item.test[m]
         /\ item.wild => WildText(item)[1] = "*"
         /\ item.close => Quoted(item.close)[1] = "'"
<1>1. \A is : /\ Len(Quoted(is)) = One(is)
              /\ is => Quoted(is)[1] = "'"
  BY DEF Quoted, One
<1>2. Len(WildText(item)) = One(item.wild) /\ (item.wild => WildText(item)[1] = "*")
  BY DEF WildText, One
<1>3. /\ Len(TestText(item)) = TestLen(item)
      /\ item.test # <<>> =>
           /\ TestText(item)[1] = ":"
           /\ \A m \in 1..Len(item.test) : TestText(item)[1 + m] = item.test[m]
  <2>1. item.test \in Seq(Letters \cup {":"})
    <3>1. item.test \in Seq(Letters)
      BY DEF Items
    <3> QED BY <3>1, Widened
  <2>2. <<":">> \in Seq(Letters \cup {":"}) /\ Len(<<":">>) = 1 /\ <<":">>[1] = ":"
    BY OneLong
  <2>3. IsJoined(Letters \cup {":"}, <<":">> \o item.test, <<":">>, item.test, 1, Len(item.test))
    BY <2>1, <2>2, JoinedAt
  <2>4. CASE item.test = <<>>
    BY <2>4 DEF TestText, TestLen
  <2>5. CASE item.test # <<>>
    <3>1. TestText(item) = <<":">> \o item.test /\ TestLen(item) = 1 + Len(item.test)
      BY <2>5 DEF TestText, TestLen
    <3>2. Len(<<":">> \o item.test) = 1 + Len(item.test)
          /\ (<<":">> \o item.test)[1] = <<":">>[1]
          /\ \A m \in 1..Len(item.test) : (<<":">> \o item.test)[1 + m] = item.test[m]
      <4>1. 1 \in 1..1
        OBVIOUS
      <4> QED BY <2>3, <4>1, Zenon DEF IsJoined
    <3> QED BY <2>2, <3>1, <3>2, Zenon
  <2> QED BY <2>4, <2>5
<1> QED BY <1>1, <1>2, <1>3

LEMMA TextIs ==
  ASSUME NEW item \in Items
  PROVE  LET text == ItemText(item)
             o == One(item.open)
         IN  /\ text \in Seq(Chars) /\ Len(text) = o + CoreLen(item) + One(item.close)
             /\ item.open => text[o] = "'"
             /\ CoreAt(text, o, item)
             /\ item.close => text[o + CoreLen(item) + 1] = "'"
<1> DEFINE o == One(item.open)
           p == Len(item.part)
           t == TestLen(item)
           w == One(item.wild)
           c == One(item.close)
           text == ItemText(item)
<1>1. /\ p \in Nat /\ t \in Nat /\ o \in Nat /\ w \in Nat /\ c \in Nat
      /\ Len(item.test) \in Nat /\ CoreLen(item) = p + t + w
      /\ item.open => o = 1
      /\ item.wild => w = 1
      /\ item.close => c = 1
      /\ item.test # <<>> => t = 1 + Len(item.test)
  BY LengthsType DEF CoreLen, One, TestLen
<1>2. /\ text \in Seq(Chars)
      /\ FiveIn(text, Quoted(item.open), item.part, TestText(item), WildText(item),
                Quoted(item.close), o, p, t, w, c)
  <2>1. /\ Quoted(item.open) \in Seq(Chars) /\ Len(Quoted(item.open)) = o
        /\ item.part \in Seq(Chars) /\ Len(item.part) = p
        /\ TestText(item) \in Seq(Chars) /\ Len(TestText(item)) = t
        /\ WildText(item) \in Seq(Chars) /\ Len(WildText(item)) = w
        /\ Quoted(item.close) \in Seq(Chars) /\ Len(Quoted(item.close)) = c
    BY PartLengths, PartsType
  <2> HIDE DEF o, p, t, w, c
  <2> QED BY <1>1, <2>1, PartsType, FiveJoined DEF ItemText
<1> HIDE DEF o, p, t, w, c, text
<1>3. Len(text) = o + CoreLen(item) + c
  BY <1>1, <1>2 DEF FiveIn
<1>4. item.open => text[o] = "'"
  <2>1. item.open => 1 \in 1..o
    BY <1>1
  <2> QED BY <2>1, <1>1, <1>2, PartLengths DEF FiveIn
<1>5. ASSUME item.test # <<>>
      PROVE  /\ text[o + p + 1] = ":"
             /\ \A m \in 1..Len(item.test) : text[o + p + 1 + m] = item.test[m]
  <2>1. 1 \in 1..t /\ \A m \in 1..Len(item.test) : 1 + m \in 1..t
    BY <1>1, <1>5
  <2>2. ASSUME NEW m \in 1..Len(item.test) PROVE text[o + p + 1 + m] = item.test[m]
    <3>1. text[o + p + (1 + m)] = TestText(item)[1 + m]
      BY <1>2, <2>1 DEF FiveIn
    <3>2. o + p + (1 + m) = o + p + 1 + m
      BY <1>1
    <3> QED BY <3>1, <3>2, <1>5, PartLengths
  <2> QED BY <1>2, <1>5, <2>1, <2>2, PartLengths DEF FiveIn
<1>6. item.wild => text[o + CoreLen(item)] = "*"
  <2>1. item.wild => 1 \in 1..w /\ o + p + t + 1 = o + CoreLen(item)
    BY <1>1
  <2> QED BY <2>1, <1>2, PartLengths DEF FiveIn
<1>7. item.close => text[o + CoreLen(item) + 1] = "'"
  <2>1. item.close => 1 \in 1..c /\ o + p + t + w + 1 = o + CoreLen(item) + 1
    BY <1>1
  <2> QED BY <2>1, <1>2, PartLengths DEF FiveIn
<1>8. CoreAt(text, o, item)
  BY <1>2, <1>5, <1>6 DEF CoreAt, FiveIn, p
<1> QED BY <1>2, <1>3, <1>4, <1>7, <1>8 DEF o, c, text

\* What comes before the item in its piece: a comma, a quote.
Lead(items, k) == One(k # 1) + One(items[k].open)

PieceLen(items, k) == Lead(items, k) + CoreLen(items[k]) + One(items[k].close)

PieceAt(s, o, items, k) ==
  /\ k # 1 => s[o + 1] = ","
  /\ items[k].open => s[o + Lead(items, k)] = "'"
  /\ CoreAt(s, o + Lead(items, k), items[k])
  /\ items[k].close => s[o + Lead(items, k) + CoreLen(items[k]) + 1] = "'"

LEMMA LeadType ==
  ASSUME NEW items \in Seq(Items), NEW k \in 1..Len(items)
  PROVE  /\ items[k] \in Items
         /\ Lead(items, k) \in Nat /\ PieceLen(items, k) \in Nat
         /\ k # 1 => Lead(items, k) >= 1
         /\ items[k].open => Lead(items, k) >= 1
         /\ items[k].close => One(items[k].close) = 1
<1>1. items[k] \in Items
  OBVIOUS
<1>2. /\ One(k # 1) \in Nat /\ One(items[k].open) \in Nat /\ CoreLen(items[k]) \in Nat
      /\ One(items[k].close) \in Nat
      /\ k # 1 => One(k # 1) = 1
      /\ items[k].open => One(items[k].open) = 1
      /\ items[k].close => One(items[k].close) = 1
  BY <1>1, LengthsType DEF One
<1>3. /\ Lead(items, k) \in Nat
      /\ k # 1 => Lead(items, k) >= 1
      /\ items[k].open => Lead(items, k) >= 1
  BY <1>2 DEF Lead
<1> QED BY <1>1, <1>2, <1>3 DEF PieceLen

LEMMA CoreMoved ==
  ASSUME NEW item \in Items, NEW a \in Nat, NEW o \in Nat, NEW x, NEW s, CoreAt(x, a, item),
         \A m \in 1..a + CoreLen(item) : s[o + m] = x[m]
  PROVE  CoreAt(s, o + a, item)
<1> DEFINE p == Len(item.part)
           t == TestLen(item)
           w == One(item.wild)
           core == CoreLen(item)
<1>1. /\ p \in Nat /\ t \in Nat /\ w \in Nat /\ core = p + t + w
      /\ Len(item.test) \in Nat
      /\ item.test # <<>> => t = 1 + Len(item.test)
      /\ item.wild => w = 1
  BY LengthsType DEF CoreLen, TestLen, One
<1> HIDE DEF p, t, w, core
<1>2. \A m \in 1..a + core : s[o + m] = x[m]
  BY DEF core
<1>3. ASSUME NEW m \in 1..p PROVE s[o + a + m] = item.part[m]
  <2>1. a + m \in 1..a + core /\ o + (a + m) = o + a + m
    BY <1>1
  <2>2. x[a + m] = item.part[m]
    BY DEF CoreAt, p
  <2>3. s[o + (a + m)] = x[a + m]
    BY <1>2, <2>1
  <2> QED BY <2>1, <2>2, <2>3
<1>4. ASSUME item.test # <<>> PROVE s[o + a + p + 1] = ":"
  <2>1. a + p + 1 \in 1..a + core /\ o + (a + p + 1) = o + a + p + 1
    BY <1>1, <1>4
  <2>2. x[a + p + 1] = ":"
    BY <1>4 DEF CoreAt, p
  <2>3. s[o + (a + p + 1)] = x[a + p + 1]
    BY <1>2, <2>1
  <2> QED BY <2>1, <2>2, <2>3
<1>5. ASSUME item.test # <<>>, NEW m \in 1..Len(item.test)
      PROVE  s[o + a + p + 1 + m] = item.test[m]
  <2>1. a + p + 1 + m \in 1..a + core /\ o + (a + p + 1 + m) = o + a + p + 1 + m
    BY <1>1, <1>5
  <2>2. x[a + p + 1 + m] = item.test[m]
    BY <1>5 DEF CoreAt, p
  <2>3. s[o + (a + p + 1 + m)] = x[a + p + 1 + m]
    BY <1>2, <2>1
  <2> QED BY <2>1, <2>2, <2>3
<1>6. ASSUME item.wild PROVE s[o + a + core] = "*"
  <2>1. a + core \in 1..a + core /\ o + (a + core) = o + a + core
    BY <1>1, <1>6
  <2>2. x[a + core] = "*"
    BY <1>6 DEF CoreAt, core
  <2>3. s[o + (a + core)] = x[a + core]
    BY <1>2, <2>1
  <2> QED BY <2>1, <2>2, <2>3
<1> QED BY <1>3, <1>4, <1>5, <1>6 DEF CoreAt, p, core

LEMMA PieceMoved ==
  ASSUME NEW items \in Seq(Items), NEW k \in 1..Len(items), NEW o \in Nat, NEW x, NEW s,
         PieceAt(x, 0, items, k), \A m \in 1..PieceLen(items, k) : s[o + m] = x[m]
  PROVE  PieceAt(s, o, items, k)
<1> DEFINE lead == Lead(items, k)
           core == CoreLen(items[k])
           all == PieceLen(items, k)
<1>1. /\ items[k] \in Items /\ lead \in Nat /\ core \in Nat /\ all \in Nat
      /\ One(items[k].close) \in Nat /\ all = lead + core + One(items[k].close)
      /\ k # 1 => lead >= 1
      /\ items[k].open => lead >= 1
      /\ items[k].close => One(items[k].close) = 1
  BY LeadType, LengthsType DEF PieceLen
<1>2. /\ k # 1 => x[0 + 1] = ","
      /\ items[k].open => x[0 + lead] = "'"
      /\ CoreAt(x, 0 + lead, items[k])
      /\ items[k].close => x[0 + lead + core + 1] = "'"
  BY DEF PieceAt
<1> HIDE DEF lead, core, all
<1>3. \A m \in 1..all : s[o + m] = x[m]
  BY DEF all
<1>4. 0 + 1 = 1 /\ 0 + lead = lead /\ 0 + lead + core + 1 = lead + core + 1
  BY <1>1
<1>5. CoreAt(s, o + lead, items[k])
  <2>1. \A m \in 1..lead + core : m \in 1..all
    BY <1>1
  <2>2. \A m \in 1..lead + CoreLen(items[k]) : s[o + m] = x[m]
    BY <1>3, <2>1 DEF core
  <2>3. CoreAt(x, lead, items[k])
    BY <1>2, <1>4
  <2> QED BY <1>1, <2>2, <2>3, CoreMoved
<1>6. k # 1 => s[o + 1] = ","
  <2>1. k # 1 => 1 \in 1..all
    BY <1>1
  <2> QED BY <2>1, <1>2, <1>3, <1>4
<1>7. items[k].open => s[o + lead] = "'"
  <2>1. items[k].open => lead \in 1..all
    BY <1>1
  <2> QED BY <2>1, <1>2, <1>3, <1>4
<1>8. items[k].close => s[o + lead + core + 1] = "'"
  <2>1. items[k].close => lead + core + 1 \in 1..all
    <3> SUFFICES ASSUME items[k].close PROVE lead + core + 1 \in 1..all
      OBVIOUS
    <3>1. all = lead + core + 1
      BY <1>1
    <3>2. lead \in Nat /\ core \in Nat
      BY <1>1
    <3> QED BY <3>1, <3>2
  <2>2. o + (lead + core + 1) = o + lead + core + 1
    BY <1>1
  <2>3. items[k].close => s[o + (lead + core + 1)] = "'"
    BY <2>1, <1>2, <1>3, <1>4
  <2> QED BY <2>2, <2>3
<1> QED BY <1>5, <1>6, <1>7, <1>8 DEF PieceAt, lead, core

LEMMA PieceIs ==
  ASSUME NEW items \in Seq(Items), NEW k \in 1..Len(items)
  PROVE  /\ Piece(items, k) \in Seq(Chars) /\ Len(Piece(items, k)) = PieceLen(items, k)
         /\ PieceAt(Piece(items, k), 0, items, k)
<1> DEFINE item == items[k]
           text == ItemText(item)
           o == One(item.open)
           core == CoreLen(item)
           c == One(item.close)
           x == Piece(items, k)
<1>1. item \in Items /\ o \in Nat /\ core \in Nat /\ c \in Nat
  <2>1. item \in Items
    BY LeadType
  <2> HIDE DEF item
  <2>2. CoreLen(item) \in Nat /\ \A is : One(is) \in {0, 1}
    BY <2>1, LengthsType
  <2>3. \A is : One(is) \in Nat
    BY <2>2
  <2> QED BY <2>1, <2>2, <2>3
<1>2. /\ text \in Seq(Chars) /\ Len(text) = o + core + c
      /\ item.open => o = 1 /\ text[o] = "'"
      /\ CoreAt(text, o, item)
      /\ item.close => c = 1 /\ text[o + core + 1] = "'"
  BY <1>1, TextIs DEF One
<1>3. CASE k = 1
  <2>1. x = text /\ Lead(items, k) = o /\ PieceLen(items, k) = o + core + c
    BY <1>1, <1>3 DEF Piece, Lead, PieceLen, One
  <2>2. 0 + o = o /\ 0 + o + core + 1 = o + core + 1
    BY <1>1
  <2> HIDE DEF x, text, o, core, c
  <2>3. PieceAt(x, 0, items, k)
    BY <1>2, <1>3, <2>1, <2>2 DEF PieceAt, core
  <2> QED BY <1>2, <2>1, <2>3 DEF x
<1>4. CASE k # 1
  <2>1. x = <<",">> \o text /\ Lead(items, k) = 1 + o /\ PieceLen(items, k) = 1 + o + core + c
    BY <1>1, <1>4 DEF Piece, Lead, PieceLen, One
  <2>2. <<",">> \in Seq(Chars) /\ Len(<<",">>) = 1 /\ <<",">>[1] = ","
    <3>1. "," \in Chars
      BY DEF Chars, Delimiters
    <3> QED BY <3>1, OneLong
  <2> HIDE DEF text, o, core, c, item
  <2>3. IsJoined(Chars, x, <<",">>, text, 1, o + core + c)
    BY <1>1, <1>2, <2>1, <2>2, JoinedAt
  <2> HIDE DEF x
  <2>4. /\ x \in Seq(Chars) /\ Len(x) = 1 + (o + core + c)
        /\ x[1] = ","
        /\ \A m \in 1..o + core + c : x[1 + m] = text[m]
    <3>1. 1 \in 1..1
      OBVIOUS
    <3> QED BY <2>2, <2>3, <3>1 DEF IsJoined
  <2>5. CoreAt(x, 1 + o, item)
    <3>1. \A m \in 1..o + core : m \in 1..o + core + c
      BY <1>1
    <3>2. \A m \in 1..o + CoreLen(item) : x[1 + m] = text[m]
      BY <2>4, <3>1 DEF core
    <3> QED BY <1>1, <1>2, <3>2, CoreMoved
  <2>6. item.open => x[0 + (1 + o)] = "'"
    <3>1. item.open => o \in 1..o + core + c /\ 0 + (1 + o) = 1 + o
      BY <1>1, <1>2
    <3> QED BY <1>2, <2>4, <3>1
  <2>7. item.close => x[0 + (1 + o) + core + 1] = "'"
    <3>1. item.close => o + core + 1 \in 1..o + core + c
      BY <1>1, <1>2
    <3>2. 0 + (1 + o) + core + 1 = 1 + (o + core + 1)
      BY <1>1
    <3> QED BY <1>2, <2>4, <3>1, <3>2
  <2>8. 0 + 1 = 1 /\ 0 + (1 + o) = 1 + o /\ 1 + (o + core + c) = 1 + o + core + c
    BY <1>1
  <2>9. PieceAt(x, 0, items, k)
    BY <2>1, <2>4, <2>5, <2>6, <2>7, <2>8 DEF PieceAt, item, core
  <2> QED BY <2>1, <2>4, <2>8, <2>9 DEF x
<1> QED BY <1>3, <1>4

\* Where the piece of an item starts in the text of the list.
Offset(items, k) == IF k = 1 THEN 0 ELSE Len(JoinedUpTo(Pieces(items))[k - 1])

Extends(s, x) == Len(x) <= Len(s) /\ \A m \in 1..Len(x) : s[m] = x[m]

LEMMA Joined ==
  ASSUME NEW items \in Seq(Items), NEW k \in 1..Len(items)
  PROVE  LET joined == JoinedUpTo(Pieces(items))
         IN  /\ joined[k] \in Seq(Chars) /\ Offset(items, k) \in Nat
             /\ Len(joined[k]) = Offset(items, k) + PieceLen(items, k)
             /\ \A m \in 1..PieceLen(items, k) :
                  joined[k][Offset(items, k) + m] = Piece(items, k)[m]
             /\ k # 1 => k - 1 \in 1..Len(items) /\ Extends(joined[k], joined[k - 1])
             /\ Rendered(items) = joined[Len(items)]
<1> DEFINE joined == JoinedUpTo(Pieces(items))
           o == Offset(items, k)
           n == PieceLen(items, k)
           x == Piece(items, k)
<1>1. Len(items) \in Nat \ {0} /\ k \in Nat /\ (k # 1 => k - 1 \in 1..Len(items))
  OBVIOUS
<1>2. /\ Pieces(items) \in Seq(Seq(Chars)) /\ Len(Pieces(items)) = Len(items)
      /\ Pieces(items) # <<>> /\ Pieces(items)[k] = x
  BY <1>1, PiecesType
<1>3. /\ \A j \in 1..Len(items) : joined[j] \in Seq(Chars)
      /\ joined[k] = JoinAt(Pieces(items), joined, k)
      /\ FlattenSeq(Pieces(items)) = joined[Len(items)]
  BY <1>2, JoinedFacts
<1>4. Rendered(items) = joined[Len(items)]
  BY <1>3, RenderedIs
<1>5. x \in Seq(Chars) /\ Len(x) = n /\ n \in Nat
  BY PieceIs, LeadType
<1>6. CASE k = 1
  <2>1. joined[k] = x /\ o = 0
    BY <1>2, <1>3, <1>6 DEF JoinAt, Offset
  <2> HIDE DEF joined, x, n, o
  <2>2. 0 + n = n /\ \A m \in 1..n : 0 + m = m
    BY <1>5
  <2> QED BY <1>3, <1>4, <1>5, <1>6, <2>1, <2>2 DEF joined, x, n, o
<1>7. CASE k # 1
  <2>1. joined[k] = joined[k - 1] \o x /\ o = Len(joined[k - 1]) /\ joined[k - 1] \in Seq(Chars)
    BY <1>1, <1>2, <1>3, <1>7 DEF JoinAt, Offset
  <2>2. o \in Nat
    BY <2>1
  <2> HIDE DEF joined, x, n, o
  <2>3. IsJoined(Chars, joined[k], joined[k - 1], x, o, n)
    BY <1>5, <2>1, <2>2, JoinedAt
  <2>4. /\ joined[k] \in Seq(Chars) /\ Len(joined[k]) = o + n
        /\ \A m \in 1..o : joined[k][m] = joined[k - 1][m]
        /\ \A m \in 1..n : joined[k][o + m] = x[m]
    BY <2>3 DEF IsJoined
  <2>5. Extends(joined[k], joined[k - 1])
    BY <1>5, <2>1, <2>2, <2>4 DEF Extends
  <2> QED BY <1>1, <1>4, <2>2, <2>4, <2>5 DEF joined, x, n, o
<1> QED BY <1>6, <1>7

LEMMA Placed ==
  ASSUME NEW items \in Seq(Items), NEW k \in 1..Len(items)
  PROVE  /\ Offset(items, k) \in Nat
         /\ PieceAt(Rendered(items), Offset(items, k), items, k)
         /\ Offset(items, k) + PieceLen(items, k)
              = IF k = Len(items) THEN Len(Rendered(items)) ELSE Offset(items, k + 1)
         /\ Offset(items, k) + PieceLen(items, k) <= Len(Rendered(items))
<1> DEFINE joined == JoinedUpTo(Pieces(items))
           n == Len(items)
           short == {j \in k..n : ~Extends(joined[j], joined[k])}
<1>1. n \in Nat \ {0} /\ k \in 1..n /\ k \in Nat
  OBVIOUS
<1>2. ASSUME NEW j \in 1..n
      PROVE  /\ joined[j] \in Seq(Chars) /\ Len(joined[j]) \in Nat
             /\ j # 1 => Extends(joined[j], joined[j - 1])
  BY Joined
<1> HIDE DEF joined
<1>3. short = {}
  <2> SUFFICES ASSUME short # {} PROVE FALSE
    OBVIOUS
  <2>1. short \in SUBSET Nat
    BY <1>1
  <2>2. PICK j \in short : \A l \in short : j <= l
    <3> HIDE DEF short
    <3> QED BY <2>1, LeastNat
  <2>3. j \in k..n /\ ~Extends(joined[j], joined[k])
    BY <2>2
  <2>4. j # k
    BY <1>2, <2>3 DEF Extends
  <2>5. j - 1 \in k..n /\ j - 1 \notin short /\ j \in 1..n /\ j # 1 /\ j - 1 \in 1..n
    BY <1>1, <2>2, <2>3, <2>4
  <2>6. Extends(joined[j - 1], joined[k])
    BY <2>5
  <2>7. Extends(joined[j], joined[j - 1])
    BY <1>2, <2>5
  <2>8. Len(joined[j]) \in Nat /\ Len(joined[j - 1]) \in Nat /\ Len(joined[k]) \in Nat
    BY <1>1, <1>2, <2>5
  <2>9. Extends(joined[j], joined[k])
    BY <2>6, <2>7, <2>8 DEF Extends
  <2> QED BY <2>3, <2>9
<1>4. Extends(joined[n], joined[k])
  BY <1>1, <1>3
<1>5. /\ Offset(items, k) \in Nat /\ PieceLen(items, k) \in Nat
      /\ Len(joined[k]) = Offset(items, k) + PieceLen(items, k)
      /\ \A m \in 1..PieceLen(items, k) :
           joined[k][Offset(items, k) + m] = Piece(items, k)[m]
      /\ Rendered(items) = joined[n]
  BY Joined, LeadType DEF joined
<1>6. \A m \in 1..PieceLen(items, k) : Rendered(items)[Offset(items, k) + m] = Piece(items, k)[m]
  <2>1. \A m \in 1..PieceLen(items, k) : Offset(items, k) + m \in 1..Len(joined[k])
    BY <1>5
  <2> QED BY <1>4, <1>5, <2>1 DEF Extends
<1>7. PieceAt(Rendered(items), Offset(items, k), items, k)
  BY <1>5, <1>6, PieceIs, PieceMoved
<1>8. Offset(items, k) + PieceLen(items, k) <= Len(Rendered(items))
  BY <1>4, <1>5 DEF Extends
<1>9. k # n => Offset(items, k + 1) = Len(joined[k])
  <2>1. k + 1 # 1 /\ (k + 1) - 1 = k
    BY <1>1
  <2> QED BY <2>1 DEF Offset, joined
<1> QED BY <1>5, <1>7, <1>8, <1>9

\* Where the item itself starts, and what follows it.
Start(items, k) == Offset(items, k) + Lead(items, k) + 1

Behind(items, k) == Start(items, k) + CoreLen(items[k])

LEMMA ItemBounds ==
  ASSUME NEW items \in Seq(Items), NEW k \in 1..Len(items), WellFormed(items)
  PROVE  /\ Start(items, k) \in 1..Len(Rendered(items))
         /\ Behind(items, k) \in Start(items, k) + 1..Len(Rendered(items)) + 1
         /\ items[k].part = <<>> => items[k].test = <<>> /\ items[k].wild
         /\ Behind(items, k) + One(items[k].close)
              = 1 + (IF k = Len(items) THEN Len(Rendered(items)) ELSE Offset(items, k + 1))
<1> DEFINE item == items[k]
           core == CoreLen(item)
           c == One(item.close)
           size == Len(Rendered(items))
<1>1. /\ item \in Items /\ Lead(items, k) \in Nat /\ Offset(items, k) \in Nat
      /\ Offset(items, k) + PieceLen(items, k) <= size
      /\ Offset(items, k) + PieceLen(items, k)
           = IF k = Len(items) THEN size ELSE Offset(items, k + 1)
      /\ size \in Nat
  BY LeadType, Placed, RenderedType
<1>2. core \in Nat /\ c \in Nat /\ Len(item.part) \in Nat /\ item.part \in Seq(Letters)
      /\ core = Len(item.part) + TestLen(item) + One(item.wild) /\ TestLen(item) \in Nat
      /\ One(item.wild) \in Nat
  <2>1. core \in Nat /\ Len(item.part) \in Nat /\ TestLen(item) \in Nat
        /\ (\A is : One(is) \in {0, 1}) /\ item.part \in Seq(Letters)
    BY <1>1, LengthsType DEF Items
  <2>2. core = Len(item.part) + TestLen(item) + One(item.wild)
    BY DEF CoreLen
  <2>3. One(item.wild) \in {0, 1} /\ c \in {0, 1}
    BY <2>1
  <2> HIDE DEF core, c, item
  <2> QED BY <2>1, <2>2, <2>3
<1>3. item.part = <<>> => item.test = <<>> /\ item.wild
  BY DEF WellFormed
<1>4. core >= 1
  <2>1. CASE item.part = <<>>
    <3>1. One(item.wild) = 1
      BY <1>3, <2>1 DEF One
    <3> QED BY <1>2, <3>1
  <2>2. CASE item.part # <<>>
    <3>1. Len(item.part) >= 1
      BY <1>2, <2>2
    <3> QED BY <1>2, <3>1
  <2> QED BY <2>1, <2>2
<1>5. PieceLen(items, k) = Lead(items, k) + core + c
  BY DEF PieceLen
<1>6. Start(items, k) = Offset(items, k) + Lead(items, k) + 1
      /\ Behind(items, k) = Offset(items, k) + Lead(items, k) + 1 + core
  BY DEF Start, Behind
<1> DEFINE off == Offset(items, k)
           lead == Lead(items, k)
<1> HIDE DEF item, core, c, size, off, lead
<1>7. /\ Start(items, k) \in 1..size /\ Behind(items, k) \in Start(items, k) + 1..size + 1
      /\ Behind(items, k) + c = 1 + (Offset(items, k) + PieceLen(items, k))
  <2>1. off \in Nat /\ lead \in Nat /\ off + PieceLen(items, k) <= size /\ size \in Nat
    BY <1>1 DEF off, lead
  <2>2. core \in Nat /\ c \in Nat /\ PieceLen(items, k) = lead + core + c
    BY <1>2, <1>5 DEF lead
  <2>3. Start(items, k) = off + lead + 1 /\ Behind(items, k) = off + lead + 1 + core
    BY <1>6 DEF off, lead
  <2>4. Behind(items, k) + c = 1 + (off + PieceLen(items, k))
    BY <2>1, <2>2, <2>3
  <2> QED BY <1>4, <2>1, <2>2, <2>3, <2>4 DEF off
<1> QED BY <1>1, <1>3, <1>7 DEF size, item, c

LEMMA ItemStands ==
  ASSUME NEW items \in Seq(Items), NEW k \in 1..Len(items), WellFormed(items)
  PROVE  LET s == Rendered(items)
             item == items[k]
             c == Start(items, k)
             p == Len(item.part)
         IN  /\ \A m \in 1..p : CharAt(s, c + m - 1) = item.part[m]
             /\ item.test # <<>> =>
                  /\ CharAt(s, c + p) = ":"
                  /\ \A m \in 1..Len(item.test) : CharAt(s, c + p + m) = item.test[m]
             /\ item.wild => CharAt(s, Behind(items, k) - 1) = "*"
<1> DEFINE s == Rendered(items)
           item == items[k]
           c == Start(items, k)
           o == Offset(items, k) + Lead(items, k)
           p == Len(item.part)
           t == Len(item.test)
           e == Behind(items, k)
<1>1. /\ c \in Nat /\ o \in Nat /\ p \in Nat /\ t \in Nat /\ c = o + 1 /\ Len(s) \in Nat
      /\ TestLen(item) \in Nat /\ One(item.wild) \in {0, 1}
  <2>1. items[k] \in Items
    OBVIOUS
  <2>2. Lead(items, k) \in Nat /\ Offset(items, k) \in Nat /\ Len(s) \in Nat
    BY LeadType, Placed, RenderedType
  <2>3. /\ Len(item.part) \in Nat /\ Len(item.test) \in Nat /\ TestLen(item) \in Nat
        /\ \A is : One(is) \in {0, 1}
    BY <2>1, LengthsType
  <2>4. c = o + 1
    BY DEF Start
  <2> HIDE DEF s, item
  <2>5. One(item.wild) \in {0, 1}
    BY <2>3
  <2> HIDE DEF c
  <2> QED BY <2>2, <2>3, <2>4, <2>5
<1>2. CoreAt(s, o, item)
  BY Placed DEF PieceAt
<1>3. e \in c + 1..Len(s) + 1 /\ e = c + CoreLen(item)
  BY ItemBounds DEF Behind
<1>4. CoreLen(item) = p + TestLen(item) + One(item.wild)
  BY DEF CoreLen
<1>5. item.test # <<>> => TestLen(item) = 1 + t
  BY DEF TestLen
<1> DEFINE tl == TestLen(item)
           w == One(item.wild)
<1> HIDE DEF s, item, c, o, e, p, t, tl, w
<1>11. /\ c \in Nat /\ o \in Nat /\ p \in Nat /\ t \in Nat /\ c = o + 1 /\ Len(s) \in Nat
       /\ tl \in Nat /\ w \in Nat /\ e = c + p + tl + w /\ e <= Len(s) + 1
       /\ item.test # <<>> => tl = 1 + t
  <2>1. e = c + (p + tl + w)
    BY <1>3, <1>4 DEF tl, w
  <2>2. w \in Nat /\ tl \in Nat
    BY <1>1 DEF tl, w
  <2> QED BY <1>1, <1>3, <1>5, <2>1, <2>2 DEF tl
<1>6. ASSUME NEW l \in 1..Len(s) PROVE CharAt(s, l) = s[l]
  BY <1>1 DEF CharAt
<1>7. ASSUME NEW m \in 1..p PROVE CharAt(s, c + m - 1) = item.part[m]
  <2>1. s[o + m] = item.part[m]
    BY <1>2 DEF CoreAt, p, t
  <2>2. o + m \in 1..Len(s) /\ c + m - 1 = o + m
    BY <1>11
  <2> QED BY <1>6, <2>1, <2>2
<1>8. ASSUME item.test # <<>> PROVE CharAt(s, c + p) = ":"
  <2>1. s[o + p + 1] = ":"
    BY <1>2, <1>8 DEF CoreAt, p, t
  <2>2. o + p + 1 \in 1..Len(s) /\ c + p = o + p + 1
    BY <1>11, <1>8
  <2> QED BY <1>6, <2>1, <2>2
<1>9. ASSUME item.test # <<>>, NEW m \in 1..t PROVE CharAt(s, c + p + m) = item.test[m]
  <2>1. s[o + p + 1 + m] = item.test[m]
    BY <1>2, <1>9 DEF CoreAt, p, t
  <2>2. o + p + 1 + m \in 1..Len(s) /\ c + p + m = o + p + 1 + m
    BY <1>11, <1>9
  <2> QED BY <1>6, <2>1, <2>2
<1>10. ASSUME item.wild PROVE CharAt(s, e - 1) = "*"
  <2>1. s[o + CoreLen(item)] = "*"
    BY <1>2, <1>10 DEF CoreAt, p, t
  <2>2. e - 1 \in 1..Len(s) /\ e - 1 = o + CoreLen(item)
    <3>1. w = 1
      BY <1>10 DEF w, One
    <3>2. CoreLen(item) = p + tl + w
      BY <1>4 DEF tl, w
    <3> QED BY <1>11, <3>1, <3>2
  <2> QED BY <1>6, <2>1, <2>2
<1> QED BY <1>7, <1>8, <1>9, <1>10 DEF s, item, c, e, p, t

LEMMA LettersApart ==
  ASSUME NEW x \in Letters
  PROVE  x \notin Delimiters /\ x \notin Separators /\ x # "end" /\ x # ":" /\ x # "*"
BY OptionsAssumption DEF Delimiters, Separators

(* What the characters of an item are.                                     *)
LEMMA ItemChars ==
  ASSUME NEW items \in Seq(Items), NEW k \in 1..Len(items), WellFormed(items),
         NEW l \in Start(items, k)..Behind(items, k) - 1
  PROVE  LET x == CharAt(Rendered(items), l)
             p == Len(items[k].part)
         IN  /\ x \notin Separators /\ x # "end"
             /\ l = Start(items, k) => x # ":"
             /\ x = ":" => l = Start(items, k) + p /\ items[k].test # <<>>
<1> DEFINE s == Rendered(items)
           item == items[k]
           c == Start(items, k)
           p == Len(item.part)
           t == Len(item.test)
           e == Behind(items, k)
<1>1. /\ c \in Nat /\ p \in Nat /\ t \in Nat /\ e = c + CoreLen(item) /\ e \in Nat
      /\ TestLen(item) \in Nat /\ item.part \in Seq(Letters) /\ item.test \in Seq(Letters)
  <2>1. items[k] \in Items
    OBVIOUS
  <2>2. Start(items, k) \in 1..Len(s) /\ Behind(items, k) \in c + 1..Len(s) + 1 /\ Len(s) \in Nat
    BY ItemBounds, RenderedType
  <2>3. e = c + CoreLen(item)
    BY DEF Behind
  <2>4. /\ Len(item.part) \in Nat /\ Len(item.test) \in Nat /\ TestLen(item) \in Nat
        /\ item.part \in Seq(Letters) /\ item.test \in Seq(Letters)
    BY <2>1, LengthsType DEF Items
  <2> HIDE DEF s, item, c, e
  <2> QED BY <2>2, <2>3, <2>4 DEF c, e
<1>2. CoreLen(item) = p + TestLen(item) + One(item.wild)
  BY DEF CoreLen
<1>3. /\ TestLen(item) = IF item.test = <<>> THEN 0 ELSE 1 + t
      /\ One(item.wild) = IF item.wild THEN 1 ELSE 0
  BY DEF TestLen, One
<1>4. /\ \A m \in 1..p : CharAt(s, c + m - 1) = item.part[m]
      /\ item.test # <<>> =>
           /\ CharAt(s, c + p) = ":"
           /\ \A m \in 1..t : CharAt(s, c + p + m) = item.test[m]
      /\ item.wild => CharAt(s, e - 1) = "*"
  BY ItemStands
<1>5. item.part = <<>> => item.test = <<>> /\ item.wild
  BY ItemBounds
<1>6. l \in c..e - 1 /\ l \in Nat
  <2>1. l \in c..e - 1
    OBVIOUS
  <2> HIDE DEF c, e
  <2> QED BY <1>1, <2>1
<1> HIDE DEF s, item, c, e, p, t
<1>7. CASE l < c + p
  <2>1. l - c + 1 \in 1..p /\ c + (l - c + 1) - 1 = l
    BY <1>1, <1>6, <1>7
  <2>2. CharAt(s, l) = item.part[l - c + 1]
    BY <1>4, <2>1
  <2>3. CharAt(s, l) \in Letters
    BY <1>1, <2>1, <2>2 DEF p
  <2> QED BY <2>3, LettersApart DEF s, item, c, e, p, t
<1>8. CASE l >= c + p /\ item.test # <<>> /\ l = c + p
  <2>1. CharAt(s, l) = ":" /\ l # c
    <3>1. item.part # <<>>
      BY <1>5, <1>8
    <3>2. p # 0
      BY <1>1, <3>1 DEF p
    <3> QED BY <1>1, <1>4, <1>8, <3>2
  <2>2. ":" \notin Separators
    BY DEF Separators
  <2> QED BY <1>8, <2>1, <2>2 DEF s, item, c, e, p, t
<1>9. CASE l > c + p /\ item.test # <<>> /\ l <= c + p + t
  <2>1. l - (c + p) \in 1..t /\ c + p + (l - (c + p)) = l
    BY <1>1, <1>6, <1>9
  <2>2. CharAt(s, l) = item.test[l - (c + p)]
    BY <1>4, <1>9, <2>1
  <2>3. CharAt(s, l) \in Letters
    BY <1>1, <2>1, <2>2 DEF t
  <2> QED BY <2>3, LettersApart DEF s, item, c, e, p, t
<1>10. CASE item.wild /\ l = e - 1
  <2>1. CharAt(s, l) = "*"
    BY <1>4, <1>10
  <2>2. "*" \notin Separators
    BY DEF Separators
  <2> QED BY <2>1, <2>2 DEF s, item, c, e, p, t
<1>11. \/ l < c + p
       \/ l >= c + p /\ item.test # <<>> /\ l = c + p
       \/ l > c + p /\ item.test # <<>> /\ l <= c + p + t
       \/ item.wild /\ l = e - 1
  BY <1>1, <1>2, <1>3, <1>6
<1> QED BY <1>7, <1>8, <1>9, <1>10, <1>11

(* Between two items, and behind the last, there are quotes and commas     *)
(* only.                                                                   *)
LEMMA GapIs ==
  ASSUME NEW items \in Seq(Items), NEW k \in 1..Len(items), WellFormed(items),
         NEW l \in Behind(items, k)..Len(Rendered(items)),
         k # Len(items) => l < Start(items, k + 1)
  PROVE  CharAt(Rendered(items), l) \in Separators
<1> DEFINE s == Rendered(items)
           item == items[k]
           e == Behind(items, k)
           c == One(item.close)
           n == Len(items)
<1>1. /\ Start(items, k) \in 1..Len(s) /\ e \in Start(items, k) + 1..Len(s) + 1
      /\ e + c = 1 + (IF k = n THEN Len(s) ELSE Offset(items, k + 1))
      /\ Len(s) \in Nat /\ l \in e..Len(s)
  BY ItemBounds, RenderedType
<1>2. (item.close => c = 1) /\ (~item.close => c = 0)
  BY DEF One
<1>3. n \in Nat /\ k \in 1..n
  OBVIOUS
<1>4. e \in Nat /\ l \in Nat /\ l <= Len(s) /\ e <= l
  <2> HIDE DEF s, e
  <2>1. Start(items, k) \in Nat
    BY <1>1
  <2> QED BY <1>1, <2>1
<1>5. CharAt(s, l) = s[l]
  BY <1>4 DEF CharAt
<1>6. CASE item.close /\ l = e
  <2>1. s[Offset(items, k) + Lead(items, k) + CoreLen(item) + 1] = "'"
    BY <1>6, Placed DEF PieceAt
  <2>2. Offset(items, k) + Lead(items, k) + CoreLen(item) + 1 = e
    <3>1. Offset(items, k) \in Nat /\ Lead(items, k) \in Nat /\ item \in Items
      BY Placed, LeadType
    <3>2. CoreLen(item) \in Nat
      BY <3>1, LengthsType
    <3>3. e = Offset(items, k) + Lead(items, k) + 1 + CoreLen(item)
      BY DEF Behind, Start
    <3> HIDE DEF e, item
    <3> QED BY <3>1, <3>2, <3>3
  <2>3. s[e] = "'"
    BY <2>1, <2>2
  <2> QED BY <1>5, <1>6, <2>3 DEF Separators
<1>7. CASE ~(item.close /\ l = e)
  <2> HIDE DEF s, e, c, item, n
  <2>1. l >= e + c
    <3>1. CASE item.close
      <4>1. c = 1 /\ l # e
        BY <1>2, <1>7, <3>1
      <4> QED BY <1>4, <4>1
    <3>2. CASE ~item.close
      BY <1>2, <1>4, <3>2
    <3> QED BY <3>1, <3>2
  <2>2. k # n
    <3> SUFFICES ASSUME k = n PROVE FALSE
      OBVIOUS
    <3>1. e + c = 1 + Len(s)
      BY <1>1
    <3> QED BY <1>1, <1>4, <2>1, <3>1
  <2> DEFINE o2 == Offset(items, k + 1)
             lead == Lead(items, k + 1)
             w == One(items[k + 1].open)
  <2>3. k + 1 \in 1..Len(items) /\ k + 1 # 1
    BY <1>3, <2>2 DEF n
  <2>4. o2 \in Nat /\ PieceAt(s, o2, items, k + 1)
    BY <2>3, Placed DEF s
  <2>5. s[o2 + 1] = "," /\ (items[k + 1].open => s[o2 + lead] = "'")
    BY <2>3, <2>4 DEF PieceAt
  <2>6. l = o2 + 1 \/ (items[k + 1].open /\ l = o2 + lead)
    <3>1. l < o2 + lead + 1 /\ e + c = 1 + o2
      BY <1>1, <2>2 DEF Start, n
    <3>2. lead = 1 + w /\ w \in {0, 1} /\ (w = 1 => items[k + 1].open)
      <4>1. One(k + 1 # 1) = 1
        BY <2>3 DEF One
      <4>2. lead = 1 + w
        BY <4>1 DEF Lead
      <4> QED BY <4>2 DEF One
    <3> HIDE DEF o2, lead, w
    <3>3. w = 0 \/ w = 1
      BY <3>2
    <3>4. CASE w = 0
      BY <1>4, <2>1, <2>4, <3>1, <3>2, <3>4
    <3>5. CASE w = 1
      <4>1. l >= 1 + o2 /\ l < o2 + (1 + 1) + 1
        BY <2>1, <3>1, <3>2, <3>5
      <4>2. l = o2 + 1 \/ l = o2 + (1 + 1)
        BY <1>4, <2>4, <4>1
      <4> QED BY <3>2, <3>5, <4>2
    <3> QED BY <3>3, <3>4, <3>5
  <2>7. s[l] \in {"'", ","}
    BY <2>5, <2>6
  <2> QED BY <1>5, <2>7 DEF Separators, s
<1> QED BY <1>6, <1>7

LEMMA BehindIs ==
  ASSUME NEW items \in Seq(Items), NEW k \in 1..Len(items), WellFormed(items)
  PROVE  CharAt(Rendered(items), Behind(items, k)) \in Separators \cup {"end"}
<1> DEFINE s == Rendered(items)
           e == Behind(items, k)
<1>1. /\ Start(items, k) \in 1..Len(s) /\ e \in Start(items, k) + 1..Len(s) + 1
      /\ Len(s) \in Nat /\ s \in Seq(Chars) /\ One(items[k].close) \in {0, 1}
      /\ e + One(items[k].close) = 1 + (IF k = Len(items) THEN Len(s) ELSE Offset(items, k + 1))
  BY ItemBounds, RenderedType DEF One
<1>2. e \in Nat
  <2> HIDE DEF s, e
  <2>1. Start(items, k) \in Nat
    BY <1>1
  <2> QED BY <1>1, <2>1
<1>3. CASE e = Len(s) + 1
  BY <1>1, <1>3, EndIs
<1>4. CASE e # Len(s) + 1
  <2>1. e \in e..Len(s)
    <3> HIDE DEF s, e
    <3> QED BY <1>1, <1>2, <1>4
  <2>2. k # Len(items) => e < Start(items, k + 1)
    <3> SUFFICES ASSUME k # Len(items) PROVE e < Start(items, k + 1)
      OBVIOUS
    <3>1. k + 1 \in 1..Len(items) /\ k + 1 # 1
      OBVIOUS
    <3>2. Offset(items, k + 1) \in Nat /\ Lead(items, k + 1) \in Nat /\ Lead(items, k + 1) >= 1
      BY <3>1, Placed, LeadType
    <3>3. e <= 1 + Offset(items, k + 1)
      <4> DEFINE c == One(items[k].close)
      <4>1. c \in {0, 1} /\ e + c = 1 + Offset(items, k + 1)
        BY <1>1
      <4> HIDE DEF c, e
      <4> QED BY <1>2, <3>2, <4>1
    <3> HIDE DEF e
    <3> QED BY <1>2, <3>2, <3>3 DEF Start
  <2> QED BY <2>1, <2>2, GapIs
<1> QED BY <1>3, <1>4

LEMMA ItemEndIs ==
  ASSUME NEW items \in Seq(Items), NEW k \in 1..Len(items), WellFormed(items)
  PROVE  ItemEnd(Rendered(items), Start(items, k)) = Behind(items, k)
<1> DEFINE s == Rendered(items)
           c == Start(items, k)
           e == Behind(items, k)
           ends == {l \in c + 1..Len(s) + 1 : CharAt(s, l) \in Separators \cup {"end"}}
<1>1. c \in 1..Len(s) /\ e \in c + 1..Len(s) + 1 /\ Len(s) \in Nat
  BY ItemBounds, RenderedType
<1>2. CharAt(s, e) \in Separators \cup {"end"}
  BY BehindIs
<1>3. \A l \in c..e - 1 : CharAt(s, l) \notin Separators \cup {"end"}
  BY ItemChars
<1> HIDE DEF s, c, e
<1>4. ends \in SUBSET Nat /\ e \in ends
  BY <1>1, <1>2
<1>5. ASSUME NEW l \in ends, ~(e <= l) PROVE FALSE
  <2>1. l \in c..e - 1
    BY <1>1, <1>5
  <2> QED BY <1>3, <2>1
<1>6. First(ends) = e
  <2> HIDE DEF ends
  <2> QED BY <1>4, <1>5, FirstIs
<1> QED BY <1>6 DEF ItemEnd, s, c, e

\* Where the cursor goes when the item at k is not a match.
After(items, k) == IF k = Len(items) THEN Len(Rendered(items)) + 1 ELSE Start(items, k + 1)

LEMMA NextIs ==
  ASSUME NEW items \in Seq(Items), NEW k \in 1..Len(items), WellFormed(items)
  PROVE  NextItem(Rendered(items), Start(items, k)) = After(items, k)
<1> DEFINE s == Rendered(items)
           c == Start(items, k)
           e == Behind(items, k)
           a == After(items, k)
           next == {l \in e..Len(s) + 1 : CharAt(s, l) \notin Separators \cup {":"}}
<1>1. c \in 1..Len(s) /\ e \in c + 1..Len(s) + 1 /\ Len(s) \in Nat /\ s \in Seq(Chars)
  BY ItemBounds, RenderedType
<1>2. ItemEnd(s, c) = e
  BY ItemEndIs
<1>3. a \in Nat /\ a <= Len(s) + 1 /\ CharAt(s, a) \notin Separators \cup {":"}
  <2>1. CASE k = Len(items)
    <3>1. a = Len(s) + 1
      BY <2>1 DEF After
    <3>2. CharAt(s, a) = "end"
      BY <1>1, <3>1, EndIs
    <3>3. "end" \notin Separators \cup {":"}
      BY DEF Separators
    <3> HIDE DEF a, s
    <3> QED BY <1>1, <3>1, <3>2, <3>3
  <2>2. CASE k # Len(items)
    <3>1. k + 1 \in 1..Len(items) /\ a = Start(items, k + 1)
      BY <2>2 DEF After
    <3>2. /\ Start(items, k + 1) \in 1..Len(s)
          /\ Behind(items, k + 1) \in Start(items, k + 1) + 1..Len(s) + 1
      BY <3>1, ItemBounds
    <3>3. Start(items, k + 1) \in Start(items, k + 1)..Behind(items, k + 1) - 1
      <4> HIDE DEF s
      <4> QED BY <1>1, <3>2
    <3>4. CharAt(s, a) \notin Separators /\ CharAt(s, a) # ":"
      BY <3>1, <3>3, ItemChars
    <3> HIDE DEF s, a
    <3> QED BY <1>1, <3>1, <3>2, <3>4
  <2> QED BY <2>1, <2>2
<1>4. \A l \in e..Len(s) : (k # Len(items) => l < Start(items, k + 1)) =>
        CharAt(s, l) \in Separators
  BY GapIs
<1>5. \A l \in e..Len(s) : l < a => CharAt(s, l) \in Separators
  BY <1>4 DEF After
<1>6. e <= a
  <2>1. CASE k = Len(items)
    BY <1>1, <2>1 DEF After
  <2>2. CASE k # Len(items)
    <3>1. k + 1 \in 1..Len(items) /\ a = Start(items, k + 1) /\ k + 1 # 1
      BY <2>2 DEF After
    <3>2. /\ Offset(items, k + 1) \in Nat /\ Lead(items, k + 1) \in Nat
          /\ One(items[k].close) \in {0, 1}
          /\ e + One(items[k].close) = 1 + Offset(items, k + 1)
      BY <2>2, <3>1, Placed, LeadType, ItemBounds DEF One
    <3>3. a = Offset(items, k + 1) + Lead(items, k + 1) + 1
      BY <3>1 DEF Start
    <3>4. e \in Nat
      <4> HIDE DEF s, e, c
      <4> QED BY <1>1
    <3> DEFINE w == One(items[k].close)
    <3>5. w \in {0, 1} /\ e + w = 1 + Offset(items, k + 1)
      BY <3>2
    <3> HIDE DEF w, a, e
    <3> QED BY <3>2, <3>3, <3>4, <3>5
  <2> QED BY <2>1, <2>2
<1> HIDE DEF s, c, e, a
<1>7. next \in SUBSET Nat /\ a \in next
  BY <1>1, <1>3, <1>6
<1>8. ASSUME NEW l \in next, ~(a <= l) PROVE FALSE
  <2>1. l \in e..Len(s) /\ l < a
    BY <1>1, <1>3, <1>8
  <2> QED BY <1>5, <2>1
<1>9. First(next) = a
  <2> HIDE DEF next
  <2> QED BY <1>7, <1>8, FirstIs
<1> QED BY <1>2, <1>9 DEF NextItem, s, c, a

LEMMA UnquotedIs ==
  ASSUME NEW items \in Seq(Items), NEW k \in 1..Len(items), WellFormed(items)
  PROVE  /\ Unquoted(Rendered(items), Start(items, k)) = Start(items, k)
         /\ k = 1 => Unquoted(Rendered(items), 1) = Start(items, 1)
<1> DEFINE s == Rendered(items)
           c == Start(items, k)
           e == Behind(items, k)
<1>1. c \in 1..Len(s) /\ e \in c + 1..Len(s) + 1 /\ Len(s) \in Nat
  BY ItemBounds, RenderedType
<1>2. CharAt(s, c) \notin Separators
  <2>1. Start(items, k) \in Start(items, k)..Behind(items, k) - 1
    <3>1. c \in c..e - 1
      <4> HIDE DEF c, e, s
      <4> QED BY <1>1
    <3> QED BY <3>1
  <2> QED BY <2>1, ItemChars
<1>3. Unquoted(s, c) = c
  BY <1>2 DEF Unquoted, Separators
<1>4. ASSUME k = 1 PROVE Unquoted(s, 1) = c
  <2>1. c = One(items[k].open) + 1
    <3>1. Offset(items, k) = 0 /\ Lead(items, k) = 0 + One(items[k].open)
      BY <1>4 DEF Offset, Lead, One
    <3>2. One(items[k].open) \in {0, 1}
      BY DEF One
    <3> DEFINE w == One(items[k].open)
    <3>3. w \in {0, 1} /\ c = 0 + (0 + w) + 1
      BY <3>1, <3>2 DEF Start
    <3> HIDE DEF w, c
    <3>4. c = w + 1
      BY <3>3
    <3> QED BY <3>4 DEF w
  <2>2. CASE items[k].open
    <3>1. c = 2 /\ Offset(items, k) + Lead(items, k) = 1
      BY <1>4, <2>1, <2>2 DEF Offset, Lead, One
    <3>2. s[Offset(items, k) + Lead(items, k)] = "'"
      BY <2>2, Placed DEF PieceAt
    <3>3. CharAt(s, 1) = "'"
      BY <1>1, <3>1, <3>2 DEF CharAt
    <3> QED BY <3>1, <3>3 DEF Unquoted
  <2>3. CASE ~items[k].open
    <3>1. c = 1
      BY <2>1, <2>3 DEF One
    <3> QED BY <1>3, <3>1
  <2> QED BY <2>2, <2>3
<1> QED BY <1>3, <1>4

-----------------------------------------------------------------------------
(* What an item matches.                                                   *)

LEMMA PartOf ==
  ASSUME NEW long \in Seq(Chars), NEW part \in Seq(Letters),
         NEW n \in 0..Len(long) - Len(part)
  PROVE  SubSeq(long, n + 1, n + Len(part)) = part
           <=> \A m \in 1..Len(part) : long[n + m] = part[m]
<1> DEFINE p == Len(part)
           x == SubSeq(long, n + 1, n + p)
<1>1. p \in Nat /\ n \in Nat /\ Len(long) \in Nat /\ n + p <= Len(long)
  OBVIOUS
<1>2. x \in Seq(Chars) /\ Len(x) = p
  BY <1>1
<1>3. ASSUME NEW m \in 1..p PROVE x[m] = long[n + m]
  BY <1>1
<1>4. part \in Seq(Chars)
  BY Widened DEF Chars
<1> HIDE DEF x
<1>5. (\A m \in 1..p : x[m] = part[m]) => x = part
  BY <1>2, <1>4
<1> QED BY <1>3, <1>5 DEF x

LEMMA SearchedIs ==
  ASSUME NEW long \in Seq(Chars), NEW s \in Seq(Chars), NEW k \in 1..Len(s),
         NEW part \in Seq(Letters), part # <<>>,
         \A m \in 1..Len(part) : CharAt(s, k + m - 1) = part[m],
         k + Len(part) <= Len(s) + 1, CharAt(s, k + Len(part)) \in Delimiters
  PROVE  IsStringInBiggerString(long, s, k)
           = IF ~Within(long, part) THEN 0
             ELSE IF CharAt(s, k + Len(part)) = ":" THEN 2 ELSE 1
<1> DEFINE p == Len(part)
           stops == {m \in 1..Len(s) + 1 : CharAt(s, k + m) \in Delimiters}
           found == \E n \in 0..Len(long) - p :
                      \A m \in 1..p : long[n + m] = CharAt(s, k + m - 1)
<1>1. p \in Nat \ {0} /\ k \in Nat /\ Len(s) \in Nat /\ Len(long) \in Nat
      /\ p \in 1..Len(s) + 1
  OBVIOUS
<1>2. \A m \in 1..p : part[m] \in Letters
  OBVIOUS
<1>3. stops \in SUBSET Nat /\ p \in stops
  BY <1>1
<1>4. ASSUME NEW m \in stops, ~(p <= m) PROVE FALSE
  <2>1. m \in 1..Len(s) + 1 /\ CharAt(s, k + m) \in Delimiters
    OBVIOUS
  <2> HIDE DEF p, stops
  <2>2. m + 1 \in 1..p /\ k + (m + 1) - 1 = k + m
    BY <1>1, <1>4, <2>1
  <2>3. CharAt(s, k + m) = part[m + 1]
    BY <2>2 DEF p
  <2> QED BY <1>2, <2>1, <2>2, <2>3, LettersApart
<1>5. First(stops) = p
  <2> HIDE DEF stops, p
  <2> QED BY <1>3, <1>4, FirstIs
<1>6. CharAt(s, k) \in Letters /\ CharAt(s, k) # "*" /\ CharAt(s, k) # "end"
  <2>1. 1 \in 1..p /\ k + 1 - 1 = k
    BY <1>1
  <2>2. CharAt(s, k) = part[1]
    BY <2>1
  <2> QED BY <1>2, <2>1, <2>2, LettersApart
<1>7. found <=> Within(long, part)
  <2>1. ASSUME NEW n \in 0..Len(long) - p
        PROVE  (\A m \in 1..p : long[n + m] = CharAt(s, k + m - 1))
                 <=> SubSeq(long, n + 1, n + p) = part
    <3>1. (\A m \in 1..p : long[n + m] = CharAt(s, k + m - 1))
            <=> \A m \in 1..p : long[n + m] = part[m]
      OBVIOUS
    <3>2. SubSeq(long, n + 1, n + p) = part <=> \A m \in 1..p : long[n + m] = part[m]
      BY PartOf
    <3> QED BY <3>1, <3>2
  <2> QED BY <2>1 DEF Within
<1>8. IsStringInBiggerString(long, s, k)
        = IF ~found THEN 0 ELSE IF CharAt(s, k + p) = ":" THEN 2 ELSE 1
  <2>1. IsStringInBiggerString(long, s, k)
          = LET length == First(stops)
                hit == \E n \in 0..Len(long) - length :
                         \A m \in 1..length : long[n + m] = CharAt(s, k + m - 1)
            IN  CASE CharAt(s, k) = "*"   -> 1
                  [] CharAt(s, k) = "end" -> 0
                  [] OTHER -> IF ~hit THEN 0 ELSE IF CharAt(s, k + length) = ":" THEN 2 ELSE 1
    BY DEF IsStringInBiggerString
  <2> HIDE DEF stops, p
  <2> QED BY <1>5, <1>6, <2>1
<1> HIDE DEF found
<1> QED BY <1>7, <1>8

LEMMA WildcardMatches ==
  ASSUME NEW long, NEW s, NEW k, CharAt(s, k) = "*"
  PROVE  IsStringInBiggerString(long, s, k) = 1
BY DEF IsStringInBiggerString

(* Where the test part of an item starts.                                  *)
LEMMA TestPartIs ==
  ASSUME NEW items \in Seq(Items), NEW k \in 1..Len(items), WellFormed(items),
         items[k].test # <<>>
  PROVE  LET c == Start(items, k)
             p == Len(items[k].part)
         IN  /\ TestPart(Rendered(items), c) = c + p + 1
             /\ c + p + 1 \in 1..Len(Rendered(items)) /\ c + p + 1 # 0
             /\ c + p + 1 + Len(items[k].test) <= Len(Rendered(items)) + 1
             /\ CharAt(Rendered(items), c + p + 1 + Len(items[k].test)) \in Delimiters
<1> DEFINE s == Rendered(items)
           item == items[k]
           c == Start(items, k)
           p == Len(item.part)
           t == Len(item.test)
           e == Behind(items, k)
           w == One(item.wild)
           colons == {l \in c + 1..e : CharAt(s, l) = ":" /\ l < Len(s)}
<1>1. /\ item \in Items /\ c \in 1..Len(s) /\ e \in c + 1..Len(s) + 1 /\ Len(s) \in Nat
      /\ item.part # <<>> /\ CharAt(s, e) \in Separators \cup {"end"} /\ ItemEnd(s, c) = e
  BY ItemBounds, RenderedType, BehindIs, ItemEndIs
<1>2. item.part \in Seq(Letters) /\ item.test \in Seq(Letters) /\ item.test # <<>>
  BY <1>1 DEF Items
<1>3. p \in Nat \ {0} /\ t \in Nat \ {0}
  <2> HIDE DEF item
  <2> QED BY <1>1, <1>2
<1>4. e = c + (p + (1 + t) + w) /\ (w = 0 \/ (w = 1 /\ item.wild))
  BY DEF Behind, CoreLen, TestLen, One
<1>5. CharAt(s, c + p) = ":" /\ (item.wild => CharAt(s, e - 1) = "*")
  BY ItemStands
<1>6. \A l \in c..e - 1 : CharAt(s, l) = ":" => l = c + p
  BY ItemChars
<1> HIDE DEF s, item, c, p, t, e, w
<1>7. /\ c \in Nat /\ e \in Nat /\ w \in Nat /\ c + p + 1 + t + w = e
      /\ e <= Len(s) + 1 /\ c + p \in c + 1..e /\ c + p < Len(s)
      /\ c + p + 1 \in 1..Len(s) /\ c + p + 1 # 0 /\ c + p + 1 + t <= Len(s) + 1
  BY <1>1, <1>3, <1>4
<1>8. c + p \in colons
  BY <1>5, <1>7
<1>9. \A l \in colons : l = c + p
  <2> SUFFICES ASSUME NEW l \in c + 1..e, CharAt(s, l) = ":" PROVE l = c + p
    OBVIOUS
  <2>1. ":" \notin Separators \cup {"end"}
    BY DEF Separators
  <2>2. l # e
    BY <1>1, <2>1
  <2>3. l \in c..e - 1
    BY <1>7, <2>2
  <2> QED BY <1>6, <2>3
<1>10. TestPart(s, c) = c + p + 1
  <2>1. TestPart(s, c) = IF colons = {} THEN 0
                         ELSE 1 + CHOOSE l \in colons : \A m \in colons : m <= l
    BY <1>1 DEF TestPart
  <2> HIDE DEF colons
  <2>2. colons = {c + p}
    BY <1>8, <1>9
  <2>3. (CHOOSE l \in colons : \A m \in colons : m <= l) = c + p
    <3>1. \A l \in colons : \A m \in colons : m <= l
      BY <1>7, <2>2
    <3>2. (CHOOSE l \in colons : \A m \in colons : m <= l) \in colons
      BY <2>2, <3>1
    <3> QED BY <2>2, <3>2
  <2>4. colons # {}
    BY <2>2
  <2>5. TestPart(s, c) = 1 + (c + p)
    BY <2>1, <2>3, <2>4
  <2> QED BY <1>3, <1>7, <2>5
<1>11. CharAt(s, c + p + 1 + t) \in Delimiters
  <2>1. CASE w = 0
    <3>1. c + p + 1 + t = e
      BY <1>3, <1>7, <2>1
    <3> QED BY <1>1, <3>1 DEF Delimiters, Separators
  <2>2. CASE w = 1 /\ item.wild
    <3>1. c + p + 1 + t = e - 1
      BY <1>3, <1>7, <2>2
    <3> QED BY <1>5, <2>2, <3>1 DEF Delimiters
  <2> QED BY <1>4, <2>1, <2>2
<1> QED BY <1>7, <1>10, <1>11 DEF s, item, c, p, t

LEMMA PartEnds ==
  ASSUME NEW items \in Seq(Items), NEW k \in 1..Len(items), WellFormed(items)
  PROVE  LET s == Rendered(items)
             stop == Start(items, k) + Len(items[k].part)
         IN  /\ stop <= Len(s) + 1 /\ CharAt(s, stop) \in Delimiters
             /\ CharAt(s, stop) = ":" <=> items[k].test # <<>>
             /\ items[k].part = <<>> => CharAt(s, Start(items, k)) = "*"
<1> DEFINE s == Rendered(items)
           item == items[k]
           c == Start(items, k)
           p == Len(item.part)
           t == TestLen(item)
           e == Behind(items, k)
           w == One(item.wild)
<1>1. /\ item \in Items /\ c \in 1..Len(s) /\ e \in c + 1..Len(s) + 1 /\ Len(s) \in Nat
      /\ item.part = <<>> => item.test = <<>> /\ item.wild
      /\ CharAt(s, e) \in Separators \cup {"end"}
  BY ItemBounds, RenderedType, BehindIs
<1>2. p \in Nat /\ t \in Nat
  <2> HIDE DEF item
  <2> QED BY <1>1, LengthsType
<1>3. e = c + (p + t + w)
  BY DEF Behind, CoreLen
<1>4. /\ (w = 0 /\ ~item.wild) \/ (w = 1 /\ item.wild)
      /\ item.test = <<>> => t = 0
      /\ item.part = <<>> => p = 0
  <2>1. (w = 0 /\ ~item.wild) \/ (w = 1 /\ item.wild)
    BY DEF One
  <2>2. item.test = <<>> => t = 0
    BY DEF TestLen
  <2>3. item.part = <<>> => p = 0
    OBVIOUS
  <2> HIDE DEF w, t, p, item
  <2> QED BY <2>1, <2>2, <2>3
<1>5. /\ item.test # <<>> => CharAt(s, c + p) = ":"
      /\ item.wild => CharAt(s, e - 1) = "*"
  BY ItemStands
<1> HIDE DEF s, item, c, p, t, e, w
<1>6. c \in Nat /\ e \in Nat /\ c + p <= Len(s) + 1
  BY <1>1, <1>2, <1>3, <1>4
<1>7. CASE item.test # <<>>
  <2>1. CharAt(s, c + p) = ":" /\ item.part # <<>>
    BY <1>1, <1>5, <1>7
  <2> QED BY <1>6, <1>7, <2>1 DEF Delimiters, s, item, c, p
<1>8. CASE item.test = <<>>
  <2>1. CharAt(s, c + p) = "*" \/ (~item.wild /\ CharAt(s, c + p) \in Separators \cup {"end"})
    <3>1. CASE w = 0 /\ ~item.wild
      <4>1. c + p = e
        BY <1>2, <1>3, <1>4, <1>6, <1>8, <3>1
      <4> QED BY <1>1, <3>1, <4>1
    <3>2. CASE w = 1 /\ item.wild
      <4>1. c + p = e - 1
        BY <1>2, <1>3, <1>4, <1>6, <1>8, <3>2
      <4> QED BY <1>5, <3>2, <4>1
    <3> QED BY <1>4, <3>1, <3>2
  <2>2. item.part = <<>> => c + p = c /\ item.wild
    BY <1>1, <1>4, <1>6
  <2>3. CharAt(s, c + p) \in Delimiters /\ CharAt(s, c + p) # ":"
    BY <2>1 DEF Separators, Delimiters
  <2> QED BY <1>6, <1>8, <2>1, <2>2, <2>3 DEF s, item, c, p
<1> QED BY <1>7, <1>8

(* The search for an item does what the item means, whatever quotes it and *)
(* its neighbours have.                                                    *)
LEMMA MatchIs ==
  ASSUME NEW items \in Seq(Items), NEW k \in 1..Len(items), WellFormed(items),
         NEW test \in Seq(Chars)
  PROVE  ItemMatches(Rendered(items), Start(items, k), test) <=> Selects(items[k], test)
<1> DEFINE s == Rendered(items)
           item == items[k]
           c == Start(items, k)
           p == Len(item.part)
<1>1. /\ item \in Items /\ c \in 1..Len(s) /\ Len(s) \in Nat /\ s \in Seq(Chars)
      /\ item.part = <<>> => item.test = <<>>
      /\ TestFile \in Seq(Chars)
  BY ItemBounds, RenderedType, OptionsAssumption DEF Chars
<1>2. item.part \in Seq(Letters) /\ item.test \in Seq(Letters)
  BY <1>1 DEF Items
<1>3. /\ c + p <= Len(s) + 1 /\ CharAt(s, c + p) \in Delimiters
      /\ CharAt(s, c + p) = ":" <=> item.test # <<>>
      /\ item.part = <<>> => CharAt(s, c) = "*"
  BY PartEnds
<1>4. \A m \in 1..p : CharAt(s, c + m - 1) = item.part[m]
  BY ItemStands
<1>5. CASE item.part = <<>>
  <2>1. IsStringInBiggerString(TestFile, s, c) = 1
    BY <1>3, <1>5, WildcardMatches
  <2> QED BY <1>1, <1>5, <2>1 DEF ItemMatches, Selects
<1>6. CASE item.part # <<>>
  <2>1. ASSUME NEW long \in Seq(Chars)
        PROVE  IsStringInBiggerString(long, s, c)
                 = IF ~Within(long, item.part) THEN 0
                   ELSE IF item.test # <<>> THEN 2 ELSE 1
    <3> HIDE DEF s, item, c, p
    <3>1. IsStringInBiggerString(long, s, c)
            = IF ~Within(long, item.part) THEN 0
              ELSE IF CharAt(s, c + Len(item.part)) = ":" THEN 2 ELSE 1
      BY <1>1, <1>2, <1>3, <1>4, <1>6, SearchedIs DEF p
    <3> QED BY <1>3, <3>1 DEF p
  <2>2. CASE item.test = <<>>
    <3>1. /\ IsStringInBiggerString(TestFile, s, c) = 1 <=> Within(TestFile, item.part)
          /\ IsStringInBiggerString(TestFile, s, c) # 2
          /\ IsStringInBiggerString(test, s, c) = 1 <=> Within(test, item.part)
      BY <1>1, <2>1, <2>2
    <3> HIDE DEF s, item, c
    <3>2. ItemMatches(s, c, test) <=> Within(TestFile, item.part) \/ Within(test, item.part)
      BY <3>1 DEF ItemMatches
    <3> QED BY <1>6, <2>2, <3>2 DEF Selects, s, item, c
  <2>3. CASE item.test # <<>>
    <3> DEFINE from == c + p + 1
    <3>1. /\ IsStringInBiggerString(TestFile, s, c) = 2 <=> Within(TestFile, item.part)
          /\ IsStringInBiggerString(TestFile, s, c) # 1
          /\ IsStringInBiggerString(test, s, c) # 1
      BY <1>1, <2>1, <2>3
    <3>2. /\ TestPart(s, c) = from /\ from \in 1..Len(s) /\ from # 0
          /\ from + Len(item.test) <= Len(s) + 1
          /\ CharAt(s, from + Len(item.test)) \in Delimiters
      BY <2>3, TestPartIs
    <3>3. \A m \in 1..Len(item.test) : CharAt(s, from + m - 1) = item.test[m]
      <4>1. \A m \in 1..Len(item.test) : CharAt(s, c + p + m) = item.test[m]
        BY <2>3, ItemStands
      <4>2. c \in Nat /\ p \in Nat /\ Len(item.test) \in Nat
        <5> HIDE DEF s, item, c
        <5> QED BY <1>1, <1>2
      <4> HIDE DEF s, item, c, p
      <4>3. \A m \in 1..Len(item.test) : from + m - 1 = c + p + m
        BY <4>2
      <4> QED BY <4>1, <4>3
    <3> HIDE DEF s, item, c, p, from
    <3>4. IsStringInBiggerString(test, s, from)
            = IF ~Within(test, item.test) THEN 0
              ELSE IF CharAt(s, from + Len(item.test)) = ":" THEN 2 ELSE 1
      BY <1>1, <1>2, <2>3, <3>2, <3>3, SearchedIs
    <3>5. IsStringInBiggerString(test, s, from) # 0 <=> Within(test, item.test)
      BY <3>4
    <3>6. ItemMatches(s, c, test) <=> Within(TestFile, item.part) /\ Within(test, item.test)
      BY <3>1, <3>2, <3>5 DEF ItemMatches
    <3> QED BY <2>3, <3>6 DEF Selects, s, item, c
  <2> QED BY <2>2, <2>3
<1> QED BY <1>5, <1>6

-----------------------------------------------------------------------------
(* The search.                                                             *)

Names(items, test) == \E k \in 1..Len(items) : Selects(items[k], test)

\* The cursor is at an item, or at the end, and no item before it names the test.
Searching(items, p, test) ==
  \/ \E k \in 1..Len(items) :
       /\ p = Start(items, k) \/ (k = 1 /\ p = 1)
       /\ \A j \in 1..k - 1 : ~Selects(items[j], test)
  \/ p = Len(Rendered(items)) + 1 /\ ~Names(items, test)

LEMMA SearchFromStart ==
  ASSUME NEW items \in Seq(Items) \ {<<>>}, NEW test
  PROVE  Searching(items, 1, test)
<1>1. 1 \in 1..Len(items) /\ 1..1 - 1 = {}
  OBVIOUS
<1> QED BY <1>1 DEF Searching

LEMMA SearchGoesOn ==
  ASSUME NEW items \in Seq(Items), WellFormed(items), NEW test \in Seq(Chars), NEW p,
         Searching(items, p, test), p # Len(Rendered(items)) + 1
  PROVE  LET s == Rendered(items)
         IN  /\ p \in 1..Len(s) /\ CharAt(s, p) # "end" /\ Unquoted(s, p) <= Len(s)
             /\ ItemMatches(s, Unquoted(s, p), test) => Names(items, test)
             /\ ~ItemMatches(s, Unquoted(s, p), test) =>
                  Searching(items, NextItem(s, Unquoted(s, p)), test)
<1> DEFINE s == Rendered(items)
<1>1. PICK k \in 1..Len(items) :
        /\ p = Start(items, k) \/ (k = 1 /\ p = 1)
        /\ \A j \in 1..k - 1 : ~Selects(items[j], test)
  BY DEF Searching
<1> DEFINE c == Start(items, k)
           e == Behind(items, k)
<1>2. Unquoted(s, p) = c /\ Unquoted(s, c) = c
  BY <1>1, UnquotedIs
<1>3. /\ c \in 1..Len(s) /\ e \in c + 1..Len(s) + 1 /\ Len(s) \in Nat
      /\ ItemMatches(s, c, test) <=> Selects(items[k], test)
      /\ NextItem(s, c) = After(items, k)
  BY ItemBounds, RenderedType, MatchIs, NextIs
<1>4. CharAt(s, c) # "end"
  <2>1. c \in c..e - 1
    <3> HIDE DEF c, e, s
    <3> QED BY <1>3
  <2> QED BY <2>1, ItemChars
<1>5. p \in 1..Len(s) /\ CharAt(s, p) # "end"
  <2>1. CASE p = c
    BY <1>3, <1>4, <2>1
  <2>2. CASE p = 1
    <3>1. 1 \in 1..Len(s)
      <4> HIDE DEF c, s
      <4> QED BY <1>3
    <3>2. CASE CharAt(s, 1) = "'"
      BY <2>2, <3>1, <3>2
    <3>3. CASE CharAt(s, 1) # "'"
      <4>1. c = 1
        BY <1>2, <2>2, <3>3 DEF Unquoted
      <4> QED BY <1>4, <2>2, <3>1, <4>1
    <3> QED BY <3>2, <3>3
  <2> QED BY <1>1, <2>1, <2>2
<1>6. ItemMatches(s, c, test) => Names(items, test)
  BY <1>3 DEF Names
<1>7. ASSUME ~ItemMatches(s, c, test) PROVE Searching(items, After(items, k), test)
  <2>1. \A j \in 1..k : ~Selects(items[j], test)
    <3> SUFFICES ASSUME NEW j \in 1..k PROVE ~Selects(items[j], test)
      OBVIOUS
    <3>1. j = k \/ j \in 1..k - 1
      OBVIOUS
    <3> QED BY <1>1, <1>3, <1>7, <3>1
  <2>2. CASE k = Len(items)
    <3>1. ~Names(items, test)
      BY <2>1, <2>2 DEF Names
    <3> QED BY <2>2, <3>1 DEF After, Searching
  <2>3. CASE k # Len(items)
    <3>1. k + 1 \in 1..Len(items) /\ (k + 1) - 1 = k
      BY <2>3
    <3>2. \A j \in 1..(k + 1) - 1 : ~Selects(items[j], test)
      BY <2>1, <3>1
    <3> QED BY <2>3, <3>1, <3>2 DEF After, Searching
  <2> QED BY <2>2, <2>3
<1> HIDE DEF s, c, e
<1>8. c <= Len(s)
  BY <1>3
<1> QED BY <1>2, <1>3, <1>5, <1>6, <1>7, <1>8 DEF s

WellGiven ==
  \A items \in {UnityOptionIncludeNamed, UnityOptionExcludeNamed} \ {NULL} : WellFormed(items)

Included == UnityOptionIncludeNamed # NULL => Names(UnityOptionIncludeNamed, CurrentTestName)

Excluded == UnityOptionExcludeNamed # NULL /\ Names(UnityOptionExcludeNamed, CurrentTestName)

(* What the search has found so far, and its answer.                       *)
MatchInv ==
  /\ list # NULL => CurrentTestName \in Seq(Chars)
  /\ WellGiven =>
       /\ list # NULL => Searching(Named, ptr1, CurrentTestName)
       /\ list = "exclude" => retval \in BOOLEAN /\ (retval <=> Included)
       /\ list = NULL /\ retval # NULL =>
            retval \in BOOLEAN /\ (retval <=> Included /\ ~Excluded)

LEMMA MatchInit == OptionsInit => MatchInv
BY OptionsAssumption DEF OptionsInit, MatchInv

(* A test is looked up in the next list, or the answer is given.           *)
LEMMA EntersSearch ==
  ASSUME ParseInv, UNCHANGED parse_vars, CurrentTestName' \in Seq(Chars),
         NEW name \in {"include", "exclude"}, NEW result,
         Enter(name, IF name = "include" THEN UnityOptionIncludeNamed
                     ELSE UnityOptionExcludeNamed, result),
         name = "exclude" /\ WellGiven => result \in BOOLEAN /\ (result <=> Included')
  PROVE  MatchInv'
<1>1. /\ UnityOptionIncludeNamed' = UnityOptionIncludeNamed
      /\ UnityOptionExcludeNamed' = UnityOptionExcludeNamed
      /\ UnityOptionIncludeNamed \in Lists /\ UnityOptionExcludeNamed \in Lists
  BY DEF parse_vars, ParseInv
<1>2. NULL # "include" /\ NULL # "exclude"
  BY OptionsAssumption
<1>3. CASE list' # NULL
  <2>1. list' \in {"include", "exclude"} /\ Named' # NULL /\ ptr1' = 1
        /\ (list' = "exclude" =>
              \/ name = "exclude" /\ retval' = result
              \/ UnityOptionIncludeNamed = NULL /\ retval' = TRUE)
    BY <1>1, <1>3, EnterIs DEF Named
  <2>2. Named' \in Seq(Items) \ {<<>>}
    BY <1>1, <2>1 DEF Named, Lists
  <2>3. Searching(Named', 1, CurrentTestName')
    BY <2>2, SearchFromStart
  <2>4. Searching(Named, ptr1, CurrentTestName)'
    BY <2>1, <2>3
  <2>5. WellGiven' => WellGiven
    BY <1>1 DEF WellGiven
  <2>6. UnityOptionIncludeNamed = NULL => Included'
    BY <1>1 DEF Included
  <2>7. list' = "exclude" /\ WellGiven' => retval' \in BOOLEAN /\ (retval' <=> Included')
    <3>1. CASE name = "exclude" /\ retval' = result
      BY <2>5, <3>1
    <3>2. CASE UnityOptionIncludeNamed = NULL /\ retval' = TRUE
      BY <2>6, <3>2
    <3> QED BY <2>1, <3>1, <3>2
  <2> QED BY <1>3, <2>4, <2>7 DEF MatchInv
<1>4. CASE list' = NULL
  <2>1. /\ UnityOptionExcludeNamed = NULL
        /\ \/ name = "exclude" /\ retval' = result
           \/ name = "include" /\ UnityOptionIncludeNamed = NULL /\ retval' = TRUE
    <3>1. CASE name = "include"
      <4>1. Enter("include", UnityOptionIncludeNamed, result)
        BY <3>1
      <4>2. UnityOptionIncludeNamed = NULL
        BY <1>2, <1>4, <4>1 DEF Enter
      <4>3. UnityOptionExcludeNamed = NULL
        BY <1>2, <1>4, <4>1, <4>2 DEF Enter
      <4>4. retval' = TRUE
        BY <4>1, <4>2, <4>3 DEF Enter
      <4> QED BY <3>1, <4>2, <4>3, <4>4
    <3>2. CASE name = "exclude"
      <4>1. Enter("exclude", UnityOptionExcludeNamed, result)
        BY <3>2
      <4>2. UnityOptionExcludeNamed = NULL
        BY <1>2, <1>4, <4>1 DEF Enter
      <4>3. retval' = result
        BY <4>1, <4>2 DEF Enter
      <4> QED BY <3>2, <4>2, <4>3
    <3> QED BY <3>1, <3>2
  <2>2. ~Excluded'
    BY <1>1, <2>1 DEF Excluded
  <2>3. UnityOptionIncludeNamed = NULL => Included'
    BY <1>1 DEF Included
  <2>4. WellGiven' => WellGiven
    BY <1>1 DEF WellGiven
  <2>5. WellGiven' => retval' \in BOOLEAN /\ (retval' <=> Included' /\ ~Excluded')
    BY <2>1, <2>2, <2>3, <2>4
  <2> QED BY <1>2, <1>4, <2>5 DEF MatchInv
<1> QED BY <1>3, <1>4

LEMMA AnswersSearch ==
  ASSUME ParseInv, SearchInv, MatchInv, list # NULL, NEW matched \in BOOLEAN,
         ArgumentMatched(matched), UNCHANGED parse_vars, CurrentTestName' = CurrentTestName,
         WellGiven => (matched <=> Names(Named, CurrentTestName))
  PROVE  MatchInv'
<1>1. /\ UnityOptionIncludeNamed' = UnityOptionIncludeNamed
      /\ UnityOptionExcludeNamed' = UnityOptionExcludeNamed
      /\ CurrentTestName' \in Seq(Chars)
  BY DEF parse_vars, MatchInv
<1>2. list \in {"include", "exclude"} /\ Named # NULL
  BY DEF SearchInv
<1>3. NULL # "include" /\ NULL # "exclude"
  BY OptionsAssumption
<1>4. (Included' <=> Included) /\ (Excluded' <=> Excluded) /\ (WellGiven' <=> WellGiven)
  BY <1>1 DEF Included, Excluded, WellGiven
<1>5. CASE list = "include"
  <2>1. Enter("exclude", UnityOptionExcludeNamed, matched)
    BY <1>5 DEF ArgumentMatched
  <2>2. Enter("exclude", IF "exclude" = "include" THEN UnityOptionIncludeNamed
                         ELSE UnityOptionExcludeNamed, matched)
    BY <2>1
  <2>3. Named = UnityOptionIncludeNamed
    BY <1>5 DEF Named
  <2>4. WellGiven => (matched <=> Included)
    BY <1>2, <2>3 DEF Included
  <2> QED BY <1>1, <1>4, <2>2, <2>4, EntersSearch
<1>6. CASE list = "exclude"
  <2>1. list' = NULL /\ retval' = (retval /\ ~matched)
    BY <1>6 DEF ArgumentMatched
  <2>2. Named = UnityOptionExcludeNamed
    BY <1>6 DEF Named
  <2>3. WellGiven => (matched <=> Excluded)
    BY <1>2, <2>2 DEF Excluded
  <2>4. WellGiven => retval \in BOOLEAN /\ (retval <=> Included)
    BY <1>6 DEF MatchInv
  <2>5. retval' \in BOOLEAN /\ (retval' <=> retval /\ ~matched)
    BY <2>1
  <2>6. WellGiven' => retval' \in BOOLEAN /\ (retval' <=> Included' /\ ~Excluded')
    BY <1>4, <2>3, <2>4, <2>5
  <2> QED BY <1>3, <2>1, <2>6 DEF MatchInv
<1> QED BY <1>2, <1>5, <1>6

(* Nothing that the search speaks of changes.                              *)
LEMMA SearchStays ==
  ASSUME MatchInv, UNCHANGED parse_vars, UNCHANGED <<list, retval, CurrentTestName>>,
         list # NULL /\ WellGiven => Searching(Named, ptr1', CurrentTestName)
  PROVE  MatchInv'
<1>1. /\ UnityOptionIncludeNamed' = UnityOptionIncludeNamed
      /\ UnityOptionExcludeNamed' = UnityOptionExcludeNamed
  BY DEF parse_vars
<1>2. /\ Included' <=> Included
      /\ Excluded' <=> Excluded
      /\ WellGiven' <=> WellGiven
      /\ Named' = Named
  BY <1>1 DEF Included, Excluded, WellGiven, Named
<1> QED BY <1>2 DEF MatchInv

LEMMA MatchStep ==
  ASSUME ParseInv, SearchInv, MatchInv, [OptionsNext]_vars
  PROVE  MatchInv'
<1> DEFINE s == Rendered(Named)
           k == Unquoted(s, ptr1)
<1>1. NULL # "include" /\ NULL # "exclude"
  BY OptionsAssumption
<1>2. ASSUME list' = NULL, retval' = NULL PROVE MatchInv'
  BY <1>1, <1>2 DEF MatchInv
<1>3. ASSUME list # NULL
      PROVE  /\ Named \in Seq(Items) /\ CurrentTestName \in Seq(Chars)
             /\ WellGiven => WellFormed(Named) /\ Searching(Named, ptr1, CurrentTestName)
  BY <1>3, ListGiven DEF MatchInv, WellGiven, Named, SearchInv
<1>4. CASE \E m \in 1..Len(argv) :
             Positional(argv[m]) \/ NamedOption(argv[m]) \/ Verbosity(argv[m]) \/ Stop(argv[m])
  <2>1. status = "parsing" /\ UNCHANGED match_vars
    BY <1>4 DEF Positional, NamedOption, Verbosity, Stop, Parsing
  <2> QED BY <1>2, <2>1 DEF SearchInv, match_vars
<1>5. CASE Parsed
  BY <1>2, <1>5 DEF Parsed, SearchInv, match_vars
<1>6. CASE ParseAgain
  BY <1>2, <1>6 DEF ParseAgain
<1>7. CASE \E test \in TestNames : UnityTestMatches(test)
  <2>1. /\ CurrentTestName' \in TestNames /\ UNCHANGED parse_vars
        /\ Enter("include", UnityOptionIncludeNamed, NULL)
    BY <1>7 DEF UnityTestMatches
  <2>2. Enter("include", IF "include" = "include" THEN UnityOptionIncludeNamed
                         ELSE UnityOptionExcludeNamed, NULL)
    BY <2>1
  <2>3. CurrentTestName' \in Seq(Chars)
    BY <2>1, OptionsAssumption DEF Chars
  <2> QED BY <2>1, <2>2, <2>3, EntersSearch
<1>8. CASE NoItemLeft
  <2>1. /\ list # NULL /\ CharAt(s, ptr1) = "end" /\ ArgumentMatched(FALSE)
        /\ UNCHANGED parse_vars /\ CurrentTestName' = CurrentTestName
    BY <1>8 DEF NoItemLeft
  <2>2. WellGiven => ptr1 = Len(s) + 1
    BY <1>3, <2>1, SearchGoesOn
  <2>3. ASSUME WellGiven PROVE ~Names(Named, CurrentTestName)
    <3> SUFFICES ASSUME Names(Named, CurrentTestName) PROVE FALSE
      OBVIOUS
    <3>1. PICK m \in 1..Len(Named) : ptr1 = Start(Named, m) \/ (m = 1 /\ ptr1 = 1)
      BY <1>3, <2>1, <2>3 DEF Searching
    <3>2. Start(Named, m) \in 1..Len(s) /\ Len(s) \in Nat
      BY <1>3, <2>1, <2>3, ItemBounds, RenderedType
    <3>3. ptr1 = Len(s) + 1
      BY <2>2, <2>3
    <3> HIDE DEF s
    <3> QED BY <3>1, <3>2, <3>3
  <2> QED BY <2>1, <2>3, AnswersSearch
<1>9. CASE TryItem
  <2>1. /\ list # NULL /\ ptr1 <= Len(s) /\ k <= Len(s)
        /\ UNCHANGED parse_vars /\ CurrentTestName' = CurrentTestName
        /\ \/ ItemMatches(s, k, CurrentTestName) /\ ArgumentMatched(TRUE)
           \/ /\ ~ItemMatches(s, k, CurrentTestName)
              /\ ptr1' = NextItem(s, k) /\ UNCHANGED <<list, retval>>
    BY <1>9 DEF TryItem
  <2>2. Len(s) \in Nat
    BY <1>3, <2>1, RenderedType
  <2>3. ptr1 # Len(s) + 1
    <3> HIDE DEF s
    <3> QED BY <2>1, <2>2
  <2>4. WellGiven =>
          /\ ItemMatches(s, k, CurrentTestName) => Names(Named, CurrentTestName)
          /\ ~ItemMatches(s, k, CurrentTestName) =>
               Searching(Named, NextItem(s, k), CurrentTestName)
    BY <1>3, <2>1, <2>3, SearchGoesOn
  <2> HIDE DEF s, k
  <2>5. CASE ItemMatches(s, k, CurrentTestName) /\ ArgumentMatched(TRUE)
    BY <2>1, <2>4, <2>5, AnswersSearch
  <2>6. CASE /\ ~ItemMatches(s, k, CurrentTestName)
             /\ ptr1' = NextItem(s, k) /\ UNCHANGED <<list, retval>>
    BY <2>1, <2>4, <2>6, SearchStays
  <2> QED BY <2>1, <2>5, <2>6
<1>10. CASE Overrun
  <2>1. /\ list # NULL /\ ptr1 <= Len(s) /\ k > Len(s)
        /\ UNCHANGED <<list, retval, CurrentTestName>> /\ UNCHANGED parse_vars
    BY <1>10 DEF Overrun
  <2>2. Len(s) \in Nat
    BY <1>3, <2>1, RenderedType
  <2>3. ptr1 # Len(s) + 1
    <3> HIDE DEF s
    <3> QED BY <2>1, <2>2
  <2>4. ASSUME WellGiven PROVE FALSE
    <3>1. k <= Len(s) /\ ptr1 \in 1..Len(s)
      BY <1>3, <2>1, <2>3, <2>4, SearchGoesOn
    <3>2. k \in Nat
      <4> HIDE DEF s
      <4> QED BY <2>2, <3>1 DEF Unquoted
    <3> HIDE DEF s, k
    <3> QED BY <2>1, <2>2, <3>1, <3>2
  <2> QED BY <2>1, <2>4, SearchStays
<1>11. CASE LostAnswer
  <2>1. /\ list # NULL /\ ptr1 = Len(s) + 2 /\ UNCHANGED parse_vars
        /\ CurrentTestName' = CurrentTestName
    BY <1>11 DEF LostAnswer
  <2>2. PICK matched \in BOOLEAN : ArgumentMatched(matched)
    BY <1>11 DEF LostAnswer
  <2>3. Len(s) \in Nat
    BY <1>3, <2>1, RenderedType
  <2>4. ptr1 # Len(s) + 1 /\ ptr1 \notin 1..Len(s)
    <3> HIDE DEF s
    <3> QED BY <2>1, <2>3
  <2>5. ASSUME WellGiven PROVE FALSE
    BY <1>3, <2>1, <2>4, <2>5, SearchGoesOn
  <2> QED BY <2>1, <2>2, <2>5, AnswersSearch
<1>12. CASE UNCHANGED vars
  <2>1. UNCHANGED parse_vars /\ UNCHANGED <<list, retval, CurrentTestName>> /\ ptr1' = ptr1
    BY <1>12 DEF vars, parse_vars
  <2>2. list # NULL /\ WellGiven => Searching(Named, ptr1', CurrentTestName)
    BY <1>3, <2>1
  <2> QED BY <2>1, <2>2, SearchStays
<1> QED BY <1>4, <1>5, <1>6, <1>7, <1>8, <1>9, <1>10, <1>11, <1>12 DEF OptionsNext

(* A test is run exactly when an item of the included list names it and    *)
(* none of the excluded one does, for any number of items, with any        *)
(* quotes, of any length: the search neither misses an item nor reads two  *)
(* as one.                                                                 *)
THEOREM SelectionIsExact == OptionsSpec => []SelectionExact
<1>1. MatchInv => SelectionExact
  <2> SUFFICES ASSUME MatchInv, list = NULL, retval # NULL, WellGiven
               PROVE  retval = /\ UnityOptionIncludeNamed # NULL =>
                                    Names(UnityOptionIncludeNamed, CurrentTestName)
                               /\ UnityOptionExcludeNamed # NULL =>
                                    ~Names(UnityOptionExcludeNamed, CurrentTestName)
    BY DEF SelectionExact, WellGiven, Names
  <2>1. retval \in BOOLEAN /\ (retval <=> Included /\ ~Excluded)
    BY DEF MatchInv
  <2> QED BY <2>1 DEF Included, Excluded
<1>2. MatchInv /\ ParseInv /\ SearchInv /\ [OptionsNext]_vars => MatchInv'
  BY MatchStep
<1> QED BY <1>1, <1>2, MatchInit, SearchHolds, PTL DEF OptionsSpec
=============================================================================
