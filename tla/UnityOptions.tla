---------------------------- MODULE UnityOptions ----------------------------
(***************************************************************************)
(* Which tests a command line selects (unity/src/unity.c, from             *)
(* UnityParseOptions on): the arguments are parsed one by one, then each   *)
(* test is looked up in the list to include and in the list to exclude.    *)
(*                                                                         *)
(* A text is a sequence of characters.  The text of a list is made from    *)
(* its items, which the program never sees: it finds them back with a      *)
(* cursor, ptr1, and the properties compare the two.                       *)
(***************************************************************************)
EXTENDS Naturals, SequencesExt

CONSTANTS
  Letters,      \* the characters of names, and those of the options
  Commands,     \* the command lines, sequences of arguments: a flag and a list,
                \* a sequence of items, or NULL
  TestFile,     \* Unity.TestFile
  TestNames,    \* the tests of the program
  MaxParses,    \* bound on the calls of UnityParseOptions
  Reparsed,     \* bound on the command lines parsed before or after another
  NULL

Flags == {"l", "n", "f", "q", "v", "x", "unknown"}

Delimiters == {"'", ",", "*", ":", "end"}

\* An item: file and test parts in letters, a wildcard, and its quotes.
Items ==
  [part : Seq(Letters), test : Seq(Letters), wild : BOOLEAN, open : BOOLEAN, close : BOOLEAN]

Arguments == [flag : Flags \cup {"none"}, value : {NULL} \cup (Seq(Items) \ {<<>>})]

TakesList == {"n", "f", "x"}

\* Is the argument at k the list of the option before it, if that is one?
IsList(args, k) == k > 1 /\ args[k - 1].flag \in TakesList /\ args[k - 1].value = NULL

ASSUME OptionsAssumption ==
  /\ MaxParses \in Nat /\ Reparsed \subseteq Commands
  /\ NULL \notin {"include", "exclude"}
  /\ {"-", "="} \cup Flags \subseteq Letters /\ Letters \cap Delimiters = {}
  /\ TestFile \in Seq(Letters \cup Delimiters)
  /\ TestNames \subseteq Seq(Letters \cup Delimiters)
  /\ \A command \in Commands :
       /\ command \in Seq(Arguments)
       /\ \A k \in 1..Len(command) :
            /\ command[k].flag = "none" => command[k].value # NULL
            /\ command[k].value # NULL /\ command[k].flag # "none" /\ IsList(command, k) =>
                 ~command[k].value[1].open

VARIABLES
  argv,                     \* the arguments after the program's name
  i,
  UnityOptionIncludeNamed,
  UnityOptionExcludeNamed,
  UnityVerbosity,
  status,                   \* what UnityParseOptions returned, or "parsing"
  parses,
  CurrentTestName,
  list,                     \* the list ptr1 is in, "include" or "exclude"
  ptr1,
  retval                    \* of UnityTestMatches

parse_vars == <<argv, i, UnityOptionIncludeNamed, UnityOptionExcludeNamed,
                UnityVerbosity, status, parses>>
match_vars == <<CurrentTestName, list, ptr1, retval>>
vars == <<argv, i, UnityOptionIncludeNamed, UnityOptionExcludeNamed, UnityVerbosity,
          status, parses, CurrentTestName, list, ptr1, retval>>

-----------------------------------------------------------------------------
(* Parsing.                                                                *)

\* An option given as the list of another is read as a list, its flag the
\* beginning of the first item.
AsList(arg) ==
  LET flag == <<"-", arg.flag>>
      given == arg.value
  IN  IF arg.flag = "none" THEN given
      ELSE IF given = NULL
      THEN <<[part |-> flag, test |-> <<>>, wild |-> FALSE, open |-> FALSE, close |-> FALSE]>>
      ELSE <<[given[1] EXCEPT !.part = flag \o <<"=">> \o @]>> \o Tail(given)

OptionsInit ==
  /\ argv \in Commands
  /\ i = 1
  /\ UnityOptionIncludeNamed = NULL /\ UnityOptionExcludeNamed = NULL
  /\ UnityVerbosity = 1
  /\ status = "parsing" /\ parses = 1
  /\ CurrentTestName = NULL /\ list = NULL /\ ptr1 = 0 /\ retval = NULL

Parsing(arg) == status = "parsing" /\ i <= Len(argv) /\ arg = argv[i]

Positional(arg) ==
  /\ Parsing(arg) /\ arg.flag = "none"
  /\ i' = i + 1
  /\ UNCHANGED <<argv, UnityOptionIncludeNamed, UnityOptionExcludeNamed, UnityVerbosity,
                 status, parses, match_vars>>

Name(arg, named) ==
  IF arg.flag = "x"
  THEN UnityOptionExcludeNamed' = named /\ UNCHANGED UnityOptionIncludeNamed
  ELSE UnityOptionIncludeNamed' = named /\ UNCHANGED UnityOptionExcludeNamed

(* A slip: the argument taken for a list is read again as an option.       *)
NamedOptionStaying(arg) ==
  /\ Parsing(arg) /\ arg.flag \in TakesList
  /\ \/ arg.value # NULL /\ Name(arg, arg.value)
     \/ arg.value = NULL /\ i < Len(argv) /\ Name(arg, AsList(argv[i + 1]))
  /\ i' = i + 1
  /\ UNCHANGED <<argv, UnityVerbosity, status, parses, match_vars>>

\* -n=LIST, or -n LIST with the list in the next argument, whatever that is.
NamedOption(arg) ==
  /\ Parsing(arg) /\ arg.flag \in TakesList
  /\ \/ arg.value # NULL /\ Name(arg, arg.value) /\ i' = i + 1
     \/ arg.value = NULL /\ i < Len(argv) /\ Name(arg, AsList(argv[i + 1])) /\ i' = i + 2
  /\ UNCHANGED <<argv, UnityVerbosity, status, parses, match_vars>>

Verbosity(arg) ==
  /\ Parsing(arg) /\ arg.flag \in {"q", "v"}
  /\ UnityVerbosity' = (IF arg.flag = "q" THEN 0 ELSE 2)
  /\ i' = i + 1
  /\ UNCHANGED <<argv, UnityOptionIncludeNamed, UnityOptionExcludeNamed, status, parses,
                 match_vars>>

Stop(arg) ==
  /\ Parsing(arg)
  /\ \/ arg.flag = "l" /\ status' = "list"
     \/ arg.flag = "unknown" /\ status' = "error"
     \/ arg.flag \in TakesList /\ arg.value = NULL /\ i = Len(argv) /\ status' = "error"
  /\ UNCHANGED <<argv, i, UnityOptionIncludeNamed, UnityOptionExcludeNamed,
                 UnityVerbosity, parses, match_vars>>

Parsed ==
  /\ status = "parsing" /\ i > Len(argv)
  /\ status' = "run"
  /\ UNCHANGED <<argv, i, UnityOptionIncludeNamed, UnityOptionExcludeNamed,
                 UnityVerbosity, parses, match_vars>>

(* A slip: the options of the last call are kept.                          *)
UnityParseOptionsAdding(command) ==
  /\ argv' = command /\ i' = 1 /\ status' = "parsing"
  /\ UNCHANGED <<UnityOptionIncludeNamed, UnityOptionExcludeNamed>>

UnityParseOptions(command) ==
  /\ argv' = command /\ i' = 1 /\ status' = "parsing"
  /\ UnityOptionIncludeNamed' = NULL /\ UnityOptionExcludeNamed' = NULL

ParseAgain ==
  /\ status # "parsing" /\ list = NULL /\ parses < MaxParses
  /\ argv \in Reparsed
  /\ \E command \in Reparsed : UnityParseOptions(command)
  /\ parses' = parses + 1
  /\ CurrentTestName' = NULL /\ retval' = NULL
  /\ UNCHANGED <<UnityVerbosity, list, ptr1>>

-----------------------------------------------------------------------------
(* Matching.                                                               *)

Rendered(items) ==
  LET Quote(is) == IF is THEN <<"'">> ELSE <<>>
      Text(item) == Quote(item.open) \o item.part
        \o (IF item.test = <<>> THEN <<>> ELSE <<":">> \o item.test)
        \o (IF item.wild THEN <<"*">> ELSE <<>>) \o Quote(item.close)
  IN  FlattenSeq([k \in 1..Len(items) |->
        IF k = 1 THEN Text(items[k]) ELSE <<",">> \o Text(items[k])])

\* The null character ends a text; nothing is known of what follows it.
CharAt(s, k) == IF k <= Len(s) THEN s[k] ELSE "end"

First(S) == CHOOSE k \in S : \A l \in S : k <= l

Separators == {"'", ","}

\* Is the text at k of s, up to the next delimiter, within longstring?
IsStringInBiggerString(longstring, s, k) ==
  LET length == First({m \in 1..Len(s) + 1 :
                         CharAt(s, k + m) \in Delimiters})
      found == \E n \in 0..Len(longstring) - length :
                 \A m \in 1..length : longstring[n + m] = CharAt(s, k + m - 1)
  IN  CASE CharAt(s, k) = "*"   -> 1
        [] CharAt(s, k) = "end" -> 0
        [] OTHER -> IF ~found THEN 0 ELSE IF CharAt(s, k + length) = ":" THEN 2 ELSE 1

Unquoted(s, k) == IF CharAt(s, k) = "'" THEN k + 1 ELSE k

\* The first end of an item after k.
ItemEnd(s, k) == First({l \in k + 1..Len(s) + 1 : CharAt(s, l) \in Separators \cup {"end"}})

(* A slip: a closing quote is left to be taken for an opening one.         *)
AfterCommas(s, k) ==
  First({l \in ItemEnd(s, k)..Len(s) + 1 : CharAt(s, l) # ","})

NextItem(s, k) ==
  First({l \in ItemEnd(s, k)..Len(s) + 1 : CharAt(s, l) \notin Separators \cup {":"}})

\* Where the test part of the item at k starts, 0 when it has none.
TestPart(s, k) ==
  LET colons == {l \in k + 1..ItemEnd(s, k) : CharAt(s, l) = ":" /\ l < Len(s)}
  IN  IF colons = {} THEN 0 ELSE 1 + CHOOSE l \in colons : \A m \in colons : m <= l

(* A slip: any match with the file's name is enough.                       *)
ItemMatchesFile(s, k, test) ==
  \/ IsStringInBiggerString(TestFile, s, k) # 0
  \/ IsStringInBiggerString(test, s, k) = 1

ItemMatches(s, k, test) ==
  LET file == IsStringInBiggerString(TestFile, s, k)
  IN  \/ file = 1
      \/ /\ file = 2 /\ TestPart(s, k) # 0
         /\ IsStringInBiggerString(test, s, TestPart(s, k)) # 0
      \/ IsStringInBiggerString(test, s, k) = 1

Named == IF list = "include" THEN UnityOptionIncludeNamed ELSE UnityOptionExcludeNamed

\* UnityTestMatches, from the list with that name on.
Enter(name, named, result) ==
  CASE named # NULL -> list' = name /\ ptr1' = 1 /\ retval' = result
    [] named = NULL /\ name = "include" /\ UnityOptionExcludeNamed # NULL ->
         list' = "exclude" /\ ptr1' = 1 /\ retval' = TRUE
    [] OTHER -> list' = NULL /\ ptr1' = 0 /\ retval' = (IF name = "include" THEN TRUE ELSE result)

UnityTestMatches(test) ==
  /\ status = "run" /\ list = NULL
  /\ CurrentTestName' = test
  /\ Enter("include", UnityOptionIncludeNamed, NULL)
  /\ UNCHANGED parse_vars

\* UnityStringArgumentMatches returns.
ArgumentMatched(matched) ==
  IF list = "include" THEN Enter("exclude", UnityOptionExcludeNamed, matched)
  ELSE list' = NULL /\ ptr1' = 0 /\ retval' = (retval /\ ~matched)

NoItemLeft ==
  /\ list # NULL /\ CharAt(Rendered(Named), ptr1) = "end" /\ ptr1 <= Len(Rendered(Named)) + 1
  /\ ArgumentMatched(FALSE)
  /\ UNCHANGED <<parse_vars, CurrentTestName>>

TryItem ==
  /\ list # NULL /\ ptr1 <= Len(Rendered(Named))
  /\ LET s == Rendered(Named)
         k == Unquoted(s, ptr1)
     IN  /\ k <= Len(s)
         /\ IF ItemMatches(s, k, CurrentTestName) THEN ArgumentMatched(TRUE)
            ELSE ptr1' = NextItem(s, k) /\ UNCHANGED <<list, retval>>
  /\ UNCHANGED <<parse_vars, CurrentTestName>>

\* The search for the end of an item starts behind its first character, and
\* after a lone quote that is behind the end: ptr1 is lost, and the answer
\* is whatever the memory there makes of it.
Overrun ==
  /\ list # NULL /\ ptr1 <= Len(Rendered(Named))
  /\ Unquoted(Rendered(Named), ptr1) > Len(Rendered(Named))
  /\ ptr1' = Len(Rendered(Named)) + 2
  /\ UNCHANGED <<parse_vars, CurrentTestName, list, retval>>

LostAnswer ==
  /\ list # NULL /\ ptr1 = Len(Rendered(Named)) + 2
  /\ \E matched \in BOOLEAN : ArgumentMatched(matched)
  /\ UNCHANGED <<parse_vars, CurrentTestName>>

OptionsNext ==
  \/ \E k \in 1..Len(argv) :
       Positional(argv[k]) \/ NamedOption(argv[k]) \/ Verbosity(argv[k]) \/ Stop(argv[k])
  \/ Parsed \/ ParseAgain
  \/ \E test \in TestNames : UnityTestMatches(test)
  \/ NoItemLeft \/ TryItem \/ Overrun \/ LostAnswer

OptionsSpec == OptionsInit /\ [][OptionsNext]_vars

-----------------------------------------------------------------------------

(* The lists in force are those of the last call, by its last option of    *)
(* each kind: an argument that is the list of the option before it is no   *)
(* option, an option before an error still counts, and nothing is left of  *)
(* an earlier call.                                                        *)
OptionsOfThisParse ==
  LET option[k \in 0..Len(argv)] ==
        k > 0 /\ argv[k].flag # "none"
        /\ (k > 1 => ~(option[k - 1] /\ IsList(argv, k)))
      given(flags) == {k \in 1..i - 1 : option[k] /\ argv[k].flag \in flags}
      last(flags) == LET k == CHOOSE k \in given(flags) : \A l \in given(flags) : l <= k
                     IN  IF argv[k].value # NULL THEN argv[k].value ELSE AsList(argv[k + 1])
      inForce(flags) == IF given(flags) = {} THEN NULL ELSE last(flags)
  IN  /\ UnityOptionIncludeNamed = inForce({"n", "f"})
      /\ UnityOptionExcludeNamed = inForce({"x"})

Within(longstring, part) ==
  \E n \in 0..Len(longstring) - Len(part) : SubSeq(longstring, n + 1, n + Len(part)) = part

\* What it should mean that an item names a test.
Selects(item, test) ==
  IF item.test = <<>>
  THEN item.part = <<>> \/ Within(TestFile, item.part) \/ Within(test, item.part)
  ELSE Within(TestFile, item.part) /\ Within(test, item.test)

WellFormed(items) ==
  \A k \in 1..Len(items) : items[k].part = <<>> => items[k].test = <<>> /\ items[k].wild

(* A test runs if an item of the included list, of whatever place in the   *)
(* list, names it and none of the excluded list does: with or without      *)
(* quotes, by its file, its name or both.  A wildcard may only end an item *)
(* here: "*:test" is none of the items the lists are made of.              *)
SelectionExact ==
  (list = NULL /\ retval # NULL) =>
    LET names(items) == \E k \in 1..Len(items) : Selects(items[k], CurrentTestName)
        named == {UnityOptionIncludeNamed, UnityOptionExcludeNamed} \ {NULL}
    IN  (\A items \in named : WellFormed(items)) =>
          retval = /\ UnityOptionIncludeNamed # NULL => names(UnityOptionIncludeNamed)
                   /\ UnityOptionExcludeNamed # NULL => ~names(UnityOptionExcludeNamed)

(* The cursor never passes the end of a list, however its quotes and       *)
(* commas are placed, except in the list that is one lone quote.           *)
CursorInside ==
  (list # NULL /\ Rendered(Named) # <<"'">>) => ptr1 <= Len(Rendered(Named)) + 1
=============================================================================
