------------------------------ MODULE UnityText ------------------------------
(***************************************************************************)
(* The text printers of Unity that walk a string up to its terminator      *)
(* (unity/src/unity.c): UnityPrint and the printf helper UnityPrintFVA, one*)
(* turn of its loop a step.  The terminator is read at Len(s) + 1; what    *)
(* lies beyond it is not the caller's, so a walk that passes it is over for*)
(* the model.                                                              *)
(***************************************************************************)
EXTENDS UnityNumbers

CONSTANTS
  Alphabet,    \* the characters of strings and formats, as ASCII codes
  MaxLength,   \* bound on their length
  Ints, Strings    \* the arguments given to formats

ASSUME TextAssumption ==
  /\ Alphabet \subseteq (-128..127) \ {0} /\ MaxLength \in Nat
  /\ Ints \subseteq Int
  /\ Strings \ {NULL} \subseteq Seq((-128..127) \ {0})
  /\ NULL \notin {"UnityPrint", "UnityPrintFVA"}

VARIABLES
  color,     \* UNITY_OUTPUT_COLOR is defined
  routine,   \* the printer called
  string,    \* the string or format it was given
  pch,       \* its cursor
  out,       \* what the last step printed
  taken      \* the types of the arguments taken with va_arg

text_vars == <<color, routine, string, pch, out, taken>>

Percent == 37
Newline == 10
Escape == 27
Bracket == 91
LetterM == 109
LetterL == 108
LetterH == 104
LetterJ == 106
LetterZ == 122
LetterT == 116
CapitalL == 76

CharAt(s, i) == IF i <= Len(s) THEN s[i] ELSE 0

Terminator(s) == Len(s) + 1

Over(s, i) == i >= Terminator(s)

-----------------------------------------------------------------------------

AtEscape(s, i) == color /\ CharAt(s, i) = Escape /\ CharAt(s, i + 1) = Bracket

(* The whole of "ESC [ ... m", and how far it takes the cursor: the 'm' is *)
(* printed and counted even where the string ends before it.               *)
UnityPrintAnsiEscapeString(s, i) ==
  LET end == CHOOSE e \in i..Terminator(s) :
               /\ CharAt(s, e) \in {0, LetterM}
               /\ \A k \in i..e-1 : CharAt(s, k) # LetterM
  IN  [text |-> Append(SubSeq(s, i, end - 1), LetterM), count |-> end - i + 1]

UnityPrint(s) ==
  LET Walk[i \in Nat] ==
        IF Over(s, i) THEN [text |-> <<>>, end |-> i]
        ELSE LET here == IF AtEscape(s, i) THEN UnityPrintAnsiEscapeString(s, i)
                         ELSE [text |-> PrintCharacter(s[i]), count |-> 1]
                 rest == Walk[i + here.count]
             IN  [text |-> here.text \o rest.text, end |-> rest.end]
  IN  IF s = NULL THEN [text |-> <<>>, end |-> 0] ELSE Walk[1]

CallUnityPrint ==
  /\ routine = "UnityPrint" /\ pch = 0
  /\ LET walk == UnityPrint(string) IN out' = walk.text /\ pch' = walk.end
  /\ UNCHANGED <<color, routine, string, taken>>

-----------------------------------------------------------------------------

(* A slip: one 'h' is skipped as two.                                      *)
LengthModifierGreedy(s, i) ==
  LET c == CharAt(s, i)
  IN  CASE c = LetterL /\ CharAt(s, i + 1) = LetterL -> [type |-> "long long", length |-> 2]
        [] c = LetterL /\ CharAt(s, i + 1) # LetterL -> [type |-> "long", length |-> 1]
        [] c = LetterH -> [type |-> "int", length |-> 2]
        [] c \in {LetterJ, LetterZ, LetterT, CapitalL} -> [type |-> "int", length |-> 1]
        [] OTHER -> [type |-> "int", length |-> 0]

(* A slip: "ll" is read as one 'l'.                                        *)
LengthModifierShort(s, i) ==
  IF CharAt(s, i) = LetterL
  THEN [type |-> "long", length |-> IF CharAt(s, i + 1) = LetterL THEN 2 ELSE 1]
  ELSE [type |-> "int",
        length |-> IF CharAt(s, i) \in {LetterH, LetterJ, LetterZ, LetterT, CapitalL} THEN 1 ELSE 0]

\* j, z, t and L are skipped and otherwise ignored.
UnityLengthModifierGet(s, i) ==
  LET c == CharAt(s, i)  doubled == CharAt(s, i + 1) = c
  IN  CASE c = LetterL /\ doubled  -> [type |-> "long long", length |-> 2]
        [] c = LetterL /\ ~doubled -> [type |-> "long", length |-> 1]
        [] c = LetterH -> [type |-> "int", length |-> IF doubled THEN 2 ELSE 1]
        [] c \in {LetterJ, LetterZ, LetterT, CapitalL} -> [type |-> "int", length |-> 1]
        [] OTHER -> [type |-> "int", length |-> 0]

\* The conversions that print an integer, and how (UNITY_EXTRACT_ARG).
Signed == {100, 105}            \* d i
Unsigned == {117, 98, 120, 88}  \* u b x X
Floating == {102, 103}          \* f g
Pointer == 112
Character == 99
StringLetter == 115

PrintUnsigned(c, u) ==
  CASE c = 117 -> UnityPrintNumberUnsigned(u)
    [] c = 98  -> <<Zero, 98>> \o UnityPrintMask(2^Bits(IntBytes) - 1, u)
    [] c \in {120, 88, Pointer} -> <<Zero, 120>> \o UnityPrintNumberHex(u, 8)

\* The unsigned type of the same width.
UnsignedOf(type) ==
  CASE type = "int"       -> "unsigned int"
    [] type = "long"      -> "unsigned long"
    [] type = "long long" -> "unsigned long long"
    [] type = "intmax_t"  -> "uintmax_t"
    [] type = "ssize_t"   -> "size_t"
    [] type = "ptrdiff_t" -> "unsigned ptrdiff_t"

Take(type) == taken' = Append(taken, type)

Width(type) == IF type = "int" THEN IntWidth ELSE IntBytes

\* The switch of UnityPrintFVA, at the conversion letter c.  What
\* UnityPrintFloat prints is left to UnityFloatPrint.
Convert(c, type) ==
  \/ /\ c \in Signed /\ Take(type)
     /\ \E n \in Ints : out' = UnityPrintNumber(ToSigned(n, Width(type)))
  \/ /\ c \in Unsigned /\ Take(UnsignedOf(type))
     /\ \E n \in Ints : out' = PrintUnsigned(c, ToUnsigned(n, Width(type)))
  \/ /\ c = Pointer /\ Take("unsigned int")
     /\ \E n \in Ints : out' = PrintUnsigned(c, ToUnsigned(n, IntWidth))
  \/ c \in Floating /\ Take("double") /\ out' = <<>>
  \/ /\ c = Character /\ Take("int")
     /\ \E n \in Ints : out' = PrintCharacter(ToSigned(n, 1))
  \/ c = StringLetter /\ Take("string") /\ \E s \in Strings : out' = UnityPrint(s).text
  \/ c = Percent /\ out' = PrintCharacter(c) /\ UNCHANGED taken
  \/ /\ c \notin Signed \cup Unsigned \cup Floating
                  \cup {Pointer, Character, StringLetter, Percent}
     /\ out' = <<Percent>> \o PrintCharacter(c)
     /\ UNCHANGED taken

Formatting ==
  /\ routine = "UnityPrintFVA"
  /\ ~Over(string, pch)
  /\ UNCHANGED <<color, routine, string>>

FormatDirective ==
  /\ Formatting
  /\ string[pch] = Percent
  /\ LET mod == UnityLengthModifierGet(string, pch + 1)
         letter == pch + 1 + mod.length
     IN  Convert(CharAt(string, letter), mod.type) /\ pch' = letter + 1

FormatText ==
  /\ Formatting
  /\ string[pch] # Percent
  /\ LET here == CASE AtEscape(string, pch) -> UnityPrintAnsiEscapeString(string, pch)
                   [] ~AtEscape(string, pch) /\ string[pch] = Newline ->
                        [text |-> <<Newline>>, count |-> 1]
                   [] OTHER -> [text |-> PrintCharacter(string[pch]), count |-> 1]
     IN  out' = here.text /\ pch' = pch + here.count
  /\ UNCHANGED taken

-----------------------------------------------------------------------------

TextInit ==
  /\ color \in BOOLEAN
  /\ \/ routine = "UnityPrint" /\ pch = 0
     \/ routine = "UnityPrintFVA" /\ pch = 1
  /\ string \in BoundedSeq(Alphabet, MaxLength)
  /\ out = <<>> /\ taken = <<>>

TextNext == CallUnityPrint \/ FormatDirective \/ FormatText

-----------------------------------------------------------------------------

\* A reading of a string that does not walk it: a '%' begins a directive when
\* an even number of '%' stand right before it.
Begins(s, i) ==
  /\ CharAt(s, i) = Percent
  /\ \E j \in 1..i : /\ (i - j) % 2 = 0
                     /\ \A k \in j..i : CharAt(s, k) = Percent
                     /\ j = 1 \/ s[j - 1] # Percent

Modifiers ==
  {<<>>, <<LetterH>>, <<LetterH, LetterH>>, <<LetterL>>, <<LetterL, LetterL>>,
   <<LetterJ>>, <<LetterZ>>, <<LetterT>>}

\* The directives of C's printf with the letters and modifiers that Unity knows.
Directives ==
  {<<Percent>> \o m \o <<c>> : m \in Modifiers, c \in Signed \cup Unsigned}
  \cup {<<Percent>> \o m \o <<c>> : m \in {<<>>, <<LetterL>>, <<CapitalL>>}, c \in Floating}
  \cup {<<Percent>> \o m \o <<c>> : m \in {<<>>, <<LetterL>>}, c \in {Character, StringLetter}}
  \cup {<<Percent, Pointer>>, <<Percent, Percent>>}

\* The type of the argument C's printf takes for a directive.
ArgumentOf(d) ==
  LET c == d[Len(d)]
      m == SubSeq(d, 2, Len(d) - 1)
      integer == CASE m = <<LetterL>>          -> "long"
                   [] m = <<LetterL, LetterL>> -> "long long"
                   [] m = <<LetterJ>>          -> "intmax_t"
                   [] m = <<LetterZ>>          -> "ssize_t"
                   [] m = <<LetterT>>          -> "ptrdiff_t"
                   [] OTHER                    -> "int"
  IN  CASE c \in Signed     -> integer
        [] c \in Unsigned   -> UnsignedOf(integer)
        [] c \in Floating   -> IF m = <<CapitalL>> THEN "long double" ELSE "double"
        [] c = Character    -> IF m = <<LetterL>> THEN "wint_t" ELSE "int"
        [] c = StringLetter -> IF m = <<LetterL>> THEN "wide string" ELSE "string"
        [] c = Pointer      -> "pointer"

\* The type Unity takes in the place of one of C's that it does not support.
Understood(type) ==
  CASE type \in {"intmax_t", "ssize_t", "ptrdiff_t", "wint_t"} -> "int"
    [] type \in {"uintmax_t", "size_t", "unsigned ptrdiff_t", "pointer"} -> "unsigned int"
    [] type = "long double" -> "double"
    [] type = "wide string" -> "string"
    [] OTHER -> type

DirectiveAt(s, i) == {d \in Directives : IsPrefix(d, SubSeq(s, i, Len(s)))}

WellFormed(s) ==
  \A i \in DOMAIN s : Begins(s, i) => i < Len(s) /\ DirectiveAt(s, i) # {}

(* A format of these directives takes one argument for each one C's printf *)
(* takes, in their order, and its walk stops at the terminator.  Each is of*)
(* C's type but for the types Unity does not support, which are not        *)
(* refused: intmax_t, size_t, ptrdiff_t, wint_t and pointers are taken as  *)
(* an int or unsigned int, a long double as a double and a wide string as a*)
(* string (unity/src/unity.c:1949-1956 and 2035-2037).                     *)
ArgumentsAsPrintf ==
  (routine = "UnityPrintFVA" /\ ~color /\ WellFormed(string) /\ Over(string, pch)) =>
    /\ pch = Terminator(string)
    /\ taken = FlattenSeq([i \in DOMAIN string |->
                 IF Begins(string, i) /\ CharAt(string, i + 1) # Percent
                 THEN <<Understood(ArgumentOf(CHOOSE d \in DirectiveAt(string, i) : TRUE))>>
                 ELSE <<>>])

\* A directive, or an escape sequence, that the string ends in the middle of.
Unfinished(s) ==
  \/ /\ routine = "UnityPrintFVA"
     /\ \E i \in DOMAIN s : /\ s[i] = Percent
                            /\ i + UnityLengthModifierGet(s, i + 1).length = Len(s)
  \/ /\ color
     /\ \E i \in 1..Len(s) - 1 : /\ s[i] = Escape /\ s[i + 1] = Bracket
                                 /\ \A k \in i..Len(s) : s[k] # LetterM

(* The cursor of every printer stops at the terminator, unless the string  *)
(* ends in the middle of a directive or of an escape sequence: those two   *)
(* and no other string take the walk past its end.                         *)
StopsAtTerminator ==
  pch > Terminator(string) => Unfinished(string)

(* Whatever the characters, what reaches the terminal is printable: control*)
(* characters only as line ends and in the escape sequences of the colours.*)
OnlyPrintable ==
  \A i \in DOMAIN out :
    out[i] \in Printable \/ out = <<Newline>> \/ (color /\ Escape \in {out[k] : k \in 1..i})
=============================================================================
