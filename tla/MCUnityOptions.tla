--------------------------- MODULE MCUnityOptions ---------------------------
(***************************************************************************)
(* Lists of up to two items, every placing of their quotes, and command    *)
(* lines of up to three arguments; the file is "ac".                       *)
(***************************************************************************)
EXTENDS UnityOptions

MCLetters == {"a", "b", "c", "-", "="} \cup Flags

MCItems ==
  [part : {<<>>, <<"a">>, <<"b">>, <<"a", "b">>}, test : {<<>>, <<"b">>}, wild : BOOLEAN,
   open : BOOLEAN, close : BOOLEAN]
ShortItems ==
  {[part |-> p, test |-> t, wild |-> FALSE, open |-> q, close |-> q] :
     p \in {<<"a">>, <<"b">>}, t \in {<<>>, <<"b">>}, q \in BOOLEAN}
AnItem == [part |-> <<"b">>, test |-> <<>>, wild |-> FALSE, open |-> FALSE, close |-> FALSE]

MCLists == {<<x>> : x \in MCItems} \cup {<<x, y>> : x \in MCItems, y \in MCItems}

Arg(flag, value) == [flag |-> flag, value |-> value]
Bare == {Arg(f, NULL) : f \in Flags} \cup {Arg("none", <<AnItem>>)}

\* What the arguments do, whatever the lists.
ParseCommands ==
  {<<Arg("x", <<AnItem>>), x, y>> : x \in Bare, y \in Bare}
  \cup {<<x, Arg("x", <<AnItem, AnItem>>), y>> : x \in Bare, y \in Bare}
  \cup {<<x, y, z>> : x \in Bare, y \in Bare, z \in Bare}

\* What the lists select.
MatchCommands ==
  {<<Arg("n", x)>> : x \in MCLists}
  \cup {<<Arg("f", <<x>>), Arg("x", <<y, z>>)>> :
          x \in ShortItems, y \in ShortItems, z \in ShortItems}

MCCommands == ParseCommands \cup MatchCommands

MCTestFile == <<"a", "c">>
MCTestNames == {<<"b">>, <<"c", "b">>, <<"a">>}
=============================================================================
