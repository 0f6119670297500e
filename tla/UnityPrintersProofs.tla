------------------------ MODULE UnityPrintersProofs ------------------------
(***************************************************************************)
(* What UnityPrinters prints: numbers that read back, masks that show what *)
(* they say, printers that stop at the terminator, printable text, the     *)
(* arguments a format takes, and floats to the nearest digit.              *)
(***************************************************************************)
EXTENDS UnityPrinters, UnityNumbersProofs

(* A number of the style's type, or one under a mask, and what is printed  *)
(* of it, if anything is yet.                                              *)
Given ==
  \/ /\ style \in [range : {"CHAR", "INT", "UINT", "HEX"}, size : 1..IntBytes]
     /\ given \in UNITY_INT
  \/ /\ style = [range |-> "MASK", size |-> IntBytes]
     /\ given \in UNITY_INT /\ mask \in UNITY_INT

PrintedIs ==
  IF style.range = "MASK" THEN UnityPrintMask(mask, given)
                          ELSE UnityPrintNumberByStyle(given, style)

NumberInv ==
  \/ style = NULL /\ printed = NULL
  \/ Given /\ printed \in {NULL, PrintedIs}

LEMMA NumberInit == PrintersInit => NumberInv
<1>1. CASE PrintingInit
  BY <1>1, PrintingAssumption DEF PrintingInit, NumberInv, Given
<1>2. CASE NoNumber
  BY <1>2 DEF NoNumber, NumberInv
<1> QED BY <1>1, <1>2 DEF PrintersInit

LEMMA NumberStep == NumberInv /\ [PrintersNext]_printer_vars => NumberInv'
<1> SUFFICES ASSUME NumberInv, [PrintersNext]_printer_vars PROVE NumberInv'
  OBVIOUS
<1>1. CASE PrintNumber
  <2>1. style # NULL /\ Given /\ Given' /\ PrintedIs' = PrintedIs /\ printed' = PrintedIs
    BY <1>1 DEF PrintNumber, NumberInv, Given, PrintedIs
  <2> QED BY <2>1 DEF NumberInv
<1>2. CASE UNCHANGED number_vars
  BY <1>2 DEF number_vars, NumberInv, Given, PrintedIs
<1> QED BY <1>1, <1>2 DEF PrintersNext, printer_vars

LEMMA NumberInvHolds == PrintersSpec => []NumberInv
BY NumberInit, NumberStep, PTL DEF PrintersSpec

-----------------------------------------------------------------------------
(* Numbers and masks.                                                      *)

LEMMA MaskInv == NumberInv => MaskShown
<1> SUFFICES ASSUME NumberInv, printed # NULL, style.range = "MASK",
                    NEW i \in 0..Bits(IntBytes) - 1
             PROVE  LET flipped == IF BitOf(given, i) = 0 THEN given + 2^i ELSE given - 2^i
                    IN  (UnityPrintMask(mask, flipped) # printed)
                          = (BitOf(mask, i) = 1 /\ i < Bits(IntWidth))
  BY DEF MaskShown
<1>1. Given /\ printed = PrintedIs
  BY DEF NumberInv
<1>2. printed = UnityPrintMask(mask, given)
  BY <1>1 DEF PrintedIs
<1>3. given \in Int /\ mask \in Int
  BY <1>1, UnityInt DEF Given
<1>4. UnityPrintMask(mask, Flipped(given, i)) # UnityPrintMask(mask, given)
        <=> BitOf(mask, i) = 1 /\ i < Bits(IntWidth)
  BY <1>3, FlipShown DEF Places
<1> QED BY <1>2, <1>4 DEF Flipped

(* Under a mask a bit shows exactly when the mask has it and it is one of  *)
(* an int's (UnityPrintMask).                                              *)
THEOREM MaskShownHolds == PrintersSpec => []MaskShown
BY NumberInvHolds, MaskInv, PTL

(* What follows a prefix is what was put there.                            *)
LEMMA AfterPrefix ==
  ASSUME NEW s \in Seq(Int), NEW a \in Int, NEW b \in Int
  PROVE  /\ (<<a>> \o s)[1] = a /\ Tail(<<a>> \o s) = s
         /\ SubSeq(<<a, b>> \o s, 3, Len(<<a, b>> \o s)) = s
<1>1. Len(<<a, b>> \o s) = Len(s) + 2 /\ <<a, b>> \o s \in Seq(Int) /\ Len(s) \in Nat
  OBVIOUS
<1>2. SubSeq(<<a, b>> \o s, 3, Len(<<a, b>> \o s)) = s
  BY <1>1
<1>3. (<<a>> \o s)[1] = a /\ Tail(<<a>> \o s) = s
  OBVIOUS
<1> QED BY <1>2, <1>3

LEMMA ReadsBackInv == NumberInv => ReadsBack
<1> SUFFICES ASSUME NumberInv, printed # NULL, style.range \in {"INT", "UINT", "HEX"}
             PROVE  ReadsBack
  BY DEF ReadsBack
<1>1. Given /\ printed = PrintedIs
  BY DEF NumberInv
<1>2. printed = UnityPrintNumberByStyle(given, style)
  BY <1>1 DEF PrintedIs
<1>3. given \in UNITY_INT /\ given \in Int /\ style.size \in 1..IntBytes
      /\ IntBytes \in 1..IntBytes
  BY <1>1, UnityInt, NumbersAssumption DEF Given
<1>4. CASE style.range = "INT"
  <2>1. printed = UnityPrintNumber(given)
    BY <1>2, <1>4 DEF UnityPrintNumberByStyle
  <2>2. CASE given >= 0
    <3>1. given \in 0..Modulus(IntBytes) - 1 /\ ~(given < 0)
      BY <1>3, <2>2, UnityInt
    <3>2. printed = UnityPrintNumberUnsigned(given)
      BY <2>1, <3>1 DEF UnityPrintNumber
    <3>3. Read(printed, 10) = given /\ NoLeadingZero(printed)
      BY <3>1, <3>2, DecimalIs DEF NoLeadingZero
    <3> QED BY <1>4, <2>2, <3>1, <3>3 DEF ReadsBack
  <2>3. CASE given < 0
    <3> DEFINE m == -given
    <3>1. ToUnsigned(-given, IntBytes) = m /\ m \in 0..Modulus(IntBytes) - 1
      BY <1>3, <2>3, UnityInt
    <3>2. printed = <<Minus>> \o UnityPrintNumberUnsigned(m)
      BY <2>1, <2>3, <3>1 DEF UnityPrintNumber
    <3> HIDE DEF m
    <3>3. UnityPrintNumberUnsigned(m) \in Seq(Int)
      <4>1. UnityPrintNumberUnsigned(m) \in Seq(48..57)
        BY <3>1, DecimalIs
      <4> QED BY <4>1
    <3>4. printed[1] = Minus /\ Tail(printed) = UnityPrintNumberUnsigned(m)
      <4>1. Minus \in Int
        BY DEF Minus
      <4> QED BY <3>2, <3>3, <4>1, AfterPrefix
    <3>5. Read(Tail(printed), 10) = m /\ NoLeadingZero(Tail(printed))
      BY <3>1, <3>4, DecimalIs DEF NoLeadingZero
    <3>6. -Read(Tail(printed), 10) = given
      BY <1>3, <3>5 DEF m
    <3>7. style.range = "INT" /\ ~(given >= 0) /\ style.range # "UINT" /\ style.range # "HEX"
      BY <1>3, <1>4, <2>3
    <3> QED BY <2>3, <3>4, <3>5, <3>6, <3>7 DEF ReadsBack
  <2> QED BY <1>3, <2>2, <2>3
<1>5. CASE style.range = "UINT"
  <2> DEFINE u == ToUnsigned(given, IntBytes)
  <2>1. printed = UnityPrintNumberUnsigned(u)
    BY <1>2, <1>5 DEF UnityPrintNumberByStyle
  <2>2. u \in 0..Modulus(IntBytes) - 1
    BY <1>3, UnsignedIs
  <2> HIDE DEF u
  <2>3. Read(printed, 10) = u /\ NoLeadingZero(printed)
    BY <2>1, <2>2, DecimalIs DEF NoLeadingZero
  <2> QED BY <1>5, <2>3 DEF ReadsBack, u
<1>6. CASE style.range = "HEX"
  <2> DEFINE s == UnityPrintNumberHex(ToUnsigned(given, IntBytes), 2 * style.size)
  <2>1. printed = <<Zero, 120>> \o s
    BY <1>2, <1>6 DEF UnityPrintNumberByStyle
  <2>2. s \in Seq(Int) /\ Len(s) = 2 * style.size
        /\ Read(s, 2^NibbleBits) = ToUnsigned(given, style.size)
    BY <1>3, HexIs
  <2> HIDE DEF s
  <2>3. SubSeq(printed, 3, Len(printed)) = s
    <3>1. Zero \in Int /\ 120 \in Int
      BY DEF Zero
    <3> QED BY <2>1, <2>2, <3>1, AfterPrefix
  <2> QED BY <1>6, <2>2, <2>3 DEF ReadsBack
<1> QED BY <1>4, <1>5, <1>6

(* A number printed reads back as itself, in decimal without a leading zero*)
(* and in hexadecimal with the digits of its size (UnityPrintNumberByStyle)*)
(* whatever the width of the types.                                        *)
THEOREM ReadsBackHolds == PrintersSpec => []ReadsBack
BY NumberInvHolds, ReadsBackInv, PTL

-----------------------------------------------------------------------------
(* The walk of UnityPrint.                                                 *)

Chars == (-128..127) \ {0}

LEMMA CharIs ==
  ASSUME NEW s \in Seq(Chars), NEW i \in Nat \ {0}
  PROVE  /\ Len(s) \in Nat /\ Terminator(s) = Len(s) + 1 /\ Terminator(s) \in Nat
         /\ CharAt(s, i) \in Int
         /\ i <= Len(s) => s[i] \in Chars /\ CharAt(s, i) = s[i] /\ s[i] # 0
         /\ CharAt(s, i) # 0 => i \in 1..Len(s)
<1>1. Len(s) \in Nat /\ \A k \in 1..Len(s) : s[k] \in Chars
  OBVIOUS
<1>2. i <= Len(s) => i \in 1..Len(s)
  BY <1>1
<1>3. Terminator(s) = Len(s) + 1 /\ Terminator(s) \in Nat
  BY <1>1 DEF Terminator
<1>4. i <= Len(s) => s[i] \in Chars /\ CharAt(s, i) = s[i]
  BY <1>1, <1>2 DEF CharAt
<1>5. ~(i <= Len(s)) => CharAt(s, i) = 0
  BY DEF CharAt
<1>6. \A c \in Chars : c \in Int /\ c # 0
  BY DEF Chars
<1> QED BY <1>1, <1>2, <1>3, <1>4, <1>5, <1>6

LEMMA EscapeIs ==
  ASSUME NEW s \in Seq(Chars), NEW i \in Nat, i <= Terminator(s)
  PROVE  LET here == UnityPrintAnsiEscapeString(s, i)
         IN  /\ here.count \in Nat \ {0}
             /\ i + here.count <= Terminator(s) + 1
             /\ i # 0 /\ AtEscape(s, i) =>
                  /\ here.text \in Seq(Int) /\ Len(here.text) > 0 /\ here.text[1] = Escape
                  /\ i + 1 <= Len(s) /\ s[i] = Escape /\ s[i + 1] = Bracket
                  /\ i + here.count > Terminator(s) => \A k \in i..Len(s) : s[k] # LetterM
<1> DEFINE T == Terminator(s)
           Ends(e) == /\ CharAt(s, e) \in {0, LetterM}
                      /\ \A k \in i..e-1 : CharAt(s, k) # LetterM
           stop == {e \in i..T : CharAt(s, e) \in {0, LetterM}}
           end == CHOOSE e \in i..T : Ends(e)
           here == UnityPrintAnsiEscapeString(s, i)
<1>1. Len(s) \in Nat /\ T = Len(s) + 1 /\ T \in Nat /\ CharAt(s, T) = 0
  <2>1. Len(s) \in Nat
    OBVIOUS
  <2> QED BY <2>1 DEF Terminator, CharAt
<1>2. here = [text |-> Append(SubSeq(s, i, end - 1), LetterM), count |-> end - i + 1]
  BY DEF UnityPrintAnsiEscapeString
<1> HIDE DEF T
<1>3. end \in i..T /\ Ends(end)
  <2>1. T \in stop /\ stop \in SUBSET Nat
    BY <1>1 DEF T
  <2>2. PICK e \in stop : \A k \in stop : e <= k
    <3> HIDE DEF stop
    <3> QED BY <2>1, LeastNat
  <2>3. e \in i..T /\ CharAt(s, e) \in {0, LetterM}
    BY <2>2
  <2>4. ASSUME NEW k \in i..e - 1 PROVE CharAt(s, k) # LetterM
    <3>1. k \in i..T /\ ~(e <= k)
      BY <1>1, <2>3
    <3> QED BY <2>2, <3>1
  <2>5. \E x \in i..T : Ends(x)
    BY <2>3, <2>4
  <2> HIDE DEF Ends
  <2> QED BY <2>5
<1> HIDE DEF end, here
<1>4. end \in Nat /\ i <= end /\ end <= T
  BY <1>1, <1>3
<1>5. here.count = end - i + 1 /\ here.text = Append(SubSeq(s, i, end - 1), LetterM)
  BY <1>2
<1>6. here.count \in Nat \ {0} /\ i + here.count = end + 1
  BY <1>4, <1>5
<1>7. ASSUME i # 0, AtEscape(s, i)
      PROVE  /\ here.text \in Seq(Int) /\ Len(here.text) > 0 /\ here.text[1] = Escape
             /\ i + 1 <= Len(s) /\ s[i] = Escape /\ s[i + 1] = Bracket
             /\ i + here.count > T => \A k \in i..Len(s) : s[k] # LetterM
  <2>1. CharAt(s, i) = 27 /\ CharAt(s, i + 1) = 91
    BY <1>7 DEF AtEscape, Escape, Bracket
  <2>2. i \in 1..Len(s) /\ i + 1 \in 1..Len(s)
    <3>1. i \in Nat \ {0} /\ i + 1 \in Nat \ {0}
      BY <1>7
    <3> QED BY <2>1, <3>1, CharIs
  <2>3. s[i] = Escape /\ s[i + 1] = Bracket /\ i + 1 <= Len(s)
    <3>1. i \in Nat \ {0} /\ i + 1 \in Nat \ {0} /\ i <= Len(s) /\ i + 1 <= Len(s)
      BY <1>1, <2>2
    <3> QED BY <2>1, <3>1, CharIs DEF Escape, Bracket
  <2>4. end # i
    BY <1>3, <2>1 DEF LetterM
  <2> DEFINE t == SubSeq(s, i, end - 1)
  <2>5. t \in Seq(Int) /\ Len(t) > 0 /\ t[1] = Escape
    <3>1. i \in 1..Len(s) /\ end - 1 \in i..Len(s) /\ s \in Seq(Int)
      <4>1. Chars \subseteq Int
        BY DEF Chars
      <4>2. s \in Seq(Int)
        BY <4>1, SeqWider
      <4> QED BY <1>1, <1>4, <2>2, <2>4, <4>2
    <3>2. \A k \in i..end - 1 : s[k] \in Int
      BY <1>1, <3>1
    <3>3. t = [k \in 1..(end - 1) - i + 1 |-> s[i + k - 1]] /\ (end - 1) - i + 1 \in Nat
      BY <1>1, <1>4, <3>1
    <3>4. \A k \in 1..(end - 1) - i + 1 : s[i + k - 1] \in Int
      BY <1>1, <1>4, <3>1
    <3>5. t \in Seq(Int) /\ Len(t) = (end - 1) - i + 1
      <4> DEFINE m == (end - 1) - i + 1
                 Char(k) == s[i + k - 1]
      <4>1. t = [k \in 1..m |-> Char(k)] /\ m \in Nat /\ \A k \in 1..m : Char(k) \in Int
        BY <3>3, <3>4
      <4> HIDE DEF t, m, Char
      <4>2. t \in Seq(Int) /\ Len(t) = m
        BY <4>1
      <4> QED BY <4>2 DEF m
    <3>6. (end - 1) - i + 1 > 0 /\ 1 \in 1..(end - 1) - i + 1 /\ i + 1 - 1 = i
      BY <1>4, <2>4
    <3> HIDE DEF t
    <3>7. t[1] = s[i]
      BY <3>3, <3>6
    <3> QED BY <2>3, <3>5, <3>6, <3>7
  <2> HIDE DEF t
  <2>6. here.text = Append(t, LetterM) /\ LetterM \in Int
    BY <1>5 DEF t, LetterM
  <2>7. here.text \in Seq(Int) /\ Len(here.text) > 0 /\ here.text[1] = Escape
    BY <2>5, <2>6
  <2>8. ASSUME i + here.count > T, NEW k \in i..Len(s) PROVE s[k] # LetterM
    <3>1. end = T
      BY <1>1, <1>4, <1>6, <2>8
    <3>2. k \in i..end - 1 /\ k <= Len(s)
      BY <1>1, <3>1
    <3>3. CharAt(s, k) # LetterM
      BY <1>3, <3>2
    <3> QED BY <3>2, <3>3 DEF CharAt
  <2> QED BY <2>3, <2>7, <2>8
<1> QED BY <1>1, <1>4, <1>6, <1>7 DEF T, here

(* A walk that takes H[i].count characters at i and stops at T.            *)
WalkStep(T, H, f, i) ==
  IF i >= T THEN [text |-> <<>>, end |-> i]
  ELSE [text |-> H[i].text \o f[i + H[i].count].text, end |-> f[i + H[i].count].end]

LEMMA WalkExists ==
  ASSUME NEW T \in Nat, NEW H, \A i \in Nat : i < T => H[i].count \in Nat \ {0}
  PROVE  \E f : f = [i \in Nat |-> WalkStep(T, H, f, i)]
<1> DEFINE From(b) == {i \in Nat : i >= b}
           Walk(f, b) == f = [i \in From(b) |-> WalkStep(T, H, f, i)]
           bad == {d \in 0..T : ~ \E f : Walk(f, T - d)}
<1>1. bad = {}
  <2> SUFFICES ASSUME bad # {} PROVE FALSE
    OBVIOUS
  <2>1. bad \in SUBSET Nat
    OBVIOUS
  <2>2. PICK d \in bad : \A c \in bad : d <= c
    <3> HIDE DEF bad
    <3> QED BY <2>1, LeastNat
  <2>3. d \in 0..T /\ ~ \E f : Walk(f, T - d)
    BY <2>2
  <2>4. CASE d = 0
    <3> DEFINE f == [i \in From(T) |-> [text |-> <<>>, end |-> i]]
    <3>1. \A i \in From(T) : WalkStep(T, H, f, i) = [text |-> <<>>, end |-> i]
      BY DEF WalkStep
    <3>2. f = [i \in From(T) |-> WalkStep(T, H, f, i)]
      <4> DEFINE S(i) == WalkStep(T, H, f, i)
      <4> HIDE DEF From
      <4>1. [i \in From(T) |-> S(i)] = [i \in From(T) |-> [text |-> <<>>, end |-> i]]
        <5> HIDE DEF S
        <5> QED BY <3>1 DEF S
      <4> QED BY <4>1
    <3>3. T - d = T
      BY <2>4
    <3> HIDE DEF f
    <3> QED BY <2>3, <3>2, <3>3
  <2>5. CASE d # 0
    <3> DEFINE b == T - d
    <3>1. b \in Nat /\ d - 1 \in 0..T /\ T - (d - 1) = b + 1 /\ ~(d <= d - 1) /\ b < T
      BY <2>3, <2>5
    <3>2. PICK f : Walk(f, b + 1)
      <4>1. d - 1 \notin bad
        BY <2>2, <3>1
      <4> QED BY <3>1, <4>1
    <3> HIDE DEF b
    <3> DEFINE W(i) == WalkStep(T, H, f, i)
               g == [i \in From(b) |-> IF i = b THEN W(b) ELSE f[i]]
    <3>3. ASSUME NEW i \in From(b) PROVE i # b => i \in From(b + 1) /\ f[i] = W(i)
      <4>1. i # b => i \in From(b + 1)
        BY <3>1
      <4> HIDE DEF From, W
      <4>2. \A k \in From(b + 1) : f[k] = WalkStep(T, H, f, k)
        BY <3>2
      <4> QED BY <4>1, <4>2 DEF W
    <3>4. ASSUME NEW i \in From(b) PROVE g[i] = W(i)
      <4> HIDE DEF From, W
      <4> QED BY <3>3
    <3>5. ASSUME NEW i \in From(b + 1) PROVE g[i] = f[i]
      <4>1. i \in From(b) /\ i # b
        BY <3>1
      <4> HIDE DEF From, W
      <4> QED BY <4>1
    <3>6. ASSUME NEW i \in From(b) PROVE W(i) = WalkStep(T, H, g, i)
      <4>1. CASE i >= T
        BY <4>1 DEF WalkStep
      <4>2. CASE i < T
        <5>1. i + H[i].count \in From(b + 1)
          <6> DEFINE c == H[i].count
          <6>1. c \in Nat \ {0}
            BY <4>2
          <6> HIDE DEF c
          <6>2. i + c \in From(b + 1)
            BY <3>1, <6>1
          <6> QED BY <6>2 DEF c
        <5>2. g[i + H[i].count] = f[i + H[i].count]
          <6> HIDE DEF g, From
          <6> QED BY <3>5, <5>1
        <5> HIDE DEF g
        <5> QED BY <4>2, <5>2 DEF WalkStep
      <4>3. i >= T \/ i < T
        OBVIOUS
      <4> HIDE DEF W
      <4> QED BY <4>1, <4>2, <4>3
    <3>7. Walk(g, b)
      <4>1. g = [i \in From(b) |-> g[i]]
        OBVIOUS
      <4> DEFINE V(i) == WalkStep(T, H, g, i)
      <4>2. ASSUME NEW i \in From(b) PROVE g[i] = V(i)
        <5> HIDE DEF g, W, From
        <5> QED BY <3>4, <3>6
      <4>3. g = [i \in From(b) |-> V(i)]
        <5> HIDE DEF g, V, From
        <5> QED BY <4>1, <4>2
      <4> HIDE DEF g
      <4> QED BY <4>3
    <3> HIDE DEF g, Walk
    <3> QED BY <2>3, <3>7 DEF b
  <2> QED BY <2>4, <2>5
<1>2. \E f : Walk(f, 0)
  <2>1. T \in 0..T /\ T - T = 0
    OBVIOUS
  <2> HIDE DEF Walk
  <2>2. \E f : Walk(f, T - T)
    BY <1>1, <2>1
  <2> QED BY <2>1, <2>2
<1>3. From(0) = Nat
  OBVIOUS
<1> HIDE DEF From
<1> QED BY <1>2, <1>3

-----------------------------------------------------------------------------
(* Printable text.                                                         *)

LEMMA SmallNibble == 2^NibbleBits \in 1..16
<1>1. /\ 0 \in 0..Bits(IntBytes) - 1 /\ 1 \in 0..Bits(IntBytes) - 1
      /\ \A k \in 2..3 : k < NibbleBits => k \in 0..Bits(IntBytes) - 1
  <2> DEFINE w == 2 * NibbleBits
  <2>1. w \in Nat /\ w >= 2 /\ IntBytes \in Nat \ {0} /\ w >= NibbleBits
    BY NumbersAssumption
  <2> HIDE DEF w
  <2>2. Bits(IntBytes) = w * IntBytes
    BY DEF Bits, w
  <2>3. w * IntBytes = w + w * (IntBytes - 1) /\ w * (IntBytes - 1) \in Nat
    <3>1. IntBytes - 1 \in Nat
      BY <2>1
    <3> QED BY <2>1, <3>1
  <2> QED BY <2>1, <2>2, <2>3, NumbersAssumption
<1>2. 2^0 = 1 /\ \A k \in 0..Bits(IntBytes) - 1 : 2^(k + 1) = 2 * 2^k
  BY PowersAssumption
<1>3. 2^1 = 2 /\ 2^2 = 4
  <2>1. 2^(0 + 1) = 2 * 2^0 /\ 2^(1 + 1) = 2 * 2^1
    BY <1>1, <1>2
  <2>2. 0 + 1 = 1 /\ 1 + 1 = 2
    OBVIOUS
  <2>3. 2^1 = 2 * 2^0 /\ 2^2 = 2 * 2^1
    BY <2>1, <2>2
  <2>4. 2^1 = 2
    BY <1>2, <2>3
  <2> QED BY <2>3, <2>4
<1>4. 2 < NibbleBits => 2^3 = 8
  <2>1. 2 < NibbleBits => 2^(2 + 1) = 2 * 2^2
    BY <1>1, <1>2
  <2>2. 2 + 1 = 3
    OBVIOUS
  <2>3. 2 < NibbleBits => 2^3 = 2 * 2^2
    BY <2>1, <2>2
  <2> QED BY <1>3, <2>3
<1>5. 3 < NibbleBits => 2^4 = 16
  <2>1. 3 < NibbleBits => 2^(3 + 1) = 2 * 2^3
    BY <1>1, <1>2
  <2>2. 3 + 1 = 4
    OBVIOUS
  <2>3. 3 < NibbleBits => 2^4 = 2 * 2^3
    BY <2>1, <2>2
  <2> QED BY <1>4, <2>3, NumbersAssumption
<1>6. NibbleBits \in {1, 2, 3, 4}
  BY NumbersAssumption
<1>7. CASE NibbleBits = 1
  BY <1>3, <1>7
<1>8. CASE NibbleBits = 2
  BY <1>3, <1>8
<1>9. CASE NibbleBits = 3
  BY <1>4, <1>9
<1>10. CASE NibbleBits = 4
  BY <1>5, <1>10
<1> QED BY <1>6, <1>7, <1>8, <1>9, <1>10

LEMMA HexPrintable ==
  ASSUME NEW u \in Nat, NEW m \in Nat
  PROVE  UnityPrintNumberHex(u, m) \in Seq(Printable)
<1> DEFINE w == NibbleBits
           D == 2^w
           count == Min({m, 2 * IntBytes})
           At(i) == Digit((u \div 2^(w * (count - i))) % D)
<1>1. w \in Nat /\ IntBytes \in 1..IntBytes /\ 2 * IntBytes \in Nat /\ D \in 1..16
  BY SmallNibble, NumbersAssumption
<1>2. count \in Nat /\ count <= 2 * IntBytes
  <2>1. count = IF m <= 2 * IntBytes THEN m ELSE 2 * IntBytes
    BY <1>1, LesserOfTwo
  <2> HIDE DEF count
  <2> QED BY <1>1, <2>1
<1>3. UnityPrintNumberHex(u, m) = [i \in 1..count |-> At(i)]
  BY DEF UnityPrintNumberHex
<1> HIDE DEF count, D
<1>4. ASSUME NEW i \in 1..count PROVE At(i) \in Printable
  <2> DEFINE l == count - i
             P == 2^(w * l)
  <2>1. l \in Nat /\ 2 * IntBytes - l \in Nat
    BY <1>1, <1>2
  <2> HIDE DEF l
  <2>2. w * l \in Exponents
    <3>1. Bits(IntBytes) = w * (2 * IntBytes)
      BY <1>1 DEF Bits
    <3> DEFINE a == 2 * IntBytes
    <3>2. a \in Nat /\ a - l \in Nat
      BY <1>1, <2>1
    <3> HIDE DEF a
    <3>3. w * a = w * l + w * (a - l) /\ w * l \in Nat /\ w * (a - l) \in Nat
      <4> HIDE DEF w
      <4> QED BY <1>1, <2>1, <3>2
    <3>4. Bits(IntBytes) = w * a
      BY <3>1 DEF a
    <3> HIDE DEF w
    <3> QED BY <3>3, <3>4 DEF Exponents
  <2>3. P \in Nat \ {0}
    BY <2>2, PowerNat
  <2> HIDE DEF P
  <2>4. u \div P \in Nat
    BY <2>3, Quotient
  <2> DEFINE q == u \div P
  <2> HIDE DEF q
  <2>5. q % D \in 0..D - 1
    <3>1. q \in Int /\ D \in Nat \ {0}
      BY <1>1, <2>4 DEF q
    <3> QED BY <3>1, Division
  <2>6. At(i) = Digit(q % D)
    BY DEF q, P, l
  <2> HIDE DEF At
  <2> QED BY <1>1, <2>5, <2>6 DEF Digit, Zero, Printable
<1> HIDE DEF At
<1> QED BY <1>2, <1>3, <1>4

LEMMA CharacterPrintable ==
  ASSUME NEW v \in Int
  PROVE  PrintCharacter(v) \in Seq(Printable)
<1>1. ToUnsigned(v, IntBytes) \in Nat
  <2>1. IntBytes \in 1..IntBytes
    BY NumbersAssumption
  <2> QED BY <2>1, UnsignedIs
<1>2. UnityPrintNumberHex(ToUnsigned(v, IntBytes), 2) \in Seq(Printable)
  BY <1>1, HexPrintable
<1>3. /\ <<Backslash, 120>> \in Seq(Printable) /\ <<Backslash, 114>> \in Seq(Printable)
      /\ <<Backslash, 110>> \in Seq(Printable)
  BY DEF Backslash, Printable
<1>4. <<Backslash, 120>> \o UnityPrintNumberHex(ToUnsigned(v, IntBytes), 2) \in Seq(Printable)
  <2> DEFINE s == UnityPrintNumberHex(ToUnsigned(v, IntBytes), 2)
  <2> HIDE DEF s
  <2>1. s \in Seq(Printable)
    BY <1>2 DEF s
  <2>2. <<Backslash, 120>> \o s \in Seq(Printable)
    BY <1>3, <2>1
  <2> QED BY <2>2 DEF s
<1>5. v \in Printable => <<v>> \in Seq(Printable)
  OBVIOUS
<1> QED BY <1>3, <1>4, <1>5 DEF PrintCharacter

\* Printable but for what follows an escape character.
Clean(colors, t) ==
  /\ t \in Seq(Int)
  /\ \A i \in 1..Len(t) : t[i] \in Printable \/ (colors /\ Escape \in {t[k] : k \in 1..i})

LEMMA PrintableClean ==
  ASSUME NEW colors, NEW t \in Seq(Printable)
  PROVE  Clean(colors, t)
<1>1. Printable \subseteq Int
  BY DEF Printable
<1>2. t \in Seq(Int)
  BY <1>1, SeqWider
<1>3. \A i \in 1..Len(t) : t[i] \in Printable
  OBVIOUS
<1> QED BY <1>2, <1>3 DEF Clean

LEMMA EscapeClean ==
  ASSUME NEW colors, colors, NEW t \in Seq(Int), Len(t) > 0, t[1] = Escape
  PROVE  Clean(colors, t)
<1>1. ASSUME NEW i \in 1..Len(t) PROVE Escape \in {t[k] : k \in 1..i}
  <2>1. 1 \in 1..i
    OBVIOUS
  <2> QED BY <2>1
<1> QED BY <1>1 DEF Clean

LEMMA CleanJoin ==
  ASSUME NEW colors, NEW s, NEW t, Clean(colors, s), Clean(colors, t)
  PROVE  Clean(colors, s \o t)
<1> DEFINE r == s \o t
<1>1. /\ s \in Seq(Int) /\ t \in Seq(Int) /\ r \in Seq(Int)
      /\ Len(s) \in Nat /\ Len(t) \in Nat /\ Len(r) = Len(s) + Len(t)
  BY DEF Clean
<1>2. /\ \A k \in 1..Len(s) : k \in 1..Len(r) /\ r[k] = s[k]
      /\ \A k \in 1..Len(t) : Len(s) + k \in 1..Len(r) /\ r[Len(s) + k] = t[k]
  BY <1>1
<1> HIDE DEF r
<1>3. ASSUME NEW i \in 1..Len(r)
      PROVE  r[i] \in Printable \/ (colors /\ Escape \in {r[k] : k \in 1..i})
  <2>1. CASE i \in 1..Len(s)
    <3>1. s[i] \in Printable \/ (colors /\ \E k \in 1..i : s[k] = Escape)
      BY <2>1 DEF Clean
    <3>2. \A k \in 1..i : k \in 1..Len(s)
      BY <1>1, <2>1
    <3> QED BY <1>2, <2>1, <3>1, <3>2
  <2>2. CASE i \notin 1..Len(s)
    <3> DEFINE j == i - Len(s)
    <3>1. j \in 1..Len(t) /\ i = Len(s) + j
      BY <1>1, <2>2
    <3> HIDE DEF j
    <3>2. t[j] \in Printable \/ (colors /\ \E k \in 1..j : t[k] = Escape)
      BY <3>1 DEF Clean
    <3>3. \A k \in 1..j : k \in 1..Len(t) /\ Len(s) + k \in 1..i
      BY <1>1, <3>1
    <3>4. r[i] = t[j]
      BY <1>2, <3>1
    <3>5. ASSUME NEW k \in 1..j, t[k] = Escape PROVE Escape \in {r[l] : l \in 1..i}
      <4>1. Len(s) + k \in 1..i /\ r[Len(s) + k] = Escape
        BY <1>2, <3>3, <3>5
      <4> QED BY <4>1
    <3> QED BY <3>2, <3>4, <3>5
  <2> QED BY <2>1, <2>2
<1> QED BY <1>1, <1>3 DEF Clean, r

-----------------------------------------------------------------------------
(* What UnityPrint prints, and where its walk ends.                        *)

\* The turn of its loop at i.
Here(s, i) ==
  IF AtEscape(s, i) THEN UnityPrintAnsiEscapeString(s, i)
  ELSE [text |-> PrintCharacter(s[i]), count |-> 1]

Walked(s) ==
  CHOOSE f : f = [i \in Nat |->
    IF Over(s, i) THEN [text |-> <<>>, end |-> i]
    ELSE [text |-> Here(s, i).text \o f[i + Here(s, i).count].text,
          end |-> f[i + Here(s, i).count].end]]

LEMMA UnityPrintIs ==
  ASSUME NEW s
  PROVE  UnityPrint(s) = IF s = NULL THEN [text |-> <<>>, end |-> 0] ELSE Walked(s)[1]
BY DEF UnityPrint, Walked, Here

LEMMA HereCounts ==
  ASSUME NEW s \in Seq(Chars), NEW i \in Nat, i <= Terminator(s)
  PROVE  Here(s, i).count \in Nat \ {0}
<1>1. UnityPrintAnsiEscapeString(s, i).count \in Nat \ {0}
  BY EscapeIs
<1> QED BY <1>1 DEF Here

LEMMA WalkedIs ==
  ASSUME NEW s \in Seq(Chars)
  PROVE  \A i \in Nat :
           Walked(s)[i] =
             IF Over(s, i) THEN [text |-> <<>>, end |-> i]
             ELSE [text |-> Here(s, i).text \o Walked(s)[i + Here(s, i).count].text,
                   end |-> Walked(s)[i + Here(s, i).count].end]
<1> DEFINE T == Terminator(s)
           H == [i \in Nat |-> Here(s, i)]
           Turn(f, i) ==
             IF Over(s, i) THEN [text |-> <<>>, end |-> i]
             ELSE [text |-> Here(s, i).text \o f[i + Here(s, i).count].text,
                   end |-> f[i + Here(s, i).count].end]
           P(f) == f = [i \in Nat |-> Turn(f, i)]
<1>1. T \in Nat
  BY CharIs
<1>2. ASSUME NEW i \in Nat, i < T PROVE H[i].count \in Nat \ {0}
  <2>1. i <= T
    BY <1>1, <1>2
  <2>2. H[i] = Here(s, i)
    OBVIOUS
  <2> HIDE DEF H
  <2> QED BY <2>1, <2>2, HereCounts
<1>3. PICK f : f = [i \in Nat |-> WalkStep(T, H, f, i)]
  <2> HIDE DEF H, T
  <2> QED BY <1>1, <1>2, WalkExists
<1>4. ASSUME NEW i \in Nat PROVE WalkStep(T, H, f, i) = Turn(f, i)
  <2>1. H[i] = Here(s, i)
    OBVIOUS
  <2> HIDE DEF H
  <2> QED BY <2>1 DEF WalkStep, Over
<1>5. P(f)
  <2> DEFINE V(i) == WalkStep(T, H, f, i)
  <2>1. f = [i \in Nat |-> V(i)] /\ \A i \in Nat : V(i) = Turn(f, i)
    BY <1>3, <1>4
  <2> HIDE DEF V, Turn
  <2> QED BY <2>1
<1>6. Walked(s) = CHOOSE g : P(g)
  BY DEF Walked
<1>7. P(Walked(s))
  <2> HIDE DEF P
  <2> QED BY <1>5, <1>6
<1>8. \A i \in Nat : Walked(s)[i] = Turn(Walked(s), i)
  <2> DEFINE w == Walked(s)
  <2>1. P(w)
    BY <1>7
  <2> HIDE DEF w, Turn
  <2>2. \A i \in Nat : w[i] = Turn(w, i)
    BY <2>1
  <2> QED BY <2>2 DEF w
<1> QED BY <1>8

\* An escape sequence that s ends in the middle of.
OpenEscape(s) ==
  \E i \in 1..Len(s) - 1 : /\ s[i] = Escape /\ s[i + 1] = Bracket
                           /\ \A k \in i..Len(s) : s[k] # LetterM

(* One turn of the loop: it moves on, past the terminator only in an open  *)
(* escape sequence, and prints clean text.                                 *)
LEMMA HereIs ==
  ASSUME NEW s \in Seq(Chars), NEW i \in 1..Len(s)
  PROVE  /\ Here(s, i).count \in Nat \ {0}
         /\ i + Here(s, i).count <= Terminator(s) + 1
         /\ i + Here(s, i).count > Terminator(s) => color /\ OpenEscape(s)
         /\ Clean(color, Here(s, i).text)
<1>1. /\ i \in Nat \ {0} /\ Len(s) \in Nat /\ i <= Len(s) /\ Terminator(s) = Len(s) + 1
      /\ i <= Terminator(s) /\ s[i] \in Int
  <2>1. i \in Nat \ {0} /\ Len(s) \in Nat /\ i <= Len(s)
    OBVIOUS
  <2> QED BY <2>1, CharIs DEF Chars
<1>2. CASE AtEscape(s, i)
  <2> DEFINE here == UnityPrintAnsiEscapeString(s, i)
  <2>1. /\ here.count \in Nat \ {0}
        /\ i + here.count <= Terminator(s) + 1
        /\ here.text \in Seq(Int) /\ Len(here.text) > 0 /\ here.text[1] = Escape
        /\ i + 1 <= Len(s) /\ s[i] = Escape /\ s[i + 1] = Bracket
        /\ i + here.count > Terminator(s) => \A k \in i..Len(s) : s[k] # LetterM
    BY <1>1, <1>2, EscapeIs
  <2>2. Here(s, i) = here
    BY <1>2 DEF Here
  <2> HIDE DEF here
  <2>3. color
    BY <1>2 DEF AtEscape
  <2>4. Clean(color, here.text)
    BY <2>1, <2>3, EscapeClean
  <2>5. i \in 1..Len(s) - 1
    BY <1>1, <2>1
  <2>6. i + here.count > Terminator(s) => OpenEscape(s)
    BY <2>1, <2>5 DEF OpenEscape
  <2> QED BY <2>1, <2>2, <2>3, <2>4, <2>6
<1>3. CASE ~AtEscape(s, i)
  <2>1. Here(s, i) = [text |-> PrintCharacter(s[i]), count |-> 1]
    BY <1>3 DEF Here
  <2>2. Clean(color, PrintCharacter(s[i]))
    BY <1>1, CharacterPrintable, PrintableClean
  <2> QED BY <1>1, <2>1, <2>2
<1> QED BY <1>2, <1>3

LEMMA WalkedEnds ==
  ASSUME NEW s \in Seq(Chars)
  PROVE  \A i \in 1..Terminator(s) + 1 :
           /\ Clean(color, Walked(s)[i].text)
           /\ Walked(s)[i].end \in Nat
           /\ Walked(s)[i].end > Terminator(s)
                => i > Terminator(s) \/ (color /\ OpenEscape(s))
<1> DEFINE T == Terminator(s)
           Fine(i) == /\ Clean(color, Walked(s)[i].text)
                      /\ Walked(s)[i].end \in Nat
                      /\ Walked(s)[i].end > T => i > T \/ (color /\ OpenEscape(s))
           bad == {d \in 0..T : ~Fine(T + 1 - d)}
<1>1. T \in Nat /\ Len(s) \in Nat /\ T = Len(s) + 1
  BY CharIs
<1>2. ASSUME NEW i \in Nat, i >= T PROVE Fine(i)
  <2>1. Walked(s)[i] = [text |-> <<>>, end |-> i]
    BY <1>2, WalkedIs DEF Over
  <2>2. Clean(color, <<>>)
    <3>1. <<>> \in Seq(Printable)
      OBVIOUS
    <3> QED BY <3>1, PrintableClean
  <2>3. i > T \/ ~(i > T)
    OBVIOUS
  <2> QED BY <2>1, <2>2
<1>3. bad = {}
  <2> SUFFICES ASSUME bad # {} PROVE FALSE
    OBVIOUS
  <2>1. bad \in SUBSET Nat
    BY <1>1
  <2>2. PICK d \in bad : \A c \in bad : d <= c
    <3> HIDE DEF bad
    <3> QED BY <2>1, LeastNat
  <2> DEFINE i == T + 1 - d
  <2>3. d \in 0..T /\ ~Fine(i)
    BY <2>2
  <2>4. i \in Nat /\ i >= 1 /\ i <= T + 1
    BY <1>1, <2>3
  <2> HIDE DEF Fine
  <2>5. i < T
    BY <1>1, <1>2, <2>3, <2>4
  <2>6. i \in 1..Len(s)
    BY <1>1, <2>4, <2>5
  <2> DEFINE here == Here(s, i)
             rest == Walked(s)[i + here.count]
  <2>7. /\ here.count \in Nat \ {0} /\ i + here.count <= T + 1
        /\ i + here.count > T => color /\ OpenEscape(s)
        /\ Clean(color, here.text)
    BY <2>6, HereIs
  <2>8. Walked(s)[i] = [text |-> here.text \o rest.text, end |-> rest.end]
    <3>1. ~Over(s, i) /\ i \in Nat
      BY <1>1, <2>4, <2>5 DEF Over
    <3> HIDE DEF i
    <3> QED BY <3>1, WalkedIs
  <2>9. Fine(i + here.count)
    <3> DEFINE c == here.count
    <3>1. c \in Nat \ {0} /\ i + c <= T + 1
      BY <2>7
    <3> HIDE DEF c, here
    <3>2. d - c \in 0..T /\ ~(d <= d - c) /\ T + 1 - (d - c) = i + c
      BY <1>1, <2>3, <3>1
    <3>3. d - c \notin bad
      BY <2>2, <3>2
    <3>4. Fine(T + 1 - (d - c))
      BY <3>2, <3>3
    <3> QED BY <3>2, <3>4 DEF c
  <2>10. /\ Clean(color, rest.text) /\ rest.end \in Nat
         /\ rest.end > T => i + here.count > T \/ (color /\ OpenEscape(s))
    BY <2>9 DEF Fine
  <2> HIDE DEF i, rest, here
  <2>11. Clean(color, here.text \o rest.text)
    BY <2>7, <2>10, CleanJoin
  <2>12. Fine(i)
    BY <2>7, <2>8, <2>10, <2>11 DEF Fine
  <2> QED BY <2>3, <2>12 DEF i
<1>4. ASSUME NEW i \in 1..T + 1 PROVE Fine(i)
  <2>1. T + 1 - i \in 0..T /\ T + 1 - (T + 1 - i) = i
    BY <1>1
  <2> HIDE DEF Fine
  <2>2. Fine(T + 1 - (T + 1 - i))
    BY <1>3, <2>1
  <2> QED BY <2>1, <2>2
<1> QED BY <1>4

(* UnityPrint, for every string: clean text, and the end of its walk.      *)
LEMMA UnityPrintEnds ==
  ASSUME NEW s, s \in Seq(Chars) \/ s = NULL
  PROVE  /\ Clean(color, UnityPrint(s).text)
         /\ UnityPrint(s).end \in Nat
         /\ s \in Seq(Chars) /\ UnityPrint(s).end > Terminator(s) => color /\ OpenEscape(s)
<1>1. CASE s = NULL
  <2>1. UnityPrint(s) = [text |-> <<>>, end |-> 0]
    BY <1>1, UnityPrintIs
  <2>2. Clean(color, <<>>)
    <3>1. <<>> \in Seq(Printable)
      OBVIOUS
    <3> QED BY <3>1, PrintableClean
  <2>3. s \in Seq(Chars) => ~(0 > Terminator(s))
    <3>1. s \in Seq(Chars) => Terminator(s) \in Nat
      BY CharIs
    <3> QED BY <3>1
  <2> QED BY <2>1, <2>2, <2>3
<1>2. CASE s # NULL
  <2>1. s \in Seq(Chars) /\ UnityPrint(s) = Walked(s)[1]
    BY <1>2, UnityPrintIs
  <2>2. Terminator(s) \in Nat /\ 1 <= Terminator(s)
    <3>1. Len(s) \in Nat /\ Terminator(s) = Len(s) + 1
      BY <2>1, CharIs
    <3> QED BY <3>1
  <2>3. 1 \in 1..Terminator(s) + 1 /\ ~(1 > Terminator(s))
    BY <2>2
  <2> QED BY <2>1, <2>3, WalkedEnds
<1> QED BY <1>1, <1>2

-----------------------------------------------------------------------------
(* Formats.                                                                *)

LEMMA UnsignedPrintable ==
  ASSUME NEW v \in 0..Modulus(IntBytes) - 1
  PROVE  UnityPrintNumberUnsigned(v) \in Seq(Printable)
<1>1. UnityPrintNumberUnsigned(v) \in Seq(48..57)
  BY DecimalIs
<1>2. 48..57 \subseteq Printable
  BY DEF Printable
<1> QED BY <1>1, <1>2, SeqWider

LEMMA NumberPrintable ==
  ASSUME NEW v \in UNITY_INT
  PROVE  UnityPrintNumber(v) \in Seq(Printable)
<1>1. CASE v < 0
  <2> DEFINE s == UnityPrintNumberUnsigned(-v)
  <2>1. ToUnsigned(-v, IntBytes) = -v /\ -v \in 0..Modulus(IntBytes) - 1
    BY <1>1, UnityInt
  <2>2. s \in Seq(Printable) /\ <<Minus>> \in Seq(Printable)
    BY <2>1, UnsignedPrintable DEF Minus, Printable
  <2>3. UnityPrintNumber(v) = <<Minus>> \o s
    BY <1>1, <2>1 DEF UnityPrintNumber
  <2> HIDE DEF s
  <2> QED BY <2>2, <2>3, SequenceJoin
<1>2. CASE ~(v < 0)
  <2>1. v \in 0..Modulus(IntBytes) - 1
    <3>1. v \in Int /\ v >= 0
      BY <1>2, UnityInt
    <3> QED BY <3>1, UnityInt
  <2> QED BY <1>2, <2>1, UnsignedPrintable DEF UnityPrintNumber
<1> QED BY <1>1, <1>2

LEMMA MaskPrintable ==
  ASSUME NEW m \in Int, NEW v \in Int
  PROVE  UnityPrintMask(m, v) \in Seq(Printable)
<1> DEFINE width == Bits(IntWidth)
           At(i) == IF BitOf(m, width - i) = 0 THEN LetterX ELSE Zero + BitOf(v, width - i)
<1>1. width \in Nat /\ width <= Bits(IntBytes)
  BY BitsOf, NumbersAssumption
<1>2. UnityPrintMask(m, v) = [i \in 1..width |-> At(i)]
  BY DEF UnityPrintMask
<1> HIDE DEF width
<1>3. ASSUME NEW i \in 1..width PROVE At(i) \in Printable
  <2>1. width - i \in Places
    BY <1>1, BitsMax DEF Places
  <2>2. BitOf(v, width - i) \in {0, 1}
    BY <2>1, BitIs
  <2> QED BY <2>2 DEF Zero, LetterX, Printable
<1> HIDE DEF At
<1> QED BY <1>1, <1>2, <1>3

LEMMA WidthIs ==
  ASSUME NEW type, NEW v \in Int
  PROVE  /\ Width(type) \in 1..IntBytes
         /\ ToSigned(v, Width(type)) \in UNITY_INT
         /\ ToUnsigned(v, Width(type)) \in 0..Modulus(IntBytes) - 1
<1> DEFINE w == Width(type)
<1>1. w \in 1..IntBytes /\ IntBytes \in 1..IntBytes /\ w <= IntBytes
  BY NumbersAssumption DEF Width
<1> HIDE DEF w
<1>2. /\ Modulus(w) \in Nat \ {0} /\ Half(w) \in Nat \ {0} /\ Modulus(w) = 2 * Half(w)
      /\ Modulus(IntBytes) \in Nat \ {0} /\ Half(IntBytes) \in Nat \ {0}
      /\ Modulus(IntBytes) = 2 * Half(IntBytes) /\ Modulus(w) <= Modulus(IntBytes)
  BY <1>1, ModulusIs
<1>3. ToSigned(v, w) \in -Half(w)..Half(w) - 1
  BY <1>1, SignedIs
<1>4. ToUnsigned(v, w) \in 0..Modulus(w) - 1
  BY <1>1, UnsignedIs
<1>5. ToSigned(v, w) \in -Half(IntBytes)..Half(IntBytes) - 1
  BY <1>2, <1>3
<1>6. ToUnsigned(v, w) \in 0..Modulus(IntBytes) - 1
  BY <1>2, <1>4
<1> QED BY <1>1, <1>5, <1>6, UnityInt DEF w

LEMMA PrintUnsignedPrintable ==
  ASSUME NEW c \in Unsigned \cup {Pointer}, NEW u \in 0..Modulus(IntBytes) - 1
  PROVE  PrintUnsigned(c, u) \in Seq(Printable)
<1>1. u \in Nat /\ Modulus(IntBytes) \in Nat
  <2>1. IntBytes \in 1..IntBytes
    BY NumbersAssumption
  <2>2. Modulus(IntBytes) \in Nat
    BY <2>1, ModulusIs
  <2> QED BY <2>2
<1>2. CASE c = 117
  <2>1. PrintUnsigned(c, u) = UnityPrintNumberUnsigned(u)
    BY <1>2 DEF PrintUnsigned, Pointer
  <2> QED BY <2>1, UnsignedPrintable
<1>3. CASE c = 98
  <2> DEFINE s == UnityPrintMask(2^Bits(IntBytes) - 1, u)
  <2>1. 2^Bits(IntBytes) - 1 \in Int
    BY <1>1 DEF Modulus
  <2>2. s \in Seq(Printable) /\ <<Zero, 98>> \in Seq(Printable)
    BY <1>1, <2>1, MaskPrintable DEF Zero, Printable
  <2>3. PrintUnsigned(c, u) = <<Zero, 98>> \o s
    BY <1>3 DEF PrintUnsigned, Pointer
  <2> HIDE DEF s
  <2> QED BY <2>2, <2>3, SequenceJoin
<1>4. CASE c \in {120, 88, 112}
  <2> DEFINE s == UnityPrintNumberHex(u, 8)
  <2>1. s \in Seq(Printable) /\ <<Zero, 120>> \in Seq(Printable)
    BY <1>1, HexPrintable DEF Zero, Printable
  <2>2. PrintUnsigned(c, u) = <<Zero, 120>> \o s
    BY <1>4 DEF PrintUnsigned, Pointer
  <2> HIDE DEF s
  <2> QED BY <2>1, <2>2, SequenceJoin
<1>5. c \in {117, 98, 120, 88, 112}
  BY DEF Unsigned, Pointer
<1> QED BY <1>2, <1>3, <1>4, <1>5

(* Whatever the letter of a directive, what is printed for it is clean.    *)
LEMMA ConvertClean ==
  ASSUME NEW c \in Int, NEW type, Convert(c, type)
  PROVE  Clean(color, out')
<1>1. Ints \subseteq Int /\ Strings \ {NULL} \subseteq Seq(Chars)
  BY TextAssumption DEF Chars
<1>2. ASSUME NEW k \in Int PROVE ToSigned(k, 1) \in Int
  <2>1. 1 \in 1..IntBytes
    BY NumbersAssumption
  <2> QED BY <2>1, SignedIs
<1>3. IntWidth \in 1..IntBytes /\ Width("int") = IntWidth
  BY NumbersAssumption DEF Width
<1>4. CASE \E n_0 \in Ints : out' = UnityPrintNumber(ToSigned(n_0, Width(type)))
  BY <1>1, <1>4, WidthIs, NumberPrintable, PrintableClean
<1>5. CASE c \in Unsigned
           /\ \E n_0 \in Ints : out' = PrintUnsigned(c, ToUnsigned(n_0, Width(type)))
  BY <1>1, <1>5, WidthIs, PrintUnsignedPrintable, PrintableClean
<1>6. CASE c = Pointer
           /\ \E n_0 \in Ints : out' = PrintUnsigned(c, ToUnsigned(n_0, IntWidth))
  BY <1>1, <1>3, <1>6, WidthIs, PrintUnsignedPrintable, PrintableClean
<1>7. CASE out' = <<>>
  <2>1. <<>> \in Seq(Printable)
    OBVIOUS
  <2> QED BY <1>7, <2>1, PrintableClean
<1>8. CASE \E n_0 \in Ints : out' = PrintCharacter(ToSigned(n_0, 1))
  BY <1>1, <1>2, <1>8, CharacterPrintable, PrintableClean
<1>9. CASE \E s \in Strings : out' = UnityPrint(s).text
  <2>1. PICK s \in Strings : out' = UnityPrint(s).text
    BY <1>9
  <2>2. s \in Seq(Chars) \/ s = NULL
    BY <1>1
  <2> QED BY <2>1, <2>2, UnityPrintEnds
<1>10. CASE out' = PrintCharacter(c)
  BY <1>10, CharacterPrintable, PrintableClean
<1>11. CASE out' = <<Percent>> \o PrintCharacter(c)
  <2>1. <<Percent>> \in Seq(Printable)
    BY DEF Percent, Printable
  <2>2. PrintCharacter(c) \in Seq(Printable)
    BY CharacterPrintable
  <2>3. <<Percent>> \o PrintCharacter(c) \in Seq(Printable)
    BY <2>1, <2>2, SequenceJoin
  <2> QED BY <1>11, <2>3, PrintableClean
<1> QED BY <1>4, <1>5, <1>6, <1>7, <1>8, <1>9, <1>10, <1>11 DEF Convert

(* The length modifier that begins with the characters c and d.            *)
\* The modifiers that Unity skips.
Ignored == {LetterJ, LetterZ, LetterT, CapitalL}

ModifierOf(c, d) ==
  LET doubled == d = c
  IN  CASE c = LetterL /\ doubled  -> [type |-> "long long", length |-> 2]
        [] c = LetterL /\ ~doubled -> [type |-> "long", length |-> 1]
        [] c = LetterH -> [type |-> "int", length |-> IF doubled THEN 2 ELSE 1]
        [] c \in Ignored -> [type |-> "int", length |-> 1]
        [] OTHER -> [type |-> "int", length |-> 0]

LEMMA ModifierCases ==
  ASSUME NEW c \in Int, NEW d \in Int
  PROVE  /\ c = LetterL /\ d = c => ModifierOf(c, d) = [type |-> "long long", length |-> 2]
         /\ c = LetterL /\ d # c => ModifierOf(c, d) = [type |-> "long", length |-> 1]
         /\ c = LetterH /\ d = c => ModifierOf(c, d) = [type |-> "int", length |-> 2]
         /\ c = LetterH /\ d # c => ModifierOf(c, d) = [type |-> "int", length |-> 1]
         /\ c \in Ignored => ModifierOf(c, d) = [type |-> "int", length |-> 1]
         /\ c \notin {LetterL, LetterH} \cup Ignored =>
              ModifierOf(c, d) = [type |-> "int", length |-> 0]
<1>0. LetterH # LetterL /\ LetterH \notin Ignored /\ LetterL \notin Ignored
  BY DEF LetterL, LetterH, Ignored, LetterJ, LetterZ, LetterT, CapitalL
<1>1. ASSUME c = LetterL, d = c PROVE ModifierOf(c, d) = [type |-> "long long", length |-> 2]
  BY <1>0, <1>1, Zenon DEF ModifierOf
<1>2. ASSUME c = LetterL, d # c PROVE ModifierOf(c, d) = [type |-> "long", length |-> 1]
  BY <1>0, <1>2, Zenon DEF ModifierOf
<1>3. ASSUME c = LetterH, d = c PROVE ModifierOf(c, d) = [type |-> "int", length |-> 2]
  BY <1>0, <1>3, Zenon DEF ModifierOf
<1>4. ASSUME c = LetterH, d # c PROVE ModifierOf(c, d) = [type |-> "int", length |-> 1]
  BY <1>0, <1>4, Zenon DEF ModifierOf
<1>5. ASSUME c \in Ignored PROVE ModifierOf(c, d) = [type |-> "int", length |-> 1]
  BY <1>0, <1>5, Zenon DEF ModifierOf
<1>6. ASSUME c \notin {LetterL, LetterH} \cup Ignored
      PROVE  ModifierOf(c, d) = [type |-> "int", length |-> 0]
  BY <1>6 DEF ModifierOf
<1> QED BY <1>1, <1>2, <1>3, <1>4, <1>5, <1>6

LEMMA ModifierAt ==
  ASSUME NEW s, NEW i
  PROVE  UnityLengthModifierGet(s, i) = ModifierOf(CharAt(s, i), CharAt(s, i + 1))
BY DEF UnityLengthModifierGet, ModifierOf, Ignored

LEMMA ModifierLength ==
  ASSUME NEW c \in Int, NEW d \in Int
  PROVE  \/ ModifierOf(c, d).length = 2 /\ c # 0 /\ d # 0
         \/ ModifierOf(c, d).length = 1 /\ c # 0
         \/ ModifierOf(c, d).length = 0
<1>1. ASSUME NEW mod, NEW type, mod = [type |-> type, length |-> 2] PROVE mod.length = 2
  BY <1>1
<1>2. ASSUME NEW mod, NEW type, mod = [type |-> type, length |-> 1] PROVE mod.length = 1
  BY <1>2
<1>3. ASSUME NEW mod, NEW type, mod = [type |-> type, length |-> 0] PROVE mod.length = 0
  BY <1>3
<1>4. CASE c = LetterL /\ d = c
  <2>1. ModifierOf(c, d).length = 2
    BY <1>1, <1>4, ModifierCases, Zenon
  <2> QED BY <1>4, <2>1 DEF LetterL
<1>5. CASE c = LetterL /\ d # c
  <2>1. ModifierOf(c, d).length = 1
    BY <1>2, <1>5, ModifierCases, Zenon
  <2> QED BY <1>5, <2>1 DEF LetterL
<1>6. CASE c = LetterH /\ d = c
  <2>1. ModifierOf(c, d).length = 2
    BY <1>1, <1>6, ModifierCases, Zenon
  <2> QED BY <1>6, <2>1 DEF LetterH
<1>7. CASE c = LetterH /\ d # c
  <2>1. ModifierOf(c, d).length = 1
    BY <1>2, <1>7, ModifierCases, Zenon
  <2> QED BY <1>7, <2>1 DEF LetterH
<1>8. CASE c \in Ignored
  <2>1. ModifierOf(c, d).length = 1
    BY <1>2, <1>8, ModifierCases, Zenon
  <2>2. c # 0
    BY <1>8 DEF Ignored, LetterJ, LetterZ, LetterT, CapitalL
  <2> QED BY <2>1, <2>2
<1>9. CASE c \notin {LetterL, LetterH} \cup Ignored
  BY <1>3, <1>9, ModifierCases, Zenon
<1> QED BY <1>4, <1>5, <1>6, <1>7, <1>8, <1>9

(* A length modifier lies before the terminator.                           *)
LEMMA ModifierIs ==
  ASSUME NEW s \in Seq(Chars), NEW i \in 1..Len(s)
  PROVE  LET mod == UnityLengthModifierGet(s, i + 1)
         IN  mod.length \in 0..2 /\ i + 1 + mod.length <= Terminator(s)
<1> DEFINE c == CharAt(s, i + 1)
           d == CharAt(s, i + 2)
           mod == UnityLengthModifierGet(s, i + 1)
<1>1. /\ i \in Nat \ {0} /\ i + 1 \in Nat \ {0} /\ i + 2 \in Nat \ {0} /\ Len(s) \in Nat
      /\ i + 1 + 1 = i + 2 /\ i <= Len(s)
  OBVIOUS
<1>2. /\ c # 0 => i + 1 <= Len(s)
      /\ d # 0 => i + 2 <= Len(s)
      /\ Terminator(s) = Len(s) + 1
      /\ c \in Int /\ d \in Int
  BY <1>1, CharIs
<1>3. mod = ModifierOf(c, d)
  BY <1>1, ModifierAt
<1> HIDE DEF c, d, mod
<1>4. \/ mod.length = 2 /\ c # 0 /\ d # 0
      \/ mod.length = 1 /\ c # 0
      \/ mod.length = 0
  BY <1>2, <1>3, ModifierLength
<1>5. mod.length \in 0..2 /\ i + 1 + mod.length <= Terminator(s)
  BY <1>1, <1>2, <1>4
<1> QED BY <1>5 DEF mod

-----------------------------------------------------------------------------
(* Where the cursors stop, and what reaches the terminal.                  *)

TextInv ==
  /\ string \in Seq(Chars)
  /\ pch \in Nat
  /\ routine = "UnityPrintFVA" => pch # 0
  /\ pch > Terminator(string) => Unfinished(string)
  /\ Clean(color, out) \/ out = <<Newline>>

LEMMA EmptyClean == \A colors : Clean(colors, <<>>)
<1>1. <<>> \in Seq(Printable)
  OBVIOUS
<1> QED BY <1>1, PrintableClean

LEMMA TextInitInv == PrintersInit => TextInv
<1>1. CASE NoText
  <2>1. <<>> \in Seq(Chars) /\ Terminator(<<>>) = 1
    BY DEF Terminator
  <2> QED BY <1>1, <2>1, EmptyClean, TextAssumption DEF NoText, TextInv
<1>2. CASE TextInit
  <2>1. string \in Seq(Chars)
    <3>1. PICK m \in 0..MaxLength : string \in [1..m -> Alphabet]
      BY <1>2 DEF TextInit, BoundedSeq, SeqOf
    <3>2. Alphabet \subseteq Chars
      BY TextAssumption DEF Chars
    <3>3. m \in Nat
      BY TextAssumption
    <3> QED BY <3>1, <3>2, <3>3
  <2>2. Terminator(string) \in Nat /\ Terminator(string) >= 1
    <3>1. Len(string) \in Nat /\ Terminator(string) = Len(string) + 1
      BY <2>1, CharIs
    <3> QED BY <3>1
  <2>3. \/ routine = "UnityPrint" /\ pch = 0
        \/ routine = "UnityPrintFVA" /\ pch = 1
    BY <1>2 DEF TextInit
  <2>4. out = <<>>
    BY <1>2 DEF TextInit
  <2>5. pch \in Nat /\ (routine = "UnityPrintFVA" => pch # 0) /\ ~(pch > Terminator(string))
    BY <2>2, <2>3
  <2> QED BY <2>1, <2>4, <2>5, EmptyClean DEF TextInv
<1> QED BY <1>1, <1>2 DEF PrintersInit

LEMMA UnfinishedSame ==
  ASSUME string' = string, color' = color, routine' = routine
  PROVE  /\ Terminator(string)' = Terminator(string)
         /\ Unfinished(string)' = Unfinished(string)
         /\ \A t : Clean(color, t)' = Clean(color, t)
BY DEF Unfinished, Clean, Terminator

LEMMA PrintStep == TextInv /\ CallUnityPrint => TextInv'
<1> SUFFICES ASSUME TextInv, CallUnityPrint PROVE TextInv'
  OBVIOUS
<1>1. /\ string' = string /\ color' = color /\ routine' = routine
      /\ out' = UnityPrint(string).text /\ pch' = UnityPrint(string).end
      /\ routine = "UnityPrint"
  BY DEF CallUnityPrint
<1>2. string \in Seq(Chars)
  BY DEF TextInv
<1>3. /\ Clean(color, UnityPrint(string).text) /\ UnityPrint(string).end \in Nat
      /\ UnityPrint(string).end > Terminator(string) => color /\ OpenEscape(string)
  BY <1>2, UnityPrintEnds
<1>4. color /\ OpenEscape(string) => Unfinished(string)
  BY DEF OpenEscape, Unfinished
<1>5. pch' > Terminator(string)' => Unfinished(string)'
  BY <1>1, <1>3, <1>4, UnfinishedSame
<1>6. Clean(color', out')
  BY <1>1, <1>3
<1> QED BY <1>1, <1>2, <1>3, <1>5, <1>6 DEF TextInv

(* The loop of UnityPrintFVA is within the string.                         *)
LEMMA FormattingIs ==
  ASSUME TextInv, Formatting
  PROVE  /\ string' = string /\ color' = color /\ routine' = routine
         /\ routine = "UnityPrintFVA"
         /\ string \in Seq(Chars) /\ pch \in 1..Len(string) /\ string[pch] \in Int
<1>1. string \in Seq(Chars) /\ pch \in Nat \ {0} /\ ~(pch >= Terminator(string))
  BY DEF TextInv, Formatting, Over
<1>2. Len(string) \in Nat /\ Terminator(string) = Len(string) + 1
  BY <1>1, CharIs
<1>3. pch \in 1..Len(string)
  BY <1>1, <1>2
<1>4. string[pch] \in Chars
  BY <1>1, <1>3
<1>5. string[pch] \in Int
  BY <1>4 DEF Chars
<1>6. /\ string' = string /\ color' = color /\ routine' = routine
      /\ routine = "UnityPrintFVA"
  BY DEF Formatting
<1> QED BY <1>1, <1>3, <1>5, <1>6

LEMMA DirectiveStep == TextInv /\ FormatDirective => TextInv'
<1> SUFFICES ASSUME TextInv, FormatDirective PROVE TextInv'
  OBVIOUS
<1>1. /\ string' = string /\ color' = color /\ routine' = routine
      /\ string \in Seq(Chars) /\ pch \in 1..Len(string) /\ routine = "UnityPrintFVA"
  BY FormattingIs DEF FormatDirective
<1> DEFINE mod == UnityLengthModifierGet(string, pch + 1)
           length == mod.length
           letter == pch + 1 + length
           c == CharAt(string, letter)
<1>2. string[pch] = Percent /\ Convert(c, mod.type) /\ pch' = letter + 1
  BY DEF FormatDirective
<1>3. length \in 0..2 /\ letter <= Terminator(string)
  BY <1>1, ModifierIs
<1>4. /\ pch \in Nat \ {0} /\ letter \in Nat \ {0} /\ Len(string) \in Nat
      /\ Terminator(string) = Len(string) + 1
  <2>1. pch \in Nat \ {0}
    BY <1>1
  <2>2. Len(string) \in Nat /\ Terminator(string) = Len(string) + 1
    BY <1>1, <2>1, CharIs
  <2> HIDE DEF length
  <2>3. letter \in Nat \ {0}
    BY <1>3, <2>1
  <2> QED BY <2>1, <2>2, <2>3
<1> HIDE DEF letter
<1>5. Clean(color, out')
  <2>1. c \in Int
    BY <1>1, <1>4, CharIs
  <2> HIDE DEF c, mod
  <2> QED BY <1>2, <2>1, ConvertClean
<1>6. letter + 1 > Terminator(string) => Unfinished(string)
  <2> SUFFICES ASSUME letter + 1 > Terminator(string) PROVE Unfinished(string)
    OBVIOUS
  <2>1. letter = Len(string) + 1
    BY <1>3, <1>4
  <2>2. pch + length = Len(string)
    <3> HIDE DEF length
    <3> QED BY <1>3, <1>4, <2>1 DEF letter
  <2>3. pch \in DOMAIN string
    BY <1>1
  <2> QED BY <1>1, <1>2, <2>2, <2>3 DEF Unfinished
<1> HIDE DEF c, mod, length
<1>7. pch' > Terminator(string)' => Unfinished(string)'
  BY <1>1, <1>2, <1>6, UnfinishedSame
<1>8. pch' \in Nat /\ pch' # 0
  BY <1>2, <1>4
<1> QED BY <1>1, <1>5, <1>7, <1>8 DEF TextInv

LEMMA FormatTextStep == TextInv /\ FormatText => TextInv'
<1> SUFFICES ASSUME TextInv, FormatText PROVE TextInv'
  OBVIOUS
<1>1. /\ string' = string /\ color' = color /\ routine' = routine
      /\ string \in Seq(Chars) /\ pch \in 1..Len(string) /\ routine = "UnityPrintFVA"
  BY FormattingIs DEF FormatText
<1>2. /\ Here(string, pch).count \in Nat \ {0}
      /\ pch + Here(string, pch).count > Terminator(string) => color /\ OpenEscape(string)
      /\ Clean(color, Here(string, pch).text)
  BY <1>1, HereIs
<1>3. \/ out' = Here(string, pch).text /\ pch' = pch + Here(string, pch).count
      \/ out' = <<Newline>> /\ pch' = pch + 1
  <2>1. CASE AtEscape(string, pch)
    BY <2>1 DEF FormatText, Here
  <2>2. CASE ~AtEscape(string, pch) /\ string[pch] = Newline
    BY <2>2 DEF FormatText
  <2>3. CASE ~AtEscape(string, pch) /\ string[pch] # Newline
    BY <2>3 DEF FormatText, Here
  <2> QED BY <2>1, <2>2, <2>3
<1>4. color /\ OpenEscape(string) => Unfinished(string)
  BY DEF OpenEscape, Unfinished
<1>5. /\ pch \in Nat \ {0} /\ Terminator(string) \in Nat
      /\ pch + 1 <= Terminator(string)
  <2>1. pch \in Nat \ {0} /\ pch <= Len(string) /\ Len(string) \in Nat
    BY <1>1
  <2>2. Terminator(string) = Len(string) + 1
    BY <1>1, CharIs, <2>1
  <2> QED BY <2>1, <2>2
<1> DEFINE count == Here(string, pch).count
<1>6. count \in Nat \ {0} /\ (pch' = pch + count \/ pch' = pch + 1)
  BY <1>2, <1>3
<1>7. pch' > Terminator(string) => pch' = pch + count
  BY <1>5, <1>6
<1>8. pch' > Terminator(string)' => Unfinished(string)'
  BY <1>1, <1>2, <1>4, <1>7, UnfinishedSame
<1> HIDE DEF count
<1>9. pch' \in Nat /\ pch' # 0
  BY <1>5, <1>6
<1>10. Clean(color', out') \/ out' = <<Newline>>
  BY <1>1, <1>2, <1>3
<1> QED BY <1>1, <1>8, <1>9, <1>10 DEF TextInv

LEMMA TextStep == TextInv /\ [PrintersNext]_printer_vars => TextInv'
<1> SUFFICES ASSUME TextInv, [PrintersNext]_printer_vars PROVE TextInv'
  OBVIOUS
<1>1. CASE TextNext
  BY <1>1, PrintStep, DirectiveStep, FormatTextStep DEF TextNext
<1>2. CASE UNCHANGED text_vars
  <2>1. /\ string' = string /\ color' = color /\ routine' = routine
        /\ pch' = pch /\ out' = out
    BY <1>2 DEF text_vars
  <2> QED BY <2>1, UnfinishedSame DEF TextInv
<1> QED BY <1>1, <1>2 DEF PrintersNext, printer_vars

LEMMA TextInvHolds == PrintersSpec => []TextInv
BY TextInitInv, TextStep, PTL DEF PrintersSpec

(* The cursor of UnityPrint and of UnityPrintFVA stops at the terminator,  *)
(* unless the string ends in the middle of a directive or of an escape     *)
(* sequence.                                                               *)
THEOREM StopsAtTerminatorHolds == PrintersSpec => []StopsAtTerminator
<1>1. TextInv => StopsAtTerminator
  BY DEF TextInv, StopsAtTerminator
<1> QED BY <1>1, TextInvHolds, PTL

(* What UnityPrint and UnityPrintFVA print is printable, but for line ends *)
(* and what follows the escape character of a colour.                      *)
THEOREM OnlyPrintableHolds == PrintersSpec => []OnlyPrintable
<1>1. TextInv => OnlyPrintable
  <2> SUFFICES ASSUME TextInv, NEW i \in DOMAIN out, out # <<Newline>>
               PROVE  out[i] \in Printable \/ (color /\ Escape \in {out[k] : k \in 1..i})
    BY DEF OnlyPrintable
  <2>1. out \in Seq(Int) /\ Clean(color, out)
    BY DEF TextInv, Clean
  <2>2. i \in 1..Len(out)
    BY <2>1
  <2> QED BY <2>1, <2>2 DEF Clean
<1> QED BY <1>1, TextInvHolds, PTL

-----------------------------------------------------------------------------
(* Directives.                                                             *)

Letters == Signed \cup Unsigned \cup {102, 103, Character, StringLetter, Pointer, Percent}

IntegerLetters == Signed \cup Unsigned

\* The integer types Unity knows, and all the types it takes.
Sizes == {"int", "long", "long long"}
Types ==
  Sizes \cup {"unsigned int", "unsigned long", "unsigned long long", "double", "string"}

\* What a conversion letter takes, given the type its modifier stands for.
TakenFor(c, type) ==
  CASE c \in Signed       -> <<type>>
    [] c \in Unsigned     -> <<UnsignedOf(type)>>
    [] c \in Floating     -> <<"double">>
    [] c = Character      -> <<"int">>
    [] c = StringLetter   -> <<"string">>
    [] c = Pointer        -> <<"unsigned int">>
    [] c = Percent        -> <<>>

LEMMA LettersAre ==
  /\ Letters = {100, 105, 117, 98, 120, 88, 102, 103, 99, 115, 112, 37}
  /\ IntegerLetters = {100, 105, 117, 98, 120, 88}
BY DEF Letters, IntegerLetters, Signed, Unsigned, Character, StringLetter, Pointer, Percent

LEMMA TakenForIs ==
  ASSUME NEW c \in Letters, NEW type
  PROVE  /\ c \in Signed => TakenFor(c, type) = <<type>>
         /\ c \in Unsigned => TakenFor(c, type) = <<UnsignedOf(type)>>
         /\ c \in Floating => TakenFor(c, type) = <<"double">>
         /\ c = Character => TakenFor(c, type) = <<"int">>
         /\ c = StringLetter => TakenFor(c, type) = <<"string">>
         /\ c = Pointer => TakenFor(c, type) = <<"unsigned int">>
         /\ c = Percent => TakenFor(c, type) = <<>>
<1> DEFINE Signs == c \in Signed
           Unsigns == c \in Unsigned
           Floats == c \in Floating
<1>1. /\ Unsigns => ~Signs
      /\ Floats => ~Signs /\ ~Unsigns
      /\ c = Character => ~Signs /\ ~Unsigns /\ ~Floats
      /\ c = StringLetter => ~Signs /\ ~Unsigns /\ ~Floats /\ c # Character
      /\ c = Pointer => ~Signs /\ ~Unsigns /\ ~Floats /\ c # Character /\ c # StringLetter
      /\ c = Percent => ~Signs /\ ~Unsigns /\ ~Floats /\ c # Character /\ c # StringLetter
                       /\ c # Pointer
  BY DEF Signed, Unsigned, Floating, Character, StringLetter, Pointer, Percent
<1>2. c \in Signed => TakenFor(c, type) = <<type>>
  BY <1>1, Zenon DEF TakenFor
<1>3. c \in Unsigned => TakenFor(c, type) = <<UnsignedOf(type)>>
  BY <1>1, Zenon DEF TakenFor
<1>4. c \in Floating => TakenFor(c, type) = <<"double">>
  BY <1>1, Zenon DEF TakenFor
<1>5. c = Character => TakenFor(c, type) = <<"int">>
  BY <1>1, Zenon DEF TakenFor
<1>6. c = StringLetter => TakenFor(c, type) = <<"string">>
  BY <1>1, Zenon DEF TakenFor
<1>7. c = Pointer => TakenFor(c, type) = <<"unsigned int">>
  BY <1>1, Zenon DEF TakenFor
<1>8. c = Percent => TakenFor(c, type) = <<>>
  BY <1>1, Zenon DEF TakenFor
<1> QED BY <1>2, <1>3, <1>4, <1>5, <1>6, <1>7, <1>8

LEMMA LetterKinds ==
  ASSUME NEW c \in Letters
  PROVE  \/ c \in Signed
         \/ c \in Unsigned
         \/ c \in Floating
         \/ c = Character
         \/ c = StringLetter
         \/ c = Pointer
         \/ c = Percent
BY DEF Letters, Floating

LEMMA Singleton ==
  ASSUME NEW S, NEW x \in S
  PROVE  <<x>> \in Seq(S) /\ <<>> \in Seq(S)
<1>1. <<x>> = [i \in 1..1 |-> x]
  OBVIOUS
<1> QED BY <1>1

LEMMA TakenForTyped ==
  ASSUME NEW c \in Letters, NEW type \in Sizes
  PROVE  TakenFor(c, type) \in Seq(Types)
<1>1. /\ type \in Types /\ UnsignedOf(type) \in Types
      /\ "double" \in Types /\ "int" \in Types /\ "string" \in Types
      /\ "unsigned int" \in Types
  BY DEF Types, Sizes, UnsignedOf
<1> QED BY <1>1, LetterKinds, TakenForIs, Singleton, Zenon

(* What UnityPrintFVA takes at a letter that C's printf knows.             *)
LEMMA ConvertTakes ==
  ASSUME NEW c \in Letters, NEW type, NEW S, taken \in Seq(S), Convert(c, type)
  PROVE  taken' = taken \o TakenFor(c, type)
<1>1. /\ c \in Signed => ~(c \in Unsigned \/ c \in Floating \/ c = Pointer
                            \/ c = Character \/ c = StringLetter \/ c = Percent)
      /\ c \in Unsigned => ~(c \in Signed \/ c \in Floating \/ c = Pointer
                            \/ c = Character \/ c = StringLetter \/ c = Percent)
      /\ c \in Floating => ~(c \in Signed \/ c \in Unsigned \/ c = Pointer
                            \/ c = Character \/ c = StringLetter \/ c = Percent)
      /\ c = Character => ~(c \in Signed \/ c \in Unsigned \/ c \in Floating \/ c = Pointer
                            \/ c = StringLetter \/ c = Percent)
      /\ c = StringLetter => ~(c \in Signed \/ c \in Unsigned \/ c \in Floating \/ c = Pointer
                            \/ c = Character \/ c = Percent)
      /\ c = Pointer => ~(c \in Signed \/ c \in Unsigned \/ c \in Floating
                            \/ c = Character \/ c = StringLetter \/ c = Percent)
      /\ c = Percent => ~(c \in Signed \/ c \in Unsigned \/ c \in Floating \/ c = Pointer
                            \/ c = Character \/ c = StringLetter)
  BY DEF Signed, Unsigned, Floating, Pointer, Character, StringLetter, Percent
<1>2. ASSUME NEW x PROVE Append(taken, x) = taken \o <<x>>
  OBVIOUS
<1>3. taken \o <<>> = taken
  OBVIOUS
<1>4. CASE c \in Signed
  <2>1. taken' = Append(taken, type)
    BY <1>1, <1>4, Zenon DEF Convert, Take
  <2> QED BY <1>2, <1>4, <2>1, TakenForIs, Zenon
<1>5. CASE c \in Unsigned
  <2>1. taken' = Append(taken, UnsignedOf(type))
    BY <1>1, <1>5, Zenon DEF Convert, Take
  <2>2. TakenFor(c, type) = <<UnsignedOf(type)>>
    BY <1>5, TakenForIs
  <2> DEFINE u == UnsignedOf(type)
  <2> HIDE DEF u
  <2>3. taken' = Append(taken, u) /\ TakenFor(c, type) = <<u>>
    BY <2>1, <2>2 DEF u
  <2> QED BY <1>2, <2>3
<1>6. CASE c \in Floating
  <2>1. taken' = Append(taken, "double")
    BY <1>1, <1>6, Zenon DEF Convert, Take
  <2> QED BY <1>2, <1>6, <2>1, TakenForIs, Zenon
<1>7. CASE c = Character
  <2>1. taken' = Append(taken, "int")
    BY <1>1, <1>7, Zenon DEF Convert, Take
  <2> QED BY <1>2, <1>7, <2>1, TakenForIs, Zenon
<1>8. CASE c = StringLetter
  <2>1. taken' = Append(taken, "string")
    BY <1>1, <1>8, Zenon DEF Convert, Take
  <2> QED BY <1>2, <1>8, <2>1, TakenForIs, Zenon
<1>9. CASE c = Percent
  <2>1. taken' = taken
    BY <1>1, <1>9, Zenon DEF Convert, Take
  <2> QED BY <1>3, <1>9, <2>1, TakenForIs, Zenon
<1>10. CASE c = Pointer
  <2>1. taken' = Append(taken, "unsigned int")
    BY <1>1, <1>10, Zenon DEF Convert, Take
  <2> QED BY <1>2, <1>10, <2>1, TakenForIs, Zenon
<1> QED BY <1>4, <1>5, <1>6, <1>7, <1>8, <1>9, <1>10, LetterKinds

\* A letter and one modifier that C's printf allows before it.
Allowed(m, c) ==
  \/ m \in {LetterH, LetterL, LetterJ, LetterZ, LetterT} /\ c \in IntegerLetters
  \/ m = LetterL /\ c \in Floating \cup {Character, StringLetter}
  \/ m = CapitalL /\ c \in Floating

OneModifier == {LetterH, LetterL, LetterJ, LetterZ, LetterT, CapitalL}

LEMMA Concatenated ==
  ASSUME NEW s \in Seq(Int), NEW t \in Seq(Int), NEW r \in Seq(Int), Len(r) = Len(s) + Len(t),
         \A k \in 1..Len(s) : r[k] = s[k], \A k \in 1..Len(t) : r[Len(s) + k] = t[k]
  PROVE  s \o t = r
<1>1. Len(s) \in Nat /\ Len(t) \in Nat /\ Len(s \o t) = Len(r) /\ s \o t \in Seq(Int)
  OBVIOUS
<1>2. ASSUME NEW k \in 1..Len(r) PROVE (s \o t)[k] = r[k]
  <2>1. CASE k <= Len(s)
    BY <1>1, <2>1
  <2>2. CASE k > Len(s)
    <3>1. k - Len(s) \in 1..Len(t) /\ Len(s) + (k - Len(s)) = k
      BY <1>1, <2>2
    <3>2. (s \o t)[k] = t[k - Len(s)]
      BY <1>1, <2>2
    <3> QED BY <3>1, <3>2
  <2> QED BY <1>1, <2>1, <2>2
<1> QED BY <1>1, <1>2

LEMMA Pairs ==
  ASSUME NEW x \in Int, NEW y \in Int
  PROVE  <<x>> \o <<>> = <<x>> /\ <<x>> \o <<y>> = <<x, y>>
<1>1. <<x>> \in Seq(Int) /\ <<y>> \in Seq(Int) /\ <<x, y>> \in Seq(Int)
  OBVIOUS
<1>2. Len(<<x, y>>) = Len(<<x>>) + Len(<<y>>) /\ \A k \in 1..Len(<<x>>) : <<x, y>>[k] = <<x>>[k]
  OBVIOUS
<1>3. \A k \in 1..Len(<<y>>) : <<x, y>>[Len(<<x>>) + k] = <<y>>[k]
  OBVIOUS
<1>4. <<x>> \o <<y>> = <<x, y>>
  BY <1>1, <1>2, <1>3, Concatenated
<1>5. <<x>> \o <<>> = <<x>>
  OBVIOUS
<1> QED BY <1>4, <1>5, Zenon

LEMMA Triples ==
  ASSUME NEW x \in Int, NEW y \in Int
  PROVE  /\ <<x>> \o <<>> \o <<y>> = <<x, y>>
         /\ \A z \in Int : <<x>> \o <<z>> \o <<y>> = <<x, z, y>>
         /\ \A z \in Int : <<x>> \o <<z, z>> \o <<y>> = <<x, z, z, y>>
<1>1. ASSUME NEW z \in Int PROVE <<x, z>> \o <<y>> = <<x, z, y>>
  <2>1. <<x, z>> \in Seq(Int) /\ <<y>> \in Seq(Int) /\ <<x, z, y>> \in Seq(Int)
    OBVIOUS
  <2>2. /\ Len(<<x, z, y>>) = Len(<<x, z>>) + Len(<<y>>)
        /\ \A k \in 1..Len(<<x, z>>) : <<x, z, y>>[k] = <<x, z>>[k]
    OBVIOUS
  <2>3. \A k \in 1..Len(<<y>>) : <<x, z, y>>[Len(<<x, z>>) + k] = <<y>>[k]
    OBVIOUS
  <2> QED BY <2>1, <2>2, <2>3, Concatenated
<1>2. ASSUME NEW z \in Int PROVE <<x>> \o <<z, z>> = <<x, z, z>>
  <2>1. <<x>> \in Seq(Int) /\ <<z, z>> \in Seq(Int) /\ <<x, z, z>> \in Seq(Int)
    OBVIOUS
  <2>2. /\ Len(<<x, z, z>>) = Len(<<x>>) + Len(<<z, z>>)
        /\ \A k \in 1..Len(<<x>>) : <<x, z, z>>[k] = <<x>>[k]
    OBVIOUS
  <2>3. \A k \in 1..Len(<<z, z>>) : <<x, z, z>>[Len(<<x>>) + k] = <<z, z>>[k]
    OBVIOUS
  <2> QED BY <2>1, <2>2, <2>3, Concatenated
<1>3. ASSUME NEW z \in Int PROVE <<x, z, z>> \o <<y>> = <<x, z, z, y>>
  <2>1. <<x, z, z>> \in Seq(Int) /\ <<y>> \in Seq(Int) /\ <<x, z, z, y>> \in Seq(Int)
    OBVIOUS
  <2>2. /\ Len(<<x, z, z, y>>) = Len(<<x, z, z>>) + Len(<<y>>)
        /\ \A k \in 1..Len(<<x, z, z>>) : <<x, z, z, y>>[k] = <<x, z, z>>[k]
    OBVIOUS
  <2>3. \A k \in 1..Len(<<y>>) : <<x, z, z, y>>[Len(<<x, z, z>>) + k] = <<y>>[k]
    OBVIOUS
  <2> QED BY <2>1, <2>2, <2>3, Concatenated
<1>4. \A z \in Int : <<x>> \o <<z>> = <<x, z>>
  BY Pairs, Zenon
<1> QED BY <1>1, <1>2, <1>3, <1>4, Pairs, Zenon

LEMMA DirectiveSplit ==
  ASSUME NEW d \in Directives
  PROVE  \/ \E m \in Modifiers, c \in IntegerLetters : d = <<Percent>> \o m \o <<c>>
         \/ \E m \in {<<>>, <<LetterL>>, <<CapitalL>>}, c \in Floating :
              d = <<Percent>> \o m \o <<c>>
         \/ \E m \in {<<>>, <<LetterL>>}, c \in {Character, StringLetter} :
              d = <<Percent>> \o m \o <<c>>
         \/ d \in {<<Percent, Pointer>>, <<Percent, Percent>>}
<1> DEFINE F(m, c) == <<Percent>> \o m \o <<c>>
           Whole == {F(m, c) : m \in Modifiers, c \in Signed \cup Unsigned}
           Floats == {F(m, c) : m \in {<<>>, <<LetterL>>, <<CapitalL>>}, c \in Floating}
           Texts == {F(m, c) : m \in {<<>>, <<LetterL>>}, c \in {Character, StringLetter}}
<1>1. Directives = Whole \cup Floats \cup Texts \cup {<<Percent, Pointer>>, <<Percent, Percent>>}
  BY DEF Directives
<1> HIDE DEF F
<1>2. d \in Whole => \E m \in Modifiers, c \in IntegerLetters : d = F(m, c)
  BY DEF IntegerLetters
<1>3. d \in Floats => \E m \in {<<>>, <<LetterL>>, <<CapitalL>>}, c \in Floating : d = F(m, c)
  OBVIOUS
<1>4. d \in Texts => \E m \in {<<>>, <<LetterL>>}, c \in {Character, StringLetter} : d = F(m, c)
  OBVIOUS
<1> HIDE DEF Whole, Floats, Texts
<1> QED BY <1>1, <1>2, <1>3, <1>4, Zenon DEF F

LEMMA DirectiveForms ==
  ASSUME NEW d \in Directives
  PROVE  \/ \E c \in Letters : d = <<Percent, c>>
         \/ \E c \in Letters, m \in OneModifier : d = <<Percent, m, c>> /\ Allowed(m, c)
         \/ \E c \in IntegerLetters, m \in {LetterH, LetterL} : d = <<Percent, m, m, c>>
<1> DEFINE Plain == {<<Percent, c>> : c \in Letters}
           Doubled == {<<Percent, m, m, c>> : m \in {LetterH, LetterL}, c \in IntegerLetters}
           Long == {<<Percent, m, c>> : m \in {LetterH, LetterL, LetterJ, LetterZ, LetterT},
                                        c \in IntegerLetters}
           LongFloat == {<<Percent, m, c>> : m \in {LetterL, CapitalL}, c \in Floating}
           Wide == {<<Percent, LetterL, c>> : c \in {Character, StringLetter}}
<1>1. /\ Percent \in Letters /\ Pointer \in Letters
      /\ Character \in Letters /\ StringLetter \in Letters
      /\ \A c \in IntegerLetters : c \in Letters
      /\ \A c \in Floating : c \in Letters
  BY DEF Letters, IntegerLetters, Floating
<1>2. ASSUME NEW x \in Int, NEW y \in Int
      PROVE  /\ <<x>> \o <<>> \o <<y>> = <<x, y>>
             /\ \A z \in Int : <<x>> \o <<z>> \o <<y>> = <<x, z, y>>
             /\ \A z \in Int : <<x>> \o <<z, z>> \o <<y>> = <<x, z, z, y>>
  BY Triples, Zenon
<1>3. /\ Percent \in Int /\ \A c \in Letters : c \in Int
      /\ LetterH \in Int /\ LetterL \in Int /\ LetterJ \in Int /\ LetterZ \in Int
      /\ LetterT \in Int /\ CapitalL \in Int
  BY LettersAre DEF Percent, LetterH, LetterL, LetterJ, LetterZ, LetterT, CapitalL
<1>4. d \in Plain \cup Doubled \cup Long \cup LongFloat \cup Wide
  <2>1. CASE \E m \in Modifiers, c \in IntegerLetters : d = <<Percent>> \o m \o <<c>>
    <3>1. PICK m \in Modifiers, c \in IntegerLetters : d = <<Percent>> \o m \o <<c>>
      BY <2>1
    <3>2. CASE m = <<>>
      <4>1. d = <<Percent, c>>
        BY <1>1, <1>2, <1>3, <3>1, <3>2, Zenon
      <4> QED BY <1>1, <4>1
    <3>3. CASE \E l \in {LetterH, LetterL, LetterJ, LetterZ, LetterT} : m = <<l>>
      <4>1. PICK l \in {LetterH, LetterL, LetterJ, LetterZ, LetterT} : m = <<l>>
        BY <3>3
      <4>2. d = <<Percent, l, c>>
        BY <1>1, <1>2, <1>3, <3>1, <4>1
      <4> QED BY <4>2
    <3>4. CASE \E l \in {LetterH, LetterL} : m = <<l, l>>
      <4>1. PICK l \in {LetterH, LetterL} : m = <<l, l>>
        BY <3>4
      <4>2. d = <<Percent, l, l, c>>
        BY <1>1, <1>2, <1>3, <3>1, <4>1
      <4> QED BY <4>2
    <3> QED BY <3>2, <3>3, <3>4 DEF Modifiers
  <2>2. CASE \E m \in {<<>>, <<LetterL>>, <<CapitalL>>}, c \in Floating :
               d = <<Percent>> \o m \o <<c>>
    <3>1. PICK m \in {<<>>, <<LetterL>>, <<CapitalL>>}, c \in Floating :
            d = <<Percent>> \o m \o <<c>>
      BY <2>2
    <3>2. d = <<Percent, c>> \/ d = <<Percent, LetterL, c>> \/ d = <<Percent, CapitalL, c>>
      BY <1>1, <1>2, <1>3, <3>1
    <3> QED BY <1>1, <3>2
  <2>3. CASE \E m \in {<<>>, <<LetterL>>}, c \in {Character, StringLetter} :
               d = <<Percent>> \o m \o <<c>>
    <3>1. PICK m \in {<<>>, <<LetterL>>}, c \in {Character, StringLetter} :
            d = <<Percent>> \o m \o <<c>>
      BY <2>3
    <3>2. d = <<Percent, c>> \/ d = <<Percent, LetterL, c>>
      BY <1>1, <1>2, <1>3, <3>1
    <3> QED BY <1>1, <3>2
  <2>4. CASE d \in {<<Percent, Pointer>>, <<Percent, Percent>>}
    BY <1>1, <2>4
  <2> HIDE DEF Plain, Doubled, Long, LongFloat, Wide
  <2> QED BY <2>1, <2>2, <2>3, <2>4, DirectiveSplit, Zenon
<1>5. d \in Plain => \E c \in Letters : d = <<Percent, c>>
  OBVIOUS
<1>6. d \in Long => \E c \in Letters, m \in OneModifier : d = <<Percent, m, c>> /\ Allowed(m, c)
  BY <1>1 DEF OneModifier, Allowed
<1>7. d \in LongFloat =>
        \E c \in Letters, m \in OneModifier : d = <<Percent, m, c>> /\ Allowed(m, c)
  BY <1>1 DEF OneModifier, Allowed
<1>8. d \in Wide => \E c \in Letters, m \in OneModifier : d = <<Percent, m, c>> /\ Allowed(m, c)
  BY <1>1 DEF OneModifier, Allowed
<1>9. d \in Doubled =>
        \E c \in IntegerLetters, m \in {LetterH, LetterL} : d = <<Percent, m, m, c>>
  OBVIOUS
<1> HIDE DEF Plain, Doubled, Long, LongFloat, Wide
<1> QED BY <1>4, <1>5, <1>6, <1>7, <1>8, <1>9

(* The characters of a directive are those of the string, where it is one. *)
LEMMA DirectiveHere ==
  ASSUME NEW s \in Seq(Chars), NEW i \in 1..Len(s), NEW d \in DirectiveAt(s, i), d \in Seq(Int),
         Len(d) > 0
  PROVE  /\ i + Len(d) - 1 <= Len(s)
         /\ \A k \in 1..Len(d) : s[i + k - 1] = d[k]
<1> DEFINE t == SubSeq(s, i, Len(s))
           L == Len(d)
           m == Len(s) - i + 1
<1>1. Len(s) \in Nat /\ i \in Nat \ {0} /\ m \in Nat /\ L \in Nat
  OBVIOUS
<1>2. t = [k \in 1..m |-> s[i + k - 1]] /\ Len(t) = m
  BY <1>1
<1>3. L <= Len(t) /\ SubSeq(d, 1, L) = SubSeq(t, 1, L)
  BY DEF DirectiveAt, IsPrefix
<1>4. SubSeq(d, 1, L) = d
  OBVIOUS
<1> HIDE DEF t, L, m
<1>5. ASSUME NEW k \in 1..L PROVE s[i + k - 1] = d[k]
  <2>1. k \in 1..m
    BY <1>1, <1>2, <1>3
  <2>2. t[k] = s[i + k - 1]
    BY <1>2, <2>1
  <2>3. SubSeq(t, 1, L)[k] = t[k]
    <3>1. SubSeq(t, 1, L) = [l \in 1..L |-> t[1 + l - 1]]
      BY <1>1
    <3> QED BY <3>1, <1>1
  <2> QED BY <1>3, <1>4, <2>2, <2>3
<1> QED BY <1>1, <1>2, <1>3, <1>5 DEF L, m

\* The type C takes for an integer after the modifier m.
IntegerOf(m) ==
  CASE m = <<LetterL>>          -> "long"
    [] m = <<LetterL, LetterL>> -> "long long"
    [] m = <<LetterJ>>          -> "intmax_t"
    [] m = <<LetterZ>>          -> "ssize_t"
    [] m = <<LetterT>>          -> "ptrdiff_t"
    [] OTHER                    -> "int"

LEMMA IntegerIs ==
  /\ IntegerOf(<<>>) = "int"
  /\ IntegerOf(<<LetterH>>) = "int" /\ IntegerOf(<<LetterH, LetterH>>) = "int"
  /\ IntegerOf(<<LetterL>>) = "long" /\ IntegerOf(<<LetterL, LetterL>>) = "long long"
  /\ IntegerOf(<<LetterJ>>) = "intmax_t"
  /\ IntegerOf(<<LetterZ>>) = "ssize_t"
  /\ IntegerOf(<<LetterT>>) = "ptrdiff_t"
<1> DEFINE one(x) == <<x>>
<1>1. ASSUME NEW x, NEW y, x # y PROVE <<x>> # <<y>> /\ <<x, x>> # <<y, y>>
  BY <1>1
<1>2. ASSUME NEW x, NEW y
      PROVE  <<>> # <<x>> /\ <<>> # <<x, x>> /\ <<x>> # <<y, y>> /\ <<y, y>> # <<x>>
  <2>1. Len(<<>>) = 0 /\ Len(<<x>>) = 1 /\ Len(<<x, x>>) = 2 /\ Len(<<y, y>>) = 2
    OBVIOUS
  <2> QED BY <2>1
<1>3. /\ LetterH # LetterL /\ LetterH # LetterJ /\ LetterH # LetterZ /\ LetterH # LetterT
      /\ LetterL # LetterJ /\ LetterL # LetterZ /\ LetterL # LetterT
      /\ LetterJ # LetterZ /\ LetterJ # LetterT /\ LetterZ # LetterT
  BY DEF LetterH, LetterL, LetterJ, LetterZ, LetterT
<1>4. IntegerOf(<<>>) = "int"
  BY <1>2, Zenon DEF IntegerOf
<1>5. IntegerOf(<<LetterH>>) = "int"
  BY <1>1, <1>2, <1>3, Zenon DEF IntegerOf
<1>6. IntegerOf(<<LetterH, LetterH>>) = "int"
  BY <1>1, <1>2, <1>3, Zenon DEF IntegerOf
<1>7. IntegerOf(<<LetterL>>) = "long"
  BY <1>1, <1>2, <1>3, Zenon DEF IntegerOf
<1>8. IntegerOf(<<LetterL, LetterL>>) = "long long"
  BY <1>1, <1>2, <1>3, Zenon DEF IntegerOf
<1>9. IntegerOf(<<LetterJ>>) = "intmax_t"
  BY <1>1, <1>2, <1>3, Zenon DEF IntegerOf
<1>10. IntegerOf(<<LetterZ>>) = "ssize_t"
  BY <1>1, <1>2, <1>3, Zenon DEF IntegerOf
<1>11. IntegerOf(<<LetterT>>) = "ptrdiff_t"
  BY <1>1, <1>2, <1>3, Zenon DEF IntegerOf
<1> QED BY <1>4, <1>5, <1>6, <1>7, <1>8, <1>9, <1>10, <1>11

LEMMA ArgumentIs ==
  ASSUME NEW d, NEW m, SubSeq(d, 2, Len(d) - 1) = m, NEW c, d[Len(d)] = c
  PROVE  /\ c \in Signed => ArgumentOf(d) = IntegerOf(m)
         /\ c \in Unsigned => ArgumentOf(d) = UnsignedOf(IntegerOf(m))
         /\ c \in Floating => ArgumentOf(d) \in {"double", "long double"}
         /\ c = Character /\ m = <<>> => ArgumentOf(d) = "int"
         /\ c = Character => ArgumentOf(d) \in {"int", "wint_t"}
         /\ c = StringLetter => ArgumentOf(d) \in {"string", "wide string"}
         /\ c = Pointer => ArgumentOf(d) = "pointer"
<1>1. /\ c \in Unsigned => c \notin Signed
      /\ c \in Floating => c \notin Signed /\ c \notin Unsigned
      /\ c = Character => c \notin Signed /\ c \notin Unsigned /\ c \notin Floating
      /\ c = StringLetter => c \notin Signed /\ c \notin Unsigned /\ c \notin Floating
                             /\ c # Character
      /\ c = Pointer => c \notin Signed /\ c \notin Unsigned /\ c \notin Floating
                        /\ c # Character /\ c # StringLetter
  BY DEF Signed, Unsigned, Floating, Character, StringLetter, Pointer
<1>2. c \in Signed => ArgumentOf(d) = IntegerOf(m)
  BY <1>1, Zenon DEF ArgumentOf, IntegerOf
<1>3. c \in Unsigned => ArgumentOf(d) = UnsignedOf(IntegerOf(m))
  BY <1>1, Zenon DEF ArgumentOf, IntegerOf
<1>4. c \in Floating => ArgumentOf(d) \in {"double", "long double"}
  BY <1>1, Zenon DEF ArgumentOf
<1>5. c = Character => ArgumentOf(d) \in {"int", "wint_t"}
  BY <1>1, Zenon DEF ArgumentOf
<1>6. c = StringLetter => ArgumentOf(d) \in {"string", "wide string"}
  BY <1>1, Zenon DEF ArgumentOf
<1>7. c = Pointer => ArgumentOf(d) = "pointer"
  BY <1>1, Zenon DEF ArgumentOf
<1>8. c = Character /\ m = <<>> => ArgumentOf(d) = "int"
  <2>1. <<>> # <<LetterL>>
    BY Len(<<>>) = 0, Len(<<LetterL>>) = 1
  <2> QED BY <1>1, <2>1, Zenon DEF ArgumentOf
<1> QED BY <1>2, <1>3, <1>4, <1>5, <1>6, <1>7, <1>8

LEMMA UnderstoodIs ==
  /\ \A type \in Sizes : Understood(type) = type /\ Understood(UnsignedOf(type)) = UnsignedOf(type)
  /\ \A type \in {"intmax_t", "ssize_t", "ptrdiff_t"} :
       Understood(type) = "int" /\ Understood(UnsignedOf(type)) = UnsignedOf("int")
  /\ Understood("wint_t") = "int"
  /\ Understood("pointer") = "unsigned int"
  /\ Understood("double") = "double" /\ Understood("long double") = "double"
  /\ Understood("string") = "string" /\ Understood("wide string") = "string"
BY DEF Understood, UnsignedOf, Sizes

\* What Unity takes for a directive: for all but "%%", of a type it understands.
ReadFor(d) == IF d[2] = Percent THEN <<>> ELSE <<Understood(ArgumentOf(d))>>

(* After its modifier, a letter takes what it takes for the integer type   *)
(* that modifier is understood as.                                         *)
LEMMA ReadAs ==
  ASSUME NEW d, NEW m, SubSeq(d, 2, Len(d) - 1) = m, NEW c \in Letters, d[Len(d)] = c,
         c # Percent, d[2] # Percent, Understood(IntegerOf(m)) \in Sizes,
         Understood(UnsignedOf(IntegerOf(m))) = UnsignedOf(Understood(IntegerOf(m)))
  PROVE  ReadFor(d) = TakenFor(c, Understood(IntegerOf(m)))
<1> DEFINE size == Understood(IntegerOf(m))
           type == Understood(ArgumentOf(d))
<1>1. ReadFor(d) = <<type>>
  BY DEF ReadFor
<1>2. CASE c \in Signed
  <2>1. type = size
    BY <1>2, ArgumentIs, Zenon
  <2> QED BY <1>1, <1>2, <2>1, TakenForIs, Zenon
<1>3. CASE c \in Unsigned
  <2>1. ArgumentOf(d) = UnsignedOf(IntegerOf(m))
    BY <1>3, ArgumentIs, Zenon
  <2>2. TakenFor(c, size) = <<UnsignedOf(size)>>
    BY <1>3, TakenForIs, Zenon
  <2> QED BY <1>1, <2>1, <2>2, Zenon
<1>4. CASE c \in Floating
  <2>1. type = "double"
    BY <1>4, ArgumentIs, UnderstoodIs
  <2> QED BY <1>1, <1>4, <2>1, TakenForIs, Zenon
<1>5. CASE c = Character
  <2>1. type = "int"
    <3>1. ArgumentOf(d) \in {"int", "wint_t"}
      BY <1>5, ArgumentIs
    <3>2. "int" \in Sizes
      BY DEF Sizes
    <3> QED BY <3>1, <3>2, UnderstoodIs
  <2> QED BY <1>1, <1>5, <2>1, TakenForIs, Zenon
<1>6. CASE c = StringLetter
  <2>1. type = "string"
    BY <1>6, ArgumentIs, UnderstoodIs
  <2> QED BY <1>1, <1>6, <2>1, TakenForIs, Zenon
<1>7. CASE c = Pointer
  <2>1. type = "unsigned int"
    BY <1>7, ArgumentIs, UnderstoodIs
  <2> QED BY <1>1, <1>7, <2>1, TakenForIs, Zenon
<1> QED BY <1>2, <1>3, <1>4, <1>5, <1>6, <1>7, LetterKinds

LEMMA ReadPlain ==
  ASSUME NEW c \in Letters, NEW d, d = <<Percent, c>>
  PROVE  ReadFor(d) = TakenFor(c, "int")
<1>1. Len(d) = 2 /\ d[2] = c /\ d[Len(d)] = c /\ SubSeq(d, 2, Len(d) - 1) = <<>>
  OBVIOUS
<1>2. CASE c = Percent
  BY <1>1, <1>2, TakenForIs DEF ReadFor
<1>3. CASE c # Percent
  <2>1. IntegerOf(<<>>) = "int" /\ "int" \in Sizes
    BY IntegerIs DEF Sizes
  <2>2. /\ Understood(IntegerOf(<<>>)) = "int"
        /\ Understood(UnsignedOf(IntegerOf(<<>>))) = UnsignedOf("int")
    BY <2>1, UnderstoodIs, Zenon
  <2>3. Understood(IntegerOf(<<>>)) \in Sizes /\ d[2] # Percent
    BY <1>1, <1>3, <2>1, <2>2
  <2>4. SubSeq(d, 2, Len(d) - 1) = <<>> /\ d[Len(d)] = c
    BY <1>1
  <2>5. ReadFor(d) = TakenFor(c, Understood(IntegerOf(<<>>)))
    BY <1>3, <2>2, <2>3, <2>4, ReadAs, Zenon
  <2> QED BY <2>2, <2>5, Zenon
<1> QED BY <1>2, <1>3

LEMMA ReadLong ==
  ASSUME NEW c \in Letters, NEW m \in OneModifier, Allowed(m, c), NEW d, d = <<Percent, m, c>>
  PROVE  /\ c # Percent /\ m # Percent
         /\ m = LetterL => c # LetterL
         /\ m = LetterH => c # LetterH
         /\ ReadFor(d) = TakenFor(c, IF m = LetterL THEN "long" ELSE "int")
<1> DEFINE size == IF m = LetterL THEN "long" ELSE "int"
<1>1. /\ c # Percent /\ c # LetterL /\ c # LetterH /\ m # Percent
      /\ m = CapitalL => c \in Floating
      /\ m # CapitalL => m \in {LetterH, LetterL, LetterJ, LetterZ, LetterT}
  BY LettersAre DEF Allowed, OneModifier, Floating, Character, StringLetter, Percent,
                    LetterH, LetterL, LetterJ, LetterZ, LetterT, CapitalL
<1>2. Len(d) = 3 /\ d[2] = m /\ d[Len(d)] = c /\ SubSeq(d, 2, Len(d) - 1) = <<m>>
  <2>1. Len(d) = 3 /\ d[2] = m /\ d[3] = c
    OBVIOUS
  <2>2. SubSeq(d, 2, 2) = [k \in 1..1 |-> d[2 + k - 1]]
    OBVIOUS
  <2>3. [k \in 1..1 |-> d[2 + k - 1]] = <<m>>
    BY <2>1
  <2>4. Len(d) - 1 = 2
    BY <2>1
  <2> QED BY <2>1, <2>2, <2>3, <2>4, Zenon
<1>3. "int" \in Sizes /\ "long" \in Sizes
  BY DEF Sizes
<1>4. CASE m = CapitalL
  <2>1. CapitalL # LetterL
    BY DEF CapitalL, LetterL
  <2>2. ArgumentOf(d) \in {"double", "long double"}
    BY <1>1, <1>2, <1>4, ArgumentIs, Zenon
  <2>3. ReadFor(d) = <<"double">>
    BY <1>1, <1>2, <2>2, UnderstoodIs DEF ReadFor
  <2>4. TakenFor(c, size) = <<"double">>
    BY <1>1, <1>4, TakenForIs, Zenon
  <2> QED BY <1>1, <2>3, <2>4
<1>5. CASE m # CapitalL
  <2>1. /\ Understood(IntegerOf(<<m>>)) = size
        /\ Understood(UnsignedOf(IntegerOf(<<m>>))) = UnsignedOf(size)
    <3>1. CASE m = LetterL
      <4>1. IntegerOf(<<m>>) = "long"
        BY <3>1, IntegerIs, Zenon
      <4> QED BY <1>3, <3>1, <4>1, UnderstoodIs, Zenon
    <3>2. CASE m = LetterH
      <4>1. IntegerOf(<<m>>) = "int" /\ LetterH # LetterL
        BY <3>2, IntegerIs, Zenon DEF LetterH, LetterL
      <4> QED BY <1>3, <3>2, <4>1, UnderstoodIs, Zenon
    <3>3. CASE m \in {LetterJ, LetterZ, LetterT}
      <4>1. IntegerOf(<<m>>) \in {"intmax_t", "ssize_t", "ptrdiff_t"}
        BY <3>3, IntegerIs, Zenon
      <4>2. m # LetterL
        BY <3>3 DEF LetterJ, LetterZ, LetterT, LetterL
      <4> QED BY <4>1, <4>2, UnderstoodIs, Zenon
    <3> QED BY <1>1, <1>5, <3>1, <3>2, <3>3
  <2>2. size \in Sizes
    BY <1>3
  <2> HIDE DEF size
  <2>3. ReadFor(d) = TakenFor(c, Understood(IntegerOf(<<m>>)))
    BY <1>1, <1>2, <2>1, <2>2, ReadAs, Zenon
  <2> QED BY <1>1, <2>1, <2>3, Zenon DEF size
<1> QED BY <1>4, <1>5

LEMMA ReadLongLong ==
  ASSUME NEW c \in IntegerLetters, NEW m \in {LetterH, LetterL}, NEW d, d = <<Percent, m, m, c>>
  PROVE  ReadFor(d) = TakenFor(c, IF m = LetterL THEN "long long" ELSE "int")
<1> DEFINE size == IF m = LetterL THEN "long long" ELSE "int"
<1>1. c \in Letters /\ c # Percent /\ m # Percent /\ LetterH # LetterL
  BY LettersAre DEF Percent, LetterH, LetterL
<1>2. Len(d) = 4 /\ d[2] = m /\ d[Len(d)] = c /\ SubSeq(d, 2, Len(d) - 1) = <<m, m>>
  <2>1. Len(d) = 4 /\ d[2] = m /\ d[3] = m /\ d[4] = c
    OBVIOUS
  <2>2. SubSeq(d, 2, 3) = [k \in 1..2 |-> d[2 + k - 1]]
    OBVIOUS
  <2>3. [k \in 1..2 |-> d[2 + k - 1]] = <<m, m>>
    BY <2>1
  <2>4. Len(d) - 1 = 3
    BY <2>1
  <2> QED BY <2>1, <2>2, <2>3, <2>4, Zenon
<1>3. size \in Sizes
  BY DEF Sizes
<1>4. IntegerOf(<<m, m>>) = size
  BY <1>1, IntegerIs, Zenon
<1> HIDE DEF size
<1>5. /\ Understood(IntegerOf(<<m, m>>)) = size
      /\ Understood(UnsignedOf(IntegerOf(<<m, m>>))) = UnsignedOf(size)
  BY <1>3, <1>4, UnderstoodIs, Zenon
<1>6. ReadFor(d) = TakenFor(c, Understood(IntegerOf(<<m, m>>)))
  BY <1>1, <1>2, <1>3, <1>5, ReadAs, Zenon
<1> QED BY <1>5, <1>6, Zenon DEF size

(* UnityPrintFVA reads a directive as C's printf does: the modifier, the   *)
(* conversion letter and the argument they call for.                       *)
LEMMA DirectiveRead ==
  ASSUME NEW s \in Seq(Chars), NEW i \in 1..Len(s), NEW d \in Directives, d \in DirectiveAt(s, i)
  PROVE  LET mod == UnityLengthModifierGet(s, i + 1)
             letter == i + 1 + mod.length
             c == CharAt(s, letter)
         IN  /\ c \in Letters /\ mod.type \in Sizes
             /\ ReadFor(d) = TakenFor(c, mod.type) /\ s[i + 1] = d[2]
             /\ letter \in i + 1..Len(s)
             /\ \A k \in i + 1..letter - 1 : s[k] # Percent
             /\ s[letter] = c /\ (c = Percent => letter = i + 1)
<1> DEFINE mod == UnityLengthModifierGet(s, i + 1)
           letter == i + 1 + mod.length
           c1 == CharAt(s, i + 1)
           c2 == CharAt(s, i + 2)
           Reads(c, type, l) ==
             /\ mod.type = type /\ mod.length = l
             /\ i + 1 + l <= Len(s) /\ s[i + 1 + l] = c
             /\ ReadFor(d) = TakenFor(c, type) /\ s[i + 1] = d[2]
             /\ \A k \in i + 1..i + l : s[k] # Percent
           Found == \E x \in Letters, type \in Sizes, l \in 0..2 :
                      Reads(x, type, l) /\ (x = Percent => l = 0)
<1>1. /\ i \in Nat \ {0} /\ i + 1 \in Nat \ {0} /\ i + 2 \in Nat \ {0} /\ Len(s) \in Nat
      /\ i + 1 + 1 = i + 2 /\ i + 2 - 1 = i + 1 /\ i + 3 - 1 = i + 2 /\ i + 4 - 1 = i + 3
      /\ i + 1 + 0 = i + 1 /\ i + 1 + 2 = i + 3
      /\ i + 1 <= i + 2 /\ i + 2 <= i + 3
  OBVIOUS
<1>2. /\ c1 \in Int /\ c2 \in Int
      /\ i + 1 <= Len(s) => c1 = s[i + 1]
      /\ i + 2 <= Len(s) => c2 = s[i + 2]
  BY <1>1, CharIs
<1>3. mod = ModifierOf(c1, c2)
  BY <1>1, ModifierAt
<1> HIDE DEF mod, c1, c2
<1>4. ASSUME NEW type, NEW l, mod = [type |-> type, length |-> l]
      PROVE  mod.type = type /\ mod.length = l
  BY <1>4
<1>5. /\ Percent \in Int /\ LetterH \in Int /\ LetterL \in Int
      /\ LetterH # Percent /\ LetterL # Percent /\ LetterH # LetterL
      /\ \A m \in OneModifier : m \in Int /\ (m \in {LetterH, LetterL} \/ m \in Ignored)
      /\ LetterL \notin Ignored
  BY DEF Percent, LetterH, LetterL, OneModifier, Ignored, LetterJ, LetterZ, LetterT, CapitalL
<1>6. ASSUME NEW c \in Letters
      PROVE  c \in Int /\ c \notin {LetterL, LetterH} \cup Ignored
  BY LettersAre DEF LetterL, LetterH, Ignored, LetterJ, LetterZ, LetterT, CapitalL
<1>7. ASSUME NEW c \in IntegerLetters PROVE c \in Letters /\ c # Percent
  BY LettersAre DEF Percent
<1>8. ASSUME NEW c \in Letters, d = <<Percent, c>> PROVE Found
  <2>1. d \in Seq(Int) /\ Len(d) = 2 /\ d[2] = c
    BY <1>5, <1>6, <1>8
  <2>2. i + 2 - 1 <= Len(s) /\ s[i + 2 - 1] = c
    <3>1. 2 \in 1..Len(d) /\ Len(d) > 0
      BY <2>1
    <3> QED BY <2>1, <3>1, DirectiveHere
  <2>3. i + 1 <= Len(s) /\ s[i + 1] = c
    BY <1>1, <2>2
  <2>4. mod = [type |-> "int", length |-> 0]
    <3>1. c1 = c /\ c1 \notin {LetterL, LetterH} \cup Ignored
      BY <1>2, <1>6, <2>3
    <3> QED BY <1>2, <1>3, <3>1, ModifierCases, Zenon
  <2>5. mod.type = "int" /\ mod.length = 0
    BY <1>4, <2>4, Zenon
  <2>6. ReadFor(d) = TakenFor(c, "int")
    BY <1>8, ReadPlain
  <2>7. Reads(c, "int", 0)
    BY <1>1, <2>1, <2>3, <2>5, <2>6
  <2>8. "int" \in Sizes /\ 0 \in 0..2
    BY DEF Sizes
  <2> HIDE DEF Reads
  <2> QED BY <2>7, <2>8
<1>9. ASSUME NEW c \in Letters, NEW m \in OneModifier, Allowed(m, c), d = <<Percent, m, c>>
      PROVE  Found
  <2>1. d \in Seq(Int) /\ Len(d) = 3 /\ d[2] = m /\ d[3] = c
    BY <1>5, <1>6, <1>9
  <2>2. i + 2 - 1 <= Len(s) /\ s[i + 2 - 1] = m /\ i + 3 - 1 <= Len(s) /\ s[i + 3 - 1] = c
    <3>1. 2 \in 1..Len(d) /\ 3 \in 1..Len(d) /\ Len(d) > 0
      BY <2>1
    <3>2. i + 3 - 1 <= Len(s) /\ s[i + 2 - 1] = m /\ s[i + 3 - 1] = c
      BY <2>1, <3>1, DirectiveHere
    <3> QED BY <1>1, <3>2
  <2>3. i + 1 <= Len(s) /\ s[i + 1] = m /\ i + 2 <= Len(s) /\ s[i + 2] = c
    BY <1>1, <2>2
  <2> DEFINE type == IF m = LetterL THEN "long" ELSE "int"
  <2>4. /\ c # Percent /\ m # Percent
        /\ m = LetterL => c # LetterL
        /\ m = LetterH => c # LetterH
        /\ ReadFor(d) = TakenFor(c, type)
    BY <1>9, ReadLong, Zenon
  <2>5. c1 = m /\ c2 = c /\ (m \in {LetterH, LetterL} => c2 # c1)
    BY <1>2, <2>3, <2>4
  <2>6. mod.type = type /\ mod.length = 1
    <3>1. CASE m = LetterH
      <4>1. mod = [type |-> "int", length |-> 1]
        BY <1>2, <1>3, <2>4, <2>5, <3>1, ModifierCases, Zenon
      <4>2. mod.type = "int" /\ mod.length = 1
        BY <1>4, <4>1, Zenon
      <4> QED BY <1>5, <3>1, <4>2
    <3>2. CASE m = LetterL
      <4>1. mod = [type |-> "long", length |-> 1]
        BY <1>2, <1>3, <2>4, <2>5, <3>2, ModifierCases, Zenon
      <4>2. mod.type = "long" /\ mod.length = 1
        BY <1>4, <4>1, Zenon
      <4> QED BY <3>2, <4>2
    <3>3. CASE m \in Ignored
      <4>1. mod = [type |-> "int", length |-> 1]
        BY <1>2, <1>3, <2>5, <3>3, ModifierCases, Zenon
      <4>2. mod.type = "int" /\ mod.length = 1
        BY <1>4, <4>1, Zenon
      <4>3. m # LetterL
        BY <1>5, <3>3
      <4> QED BY <4>2, <4>3
    <3> QED BY <1>5, <3>1, <3>2, <3>3
  <2>7. i + 1 + 1 = i + 2 /\ \A k \in i + 1..i + 1 : s[k] # Percent
    BY <1>1, <2>3, <2>4
  <2>8. Reads(c, type, 1)
    <3> HIDE DEF type
    <3> QED BY <2>1, <2>3, <2>4, <2>6, <2>7
  <2>9. type \in Sizes /\ 1 \in 0..2
    BY DEF Sizes
  <2> HIDE DEF Reads, type
  <2> QED BY <2>4, <2>8, <2>9
<1>10. ASSUME NEW c \in IntegerLetters, NEW m \in {LetterH, LetterL}, d = <<Percent, m, m, c>>
       PROVE  Found
  <2>1. d \in Seq(Int) /\ Len(d) = 4 /\ d[2] = m /\ d[3] = m /\ d[4] = c
    BY <1>5, <1>6, <1>7, <1>10
  <2>2. /\ s[i + 2 - 1] = m /\ s[i + 3 - 1] = m
        /\ i + 4 - 1 <= Len(s) /\ s[i + 4 - 1] = c
    <3>1. 2 \in 1..Len(d) /\ 3 \in 1..Len(d) /\ 4 \in 1..Len(d) /\ Len(d) > 0
      BY <2>1
    <3> QED BY <2>1, <3>1, DirectiveHere
  <2>3. /\ i + 1 <= Len(s) /\ s[i + 1] = m /\ i + 2 <= Len(s) /\ s[i + 2] = m
        /\ i + 3 <= Len(s) /\ s[i + 3] = c
    BY <1>1, <2>2
  <2>4. c1 = m /\ c2 = m /\ c2 = c1 /\ c \in Letters /\ m # Percent
    BY <1>2, <1>5, <1>6, <1>7, <2>3
  <2> DEFINE type == IF m = LetterL THEN "long long" ELSE "int"
  <2>5. mod.type = type /\ mod.length = 2
    <3>1. CASE m = LetterH
      <4>1. mod = [type |-> "int", length |-> 2]
        BY <1>2, <1>3, <2>4, <3>1, ModifierCases, Zenon
      <4>2. mod.type = "int" /\ mod.length = 2
        BY <1>4, <4>1, Zenon
      <4> QED BY <1>5, <3>1, <4>2
    <3>2. CASE m = LetterL
      <4>1. mod = [type |-> "long long", length |-> 2]
        BY <1>2, <1>3, <2>4, <3>2, ModifierCases, Zenon
      <4>2. mod.type = "long long" /\ mod.length = 2
        BY <1>4, <4>1, Zenon
      <4> QED BY <1>5, <3>2, <4>2
    <3> QED BY <3>1, <3>2
  <2>6. ReadFor(d) = TakenFor(c, type)
    BY <1>10, ReadLongLong, Zenon
  <2>7. i + 1 + 2 = i + 3 /\ \A k \in i + 1..i + 2 : s[k] # Percent
    <3>1. \A k \in i + 1..i + 2 : k = i + 1 \/ k = i + 2
      BY <1>1
    <3> QED BY <1>1, <2>3, <2>4, <3>1
  <2>8. Reads(c, type, 2)
    <3> HIDE DEF type
    <3> QED BY <2>1, <2>3, <2>5, <2>6, <2>7
  <2>9. type \in Sizes /\ c # Percent /\ 2 \in 0..2
    BY <1>7 DEF Sizes
  <2> HIDE DEF Reads, type
  <2> QED BY <2>4, <2>8, <2>9
<1>11. Found
  <2> HIDE DEF Found
  <2> QED BY <1>8, <1>9, <1>10, DirectiveForms
<1>12. PICK x \in Letters, size \in Sizes, q \in 0..2 :
         Reads(x, size, q) /\ (x = Percent => q = 0)
  BY <1>11
<1>13. /\ mod.type = size /\ letter = i + 1 + q /\ letter <= Len(s) /\ s[letter] = x
       /\ \A k \in i + 1..i + q : s[k] # Percent
       /\ ReadFor(d) = TakenFor(x, size) /\ s[i + 1] = d[2]
  BY <1>12
<1> HIDE DEF letter, Reads, Found
<1>14. letter \in Nat \ {0} /\ letter \in i + 1..Len(s) /\ letter - 1 = i + q
  BY <1>1, <1>13
<1>15. CharAt(s, letter) = x
  BY <1>13, <1>14, CharIs
<1>16. x = Percent => letter = i + 1
  BY <1>1, <1>12, <1>13
<1> QED BY <1>12, <1>13, <1>14, <1>15, <1>16 DEF mod, letter

-----------------------------------------------------------------------------
(* The arguments of a format.                                              *)

\* An even number of '%' stand right before p.
Boundary(s, p) ==
  \E j \in 1..p : /\ (p - j) % 2 = 0
                  /\ \A k \in j..p - 1 : s[k] = Percent
                  /\ j = 1 \/ s[j - 1] # Percent

Arguments(s) ==
  [i \in DOMAIN s |->
     IF Begins(s, i) /\ CharAt(s, i + 1) # Percent
     THEN <<Understood(ArgumentOf(CHOOSE d \in DirectiveAt(s, i) : TRUE))>> ELSE <<>>]

\* What the first characters of s call for.
Gathered(s) == CHOOSE g : Gathers(Len(s), Types, Arguments(s), g)

LEMMA BeginsIs ==
  ASSUME NEW s \in Seq(Chars), NEW i \in 1..Len(s)
  PROVE  /\ s[i] # Percent => ~Begins(s, i)
         /\ Boundary(s, i) /\ s[i] = Percent => Begins(s, i)
         /\ Boundary(s, i) /\ s[i] = Percent => i + 1 > Len(s) \/ ~Begins(s, i + 1)
<1>1. Len(s) \in Nat /\ i \in Nat \ {0} /\ i <= Len(s)
  OBVIOUS
<1>2. ASSUME NEW k \in 1..Len(s) PROVE CharAt(s, k) = s[k]
  BY DEF CharAt
<1>3. s[i] # Percent => ~Begins(s, i)
  BY <1>2 DEF Begins
<1>4. ASSUME Boundary(s, i), s[i] = Percent PROVE Begins(s, i)
  <2>1. PICK j \in 1..i : /\ (i - j) % 2 = 0
                          /\ \A k \in j..i - 1 : s[k] = Percent
                          /\ j = 1 \/ s[j - 1] # Percent
    BY <1>4 DEF Boundary
  <2>2. ASSUME NEW k \in j..i PROVE CharAt(s, k) = Percent
    <3>1. k \in 1..Len(s) /\ (k # i => k \in j..i - 1)
      BY <1>1
    <3> QED BY <1>2, <1>4, <2>1, <3>1
  <2> QED BY <1>2, <1>4, <2>1, <2>2 DEF Begins
<1>5. ASSUME Boundary(s, i), s[i] = Percent, i + 1 <= Len(s), Begins(s, i + 1) PROVE FALSE
  <2>1. PICK j \in 1..i : /\ (i - j) % 2 = 0
                          /\ \A k \in j..i - 1 : s[k] = Percent
                          /\ j = 1 \/ s[j - 1] # Percent
    BY <1>5 DEF Boundary
  <2>2. PICK l \in 1..i + 1 : /\ (i + 1 - l) % 2 = 0
                              /\ \A k \in l..i + 1 : CharAt(s, k) = Percent
                              /\ l = 1 \/ s[l - 1] # Percent
    BY <1>5 DEF Begins
  <2>3. ASSUME NEW k \in l..i PROVE s[k] = Percent
    <3>1. k \in 1..Len(s) /\ k \in l..i + 1
      BY <1>1, <1>5
    <3> QED BY <1>2, <2>2, <3>1
  <2>4. j <= l
    <3> SUFFICES ASSUME l < j PROVE FALSE
      OBVIOUS
    <3>1. j - 1 \in l..i /\ j # 1
      OBVIOUS
    <3> QED BY <2>1, <2>3, <3>1
  <2>5. l <= j
    <3> SUFFICES ASSUME j < l PROVE FALSE
      OBVIOUS
    <3>1. l # 1 /\ l - 1 \in j..i
      OBVIOUS
    <3>2. l - 1 # i => l - 1 \in j..i - 1
      BY <3>1
    <3> QED BY <1>5, <2>1, <2>2, <3>1, <3>2
  <2>6. l = j
    BY <2>4, <2>5
  <2>7. (i + 1 - j) % 2 = 0 /\ (i - j) % 2 = 0 /\ i + 1 - j = (i - j) + 1 /\ i - j \in Nat
    BY <2>1, <2>2, <2>6
  <2>8. ASSUME NEW m \in Nat, m % 2 = 0, (m + 1) % 2 = 0 PROVE FALSE
    BY <2>8
  <2> QED BY <2>7, <2>8
<1> QED BY <1>1, <1>3, <1>4, <1>5

LEMMA ArgumentsAre ==
  ASSUME NEW s \in Seq(Chars), WellFormed(s), NEW i \in 1..Len(s)
  PROVE  /\ Arguments(s)[i] \in Seq(Types)
         /\ ~Begins(s, i) => Arguments(s)[i] = <<>>
         /\ Begins(s, i) => \E d \in Directives : /\ d \in DirectiveAt(s, i)
                                                  /\ Arguments(s)[i] = ReadFor(d)
<1>1. i \in DOMAIN s
  OBVIOUS
<1>2. CASE ~Begins(s, i)
  <2>1. Arguments(s)[i] = <<>>
    BY <1>1, <1>2 DEF Arguments
  <2>2. <<>> \in Seq(Types)
    <3>1. "int" \in Types
      BY DEF Types, Sizes
    <3> QED BY <3>1, Singleton
  <2> QED BY <1>2, <2>1, <2>2
<1>3. CASE Begins(s, i)
  <2> DEFINE d == CHOOSE x \in DirectiveAt(s, i) : TRUE
  <2>1. d \in DirectiveAt(s, i)
    BY <1>1, <1>3 DEF WellFormed
  <2>2. Arguments(s)[i] = IF CharAt(s, i + 1) = Percent THEN <<>>
                          ELSE <<Understood(ArgumentOf(d))>>
    BY <1>1, <1>3 DEF Arguments
  <2> HIDE DEF d
  <2>3. d \in Directives
    BY <2>1 DEF DirectiveAt
  <2>4. ReadFor(d) \in Seq(Types) /\ s[i + 1] = d[2] /\ i + 1 <= Len(s)
    <3> DEFINE mod == UnityLengthModifierGet(s, i + 1)
               letter == i + 1 + mod.length
               c == CharAt(s, letter)
    <3>1. /\ c \in Letters /\ mod.type \in Sizes
          /\ ReadFor(d) = TakenFor(c, mod.type) /\ s[i + 1] = d[2]
          /\ letter \in i + 1..Len(s)
      BY <2>1, <2>3, DirectiveRead
    <3> HIDE DEF letter, c, mod
    <3>2. i \in Nat /\ Len(s) \in Nat
      OBVIOUS
    <3> QED BY <3>1, <3>2, TakenForTyped
  <2>5. CharAt(s, i + 1) = s[i + 1]
    BY <2>4 DEF CharAt
  <2>6. Arguments(s)[i] = ReadFor(d)
    BY <2>2, <2>4, <2>5, Zenon DEF ReadFor
  <2> QED BY <1>3, <2>1, <2>3, <2>4, <2>6
<1> QED BY <1>2, <1>3

LEMMA GatheredIs ==
  ASSUME NEW s \in Seq(Chars), WellFormed(s)
  PROVE  Gathers(Len(s), Types, Arguments(s), Gathered(s))
<1>1. Len(s) \in Nat
  OBVIOUS
<1>2. \E g : Gathers(Len(s), Types, Arguments(s), g)
  BY <1>1, ArgumentsAre, GatherExists
<1> QED BY <1>2 DEF Gathered

(* Where no directive begins, nothing is called for.                       *)
LEMMA GatheredSkips ==
  ASSUME NEW s \in Seq(Chars), WellFormed(s), NEW p \in 0..Len(s), NEW l \in p..Len(s),
         \A k \in p + 1..l : ~Begins(s, k)
  PROVE  Gathered(s)[l] = Gathered(s)[p]
<1> DEFINE g == Gathered(s)
           bad == {k \in p..l : g[k] # g[p]}
<1>1. Gathers(Len(s), Types, Arguments(s), g)
  BY GatheredIs
<1> HIDE DEF g
<1> SUFFICES ASSUME bad # {} PROVE FALSE
  <2>1. p \in Nat /\ l \in p..l
    OBVIOUS
  <2> QED BY <2>1 DEF g
<1>2. bad \in SUBSET Nat
  OBVIOUS
<1>3. PICK k \in bad : \A j \in bad : k <= j
  <2> HIDE DEF bad
  <2> QED BY <1>2, LeastNat
<1>4. k \in p..l /\ k # p /\ g[k] # g[p]
  BY <1>3
<1>5. k - 1 \in p..l /\ ~(k <= k - 1) /\ k \in p + 1..l /\ k \in 1..Len(s) /\ k - 1 \in 0..Len(s)
  BY <1>4
<1>6. g[k - 1] = g[p]
  BY <1>3, <1>5
<1>7. Arguments(s)[k] = <<>>
  BY <1>5, ArgumentsAre
<1>8. g[k] = g[k - 1] \o Arguments(s)[k] /\ g[k - 1] \in Seq(Types)
  BY <1>1, <1>5 DEF Gathers
<1>9. g[k - 1] \o <<>> = g[k - 1]
  <2> DEFINE x == g[k - 1]
  <2>1. x \in Seq(Types)
    BY <1>8
  <2> HIDE DEF x
  <2>2. x \o <<>> = x
    BY <2>1
  <2> QED BY <2>2 DEF x
<1> QED BY <1>4, <1>6, <1>7, <1>8, <1>9

ArgumentsInv ==
  (routine = "UnityPrintFVA" /\ ~color /\ WellFormed(string)) =>
    /\ pch \in 1..Terminator(string)
    /\ Boundary(string, pch)
    /\ taken = Gathered(string)[pch - 1]

LEMMA ArgumentsInitInv == PrintersInit => ArgumentsInv
<1> SUFFICES ASSUME PrintersInit, routine = "UnityPrintFVA", WellFormed(string)
             PROVE  /\ pch \in 1..Terminator(string)
                    /\ Boundary(string, pch)
                    /\ taken = Gathered(string)[pch - 1]
  BY DEF ArgumentsInv
<1>1. string \in Seq(Chars)
  BY TextInitInv DEF TextInv
<1>2. pch = 1 /\ taken = <<>>
  BY TextAssumption DEF PrintersInit, NoText, TextInit
<1>3. Terminator(string) \in Nat /\ Terminator(string) >= 1
  <2>1. Len(string) \in Nat
    BY <1>1
  <2> QED BY <2>1 DEF Terminator
<1>4. Boundary(string, 1)
  <2>1. 1 \in 1..1 /\ (1 - 1) % 2 = 0 /\ \A k \in 1..1 - 1 : FALSE
    OBVIOUS
  <2> QED BY <2>1 DEF Boundary
<1>5. Gathered(string)[0] = <<>>
  BY <1>1, GatheredIs DEF Gathers
<1> QED BY <1>2, <1>3, <1>4, <1>5

(* Past one character, and past one directive.                             *)
LEMMA BoundaryMoves ==
  ASSUME NEW s \in Seq(Chars), NEW p \in 1..Len(s), NEW l \in p..Len(s), Boundary(s, p),
         IF s[l] = Percent THEN l = p + 1 /\ s[p] = Percent ELSE TRUE
  PROVE  Boundary(s, l + 1)
<1>1. p \in Nat /\ l \in Nat /\ 1 <= p /\ p <= l /\ l <= Len(s) /\ Len(s) \in Nat
  OBVIOUS
<1>2. CASE s[l] # Percent
  <2>1. l + 1 \in 1..l + 1 /\ ((l + 1) - (l + 1)) % 2 = 0
    BY <1>1
  <2>2. \A k \in l + 1..(l + 1) - 1 : s[k] = Percent
    BY <1>1
  <2>3. s[(l + 1) - 1] # Percent
    <3>1. (l + 1) - 1 = l
      BY <1>1
    <3> QED BY <1>2, <3>1, Zenon
  <2> QED BY <2>1, <2>2, <2>3 DEF Boundary
<1>3. CASE s[l] = Percent
  <2>1. l = p + 1 /\ s[p] = Percent /\ s[p + 1] = Percent
    BY <1>3
  <2>2. PICK j \in 1..p : /\ (p - j) % 2 = 0
                          /\ \A k \in j..p - 1 : s[k] = Percent
                          /\ j = 1 \/ s[j - 1] # Percent
    BY DEF Boundary
  <2>3. j \in 1..l + 1 /\ ((l + 1) - j) % 2 = 0
    <3>1. p - j \in Nat /\ (l + 1) - j = (p - j) + 2
      BY <1>1, <2>1
    <3>2. ASSUME NEW m \in Nat, m % 2 = 0 PROVE (m + 2) % 2 = 0
      BY <3>2
    <3> QED BY <1>1, <2>1, <2>2, <3>1, <3>2
  <2>4. ASSUME NEW k \in j..(l + 1) - 1 PROVE s[k] = Percent
    <3>1. k \in j..p - 1 \/ k = p \/ k = p + 1
      BY <1>1, <2>1
    <3> QED BY <2>1, <2>2, <3>1
  <2> QED BY <2>2, <2>3, <2>4 DEF Boundary
<1> QED BY <1>2, <1>3

LEMMA ArgumentsText == ArgumentsInv /\ TextInv /\ FormatText => ArgumentsInv'
<1> SUFFICES ASSUME ArgumentsInv, TextInv, FormatText, ~color, WellFormed(string)
             PROVE  /\ pch' \in 1..Terminator(string)
                    /\ Boundary(string, pch')
                    /\ taken' = Gathered(string)[pch' - 1]
  BY FormattingIs DEF ArgumentsInv, FormatText
<1>1. /\ routine = "UnityPrintFVA" /\ string \in Seq(Chars) /\ pch \in 1..Len(string)
      /\ taken' = taken /\ string[pch] # Percent
  BY FormattingIs DEF FormatText
<1>2. Boundary(string, pch) /\ taken = Gathered(string)[pch - 1]
  BY <1>1 DEF ArgumentsInv
<1>3. pch' = pch + 1
  <2>1. ~AtEscape(string, pch)
    BY DEF AtEscape
  <2>2. (CASE AtEscape(string, pch) -> UnityPrintAnsiEscapeString(string, pch)
           [] ~AtEscape(string, pch) /\ string[pch] = Newline ->
                [text |-> <<Newline>>, count |-> 1]
           [] OTHER -> [text |-> PrintCharacter(string[pch]), count |-> 1]).count = 1
    BY <2>1, Zenon
  <2> QED BY <2>2 DEF FormatText
<1>4. Len(string) \in Nat /\ Terminator(string) = Len(string) + 1
  BY <1>1 DEF Terminator
<1>5. pch' \in 1..Terminator(string) /\ pch' - 1 = pch
  BY <1>1, <1>3, <1>4
<1>6. Boundary(string, pch + 1)
  <2>1. pch \in pch..Len(string)
    BY <1>1, <1>4
  <2> QED BY <1>1, <1>2, <2>1, BoundaryMoves
<1>7. Gathered(string)[pch] = Gathered(string)[pch - 1]
  <2>1. pch - 1 \in 0..Len(string) /\ pch \in pch - 1..Len(string)
    BY <1>1, <1>4
  <2>2. ASSUME NEW k \in (pch - 1) + 1..pch PROVE ~Begins(string, k)
    <3>1. k = pch
      BY <1>1, <1>4
    <3> QED BY <1>1, <3>1, BeginsIs
  <2> QED BY <1>1, <2>1, <2>2, GatheredSkips
<1> QED BY <1>1, <1>2, <1>3, <1>5, <1>6, <1>7

LEMMA ArgumentsDirective == ArgumentsInv /\ TextInv /\ FormatDirective => ArgumentsInv'
<1> SUFFICES ASSUME ArgumentsInv, TextInv, FormatDirective, ~color, WellFormed(string)
             PROVE  /\ pch' \in 1..Terminator(string)
                    /\ Boundary(string, pch')
                    /\ taken' = Gathered(string)[pch' - 1]
  BY FormattingIs DEF ArgumentsInv, FormatDirective
<1> DEFINE mod == UnityLengthModifierGet(string, pch + 1)
           letter == pch + 1 + mod.length
           c == CharAt(string, letter)
           g == Gathered(string)
           size == mod.type
<1>1. /\ routine = "UnityPrintFVA" /\ string \in Seq(Chars) /\ pch \in 1..Len(string)
      /\ string[pch] = Percent
  BY FormattingIs DEF FormatDirective
<1>2. Boundary(string, pch) /\ taken = g[pch - 1]
  BY <1>1 DEF ArgumentsInv
<1>3. Convert(c, size) /\ pch' = letter + 1
  BY DEF FormatDirective
<1>4. Len(string) \in Nat /\ Terminator(string) = Len(string) + 1
  BY <1>1 DEF Terminator
<1>5. Begins(string, pch)
  BY <1>1, <1>2, BeginsIs
<1>6. PICK d \in Directives : /\ d \in DirectiveAt(string, pch)
                              /\ Arguments(string)[pch] = ReadFor(d)
  BY <1>1, <1>5, ArgumentsAre
<1>7. /\ c \in Letters /\ size \in Sizes
      /\ ReadFor(d) = TakenFor(c, size)
      /\ letter \in pch + 1..Len(string)
      /\ \A k \in pch + 1..letter - 1 : string[k] # Percent
      /\ string[letter] = c /\ (c = Percent => letter = pch + 1)
  BY <1>1, <1>6, DirectiveRead
<1>8. Gathers(Len(string), Types, Arguments(string), g)
  BY <1>1, GatheredIs
<1> HIDE DEF mod, letter, c, g, size
<1>9. /\ letter \in Nat /\ pch + 1 <= letter /\ letter <= Len(string)
      /\ pch - 1 \in 0..Len(string) /\ letter \in pch..Len(string) /\ pch \in 0..Len(string)
  <2>1. letter \in pch + 1..Len(string)
    BY <1>7
  <2> QED BY <1>1, <1>4, <2>1
<1>10. taken' = g[pch]
  <2>1. taken \in Seq(Types)
    BY <1>2, <1>8, <1>9 DEF Gathers
  <2>2. taken' = taken \o TakenFor(c, size)
    BY <1>3, <1>7, <2>1, ConvertTakes
  <2>3. g[pch] = g[pch - 1] \o Arguments(string)[pch]
    BY <1>1, <1>8 DEF Gathers
  <2> QED BY <1>2, <1>6, <1>7, <2>2, <2>3, Zenon
<1>11. g[letter] = g[pch]
  <2>1. ASSUME NEW k \in pch + 1..letter PROVE ~Begins(string, k)
    <3>1. k \in 1..Len(string)
      BY <1>1, <1>4, <1>9
    <3>2. CASE string[k] # Percent
      BY <1>1, <3>1, <3>2, BeginsIs
    <3>3. CASE string[k] = Percent
      <4>1. k = pch + 1
        <5>1. k \in pch + 1..letter - 1 \/ k = letter
          BY <1>1, <1>9
        <5>2. k = letter
          BY <1>7, <3>3, <5>1
        <5> QED BY <1>7, <3>3, <5>2
      <4> QED BY <1>1, <1>2, <3>1, <4>1, BeginsIs
    <3> QED BY <3>2, <3>3
  <2> QED BY <1>1, <1>9, <2>1, GatheredSkips DEF g
<1>12. Boundary(string, letter + 1)
  <2>1. IF string[letter] = Percent THEN letter = pch + 1 /\ string[pch] = Percent ELSE TRUE
    BY <1>1, <1>7
  <2> QED BY <1>1, <1>2, <1>9, <2>1, BoundaryMoves
<1>13. pch' \in 1..Terminator(string) /\ pch' - 1 = letter
  BY <1>1, <1>3, <1>4, <1>9
<1> QED BY <1>3, <1>10, <1>11, <1>12, <1>13 DEF g

LEMMA ArgumentsStep ==
  ArgumentsInv /\ TextInv /\ [PrintersNext]_printer_vars => ArgumentsInv'
<1> SUFFICES ASSUME ArgumentsInv, TextInv, [PrintersNext]_printer_vars PROVE ArgumentsInv'
  OBVIOUS
<1>1. CASE CallUnityPrint
  BY <1>1, TextAssumption DEF CallUnityPrint, ArgumentsInv
<1>2. CASE FormatDirective
  BY <1>2, ArgumentsDirective
<1>3. CASE FormatText
  BY <1>3, ArgumentsText
<1>4. CASE UNCHANGED text_vars
  BY <1>4 DEF ArgumentsInv, text_vars, WellFormed, Begins, DirectiveAt, CharAt, Boundary,
              Terminator
<1> QED BY <1>1, <1>2, <1>3, <1>4 DEF PrintersNext, TextNext, printer_vars

(* UnityPrintFVA, given a format of directives C knows, has taken at its   *)
(* end one argument for each that C's printf takes, in order, and stands at*)
(* the terminator.  Each has C's type, or the one Unity takes in its place *)
(* (Understood): an unsigned int for a size_t or a pointer, a double for a *)
(* long double.                                                            *)
THEOREM ArgumentsAsPrintfHolds == PrintersSpec => []ArgumentsAsPrintf
<1>1. ArgumentsInv /\ TextInv => ArgumentsAsPrintf
  <2> SUFFICES ASSUME ArgumentsInv, TextInv, routine = "UnityPrintFVA", ~color,
                      WellFormed(string), Over(string, pch)
               PROVE  /\ pch = Terminator(string)
                      /\ taken = FlattenSeq(Arguments(string))
    BY Zenon DEF ArgumentsAsPrintf, Arguments
  <2>1. pch \in 1..Terminator(string) /\ taken = Gathered(string)[pch - 1]
    BY DEF ArgumentsInv
  <2>2. /\ string \in Seq(Chars) /\ Len(string) \in Nat /\ DOMAIN string = 1..Len(string)
        /\ Terminator(string) = Len(string) + 1
    BY DEF TextInv, Terminator
  <2>3. pch = Terminator(string) /\ pch - 1 = Len(string)
    BY <2>1, <2>2 DEF Over
  <2>4. Gathers(Len(string), Types, Arguments(string), Gathered(string))
    BY <2>2, GatheredIs
  <2>5. FlattenSeq([i \in 1..Len(string) |-> Arguments(string)[i]])
          = Gathered(string)[Len(string)]
    BY <2>2, <2>4, ArgumentsAre, FlattenIs
  <2>6. [i \in 1..Len(string) |-> Arguments(string)[i]] = Arguments(string)
    <3>1. [i \in DOMAIN string |-> Arguments(string)[i]] = Arguments(string)
      BY DEF Arguments
    <3> QED BY <2>2, <3>1, Zenon
  <2> QED BY <2>1, <2>3, <2>5, <2>6, Zenon
<1>2. ArgumentsInv /\ TextInv /\ [PrintersNext]_printer_vars => (ArgumentsInv /\ TextInv)'
  BY ArgumentsStep, TextStep
<1> QED BY <1>1, <1>2, ArgumentsInitInv, TextInitInv, PTL DEF PrintersSpec

-----------------------------------------------------------------------------
(* Powers of ten, as far as the exponents searched.                        *)

FloatExponents == 0..MaxExponent

LEMMA TenNat == \A k \in FloatExponents : 10^k \in Nat \ {0} /\ k < 10^k
<1> DEFINE bad == {k \in FloatExponents : ~(10^k \in Nat \ {0} /\ k < 10^k)}
<1>1. SUFFICES ASSUME bad # {} PROVE FALSE
  OBVIOUS
<1>2. bad \in SUBSET Nat
  BY FloatPrintAssumption DEF FloatExponents
<1>3. PICK k \in bad : \A j \in bad : k <= j
  BY <1>1, <1>2, LeastNat
<1>4. k \in Nat /\ k # 0
  <2>1. 10^0 \in Nat \ {0} /\ 0 < 10^0
    BY TensAssumption
  <2>2. 0 \notin bad
    BY <2>1
  <2> QED BY <1>2, <2>2, Zenon
<1>5. k - 1 \in 0..MaxExponent - 1 /\ k - 1 \in FloatExponents /\ ~(k <= k - 1)
  BY <1>4, FloatPrintAssumption DEF FloatExponents
<1>6. 10^(k - 1) \in Nat \ {0} /\ k - 1 < 10^(k - 1)
  BY <1>3, <1>5
<1>7. 10^((k - 1) + 1) = 10 * 10^(k - 1) /\ (k - 1) + 1 = k
  BY <1>4, <1>5, TensAssumption
<1>8. 10^k \in Nat \ {0} /\ k < 10^k
  BY <1>4, <1>6, <1>7
<1> QED BY <1>8

LEMMA TenNext ==
  ASSUME NEW k \in FloatExponents, k + 1 \in FloatExponents
  PROVE  10^(k + 1) = 10 * 10^k
<1>1. k \in 0..MaxExponent - 1
  BY FloatPrintAssumption DEF FloatExponents
<1> QED BY <1>1, TensAssumption

LEMMA TenSum ==
  ASSUME NEW j \in Nat
  PROVE  \A k \in Nat : j + k \in FloatExponents => 10^(j + k) = 10^j * 10^k
<1> DEFINE bad == {k \in Nat : j + k \in FloatExponents /\ 10^(j + k) # 10^j * 10^k}
<1>1. SUFFICES ASSUME bad # {} PROVE FALSE
  OBVIOUS
<1>2. PICK k \in bad : \A i \in bad : k <= i
  BY <1>1, LeastNat
<1>3. k \in Nat /\ j + k \in FloatExponents
  OBVIOUS
<1>4. j \in FloatExponents /\ k \in FloatExponents
  BY <1>3, FloatPrintAssumption DEF FloatExponents
<1>5. 10^j \in Nat \ {0} /\ 10^k \in Nat \ {0}
  BY <1>4, TenNat
<1>6. k # 0
  <2>1. j + 0 = j /\ 10^j * 1 = 10^j
    BY <1>5
  <2> QED BY <2>1, TensAssumption
<1> DEFINE l == k - 1
<1>7. /\ l \in Nat /\ l + 1 = k /\ l + 1 \in FloatExponents
      /\ (j + l) + 1 = j + k /\ (j + l) + 1 \in FloatExponents
      /\ j + l \in FloatExponents /\ l \in FloatExponents /\ ~(k <= l)
  BY <1>3, <1>6, FloatPrintAssumption DEF FloatExponents
<1> HIDE DEF l
<1>8. 10^(j + l) = 10^j * 10^l
  BY <1>2, <1>7
<1>9. 10^k = 10 * 10^l /\ 10^(j + k) = 10 * 10^(j + l)
  BY <1>7, TenNext
<1>10. 10^l \in Nat \ {0}
  BY <1>7, TenNat
<1>11. \A p, q \in Nat : 10 * (p * q) = p * (10 * q)
  OBVIOUS
<1>12. 10^(j + k) = 10^j * 10^k
  BY <1>5, <1>8, <1>9, <1>10, <1>11
<1> QED BY <1>12

(* A greater power is a multiple of a lesser one.                          *)
LEMMA TenDivides ==
  ASSUME NEW j \in Nat, NEW k \in FloatExponents, j <= k
  PROVE  /\ j \in FloatExponents /\ k - j \in FloatExponents
         /\ 10^j \in Nat \ {0} /\ 10^(k - j) \in Nat \ {0}
         /\ 10^k = 10^j * 10^(k - j) /\ 10^j <= 10^k
         /\ j < k => 10 * 10^j <= 10^k
<1>1. k - j \in Nat /\ j + (k - j) = k /\ j \in FloatExponents /\ k - j \in FloatExponents
  BY FloatPrintAssumption DEF FloatExponents
<1>2. 10^j \in Nat \ {0} /\ 10^(k - j) \in Nat \ {0}
  BY <1>1, TenNat
<1>3. 10^k = 10^j * 10^(k - j)
  BY <1>1, TenSum
<1>4. \A m, p \in Nat \ {0} : p <= p * m
  OBVIOUS
<1>5. ASSUME j < k PROVE 10 * 10^j <= 10^k
  <2>1. (k - j) - 1 \in FloatExponents /\ ((k - j) - 1) + 1 = k - j
    BY <1>1, <1>5, FloatPrintAssumption DEF FloatExponents
  <2>2. 10^(k - j) = 10 * 10^((k - j) - 1) /\ 10^((k - j) - 1) \in Nat \ {0}
    BY <1>1, <2>1, TenNext, TenNat
  <2>3. \A m, p \in Nat \ {0} : 10 * p <= p * (10 * m)
    <3>1. ASSUME NEW m \in Nat \ {0}, NEW p \in Nat \ {0} PROVE 10 * p <= p * (10 * m)
      <4>1. p <= p * m /\ p * (10 * m) = 10 * (p * m)
        OBVIOUS
      <4> QED BY <4>1
    <3> QED BY <3>1
  <2> QED BY <1>2, <1>3, <2>2, <2>3
<1> QED BY <1>1, <1>2, <1>3, <1>4, <1>5

-----------------------------------------------------------------------------
(* Powers of two, as far as the shifts searched.                           *)

Shifts == 0..MaxShift

LEMMA TwoNat == \A k \in Shifts : 2^k \in Nat \ {0}
<1> DEFINE bad == {k \in Shifts : 2^k \notin Nat \ {0}}
<1>1. SUFFICES ASSUME bad # {} PROVE FALSE
  OBVIOUS
<1>2. bad \in SUBSET Nat
  BY FloatPrintAssumption DEF Shifts
<1>3. PICK k \in bad : \A j \in bad : k <= j
  BY <1>1, <1>2, LeastNat
<1>4. k \in Nat /\ k # 0
  <2>1. 0 \notin bad
    BY TwosAssumption
  <2> QED BY <1>2, <2>1, Zenon
<1>5. k - 1 \in 0..MaxShift - 1 /\ k - 1 \in Shifts /\ ~(k <= k - 1)
  BY <1>4, FloatPrintAssumption DEF Shifts
<1>6. 2^(k - 1) \in Nat \ {0}
  BY <1>3, <1>5
<1>7. 2^((k - 1) + 1) = 2 * 2^(k - 1) /\ (k - 1) + 1 = k
  BY <1>4, <1>5, TwosAssumption
<1>8. 2^k \in Nat \ {0}
  BY <1>4, <1>6, <1>7
<1> QED BY <1>8

LEMMA TwoNext ==
  ASSUME NEW k \in Shifts, k + 1 \in Shifts
  PROVE  2^(k + 1) = 2 * 2^k
<1>1. k \in 0..MaxShift - 1
  BY FloatPrintAssumption DEF Shifts
<1> QED BY <1>1, TwosAssumption

LEMMA TwoSum ==
  ASSUME NEW j \in Nat
  PROVE  \A k \in Nat : j + k \in Shifts => 2^(j + k) = 2^j * 2^k
<1> DEFINE bad == {k \in Nat : j + k \in Shifts /\ 2^(j + k) # 2^j * 2^k}
<1>1. SUFFICES ASSUME bad # {} PROVE FALSE
  OBVIOUS
<1>2. PICK k \in bad : \A i \in bad : k <= i
  BY <1>1, LeastNat
<1>3. k \in Nat /\ j + k \in Shifts
  OBVIOUS
<1>4. j \in Shifts /\ k \in Shifts
  BY <1>3, FloatPrintAssumption DEF Shifts
<1>5. 2^j \in Nat \ {0} /\ 2^k \in Nat \ {0}
  BY <1>4, TwoNat
<1>6. k # 0
  <2>1. j + 0 = j /\ 2^j * 1 = 2^j
    BY <1>5
  <2> QED BY <2>1, TwosAssumption
<1> DEFINE l == k - 1
<1>7. /\ l \in Nat /\ l + 1 = k /\ l + 1 \in Shifts
      /\ (j + l) + 1 = j + k /\ (j + l) + 1 \in Shifts
      /\ j + l \in Shifts /\ l \in Shifts /\ ~(k <= l)
  BY <1>3, <1>6, FloatPrintAssumption DEF Shifts
<1> HIDE DEF l
<1>8. 2^(j + l) = 2^j * 2^l
  BY <1>2, <1>7
<1>9. 2^k = 2 * 2^l /\ 2^(j + k) = 2 * 2^(j + l)
  BY <1>7, TwoNext
<1>10. 2^l \in Nat \ {0}
  BY <1>7, TwoNat
<1>11. \A p, q \in Nat : 2 * (p * q) = p * (2 * q)
  OBVIOUS
<1>12. 2^(j + k) = 2^j * 2^k
  BY <1>5, <1>8, <1>9, <1>10, <1>11
<1> QED BY <1>12

(* Of two powers of two, one is a multiple of the other: less than twice   *)
(* it only when it is no more.                                             *)
LEMMA TwoDivides ==
  ASSUME NEW j \in Shifts, NEW k \in Shifts
  PROVE  /\ 2^j \in Nat \ {0} /\ 2^k \in Nat \ {0}
         /\ k <= j => \E t \in Nat : 2^j = t * 2^k
         /\ j < k => 2 * 2^j <= 2^k
<1>1. 2^j \in Nat \ {0} /\ 2^k \in Nat \ {0} /\ j \in Nat /\ k \in Nat /\ MaxShift \in Nat
  BY TwoNat, FloatPrintAssumption DEF Shifts
<1>2. ASSUME k <= j PROVE \E t \in Nat : 2^j = t * 2^k
  <2>1. j - k \in Shifts /\ k \in Nat /\ k + (j - k) = j /\ j - k \in Nat
    BY <1>1, <1>2 DEF Shifts
  <2>2. 2^j = 2^k * 2^(j - k) /\ 2^(j - k) \in Nat
    BY <2>1, TwoSum, TwoNat
  <2>3. 2^k * 2^(j - k) = 2^(j - k) * 2^k
    BY <1>1, <2>2
  <2> QED BY <2>2, <2>3
<1>3. ASSUME j < k PROVE 2 * 2^j <= 2^k
  <2>1. /\ j + 1 \in Shifts /\ k - (j + 1) \in Shifts /\ j + 1 \in Nat
        /\ (j + 1) + (k - (j + 1)) = k /\ k - (j + 1) \in Nat
    BY <1>1, <1>3 DEF Shifts
  <2>2. 2^k = 2^(j + 1) * 2^(k - (j + 1)) /\ 2^(k - (j + 1)) \in Nat \ {0}
    BY <2>1, TwoSum, TwoNat
  <2>3. 2^(j + 1) = 2 * 2^j /\ 2^(j + 1) \in Nat
    BY <1>1, <2>1, TwoNext
  <2>4. \A p \in Nat, q \in Nat \ {0} : p <= p * q
    OBVIOUS
  <2> QED BY <2>2, <2>3, <2>4
<1> QED BY <1>1, <1>2, <1>3

-----------------------------------------------------------------------------
(* Fractions.                                                              *)

IsMagnitude(m) == m.num \in Nat \ {0} /\ m.den \in Nat \ {0}

NotAbove(x, y) == x.num * y.den <= y.num * x.den
Enlarged(x, k) == Rat(x.num * k, x.den)
Reduced(x, k) == Rat(x.num, x.den * k)

LEMMA Scales ==
  /\ \A x, y \in Int : \A z \in Nat \ {0} : x <= y <=> x * z <= y * z
  /\ \A x, y \in Nat \ {0} : x * y \in Nat \ {0}
OBVIOUS

LEMMA AreMagnitudes ==
  ASSUME NEW x, IsMagnitude(x), NEW k \in Nat \ {0}
  PROVE  /\ IsMagnitude(Enlarged(x, k)) /\ IsMagnitude(Reduced(x, k))
         /\ Enlarged(x, k).num = x.num * k /\ Enlarged(x, k).den = x.den
         /\ Reduced(x, k).num = x.num /\ Reduced(x, k).den = x.den * k
<1> DEFINE a == x.num
           b == x.den
<1>1. a \in Nat \ {0} /\ b \in Nat \ {0}
  BY DEF IsMagnitude
<1>2. /\ Enlarged(x, k).num = a * k /\ Enlarged(x, k).den = b
      /\ Reduced(x, k).num = a /\ Reduced(x, k).den = b * k
  BY DEF Enlarged, Reduced, Rat
<1> HIDE DEF a, b
<1>3. a * k \in Nat \ {0} /\ b * k \in Nat \ {0}
  BY <1>1, Scales
<1>4. IsMagnitude(Enlarged(x, k)) /\ IsMagnitude(Reduced(x, k))
  BY <1>1, <1>2, <1>3 DEF IsMagnitude
<1> QED BY <1>2, <1>4 DEF a, b

LEMMA Ordered ==
  ASSUME NEW x, NEW y, NEW z, IsMagnitude(x), IsMagnitude(y), IsMagnitude(z)
  PROVE  /\ NotAbove(x, x)
         /\ NotAbove(x, y) \/ NotAbove(y, x)
         /\ NotAbove(x, y) <=> ~Less(y, x)
         /\ NotAbove(x, y) /\ NotAbove(y, z) => NotAbove(x, z)
<1> DEFINE a == x.num
           b == x.den
           c == y.num
           d == y.den
           e == z.num
           f == z.den
<1>1. /\ a \in Nat /\ b \in Nat \ {0} /\ c \in Nat /\ d \in Nat \ {0} /\ e \in Nat
      /\ f \in Nat \ {0}
  BY DEF IsMagnitude
<1>2. /\ NotAbove(x, x) <=> a * b <= a * b
      /\ NotAbove(x, y) <=> a * d <= c * b
      /\ NotAbove(y, x) <=> c * b <= a * d
      /\ NotAbove(y, z) <=> c * f <= e * d
      /\ NotAbove(x, z) <=> a * f <= e * b
      /\ Less(y, x) <=> c * b < a * d
  BY DEF NotAbove, Less
<1> HIDE DEF a, b, c, d, e, f
<1>3. a * b \in Nat /\ a * d \in Nat /\ c * b \in Nat /\ c * f \in Nat /\ e * d \in Nat
      /\ a * f \in Nat /\ e * b \in Nat
  BY <1>1
<1>4. ASSUME a * d <= c * b, c * f <= e * d PROVE a * f <= e * b
  <2>1. (a * d) * f <= (c * b) * f
    BY <1>1, <1>3, <1>4, Scales
  <2>2. (c * f) * b <= (e * d) * b
    BY <1>1, <1>3, <1>4, Scales
  <2>3. (a * d) * f = (a * f) * d /\ (c * b) * f = (c * f) * b /\ (e * d) * b = (e * b) * d
    BY <1>1
  <2>4. (a * f) * d <= (e * b) * d
    <3>1. (a * f) * d \in Int /\ (c * f) * b \in Int /\ (e * b) * d \in Int
      BY <1>1, <1>3
    <3> QED BY <2>1, <2>2, <2>3, <3>1
  <2> QED BY <1>1, <1>3, <2>4, Scales
<1>5. /\ a * b <= a * b
      /\ a * d <= c * b \/ c * b <= a * d
      /\ a * d <= c * b <=> ~(c * b < a * d)
  BY <1>3
<1> QED BY <1>2, <1>4, <1>5

(* Both sides of an order multiplied or divided, and a factor moved across.*)
LEMMA ScalesOrder ==
  ASSUME NEW x, NEW y, IsMagnitude(x), IsMagnitude(y), NEW k \in Nat \ {0}
  PROVE  /\ NotAbove(x, y) <=> NotAbove(Enlarged(x, k), Enlarged(y, k))
         /\ NotAbove(x, y) <=> NotAbove(Reduced(x, k), Reduced(y, k))
         /\ NotAbove(Enlarged(x, k), y) <=> NotAbove(x, Reduced(y, k))
         /\ NotAbove(Reduced(x, k), y) <=> NotAbove(x, Enlarged(y, k))
<1> DEFINE a == x.num
           b == x.den
           c == y.num
           d == y.den
<1>1. a \in Nat /\ b \in Nat \ {0} /\ c \in Nat /\ d \in Nat \ {0}
  BY DEF IsMagnitude
<1>2. /\ NotAbove(x, y) <=> a * d <= c * b
      /\ NotAbove(Enlarged(x, k), Enlarged(y, k)) <=> (a * k) * d <= (c * k) * b
      /\ NotAbove(Reduced(x, k), Reduced(y, k)) <=> a * (d * k) <= c * (b * k)
      /\ NotAbove(Enlarged(x, k), y) <=> (a * k) * d <= c * b
      /\ NotAbove(x, Reduced(y, k)) <=> a * (d * k) <= c * b
      /\ NotAbove(Reduced(x, k), y) <=> a * d <= c * (b * k)
      /\ NotAbove(x, Enlarged(y, k)) <=> a * d <= (c * k) * b
  BY DEF NotAbove, Enlarged, Reduced, Rat
<1> HIDE DEF a, b, c, d
<1>3. /\ (a * k) * d = (a * d) * k /\ (c * k) * b = (c * b) * k
      /\ a * (d * k) = (a * d) * k /\ c * (b * k) = (c * b) * k
      /\ a * d \in Int /\ c * b \in Int
  BY <1>1
<1>4. a * d <= c * b <=> (a * d) * k <= (c * b) * k
  BY <1>3, Scales
<1> QED BY <1>2, <1>3, <1>4

\* Of one value, whatever its terms.
SameValue(x, y) == NotAbove(x, y) /\ NotAbove(y, x)

LEMMA ScaledTwice ==
  ASSUME NEW x, IsMagnitude(x), NEW j \in Nat \ {0}, NEW k \in Nat \ {0}
  PROVE  /\ SameValue(Enlarged(Enlarged(x, j), k), Enlarged(x, j * k))
         /\ SameValue(Reduced(Reduced(x, j), k), Reduced(x, j * k))
         /\ SameValue(Reduced(Enlarged(x, j), j), x)
         /\ SameValue(Enlarged(Reduced(x, j), j), x)
         /\ SameValue(Reduced(Enlarged(x, j * k), k), Enlarged(x, j))
         /\ SameValue(Enlarged(x, 1), x) /\ SameValue(Reduced(x, 1), x)
<1> DEFINE a == x.num
           b == x.den
<1>1. a \in Nat /\ b \in Nat \ {0}
  BY DEF IsMagnitude
<1>2. /\ Enlarged(Enlarged(x, j), k) = Rat((a * j) * k, b)
      /\ Enlarged(x, j * k) = Rat(a * (j * k), b)
      /\ Reduced(Reduced(x, j), k) = Rat(a, (b * j) * k) /\ Reduced(x, j * k) = Rat(a, b * (j * k))
      /\ Reduced(Enlarged(x, j), j) = Rat(a * j, b * j)
      /\ Enlarged(Reduced(x, j), j) = Rat(a * j, b * j)
      /\ Reduced(Enlarged(x, j * k), k) = Rat(a * (j * k), b * k) /\ Enlarged(x, j) = Rat(a * j, b)
      /\ Enlarged(x, 1) = Rat(a * 1, b) /\ Reduced(x, 1) = Rat(a, b * 1)
  BY DEF Enlarged, Reduced, Rat
<1>3. \A p, q, r, s \in Int : p * s = r * q => SameValue(Rat(p, q), Rat(r, s))
  BY DEF SameValue, NotAbove, Rat
<1>4. \A p, q \in Int : p * b = a * q => SameValue(Rat(p, q), x)
  BY <1>1 DEF SameValue, NotAbove, Rat
<1> HIDE DEF a, b
<1>5. /\ (a * j) * k \in Int /\ a * (j * k) \in Int /\ (b * j) * k \in Int /\ b * (j * k) \in Int
      /\ a * j \in Int /\ b * j \in Int /\ b * k \in Int /\ a * 1 \in Int /\ b * 1 \in Int
  BY <1>1
<1>6. /\ ((a * j) * k) * b = (a * (j * k)) * b
      /\ a * (b * (j * k)) = a * ((b * j) * k)
      /\ (a * j) * b = a * (b * j)
      /\ (a * (j * k)) * b = (a * j) * (b * k)
      /\ (a * 1) * b = a * b /\ a * (b * 1) = a * b
  BY <1>1
<1> QED BY <1>1, <1>2, <1>3, <1>4, <1>5, <1>6

-----------------------------------------------------------------------------
(* Fractions that roundings tell apart.                                    *)

Unit == 2^Significand
HalfUnit == 2^(Significand - 1)

LEMMA Units ==
  /\ Significand \in Shifts /\ Significand - 1 \in Shifts
  /\ Unit \in Nat \ {0} /\ HalfUnit \in Nat \ {0} /\ Unit = 2 * HalfUnit
<1>1. /\ Significand \in Shifts /\ Significand - 1 \in Shifts
      /\ (Significand - 1) + 1 = Significand
  BY FloatPrintAssumption DEF Shifts
<1>2. 2^Significand = 2 * 2^(Significand - 1) /\ 2^(Significand - 1) \in Nat \ {0}
  BY <1>1, TwoNext, TwoNat
<1> QED BY <1>1, <1>2 DEF Unit, HalfUnit

LEMMA NearlyIs ==
  ASSUME NEW x, NEW y, NEW j
  PROVE  NearlyAtMost(x, y, j)
           <=> (Unit - j) * x.num * y.den <= Unit * y.num * x.den
BY DEF NearlyAtMost, Unit

LEMMA NearlyOrdered ==
  ASSUME NEW x, NEW y, IsMagnitude(x), IsMagnitude(y), NEW j \in Nat, NEW k \in Nat
  PROVE  /\ NotAbove(x, y) => NearlyAtMost(x, y, j)
         /\ j <= k /\ NearlyAtMost(x, y, j) => NearlyAtMost(x, y, k)
         /\ NearlyAtMost(x, y, j) /\ 2 * j <= Unit => NotAbove(x, Enlarged(y, 2))
<1> DEFINE p == x.num * y.den
           q == y.num * x.den
           U == Unit
<1>1. p \in Nat /\ q \in Nat /\ x.num \in Nat /\ y.num \in Nat /\ x.den \in Nat /\ y.den \in Nat
  BY DEF IsMagnitude
<1>2. U \in Nat \ {0}
  BY Units
<1>3. ASSUME NEW i \in Nat PROVE NearlyAtMost(x, y, i) <=> U * p - i * p <= U * q
  <2>1. \A w, a, b \in Nat, v \in Int : v * a * b = v * (a * b) /\ (w - i) * a = w * a - i * a
    OBVIOUS
  <2>2. U - i \in Int
    BY <1>2, <1>3
  <2>3. (U - i) * x.num * y.den = (U - i) * p /\ U * y.num * x.den = U * q
    BY <1>1, <1>2, <2>1, <2>2
  <2>4. (U - i) * p = U * p - i * p
    <3> HIDE DEF p, U
    <3> QED BY <1>1, <1>2, <2>1
  <2> QED BY <2>3, <2>4, NearlyIs
<1>4. NotAbove(x, y) <=> p <= q
  BY DEF NotAbove
<1>5. NotAbove(x, Enlarged(y, 2)) <=> p <= 2 * q
  <2>1. NotAbove(x, Enlarged(y, 2)) <=> x.num * y.den <= (y.num * 2) * x.den
    BY DEF NotAbove, Enlarged, Rat
  <2>2. (y.num * 2) * x.den = 2 * q
    BY <1>1
  <2> QED BY <2>1, <2>2
<1> HIDE DEF p, q, U
<1>6. U * p \in Nat /\ U * q \in Nat /\ j * p \in Nat /\ k * p \in Nat
  BY <1>1, <1>2
<1>7. ASSUME p <= q PROVE U * p - j * p <= U * q
  <2>1. p * U <= q * U /\ p * U = U * p /\ q * U = U * q
    BY <1>1, <1>2, <1>7, Scales
  <2> QED BY <1>6, <2>1
<1>8. ASSUME j <= k PROVE j * p <= k * p
  <2>1. CASE p = 0
    BY <2>1
  <2>2. CASE p # 0
    BY <1>1, <1>8, <2>2, Scales
  <2> QED BY <2>1, <2>2
<1>9. ASSUME U * p - j * p <= U * q, 2 * j <= U PROVE p <= 2 * q
  <2>1. 2 * (j * p) <= U * p
    <3>1. CASE p = 0
      BY <1>6, <3>1
    <3>2. CASE p # 0
      <4>1. (2 * j) * p <= U * p /\ (2 * j) * p = 2 * (j * p)
        BY <1>1, <1>2, <1>9, <3>2, Scales
      <4> QED BY <4>1
    <3> QED BY <3>1, <3>2
  <2>2. U * p <= 2 * (U * q)
    BY <1>6, <1>9, <2>1
  <2>3. p * U <= (2 * q) * U
    <3>1. p * U = U * p /\ (2 * q) * U = 2 * (U * q)
      BY <1>1, <1>2
    <3> QED BY <2>2, <3>1
  <2> QED BY <1>1, <1>2, <2>3, Scales
<1>10. /\ NearlyAtMost(x, y, j) <=> U * p - j * p <= U * q
       /\ NearlyAtMost(x, y, k) <=> U * p - k * p <= U * q
  BY <1>3
<1>11. NotAbove(x, y) => NearlyAtMost(x, y, j)
  BY <1>4, <1>7, <1>10
<1>12. j <= k /\ NearlyAtMost(x, y, j) => NearlyAtMost(x, y, k)
  BY <1>6, <1>8, <1>10
<1>13. NearlyAtMost(x, y, j) /\ 2 * j <= U => NotAbove(x, Enlarged(y, 2))
  BY <1>5, <1>9, <1>10
<1> QED BY <1>11, <1>12, <1>13 DEF U

LEMMA NearlyChain ==
  ASSUME NEW x, NEW y, NEW z, IsMagnitude(x), IsMagnitude(y), IsMagnitude(z),
         NEW j \in Nat, NEW k \in Nat, j + k <= Unit,
         NearlyAtMost(x, y, j), NearlyAtMost(y, z, k)
  PROVE  NearlyAtMost(x, z, j + k)
<1> DEFINE a == x.num
           b == x.den
           c == y.num
           d == y.den
           e == z.num
           f == z.den
           U == Unit
           s == U - j
           t == U - k
           w == U - (j + k)
<1>1. /\ a \in Nat /\ b \in Nat \ {0} /\ c \in Nat /\ d \in Nat \ {0} /\ e \in Nat
      /\ f \in Nat \ {0} /\ U \in Nat \ {0} /\ s \in Nat /\ t \in Nat /\ w \in Nat
  BY Units DEF IsMagnitude
<1>2. /\ s * a * d <= U * c * b /\ t * c * f <= U * e * d
      /\ NearlyAtMost(x, z, j + k) <=> w * a * f <= U * e * b
  BY NearlyIs
<1>3. U * w <= s * t
  <2>1. s * t = U * w + j * k
    BY <1>1
  <2>2. j * k \in Nat /\ U * w \in Nat
    BY <1>1
  <2> QED BY <1>1, <2>1, <2>2
<1> HIDE DEF a, b, c, d, e, f, U, s, t, w
<1>4. \A p, q \in Nat : \A r \in Nat : p <= q => p * r <= q * r
  <2> SUFFICES ASSUME NEW p \in Nat, NEW q \in Nat, NEW r \in Nat, p <= q PROVE p * r <= q * r
    OBVIOUS
  <2>1. CASE r = 0
    BY <2>1
  <2>2. CASE r # 0
    BY <2>2, Scales
  <2> QED BY <2>1, <2>2
<1>5. (s * a * d) * (t * f) <= (U * c * b) * (t * f)
  <2>1. s * a * d \in Nat /\ U * c * b \in Nat /\ t * f \in Nat
    BY <1>1
  <2> QED BY <1>2, <1>4, <2>1
<1>6. (t * c * f) * (U * b) <= (U * e * d) * (U * b)
  <2>1. t * c * f \in Nat /\ U * e * d \in Nat /\ U * b \in Nat
    BY <1>1
  <2> QED BY <1>2, <1>4, <2>1
<1> DEFINE A == a * f
           E == e * b
<1>7. /\ (s * a * d) * (t * f) = ((s * t) * A) * d
      /\ (U * c * b) * (t * f) = (t * c * f) * (U * b)
      /\ (U * e * d) * (U * b) = ((U * U) * E) * d
      /\ w * a * f = w * A /\ U * e * b = U * E
  BY <1>1
<1>8. A \in Nat /\ E \in Nat /\ s * t \in Nat /\ U * U \in Nat /\ U * w \in Nat
  BY <1>1
<1> HIDE DEF A, E
<1>9. (s * t) * A <= (U * U) * E
  <2>1. (s * t) * A \in Int /\ (U * U) * E \in Int
    BY <1>8
  <2>2. ((s * t) * A) * d \in Int /\ ((U * U) * E) * d \in Int /\ (t * c * f) * (U * b) \in Int
    BY <1>1, <1>8
  <2>3. ((s * t) * A) * d <= ((U * U) * E) * d
    BY <1>5, <1>6, <1>7, <2>2
  <2> QED BY <1>1, <2>1, <2>3, Scales
<1>10. (U * w) * A <= (s * t) * A
  BY <1>3, <1>4, <1>8
<1>11. (w * A) * U <= (U * E) * U
  <2>1. (U * w) * A = (w * A) * U /\ (U * U) * E = (U * E) * U
    BY <1>1, <1>8
  <2>2. (U * w) * A \in Int /\ (s * t) * A \in Int /\ (U * U) * E \in Int
    BY <1>1, <1>8
  <2> QED BY <1>9, <1>10, <2>1, <2>2
<1>12. w * A <= U * E
  <2>1. w * A \in Int /\ U * E \in Int
    BY <1>1, <1>8
  <2> QED BY <1>1, <1>11, <2>1, Scales
<1> QED BY <1>2, <1>7, <1>12

\* Apart by so many roundings at most.
Near(x, y, k) == NearlyAtMost(x, y, k) /\ NearlyAtMost(y, x, k)

LEMMA NearScales ==
  ASSUME NEW x, NEW y, IsMagnitude(x), IsMagnitude(y), NEW j \in Nat, NEW k \in Nat \ {0}
  PROVE  /\ NearlyAtMost(x, y, j) => NearlyAtMost(Enlarged(x, k), Enlarged(y, k), j)
         /\ NearlyAtMost(x, y, j) => NearlyAtMost(Reduced(x, k), Reduced(y, k), j)
<1> DEFINE a == x.num
           b == x.den
           c == y.num
           d == y.den
           U == Unit
           s == U - j
<1>1. /\ a \in Nat /\ b \in Nat \ {0} /\ c \in Nat /\ d \in Nat \ {0} /\ U \in Nat /\ s \in Int
  BY Units DEF IsMagnitude
<1>2. /\ NearlyAtMost(x, y, j) <=> s * a * d <= U * c * b
      /\ NearlyAtMost(Enlarged(x, k), Enlarged(y, k), j) <=> s * (a * k) * d <= U * (c * k) * b
      /\ NearlyAtMost(Reduced(x, k), Reduced(y, k), j) <=> s * a * (d * k) <= U * c * (b * k)
  BY DEF NearlyAtMost, Unit, Enlarged, Reduced, Rat
<1> HIDE DEF a, b, c, d, U, s
<1>3. /\ s * (a * k) * d = (s * a * d) * k /\ U * (c * k) * b = (U * c * b) * k
      /\ s * a * (d * k) = (s * a * d) * k /\ U * c * (b * k) = (U * c * b) * k
      /\ s * a * d \in Int /\ U * c * b \in Int
  BY <1>1
<1>4. s * a * d <= U * c * b <=> (s * a * d) * k <= (U * c * b) * k
  BY <1>3, Scales
<1> QED BY <1>2, <1>3, <1>4

LEMMA Nears ==
  ASSUME NEW x, NEW y, NEW z, IsMagnitude(x), IsMagnitude(y), IsMagnitude(z),
         NEW j \in Nat, NEW k \in Nat, j + k <= Unit
  PROVE  /\ SameValue(x, y) => Near(x, y, j)
         /\ Near(x, y, j) /\ j <= k => Near(x, y, k)
         /\ Near(x, y, j) /\ Near(y, z, k) => Near(x, z, j + k)
         /\ Near(x, y, j) /\ SameValue(y, z) => Near(x, z, j)
         /\ NearlyAtMost(x, y, j) /\ NotAbove(y, z) => NearlyAtMost(x, z, j)
         /\ NotAbove(x, y) /\ NearlyAtMost(y, z, j) => NearlyAtMost(x, z, j)
<1>1. k + j <= Unit /\ j + k = k + j /\ j + 0 = j /\ 0 + j = j /\ j <= Unit
  BY Units
<1>2. SameValue(x, y) => Near(x, y, j)
  BY NearlyOrdered DEF SameValue, Near
<1>3. Near(x, y, j) /\ j <= k => Near(x, y, k)
  BY NearlyOrdered DEF Near
<1>4. Near(x, y, j) /\ Near(y, z, k) => Near(x, z, j + k)
  <2> SUFFICES ASSUME Near(x, y, j), Near(y, z, k) PROVE Near(x, z, j + k)
    OBVIOUS
  <2>1. NearlyAtMost(x, z, j + k)
    BY NearlyChain DEF Near
  <2>2. NearlyAtMost(z, x, k + j)
    BY <1>1, NearlyChain DEF Near
  <2> QED BY <1>1, <2>1, <2>2 DEF Near
<1>5. NearlyAtMost(x, y, j) /\ NotAbove(y, z) => NearlyAtMost(x, z, j)
  <2> SUFFICES ASSUME NearlyAtMost(x, y, j), NotAbove(y, z) PROVE NearlyAtMost(x, z, j + 0)
    BY <1>1
  <2>1. NearlyAtMost(y, z, 0) /\ j + 0 <= Unit /\ 0 \in Nat
    BY <1>1, NearlyOrdered
  <2> QED BY <2>1, NearlyChain
<1>6. NotAbove(x, y) /\ NearlyAtMost(y, z, j) => NearlyAtMost(x, z, j)
  <2> SUFFICES ASSUME NotAbove(x, y), NearlyAtMost(y, z, j) PROVE NearlyAtMost(x, z, 0 + j)
    BY <1>1
  <2>1. NearlyAtMost(x, y, 0) /\ 0 + j <= Unit /\ 0 \in Nat
    BY <1>1, NearlyOrdered
  <2> QED BY <2>1, NearlyChain
<1>7. Near(x, y, j) /\ SameValue(y, z) => Near(x, z, j)
  <2> SUFFICES ASSUME Near(x, y, j), SameValue(y, z)
               PROVE  NearlyAtMost(x, z, j) /\ NearlyAtMost(z, x, 0 + j)
    BY <1>1 DEF Near
  <2>1. NearlyAtMost(z, y, 0) /\ 0 + j <= Unit /\ 0 \in Nat
    BY <1>1, NearlyOrdered DEF SameValue
  <2>2. NearlyAtMost(z, x, 0 + j)
    BY <2>1, NearlyChain DEF Near
  <2>3. NearlyAtMost(x, z, j)
    BY <1>5 DEF Near, SameValue
  <2> QED BY <2>2, <2>3
<1> QED BY <1>2, <1>3, <1>4, <1>5, <1>6, <1>7

-----------------------------------------------------------------------------
(* Rounding.                                                               *)

\* The fraction a / b is within a half of c.
WithinHalf(a, b, c) == (2 * c - 1) * b <= 2 * a /\ 2 * a <= (2 * c + 1) * b

LEMMA HalvesRound ==
  ASSUME NEW i \in Nat
  PROVE  (i + 1) \div 2 \in Nat /\ 2 * ((i + 1) \div 2) \in {i, i + 1}
         /\ ((i + 1) \div 2) % 2 = 1 => (i + 1) \div 2 # 0
<1> DEFINE h == (i + 1) \div 2
<1>1. i + 1 \in Nat /\ 2 \in Nat \ {0}
  OBVIOUS
<1>2. h \in Nat /\ (i + 1) % 2 \in 0..2 - 1 /\ i + 1 = h * 2 + ((i + 1) % 2)
  <2> DEFINE j == i + 1
  <2>1. j \in Nat
    OBVIOUS
  <2> HIDE DEF j
  <2>2. j \div 2 \in Nat /\ j % 2 \in 0..2 - 1 /\ j = (j \div 2) * 2 + (j % 2)
    BY <2>1, Quotient
  <2> QED BY <2>2 DEF j
<1> DEFINE r == (i + 1) % 2
<1>3. r \in {0, 1} /\ i + 1 = h * 2 + r
  BY <1>2
<1> HIDE DEF h, r
<1>4. 2 * h \in {i, i + 1}
  BY <1>2, <1>3
<1>5. h % 2 = 1 => h # 0
  OBVIOUS
<1> QED BY <1>2, <1>4, <1>5 DEF h

LEMMA EvenIsNear ==
  ASSUME NEW y, y.num \in Nat, y.den \in Nat \ {0}
  PROVE  NearestEven(y) \in Nat /\ WithinHalf(y.num, y.den, NearestEven(y))
<1> DEFINE c == y.num
           d == y.den
           i == (2 * c) \div d
           h == (i + 1) \div 2
<1>1. c \in Nat /\ d \in Nat \ {0}
  OBVIOUS
<1>2. Nearest(y) = h
  BY DEF Nearest, Floor, Rat
<1>3. Halfway(h, y) <=> 2 * (h * d - c) = d
  BY DEF Halfway
<1> HIDE DEF c, d
<1>4. i \in Nat /\ i * d <= 2 * c /\ 2 * c < (i + 1) * d
  <2> DEFINE t == 2 * c
  <2>1. t \in Nat
    BY <1>1
  <2>2. i = t \div d
    OBVIOUS
  <2> HIDE DEF t, i
  <2>3. i \in Nat /\ t % d \in 0..d - 1 /\ t = i * d + (t % d)
    BY <1>1, <2>1, <2>2, Quotient
  <2>4. (i + 1) * d = i * d + d /\ i * d \in Nat
    BY <1>1, <2>3
  <2>5. i \in Nat /\ i * d <= t /\ t < (i + 1) * d
    BY <1>1, <2>3, <2>4
  <2> QED BY <2>5 DEF t
<1> HIDE DEF i
<1>5. h \in Nat /\ 2 * h \in {i, i + 1} /\ (h % 2 = 1 => h # 0)
  BY <1>4, HalvesRound
<1> HIDE DEF h
<1> DEFINE w == h * d
           v == i * d
<1>6. w \in Nat /\ v \in Nat /\ (i + 1) * d = v + d /\ 2 * w \in {v, v + d}
  <2>1. (2 * h) * d = 2 * (h * d) /\ (i + 1) * d = i * d + d
    BY <1>1, <1>4, <1>5
  <2>2. h * d \in Nat /\ i * d \in Nat
    BY <1>1, <1>4, <1>5
  <2> QED BY <1>5, <2>1, <2>2
<1>7. v <= 2 * c /\ 2 * c < v + d /\ (2 * (w - c) = d <=> Halfway(h, y))
  BY <1>3, <1>4, <1>6
<1>8. /\ (2 * h - 1) * d = 2 * w - d /\ (2 * h + 1) * d = 2 * w + d
      /\ (2 * (h - 1) - 1) * d = 2 * w - 3 * d /\ (2 * (h - 1) + 1) * d = 2 * w - d
  BY <1>1, <1>5
<1> HIDE DEF w, v
<1>10. WithinHalf(c, d, h)
  BY <1>1, <1>6, <1>7, <1>8 DEF WithinHalf
<1>11. ASSUME 2 * (w - c) = d PROVE WithinHalf(c, d, h - 1)
  BY <1>1, <1>6, <1>8, <1>11 DEF WithinHalf
<1>12. NearestEven(y) = IF h % 2 = 1 /\ Halfway(h, y) THEN h - 1 ELSE h
  BY <1>2 DEF NearestEven
<1>13. CASE h % 2 = 1 /\ Halfway(h, y)
  <2>1. WithinHalf(c, d, h - 1) /\ h - 1 \in Nat /\ NearestEven(y) = h - 1
    BY <1>5, <1>7, <1>11, <1>12, <1>13
  <2> QED BY <2>1 DEF c, d
<1>14. CASE ~(h % 2 = 1 /\ Halfway(h, y))
  <2>1. WithinHalf(c, d, h) /\ h \in Nat /\ NearestEven(y) = h
    BY <1>5, <1>10, <1>12, <1>14
  <2> QED BY <2>1 DEF c, d
<1> QED BY <1>13, <1>14

LEMMA BetweenIntegers ==
  ASSUME NEW a \in Nat, NEW b \in Nat \ {0}, NEW c \in Int, WithinHalf(a, b, c), NEW k \in Int
  PROVE  /\ k * b <= a => k <= c
         /\ a <= k * b => c <= k
<1>1. (2 * c - 1) * b = 2 * (c * b) - b /\ (2 * c + 1) * b = 2 * (c * b) + b
  OBVIOUS
<1>2. c * b \in Int /\ k * b \in Int
  OBVIOUS
<1>3. ASSUME k * b <= a, c < k PROVE FALSE
  <2>1. (c + 1) * b <= k * b
    <3>1. \A x, z \in Int : \A p \in Nat \ {0} : x <= z => x * p <= z * p
      OBVIOUS
    <3> QED BY <1>3, <3>1
  <2>2. (c + 1) * b = c * b + b
    OBVIOUS
  <2> QED BY <1>1, <1>2, <1>3, <2>1, <2>2 DEF WithinHalf
<1>4. ASSUME a <= k * b, k < c PROVE FALSE
  <2>1. (k + 1) * b <= c * b
    <3>1. \A x, z \in Int : \A p \in Nat \ {0} : x <= z => x * p <= z * p
      OBVIOUS
    <3> QED BY <1>4, <3>1
  <2>2. (k + 1) * b = k * b + b
    OBVIOUS
  <2> QED BY <1>1, <1>2, <1>4, <2>1, <2>2 DEF WithinHalf
<1> QED BY <1>3, <1>4

LEMMA FirstIn ==
  ASSUME NEW M \in Nat, NEW S, NEW k \in 0..M, k \in S
  PROVE  \E t \in 0..M : t \in S /\ t <= k /\ \A l \in 0..t - 1 : l \notin S
<1> DEFINE T == S \cap (0..M)
<1>1. T \in SUBSET Nat /\ k \in T
  OBVIOUS
<1>2. PICK t \in T : \A l \in T : t <= l
  <2> HIDE DEF T
  <2> QED BY <1>1, LeastNat
<1>3. t \in 0..M /\ t \in S /\ t <= k
  BY <1>1, <1>2
<1>4. ASSUME NEW l \in 0..t - 1 PROVE l \notin S
  <2>1. l \in 0..M /\ ~(t <= l)
    BY <1>3
  <2> QED BY <1>2, <2>1
<1> QED BY <1>3, <1>4

Widest == 2^MaxShift

\* Not too small nor too large to round.
InRange(x) ==
  IsMagnitude(x) /\ Unit * x.den <= x.num * Widest /\ x.num <= x.den * Widest

LEMMA WidestIs == Widest \in Nat \ {0} /\ MaxShift \in Shifts /\ 0 \in Shifts /\ 2^0 = 1
<1>1. MaxShift \in Shifts /\ 0 \in Shifts
  BY FloatPrintAssumption DEF Shifts
<1> QED BY <1>1, TwoNat, TwosAssumption DEF Widest

(* What a fraction is shifted by makes a significand of it.                *)
IsSignificand(x, u, d) ==
  /\ u \in Shifts /\ d \in Shifts /\ (u = 0 \/ d = 0)
  /\ HalfUnit * (x.den * 2^d) <= x.num * 2^u
  /\ x.num * 2^u < Unit * (x.den * 2^d)

LEMMA ShiftsToUnit ==
  ASSUME NEW x, InRange(x)
  PROVE  IsSignificand(x, Up(x), Down(x))
<1> DEFINE a == x.num
           b == x.den
           U == Unit
           H == HalfUnit
           u == Up(x)
           d == Down(x)
           E(k) == a * 2^k >= H * b
           F(k) == a < U * b * 2^k
<1>1. /\ a \in Nat \ {0} /\ b \in Nat \ {0} /\ U * b <= a * Widest /\ a <= b * Widest
      /\ U \in Nat \ {0} /\ H \in Nat \ {0} /\ U = 2 * H
  BY Units DEF InRange, IsMagnitude
<1>2. MaxShift \in Nat /\ Widest \in Nat \ {0} /\ MaxShift \in 0..MaxShift /\ Widest = 2^MaxShift
  BY WidestIs, FloatPrintAssumption DEF Widest
<1>3. /\ u = CHOOSE k \in 0..MaxShift : E(k) /\ \A l \in 0..k - 1 : ~E(l)
      /\ d = CHOOSE k \in 0..MaxShift : F(k) /\ \A l \in 0..k - 1 : ~F(l)
  BY DEF Up, Down, Unit, HalfUnit
<1> HIDE DEF a, b, U, H, u, d
<1>4. E(MaxShift)
  <2>1. U * b = H * b + H * b /\ H * b \in Nat /\ a * Widest \in Nat
    BY <1>1, <1>2
  <2> QED BY <1>1, <1>2, <2>1
<1>5. F(MaxShift)
  <2>1. b * Widest < U * b * Widest
    <3>1. \A p \in Nat \ {0} : p < 2 * p
      OBVIOUS
    <3>2. \A p, q \in Nat \ {0} : p <= p * q
      OBVIOUS
    <3>3. b * Widest \in Nat \ {0} /\ U * b * Widest = 2 * ((b * Widest) * H)
          /\ (b * Widest) * H \in Nat
      BY <1>1, <1>2, Scales
    <3>4. b * Widest <= (b * Widest) * H
      BY <1>1, <3>2, <3>3
    <3> QED BY <3>1, <3>3, <3>4
  <2>2. b * Widest \in Nat /\ U * b * Widest \in Nat
    BY <1>1, <1>2
  <2> QED BY <1>1, <1>2, <2>1, <2>2
<1>6. u \in 0..MaxShift /\ E(u) /\ \A l \in 0..u - 1 : ~E(l)
  <2> DEFINE S == {k \in 0..MaxShift : E(k)}
  <2>1. MaxShift \in S
    BY <1>2, <1>4
  <2>2. \E t \in 0..MaxShift : t \in S /\ \A l \in 0..t - 1 : l \notin S
    <3> HIDE DEF S
    <3> QED BY <1>2, <2>1, FirstIn
  <2>3. \E t \in 0..MaxShift : E(t) /\ \A l \in 0..t - 1 : ~E(l)
    <3>1. \A t \in 0..MaxShift : \A l \in 0..t - 1 : l \in 0..MaxShift
      BY <1>2
    <3> HIDE DEF E
    <3> QED BY <2>2, <3>1
  <2> HIDE DEF E
  <2> QED BY <1>3, <2>3
<1>7. d \in 0..MaxShift /\ F(d) /\ \A l \in 0..d - 1 : ~F(l)
  <2> DEFINE S == {k \in 0..MaxShift : F(k)}
  <2>1. MaxShift \in S
    BY <1>2, <1>5
  <2>2. \E t \in 0..MaxShift : t \in S /\ \A l \in 0..t - 1 : l \notin S
    <3> HIDE DEF S
    <3> QED BY <1>2, <2>1, FirstIn
  <2>3. \E t \in 0..MaxShift : F(t) /\ \A l \in 0..t - 1 : ~F(l)
    <3>1. \A t \in 0..MaxShift : \A l \in 0..t - 1 : l \in 0..MaxShift
      BY <1>2
    <3> HIDE DEF F
    <3> QED BY <2>2, <3>1
  <2> HIDE DEF F
  <2> QED BY <1>3, <2>3
<1>8. /\ u \in Nat /\ d \in Nat /\ u \in Shifts /\ d \in Shifts
      /\ 2^u \in Nat \ {0} /\ 2^d \in Nat \ {0}
  BY <1>2, <1>6, <1>7, TwoNat DEF Shifts
<1>9. H * b \in Nat /\ U * b = 2 * (H * b) /\ U * b \in Nat
  BY <1>1
<1>10. CASE u # 0
  <2>1. u - 1 \in 0..u - 1 /\ u - 1 \in Shifts /\ (u - 1) + 1 = u /\ 0 \in 0..u - 1
    BY <1>2, <1>6, <1>8, <1>10 DEF Shifts
  <2>2. 2^u = 2 * 2^(u - 1) /\ 2^(u - 1) \in Nat
    BY <1>8, <2>1, TwoNext, TwoNat
  <2>3. a * 2^(u - 1) < H * b /\ a * 2^u = 2 * (a * 2^(u - 1)) /\ a * 2^(u - 1) \in Nat
    <3>1. a * 2^(u - 1) \in Nat /\ a * 2^u = 2 * (a * 2^(u - 1))
      BY <1>1, <2>2
    <3> QED BY <1>6, <1>9, <2>1, <3>1
  <2>4. a * 2^u < U * b
    BY <1>9, <2>3
  <2>5. a < H * b
    <3>1. ~E(0) /\ 2^0 = 1
      BY <1>6, <2>1, TwosAssumption
    <3> QED BY <1>1, <1>9, <3>1
  <2>6. d = 0 /\ 2^d = 1
    <3>1. U * b * 1 = U * b /\ a < U * b
      BY <1>1, <1>9, <2>5
    <3>2. F(0)
      BY <3>1, TwosAssumption
    <3>3. d # 0 => 0 \in 0..d - 1
      BY <1>8
    <3>4. d = 0
      BY <1>7, <3>2, <3>3
    <3> QED BY <3>4, TwosAssumption
  <2>7. H * (b * 2^d) <= a * 2^u /\ a * 2^u < U * (b * 2^d)
    <3>1. b * 2^d = b
      BY <1>1, <2>6
    <3> QED BY <1>6, <2>4, <3>1
  <2>8. IsSignificand(x, u, d)
    BY <1>8, <2>6, <2>7 DEF IsSignificand, a, b, U, H
  <2> QED BY <2>8 DEF u, d
<1>11. CASE u = 0
  <2>1. 2^u = 1 /\ a * 2^u = a /\ H * b <= a
    <3>1. 2^u = 1
      BY <1>11, TwosAssumption
    <3> QED BY <1>1, <1>6, <1>9, <3>1
  <2>2. a < U * (b * 2^d)
    <3>1. U * b * 2^d = U * (b * 2^d)
      BY <1>1, <1>8
    <3> QED BY <1>7, <3>1
  <2>3. H * (b * 2^d) <= a
    <3>1. CASE d = 0
      <4>1. b * 2^d = b
        BY <1>1, <3>1, TwosAssumption
      <4> QED BY <2>1, <4>1
    <3>2. CASE d # 0
      <4>1. d - 1 \in 0..d - 1 /\ d - 1 \in Shifts /\ (d - 1) + 1 = d
        BY <1>2, <1>7, <1>8, <3>2 DEF Shifts
      <4>2. 2^d = 2 * 2^(d - 1) /\ 2^(d - 1) \in Nat
        BY <1>8, <4>1, TwoNext, TwoNat
      <4>3. U * b * 2^(d - 1) = H * (b * 2^d) /\ H * (b * 2^d) \in Nat
        BY <1>1, <4>2
      <4> QED BY <1>1, <1>7, <4>1, <4>3
    <3> QED BY <3>1, <3>2
  <2>4. IsSignificand(x, u, d)
    BY <1>8, <1>11, <2>1, <2>2, <2>3 DEF IsSignificand, a, b, U, H
  <2> QED BY <2>4 DEF u, d
<1> QED BY <1>10, <1>11

\* The significand m of x rounded, shifted back.
RoundedTo(x, u, d, m) ==
  /\ IsSignificand(x, u, d) /\ m \in HalfUnit..Unit
  /\ WithinHalf(x.num * 2^u, x.den * 2^d, m)
  /\ Rounded(x) = Rat(m * 2^d, 2^u)

LEMMA RoundedIs ==
  ASSUME NEW x, InRange(x)
  PROVE  \E u \in Shifts, d \in Shifts, m \in HalfUnit..Unit : RoundedTo(x, u, d, m)
<1> DEFINE u == Up(x)
           d == Down(x)
           p == x.num * 2^u
           q == x.den * 2^d
           m == NearestEven(Rat(p, q))
<1>1. IsSignificand(x, u, d)
  BY ShiftsToUnit
<1>2. x.num \in Nat \ {0} /\ x.den \in Nat \ {0}
  BY DEF InRange, IsMagnitude
<1>3. Rounded(x) = Rat(m * 2^d, 2^u)
  BY <1>2 DEF Rounded
<1> HIDE DEF u, d
<1>4. /\ u \in Shifts /\ d \in Shifts /\ HalfUnit * q <= p /\ p < Unit * q
  BY <1>1 DEF IsSignificand
<1>5. p \in Nat \ {0} /\ q \in Nat \ {0}
  BY <1>2, <1>4, TwoNat, Scales
<1>6. m \in Nat /\ WithinHalf(p, q, m)
  <2> DEFINE y == Rat(p, q)
  <2>1. y.num = p /\ y.den = q
    BY DEF Rat
  <2> HIDE DEF y, p, q
  <2> QED BY <1>5, <2>1, EvenIsNear DEF y
<1>7. HalfUnit <= m /\ m <= Unit
  <2> HIDE DEF p, q, m
  <2>1. HalfUnit \in Nat /\ Unit \in Nat /\ p <= Unit * q
    <3>1. Unit * q \in Nat
      BY <1>5, Units
    <3> QED BY <1>4, <1>5, <3>1, Units
  <2> QED BY <1>4, <1>5, <1>6, <2>1, BetweenIntegers
<1>8. m \in HalfUnit..Unit
  BY <1>6, <1>7, Units
<1>9. RoundedTo(x, u, d, m)
  <2> HIDE DEF m
  <2> QED BY <1>1, <1>3, <1>6, <1>8 DEF RoundedTo
<1> HIDE DEF m
<1> QED BY <1>4, <1>8, <1>9

\* A magnitude of no more bits than a significand.
Short(c) ==
  /\ IsMagnitude(c)
  /\ \E i \in Shifts, j \in Shifts, k \in 0..Unit :
       (i = 0 \/ j = 0) /\ c.num * 2^i = k * 2^j * c.den

(* Rounding once makes no more of a difference than one rounding.          *)
LEMMA RoundedNear ==
  ASSUME NEW x, InRange(x)
  PROVE  Short(Rounded(x)) /\ Near(Rounded(x), x, 1)
<1> DEFINE U == Unit
           H == HalfUnit
           a == x.num
           b == x.den
<1>1. PICK u \in Shifts, d \in Shifts, m \in H..U : RoundedTo(x, u, d, m)
  BY RoundedIs
<1>2. U \in Nat \ {0} /\ H \in Nat \ {0} /\ U = 2 * H
  BY Units
<1> DEFINE s == 2^u
           t == 2^d
           p == a * s
           q == b * t
<1>3. /\ Rounded(x) = Rat(m * t, s) /\ (u = 0 \/ d = 0)
      /\ H * q <= p /\ (2 * m - 1) * q <= 2 * p /\ 2 * p <= (2 * m + 1) * q
  BY <1>1 DEF RoundedTo, IsSignificand, WithinHalf
<1>4. /\ a \in Nat \ {0} /\ b \in Nat \ {0} /\ s \in Nat \ {0} /\ t \in Nat \ {0}
      /\ m \in Nat \ {0} /\ H <= m /\ m <= U
  BY <1>1, <1>2, TwoNat DEF InRange, IsMagnitude
<1>5. Rounded(x).num = m * t /\ Rounded(x).den = s
  BY <1>3 DEF Rat
<1> HIDE DEF s, t
<1>6. IsMagnitude(Rounded(x))
  BY <1>4, <1>5, Scales DEF IsMagnitude
<1>7. Short(Rounded(x))
  <2>1. (m * t) * s = m * t * s
    OBVIOUS
  <2>2. Rounded(x).num * 2^u = m * 2^d * Rounded(x).den /\ m \in 0..U
    BY <1>2, <1>4, <1>5 DEF s, t
  <2> QED BY <1>3, <1>6, <2>2 DEF Short
<1>8. p \in Nat \ {0} /\ q \in Nat \ {0}
  BY <1>4, Scales
<1>9. NearlyAtMost(Rounded(x), x, 1)
  <2>1. NearlyAtMost(Rounded(x), x, 1) <=> (U - 1) * (m * t) * b <= U * a * s
    BY <1>5, NearlyIs
  <2>2. (U - 1) * (m * t) * b = U * (m * q) - m * q /\ U * a * s = U * p
    BY <1>2, <1>4
  <2>3. 2 * (m * q) - q <= 2 * p
    <3>1. (2 * m - 1) * q = 2 * (m * q) - q
      BY <1>4
    <3> QED BY <1>3, <3>1
  <2> HIDE DEF p, q, a, b
  <2>4. U * (m * q) - m * q <= U * p
    <3>1. H * q <= m * q
      BY <1>2, <1>4, <1>8, Scales
    <3>2. H * (2 * (m * q) - q) <= H * (2 * p)
      <4> DEFINE v == 2 * (m * q) - q
                 w == 2 * p
      <4>1. v \in Int /\ w \in Int /\ v <= w
        BY <1>4, <1>8, <2>3
      <4> HIDE DEF v, w
      <4>2. v * H <= w * H /\ v * H = H * v /\ w * H = H * w
        BY <1>2, <4>1, Scales
      <4> QED BY <4>2 DEF v, w
    <3>3. /\ H * (2 * (m * q) - q) = U * (m * q) - H * q
          /\ H * (2 * p) = U * p
      BY <1>2, <1>4, <1>8
    <3>4. m * q \in Nat /\ H * q \in Nat /\ U * (m * q) \in Nat /\ U * p \in Nat
      BY <1>2, <1>4, <1>8
    <3> QED BY <3>1, <3>2, <3>3, <3>4
  <2> QED BY <2>1, <2>2, <2>4
<1>10. NearlyAtMost(x, Rounded(x), 1)
  <2>1. NearlyAtMost(x, Rounded(x), 1) <=> (U - 1) * a * s <= U * (m * t) * b
    BY <1>5, NearlyIs
  <2>2. (U - 1) * a * s = U * p - p /\ U * (m * t) * b = U * (m * q)
    BY <1>2, <1>4
  <2>3. 2 * p <= 2 * (m * q) + q
    <3>1. (2 * m + 1) * q = 2 * (m * q) + q
      BY <1>4
    <3> QED BY <1>3, <3>1
  <2> HIDE DEF p, q, a, b
  <2>4. U * p - p <= U * (m * q)
    <3>1. H * (2 * p) <= H * (2 * (m * q) + q)
      <4> DEFINE v == 2 * p
                 w == 2 * (m * q) + q
      <4>1. v \in Int /\ w \in Int /\ v <= w
        BY <1>4, <1>8, <2>3
      <4> HIDE DEF v, w
      <4>2. v * H <= w * H /\ v * H = H * v /\ w * H = H * w
        BY <1>2, <4>1, Scales
      <4> QED BY <4>2 DEF v, w
    <3>2. /\ H * (2 * (m * q) + q) = U * (m * q) + H * q
          /\ H * (2 * p) = U * p
      BY <1>2, <1>4, <1>8
    <3>3. m * q \in Nat /\ H * q \in Nat /\ U * (m * q) \in Nat /\ U * p \in Nat
      BY <1>2, <1>4, <1>8
    <3> QED BY <1>3, <1>8, <3>1, <3>2, <3>3
  <2> QED BY <2>1, <2>2, <2>4
<1> QED BY <1>7, <1>9, <1>10 DEF Near

(* Shifts that leave a whole number, or less than a half of one.           *)
LEMMA ShiftsApart ==
  ASSUME NEW i \in Shifts, NEW j \in Shifts, i = 0 \/ j = 0,
         NEW u \in Shifts, NEW d \in Shifts, u = 0 \/ d = 0
  PROVE  \/ \E t \in Nat : 2^j * 2^u = t * (2^i * 2^d)
         \/ 2 * (2^j * 2^u) <= 2^i * 2^d
<1>1. /\ 2^i \in Nat \ {0} /\ 2^j \in Nat \ {0} /\ 2^u \in Nat \ {0} /\ 2^d \in Nat \ {0}
      /\ 2^0 = 1
  BY TwoNat, TwosAssumption
<1>2. \A k, l \in Shifts : (\E t \in Nat : 2^k = t * 2^l) \/ 2 * 2^k <= 2^l
  <2>1. \A k, l \in Shifts : l <= k \/ k < l
    BY FloatPrintAssumption DEF Shifts
  <2> QED BY <2>1, TwoDivides
<1>3. CASE i = 0 /\ u = 0
  <2>1. 2^j * 2^u = 2^j /\ 2^i * 2^d = 2^d
    BY <1>1, <1>3
  <2> QED BY <1>2, <2>1
<1>4. CASE i = 0 /\ d = 0
  <2>1. 2^j * 2^u \in Nat /\ 2^j * 2^u = (2^j * 2^u) * (2^i * 2^d)
    <3>1. 2^i * 2^d = 1 /\ 2^j * 2^u \in Nat
      BY <1>1, <1>4
    <3> QED BY <3>1
  <2> QED BY <2>1
<1>5. CASE j = 0 /\ u = 0
  <2>1. 2^j * 2^u = 1
    BY <1>1, <1>5
  <2> DEFINE q == 2^i * 2^d
  <2>2. q \in Nat \ {0}
    BY <1>1, Scales
  <2> HIDE DEF q
  <2>3. CASE q = 1
    <3>1. 1 = 1 * q
      BY <2>3
    <3> QED BY <2>1, <3>1 DEF q
  <2>4. CASE q # 1
    <3>1. 2 * 1 <= q
      BY <2>2, <2>4
    <3> QED BY <2>1, <3>1 DEF q
  <2> QED BY <2>3, <2>4
<1>6. CASE j = 0 /\ d = 0
  <2>1. 2^j * 2^u = 2^u /\ 2^i * 2^d = 2^i
    BY <1>1, <1>6
  <2> QED BY <1>2, <2>1
<1> QED BY <1>3, <1>4, <1>5, <1>6

LEMMA HalfKeeps ==
  ASSUME NEW p \in Nat, NEW q \in Nat \ {0}, NEW m \in Nat, WithinHalf(p, q, m),
         NEW h \in Nat, h * q <= p, h <= m, NEW v \in Nat, NEW w \in Nat \ {0},
         (\E t \in Nat : v = t * w) \/ v <= h * w
  PROVE  /\ p * w <= v * q => m * w <= v
         /\ v * q <= p * w => v <= m * w
<1>1. CASE \E t \in Nat : v = t * w
  <2>1. PICK t \in Nat : v = t * w
    BY <1>1
  <2>2. t * q \in Nat /\ (t * w) * q = (t * q) * w
    OBVIOUS
  <2>3. /\ p * w <= v * q <=> p <= t * q
        /\ v * q <= p * w <=> t * q <= p
    BY <2>1, <2>2, Scales
  <2>4. /\ m * w <= v <=> m <= t
        /\ v <= m * w <=> t <= m
    BY <2>1, Scales
  <2> QED BY <2>3, <2>4, BetweenIntegers
<1>2. CASE v <= h * w
  <2>1. h * w <= m * w /\ h * w \in Nat /\ m * w \in Nat
    BY Scales
  <2>2. v <= m * w
    BY <1>2, <2>1
  <2>3. ASSUME p * w <= v * q PROVE m * w <= v
    <3>1. v * q <= (h * w) * q
      BY <1>2, <2>1, Scales
    <3>2. (h * w) * q = (h * q) * w /\ h * q \in Nat /\ p * w \in Nat /\ v * q \in Nat
          /\ (h * q) * w \in Nat
      OBVIOUS
    <3>3. p * w <= (h * q) * w
      BY <2>3, <3>1, <3>2
    <3>4. p <= h * q
      BY <3>2, <3>3, Scales
    <3>5. m <= h
      BY <3>4, BetweenIntegers
    <3>6. m = h
      BY <3>5
    <3>7. (h * q) * w <= p * w
      BY <3>2, Scales
    <3>8. (h * w) * q <= v * q
      BY <2>3, <3>2, <3>7
    <3>9. h * w <= v
      BY <2>1, <3>8, Scales
    <3> QED BY <3>6, <3>9
  <2> QED BY <2>2, <2>3
<1> QED BY <1>1, <1>2

(* Rounding passes no number of the type.                                  *)
LEMMA RoundedKeeps ==
  ASSUME NEW x, InRange(x), NEW c, Short(c)
  PROVE  /\ NotAbove(x, c) => NotAbove(Rounded(x), c)
         /\ NotAbove(c, x) => NotAbove(c, Rounded(x))
<1> DEFINE U == Unit
           H == HalfUnit
           a == x.num
           b == x.den
           e == c.num
           f == c.den
<1>1. PICK u \in Shifts, d \in Shifts, m \in H..U : RoundedTo(x, u, d, m)
  BY RoundedIs
<1>2. PICK i \in Shifts, j \in Shifts, k \in 0..U :
        (i = 0 \/ j = 0) /\ e * 2^i = k * 2^j * f
  BY DEF Short
<1>3. U \in Nat \ {0} /\ H \in Nat \ {0} /\ U = 2 * H
  BY Units
<1> DEFINE s == 2^u
           t == 2^d
           I == 2^i
           J == 2^j
           p == a * s
           q == b * t
           v == k * (J * s)
           w == I * t
<1>4. /\ Rounded(x) = Rat(m * t, s) /\ (u = 0 \/ d = 0) /\ H * q <= p /\ WithinHalf(p, q, m)
  BY <1>1 DEF RoundedTo, IsSignificand
<1>5. /\ a \in Nat \ {0} /\ b \in Nat \ {0} /\ s \in Nat \ {0} /\ t \in Nat \ {0}
      /\ e \in Nat \ {0} /\ f \in Nat \ {0} /\ I \in Nat \ {0} /\ J \in Nat \ {0}
      /\ m \in Nat /\ H <= m /\ k \in Nat /\ k <= U
  BY <1>1, <1>2, <1>3, TwoNat DEF InRange, IsMagnitude, Short
<1>6. (\E n_0 \in Nat : J * s = n_0 * w) \/ 2 * (J * s) <= w
  BY <1>2, <1>4, ShiftsApart
<1>7. e * I = k * J * f
  BY <1>2
<1>8. Rounded(x).num = m * t /\ Rounded(x).den = s
  BY <1>4 DEF Rat
<1>9. /\ NotAbove(x, c) <=> a * f <= e * b
      /\ NotAbove(c, x) <=> e * b <= a * f
      /\ NotAbove(Rounded(x), c) <=> (m * t) * f <= e * s
      /\ NotAbove(c, Rounded(x)) <=> e * s <= (m * t) * f
  BY <1>8 DEF NotAbove
<1> HIDE DEF a, b, e, f, s, t, I, J, U, H
<1>10. p \in Nat /\ q \in Nat \ {0} /\ v \in Nat /\ w \in Nat \ {0}
  BY <1>5, Scales
<1>11. (\E n_0 \in Nat : v = n_0 * w) \/ v <= H * w
  <2>1. ASSUME NEW n_0 \in Nat, J * s = n_0 * w PROVE v = (k * n_0) * w /\ k * n_0 \in Nat
    <3> HIDE DEF w
    <3>1. k * (n_0 * w) = (k * n_0) * w /\ k * n_0 \in Nat
      BY <1>5, <1>10, <2>1
    <3> QED BY <2>1, <3>1
  <2>2. ASSUME 2 * (J * s) <= w PROVE v <= H * w
    <3> DEFINE r == J * s
    <3>1. r \in Nat \ {0}
      BY <1>5, Scales
    <3>2. v = k * r /\ 2 * r <= w
      BY <2>2
    <3> HIDE DEF r, v, w
    <3>3. k * r <= U * r /\ U * r = (2 * r) * H /\ 2 * r \in Int
      BY <1>3, <1>5, <3>1, Scales
    <3>4. (2 * r) * H <= w * H /\ w * H = H * w
      BY <1>3, <1>10, <3>2, <3>3, Scales
    <3>5. k * r \in Int /\ U * r \in Int /\ H * w \in Int
      BY <1>3, <1>5, <1>10, <3>1
    <3> QED BY <3>2, <3>3, <3>4, <3>5
  <2> QED BY <1>6, <2>1, <2>2
<1>12. /\ p * w <= v * q => m * w <= v
       /\ v * q <= p * w => v <= m * w
  <2> HIDE DEF p, q, v, w
  <2> QED BY <1>3, <1>4, <1>5, <1>10, <1>11, HalfKeeps DEF H
<1>13. /\ a * f <= e * b <=> p * w <= v * q
       /\ e * b <= a * f <=> v * q <= p * w
  <2> DEFINE z == (s * t) * I
  <2>1. z \in Nat \ {0}
    BY <1>5, Scales
  <2>2. /\ (a * f) * z = (p * w) * f
        /\ (e * b) * z = (v * q) * f
    <3>1. (a * f) * z = (p * w) * f
      BY <1>5
    <3>2. (e * b) * z = ((e * I) * b) * (s * t)
      BY <1>5
    <3>3. ((k * J * f) * b) * (s * t) = (v * q) * f
      BY <1>5
    <3> QED BY <1>7, <3>1, <3>2, <3>3
  <2>3. a * f \in Int /\ e * b \in Int /\ p * w \in Int /\ v * q \in Int
    BY <1>5, <1>10
  <2> HIDE DEF z, p, q, v, w
  <2>4. /\ a * f <= e * b <=> (a * f) * z <= (e * b) * z
        /\ e * b <= a * f <=> (e * b) * z <= (a * f) * z
        /\ p * w <= v * q <=> (p * w) * f <= (v * q) * f
        /\ v * q <= p * w <=> (v * q) * f <= (p * w) * f
    BY <1>5, <2>1, <2>3, Scales
  <2> QED BY <2>2, <2>4
<1>14. /\ (m * t) * f <= e * s <=> m * w <= v
       /\ e * s <= (m * t) * f <=> v <= m * w
  <2>1. ((m * t) * f) * I = (m * w) * f
    BY <1>5
  <2>2. (e * s) * I = v * f
    <3>1. (e * s) * I = (e * I) * s
      BY <1>5
    <3>2. (k * J * f) * s = v * f
      BY <1>5
    <3> QED BY <1>7, <3>1, <3>2
  <2>3. (m * t) * f \in Int /\ e * s \in Int /\ m * w \in Int /\ v \in Int
    BY <1>5, <1>10
  <2> HIDE DEF v, w
  <2>4. /\ (m * t) * f <= e * s <=> ((m * t) * f) * I <= (e * s) * I
        /\ e * s <= (m * t) * f <=> (e * s) * I <= ((m * t) * f) * I
        /\ m * w <= v <=> (m * w) * f <= v * f
        /\ v <= m * w <=> v * f <= (m * w) * f
    BY <1>5, <2>3, Scales
  <2> QED BY <2>1, <2>2, <2>4
<1> QED BY <1>9, <1>12, <1>13, <1>14

(* Numbers of the type, and fractions between those that can be rounded.   *)
LEMMA ShortNaturals ==
  ASSUME NEW t \in 1..Unit
  PROVE  Short(Rat(t, 1)) /\ IsMagnitude(Rat(t, 1))
<1> DEFINE c == Rat(t, 1)
<1>1. c.num = t /\ c.den = 1 /\ t \in Nat \ {0} /\ t \in 0..Unit
  BY Units DEF Rat
<1> HIDE DEF c
<1>2. IsMagnitude(c)
  BY <1>1 DEF IsMagnitude
<1>3. 0 \in Shifts /\ 2^0 = 1
  BY WidestIs
<1>4. c.num * 2^0 = t * 2^0 * c.den
  BY <1>1, <1>3
<1>5. Short(c)
  BY <1>1, <1>2, <1>3, <1>4 DEF Short
<1> QED BY <1>2, <1>5 DEF c

LEMMA FloatShort ==
  ASSUME NEW m, InRange(m), IsFloat(m)
  PROVE  Short(m)
<1> DEFINE a == m.num
           b == m.den
<1>1. PICK u \in Shifts, d \in Shifts, k \in HalfUnit..Unit : RoundedTo(m, u, d, k)
  BY RoundedIs
<1>2. (u = 0 \/ d = 0) /\ Rounded(m) = Rat(k * 2^d, 2^u) /\ k \in 0..Unit
  BY <1>1, Units DEF RoundedTo, IsSignificand
<1>3. a * 2^u = (k * 2^d) * b
  BY <1>2 DEF IsFloat, Rat
<1>4. IsMagnitude(m)
  BY DEF InRange
<1>5. m.num * 2^u = k * 2^d * m.den
  BY <1>3
<1> QED BY <1>2, <1>4, <1>5 DEF Short

LEMMA RangeIs ==
  /\ IsMagnitude(Rat(Unit, Widest)) /\ IsMagnitude(Rat(Widest, 1))
  /\ \A x : InRange(x) <=> /\ IsMagnitude(x)
                           /\ NotAbove(Rat(Unit, Widest), x) /\ NotAbove(x, Rat(Widest, 1))
<1>1. Unit \in Nat \ {0} /\ Widest \in Nat \ {0}
  BY Units, WidestIs
<1>2. IsMagnitude(Rat(Unit, Widest)) /\ IsMagnitude(Rat(Widest, 1))
  BY <1>1 DEF IsMagnitude, Rat
<1>3. ASSUME NEW x, IsMagnitude(x)
      PROVE  /\ NotAbove(Rat(Unit, Widest), x) <=> Unit * x.den <= x.num * Widest
             /\ NotAbove(x, Rat(Widest, 1)) <=> x.num <= x.den * Widest
  <2>1. x.num \in Nat /\ x.den \in Nat
    BY <1>3 DEF IsMagnitude
  <2>2. NotAbove(Rat(Unit, Widest), x) <=> Unit * x.den <= x.num * Widest
    BY DEF NotAbove, Rat
  <2>3. NotAbove(x, Rat(Widest, 1)) <=> x.num * 1 <= Widest * x.den
    BY DEF NotAbove, Rat
  <2>4. x.num * 1 = x.num /\ Widest * x.den = x.den * Widest
    BY <1>1, <2>1
  <2> QED BY <2>2, <2>3, <2>4
<1> QED BY <1>2, <1>3 DEF InRange

LEMMA Between ==
  ASSUME NEW x, NEW y, NEW z, InRange(x), InRange(z), IsMagnitude(y),
         NotAbove(x, y), NotAbove(y, z)
  PROVE  InRange(y)
<1> DEFINE low == Rat(Unit, Widest)
           high == Rat(Widest, 1)
<1>1. /\ IsMagnitude(low) /\ IsMagnitude(high) /\ IsMagnitude(x) /\ IsMagnitude(z)
      /\ NotAbove(low, x) /\ NotAbove(z, high)
  BY RangeIs
<1> HIDE DEF low, high
<1>2. NotAbove(low, y) /\ NotAbove(y, high)
  BY <1>1, Ordered
<1> QED BY <1>2, RangeIs DEF low, high

(* The powers of ten that the scaling goes through.                        *)
Big == 10^BigExponent

LEMMA BigIs ==
  /\ BigExponent \in FloatExponents /\ BigExponent \in Nat \ {0}
  /\ Big \in Nat \ {0} /\ max_scaled <= Big
  /\ min_scaled \in Nat \ {0} /\ max_scaled \in Nat \ {0} /\ max_scaled = 10 * min_scaled
  /\ max_scaled <= Unit /\ 2 * (MaxExponent + 1) <= Unit
  /\ Unit * (Big * max_scaled) <= Widest
<1>1. /\ sig_digits \in Nat \ {0} /\ MaxExponent \in Nat /\ BigExponent \in Nat \ {0}
      /\ sig_digits <= BigExponent /\ BigExponent <= MaxExponent
      /\ sig_digits \in FloatExponents /\ BigExponent \in FloatExponents
      /\ sig_digits - 1 \in FloatExponents /\ (sig_digits - 1) + 1 = sig_digits
  BY FloatPrintAssumption DEF FloatExponents
<1>2. Big \in Nat \ {0} /\ max_scaled \in Nat \ {0} /\ max_scaled <= Big
  BY <1>1, TenNat, TenDivides DEF Big, max_scaled
<1>3. min_scaled \in Nat \ {0} /\ max_scaled = 10 * min_scaled
  BY <1>1, TenNat, TenNext DEF min_scaled, max_scaled
<1>4. max_scaled <= Unit /\ 2 * (MaxExponent + 1) <= Unit
  BY FloatPrintAssumption DEF Unit
<1>5. Unit * (Big * max_scaled) <= Widest
  BY RangeAssumption DEF Unit, Big, Widest
<1> QED BY <1>1, <1>2, <1>3, <1>4, <1>5

-----------------------------------------------------------------------------
(* The loops that scale.                                                   *)

\* A turn of the one that scales up, or of the one that scales down; and the k-th.
Onward(x, way) ==
  IF way = "up" THEN Multiplied(x, BigExponent) ELSE Divided(x, BigExponent)

Turned(f, x, way, k) == IF k = 0 THEN x ELSE Onward(f[k - 1], way)

AreTurns(f, x, way) == f = [k \in FloatExponents |-> Turned(f, x, way, k)]

LEMMA TurnedExists ==
  ASSUME NEW x, NEW way
  PROVE  \E f : AreTurns(f, x, way)
<1> DEFINE E == MaxExponent
           Through(f, b) == f = [k \in 0..b |-> Turned(f, x, way, k)]
           bad == {b \in 0..E : ~ \E f : Through(f, b)}
<1>1. E \in Nat
  BY FloatPrintAssumption
<1>2. bad = {}
  <2> SUFFICES ASSUME bad # {} PROVE FALSE
    OBVIOUS
  <2>1. bad \in SUBSET Nat
    BY <1>1
  <2>2. PICK b \in bad : \A c \in bad : b <= c
    <3> HIDE DEF bad
    <3> QED BY <2>1, LeastNat
  <2>3. b \in 0..E /\ ~ \E f : Through(f, b)
    BY <2>2
  <2>4. CASE b = 0
    <3> DEFINE f == [k \in 0..0 |-> x]
    <3>1. \A k \in 0..0 : Turned(f, x, way, k) = x
      BY DEF Turned
    <3>2. f = [k \in 0..0 |-> Turned(f, x, way, k)]
      BY <3>1
    <3> HIDE DEF f
    <3> QED BY <2>3, <2>4, <3>2
  <2>5. CASE b # 0
    <3>1. b \in Nat /\ b - 1 \in 0..E /\ ~(b <= b - 1)
      BY <1>1, <2>3, <2>5
    <3>2. PICK f : Through(f, b - 1)
      BY <2>2, <3>1
    <3> DEFINE last == Turned(f, x, way, b)
               g == [k \in 0..b |-> IF k = b THEN last ELSE f[k]]
    <3>3. \A k \in 0..b - 1 : k \in 0..b /\ g[k] = f[k]
      <4> HIDE DEF last
      <4> QED BY <3>1
    <3>4. g[b] = last
      <4> HIDE DEF last
      <4> QED BY <3>1
    <3>5. ASSUME NEW k \in 0..b PROVE g[k] = Turned(g, x, way, k)
      <4>1. k # 0 => k - 1 \in 0..b - 1 /\ k \in Nat
        BY <3>1
      <4>2. k # 0 => g[k - 1] = f[k - 1]
        BY <3>3, <4>1
      <4> HIDE DEF g, last
      <4>3. Turned(g, x, way, k) = Turned(f, x, way, k)
        BY <4>2 DEF Turned
      <4>4. CASE k = b
        BY <3>4, <4>3, <4>4 DEF last
      <4>5. CASE k # b
        <5>1. k \in 0..b - 1
          BY <3>1, <4>5
        <5>2. f[k] = Turned(f, x, way, k)
          <6> DEFINE T(i) == Turned(f, x, way, i)
          <6>1. f = [i \in 0..b - 1 |-> T(i)]
            BY <3>2
          <6> HIDE DEF T
          <6>2. f[k] = T(k)
            BY <5>1, <6>1
          <6> QED BY <6>2 DEF T
        <5> QED BY <3>3, <4>3, <5>1, <5>2
      <4> QED BY <4>4, <4>5
    <3>6. Through(g, b)
      <4>1. g = [k \in 0..b |-> g[k]]
        OBVIOUS
      <4> DEFINE T(i) == Turned(g, x, way, i)
      <4>2. \A k \in 0..b : g[k] = T(k)
        BY <3>5
      <4> HIDE DEF g, T
      <4>3. g = [k \in 0..b |-> T(k)]
        BY <4>1, <4>2
      <4> QED BY <4>3 DEF T
    <3> HIDE DEF g, Through
    <3> QED BY <2>3, <3>6
  <2> QED BY <2>4, <2>5
<1>3. \E f : Through(f, E)
  <2>1. E \in 0..E
    BY <1>1
  <2> HIDE DEF Through
  <2> QED BY <1>2, <2>1
<1> QED BY <1>3 DEF AreTurns, FloatExponents

LEMMA TurnedIs ==
  ASSUME NEW x, NEW way, NEW f, AreTurns(f, x, way)
  PROVE  /\ f[0] = x
         /\ \A k \in 0..MaxExponent - 1 : f[k + 1] = Onward(f[k], way)
<1> DEFINE T(k) == Turned(f, x, way, k)
<1>1. f = [k \in FloatExponents |-> T(k)]
  BY DEF AreTurns
<1>2. \A k \in FloatExponents : f[k] = T(k)
  <2> HIDE DEF T
  <2> QED BY <1>1
<1>3. MaxExponent \in Nat /\ 0 \in FloatExponents
  BY FloatPrintAssumption DEF FloatExponents
<1>4. f[0] = x
  BY <1>2, <1>3 DEF Turned
<1>5. ASSUME NEW k \in 0..MaxExponent - 1 PROVE f[k + 1] = Onward(f[k], way)
  <2>1. k + 1 \in FloatExponents /\ k + 1 # 0 /\ (k + 1) - 1 = k
    BY <1>3 DEF FloatExponents
  <2>2. f[k + 1] = T(k + 1)
    BY <1>2, <2>1
  <2> QED BY <2>1, <2>2 DEF Turned
<1> QED BY <1>4, <1>5

LEMMA ScaledUpIs ==
  ASSUME NEW x
  PROVE  /\ ScaledUp(x, 0) = x
         /\ \A k \in 0..MaxExponent - 1 :
              ScaledUp(x, k + 1) = Multiplied(ScaledUp(x, k), BigExponent)
<1> DEFINE P(f) == f = [j \in 0..MaxExponent |->
                          IF j = 0 THEN x ELSE Multiplied(f[j - 1], BigExponent)]
           after == CHOOSE f : P(f)
<1>1. \A k : ScaledUp(x, k) = after[k]
  BY DEF ScaledUp
<1>2. \E f : P(f)
  <2>1. \E f : AreTurns(f, x, "up")
    BY TurnedExists
  <2> QED BY <2>1 DEF AreTurns, Turned, Onward, FloatExponents
<1>3. P(after)
  <2> HIDE DEF P
  <2> QED BY <1>2
<1>4. AreTurns(after, x, "up")
  <2> HIDE DEF after
  <2> QED BY <1>3 DEF AreTurns, Turned, Onward, FloatExponents
<1> HIDE DEF P, after
<1>5. /\ after[0] = x
      /\ \A k \in 0..MaxExponent - 1 : after[k + 1] = Multiplied(after[k], BigExponent)
  <2>1. /\ after[0] = x
        /\ \A k \in 0..MaxExponent - 1 : after[k + 1] = Onward(after[k], "up")
    BY <1>4, TurnedIs
  <2> QED BY <2>1 DEF Onward
<1> QED BY <1>1, <1>5

LEMMA ScaledDownIs ==
  ASSUME NEW x
  PROVE  /\ ScaledDown(x, 0) = x
         /\ \A k \in 0..MaxExponent - 1 :
              ScaledDown(x, k + 1) = Divided(ScaledDown(x, k), BigExponent)
<1> DEFINE P(f) == f = [j \in 0..MaxExponent |->
                          IF j = 0 THEN x ELSE Divided(f[j - 1], BigExponent)]
           after == CHOOSE f : P(f)
<1>1. \A k : ScaledDown(x, k) = after[k]
  BY DEF ScaledDown
<1>2. \E f : P(f)
  <2>1. \E f : AreTurns(f, x, "down")
    BY TurnedExists
  <2> QED BY <2>1 DEF AreTurns, Turned, Onward, FloatExponents
<1>3. P(after)
  <2> HIDE DEF P
  <2> QED BY <1>2
<1>4. AreTurns(after, x, "down")
  <2> HIDE DEF after
  <2> QED BY <1>3 DEF AreTurns, Turned, Onward, FloatExponents
<1> HIDE DEF P, after
<1>5. /\ after[0] = x
      /\ \A k \in 0..MaxExponent - 1 : after[k + 1] = Divided(after[k], BigExponent)
  <2>1. /\ after[0] = x
        /\ \A k \in 0..MaxExponent - 1 : after[k + 1] = Onward(after[k], "down")
    BY <1>4, TurnedIs
  <2> QED BY <2>1 DEF Onward
<1> QED BY <1>1, <1>5

(* The powers of ten of k big steps and of i small ones.                   *)
LEMMA BigSteps ==
  ASSUME NEW k \in Nat, BigExponent * (k + 1) <= MaxExponent
  PROVE  /\ BigExponent * k \in FloatExponents /\ BigExponent * (k + 1) \in FloatExponents
         /\ BigExponent * (k + 1) = BigExponent * k + BigExponent
         /\ \A i \in 0..BigExponent :
              /\ i \in FloatExponents /\ BigExponent * k + i \in FloatExponents
              /\ 10^(BigExponent * k + i) = 10^(BigExponent * k) * 10^i
<1>1. BigExponent \in Nat /\ MaxExponent \in Nat
  BY FloatPrintAssumption
<1>2. BigExponent * (k + 1) = BigExponent * k + BigExponent /\ BigExponent * k \in Nat
  BY <1>1
<1> DEFINE j == BigExponent * k
<1>3. j \in Nat /\ j + BigExponent <= MaxExponent
  BY <1>2
<1> HIDE DEF j
<1>4. ASSUME NEW i \in 0..BigExponent
      PROVE  /\ i \in FloatExponents /\ j + i \in FloatExponents
             /\ 10^(j + i) = 10^j * 10^i
  <2>1. i \in Nat /\ i \in FloatExponents /\ j + i \in FloatExponents
    BY <1>1, <1>3 DEF FloatExponents
  <2> QED BY <1>3, <2>1, TenSum
<1>5. j \in FloatExponents /\ j + BigExponent \in FloatExponents
  BY <1>1, <1>3 DEF FloatExponents
<1> QED BY <1>2, <1>4, <1>5 DEF j

(* A number of steps within the bound is no more than it.                  *)
LEMMA FewSteps ==
  ASSUME NEW k \in Nat, BigExponent * (k + 1) <= MaxExponent
  PROVE  /\ k + 1 <= MaxExponent /\ k \in 0..MaxExponent - 1 /\ k \in 0..MaxExponent
         /\ 2 * (k + 1) <= Unit
         /\ \A l \in 0..k : BigExponent * (l + 1) <= BigExponent * (k + 1)
<1>1. BigExponent \in Nat \ {0} /\ MaxExponent \in Nat /\ 2 * (MaxExponent + 1) <= Unit
  BY BigIs, FloatPrintAssumption
<1>2. k + 1 <= BigExponent * (k + 1)
  <2>1. \A p, q \in Nat \ {0} : p <= q * p
    OBVIOUS
  <2> QED BY <1>1, <2>1
<1>3. BigExponent * (k + 1) \in Nat
  BY <1>1
<1>4. k + 1 <= MaxExponent /\ 2 * (k + 1) <= Unit
  BY <1>1, <1>2, <1>3, Units
<1>5. ASSUME NEW l \in 0..k PROVE BigExponent * (l + 1) <= BigExponent * (k + 1)
  <2>1. \A p, q, r \in Nat : p <= q => r * (p + 1) <= r * (q + 1)
    OBVIOUS
  <2> QED BY <1>1, <2>1
<1> QED BY <1>1, <1>4, <1>5

LEMMA InReach ==
  ASSUME NEW a \in 1..Big * max_scaled, NEW b \in 1..Big * max_scaled
  PROVE  InRange(Rat(a, b)) /\ IsMagnitude(Rat(a, b))
<1> DEFINE M == Big * max_scaled
           U == Unit
           W == Widest
<1>1. M \in Nat \ {0} /\ U \in Nat \ {0} /\ W \in Nat \ {0} /\ U * M <= W
  BY BigIs, Units, WidestIs, Scales
<1>2. a \in Nat \ {0} /\ b \in Nat \ {0} /\ a <= M /\ b <= M
  BY <1>1
<1> HIDE DEF M, U, W
<1>3. \A p \in Nat, q \in Nat \ {0} : p <= p * q
  OBVIOUS
<1>4. U * b <= a * W
  <2>1. b * U <= M * U /\ b * U = U * b /\ M * U = U * M
    BY <1>1, <1>2, Scales
  <2>2. W <= W * a /\ W * a = a * W
    BY <1>1, <1>2, <1>3
  <2>3. U * b \in Int /\ U * M \in Int /\ a * W \in Int
    BY <1>1, <1>2
  <2> QED BY <1>1, <2>1, <2>2, <2>3
<1>5. a <= b * W
  <2>1. M <= M * U /\ M * U = U * M
    BY <1>1, <1>3
  <2>2. W <= W * b /\ W * b = b * W
    BY <1>1, <1>2, <1>3
  <2>3. U * M \in Int /\ b * W \in Int
    BY <1>1, <1>2
  <2> QED BY <1>1, <1>2, <2>1, <2>2, <2>3
<1>6. IsMagnitude(Rat(a, b))
  BY <1>2 DEF IsMagnitude, Rat
<1> QED BY <1>4, <1>5, <1>6 DEF InRange, Rat, U, W

Least == Rat(min_scaled, 1)
Most == Rat(max_scaled, 1)

LEMMA EndsIs ==
  /\ InRange(Least) /\ Short(Least) /\ IsMagnitude(Least)
  /\ InRange(Most) /\ Short(Most) /\ IsMagnitude(Most)
  /\ InRange(Reduced(Most, Big)) /\ InRange(Reduced(Least, Big))
  /\ InRange(Enlarged(Least, Big)) /\ InRange(Enlarged(Most, Big))
  /\ NotAbove(Least, Most)
<1>1. /\ Big \in Nat \ {0} /\ min_scaled \in Nat \ {0} /\ max_scaled \in Nat \ {0}
      /\ max_scaled = 10 * min_scaled /\ max_scaled <= Unit /\ Unit \in Nat
  BY BigIs, Units
<1>2. \A p \in Nat, q \in Nat \ {0} : p <= p * q
  OBVIOUS
<1> DEFINE M == Big * max_scaled
<1>3. M \in Nat \ {0} /\ Big <= M /\ max_scaled <= M /\ min_scaled <= M
  <2>1. max_scaled <= max_scaled * Big /\ max_scaled * Big = M
    BY <1>1, <1>2
  <2> QED BY <1>1, <1>2, <2>1, Scales
<1>4. min_scaled * Big \in Nat \ {0} /\ min_scaled * Big <= M /\ max_scaled * Big = M
  <2>1. min_scaled * Big <= max_scaled * Big
    BY <1>1, Scales
  <2> QED BY <1>1, <2>1, Scales
<1>5. /\ 1 \in 1..M /\ Big \in 1..M /\ min_scaled \in 1..M /\ max_scaled \in 1..M
      /\ min_scaled * Big \in 1..M /\ max_scaled * Big \in 1..M
      /\ 1 * Big \in 1..M
  <2> HIDE DEF M
  <2> QED BY <1>1, <1>3, <1>4
<1>6. /\ Reduced(Most, Big) = Rat(max_scaled, 1 * Big)
      /\ Reduced(Least, Big) = Rat(min_scaled, 1 * Big)
      /\ Enlarged(Least, Big) = Rat(min_scaled * Big, 1)
      /\ Enlarged(Most, Big) = Rat(max_scaled * Big, 1)
  BY DEF Reduced, Enlarged, Least, Most, Rat
<1>7. min_scaled \in 1..Unit /\ max_scaled \in 1..Unit
  BY <1>1
<1>8. NotAbove(Least, Most)
  BY <1>1 DEF NotAbove, Least, Most, Rat
<1> QED BY <1>5, <1>6, <1>7, <1>8, InReach, ShortNaturals DEF Least, Most

LEMMA Widens ==
  ASSUME NEW x, IsMagnitude(x), NEW k \in Nat \ {0}
  PROVE  NotAbove(x, Enlarged(x, k)) /\ NotAbove(Reduced(x, k), x)
<1> DEFINE a == x.num
           b == x.den
<1>1. a \in Nat /\ b \in Nat
  BY DEF IsMagnitude
<1>2. /\ NotAbove(x, Enlarged(x, k)) <=> a * b <= (a * k) * b
      /\ NotAbove(Reduced(x, k), x) <=> a * b <= a * (b * k)
  BY DEF NotAbove, Enlarged, Reduced, Rat
<1> HIDE DEF a, b
<1>3. \A p \in Nat, q \in Nat \ {0} : p <= p * q
  OBVIOUS
<1>4. (a * k) * b = (a * b) * k /\ a * (b * k) = (a * b) * k /\ a * b \in Nat
  BY <1>1
<1> QED BY <1>2, <1>3, <1>4

(* The first loop that scales up, while it has not ended.                  *)
UpAt(m, k) ==
  LET x == ScaledUp(m, k)
  IN  /\ Short(x) /\ NotAbove(m, x) /\ NotAbove(x, Most)
      /\ Near(x, Enlarged(m, 10^(BigExponent * k)), k)

UpEnough == Divided(Most, BigExponent)

LEMMA UpOnce ==
  ASSUME NEW m, InRange(m), Short(m), NotAbove(m, Most),
         NEW k \in Nat, BigExponent * (k + 1) <= MaxExponent,
         UpAt(m, k), Less(ScaledUp(m, k), UpEnough)
  PROVE  UpAt(m, k + 1)
<1> DEFINE x == ScaledUp(m, k)
           y == ScaledUp(m, k + 1)
           z == Enlarged(x, Big)
           low == Reduced(Most, Big)
           e == BigExponent * k
           f == BigExponent * (k + 1)
<1>1. IsMagnitude(m) /\ IsMagnitude(x) /\ Short(x) /\ NotAbove(m, x)
      /\ Near(x, Enlarged(m, 10^e), k)
  BY DEF UpAt, Short
<1>2. Big \in Nat \ {0} /\ k \in 0..MaxExponent - 1 /\ 2 * (k + 1) <= Unit /\ Unit \in Nat
  BY BigIs, FewSteps, Units
<1>3. y = Rounded(z)
  <2>1. y = Multiplied(x, BigExponent)
    BY <1>2, ScaledUpIs
  <2> QED BY <2>1 DEF Multiplied, Enlarged, Big
<1>4. UpEnough = Rounded(low)
  BY DEF UpEnough, Divided, Reduced, Big
<1>5. InRange(low) /\ IsMagnitude(low) /\ IsMagnitude(Most) /\ InRange(Most) /\ Short(Most)
      /\ IsMagnitude(UpEnough)
  BY <1>4, EndsIs, RoundedNear DEF InRange, Short
<1> HIDE DEF x, y, z
<1>6. NotAbove(x, low)
  <2>1. ~NotAbove(UpEnough, x)
    BY <1>1, <1>5, Ordered DEF x
  <2>2. ~NotAbove(low, x)
    BY <1>1, <1>4, <1>5, <2>1, RoundedKeeps
  <2> QED BY <1>1, <1>5, <2>2, Ordered
<1>7. IsMagnitude(z) /\ NotAbove(z, Most) /\ NotAbove(m, z)
  <2>1. IsMagnitude(z) /\ NotAbove(x, z)
    BY <1>1, <1>2, AreMagnitudes, Widens DEF z
  <2>2. NotAbove(z, Most)
    BY <1>1, <1>2, <1>5, <1>6, ScalesOrder DEF z
  <2> QED BY <1>1, <2>1, <2>2, Ordered
<1>8. InRange(z)
  BY <1>5, <1>7, Between
<1>9. Short(y) /\ Near(y, z, 1) /\ NotAbove(m, y) /\ NotAbove(y, Most) /\ IsMagnitude(y)
  BY <1>3, <1>5, <1>7, <1>8, RoundedNear, RoundedKeeps DEF Short
<1>10. /\ 10^e \in Nat \ {0} /\ 10^f \in Nat \ {0} /\ 10^f = 10^e * Big
  <2>1. BigExponent \in 0..BigExponent /\ e \in FloatExponents /\ f \in FloatExponents
    BY BigSteps, BigIs
  <2>2. 10^f = 10^e * Big
    BY <2>1, BigSteps DEF Big
  <2> QED BY <2>1, <2>2, TenNat
<1> HIDE DEF e, f
<1> DEFINE v == Enlarged(Enlarged(m, 10^e), Big)
           w == Enlarged(m, 10^f)
<1>11. IsMagnitude(Enlarged(m, 10^e)) /\ IsMagnitude(v) /\ IsMagnitude(w) /\ SameValue(v, w)
  <2>1. IsMagnitude(Enlarged(m, 10^e))
    BY <1>1, <1>10, AreMagnitudes
  <2>2. SameValue(v, Enlarged(m, 10^e * Big))
    BY <1>1, <1>2, <1>10, ScaledTwice
  <2> QED BY <1>1, <1>2, <1>10, <2>1, <2>2, AreMagnitudes
<1>12. Near(z, v, k)
  BY <1>1, <1>2, <1>11, NearScales DEF Near, z
<1> HIDE DEF v, w
<1>13. Near(y, w, 1 + k)
  <2>1. 1 + k <= Unit /\ k + 1 <= Unit
    BY <1>2
  <2>2. Near(z, w, k)
    BY <1>7, <1>11, <1>12, <2>1, Nears
  <2> QED BY <1>7, <1>9, <1>11, <2>1, <2>2, Nears
<1>14. 1 + k = k + 1
  OBVIOUS
<1>15. Short(y) /\ NotAbove(m, y) /\ NotAbove(y, Most) /\ Near(y, w, k + 1)
  BY <1>9, <1>13, <1>14
<1> QED BY <1>15 DEF UpAt, y, w, f

-----------------------------------------------------------------------------
(* TimesTen cancels common twos, and so keeps the value.                   *)

LEMMA Cancels ==
  ASSUME NEW p \in Nat \ {0}, NEW q \in Nat \ {0}, NEW k \in FloatExponents
  PROVE  LET twos == 2^CommonTwos(p, q, k)
         IN  /\ twos \in Nat \ {0} /\ p \div twos \in Nat \ {0} /\ q \div twos \in Nat \ {0}
             /\ p = (p \div twos) * twos /\ q = (q \div twos) * twos
<1> DEFINE Divides(i) == p % 2^i = 0 /\ q % 2^i = 0
           Stops(i) == i = k \/ ~Divides(i + 1)
           P(i) == Divides(i) /\ Stops(i)
           j == CommonTwos(p, q, k)
           twos == 2^j
<1>1. /\ k \in Nat /\ k <= MaxExponent /\ MaxExponent <= MaxShift
      /\ MaxShift \in Nat /\ MaxExponent \in Nat
  BY FloatPrintAssumption DEF FloatExponents
<1>2. j = CHOOSE i \in 0..k : P(i)
  BY DEF CommonTwos
<1>3. \E i \in 0..k : P(i)
  <2> DEFINE S == {i \in 0..k : Stops(i)}
  <2>1. k \in S /\ k \in 0..k
    BY <1>1
  <2>2. PICK t \in 0..k : t \in S /\ \A l \in 0..t - 1 : l \notin S
    <3> HIDE DEF S
    <3> QED BY <1>1, <2>1, FirstIn
  <2>3. Stops(t)
    BY <2>2
  <2>4. Divides(t)
    <3>1. CASE t = 0
      <4>1. 2^t = 1 /\ p % 1 = 0 /\ q % 1 = 0
        BY <3>1, TwosAssumption
      <4> QED BY <4>1
    <3>2. CASE t # 0
      <4>1. t - 1 \in 0..t - 1 /\ t - 1 \in 0..k /\ (t - 1) + 1 = t /\ t - 1 # k
        BY <1>1, <3>2
      <4>2. t - 1 \notin S
        <5> HIDE DEF S
        <5> QED BY <2>2, <4>1
      <4>3. ~Stops(t - 1)
        <5> HIDE DEF Stops
        <5> QED BY <4>1, <4>2
      <4> QED BY <4>1, <4>3
    <3> QED BY <3>1, <3>2
  <2> HIDE DEF Divides, Stops
  <2> QED BY <2>3, <2>4
<1>4. j \in 0..k /\ Divides(j)
  <2>1. j \in 0..k /\ P(j)
    <3> HIDE DEF P, j
    <3> QED BY <1>2, <1>3
  <2> QED BY <2>1
<1> HIDE DEF j
<1>5. j \in Shifts
  BY <1>1, <1>4 DEF Shifts
<1>6. twos \in Nat \ {0} /\ p % twos = 0 /\ q % twos = 0
  BY <1>4, <1>5, TwoNat
<1> HIDE DEF twos
<1>7. \A a \in Nat \ {0} : a % twos = 0
        => a \div twos \in Nat \ {0} /\ a = (a \div twos) * twos
  <2> SUFFICES ASSUME NEW a \in Nat \ {0}, a % twos = 0
               PROVE  a \div twos \in Nat \ {0} /\ a = (a \div twos) * twos
    OBVIOUS
  <2> DEFINE r == a \div twos
  <2>1. r \in Nat /\ a = r * twos + (a % twos)
    BY <1>6, Quotient
  <2> HIDE DEF r
  <2>2. a = r * twos /\ r # 0
    BY <1>6, <2>1
  <2> QED BY <2>1, <2>2 DEF r
<1>8. /\ twos \in Nat \ {0} /\ p \div twos \in Nat \ {0} /\ q \div twos \in Nat \ {0}
      /\ p = (p \div twos) * twos /\ q = (q \div twos) * twos
  BY <1>6, <1>7
<1> QED BY <1>8 DEF twos, j

LEMMA TimesMore ==
  ASSUME NEW x, IsMagnitude(x), NEW k \in FloatExponents
  PROVE  IsMagnitude(TimesTen(x, k)) /\ SameValue(TimesTen(x, k), Enlarged(x, 10^k))
<1> DEFINE a == x.num
           b == x.den
           p == 10^k
           twos == 2^CommonTwos(b, p, k)
           c == b \div twos
           r == p \div twos
<1>1. /\ a \in Nat \ {0} /\ b \in Nat \ {0} /\ p \in Nat \ {0} /\ ~(k < 0)
  BY TenNat, FloatPrintAssumption DEF IsMagnitude, FloatExponents
<1>2. TimesTen(x, k) = Rat(a * r, c)
  BY <1>1 DEF TimesTen
<1> HIDE DEF a, b, p
<1>3. twos \in Nat \ {0} /\ c \in Nat \ {0} /\ r \in Nat \ {0} /\ b = c * twos /\ p = r * twos
  BY <1>1, Cancels
<1> HIDE DEF twos, c, r
<1>4. IsMagnitude(Rat(a * r, c))
  BY <1>1, <1>3, Scales DEF IsMagnitude, Rat
<1>5. (a * r) * b = (a * p) * c
  BY <1>1, <1>3
<1>6. (a * r) * b \in Int /\ (a * p) * c \in Int
  BY <1>1, <1>3
<1>7. SameValue(Rat(a * r, c), Rat(a * p, b))
  BY <1>5, <1>6 DEF SameValue, NotAbove, Rat
<1> QED BY <1>2, <1>4, <1>7 DEF Enlarged, a, b, p

LEMMA TimesLess ==
  ASSUME NEW x, IsMagnitude(x), NEW k \in FloatExponents
  PROVE  IsMagnitude(TimesTen(x, -k)) /\ SameValue(TimesTen(x, -k), Reduced(x, 10^k))
<1>1. k \in Nat /\ 10^k \in Nat \ {0}
  BY TenNat, FloatPrintAssumption DEF FloatExponents
<1>2. CASE k = 0
  <2>1. -k = k /\ 10^k = 1
    <3>1. k <= 0
      BY <1>2
    <3>2. -k = k
      BY <1>1, <3>1
    <3> QED BY <1>2, <3>2, TensAssumption, Zenon
  <2>2. IsMagnitude(TimesTen(x, -k)) /\ SameValue(TimesTen(x, -k), Enlarged(x, 1))
    BY <2>1, TimesMore
  <2>3. Enlarged(x, 1) = Reduced(x, 1)
    BY DEF Enlarged, Reduced, Rat, IsMagnitude
  <2> QED BY <2>1, <2>2, <2>3
<1>3. CASE k # 0
  <2> DEFINE a == x.num
             b == x.den
             p == 10^k
             twos == 2^CommonTwos(a, p, k)
             c == a \div twos
             r == p \div twos
  <2>1. a \in Nat \ {0} /\ b \in Nat \ {0} /\ p \in Nat \ {0}
    BY <1>1 DEF IsMagnitude
  <2>2. TimesTen(x, -k) = Rat(c, b * r)
    <3>1. -k < 0 /\ -(-k) = k
      BY <1>1, <1>3
    <3> QED BY <3>1 DEF TimesTen
  <2> HIDE DEF a, b, p
  <2>3. twos \in Nat \ {0} /\ c \in Nat \ {0} /\ r \in Nat \ {0} /\ a = c * twos /\ p = r * twos
    BY <2>1, Cancels
  <2> HIDE DEF twos, c, r
  <2>4. IsMagnitude(Rat(c, b * r))
    BY <2>1, <2>3, Scales DEF IsMagnitude, Rat
  <2>5. c * (b * p) = a * (b * r)
    BY <2>1, <2>3
  <2>6. c * (b * p) \in Int /\ a * (b * r) \in Int
    BY <2>1, <2>3
  <2>7. SameValue(Rat(c, b * r), Rat(a, b * p))
    BY <2>5, <2>6 DEF SameValue, NotAbove, Rat
  <2> QED BY <2>2, <2>4, <2>7 DEF Reduced, a, b, p
<1> QED BY <1>2, <1>3

-----------------------------------------------------------------------------
(* Scaling up.                                                             *)

LEMMA UpAll ==
  ASSUME NEW m, InRange(m), Short(m), NotAbove(m, Most), NEW M \in Nat,
         \A k \in 0..M - 1 :
           BigExponent * (k + 1) <= MaxExponent /\ Less(ScaledUp(m, k), UpEnough)
  PROVE  UpAt(m, M)
<1> DEFINE bad == {k \in 0..M : ~UpAt(m, k)}
<1> SUFFICES ASSUME bad # {} PROVE FALSE
  OBVIOUS
<1>1. bad \in SUBSET Nat
  OBVIOUS
<1>2. PICK k \in bad : \A l \in bad : k <= l
  <2> HIDE DEF bad
  <2> QED BY <1>1, LeastNat
<1>3. k \in 0..M /\ ~UpAt(m, k)
  BY <1>2
<1>4. CASE k = 0
  <2>1. BigExponent * k = 0 /\ 10^(BigExponent * k) = 1
    <3>1. BigExponent * k = 0
      BY <1>4, BigIs
    <3> QED BY <3>1, TensAssumption, Zenon
  <2>2. ScaledUp(m, k) = m /\ IsMagnitude(m)
    BY <1>4, ScaledUpIs DEF InRange
  <2>3. IsMagnitude(Enlarged(m, 1)) /\ SameValue(Enlarged(m, 1), m)
    BY <2>2, AreMagnitudes, ScaledTwice
  <2>4. Near(m, Enlarged(m, 1), 0)
    BY <2>2, <2>3, NearlyOrdered DEF Near, SameValue
  <2>5. NotAbove(m, m)
    BY <2>2, Ordered
  <2> QED BY <1>3, <1>4, <2>1, <2>2, <2>4, <2>5 DEF UpAt
<1>5. CASE k # 0
  <2>1. k - 1 \in 0..M - 1 /\ k - 1 \in 0..M /\ ~(k <= k - 1) /\ (k - 1) + 1 = k /\ k - 1 \in Nat
    BY <1>3, <1>5
  <2>2. UpAt(m, k - 1)
    BY <1>2, <2>1
  <2>3. UpAt(m, (k - 1) + 1)
    BY <2>1, <2>2, UpOnce
  <2> QED BY <1>3, <2>1, <2>3
<1> QED BY <1>4, <1>5

\* The power of ten t is enough for the first loop.
UpReaches(m, t) ==
  /\ t \in 0..MaxExponent /\ BigExponent * (t + 1) <= MaxExponent
  /\ ~NotAbove(Enlarged(m, 10^(BigExponent * (t + 1))), Enlarged(Most, 2))

\* What that loop ends with.
UpEnded(m) ==
  LET big == Turns(LAMBDA k : ~Less(ScaledUp(m, k), UpEnough))
  IN  /\ big \in Nat /\ BigExponent * (big + 1) <= MaxExponent
      /\ UpAt(m, big) /\ ~Less(ScaledUp(m, big), UpEnough)

LEMMA UpEnds ==
  ASSUME NEW m, InRange(m), Short(m), NotAbove(m, Most), NEW t, UpReaches(m, t)
  PROVE  UpEnded(m)
<1> DEFINE P(k) == ~Less(ScaledUp(m, k), UpEnough)
           big == Turns(LAMBDA k : ~Less(ScaledUp(m, k), UpEnough))
           First(k) == P(k) /\ \A l \in 0..k - 1 : ~P(l)
           S == {k \in 0..MaxExponent : P(k)}
<1>1. big = CHOOSE k \in 0..MaxExponent : First(k)
  BY DEF Turns
<1>2. /\ t \in Nat /\ BigExponent * (t + 1) <= MaxExponent /\ MaxExponent \in Nat
      /\ t \in 0..MaxExponent
      /\ BigExponent * (t + 1) \in FloatExponents
  BY FloatPrintAssumption, BigIs DEF UpReaches, FloatExponents
<1>3. \A l \in 0..t : l \in 0..MaxExponent /\ BigExponent * (l + 1) <= MaxExponent
  <2>1. \A l \in 0..t : BigExponent * (l + 1) <= BigExponent * (t + 1)
    BY <1>2, FewSteps
  <2>2. \A l \in 0..t : BigExponent * (l + 1) \in Int /\ l \in 0..MaxExponent
    BY <1>2, BigIs
  <2> QED BY <1>2, <2>1, <2>2, BigIs
<1>4. \E k \in 0..t : P(k)
  <2> SUFFICES ASSUME \A k \in 0..t : ~P(k) PROVE FALSE
    OBVIOUS
  <2>1. t + 1 \in Nat /\ \A k \in 0..(t + 1) - 1 : k \in 0..t
    BY <1>2
  <2>2. UpAt(m, t + 1)
    BY <1>3, <2>1, UpAll
  <2> DEFINE x == ScaledUp(m, t + 1)
             z == Enlarged(m, 10^(BigExponent * (t + 1)))
  <2>3. IsMagnitude(x) /\ NotAbove(x, Most) /\ Near(x, z, t + 1)
    BY <2>2 DEF UpAt, Short
  <2>4. IsMagnitude(z) /\ IsMagnitude(Most) /\ 2 * (t + 1) <= Unit
    BY <1>2, TenNat, AreMagnitudes, EndsIs, FewSteps DEF InRange
  <2> HIDE DEF x
  <2>5. ~NotAbove(z, Enlarged(Most, 2))
    BY DEF UpReaches
  <2> HIDE DEF z
  <2>6. NotAbove(z, Enlarged(x, 2))
    BY <2>1, <2>3, <2>4, NearlyOrdered DEF Near
  <2>7. 2 \in Nat \ {0} /\ IsMagnitude(Enlarged(x, 2)) /\ IsMagnitude(Enlarged(Most, 2))
    BY <2>3, <2>4, AreMagnitudes
  <2>8. NotAbove(Enlarged(x, 2), Enlarged(Most, 2))
    BY <2>3, <2>4, <2>7, ScalesOrder
  <2> QED BY <2>4, <2>5, <2>6, <2>7, <2>8, Ordered
<1> HIDE DEF P
<1>5. PICK s \in 0..MaxExponent : s \in S /\ s <= t /\ \A l \in 0..s - 1 : l \notin S
  <2>1. PICK k \in 0..t : P(k)
    BY <1>4
  <2>2. k \in 0..MaxExponent /\ k \in S /\ k <= t
    BY <1>3, <2>1
  <2>3. \E s \in 0..MaxExponent : s \in S /\ s <= k /\ \A l \in 0..s - 1 : l \notin S
    <3> HIDE DEF S
    <3> QED BY <1>2, <2>2, FirstIn
  <2>4. \A s \in 0..MaxExponent : s <= k => s <= t
    BY <1>2, <2>1, <2>2
  <2> QED BY <2>3, <2>4
<1>6. First(s) /\ s \in 0..MaxExponent
  <2>1. \A l \in 0..s - 1 : l \in 0..MaxExponent
    BY <1>2
  <2> QED BY <1>5, <2>1
<1>7. big \in 0..MaxExponent /\ First(big)
  <2> HIDE DEF First, big
  <2> QED BY <1>1, <1>6
<1> HIDE DEF big
<1>8. big = s
  BY <1>2, <1>6, <1>7
<1>9. big \in Nat /\ big \in 0..t /\ BigExponent * (big + 1) <= MaxExponent
  BY <1>2, <1>3, <1>5, <1>8
<1>10. UpAt(m, big)
  <2>1. \A l \in 0..big - 1 : l \in 0..t /\ ~P(l)
    BY <1>2, <1>7, <1>9
  <2>2. \A l \in 0..big - 1 :
          BigExponent * (l + 1) <= MaxExponent /\ Less(ScaledUp(m, l), UpEnough)
    BY <1>3, <2>1 DEF P
  <2> QED BY <1>9, <2>2, UpAll
<1>11. ~Less(ScaledUp(m, big), UpEnough)
  BY <1>7 DEF P
<1> QED BY <1>9, <1>10, <1>11 DEF big, UpEnded

(* Powers of ten up to the large one.                                      *)
LEMMA SmallTen ==
  ASSUME NEW k \in 0..BigExponent
  PROVE  /\ k \in FloatExponents /\ k \in Nat /\ 10^k \in Nat \ {0} /\ 10^k <= Big
         /\ k # 0 => /\ k - 1 \in 0..BigExponent /\ 10^(k - 1) \in Nat \ {0}
                     /\ 10^k = 10^(k - 1) * 10
<1>1. k \in FloatExponents /\ k \in Nat /\ k <= BigExponent /\ BigExponent \in FloatExponents
  BY BigIs, FloatPrintAssumption DEF FloatExponents
<1>2. 10^k \in Nat \ {0} /\ 10^k <= Big
  BY <1>1, TenDivides DEF Big
<1>3. ASSUME k # 0
      PROVE  k - 1 \in 0..BigExponent /\ 10^(k - 1) \in Nat \ {0} /\ 10^k = 10^(k - 1) * 10
  <2>1. k - 1 \in FloatExponents /\ (k - 1) + 1 = k /\ k - 1 \in 0..BigExponent
    BY <1>1, <1>3, FloatPrintAssumption DEF FloatExponents
  <2>2. 10^k = 10 * 10^(k - 1) /\ 10^(k - 1) \in Nat \ {0}
    BY <1>1, <2>1, TenNext, TenNat
  <2> QED BY <2>1, <2>2
<1> QED BY <1>1, <1>2, <1>3

LEMMA EnlargedOrder ==
  ASSUME NEW x, IsMagnitude(x), NEW j \in Nat \ {0}, NEW k \in Nat \ {0}, j <= k
  PROVE  /\ NotAbove(Enlarged(x, j), Enlarged(x, k))
         /\ NotAbove(Reduced(x, k), Reduced(x, j))
<1> DEFINE a == x.num
           b == x.den
<1>1. a \in Nat \ {0} /\ b \in Nat \ {0}
  BY DEF IsMagnitude
<1>2. /\ NotAbove(Enlarged(x, j), Enlarged(x, k)) <=> (a * j) * b <= (a * k) * b
      /\ NotAbove(Reduced(x, k), Reduced(x, j)) <=> a * (b * j) <= a * (b * k)
  BY DEF NotAbove, Enlarged, Reduced, Rat
<1> HIDE DEF a, b
<1>3. j * (a * b) <= k * (a * b)
  BY <1>1, Scales
<1>4. /\ (a * j) * b = j * (a * b) /\ (a * k) * b = k * (a * b)
      /\ a * (b * j) = j * (a * b) /\ a * (b * k) = k * (a * b)
  BY <1>1
<1> QED BY <1>2, <1>3, <1>4

\* What the second loop that scales up ends with.
UpSmalls(x) ==
  LET small == Turns(LAMBDA k : ~Below(Multiplied(x, k), min_scaled))
      y == Multiplied(x, small)
  IN  /\ small \in 0..BigExponent /\ IsMagnitude(y)
      /\ NotAbove(Least, y) /\ NotAbove(y, Most)
      /\ Near(y, Enlarged(x, 10^small), IF small = 0 THEN 0 ELSE 1)

LEMMA BelowIs ==
  ASSUME NEW x, IsMagnitude(x), NEW t \in Nat
  PROVE  /\ Below(x, t) <=> ~NotAbove(Rat(t, 1), x)
         /\ AtMost(x, t) <=> NotAbove(x, Rat(t, 1))
<1> DEFINE a == x.num
           b == x.den
<1>1. a \in Nat /\ b \in Nat
  BY DEF IsMagnitude
<1>2. /\ Below(x, t) <=> a < t * b
      /\ AtMost(x, t) <=> a <= t * b
      /\ NotAbove(Rat(t, 1), x) <=> t * b <= a * 1
      /\ NotAbove(x, Rat(t, 1)) <=> a * 1 <= t * b
  BY DEF Below, AtMost, NotAbove, Rat
<1> HIDE DEF a, b
<1>3. t * b \in Nat /\ a * 1 = a
  BY <1>1
<1> QED BY <1>1, <1>2, <1>3

LEMMA UpSmall ==
  ASSUME NEW m, InRange(m), NEW x, Short(x), NotAbove(m, x), NotAbove(x, Most),
         ~Less(x, UpEnough)
  PROVE  UpSmalls(x)
<1> DEFINE z(k) == Enlarged(x, 10^k)
           B == BigExponent
           P(k) == ~Below(Multiplied(x, k), min_scaled)
           small == Turns(LAMBDA k : ~Below(Multiplied(x, k), min_scaled))
           First(k) == P(k) /\ \A l \in 0..k - 1 : ~P(l)
           S == {k \in 0..MaxExponent : P(k)}
           low == Reduced(Most, Big)
<1>1. /\ B \in Nat \ {0} /\ Big \in Nat \ {0} /\ min_scaled \in Nat /\ MaxExponent \in Nat
      /\ max_scaled = 10 * min_scaled /\ B <= MaxExponent
      /\ IsMagnitude(x) /\ IsMagnitude(m)
      /\ InRange(Most) /\ Short(Most) /\ IsMagnitude(Most) /\ Short(Least) /\ IsMagnitude(Least)
      /\ InRange(Enlarged(Most, Big)) /\ IsMagnitude(Enlarged(Most, Big))
      /\ InRange(low) /\ IsMagnitude(low)
      /\ Least = Rat(min_scaled, 1) /\ Most = Rat(max_scaled, 1)
  BY BigIs, EndsIs, FloatPrintAssumption DEF Short, InRange, Least, Most
<1>2. ASSUME NEW k \in 0..B
      PROVE  /\ IsMagnitude(z(k)) /\ InRange(z(k)) /\ Multiplied(x, k) = Rounded(z(k))
             /\ IsMagnitude(Rounded(z(k)))
             /\ P(k) <=> NotAbove(Least, Rounded(z(k)))
  <2>1. 10^k \in Nat \ {0} /\ 10^k <= Big
    BY SmallTen
  <2>2. IsMagnitude(z(k)) /\ NotAbove(x, z(k))
    BY <1>1, <2>1, AreMagnitudes, Widens
  <2>3. NotAbove(m, z(k))
    BY <1>1, <2>2, Ordered
  <2>4. NotAbove(z(k), Enlarged(Most, 10^k)) /\ NotAbove(Enlarged(Most, 10^k), Enlarged(Most, Big))
        /\ IsMagnitude(Enlarged(Most, 10^k))
    BY <1>1, <2>1, ScalesOrder, EnlargedOrder, AreMagnitudes
  <2>5. NotAbove(z(k), Enlarged(Most, Big))
    <3> DEFINE v == z(k)
               w == Enlarged(Most, 10^k)
               t == Enlarged(Most, Big)
    <3>1. /\ IsMagnitude(v) /\ IsMagnitude(w) /\ IsMagnitude(t)
          /\ NotAbove(v, w) /\ NotAbove(w, t)
      BY <1>1, <2>2, <2>4
    <3> HIDE DEF v, w, t
    <3>2. NotAbove(v, t)
      BY <3>1, Ordered
    <3> QED BY <3>2 DEF v, t
  <2>6. InRange(z(k))
    BY <1>1, <2>2, <2>3, <2>5, Between
  <2>7. Multiplied(x, k) = Rounded(z(k))
    BY DEF Multiplied, Enlarged
  <2>8. IsMagnitude(Rounded(z(k)))
    BY <2>6, RoundedNear DEF Short
  <2>9. P(k) <=> NotAbove(Least, Rounded(z(k)))
    BY <1>1, <2>7, <2>8, BelowIs
  <2> QED BY <2>2, <2>6, <2>7, <2>8, <2>9
<1> HIDE DEF z, P, low
<1>3. P(B) /\ B \in 0..B /\ B \in 0..MaxExponent
  <2> DEFINE v == Enlarged(x, 2)
  <2>1. UpEnough = Rounded(low)
    BY DEF UpEnough, Divided, Reduced, Big, low
  <2>2. IsMagnitude(UpEnough) /\ NearlyAtMost(low, UpEnough, 1)
    BY <1>1, <2>1, RoundedNear DEF Short, Near
  <2>3. 2 * 1 <= Unit /\ 2 \in Nat \ {0} /\ 1 \in Nat
    BY Units
  <2>4. NotAbove(low, Enlarged(UpEnough, 2)) /\ IsMagnitude(Enlarged(UpEnough, 2))
        /\ IsMagnitude(v)
    BY <1>1, <2>2, <2>3, NearlyOrdered, AreMagnitudes
  <2>5. NotAbove(Enlarged(UpEnough, 2), v)
    BY <1>1, <2>2, <2>3, Ordered, ScalesOrder
  <2>6. NotAbove(low, v)
    BY <1>1, <2>4, <2>5, Ordered
  <2>7. NotAbove(Most, Enlarged(v, Big)) /\ IsMagnitude(Enlarged(v, Big))
    BY <1>1, <2>4, <2>6, ScalesOrder, AreMagnitudes DEF low
  <2>8. SameValue(Enlarged(v, Big), Enlarged(x, 2 * Big))
        /\ SameValue(Enlarged(z(B), 2), Enlarged(x, Big * 2)) /\ 2 * Big = Big * 2
        /\ 2 * Big \in Nat \ {0}
    BY <1>1, <2>3, ScaledTwice DEF z, Big
  <2>9. IsMagnitude(Enlarged(x, 2 * Big)) /\ IsMagnitude(z(B)) /\ IsMagnitude(Enlarged(z(B), 2))
    BY <1>1, <1>2, <2>3, <2>8, AreMagnitudes
  <2>10. NotAbove(Most, Enlarged(z(B), 2))
    <3>1. NotAbove(Most, Enlarged(x, 2 * Big))
      BY <1>1, <2>7, <2>8, <2>9, Ordered DEF SameValue
    <3> QED BY <1>1, <2>8, <2>9, <3>1, Ordered DEF SameValue
  <2>11. NotAbove(Enlarged(Least, 2), Most) /\ IsMagnitude(Enlarged(Least, 2))
    <3>1. NotAbove(Enlarged(Least, 2), Most)
      BY <1>1 DEF NotAbove, Enlarged, Rat
    <3> QED BY <1>1, <2>3, <3>1, AreMagnitudes
  <2>12. NotAbove(Enlarged(Least, 2), Enlarged(z(B), 2))
    BY <1>1, <2>9, <2>10, <2>11, Ordered
  <2>13. NotAbove(Least, z(B))
    BY <1>1, <2>3, <2>9, <2>12, ScalesOrder
  <2>14. B \in 0..B /\ B \in 0..MaxExponent
    BY <1>1
  <2> QED BY <1>1, <1>2, <2>13, <2>14, RoundedKeeps
<1>4. PICK s \in 0..MaxExponent : s \in S /\ s <= B /\ \A l \in 0..s - 1 : l \notin S
  <2>1. B \in S
    BY <1>3
  <2> HIDE DEF S
  <2> QED BY <1>1, <1>3, <2>1, FirstIn
<1>5. First(s) /\ s \in 0..B
  <2>1. \A l \in 0..s - 1 : l \in 0..MaxExponent
    BY <1>1
  <2>2. s \in 0..B
    BY <1>1, <1>4
  <2> QED BY <1>4, <2>1, <2>2
<1>6. small \in 0..MaxExponent /\ First(small)
  <2>1. small = CHOOSE k \in 0..MaxExponent : First(k)
    BY DEF Turns, P
  <2> HIDE DEF First, small
  <2> QED BY <1>4, <1>5, <2>1
<1> HIDE DEF small
<1>7. small = s /\ small \in 0..B /\ small \in Nat
  <2>1. small = s
    BY <1>1, <1>4, <1>5, <1>6
  <2> QED BY <1>5, <2>1
<1> DEFINE y == Rounded(z(small))
<1>8. /\ IsMagnitude(z(small)) /\ InRange(z(small)) /\ Multiplied(x, small) = y /\ IsMagnitude(y)
      /\ NotAbove(Least, y)
  BY <1>2, <1>6, <1>7
<1>9. CASE small = 0
  <2>1. SameValue(z(small), x)
    <3>1. 10^small = 1
      BY <1>9, TensAssumption, Zenon
    <3> QED BY <1>1, <3>1, ScaledTwice DEF z
  <2>2. NotAbove(y, x) /\ NotAbove(x, y)
    BY <1>8, <2>1, RoundedKeeps DEF SameValue
  <2>3. NotAbove(y, Most)
    BY <1>1, <1>8, <2>2, Ordered
  <2>4. SameValue(y, z(small))
    BY <1>1, <1>8, <2>1, <2>2, Ordered DEF SameValue
  <2>5. Near(y, z(small), 0)
    BY <1>8, <2>4, NearlyOrdered DEF Near, SameValue
  <2> QED BY <1>7, <1>8, <1>9, <2>3, <2>5 DEF UpSmalls, small, z
<1>10. CASE small # 0
  <2> DEFINE r == small - 1
  <2>1. /\ r \in 0..small - 1 /\ r \in 0..B
        /\ 10^r \in Nat \ {0} /\ 10^small = 10^r * 10
    BY <1>7, <1>10, SmallTen
  <2> HIDE DEF r
  <2>2. ~P(r)
    BY <1>6, <2>1
  <2>3. ~NotAbove(Least, z(r)) /\ IsMagnitude(z(r))
    BY <1>1, <1>2, <2>1, <2>2, RoundedKeeps
  <2> DEFINE w == z(r)
             v == z(small)
  <2>4. IsMagnitude(w) /\ IsMagnitude(v) /\ NotAbove(w, Least) /\ 10 \in Nat \ {0}
    <3>1. NotAbove(w, Least)
      BY <1>1, <2>3, Ordered
    <3> QED BY <1>8, <2>3, <3>1
  <2>5. SameValue(Enlarged(w, 10), v)
    <3>1. SameValue(Enlarged(Enlarged(x, 10^r), 10), Enlarged(x, 10^r * 10))
      BY <1>1, <2>1, <2>4, ScaledTwice
    <3> QED BY <2>1, <3>1 DEF z
  <2>6. Enlarged(Least, 10) = Most
    BY <1>1 DEF Enlarged, Rat
  <2> HIDE DEF w, v
  <2>7. NotAbove(v, Most)
    <3>1. NotAbove(Enlarged(w, 10), Most) /\ IsMagnitude(Enlarged(w, 10))
      BY <1>1, <2>4, <2>6, ScalesOrder, AreMagnitudes
    <3> QED BY <1>1, <2>4, <2>5, <3>1, Ordered DEF SameValue
  <2>8. NotAbove(y, Most)
    BY <1>1, <1>8, <2>7, RoundedKeeps DEF v
  <2>9. Near(y, z(small), 1)
    BY <1>8, RoundedNear
  <2> QED BY <1>7, <1>8, <1>10, <2>8, <2>9 DEF UpSmalls, small, z
<1> QED BY <1>9, <1>10

FloatPowers == (-MaxExponent)..MaxExponent

\* How many roundings bring a number to the power e, at most.
Steps(e) == 1 + (IF e < 0 THEN -e ELSE e) \div BigExponent

LEMMA StepsAre ==
  ASSUME NEW e \in FloatPowers
  PROVE  /\ Steps(e) \in Nat /\ 1 <= Steps(e) /\ Steps(e) <= Unit
         /\ \A j \in Nat : BigExponent * j <= (IF e < 0 THEN -e ELSE e) => j + 1 <= Steps(e)
<1> DEFINE a == IF e < 0 THEN -e ELSE e
           q == a \div BigExponent
           B == BigExponent
<1>1. /\ a \in Nat /\ a <= MaxExponent /\ B \in Nat \ {0} /\ MaxExponent \in Nat
      /\ 2 * (MaxExponent + 1) <= Unit /\ Unit \in Nat
  BY BigIs, Units, FloatPrintAssumption DEF FloatPowers
<1>2. Steps(e) = 1 + q
  BY DEF Steps
<1> HIDE DEF a, B
<1>3. q \in Nat /\ a % B \in 0..B - 1 /\ a = q * B + (a % B)
  BY <1>1, Division DEF B
<1> HIDE DEF q
<1>4. q <= q * B
  BY <1>1, <1>3, Scales
<1>5. q <= MaxExponent
  <2>1. q * B <= a
    BY <1>1, <1>3
  <2> QED BY <1>1, <1>3, <1>4, <2>1
<1>6. ASSUME NEW j \in Nat, B * j <= a PROVE j <= q
  <2> SUFFICES ASSUME q + 1 <= j PROVE FALSE
    BY <1>3
  <2>1. (q + 1) * B <= j * B
    BY <1>1, <1>3, Scales
  <2>2. (q + 1) * B = q * B + B /\ j * B = B * j /\ q * B \in Nat /\ j * B \in Nat
    BY <1>1, <1>3
  <2> QED BY <1>1, <1>3, <1>6, <2>1, <2>2
<1> QED BY <1>1, <1>2, <1>3, <1>5, <1>6 DEF a, B

(* Both loops of a scaling together.                                       *)
LEMMA LoopsScale ==
  ASSUME NEW big \in Nat, BigExponent * (big + 1) <= MaxExponent, NEW small \in 0..BigExponent
  PROVE  /\ BigExponent * big + small \in FloatExponents
         /\ BigExponent * big \in FloatExponents
         /\ 10^(BigExponent * big) \in Nat \ {0} /\ 10^small \in Nat \ {0}
         /\ 10^(BigExponent * big + small) = 10^(BigExponent * big) * 10^small
         /\ big + (IF small = 0 THEN 0 ELSE 1) \in Nat
         /\ big + (IF small = 0 THEN 0 ELSE 1) <= Unit
<1>1. /\ BigExponent * big \in FloatExponents /\ small \in FloatExponents
      /\ BigExponent * big + small \in FloatExponents
      /\ 10^(BigExponent * big + small) = 10^(BigExponent * big) * 10^small
  BY BigSteps
<1>2. 2 * (big + 1) <= Unit /\ Unit \in Nat
  BY FewSteps, Units
<1>3. \A c \in {0, 1} : big + c \in Nat /\ big + c <= Unit
  BY <1>2
<1>4. 10^(BigExponent * big) \in Nat \ {0} /\ 10^small \in Nat \ {0}
  BY <1>1, TenNat
<1>5. (IF small = 0 THEN 0 ELSE 1) \in {0, 1}
  OBVIOUS
<1> QED BY <1>1, <1>3, <1>4, <1>5, Zenon

LEMMA UpBoth ==
  ASSUME NEW m, IsMagnitude(m), NEW x, IsMagnitude(x), NEW y, IsMagnitude(y),
         NEW i \in Nat \ {0}, NEW j \in Nat \ {0}, NEW p \in Nat, NEW c \in Nat, p + c <= Unit,
         Near(x, Enlarged(m, i), p), Near(y, Enlarged(x, j), c)
  PROVE  Near(y, Enlarged(m, i * j), p + c)
<1> DEFINE u == Enlarged(m, i)
           v == Enlarged(x, j)
           w == Enlarged(u, j)
           z == Enlarged(m, i * j)
<1>1. /\ IsMagnitude(u) /\ IsMagnitude(v) /\ i * j \in Nat \ {0}
  BY AreMagnitudes, Scales
<1>2. IsMagnitude(w) /\ IsMagnitude(z) /\ SameValue(w, z)
  BY <1>1, AreMagnitudes, ScaledTwice
<1>3. Near(v, w, p)
  BY <1>1, NearScales DEF Near
<1>4. Near(y, v, c)
  OBVIOUS
<1> HIDE DEF v, w, z
<1>5. Near(y, w, c + p)
  <2>1. c + p <= Unit
    OBVIOUS
  <2> QED BY <1>1, <1>2, <1>3, <1>4, <2>1, Nears
<1>6. Near(y, z, p + c)
  <2>1. c + p = p + c /\ p + c \in Nat /\ 0 \in Nat /\ (p + c) + 0 <= Unit
    BY Units
  <2> QED BY <1>2, <1>5, <2>1, Nears
<1> QED BY <1>6 DEF z

LEMMA DownBoth ==
  ASSUME NEW m, IsMagnitude(m), NEW x, IsMagnitude(x), NEW y, IsMagnitude(y),
         NEW i \in Nat \ {0}, NEW j \in Nat \ {0}, NEW p \in Nat, NEW c \in Nat, p + c <= Unit,
         Near(x, Reduced(m, i), p), Near(y, Reduced(x, j), c)
  PROVE  Near(y, Reduced(m, i * j), p + c)
<1> DEFINE u == Reduced(m, i)
           v == Reduced(x, j)
           w == Reduced(u, j)
           z == Reduced(m, i * j)
<1>1. /\ IsMagnitude(u) /\ IsMagnitude(v) /\ i * j \in Nat \ {0}
  BY AreMagnitudes, Scales
<1>2. IsMagnitude(w) /\ IsMagnitude(z) /\ SameValue(w, z)
  BY <1>1, AreMagnitudes, ScaledTwice
<1>3. Near(v, w, p)
  BY <1>1, NearScales DEF Near
<1>4. Near(y, v, c)
  OBVIOUS
<1> HIDE DEF v, w, z
<1>5. Near(y, w, c + p)
  <2>1. c + p <= Unit
    OBVIOUS
  <2> QED BY <1>1, <1>2, <1>3, <1>4, <2>1, Nears
<1>6. Near(y, z, p + c)
  <2>1. c + p = p + c /\ p + c \in Nat /\ 0 \in Nat /\ (p + c) + 0 <= Unit
    BY Units
  <2> QED BY <1>2, <1>5, <2>1, Nears
<1> QED BY <1>6 DEF z

-----------------------------------------------------------------------------
(* Scaling down.                                                           *)

(* The first loop that scales down, while it has not ended.                *)
DownAt(m, k) ==
  LET x == ScaledDown(m, k)
  IN  /\ Short(x) /\ NotAbove(Least, x) /\ NotAbove(x, m)
      /\ Near(x, Reduced(m, 10^(BigExponent * k)), k)

DownEnough == Multiplied(Least, BigExponent)

LEMMA DownOnce ==
  ASSUME NEW m, InRange(m), Short(m), NotAbove(Least, m),
         NEW k \in Nat, BigExponent * (k + 1) <= MaxExponent,
         DownAt(m, k), Less(DownEnough, ScaledDown(m, k))
  PROVE  DownAt(m, k + 1)
<1> DEFINE x == ScaledDown(m, k)
           y == ScaledDown(m, k + 1)
           z == Reduced(x, Big)
           high == Enlarged(Least, Big)
           e == BigExponent * k
           f == BigExponent * (k + 1)
<1>1. IsMagnitude(m) /\ IsMagnitude(x) /\ Short(x) /\ NotAbove(x, m)
      /\ Near(x, Reduced(m, 10^e), k)
  BY DEF DownAt, Short
<1>2. Big \in Nat \ {0} /\ k \in 0..MaxExponent - 1 /\ 2 * (k + 1) <= Unit /\ Unit \in Nat
  BY BigIs, FewSteps, Units
<1>3. y = Rounded(z)
  <2>1. y = Divided(x, BigExponent)
    BY <1>2, ScaledDownIs
  <2> QED BY <2>1 DEF Divided, Reduced, Big
<1>4. DownEnough = Rounded(high)
  BY DEF DownEnough, Multiplied, Enlarged, Big
<1>5. InRange(high) /\ IsMagnitude(high) /\ IsMagnitude(Least) /\ InRange(Least) /\ Short(Least)
      /\ IsMagnitude(DownEnough)
  BY <1>4, EndsIs, RoundedNear DEF InRange, Short
<1> HIDE DEF x, y, z
<1>6. NotAbove(high, x)
  <2>1. ~NotAbove(x, DownEnough)
    BY <1>1, <1>5, Ordered DEF x
  <2>2. ~NotAbove(x, high)
    BY <1>1, <1>4, <1>5, <2>1, RoundedKeeps
  <2> QED BY <1>1, <1>5, <2>2, Ordered
<1>7. IsMagnitude(z) /\ NotAbove(Least, z) /\ NotAbove(z, m)
  <2>1. IsMagnitude(z) /\ NotAbove(z, x)
    BY <1>1, <1>2, AreMagnitudes, Widens DEF z
  <2>2. NotAbove(Least, z)
    BY <1>1, <1>2, <1>5, <1>6, ScalesOrder DEF z
  <2> QED BY <1>1, <2>1, <2>2, Ordered
<1>8. InRange(z)
  BY <1>5, <1>7, Between
<1>9. Short(y) /\ Near(y, z, 1) /\ NotAbove(Least, y) /\ NotAbove(y, m) /\ IsMagnitude(y)
  BY <1>3, <1>5, <1>7, <1>8, RoundedNear, RoundedKeeps DEF Short
<1>10. /\ 10^e \in Nat \ {0} /\ 10^f \in Nat \ {0} /\ 10^f = 10^e * Big
  <2>1. BigExponent \in 0..BigExponent /\ e \in FloatExponents /\ f \in FloatExponents
    BY BigSteps, BigIs
  <2>2. 10^f = 10^e * Big
    BY <2>1, BigSteps DEF Big
  <2> QED BY <2>1, <2>2, TenNat
<1>11. 1 \in Nat /\ k + 1 <= Unit
  BY <1>2
<1> HIDE DEF e
<1>12. Near(y, Reduced(m, 10^e * Big), k + 1)
  BY <1>1, <1>2, <1>9, <1>10, <1>11, DownBoth DEF z
<1> QED BY <1>9, <1>10, <1>12 DEF DownAt, y, e

LEMMA DownAll ==
  ASSUME NEW m, InRange(m), Short(m), NotAbove(Least, m), NEW M \in Nat,
         \A k \in 0..M - 1 :
           BigExponent * (k + 1) <= MaxExponent /\ Less(DownEnough, ScaledDown(m, k))
  PROVE  DownAt(m, M)
<1> DEFINE bad == {k \in 0..M : ~DownAt(m, k)}
<1> SUFFICES ASSUME bad # {} PROVE FALSE
  OBVIOUS
<1>1. bad \in SUBSET Nat
  OBVIOUS
<1>2. PICK k \in bad : \A l \in bad : k <= l
  <2> HIDE DEF bad
  <2> QED BY <1>1, LeastNat
<1>3. k \in 0..M /\ ~DownAt(m, k)
  BY <1>2
<1>4. CASE k = 0
  <2>1. BigExponent * k = 0 /\ 10^(BigExponent * k) = 1
    <3>1. BigExponent * k = 0
      BY <1>4, BigIs
    <3> QED BY <3>1, TensAssumption, Zenon
  <2>2. ScaledDown(m, k) = m /\ IsMagnitude(m)
    BY <1>4, ScaledDownIs DEF InRange
  <2>3. IsMagnitude(Reduced(m, 1)) /\ SameValue(Reduced(m, 1), m)
    BY <2>2, AreMagnitudes, ScaledTwice
  <2>4. Near(m, Reduced(m, 1), 0)
    BY <2>2, <2>3, NearlyOrdered DEF Near, SameValue
  <2>5. NotAbove(m, m)
    BY <2>2, Ordered
  <2> QED BY <1>3, <1>4, <2>1, <2>2, <2>4, <2>5 DEF DownAt
<1>5. CASE k # 0
  <2>1. k - 1 \in 0..M - 1 /\ k - 1 \in 0..M /\ ~(k <= k - 1) /\ (k - 1) + 1 = k /\ k - 1 \in Nat
    BY <1>3, <1>5
  <2>2. DownAt(m, k - 1)
    BY <1>2, <2>1
  <2>3. DownAt(m, (k - 1) + 1)
    BY <2>1, <2>2, DownOnce
  <2> QED BY <1>3, <2>1, <2>3
<1> QED BY <1>4, <1>5

\* The power of ten t is enough for the first loop.
DownReaches(m, t) ==
  /\ t \in 0..MaxExponent /\ BigExponent * (t + 1) < MaxExponent
  /\ ~NotAbove(Least, Reduced(Enlarged(m, 2), 10^(BigExponent * (t + 1))))

\* What that loop ends with.
DownEnded(m) ==
  LET big == Turns(LAMBDA k : ~Less(DownEnough, ScaledDown(m, k)))
  IN  /\ big \in Nat /\ BigExponent * (big + 1) < MaxExponent
      /\ DownAt(m, big) /\ ~Less(DownEnough, ScaledDown(m, big))

LEMMA DownEnds ==
  ASSUME NEW m, InRange(m), Short(m), NotAbove(Least, m), NEW t, DownReaches(m, t)
  PROVE  DownEnded(m)
<1> DEFINE P(k) == ~Less(DownEnough, ScaledDown(m, k))
           big == Turns(LAMBDA k : ~Less(DownEnough, ScaledDown(m, k)))
           First(k) == P(k) /\ \A l \in 0..k - 1 : ~P(l)
           S == {k \in 0..MaxExponent : P(k)}
<1>1. big = CHOOSE k \in 0..MaxExponent : First(k)
  BY DEF Turns
<1>2. /\ t \in Nat /\ BigExponent * (t + 1) < MaxExponent /\ MaxExponent \in Nat
      /\ BigExponent * (t + 1) <= MaxExponent /\ t \in 0..MaxExponent
      /\ BigExponent * (t + 1) \in FloatExponents
  BY FloatPrintAssumption, BigIs DEF DownReaches, FloatExponents
<1>3. \A l \in 0..t : l \in 0..MaxExponent /\ BigExponent * (l + 1) < MaxExponent
                      /\ BigExponent * (l + 1) <= MaxExponent
  <2>1. \A l \in 0..t : BigExponent * (l + 1) <= BigExponent * (t + 1)
    BY <1>2, FewSteps
  <2>2. \A l \in 0..t : BigExponent * (l + 1) \in Int /\ l \in 0..MaxExponent
    BY <1>2, BigIs
  <2> QED BY <1>2, <2>1, <2>2, BigIs
<1>4. \E k \in 0..t : P(k)
  <2> SUFFICES ASSUME \A k \in 0..t : ~P(k) PROVE FALSE
    OBVIOUS
  <2>1. t + 1 \in Nat /\ \A k \in 0..(t + 1) - 1 : k \in 0..t
    BY <1>2
  <2>2. DownAt(m, t + 1)
    BY <1>3, <2>1, DownAll
  <2> DEFINE x == ScaledDown(m, t + 1)
             T == 10^(BigExponent * (t + 1))
             z == Reduced(m, T)
  <2>3. IsMagnitude(x) /\ NotAbove(Least, x) /\ Near(x, z, t + 1)
    BY <2>2 DEF DownAt, Short
  <2>4. T \in Nat \ {0} /\ IsMagnitude(m) /\ IsMagnitude(Least) /\ 2 * (t + 1) <= Unit
    BY <1>2, TenNat, EndsIs, FewSteps DEF InRange
  <2> HIDE DEF x
  <2>5. ~NotAbove(Least, Reduced(Enlarged(m, 2), T))
    BY DEF DownReaches
  <2> HIDE DEF T
  <2>6. IsMagnitude(z) /\ Reduced(Enlarged(m, 2), T) = Enlarged(z, 2)
    <3>1. Reduced(Enlarged(m, 2), T) = Enlarged(z, 2)
      BY DEF Reduced, Enlarged, Rat
    <3> QED BY <2>4, <3>1, AreMagnitudes
  <2> HIDE DEF z
  <2>7. NotAbove(x, Enlarged(z, 2)) /\ IsMagnitude(Enlarged(z, 2))
    BY <2>1, <2>3, <2>4, <2>6, NearlyOrdered, AreMagnitudes DEF Near
  <2> QED BY <2>3, <2>4, <2>5, <2>6, <2>7, Ordered
<1> HIDE DEF P
<1>5. PICK s \in 0..MaxExponent : s \in S /\ s <= t /\ \A l \in 0..s - 1 : l \notin S
  <2>1. PICK k \in 0..t : P(k)
    BY <1>4
  <2>2. k \in 0..MaxExponent /\ k \in S /\ k <= t
    BY <1>3, <2>1
  <2>3. \E s \in 0..MaxExponent : s \in S /\ s <= k /\ \A l \in 0..s - 1 : l \notin S
    <3> HIDE DEF S
    <3> QED BY <1>2, <2>2, FirstIn
  <2>4. \A s \in 0..MaxExponent : s <= k => s <= t
    BY <1>2, <2>1, <2>2
  <2> QED BY <2>3, <2>4
<1>6. First(s) /\ s \in 0..MaxExponent
  <2>1. \A l \in 0..s - 1 : l \in 0..MaxExponent
    BY <1>2
  <2> QED BY <1>5, <2>1
<1>7. big \in 0..MaxExponent /\ First(big)
  <2> HIDE DEF First, big
  <2> QED BY <1>1, <1>6
<1> HIDE DEF big
<1>8. big = s
  BY <1>2, <1>6, <1>7
<1>9. big \in Nat /\ big \in 0..t /\ BigExponent * (big + 1) < MaxExponent
  BY <1>2, <1>3, <1>5, <1>8
<1>10. DownAt(m, big)
  <2>1. \A l \in 0..big - 1 : l \in 0..t /\ ~P(l)
    BY <1>2, <1>7, <1>9
  <2>2. \A l \in 0..big - 1 :
          BigExponent * (l + 1) <= MaxExponent /\ Less(DownEnough, ScaledDown(m, l))
    BY <1>3, <2>1 DEF P
  <2> QED BY <1>9, <2>2, DownAll
<1>11. ~Less(DownEnough, ScaledDown(m, big))
  BY <1>7 DEF P
<1> QED BY <1>9, <1>10, <1>11 DEF big, DownEnded

\* What the second loop that scales down ends with.
DownSmalls(x) ==
  LET small == Turns(LAMBDA k : AtMost(Divided(x, k), max_scaled))
      y == Divided(x, small)
  IN  /\ small \in 0..BigExponent /\ IsMagnitude(y)
      /\ NotAbove(Least, y) /\ NotAbove(y, Most)
      /\ Near(y, Reduced(x, 10^small), IF small = 0 THEN 0 ELSE 1)

LEMMA DownSmall ==
  ASSUME NEW m, InRange(m), NEW x, Short(x), NotAbove(x, m), NotAbove(Least, x),
         ~Less(DownEnough, x)
  PROVE  DownSmalls(x)
<1> DEFINE z(k) == Reduced(x, 10^k)
           B == BigExponent
           P(k) == AtMost(Divided(x, k), max_scaled)
           small == Turns(LAMBDA k : AtMost(Divided(x, k), max_scaled))
           First(k) == P(k) /\ \A l \in 0..k - 1 : ~P(l)
           S == {k \in 0..MaxExponent : P(k)}
           high == Enlarged(Least, Big)
<1>1. /\ B \in Nat \ {0} /\ Big \in Nat \ {0} /\ min_scaled \in Nat /\ MaxExponent \in Nat
      /\ max_scaled \in Nat /\ max_scaled = 10 * min_scaled /\ B <= MaxExponent
      /\ IsMagnitude(x) /\ IsMagnitude(m)
      /\ Short(Most) /\ IsMagnitude(Most)
      /\ InRange(Least) /\ Short(Least) /\ IsMagnitude(Least)
      /\ InRange(Reduced(Least, Big)) /\ IsMagnitude(Reduced(Least, Big))
      /\ InRange(high) /\ IsMagnitude(high)
      /\ Least = Rat(min_scaled, 1) /\ Most = Rat(max_scaled, 1)
  BY BigIs, EndsIs, FloatPrintAssumption DEF Short, InRange, Least, Most
<1>2. ASSUME NEW k \in 0..B
      PROVE  /\ IsMagnitude(z(k)) /\ InRange(z(k)) /\ Divided(x, k) = Rounded(z(k))
             /\ IsMagnitude(Rounded(z(k)))
             /\ P(k) <=> NotAbove(Rounded(z(k)), Most)
  <2>1. 10^k \in Nat \ {0} /\ 10^k <= Big
    BY SmallTen
  <2>2. IsMagnitude(z(k)) /\ NotAbove(z(k), x)
    BY <1>1, <2>1, AreMagnitudes, Widens
  <2>3. NotAbove(z(k), m)
    BY <1>1, <2>2, Ordered
  <2>4. /\ NotAbove(Reduced(Least, Big), Reduced(Least, 10^k))
        /\ NotAbove(Reduced(Least, 10^k), z(k)) /\ IsMagnitude(Reduced(Least, 10^k))
    BY <1>1, <2>1, ScalesOrder, EnlargedOrder, AreMagnitudes
  <2>5. NotAbove(Reduced(Least, Big), z(k))
    <3> DEFINE v == Reduced(Least, Big)
               w == Reduced(Least, 10^k)
               t == z(k)
    <3>1. /\ IsMagnitude(v) /\ IsMagnitude(w) /\ IsMagnitude(t)
          /\ NotAbove(v, w) /\ NotAbove(w, t)
      BY <1>1, <2>2, <2>4
    <3> HIDE DEF v, w, t
    <3>2. NotAbove(v, t)
      BY <3>1, Ordered
    <3> QED BY <3>2 DEF v, t
  <2>6. InRange(z(k))
    BY <1>1, <2>2, <2>3, <2>5, Between
  <2>7. Divided(x, k) = Rounded(z(k))
    BY DEF Divided, Reduced
  <2>8. IsMagnitude(Rounded(z(k)))
    BY <2>6, RoundedNear DEF Short
  <2>9. P(k) <=> NotAbove(Rounded(z(k)), Most)
    BY <1>1, <2>7, <2>8, BelowIs
  <2> QED BY <2>2, <2>6, <2>7, <2>8, <2>9
<1> HIDE DEF z, P
<1>3. P(B) /\ B \in 0..B /\ B \in 0..MaxExponent
  <2> DEFINE v == Enlarged(high, 2)
             w == Reduced(v, Big)
  <2>1. DownEnough = Rounded(high)
    BY DEF DownEnough, Multiplied, Enlarged, Big
  <2>2. IsMagnitude(DownEnough) /\ NearlyAtMost(DownEnough, high, 1)
    BY <1>1, <2>1, RoundedNear DEF Short, Near
  <2>3. 2 * 1 <= Unit /\ 2 \in Nat \ {0} /\ 1 \in Nat
    BY Units
  <2>4. NotAbove(DownEnough, v) /\ IsMagnitude(v)
    BY <1>1, <2>2, <2>3, NearlyOrdered, AreMagnitudes
  <2>5. w = Rat((min_scaled * Big) * 2, 1 * Big)
    BY DEF Enlarged, Reduced, Rat, Least
  <2> HIDE DEF v, high
  <2>6. NotAbove(x, v)
    BY <1>1, <2>2, <2>4, Ordered
  <2>7. NotAbove(z(B), w) /\ IsMagnitude(z(B)) /\ IsMagnitude(w)
    BY <1>1, <2>4, <2>6, ScalesOrder, AreMagnitudes DEF z, Big
  <2>8. NotAbove(w, Most)
    <3>1. ((min_scaled * Big) * 2) * 1 <= max_scaled * (1 * Big)
      <4>1. /\ min_scaled * Big \in Nat /\ max_scaled * (1 * Big) = 10 * (min_scaled * Big)
        BY <1>1
      <4> QED BY <4>1
    <3> QED BY <2>5, <3>1 DEF NotAbove, Rat, Most
  <2> HIDE DEF w
  <2>9. NotAbove(z(B), Most)
    BY <1>1, <2>7, <2>8, Ordered
  <2>10. B \in 0..B /\ B \in 0..MaxExponent
    BY <1>1
  <2> QED BY <1>1, <1>2, <2>9, <2>10, RoundedKeeps
<1> HIDE DEF high
<1>4. PICK s \in 0..MaxExponent : s \in S /\ s <= B /\ \A l \in 0..s - 1 : l \notin S
  <2>1. B \in S
    BY <1>3
  <2> HIDE DEF S
  <2> QED BY <1>1, <1>3, <2>1, FirstIn
<1>5. First(s) /\ s \in 0..B
  <2>1. \A l \in 0..s - 1 : l \in 0..MaxExponent
    BY <1>1
  <2>2. s \in 0..B
    BY <1>1, <1>4
  <2> QED BY <1>4, <2>1, <2>2
<1>6. small \in 0..MaxExponent /\ First(small)
  <2>1. small = CHOOSE k \in 0..MaxExponent : First(k)
    BY DEF Turns, P
  <2> HIDE DEF First, small
  <2> QED BY <1>4, <1>5, <2>1
<1> HIDE DEF small
<1>7. small = s /\ small \in 0..B /\ small \in Nat
  <2>1. small = s
    BY <1>1, <1>4, <1>5, <1>6
  <2> QED BY <1>5, <2>1
<1> DEFINE y == Rounded(z(small))
<1>8. /\ IsMagnitude(z(small)) /\ InRange(z(small)) /\ Divided(x, small) = y /\ IsMagnitude(y)
      /\ NotAbove(y, Most)
  BY <1>2, <1>6, <1>7
<1>9. CASE small = 0
  <2>1. SameValue(z(small), x)
    <3>1. 10^small = 1
      BY <1>9, TensAssumption, Zenon
    <3> QED BY <1>1, <3>1, ScaledTwice DEF z
  <2>2. NotAbove(y, x) /\ NotAbove(x, y)
    BY <1>8, <2>1, RoundedKeeps DEF SameValue
  <2>3. NotAbove(Least, y)
    BY <1>1, <1>8, <2>2, Ordered
  <2>4. SameValue(y, z(small))
    BY <1>1, <1>8, <2>1, <2>2, Ordered DEF SameValue
  <2>5. Near(y, z(small), 0)
    BY <1>8, <2>4, NearlyOrdered DEF Near, SameValue
  <2> QED BY <1>7, <1>8, <1>9, <2>3, <2>5 DEF DownSmalls, small, z
<1>10. CASE small # 0
  <2> DEFINE r == small - 1
  <2>1. /\ r \in 0..small - 1 /\ r \in 0..B
        /\ 10^r \in Nat \ {0} /\ 10^small = 10^r * 10
    BY <1>7, <1>10, SmallTen
  <2> HIDE DEF r
  <2>2. ~P(r)
    BY <1>6, <2>1
  <2>3. ~NotAbove(z(r), Most) /\ IsMagnitude(z(r))
    BY <1>1, <1>2, <2>1, <2>2, RoundedKeeps
  <2> DEFINE w == z(r)
             v == z(small)
             u == Reduced(Most, 10)
  <2>4. IsMagnitude(w) /\ IsMagnitude(v) /\ NotAbove(Most, w) /\ 10 \in Nat \ {0}
    <3>1. NotAbove(Most, w)
      BY <1>1, <2>3, Ordered
    <3> QED BY <1>8, <2>3, <3>1
  <2>5. SameValue(Reduced(w, 10), v)
    <3>1. SameValue(Reduced(Reduced(x, 10^r), 10), Reduced(x, 10^r * 10))
      BY <1>1, <2>1, <2>4, ScaledTwice
    <3> QED BY <2>1, <3>1 DEF z
  <2>6. NotAbove(Least, u)
    BY <1>1 DEF NotAbove, Reduced, Rat
  <2> HIDE DEF w, v
  <2>7. NotAbove(Least, v)
    <3>1. NotAbove(u, Reduced(w, 10)) /\ IsMagnitude(Reduced(w, 10)) /\ IsMagnitude(u)
      BY <1>1, <2>4, ScalesOrder, AreMagnitudes
    <3> HIDE DEF u
    <3>2. NotAbove(Least, Reduced(w, 10))
      BY <1>1, <2>6, <3>1, Ordered
    <3> QED BY <1>1, <2>4, <2>5, <3>1, <3>2, Ordered DEF SameValue
  <2>8. NotAbove(Least, y)
    BY <1>1, <1>8, <2>7, RoundedKeeps DEF v
  <2>9. Near(y, z(small), 1)
    BY <1>8, RoundedNear
  <2> QED BY <1>7, <1>8, <1>10, <2>8, <2>9 DEF DownSmalls, small, z
<1> QED BY <1>9, <1>10

-----------------------------------------------------------------------------
(* What a number is scaled to.                                             *)

\* The number y with what was split off it.
Whole(y, split) == Rat(y.num + split * y.den, y.den)

\* It has sig_digits digits before the point, but for the most, and is m / 10^e
\* but for as many roundings as take it there, or one power further.
ScaledAs(m, y, e, split) ==
  /\ e \in FloatPowers /\ e < MaxExponent
  /\ y.num \in Nat /\ y.den \in Nat \ {0} /\ split \in Nat
  /\ IsMagnitude(Whole(y, split))
  /\ NotAbove(Least, Whole(y, split)) /\ NotAbove(Whole(y, split), Most)
  /\ Near(Whole(y, split), TimesTen(m, -e), Steps(e))
  /\ Near(Whole(y, split), TimesTen(m, -e), Steps(e + 1))

LEMMA TimesIs ==
  ASSUME NEW m, IsMagnitude(m), NEW e \in FloatPowers
  PROVE  IsMagnitude(TimesTen(m, -e))
<1>1. CASE e <= 0
  <2>1. -e \in FloatExponents
    BY <1>1, FloatPrintAssumption DEF FloatPowers, FloatExponents
  <2> QED BY <2>1, TimesMore
<1>2. CASE e >= 0
  <2>1. e \in FloatExponents
    BY <1>2, FloatPrintAssumption DEF FloatPowers, FloatExponents
  <2> QED BY <2>1, TimesLess
<1> QED BY <1>1, <1>2, FloatPrintAssumption DEF FloatPowers

(* Nothing split off, and roundings no more than the steps.                *)
LEMMA NothingSplit ==
  ASSUME NEW m, IsMagnitude(m), NEW e \in FloatPowers, e < MaxExponent,
         NEW y, IsMagnitude(y), NotAbove(Least, y), NotAbove(y, Most),
         NEW p \in Nat, p <= Steps(e), p <= Steps(e + 1),
         NEW z, IsMagnitude(z), SameValue(z, TimesTen(m, -e)), Near(y, z, p)
  PROVE  ScaledAs(m, y, e, 0)
<1> DEFINE v == Whole(y, 0)
           s == TimesTen(m, -e)
<1>1. v = y \/ (v.num = y.num /\ v.den = y.den)
  <2> DEFINE a == y.num
             b == y.den
  <2>1. a \in Nat /\ b \in Nat
    BY DEF IsMagnitude
  <2>2. v.num = a + 0 * b /\ v.den = b
    BY DEF Whole, Rat
  <2> HIDE DEF a, b
  <2>3. a + 0 * b = a
    BY <2>1
  <2> QED BY <2>2, <2>3 DEF a, b
<1>2. v.num = y.num /\ v.den = y.den
  BY <1>1
<1>3. IsMagnitude(s)
  BY TimesIs
<1>4. e + 1 \in FloatPowers
  BY FloatPrintAssumption DEF FloatPowers
<1>5. /\ Steps(e) \in Nat /\ Steps(e + 1) \in Nat /\ Steps(e) <= Unit /\ Steps(e + 1) <= Unit
      /\ Unit \in Nat
  BY <1>4, StepsAre, Units
<1> HIDE DEF s
<1>6. ASSUME NEW q \in Nat, p <= q, q <= Unit PROVE Near(y, s, q)
  <2>1. Near(y, z, q)
    BY <1>6, NearlyOrdered DEF Near
  <2>2. q + 0 <= Unit /\ 0 \in Nat
    BY <1>5, <1>6
  <2>3. SameValue(z, s)
    BY DEF s
  <2> QED BY <1>3, <1>6, <2>1, <2>2, <2>3, Nears
<1>7. Near(y, s, Steps(e)) /\ Near(y, s, Steps(e + 1))
  BY <1>5, <1>6
<1> HIDE DEF v
<1>8. /\ IsMagnitude(v) /\ NotAbove(Least, v) /\ NotAbove(v, Most)
      /\ Near(v, s, Steps(e)) /\ Near(v, s, Steps(e + 1))
  BY <1>2, <1>7 DEF IsMagnitude, NotAbove, Near, NearlyAtMost
<1> QED BY <1>8 DEF ScaledAs, IsMagnitude, v, s

UpScales(m) ==
  LET big == Turns(LAMBDA k : ~Less(ScaledUp(m, k), UpEnough))
      x == ScaledUp(m, big)
      small == Turns(LAMBDA k : ~Below(Multiplied(x, k), min_scaled))
  IN  ScaledAs(m, Multiplied(x, small), -(BigExponent * big) - small, 0)

LEMMA ScalesUp ==
  ASSUME NEW m, InRange(m), Short(m), NotAbove(m, Most), NEW t, UpReaches(m, t)
  PROVE  UpScales(m)
<1> DEFINE big == Turns(LAMBDA k : ~Less(ScaledUp(m, k), UpEnough))
           x == ScaledUp(m, big)
           small == Turns(LAMBDA k : ~Below(Multiplied(x, k), min_scaled))
           y == Multiplied(x, small)
           g == BigExponent * big
           f == g + small
           e == -g - small
           c == IF small = 0 THEN 0 ELSE 1
<1>1. /\ big \in Nat /\ BigExponent * (big + 1) <= MaxExponent
      /\ UpAt(m, big) /\ ~Less(x, UpEnough)
  <2>1. UpEnded(m)
    BY UpEnds
  <2> QED BY <2>1 DEF UpEnded
<1> HIDE DEF big
<1>2. /\ Short(x) /\ IsMagnitude(x) /\ NotAbove(m, x) /\ NotAbove(x, Most)
      /\ Near(x, Enlarged(m, 10^g), big)
  BY <1>1 DEF UpAt, Short
<1>3. UpSmalls(x)
  BY <1>1, <1>2, UpSmall
<1> HIDE DEF x
<1>4. /\ small \in 0..BigExponent /\ IsMagnitude(y)
      /\ NotAbove(Least, y) /\ NotAbove(y, Most)
      /\ Near(y, Enlarged(x, 10^small), c)
  BY <1>3 DEF UpSmalls
<1> HIDE DEF small, y
<1>5. /\ f \in FloatExponents /\ g \in FloatExponents
      /\ 10^g \in Nat \ {0} /\ 10^small \in Nat \ {0}
      /\ 10^f = 10^g * 10^small /\ big + c \in Nat /\ big + c <= Unit
  BY <1>1, <1>4, LoopsScale
<1> HIDE DEF g
<1>6. /\ c \in {0, 1} /\ (c = 0 <=> small = 0)
      /\ small \in Nat /\ g \in Nat /\ MaxExponent \in Nat
  BY <1>4, <1>5, BigIs, FloatPrintAssumption DEF FloatExponents, c
<1> HIDE DEF c
<1>7. IsMagnitude(m) /\ c \in Nat
  BY <1>6 DEF InRange
<1>8. Near(y, Enlarged(m, 10^g * 10^small), big + c)
  BY <1>1, <1>2, <1>4, <1>5, <1>7, UpBoth
<1>9. Near(y, Enlarged(m, 10^f), big + c)
  BY <1>5, <1>8
<1>10. /\ e \in FloatPowers /\ e < MaxExponent /\ -e = f /\ e + 1 \in FloatPowers
       /\ (IF e < 0 THEN -e ELSE e) = f
       /\ (IF e + 1 < 0 THEN -(e + 1) ELSE e + 1) = (IF f = 0 THEN 1 ELSE f - 1)
  BY <1>5, <1>6, FloatPrintAssumption DEF FloatPowers, FloatExponents
<1>11. /\ IsMagnitude(Enlarged(m, 10^f)) /\ IsMagnitude(TimesTen(m, -e))
       /\ SameValue(Enlarged(m, 10^f), TimesTen(m, -e))
  BY <1>5, <1>7, <1>10, TenNat, AreMagnitudes, TimesMore DEF SameValue
<1>12. big + c <= Steps(e)
  <2>1. BigExponent * big <= f
    BY <1>6 DEF g
  <2>2. big + 1 <= Steps(e)
    BY <1>1, <1>10, <2>1, StepsAre
  <2> QED BY <1>1, <1>6, <1>10, <2>2, StepsAre
<1>13. big + c <= Steps(e + 1)
  <2>1. Steps(e + 1) \in Nat /\ 1 <= Steps(e + 1)
    BY <1>10, StepsAre
  <2>2. CASE small # 0
    <3>1. BigExponent * big <= f - 1 /\ f # 0
      BY <1>6, <2>2 DEF g
    <3>2. big + 1 <= Steps(e + 1)
      BY <1>1, <1>10, <3>1, StepsAre
    <3> QED BY <1>1, <1>6, <2>1, <3>2
  <2>3. CASE small = 0 /\ big # 0
    <3>1. /\ BigExponent * (big - 1) <= f - 1 /\ f # 0 /\ big - 1 \in Nat
      <4>1. BigExponent * (big - 1) = BigExponent * big - BigExponent
            /\ BigExponent \in Nat \ {0} /\ big \in Nat
        BY <1>1, BigIs
      <4>2. BigExponent <= BigExponent * big
        BY <2>3, <4>1
      <4>3. f = BigExponent * big
        BY <1>6, <2>3 DEF g
      <4> HIDE DEF f
      <4> DEFINE q == BigExponent * big
      <4>4. q \in Nat
        BY <4>1
      <4> QED BY <2>3, <4>1, <4>2, <4>3, <4>4
    <3>2. (big - 1) + 1 <= Steps(e + 1)
      BY <1>10, <3>1, StepsAre
    <3> QED BY <1>1, <1>6, <2>1, <2>3, <3>2
  <2>4. CASE small = 0 /\ big = 0
    BY <1>6, <2>1, <2>4
  <2> QED BY <2>2, <2>3, <2>4
<1> HIDE DEF e, f
<1>14. ScaledAs(m, y, e, 0)
  BY <1>4, <1>5, <1>7, <1>9, <1>10, <1>11, <1>12, <1>13, NothingSplit
<1> QED BY <1>14 DEF UpScales, big, x, small, y, e, g

DownScales(m) ==
  LET big == Turns(LAMBDA k : ~Less(DownEnough, ScaledDown(m, k)))
      x == ScaledDown(m, big)
      small == Turns(LAMBDA k : AtMost(Divided(x, k), max_scaled))
  IN  ScaledAs(m, Divided(x, small), BigExponent * big + small, 0)

LEMMA ScalesDown ==
  ASSUME NEW m, InRange(m), Short(m), NotAbove(Least, m), NEW t, DownReaches(m, t)
  PROVE  DownScales(m)
<1> DEFINE big == Turns(LAMBDA k : ~Less(DownEnough, ScaledDown(m, k)))
           x == ScaledDown(m, big)
           small == Turns(LAMBDA k : AtMost(Divided(x, k), max_scaled))
           y == Divided(x, small)
           g == BigExponent * big
           e == g + small
           c == IF small = 0 THEN 0 ELSE 1
<1>1. /\ big \in Nat /\ BigExponent * (big + 1) < MaxExponent
      /\ DownAt(m, big) /\ ~Less(DownEnough, x)
  <2>1. DownEnded(m)
    BY DownEnds
  <2> QED BY <2>1 DEF DownEnded
<1> HIDE DEF big
<1>2. /\ Short(x) /\ IsMagnitude(x) /\ NotAbove(x, m) /\ NotAbove(Least, x)
      /\ Near(x, Reduced(m, 10^g), big)
  BY <1>1 DEF DownAt, Short
<1>3. DownSmalls(x)
  BY <1>1, <1>2, DownSmall
<1> HIDE DEF x
<1>4. /\ small \in 0..BigExponent /\ IsMagnitude(y)
      /\ NotAbove(Least, y) /\ NotAbove(y, Most)
      /\ Near(y, Reduced(x, 10^small), c)
  BY <1>3 DEF DownSmalls
<1> HIDE DEF small, y
<1>5. BigExponent * (big + 1) <= MaxExponent /\ BigExponent * (big + 1) = g + BigExponent
  <2>1. BigExponent * (big + 1) <= MaxExponent
    <3>1. BigExponent * (big + 1) \in Nat /\ MaxExponent \in Nat
      BY <1>1, BigIs, FloatPrintAssumption
    <3> QED BY <1>1, <3>1
  <2> QED BY <1>1, <2>1, BigSteps
<1>6. /\ e \in FloatExponents /\ g \in FloatExponents
      /\ 10^g \in Nat \ {0} /\ 10^small \in Nat \ {0}
      /\ 10^e = 10^g * 10^small /\ big + c \in Nat /\ big + c <= Unit
  BY <1>1, <1>4, <1>5, LoopsScale
<1> HIDE DEF g
<1>7. c \in {0, 1} /\ small \in Nat /\ g \in Nat /\ MaxExponent \in Nat /\ BigExponent \in Nat
  BY <1>4, <1>6, FloatPrintAssumption, BigIs DEF FloatExponents
<1> HIDE DEF c
<1>8. IsMagnitude(m) /\ c \in Nat
  BY <1>7 DEF InRange
<1>9. Near(y, Reduced(m, 10^g * 10^small), big + c)
  BY <1>1, <1>2, <1>4, <1>6, <1>8, DownBoth
<1>10. Near(y, Reduced(m, 10^e), big + c)
  BY <1>6, <1>9
<1>11. /\ e \in FloatPowers /\ e < MaxExponent /\ e + 1 \in FloatPowers /\ e >= 0
       /\ (IF e < 0 THEN -e ELSE e) = e
       /\ (IF e + 1 < 0 THEN -(e + 1) ELSE e + 1) = e + 1
  <2>1. e < MaxExponent /\ e \in Nat
    BY <1>1, <1>4, <1>5, <1>7
  <2> QED BY <1>7, <2>1 DEF FloatPowers
<1>12. /\ IsMagnitude(Reduced(m, 10^e)) /\ IsMagnitude(TimesTen(m, -e))
       /\ SameValue(Reduced(m, 10^e), TimesTen(m, -e))
  BY <1>6, <1>8, TenNat, AreMagnitudes, TimesLess DEF SameValue
<1>13. big + c <= Steps(e) /\ big + c <= Steps(e + 1)
  <2>1. BigExponent * big <= e /\ BigExponent * big <= e + 1
    BY <1>7 DEF g
  <2>2. big + 1 <= Steps(e) /\ big + 1 <= Steps(e + 1)
    BY <1>1, <1>11, <2>1, StepsAre
  <2> QED BY <1>1, <1>7, <1>11, <2>2, StepsAre
<1> HIDE DEF e
<1>14. ScaledAs(m, y, e, 0)
  BY <1>4, <1>6, <1>8, <1>10, <1>11, <1>12, <1>13, NothingSplit
<1> QED BY <1>14 DEF DownScales, big, x, small, y, e, g

-----------------------------------------------------------------------------
(* An integer split off.                                                   *)

LEMMA Precision ==
  /\ sig_digits \in FloatExponents /\ sig_digits - 1 \in FloatExponents
  /\ min_scaled \in Nat \ {0} /\ max_scaled = 10 * min_scaled
<1>1. /\ sig_digits \in FloatExponents /\ sig_digits - 1 \in FloatExponents
      /\ (sig_digits - 1) + 1 = sig_digits
  BY FloatPrintAssumption DEF FloatExponents
<1>2. 10^sig_digits = 10 * 10^(sig_digits - 1) /\ 10^(sig_digits - 1) \in Nat \ {0}
  BY <1>1, TenNext, TenNat
<1> QED BY <1>1, <1>2 DEF min_scaled, max_scaled

\* The least power of ten that gives an integer its digits.
SplitPower(whole) == Turns(LAMBDA j : whole * 10^j >= min_scaled)

LEMMA SplitPowerIs ==
  ASSUME NEW whole \in 1..max_scaled
  PROVE  LET k == SplitPower(whole)
         IN  /\ k \in FloatExponents /\ k < sig_digits
             /\ 10^k \in 1..Unit
             /\ min_scaled <= whole * 10^k /\ whole * 10^k <= max_scaled
             /\ whole < max_scaled => whole * 10^k + 10^k <= max_scaled
<1> DEFINE P(j) == whole * 10^j >= min_scaled
           k == SplitPower(whole)
           First(j) == P(j) /\ \A l \in 0..j - 1 : ~P(l)
           D == sig_digits
           S == {j \in 0..MaxExponent : P(j)}
<1>1. /\ D - 1 \in FloatExponents /\ D \in FloatExponents /\ D \in Nat /\ MaxExponent \in Nat
      /\ min_scaled \in Nat \ {0} /\ max_scaled = 10 * min_scaled
      /\ min_scaled = 10^(D - 1) /\ max_scaled = 10^D /\ whole \in Nat \ {0}
      /\ max_scaled <= Unit /\ Unit \in Nat
  BY Precision, FloatPrintAssumption, Units, BigIs DEF FloatExponents, min_scaled, max_scaled
<1>2. k = CHOOSE j \in 0..MaxExponent : First(j)
  BY DEF SplitPower, Turns
<1>3. P(D - 1) /\ D - 1 \in 0..MaxExponent
  <2>1. whole * min_scaled >= min_scaled
    BY <1>1
  <2> QED BY <1>1, <2>1 DEF FloatExponents
<1> HIDE DEF k, P, D
<1>4. PICK s \in 0..MaxExponent : s \in S /\ s <= D - 1 /\ \A l \in 0..s - 1 : l \notin S
  <2>1. D - 1 \in S
    BY <1>3
  <2> HIDE DEF S
  <2> QED BY <1>1, <1>3, <2>1, FirstIn
<1>5. First(s) /\ s \in 0..MaxExponent
  <2>1. \A l \in 0..s - 1 : l \in 0..MaxExponent
    BY <1>1
  <2> QED BY <1>4, <2>1
<1>6. k \in 0..MaxExponent /\ First(k)
  <2> HIDE DEF First
  <2> QED BY <1>2, <1>5
<1>7. k = s
  BY <1>1, <1>4, <1>5, <1>6
<1>8. k \in FloatExponents /\ k \in Nat /\ k < D /\ k <= D - 1 /\ k <= D
  BY <1>1, <1>4, <1>7 DEF FloatExponents
<1> DEFINE T == 10^k
<1>9. T \in Nat \ {0} /\ T <= max_scaled /\ max_scaled = T * 10^(D - k) /\ 10^(D - k) \in Nat \ {0}
  BY <1>1, <1>8, TenDivides
<1>10. min_scaled <= whole * T
  BY <1>1, <1>6, <1>9 DEF P
<1>11. CASE k = 0
  <2>1. T = 1
    BY <1>11, TensAssumption, Zenon
  <2> HIDE DEF T
  <2>2. whole * T = whole
    BY <1>1, <2>1
  <2> QED BY <1>1, <1>8, <1>9, <1>10, <2>1, <2>2 DEF T, k, D
<1>12. CASE k # 0
  <2> DEFINE r == k - 1
             p == 10^r
             q == 10^(D - k)
  <2>1. r \in 0..k - 1 /\ r \in FloatExponents /\ r \in Nat /\ r + 1 = k /\ r <= D - 1
        /\ (D - 1) - r = D - k
    BY <1>1, <1>8, <1>12 DEF FloatExponents
  <2>2. ~P(r)
    BY <1>6, <2>1
  <2> HIDE DEF r
  <2>3. p \in Nat \ {0} /\ T = 10 * p /\ min_scaled = p * q /\ q \in Nat \ {0}
    BY <1>1, <1>8, <1>9, <2>1, TenNat, TenNext, TenDivides
  <2>4. whole * p < p * q
    BY <1>1, <2>2, <2>3 DEF P
  <2> HIDE DEF T, p, q
  <2>5. whole < q
    <3> SUFFICES ASSUME q <= whole PROVE FALSE
      BY <1>1, <2>3
    <3>1. q * p <= whole * p
      BY <1>1, <2>3, Scales
    <3> QED BY <1>1, <2>3, <2>4, <3>1
  <2>6. (whole + 1) * T <= q * T
    BY <1>1, <1>9, <2>3, <2>5, Scales
  <2>7. (whole + 1) * T = whole * T + T /\ q * T = max_scaled /\ whole * T \in Nat
    BY <1>1, <1>9, <2>3 DEF q
  <2> QED BY <1>1, <1>8, <1>9, <1>10, <2>6, <2>7 DEF T, k, D
<1> QED BY <1>11, <1>12

(* A number added to both.                                                 *)
LEMMA NearAdds ==
  ASSUME NEW x, NEW y, x.num \in Nat, x.den \in Nat, y.num \in Nat, y.den \in Nat,
         NEW split \in Nat, NearlyAtMost(x, y, 1)
  PROVE  NearlyAtMost(Whole(x, split), Whole(y, split), 1)
<1> DEFINE a == x.num
           b == x.den
           c == y.num
           d == y.den
           U == Unit
           s == U - 1
           S == split
<1>1. a \in Nat /\ b \in Nat /\ c \in Nat /\ d \in Nat /\ U \in Nat \ {0} /\ s \in Nat /\ s <= U
      /\ S \in Nat
  BY Units
<1>2. /\ s * a * d <= U * c * b
      /\ NearlyAtMost(Whole(x, S), Whole(y, S), 1)
           <=> s * (a + S * b) * d <= U * (c + S * d) * b
  BY NearlyIs DEF Whole, Rat
<1> HIDE DEF a, b, c, d, U, s, S
<1>3. /\ s * (a + S * b) * d = s * a * d + s * (S * (b * d))
      /\ U * (c + S * d) * b = U * c * b + U * (S * (b * d))
  BY <1>1
<1>4. S * (b * d) \in Nat
  BY <1>1
<1> DEFINE w == S * (b * d)
<1>5. w \in Nat
  BY <1>4
<1> HIDE DEF w
<1>6. s * w <= U * w /\ s * w \in Int /\ U * w \in Int
  BY <1>1, <1>5
<1>7. s * a * d \in Int /\ U * c * b \in Int
  BY <1>1
<1>8. s * a * d + s * w <= U * c * b + U * w
  BY <1>2, <1>6, <1>7
<1> QED BY <1>2, <1>3, <1>8 DEF w, S

LEMMA WholeBetween ==
  ASSUME NEW y, y.num \in Nat, y.den \in Nat \ {0}, NEW split \in Nat, NEW t \in Nat,
         NotAbove(y, Rat(t, 1)), min_scaled <= split, split + t <= max_scaled
  PROVE  /\ IsMagnitude(Whole(y, split))
         /\ NotAbove(Least, Whole(y, split)) /\ NotAbove(Whole(y, split), Most)
<1> DEFINE a == y.num
           b == y.den
           S == split
           v == Whole(y, S)
<1>1. /\ a \in Nat /\ b \in Nat \ {0} /\ min_scaled \in Nat \ {0} /\ max_scaled \in Nat
      /\ min_scaled <= S /\ S + t <= max_scaled /\ S \in Nat
  BY BigIs
<1>2. /\ a * 1 <= t * b
      /\ v.num = a + S * b /\ v.den = b
      /\ NotAbove(Least, v) <=> min_scaled * b <= (a + S * b) * 1
      /\ NotAbove(v, Most) <=> (a + S * b) * 1 <= max_scaled * b
  BY DEF NotAbove, Whole, Least, Most, Rat
<1> HIDE DEF a, b, S, v
<1>3. min_scaled * b <= S * b /\ (S + t) * b <= max_scaled * b
  BY <1>1, Scales
<1>4. (S + t) * b = S * b + t * b /\ S * b \in Nat /\ t * b \in Nat
      /\ min_scaled * b \in Nat \ {0} /\ max_scaled * b \in Nat
  BY <1>1, Scales
<1>5. a <= t * b /\ a * 1 = a /\ (a + S * b) * 1 = a + S * b /\ a + S * b \in Nat \ {0}
  BY <1>1, <1>2, <1>3, <1>4
<1>6. IsMagnitude(v)
  BY <1>1, <1>2, <1>5 DEF IsMagnitude
<1>7. NotAbove(Least, v) /\ NotAbove(v, Most)
  BY <1>1, <1>2, <1>3, <1>4, <1>5
<1> QED BY <1>6, <1>7 DEF v, S

\* What is left of m after the point, by the power of ten that gives the integer its digits.
SplitsOff(m) ==
  LET whole == m.num \div m.den
      k == SplitPower(whole)
  IN  ScaledAs(m, Multiplied(Rat(m.num % m.den, m.den), k), -k, whole * 10^k)

LEMMA SplitOff ==
  ASSUME NEW m, InRange(m), Unit * m.den <= Widest, ~Below(m, 1), NotAbove(m, Most)
  PROVE  SplitsOff(m)
<1> DEFINE a == m.num
           d == m.den
           whole == m.num \div m.den
           r == m.num % m.den
           k == SplitPower(whole)
           T == 10^k
           S == whole * 10^k
           z == Rat(r * 10^k, m.den)
           y == Multiplied(Rat(m.num % m.den, m.den), k)
           M == max_scaled
           e == -k
<1>1. /\ a \in Nat \ {0} /\ d \in Nat \ {0} /\ ~(a < d) /\ IsMagnitude(m)
      /\ M \in Nat \ {0} /\ Unit \in Nat \ {0} /\ Widest \in Nat \ {0}
      /\ Unit * d <= Widest
  <2>1. m.num \in Nat \ {0} /\ m.den \in Nat \ {0} /\ ~(m.num < 1 * m.den)
    BY DEF InRange, IsMagnitude, Below
  <2> QED BY <2>1, BigIs, Units, WidestIs DEF InRange
<1>2. a <= M * d
  <2>1. a * 1 <= M * d
    BY DEF NotAbove, Most, Rat
  <2> QED BY <1>1, <2>1
<1>3. /\ whole \in Nat /\ r \in 0..d - 1 /\ a = whole * d + r
      /\ \A i \in Nat : whole < i <=> a < i * d
  BY <1>1, Quotient
<1>4. y = Rounded(z)
  BY DEF Multiplied, Rat
<1> HIDE DEF a, d, whole, r, M
<1>5. whole \in 1..M /\ (whole = M => r = 0)
  <2>1. whole >= 1
    BY <1>1, <1>3
  <2>2. whole < M + 1
    <3>1. (M + 1) * d = M * d + d /\ M * d \in Nat
      BY <1>1
    <3> QED BY <1>1, <1>2, <1>3, <3>1
  <2>3. ASSUME whole = M PROVE r = 0
    <3>1. M * d \in Nat
      BY <1>1
    <3> QED BY <1>1, <1>2, <1>3, <2>3, <3>1
  <2> QED BY <1>1, <1>3, <2>1, <2>2, <2>3
<1>6. /\ k \in FloatExponents /\ k < sig_digits /\ T \in 1..Unit
      /\ min_scaled <= S /\ S <= M
      /\ whole < M => S + T <= M
  BY <1>5, SplitPowerIs DEF M
<1>7. k \in Nat /\ S \in Nat /\ T \in Nat \ {0} /\ MaxExponent \in Nat /\ MaxExponent > 0
  BY <1>1, <1>3, <1>6, FloatPrintAssumption DEF FloatExponents
<1>8. /\ IsMagnitude(Enlarged(m, T)) /\ IsMagnitude(TimesTen(m, k))
      /\ SameValue(Enlarged(m, T), TimesTen(m, k))
  BY <1>1, <1>6, <1>7, AreMagnitudes, TimesMore DEF SameValue
<1>9. Enlarged(m, T) = Whole(z, S)
  <2>1. a * T = r * T + S * d
    BY <1>1, <1>3, <1>7
  <2> QED BY <2>1 DEF Enlarged, Whole, Rat, a, d
<1>10. y.num \in Nat /\ y.den \in Nat \ {0} /\ z.num \in Nat /\ z.den \in Nat \ {0}
       /\ NearlyAtMost(y, z, 1) /\ NearlyAtMost(z, y, 1)
       /\ \E t \in {0, T} : NotAbove(y, Rat(t, 1)) /\ S + t <= M
  <2>0. z.num = r * T /\ z.den = d
    BY DEF Rat, d
  <2>1. CASE r = 0
    <3>1. z.num = 0
      BY <1>7, <2>0, <2>1
    <3>2. y = z
      BY <1>4, <3>1 DEF Rounded
    <3>3. NotAbove(y, Rat(0, 1)) /\ NearlyAtMost(y, z, 1)
      <4> HIDE DEF y, z
      <4>1. /\ NotAbove(y, Rat(0, 1)) <=> 0 * 1 <= 0 * d
            /\ NearlyAtMost(y, z, 1) <=> (Unit - 1) * 0 * d <= Unit * 0 * d
        BY <2>0, <3>1, <3>2, NearlyIs DEF NotAbove, Rat
      <4>2. (Unit - 1) * 0 * d = 0 /\ Unit * 0 * d = 0 /\ 0 * d = 0
        BY <1>1
      <4> QED BY <4>1, <4>2
    <3>4. 0 \in {0, T} /\ S + 0 <= M
      BY <1>6, <1>7
    <3> HIDE DEF y, z, T, S
    <3> QED BY <1>1, <2>0, <3>1, <3>2, <3>3, <3>4
  <2>2. CASE r # 0
    <3>1. r \in Nat \ {0} /\ r <= d /\ r * T \in Nat \ {0}
      BY <1>1, <1>3, <1>7, <2>2, Scales
    <3>2. IsMagnitude(z)
      BY <1>1, <2>0, <3>1 DEF IsMagnitude
    <3>3. r * T <= T * d
      BY <1>1, <1>7, <3>1, Scales
    <3>4. InRange(z)
      <4>1. Unit * d <= (r * T) * Widest
        <5>1. Widest <= Widest * (r * T) /\ Widest * (r * T) = (r * T) * Widest
          BY <1>1, <3>1, Scales
        <5>2. Unit * d \in Nat /\ (r * T) * Widest \in Nat
          BY <1>1, <3>1
        <5> QED BY <1>1, <5>1, <5>2
      <4>2. r * T <= d * Widest
        <5>1. T <= Widest
          <6>1. Unit <= Unit * d
            BY <1>1
          <6> QED BY <1>1, <1>6, <1>7, <6>1
        <5>2. T * d <= Widest * d /\ Widest * d = d * Widest
          BY <1>1, <1>7, <5>1, Scales
        <5>3. T * d \in Nat /\ d * Widest \in Nat
          BY <1>1, <1>7
        <5> QED BY <3>1, <3>3, <5>2, <5>3
      <4> QED BY <2>0, <3>2, <4>1, <4>2 DEF InRange
    <3>5. Short(y) /\ IsMagnitude(y) /\ NearlyAtMost(y, z, 1) /\ NearlyAtMost(z, y, 1)
      BY <1>4, <3>4, RoundedNear DEF Short, Near
    <3>6. NotAbove(z, Rat(T, 1))
      <4>1. NotAbove(z, Rat(T, 1)) <=> (r * T) * 1 <= T * d
        BY <2>0 DEF NotAbove, Rat
      <4> QED BY <3>1, <3>3, <4>1
    <3>7. NotAbove(y, Rat(T, 1))
      <4>1. Short(Rat(T, 1))
        BY <1>6, ShortNaturals
      <4> QED BY <1>4, <3>4, <3>6, <4>1, RoundedKeeps
    <3>8. T \in {0, T} /\ S + T <= M
      BY <1>1, <1>5, <1>6, <2>2
    <3> QED BY <3>2, <3>5, <3>7, <3>8 DEF IsMagnitude
  <2> QED BY <2>1, <2>2
<1> DEFINE v == Whole(y, S)
           w == Whole(z, S)
           s == TimesTen(m, k)
<1> HIDE DEF y, z, T, S
<1>11. IsMagnitude(v) /\ NotAbove(Least, v) /\ NotAbove(v, Most)
  <2>1. PICK t \in {0, T} : NotAbove(y, Rat(t, 1)) /\ S + t <= M
    BY <1>10
  <2>2. t \in Nat
    BY <1>7
  <2> QED BY <1>6, <1>7, <1>10, <2>1, <2>2, WholeBetween DEF M
<1>12. Near(v, w, 1)
  BY <1>7, <1>10, NearAdds DEF Near
<1>13. IsMagnitude(w) /\ SameValue(w, s) /\ IsMagnitude(s)
  BY <1>8, <1>9
<1> HIDE DEF v, w, s, k
<1>14. e \in FloatPowers /\ e < MaxExponent /\ e + 1 \in FloatPowers /\ -e = k
  BY <1>6, <1>7 DEF FloatPowers, FloatExponents
<1>15. /\ Steps(e) \in Nat /\ 1 <= Steps(e) /\ Steps(e + 1) \in Nat /\ 1 <= Steps(e + 1)
       /\ Steps(e) <= Unit /\ Steps(e + 1) <= Unit
  BY <1>14, StepsAre
<1>16. Near(v, s, 1)
  <2>1. 1 + 0 <= Unit /\ 1 \in Nat /\ 0 \in Nat
    BY <1>1
  <2> QED BY <1>11, <1>12, <1>13, <2>1, Nears
<1>17. Near(v, s, Steps(e)) /\ Near(v, s, Steps(e + 1))
  BY <1>11, <1>13, <1>15, <1>16, NearlyOrdered DEF Near
<1> HIDE DEF e
<1>18. s = TimesTen(m, -e)
  BY <1>14 DEF s
<1>19. ScaledAs(m, y, e, S)
  BY <1>7, <1>10, <1>11, <1>14, <1>17, <1>18 DEF ScaledAs, v
<1> QED BY <1>19 DEF SplitsOff, y, e, S, k, whole

(* The numbers printed are in the range, and in reach of both scalings.    *)
LEMMA NumberIs ==
  ASSUME NEW x \in Numbers, NEW m, m = Absolute(x), IsMagnitude(m)
  PROVE  /\ InRange(m) /\ Short(m) /\ Unit * m.den <= Widest
         /\ Below(m, 1) => NotAbove(m, Most) /\ \E t \in 0..MaxExponent : UpReaches(m, t)
         /\ ~AtMost(m, max_scaled) =>
              NotAbove(Least, m) /\ \E t \in 0..MaxExponent : DownReaches(m, t)
<1> DEFINE a == m.num
           d == m.den
<1>1. /\ a \in Nat \ {0} /\ d \in Nat \ {0} /\ Unit \in Nat \ {0} /\ Widest \in Nat \ {0}
      /\ BigExponent \in Nat \ {0} /\ MaxExponent \in Nat
      /\ min_scaled \in Nat \ {0} /\ max_scaled \in Nat \ {0} /\ min_scaled <= max_scaled
      /\ IsMagnitude(Least) /\ IsMagnitude(Most)
  BY BigIs, Units, WidestIs, EndsIs, FloatPrintAssumption DEF IsMagnitude
<1>2. a < Widest /\ Unit * d <= Widest /\ IsFloat(m)
  BY RangeAssumption DEF Unit, Widest
<1>3. ASSUME Below(m, 1)
      PROVE  \E k \in 0..MaxExponent :
               /\ BigExponent * (k + 1) <= MaxExponent
               /\ ~AtMost(TimesTen(m, BigExponent * (k + 1)), 2 * max_scaled)
  <2>1. m.num # 0
    BY <1>1
  <2> HIDE DEF a, d
  <2> QED BY <1>3, <2>1, RangeAssumption, Zenon
<1>4. ASSUME ~AtMost(m, max_scaled)
      PROVE  \E k \in 0..MaxExponent :
               /\ BigExponent * (k + 1) < MaxExponent
               /\ Below(TimesTen(Rat(2 * m.num, m.den), -(BigExponent * (k + 1))), min_scaled)
  BY <1>4, RangeAssumption, Zenon
<1>5. InRange(m) /\ Short(m)
  <2>1. Unit * d <= a * Widest /\ a <= d * Widest
    <3> HIDE DEF a, d
    <3>1. Widest <= Widest * a /\ Widest * a = a * Widest
          /\ Widest <= Widest * d /\ Widest * d = d * Widest
      BY <1>1
    <3>2. Unit * d \in Nat /\ a * Widest \in Nat /\ d * Widest \in Nat
      BY <1>1
    <3> QED BY <1>1, <1>2, <3>1, <3>2
  <2>2. InRange(m)
    BY <2>1 DEF InRange
  <2> QED BY <1>2, <2>2, FloatShort
<1>6. ASSUME Below(m, 1)
      PROVE  NotAbove(m, Most) /\ \E t \in 0..MaxExponent : UpReaches(m, t)
  <2>1. NotAbove(m, Most)
    <3>1. a < 1 * d
      BY <1>6 DEF Below
    <3>2. NotAbove(m, Most) <=> a * 1 <= max_scaled * d
      BY DEF NotAbove, Most, Rat
    <3> HIDE DEF a, d
    <3>3. d <= d * max_scaled /\ d * max_scaled = max_scaled * d /\ max_scaled * d \in Nat
      BY <1>1
    <3> QED BY <1>1, <3>1, <3>2, <3>3
  <2>2. PICK t \in 0..MaxExponent :
          /\ BigExponent * (t + 1) <= MaxExponent
          /\ ~AtMost(TimesTen(m, BigExponent * (t + 1)), 2 * max_scaled)
    BY <1>3, <1>6
  <2> DEFINE f == BigExponent * (t + 1)
             u == Enlarged(m, 10^f)
             s == TimesTen(m, f)
             w == Enlarged(Most, 2)
  <2>3. f \in FloatExponents
    BY <1>1, <2>2 DEF FloatExponents
  <2>4. ~AtMost(s, 2 * max_scaled)
    BY <2>2
  <2> HIDE DEF f
  <2>5. IsMagnitude(s) /\ SameValue(s, u) /\ IsMagnitude(u) /\ IsMagnitude(w)
    BY <2>3, TenNat, TimesMore, AreMagnitudes, <1>1
  <2>6. w = Rat(2 * max_scaled, 1)
    <3>1. max_scaled * 2 = 2 * max_scaled
      BY <1>1
    <3> QED BY <3>1 DEF Enlarged, Most, Rat
  <2> HIDE DEF s, u, w
  <2>7. ~NotAbove(s, w)
    <3>1. 2 * max_scaled \in Nat
      BY <1>1
    <3> QED BY <2>4, <2>5, <2>6, <3>1, BelowIs
  <2>8. ~NotAbove(u, w)
    BY <2>5, <2>7, Ordered DEF SameValue
  <2> QED BY <2>1, <2>2, <2>8 DEF UpReaches, u, w, f
<1>7. ASSUME ~AtMost(m, max_scaled)
      PROVE  NotAbove(Least, m) /\ \E t \in 0..MaxExponent : DownReaches(m, t)
  <2>1. NotAbove(Least, m)
    <3>1. ~(a <= max_scaled * d)
      BY <1>7 DEF AtMost
    <3>2. NotAbove(Least, m) <=> min_scaled * d <= a * 1
      BY DEF NotAbove, Least, Rat
    <3> HIDE DEF a, d
    <3>3. min_scaled * d <= max_scaled * d /\ min_scaled * d \in Nat /\ max_scaled * d \in Nat
      BY <1>1, Scales
    <3> QED BY <1>1, <3>1, <3>2, <3>3
  <2> DEFINE m2 == Rat(2 * m.num, m.den)
  <2>2. PICK t \in 0..MaxExponent :
          /\ BigExponent * (t + 1) < MaxExponent
          /\ Below(TimesTen(m2, -(BigExponent * (t + 1))), min_scaled)
    BY <1>4, <1>7
  <2> DEFINE f == BigExponent * (t + 1)
             u == Reduced(Enlarged(m, 2), 10^f)
             s == TimesTen(m2, -f)
  <2>3. f \in FloatExponents
    BY <1>1, <2>2 DEF FloatExponents
  <2>4. m2 = Enlarged(m, 2) /\ IsMagnitude(m2)
    <3>1. 2 * a = a * 2
      BY <1>1
    <3>2. IsMagnitude(Enlarged(m, 2))
      BY AreMagnitudes
    <3> QED BY <3>1, <3>2 DEF Enlarged
  <2>5. Below(s, min_scaled)
    BY <2>2
  <2> HIDE DEF f, m2
  <2>6. IsMagnitude(s) /\ SameValue(s, u) /\ IsMagnitude(u)
    BY <2>3, <2>4, TenNat, TimesLess, AreMagnitudes
  <2> HIDE DEF s, u
  <2>7. ~NotAbove(Least, s)
    BY <1>1, <2>5, <2>6, BelowIs DEF Least
  <2>8. ~NotAbove(Least, u)
    BY <1>1, <2>6, <2>7, Ordered DEF SameValue
  <2> QED BY <2>1, <2>2, <2>8 DEF DownReaches, u, f
<1> QED BY <1>2, <1>5, <1>6, <1>7

-----------------------------------------------------------------------------
(* Rounding to the digits.                                                 *)

LEMMA SameChain ==
  ASSUME NEW x, NEW y, NEW z, IsMagnitude(x), IsMagnitude(y), IsMagnitude(z),
         SameValue(x, y), SameValue(y, z)
  PROVE  SameValue(x, z) /\ SameValue(y, x)
BY Ordered DEF SameValue

LEMMA TimesNext ==
  ASSUME NEW m, IsMagnitude(m), NEW e \in FloatPowers, e + 1 \in FloatPowers
  PROVE  SameValue(Reduced(TimesTen(m, -e), 10), TimesTen(m, -(e + 1)))
<1> DEFINE s == TimesTen(m, -e)
           u == TimesTen(m, -(e + 1))
           w == Reduced(s, 10)
<1>1. IsMagnitude(s) /\ IsMagnitude(u) /\ IsMagnitude(w) /\ MaxExponent \in Nat
      /\ 10 \in Nat \ {0} /\ e \in Int
  <2>1. 10 \in Nat \ {0} /\ MaxExponent \in Nat /\ e \in Int
    BY FloatPrintAssumption DEF FloatPowers
  <2>2. IsMagnitude(s) /\ IsMagnitude(u)
    BY TimesIs
  <2> HIDE DEF s, u
  <2> QED BY <2>1, <2>2, AreMagnitudes
<1>2. CASE e >= 0
  <2> DEFINE p == Reduced(m, 10^e)
             q == Reduced(p, 10)
             r == Reduced(m, 10^(e + 1))
  <2>1. e \in FloatExponents /\ e + 1 \in FloatExponents
    BY <1>1, <1>2 DEF FloatPowers, FloatExponents
  <2>2. 10^e \in Nat \ {0} /\ 10^(e + 1) = 10^e * 10 /\ 10^(e + 1) \in Nat \ {0}
    BY <2>1, TenNat, TenNext
  <2>3. SameValue(s, p) /\ SameValue(u, r)
    BY <2>1, TimesLess
  <2>4. IsMagnitude(p) /\ IsMagnitude(q) /\ IsMagnitude(r) /\ SameValue(q, r)
    <3>1. IsMagnitude(p) /\ IsMagnitude(r)
      BY <2>2, AreMagnitudes
    <3>2. IsMagnitude(q)
      BY <1>1, <3>1, AreMagnitudes
    <3>3. SameValue(q, Reduced(m, 10^e * 10))
      BY <1>1, <2>2, ScaledTwice
    <3> QED BY <2>2, <3>1, <3>2, <3>3
  <2>5. SameValue(w, q)
    BY <1>1, <2>3, <2>4, ScalesOrder DEF SameValue
  <2> HIDE DEF s, u, w, p, q, r
  <2>6. SameValue(w, r) /\ SameValue(r, u)
    <3>1. SameValue(w, r)
      BY <1>1, <2>4, <2>5, SameChain
    <3> QED BY <2>3, <3>1 DEF SameValue
  <2>7. SameValue(w, u)
    BY <1>1, <2>4, <2>6, SameChain
  <2> QED BY <2>7 DEF w, s, u
<1>3. CASE e < 0
  <2> DEFINE k == -e
             j == k - 1
             p == Enlarged(m, 10^k)
             q == Reduced(p, 10)
             r == Enlarged(m, 10^j)
  <2>1. /\ k \in FloatExponents /\ j \in FloatExponents /\ j + 1 = k
        /\ -e = k /\ -(e + 1) = j
    BY <1>1, <1>3 DEF FloatPowers, FloatExponents
  <2>2. s = TimesTen(m, k) /\ u = TimesTen(m, j)
    BY <2>1
  <2> HIDE DEF k, j, s, u
  <2>3. 10^j \in Nat \ {0} /\ 10^k = 10^j * 10 /\ 10^k \in Nat \ {0}
    <3>1. 10^k = 10 * 10^j /\ 10^j \in Nat \ {0} /\ 10^k \in Nat \ {0}
      BY <2>1, TenNat, TenNext
    <3> QED BY <3>1
  <2>4. SameValue(s, p) /\ SameValue(u, r)
    BY <2>1, <2>2, TimesMore
  <2>5. IsMagnitude(p) /\ IsMagnitude(q) /\ IsMagnitude(r) /\ SameValue(q, r)
    <3>1. IsMagnitude(p) /\ IsMagnitude(r)
      BY <2>3, AreMagnitudes
    <3>2. IsMagnitude(q)
      BY <1>1, <3>1, AreMagnitudes
    <3>3. SameValue(Reduced(Enlarged(m, 10^j * 10), 10), r)
      BY <1>1, <2>3, ScaledTwice
    <3> QED BY <2>3, <3>1, <3>2, <3>3
  <2>6. SameValue(w, q)
    BY <1>1, <2>4, <2>5, ScalesOrder DEF SameValue
  <2> HIDE DEF w, p, q, r
  <2>7. SameValue(w, r) /\ SameValue(r, u)
    <3>1. SameValue(w, r)
      BY <1>1, <2>5, <2>6, SameChain
    <3> QED BY <2>4, <3>1 DEF SameValue
  <2>8. SameValue(w, u)
    BY <1>1, <2>5, <2>7, SameChain
  <2> QED BY <2>8 DEF w, s, u
<1> QED BY <1>1, <1>2, <1>3

RoundedAs(m, e, c) ==
  /\ e \in FloatPowers /\ c \in min_scaled..max_scaled - 1
  /\ NearlyAtMost(LowerEdge(c), TimesTen(m, -e), Steps(e))
  /\ NearlyAtMost(TimesTen(m, -e), UpperEdge(c), Steps(e))

(* An integer added back to what it was split off.                         *)
LEMMA AddedBack ==
  ASSUME NEW y, y.num \in Nat, y.den \in Nat \ {0}, NEW split \in Nat, NEW c \in Nat,
         WithinHalf(y.num, y.den, c)
  PROVE  WithinHalf(Whole(y, split).num, Whole(y, split).den, c + split)
<1> DEFINE a == y.num
           b == y.den
<1>1. a \in Nat /\ b \in Nat /\ (2 * c - 1) * b <= 2 * a /\ 2 * a <= (2 * c + 1) * b
  BY DEF WithinHalf
<1>2. Whole(y, split).num = a + split * b /\ Whole(y, split).den = b
  BY DEF Whole, Rat
<1> HIDE DEF a, b
<1> DEFINE w == split * b
           v == c * b
<1>3. w \in Nat /\ v \in Nat
  BY <1>1
<1>4. /\ (2 * c - 1) * b = 2 * v - b /\ (2 * c + 1) * b = 2 * v + b
      /\ (2 * (c + split) - 1) * b = 2 * v + 2 * w - b
      /\ (2 * (c + split) + 1) * b = 2 * v + 2 * w + b
  BY <1>1
<1> HIDE DEF v
<1>5. WithinHalf(a + split * b, b, c + split)
  <2>1. (2 * (c + split) - 1) * b <= 2 * (a + w) /\ 2 * (a + w) <= (2 * (c + split) + 1) * b
    <3> HIDE DEF w
    <3> QED BY <1>1, <1>3, <1>4
  <2> QED BY <2>1 DEF WithinHalf
<1> QED BY <1>2, <1>5

LEMMA RoundsAs ==
  ASSUME NEW m, IsMagnitude(m), NEW y, NEW e, NEW split, ScaledAs(m, y, e, split)
  PROVE  LET sum == NearestEven(y) + split
         IN  RoundedAs(m, IF sum >= max_scaled THEN e + 1 ELSE e,
                          IF sum >= max_scaled THEN min_scaled ELSE sum)
<1> DEFINE c == NearestEven(y) + split
           v == Whole(y, split)
           s == TimesTen(m, -e)
           a == v.num
           b == v.den
<1>1. /\ e \in FloatPowers /\ e < MaxExponent /\ split \in Nat
      /\ y.num \in Nat /\ y.den \in Nat \ {0}
      /\ IsMagnitude(v) /\ NotAbove(Least, v) /\ NotAbove(v, Most)
      /\ Near(v, s, Steps(e)) /\ Near(v, s, Steps(e + 1))
  BY DEF ScaledAs
<1>2. /\ min_scaled \in Nat \ {0} /\ max_scaled = 10 * min_scaled /\ max_scaled \in Nat
      /\ Unit \in Nat /\ e \in Int /\ e + 1 \in FloatPowers /\ e + 1 \in Int
  BY <1>1, BigIs, Units, FloatPrintAssumption DEF FloatPowers
<1>3. c \in Nat /\ WithinHalf(a, b, c)
  <2>1. NearestEven(y) \in Nat /\ WithinHalf(y.num, y.den, NearestEven(y))
    BY <1>1, EvenIsNear
  <2> QED BY <1>1, <2>1, AddedBack
<1>4. a \in Nat \ {0} /\ b \in Nat \ {0}
  BY <1>1 DEF IsMagnitude
<1>5. IsMagnitude(s)
  BY <1>1, TimesIs
<1>6. min_scaled * b <= a /\ a <= max_scaled * b
  <2>1. min_scaled * b <= a * 1 /\ a * 1 <= max_scaled * b
    BY <1>1 DEF NotAbove, Least, Most, Rat
  <2> QED BY <1>4, <2>1
<1> HIDE DEF c, v
<1>7. c \in min_scaled..max_scaled
  <2>1. min_scaled <= c /\ c <= max_scaled
    <3> HIDE DEF a, b
    <3>1. c \in Int /\ min_scaled \in Int /\ max_scaled \in Int /\ a \in Nat
      BY <1>2, <1>3, <1>4
    <3>2. min_scaled <= c
      BY <1>3, <1>4, <1>6, <3>1, BetweenIntegers
    <3>3. c <= max_scaled
      BY <1>3, <1>4, <1>6, <3>1, BetweenIntegers
    <3> QED BY <3>2, <3>3
  <2> QED BY <1>2, <1>3, <2>1
<1>8. (2 * c - 1) * b <= 2 * a /\ 2 * a <= (2 * c + 1) * b
  BY <1>3 DEF WithinHalf
<1> HIDE DEF s
<1>9. ASSUME NEW i \in FloatPowers, NEW x, IsMagnitude(x), NEW z, IsMagnitude(z),
             Near(x, z, Steps(i)), NEW d \in min_scaled..max_scaled - 1,
             z = TimesTen(m, -i),
             NotAbove(LowerEdge(d), x), NotAbove(x, UpperEdge(d))
      PROVE  RoundedAs(m, i, d)
  <2>1. d \in Nat \ {0}
    BY <1>2
  <2>2. IsMagnitude(LowerEdge(d)) /\ IsMagnitude(UpperEdge(d))
    BY <2>1 DEF IsMagnitude, LowerEdge, UpperEdge, Rat
  <2>3. Steps(i) \in Nat /\ Steps(i) + 0 <= Unit /\ 0 \in Nat
    BY <1>2, StepsAre
  <2>4. NearlyAtMost(LowerEdge(d), z, Steps(i))
    BY <1>9, <2>2, <2>3, Nears DEF Near
  <2>5. NearlyAtMost(z, UpperEdge(d), Steps(i))
    BY <1>9, <2>2, <2>3, Nears DEF Near
  <2> QED BY <1>9, <2>4, <2>5 DEF RoundedAs
<1>10. CASE c < max_scaled
  <2>1. c \in min_scaled..max_scaled - 1 /\ ~(c >= max_scaled)
    BY <1>2, <1>7, <1>10
  <2>2. NotAbove(v, UpperEdge(c))
    <3>1. NotAbove(v, UpperEdge(c)) <=> a * 2 <= (2 * c + 1) * b
      BY DEF NotAbove, UpperEdge, Rat
    <3> QED BY <1>4, <1>8, <3>1
  <2>3. NotAbove(LowerEdge(c), v)
    <3>1. CASE c = min_scaled
      <4>1. NotAbove(LowerEdge(c), v) <=> (20 * min_scaled - 1) * b <= a * 20
        BY <3>1 DEF NotAbove, LowerEdge, Rat
      <4> HIDE DEF a, b
      <4>2. (20 * min_scaled - 1) * b = 20 * (min_scaled * b) - b /\ min_scaled * b \in Nat
        BY <1>2, <1>4
      <4> QED BY <1>4, <1>6, <4>1, <4>2
    <3>2. CASE c # min_scaled
      <4>1. NotAbove(LowerEdge(c), v) <=> (2 * c - 1) * b <= a * 2
        BY <3>2 DEF NotAbove, LowerEdge, Rat
      <4> QED BY <1>4, <1>8, <4>1
    <3> QED BY <3>1, <3>2
  <2>4. RoundedAs(m, e, c)
    BY <1>1, <1>5, <1>9, <2>1, <2>2, <2>3 DEF s
  <2> QED BY <2>1, <2>4 DEF c
<1>11. CASE c >= max_scaled
  <2>1. c = max_scaled
    BY <1>2, <1>7, <1>11
  <2> DEFINE x == Reduced(v, 10)
             t == Reduced(s, 10)
             z == TimesTen(m, -(e + 1))
  <2>2. 10 \in Nat \ {0} /\ IsMagnitude(x) /\ IsMagnitude(t) /\ IsMagnitude(z)
    BY <1>1, <1>2, <1>5, AreMagnitudes, TimesIs
  <2>3. Steps(e + 1) \in Nat /\ Steps(e + 1) + 0 <= Unit /\ 0 \in Nat
    BY <1>2, StepsAre
  <2>4. SameValue(t, z)
    BY <1>1, <1>2, TimesNext DEF s
  <2>5. x.num = a /\ x.den = b * 10
    BY DEF Reduced, Rat
  <2>6. Near(x, t, Steps(e + 1))
    BY <1>1, <1>5, <2>2, <2>3, NearScales DEF Near
  <2> HIDE DEF x, t, z
  <2>7. Near(x, z, Steps(e + 1))
    BY <2>2, <2>3, <2>4, <2>6, Nears
  <2>8. NotAbove(LowerEdge(min_scaled), x) /\ NotAbove(x, UpperEdge(min_scaled))
    <3>1. /\ NotAbove(LowerEdge(min_scaled), x) <=> (20 * min_scaled - 1) * (b * 10) <= a * 20
          /\ NotAbove(x, UpperEdge(min_scaled)) <=> a * 2 <= (2 * min_scaled + 1) * (b * 10)
      BY <2>5 DEF NotAbove, LowerEdge, UpperEdge, Rat
    <3> HIDE DEF a, b
    <3>2. (2 * (10 * min_scaled) - 1) * b <= 2 * a /\ a <= (10 * min_scaled) * b
      BY <1>2, <1>6, <1>8, <2>1
    <3> DEFINE w == min_scaled * b
    <3>3. /\ w \in Nat
          /\ (2 * (10 * min_scaled) - 1) * b = 20 * w - b /\ (10 * min_scaled) * b = 10 * w
          /\ (20 * min_scaled - 1) * (b * 10) = 200 * w - 10 * b
          /\ (2 * min_scaled + 1) * (b * 10) = 20 * w + 10 * b
      BY <1>2, <1>4
    <3> HIDE DEF w
    <3> QED BY <1>4, <3>1, <3>2, <3>3
  <2>9. min_scaled \in min_scaled..max_scaled - 1
    BY <1>2
  <2>10. RoundedAs(m, e + 1, min_scaled)
    BY <1>2, <1>9, <2>2, <2>7, <2>8, <2>9 DEF z
  <2> QED BY <1>11, <2>10 DEF c
<1> QED BY <1>2, <1>3, <1>10, <1>11

LEMMA SmallTens == 0 \in FloatExponents /\ 1 \in FloatExponents /\ 10^0 = 1 /\ 10^1 = 10
<1>1. 0 \in FloatExponents /\ 1 \in FloatExponents /\ 0 + 1 = 1
  BY FloatPrintAssumption DEF FloatExponents
<1>2. 10^0 = 1
  BY TensAssumption, Zenon
<1>3. 10^(0 + 1) = 10 * 10^0
  BY <1>1, TenNext
<1> QED BY <1>1, <1>2, <1>3

-----------------------------------------------------------------------------
(* The digits.                                                             *)

LEMMA ValueIs ==
  ASSUME NEW s, Len(s) \in Nat, NEW v \in [0..Len(s) -> Int], v[0] = 0,
         \A k \in 1..Len(s) : v[k] = 10 * v[k - 1] + s[k] - 48
  PROVE  Value(s) = v[Len(s)]
<1> DEFINE N == Len(s)
           Step(f, k) == IF k = 0 THEN 0 ELSE 10 * f[k - 1] + s[k] - 48
           P(f) == f = [k \in 0..N |-> Step(f, k)]
           prefix == CHOOSE f : P(f)
<1>1. Value(s) = prefix[N]
  BY DEF Value
<1>2. P(v)
  <2>1. ASSUME NEW k \in 0..N PROVE v[k] = Step(v, k)
    <3>1. k # 0 => k \in 1..N
      OBVIOUS
    <3> QED BY <3>1
  <2>2. v = [k \in 0..N |-> v[k]]
    OBVIOUS
  <2> HIDE DEF Step
  <2> QED BY <2>1, <2>2
<1>3. P(prefix)
  <2> HIDE DEF P
  <2> QED BY <1>2
<1>4. \A k \in 0..N : prefix[k] = Step(prefix, k)
  <2> HIDE DEF Step, prefix
  <2> QED BY <1>3
<1> HIDE DEF P, prefix
<1> DEFINE bad == {k \in 0..N : prefix[k] # v[k]}
<1>5. bad = {}
  <2> SUFFICES ASSUME bad # {} PROVE FALSE
    OBVIOUS
  <2>1. bad \in SUBSET Nat
    OBVIOUS
  <2>2. PICK k \in bad : \A l \in bad : k <= l
    <3> HIDE DEF bad
    <3> QED BY <2>1, LeastNat
  <2>3. k \in 0..N /\ prefix[k] # v[k]
    BY <2>2
  <2>4. k # 0
    <3>1. prefix[0] = 0
      BY <1>4
    <3> QED BY <2>3, <3>1
  <2>5. k - 1 \in 0..N /\ ~(k <= k - 1) /\ k \in 1..N
    BY <2>3, <2>4
  <2>6. prefix[k - 1] = v[k - 1]
    BY <2>2, <2>5
  <2>7. prefix[k] = 10 * prefix[k - 1] + s[k] - 48
    BY <1>4, <2>3, <2>4
  <2> QED BY <2>3, <2>5, <2>6, <2>7
<1>6. prefix[N] = v[N]
  BY <1>5
<1> QED BY <1>1, <1>6

(* At least count digits, which read as the number.                        *)
LEMMA DigitsOf ==
  ASSUME NEW c \in Nat, NEW count \in Nat, NEW k \in FloatExponents, count <= k, c < 10^k
  PROVE  /\ Digits(c, count) \in Seq(48..57) /\ Len(Digits(c, count)) \in Nat
         /\ Len(Digits(c, count)) >= count
         /\ Value(Digits(c, count)) = c
<1> DEFINE Enough(i) == i >= count /\ 10^i > c
           length == Turns(LAMBDA i : i >= count /\ 10^i > c)
           s == Digits(c, count)
<1>1. MaxExponent \in Nat /\ k \in Nat /\ FloatExponents = 0..MaxExponent
  BY FloatPrintAssumption DEF FloatExponents
<1>2. Enough(k)
  BY <1>1, TenNat
<1>3. PICK t \in FloatExponents : Enough(t) /\ \A l \in 0..t - 1 : ~Enough(l)
  <2> DEFINE S == {i \in FloatExponents : Enough(i)}
  <2>1. k \in S /\ S \in SUBSET Nat
    BY <1>1, <1>2
  <2>2. PICK t \in S : \A l \in S : t <= l
    <3> HIDE DEF S
    <3> QED BY <2>1, LeastNat
  <2>3. t \in FloatExponents /\ Enough(t)
    BY <2>2
  <2>4. ASSUME NEW l \in 0..t - 1 PROVE ~Enough(l)
    <3>1. l \in FloatExponents /\ ~(t <= l)
      BY <1>1, <2>3
    <3>2. l \notin S
      <4> HIDE DEF S
      <4> QED BY <2>2, <3>1
    <3> QED BY <3>1, <3>2
  <2> QED BY <2>3, <2>4
<1>4. length = t
  <2>1. \A i \in 0..MaxExponent : (Enough(i) /\ \A l \in 0..i - 1 : ~Enough(l)) => i = t
    <3> HIDE DEF Enough
    <3> QED BY <1>1, <1>3
  <2> QED BY <1>1, <1>3, <2>1 DEF Turns
<1>5. s = [d \in 1..length |-> 48 + ((c \div 10^(length - d)) % 10)]
  BY DEF Digits
<1> HIDE DEF length, s
<1>6. s = [d \in 1..t |-> 48 + ((c \div 10^(t - d)) % 10)]
  BY <1>4, <1>5
<1>7. t \in Nat /\ t >= count /\ c < 10^t
  <2>1. 10^t \in Nat
    BY TenNat
  <2> QED BY <1>1, <1>3, <2>1
<1> DEFINE q == [i \in 0..t |-> c \div 10^(t - i)]
<1>8. ASSUME NEW i \in 0..t
      PROVE  /\ t - i \in FloatExponents /\ 10^(t - i) \in Nat \ {0}
             /\ q[i] = c \div 10^(t - i) /\ q[i] \in Nat
  <2>1. t - i \in FloatExponents
    BY <1>1, <1>3
  <2>2. 10^(t - i) \in Nat \ {0}
    BY <2>1, TenNat
  <2>3. c \div 10^(t - i) \in Nat
    BY <2>2, Quotient
  <2> QED BY <2>1, <2>2, <2>3
<1>9. q[0] = 0 /\ q[t] = c /\ q \in [0..t -> Int]
  <2>1. 0 \in 0..t /\ t \in 0..t /\ t - 0 = t /\ t - t = 0
    BY <1>7
  <2>2. q[0] = c \div 10^t
    BY <1>8, <2>1
  <2>3. c \div 10^t = 0
    <3> DEFINE p == 10^t
    <3>1. p \in Nat \ {0} /\ c < 1 * p
      BY <1>7, TenNat
    <3> HIDE DEF p
    <3>2. c \div p \in Nat /\ c \div p < 1
      BY <3>1, Quotient
    <3>3. c \div p = 0
      BY <3>2
    <3> QED BY <3>3 DEF p
  <2>4. q[t] = c \div 10^(t - t)
    BY <1>8, <2>1
  <2>5. 10^(t - t) = 1
    BY <2>1, SmallTens, Zenon
  <2>6. c \div 1 = c
    OBVIOUS
  <2>7. q[t] = c
    <3> HIDE DEF q
    <3> QED BY <2>4, <2>5, <2>6, Zenon
  <2>8. \A i \in 0..t : c \div 10^(t - i) \in Int
    BY <1>8
  <2> QED BY <2>2, <2>3, <2>7, <2>8
<1>10. ASSUME NEW i \in 1..t PROVE q[i] = 10 * q[i - 1] + (q[i] % 10)
  <2>1. i \in 0..t /\ i - 1 \in 0..t /\ (t - i) + 1 = t - (i - 1)
    BY <1>7
  <2> DEFINE p == 10^(t - i)
             f == 10^(t - (i - 1))
  <2>2. q[i] = c \div p /\ q[i - 1] = c \div f /\ p \in Nat \ {0}
    BY <1>8, <2>1
  <2>3. f = 10 * p
    <3>1. t - i \in FloatExponents /\ (t - i) + 1 \in FloatExponents
      BY <1>8, <2>1
    <3> QED BY <2>1, <3>1, TenNext
  <2> HIDE DEF p, f, q
  <2>4. c \div p = 10 * (c \div (10 * p)) + ((c \div p) % 10)
    BY <2>2, DividedByTen
  <2> QED BY <2>2, <2>3, <2>4
<1>11. ASSUME NEW i \in 1..t
       PROVE  48 + ((c \div 10^(t - i)) % 10) = 48 + (q[i] % 10) /\ 48 + (q[i] % 10) \in 48..57
  <2>1. i \in 0..t
    OBVIOUS
  <2>2. q[i] = c \div 10^(t - i) /\ q[i] \in Nat
    BY <1>8, <2>1
  <2> HIDE DEF q
  <2>3. \A j \in Nat : 48 + (j % 10) \in 48..57
    OBVIOUS
  <2> QED BY <2>2, <2>3
<1> HIDE DEF q
<1>12. s = [i \in 1..t |-> 48 + (q[i] % 10)]
  BY <1>6, <1>11
<1>13. s \in Seq(48..57) /\ Len(s) = t /\ \A i \in 1..t : s[i] = 48 + (q[i] % 10)
  BY <1>7, <1>11, <1>12
<1>14. ASSUME NEW i \in 1..t PROVE q[i] = 10 * q[i - 1] + s[i] - 48
  <2>1. i \in 0..t /\ i - 1 \in 0..t
    BY <1>7
  <2>2. q[i] \in Nat /\ q[i - 1] \in Nat
    BY <1>8, <2>1
  <2>3. q[i] % 10 \in Int
    BY <2>2
  <2> QED BY <1>10, <1>13, <2>2, <2>3
<1>15. Value(s) = c
  <2>1. Value(s) = q[Len(s)]
    BY <1>7, <1>9, <1>13, <1>14, ValueIs
  <2> QED BY <1>9, <1>13, <2>1
<1> QED BY <1>7, <1>13, <1>15 DEF s

(* The zeroes dropped count in the exponent.                               *)
LEMMA PointPlaced ==
  ASSUME NEW decimals \in FloatExponents, NEW c \in Nat
  PROVE  \E z \in 0..decimals : \E w \in Nat :
           PlacePoint(decimals, c) = <<decimals - z, w>> /\ c = w * 10^z
<1> DEFINE Enough(k) == k = decimals \/ (c \div 10^k) % 10 # 0
           zeroes == Turns(LAMBDA k : k = decimals \/ (c \div 10^k) % 10 # 0)
<1>1. MaxExponent \in Nat /\ decimals \in Nat /\ FloatExponents = 0..MaxExponent
  BY FloatPrintAssumption DEF FloatExponents
<1>2. Enough(decimals)
  OBVIOUS
<1>3. PICK t \in 0..decimals : Enough(t) /\ \A l \in 0..t - 1 : ~Enough(l)
  <2> DEFINE S == {i \in 0..decimals : Enough(i)}
  <2>1. decimals \in S /\ S \in SUBSET Nat
    BY <1>1, <1>2
  <2>2. PICK t \in S : \A l \in S : t <= l
    <3> HIDE DEF S
    <3> QED BY <2>1, LeastNat
  <2>3. t \in 0..decimals /\ Enough(t)
    BY <2>2
  <2>4. ASSUME NEW l \in 0..t - 1 PROVE ~Enough(l)
    <3>1. l \in 0..decimals /\ ~(t <= l)
      BY <1>1, <2>3
    <3>2. l \notin S
      <4> HIDE DEF S
      <4> QED BY <2>2, <3>1
    <3> QED BY <3>1, <3>2
  <2> QED BY <2>3, <2>4
<1>4. zeroes = t
  <2>1. t \in 0..MaxExponent
    BY <1>1
  <2>2. \A i \in 0..MaxExponent : (Enough(i) /\ \A l \in 0..i - 1 : ~Enough(l)) => i = t
    <3> HIDE DEF Enough
    <3> QED BY <1>1, <1>3
  <2> QED BY <1>3, <2>1, <2>2 DEF Turns
<1>5. PlacePoint(decimals, c) = <<decimals - zeroes, c \div 10^zeroes>>
  BY DEF PlacePoint
<1> HIDE DEF zeroes
<1>6. ASSUME NEW i \in 0..t PROVE i \in FloatExponents /\ 10^i \in Nat \ {0} /\ c \div 10^i \in Nat
  <2>1. i \in FloatExponents
    BY <1>1
  <2>2. 10^i \in Nat \ {0}
    BY <2>1, TenNat
  <2> QED BY <2>1, <2>2, Quotient
<1> DEFINE bad == {i \in 0..t : c # (c \div 10^i) * 10^i}
<1>7. bad = {}
  <2> SUFFICES ASSUME bad # {} PROVE FALSE
    OBVIOUS
  <2>1. bad \in SUBSET Nat
    OBVIOUS
  <2>2. PICK i \in bad : \A l \in bad : i <= l
    <3> HIDE DEF bad
    <3> QED BY <2>1, LeastNat
  <2>3. i \in 0..t /\ c # (c \div 10^i) * 10^i
    BY <2>2
  <2>4. i # 0
    <3>1. ASSUME i = 0 PROVE FALSE
      <4>1. 10^i = 1
        BY <3>1, SmallTens, Zenon
      <4>2. (c \div 1) * 1 = c
        OBVIOUS
      <4> QED BY <2>3, <4>1, <4>2, Zenon
    <3> QED BY <3>1
  <2>5. i - 1 \in 0..t /\ i - 1 \in 0..t - 1 /\ (i - 1) + 1 = i /\ ~(i <= i - 1)
    BY <2>3, <2>4
  <2>6. c = (c \div 10^(i - 1)) * 10^(i - 1)
    <3>1. i - 1 \notin bad
      <4> HIDE DEF bad
      <4> QED BY <2>2, <2>5
    <3> QED BY <2>5, <3>1
  <2>7. (c \div 10^(i - 1)) % 10 = 0
    BY <1>3, <2>5
  <2>8. 10^i = 10 * 10^(i - 1)
    BY <1>6, <2>3, <2>5, TenNext
  <2> DEFINE p == 10^(i - 1)
             e == c \div p
             f == c \div (10 * p)
  <2>9. p \in Nat \ {0} /\ c = e * p /\ e % 10 = 0 /\ e \in Nat
    BY <1>6, <2>5, <2>6, <2>7
  <2>10. c # f * (10 * p) /\ f \in Nat
    BY <1>6, <2>3, <2>8
  <2> HIDE DEF p
  <2>11. e = 10 * f + (e % 10)
    BY <2>9, DividedByTen
  <2> HIDE DEF e, f
  <2>12. e = 10 * f
    BY <2>9, <2>10, <2>11
  <2>13. (10 * f) * p = f * (10 * p)
    BY <2>9, <2>10
  <2> QED BY <2>9, <2>10, <2>12, <2>13
<1>8. t \in 0..t
  BY <1>1
<1>9. c = (c \div 10^t) * 10^t /\ c \div 10^t \in Nat
  BY <1>6, <1>7, <1>8
<1>10. PlacePoint(decimals, c) = <<decimals - t, c \div 10^t>>
  BY <1>4, <1>5
<1> QED BY <1>9, <1>10

-----------------------------------------------------------------------------
(* The text and what it reads as.                                          *)

LEMMA SliceIs ==
  ASSUME NEW t \in Seq(Int), NEW u \in Seq(Int), NEW k \in Nat, k + Len(u) <= Len(t),
         \A i \in 1..Len(u) : t[k + i] = u[i]
  PROVE  SubSeq(t, k + 1, k + Len(u)) = u
<1>1. Len(u) \in Nat /\ Len(t) \in Nat
  OBVIOUS
<1> DEFINE v == SubSeq(t, k + 1, k + Len(u))
<1>2. v \in Seq(Int) /\ Len(v) = Len(u)
  BY <1>1
<1>3. ASSUME NEW i \in 1..Len(u) PROVE v[i] = u[i]
  <2>1. v[i] = t[i + (k + 1) - 1]
    BY <1>1
  <2>2. i + (k + 1) - 1 = k + i
    BY <1>1
  <2> HIDE DEF v
  <2> QED BY <2>1, <2>2
<1> HIDE DEF v
<1>4. v = [i \in 1..Len(v) |-> v[i]] /\ u = [i \in 1..Len(u) |-> u[i]]
  BY <1>2
<1>5. v = u
  BY <1>2, <1>3, <1>4
<1> QED BY <1>5 DEF v

LEMMA PositionIs ==
  ASSUME Len(text) \in Nat, NEW code, NEW k \in Nat \ {0}, k <= Len(text) + 1,
         \A i \in 1..Len(text) : text[i] = code <=> i = k
  PROVE  Position(code) = k
<1> DEFINE at == {i \in 1..Len(text) : text[i] = code}
<1>1. CASE k <= Len(text)
  <2>1. k \in at /\ \A i \in at : i = k
    BY <1>1
  <2>2. (CHOOSE i \in at : TRUE) = k
    <3> HIDE DEF at
    <3> QED BY <2>1
  <2> QED BY <2>1, <2>2 DEF Position
<1>2. CASE k = Len(text) + 1
  <2>1. at = {}
    BY <1>2
  <2> QED BY <1>2, <2>1 DEF Position
<1> QED BY <1>1, <1>2

LEMMA PositionAbsent ==
  ASSUME Len(text) \in Nat, NEW code, \A i \in 1..Len(text) : text[i] # code
  PROVE  Position(code) = Len(text) + 1
<1>1. {i \in 1..Len(text) : text[i] = code} = {}
  OBVIOUS
<1> QED BY <1>1 DEF Position

LEMMA JoinAt ==
  ASSUME NEW s \in Seq(Int), NEW t \in Seq(Int)
  PROVE  /\ s \o t \in Seq(Int) /\ Len(s) \in Nat /\ Len(t) \in Nat
         /\ Len(s \o t) = Len(s) + Len(t)
         /\ \A i \in 1..Len(s) : (s \o t)[i] = s[i]
         /\ \A i \in 1..Len(t) : (s \o t)[Len(s) + i] = t[i]
OBVIOUS

DigitText == Seq(48..57)

Layout(sign, head, tail, mark, power) ==
  sign \o head \o (IF tail = <<>> THEN <<>> ELSE <<46>> \o tail)
       \o (IF power = <<>> THEN <<>> ELSE <<101, mark>> \o power)

LEMMA DigitTextIs ==
  ASSUME NEW s \in DigitText
  PROVE  /\ s \in Seq(Int) /\ Len(s) \in Nat /\ \A i \in 1..Len(s) : s[i] \in 48..57
         /\ s = <<>> <=> Len(s) = 0
BY DEF DigitText

\* What is printed before the digits: nothing, or a minus sign.
SignTexts == {<<>>, <<45>>}

(* Where each part of the text begins.                                     *)
Parts(t, sign, head, tail, mark, power) ==
  LET s == Len(sign)
      p == Len(head)
      f == Len(tail)
      r == IF f = 0 THEN s + p ELSE s + p + 1 + f
      g == Len(power)
  IN  /\ t \in Seq(Int) /\ Len(t) = IF g = 0 THEN r ELSE r + 2 + g
      /\ s \in {0, 1} /\ (s = 1 <=> sign = <<45>>) /\ p \in Nat \ {0} /\ f \in Nat /\ g \in Nat
      /\ s = 1 => t[1] = 45
      /\ \A i \in 1..p : t[s + i] = head[i]
      /\ f # 0 => t[s + p + 1] = 46 /\ \A i \in 1..f : t[s + p + 1 + i] = tail[i]
      /\ g # 0 => t[r + 1] = 101 /\ t[r + 2] = mark /\ \A i \in 1..g : t[r + 2 + i] = power[i]

LEMMA LayoutParts ==
  ASSUME NEW sign \in SignTexts, NEW head \in DigitText, NEW tail \in DigitText,
         NEW mark \in {43, 45}, NEW power \in DigitText, head # <<>>,
         NEW t, t = Layout(sign, head, tail, mark, power)
  PROVE  Parts(t, sign, head, tail, mark, power)
<1> DEFINE s == Len(sign)
           p == Len(head)
           f == Len(tail)
           g == Len(power)
           r == IF f = 0 THEN s + p ELSE s + p + 1 + f
           A == sign \o head
           F == IF tail = <<>> THEN <<>> ELSE <<46>> \o tail
           G == IF power = <<>> THEN <<>> ELSE <<101, mark>> \o power
<1>1. /\ head \in Seq(Int) /\ p \in Nat \ {0} /\ tail \in Seq(Int) /\ f \in Nat
      /\ power \in Seq(Int) /\ g \in Nat /\ (tail = <<>> <=> f = 0) /\ (power = <<>> <=> g = 0)
  BY DigitTextIs
<1>2. /\ sign \in Seq(Int) /\ s \in {0, 1} /\ (s = 1 <=> sign = <<45>>)
      /\ s = 1 => sign[1] = 45
  <2>1. CASE sign = <<>>
    BY <2>1
  <2>2. CASE sign = <<45>>
    BY <2>2
  <2> QED BY <2>1, <2>2 DEF SignTexts
<1>3. /\ A \in Seq(Int) /\ Len(A) = s + p /\ (s = 1 => A[1] = 45)
      /\ \A i \in 1..p : A[s + i] = head[i]
  BY <1>1, <1>2
<1>4. /\ F \in Seq(Int) /\ Len(F) = IF f = 0 THEN 0 ELSE 1 + f
      /\ f # 0 => F[1] = 46 /\ \A i \in 1..f : F[1 + i] = tail[i]
  <2>1. CASE f = 0
    BY <1>1, <2>1
  <2>2. CASE f # 0
    <3>1. F = <<46>> \o tail /\ <<46>> \in Seq(Int) /\ Len(<<46>>) = 1
      BY <1>1, <2>2
    <3> QED BY <1>1, <2>2, <3>1
  <2> QED BY <2>1, <2>2
<1>5. /\ G \in Seq(Int) /\ Len(G) = IF g = 0 THEN 0 ELSE 2 + g
      /\ g # 0 => G[1] = 101 /\ G[2] = mark /\ \A i \in 1..g : G[2 + i] = power[i]
  <2>1. CASE g = 0
    BY <1>1, <2>1
  <2>2. CASE g # 0
    <3> DEFINE e == <<101, mark>>
    <3>1. e \in Seq(Int) /\ Len(e) = 2 /\ e[1] = 101 /\ e[2] = mark
      OBVIOUS
    <3>2. G = e \o power
      BY <1>1, <2>2
    <3> HIDE DEF e, G
    <3>3. /\ G \in Seq(Int) /\ Len(G) = 2 + Len(power)
          /\ \A i \in 1..2 : G[i] = e[i]
          /\ \A i \in 1..Len(power) : G[2 + i] = power[i]
      <4>1. /\ e \o power \in Seq(Int) /\ Len(e \o power) = Len(e) + Len(power)
            /\ \A i \in 1..Len(e) : (e \o power)[i] = e[i]
            /\ \A i \in 1..Len(power) : (e \o power)[Len(e) + i] = power[i]
        <5>1. power \in Seq(Int) /\ e \in Seq(Int)
          BY <1>1, <3>1
        <5> QED BY <5>1, JoinAt
      <4> QED BY <3>1, <3>2, <4>1
    <3>4. G[1] = 101 /\ G[2] = mark
      BY <3>1, <3>3
    <3> QED BY <2>2, <3>3, <3>4
  <2> QED BY <2>1, <2>2
<1>6. t = A \o F \o G
  BY DEF Layout
<1> HIDE DEF A, F, G
<1> DEFINE H == A \o F
<1>7. /\ H \in Seq(Int) /\ Len(H) = r /\ (s = 1 => H[1] = 45)
      /\ \A i \in 1..p : H[s + i] = head[i]
      /\ f # 0 => H[s + p + 1] = 46 /\ \A i \in 1..f : H[s + p + 1 + i] = tail[i]
  <2> HIDE DEF H, s, p, f, g
  <2>1. /\ H \in Seq(Int) /\ Len(A) \in Nat /\ Len(F) \in Nat /\ Len(H) = Len(A) + Len(F)
        /\ \A i \in 1..Len(A) : H[i] = A[i]
        /\ \A i \in 1..Len(F) : H[Len(A) + i] = F[i]
    BY <1>3, <1>4, JoinAt DEF H
  <2>2. Len(H) = r
    BY <1>1, <1>2, <1>3, <1>4, <2>1
  <2>3. s = 1 => H[1] = 45
    BY <1>1, <1>2, <1>3, <2>1
  <2>4. ASSUME NEW i \in 1..p PROVE H[s + i] = head[i]
    <3>1. s + i \in 1..Len(A)
      BY <1>1, <1>2, <1>3
    <3> QED BY <1>3, <2>1, <3>1
  <2>5. ASSUME f # 0 PROVE H[s + p + 1] = 46
    <3>1. s + p + 1 = Len(A) + 1 /\ 1 \in 1..Len(F)
      BY <1>1, <1>2, <1>3, <1>4, <2>5
    <3> QED BY <1>4, <2>1, <2>5, <3>1
  <2>6. ASSUME f # 0, NEW i \in 1..f PROVE H[s + p + 1 + i] = tail[i]
    <3>1. s + p + 1 + i = Len(A) + (1 + i) /\ 1 + i \in 1..Len(F)
      BY <1>1, <1>2, <1>3, <1>4, <2>6
    <3> QED BY <1>4, <2>1, <2>6, <3>1
  <2> QED BY <2>1, <2>2, <2>3, <2>4, <2>5, <2>6
<1> HIDE DEF H, s, p, f, g
<1>8. t = H \o G
  BY <1>6 DEF H
<1>9. r \in Nat /\ s + p \in 1..r /\ (f # 0 => s + p + 1 + f = r)
  BY <1>1, <1>2
<1> HIDE DEF r
<1>10. /\ t \in Seq(Int) /\ Len(t) = IF g = 0 THEN r ELSE r + 2 + g
       /\ \A i \in 1..r : t[i] = H[i]
       /\ \A i \in 1..Len(G) : t[r + i] = G[i]
  <2>1. /\ t \in Seq(Int) /\ Len(t) = r + Len(G)
        /\ \A i \in 1..r : t[i] = H[i]
        /\ \A i \in 1..Len(G) : t[r + i] = G[i]
    <3>1. /\ H \o G \in Seq(Int) /\ Len(H \o G) = Len(H) + Len(G)
          /\ \A i \in 1..Len(H) : (H \o G)[i] = H[i]
          /\ \A i \in 1..Len(G) : (H \o G)[Len(H) + i] = G[i]
      BY <1>5, <1>7, JoinAt
    <3> QED BY <1>7, <1>8, <3>1
  <2> QED BY <1>1, <1>5, <1>9, <2>1
<1>11. s = 1 => t[1] = 45
  <2>1. s = 1 => 1 \in 1..r
    BY <1>1, <1>9
  <2> QED BY <1>7, <1>10, <2>1
<1>12. ASSUME NEW i \in 1..p PROVE t[s + i] = head[i]
  <2>1. s + i \in 1..r
    BY <1>1, <1>2, <1>9
  <2> QED BY <1>7, <1>10, <2>1
<1>13. ASSUME f # 0 PROVE t[s + p + 1] = 46
  <2>1. s + p + 1 \in 1..r
    BY <1>1, <1>2, <1>9, <1>13
  <2> QED BY <1>7, <1>10, <1>13, <2>1
<1>14. ASSUME f # 0, NEW i \in 1..f PROVE t[s + p + 1 + i] = tail[i]
  <2>1. s + p + 1 + i \in 1..r
    BY <1>1, <1>2, <1>9, <1>14
  <2> QED BY <1>7, <1>10, <1>14, <2>1
<1>15. ASSUME g # 0 PROVE t[r + 1] = 101 /\ t[r + 2] = mark
  <2>1. 1 \in 1..Len(G) /\ 2 \in 1..Len(G)
    BY <1>1, <1>5, <1>15
  <2> QED BY <1>5, <1>10, <1>15, <2>1
<1>16. ASSUME g # 0, NEW i \in 1..g PROVE t[r + 2 + i] = power[i]
  <2>1. 2 + i \in 1..Len(G) /\ r + 2 + i = r + (2 + i)
    BY <1>1, <1>5, <1>9, <1>16
  <2> QED BY <1>5, <1>10, <1>16, <2>1
<1>17. /\ t \in Seq(Int) /\ Len(t) = IF g = 0 THEN r ELSE r + 2 + g
       /\ s \in {0, 1} /\ (s = 1 <=> sign = <<45>>) /\ p \in Nat \ {0} /\ f \in Nat /\ g \in Nat
       /\ s = 1 => t[1] = 45
       /\ \A i \in 1..p : t[s + i] = head[i]
       /\ f # 0 => t[s + p + 1] = 46 /\ \A i \in 1..f : t[s + p + 1 + i] = tail[i]
       /\ g # 0 => t[r + 1] = 101 /\ t[r + 2] = mark /\ \A i \in 1..g : t[r + 2 + i] = power[i]
  BY <1>1, <1>2, <1>10, <1>11, <1>12, <1>13, <1>14, <1>15, <1>16
<1> QED BY <1>17 DEF Parts, r, s, p, f, g

LEMMA LayoutReads ==
  ASSUME NEW sign \in SignTexts, NEW head \in DigitText, NEW tail \in DigitText,
         NEW mark \in {43, 45}, NEW power \in DigitText, head # <<>>,
         text = Layout(sign, head, tail, mark, power)
  PROVE  /\ Mantissa = head \o tail
         /\ PrintedPower = (IF power = <<>> THEN 0
                            ELSE IF mark = 45 THEN -Value(power) ELSE Value(power)) - Len(tail)
         /\ (text[1] = 45) = (sign = <<45>>)
<1> DEFINE s == Len(sign)
           p == Len(head)
           f == Len(tail)
           g == Len(power)
           r == IF f = 0 THEN s + p ELSE s + p + 1 + f
<1>1. /\ head \in Seq(Int) /\ (\A i \in 1..p : head[i] \in 48..57)
      /\ tail \in Seq(Int) /\ (\A i \in 1..f : tail[i] \in 48..57) /\ (tail = <<>> <=> f = 0)
      /\ power \in Seq(Int) /\ (\A i \in 1..g : power[i] \in 48..57) /\ (power = <<>> <=> g = 0)
  BY DigitTextIs
<1>2. /\ text \in Seq(Int) /\ Len(text) = IF g = 0 THEN r ELSE r + 2 + g
      /\ s \in {0, 1} /\ (s = 1 <=> sign = <<45>>) /\ p \in Nat \ {0} /\ f \in Nat /\ g \in Nat
      /\ s = 1 => text[1] = 45
      /\ \A i \in 1..p : text[s + i] = head[i]
      /\ f # 0 => text[s + p + 1] = 46 /\ \A i \in 1..f : text[s + p + 1 + i] = tail[i]
      /\ g # 0 => /\ text[r + 1] = 101 /\ text[r + 2] = mark
                  /\ \A i \in 1..g : text[r + 2 + i] = power[i]
  <2>1. Parts(text, sign, head, tail, mark, power)
    BY LayoutParts
  <2> QED BY <2>1 DEF Parts
<1>3. sign # <<45>> => s = 0
  BY <1>2
<1> HIDE DEF s, p, f, g
<1>4. r \in Nat /\ s + p <= r /\ (f = 0 => r = s + p) /\ (f # 0 => r = s + p + 1 + f)
  BY <1>2
<1>5. Len(text) = IF g = 0 THEN r ELSE r + 2 + g
  BY <1>2
<1>6. g # 0 => /\ text[r + 1] = 101 /\ text[r + 2] = mark
               /\ \A i \in 1..g : text[r + 2 + i] = power[i]
  BY <1>2
<1> HIDE DEF r
(* The code at each place.                                                 *)
<1>7. ASSUME NEW k \in 1..s PROVE text[k] = 45
  <2>1. k = 1 /\ s = 1
    BY <1>2
  <2> QED BY <1>2, <2>1
<1>8. ASSUME NEW k \in s + 1..s + p PROVE text[k] \in 48..57
  <2>1. k - s \in 1..p /\ s + (k - s) = k
    BY <1>2
  <2>2. text[s + (k - s)] = head[k - s]
    BY <1>2, <2>1
  <2>3. head[k - s] \in 48..57
    BY <1>1, <2>1
  <2> QED BY <2>1, <2>2, <2>3
<1>9. ASSUME f # 0, NEW k \in s + p + 2..r PROVE text[k] \in 48..57
  <2>1. k - (s + p + 1) \in 1..f /\ s + p + 1 + (k - (s + p + 1)) = k
    BY <1>2, <1>4, <1>9
  <2>2. text[s + p + 1 + (k - (s + p + 1))] = tail[k - (s + p + 1)]
    BY <1>2, <1>9, <2>1
  <2>3. tail[k - (s + p + 1)] \in 48..57
    BY <1>1, <2>1
  <2> QED BY <2>1, <2>2, <2>3
<1>10. ASSUME g # 0, NEW k \in r + 3..Len(text) PROVE text[k] \in 48..57
  <2>1. k - (r + 2) \in 1..g /\ r + 2 + (k - (r + 2)) = k
    BY <1>2, <1>4, <1>5, <1>10
  <2>2. text[r + 2 + (k - (r + 2))] = power[k - (r + 2)]
    BY <1>6, <1>10, <2>1
  <2>3. power[k - (r + 2)] \in 48..57
    BY <1>1, <2>1
  <2> QED BY <2>1, <2>2, <2>3
<1>11. ASSUME NEW k \in 1..r PROVE text[k] # 101 /\ (text[k] = 46 <=> f # 0 /\ k = s + p + 1)
  <2>1. CASE k \in 1..s
    <3>1. text[k] = 45 /\ k # s + p + 1
      BY <1>2, <1>7, <2>1
    <3> QED BY <3>1
  <2>2. CASE k \in s + 1..s + p
    <3>1. text[k] \in 48..57 /\ k # s + p + 1
      BY <1>2, <1>8, <2>2
    <3> QED BY <3>1
  <2>3. CASE f # 0 /\ k = s + p + 1
    BY <1>2, <2>3
  <2>4. CASE f # 0 /\ k \in s + p + 2..r
    <3>1. text[k] \in 48..57 /\ k # s + p + 1
      BY <1>2, <1>9, <2>4
    <3> QED BY <3>1
  <2> QED BY <1>2, <1>4, <2>1, <2>2, <2>3, <2>4
<1>12. ASSUME NEW k \in r + 1..Len(text)
       PROVE  g # 0 /\ text[k] # 46 /\ (text[k] = 101 <=> k = r + 1)
  <2>1. g # 0 /\ (k = r + 1 \/ k = r + 2 \/ k \in r + 3..Len(text))
    BY <1>2, <1>4, <1>5
  <2>2. CASE k = r + 1
    BY <1>6, <2>1, <2>2
  <2>3. CASE k = r + 2
    <3>1. text[k] = mark /\ k # r + 1
      BY <1>4, <1>6, <2>1, <2>3
    <3> QED BY <2>1, <3>1
  <2>4. CASE k \in r + 3..Len(text)
    <3>1. text[k] \in 48..57 /\ k # r + 1
      BY <1>4, <1>10, <2>1, <2>4
    <3> QED BY <2>1, <3>1
  <2> QED BY <2>1, <2>2, <2>3, <2>4
<1>13. /\ Len(text) \in Nat /\ r <= Len(text)
       /\ \A k \in 1..Len(text) : k \in 1..r \/ k \in r + 1..Len(text)
  BY <1>2, <1>4, <1>5
(* The two positions.                                                      *)
<1>14. Position(101) = r + 1
  <2>1. \A k \in 1..Len(text) : text[k] = 101 <=> k = r + 1
    <3>1. ASSUME NEW k \in 1..Len(text) PROVE text[k] = 101 <=> k = r + 1
      <4>1. CASE k \in 1..r
        <5>1. text[k] # 101 /\ k # r + 1
          BY <1>4, <1>11, <4>1
        <5> QED BY <5>1
      <4>2. CASE k \in r + 1..Len(text)
        BY <1>12, <4>2
      <4> QED BY <1>13, <4>1, <4>2
    <3> QED BY <3>1
  <2>2. r + 1 \in Nat \ {0} /\ r + 1 <= Len(text) + 1
    BY <1>4, <1>13
  <2> QED BY <1>13, <2>1, <2>2, PositionIs
<1>15. f # 0 => Position(46) = s + p + 1 /\ s + p + 1 <= Len(text)
  <2> SUFFICES ASSUME f # 0 PROVE Position(46) = s + p + 1 /\ s + p + 1 <= Len(text)
    OBVIOUS
  <2>1. \A k \in 1..Len(text) : text[k] = 46 <=> k = s + p + 1
    <3>1. ASSUME NEW k \in 1..Len(text) PROVE text[k] = 46 <=> k = s + p + 1
      <4>1. CASE k \in 1..r
        BY <1>11, <4>1
      <4>2. CASE k \in r + 1..Len(text)
        <5>1. text[k] # 46 /\ k # s + p + 1
          BY <1>2, <1>4, <1>12, <4>2
        <5> QED BY <5>1
      <4> QED BY <1>13, <4>1, <4>2
    <3> QED BY <3>1
  <2>2. s + p + 1 \in Nat \ {0} /\ s + p + 1 <= Len(text) + 1 /\ s + p + 1 <= Len(text)
    BY <1>2, <1>4, <1>13
  <2> QED BY <1>13, <2>1, <2>2, PositionIs
<1>16. f = 0 => Position(46) = Len(text) + 1
  <2> SUFFICES ASSUME f = 0 PROVE Position(46) = Len(text) + 1
    OBVIOUS
  <2>1. \A k \in 1..Len(text) : text[k] # 46
    <3>1. ASSUME NEW k \in 1..Len(text) PROVE text[k] # 46
      <4>1. CASE k \in 1..r
        BY <1>11, <4>1
      <4>2. CASE k \in r + 1..Len(text)
        BY <1>12, <4>2
      <4> QED BY <1>13, <4>1, <4>2
    <3> QED BY <3>1
  <2> QED BY <1>13, <2>1, PositionAbsent
(* The sign and the digits.                                                *)
<1>17. (text[1] = 45) = (s = 1)
  <2>1. CASE s = 1
    BY <1>2, <2>1
  <2>2. CASE s = 0
    <3>1. 1 \in s + 1..s + p
      BY <1>2, <2>2
    <3>2. text[1] \in 48..57
      BY <1>8, <3>1
    <3> QED BY <2>2, <3>2
  <2> QED BY <1>2, <2>1, <2>2
<1>18. (IF text[1] = 45 THEN 2 ELSE 1) = s + 1
  BY <1>2, <1>17
<1>19. SubSeq(text, s + 1, s + p) = head
  <2>1. s \in Nat /\ s + Len(head) <= Len(text) /\ Len(head) = p
    BY <1>2, <1>4, <1>13 DEF p
  <2>2. \A i \in 1..Len(head) : text[s + i] = head[i]
    BY <1>2, <2>1
  <2>3. SubSeq(text, s + 1, s + Len(head)) = head
    BY <1>1, <1>2, <2>1, <2>2, SliceIs
  <2> QED BY <2>1, <2>3
<1>20. Mantissa = head \o tail
  <2>1. CASE f = 0
    <3>1. Position(46) > Len(text) /\ Position(101) - 1 = s + p
      BY <1>2, <1>4, <1>13, <1>14, <1>16, <2>1
    <3>2. Mantissa = SubSeq(text, s + 1, s + p)
      BY <1>18, <3>1 DEF Mantissa
    <3>3. tail = <<>> /\ head \o <<>> = head
      BY <1>1, <2>1
    <3> QED BY <1>19, <3>2, <3>3
  <2>2. CASE f # 0
    <3>1. /\ ~(Position(46) > Len(text)) /\ Position(46) - 1 = s + p
          /\ Position(46) + 1 = (s + p + 1) + 1 /\ Position(101) - 1 = (s + p + 1) + f
      BY <1>2, <1>4, <1>13, <1>14, <1>15, <2>2
    <3>2. Mantissa = SubSeq(text, s + 1, s + p)
                       \o SubSeq(text, (s + p + 1) + 1, (s + p + 1) + f)
      BY <1>18, <3>1 DEF Mantissa
    <3>3. SubSeq(text, (s + p + 1) + 1, (s + p + 1) + f) = tail
      <4>1. s + p + 1 \in Nat /\ s + p + 1 + Len(tail) <= Len(text) /\ Len(tail) = f
        BY <1>2, <1>4, <1>13, <2>2 DEF f
      <4>2. \A i \in 1..Len(tail) : text[s + p + 1 + i] = tail[i]
        BY <1>2, <2>2, <4>1
      <4> DEFINE k == s + p + 1
      <4>3. k \in Nat /\ k + Len(tail) <= Len(text) /\ \A i \in 1..Len(tail) : text[k + i] = tail[i]
        BY <4>1, <4>2
      <4> HIDE DEF k
      <4>4. SubSeq(text, k + 1, k + Len(tail)) = tail
        BY <1>1, <1>2, <4>3, SliceIs
      <4> QED BY <4>1, <4>4 DEF k
    <3> QED BY <1>19, <3>2, <3>3
  <2> QED BY <2>1, <2>2
(* The exponent.                                                           *)
<1>21. (IF Position(46) > Len(text) THEN 0 ELSE Position(101) - 1 - Position(46)) = f
  BY <1>2, <1>4, <1>13, <1>14, <1>15, <1>16
<1>22. PrintedPower = (IF r + 1 > Len(text) THEN 0
                       ELSE IF text[(r + 1) + 1] = 45
                            THEN -Value(SubSeq(text, (r + 1) + 2, Len(text)))
                            ELSE Value(SubSeq(text, (r + 1) + 2, Len(text)))) - f
  BY <1>14, <1>21 DEF PrintedPower
<1>23. PrintedPower = (IF power = <<>> THEN 0
                       ELSE IF mark = 45 THEN -Value(power) ELSE Value(power)) - f
  <2>1. CASE g = 0
    <3>1. r + 1 > Len(text)
      BY <1>4, <1>5, <2>1
    <3> QED BY <1>1, <1>22, <2>1, <3>1
  <2>2. CASE g # 0
    <3>1. ~(r + 1 > Len(text)) /\ (r + 1) + 1 = r + 2 /\ (r + 1) + 2 = (r + 2) + 1
          /\ Len(text) = (r + 2) + g /\ r + 2 \in Nat
      BY <1>2, <1>4, <1>5, <2>2
    <3>2. SubSeq(text, (r + 2) + 1, (r + 2) + g) = power
      <4> DEFINE k == r + 2
      <4>1. Len(power) = g
        BY DEF g
      <4>2. /\ k \in Nat /\ k + Len(power) <= Len(text)
            /\ \A i \in 1..Len(power) : text[k + i] = power[i]
        BY <1>2, <1>6, <2>2, <3>1, <4>1
      <4> HIDE DEF k
      <4>3. SubSeq(text, k + 1, k + Len(power)) = power
        BY <1>1, <1>2, <4>2, SliceIs
      <4> QED BY <4>1, <4>3 DEF k
    <3>3. text[(r + 1) + 1] = mark
      BY <1>6, <2>2, <3>1
    <3> QED BY <1>1, <1>22, <2>2, <3>1, <3>2, <3>3
  <2> QED BY <2>1, <2>2
<1> QED BY <1>2, <1>17, <1>20, <1>23 DEF f

(* What PrintDigits prints after the sign: sig_digits digits at most, with *)
(* the zeroes it drops counted in the exponent.                            *)
Formatted(sign, c, e) ==
  LET plain == e <= 0 /\ e >= -(sig_digits + 3)
      decimals == IF plain THEN -e ELSE sig_digits - 1
      placed == PlacePoint(decimals, c)
      digits == Digits(placed[2], placed[1] + 1)
      point == Len(digits) - placed[1]
  IN  sign \o SubSeq(digits, 1, point)
           \o (IF placed[1] = 0 THEN <<>> ELSE <<46>> \o SubSeq(digits, point + 1, Len(digits)))
           \o ExponentText(e + decimals)

LEMMA DigitsSplit ==
  ASSUME NEW s \in DigitText, NEW k \in 0..Len(s)
  PROVE  /\ SubSeq(s, 1, k) \in DigitText /\ SubSeq(s, k + 1, Len(s)) \in DigitText
         /\ Len(SubSeq(s, 1, k)) = k /\ Len(SubSeq(s, k + 1, Len(s))) = Len(s) - k
         /\ SubSeq(s, 1, k) \o SubSeq(s, k + 1, Len(s)) = s
<1> DEFINE h == SubSeq(s, 1, k)
           t == SubSeq(s, k + 1, Len(s))
           u == h \o t
<1>1. Len(s) \in Nat /\ k \in Nat /\ k <= Len(s) /\ \A i \in 1..Len(s) : s[i] \in 48..57
  BY DEF DigitText
<1>2. h \in Seq(48..57) /\ Len(h) = k /\ \A i \in 1..k : h[i] = s[i]
  BY <1>1 DEF DigitText
<1>3. t \in Seq(48..57) /\ Len(t) = Len(s) - k /\ \A i \in 1..Len(s) - k : t[i] = s[k + i]
  BY <1>1 DEF DigitText
<1> HIDE DEF h, t
<1>4. u \in Seq(48..57) /\ Len(u) = Len(s)
  <2>1. u \in Seq(48..57)
    BY <1>2, <1>3, SequenceJoin
  <2>2. Len(u) = Len(h) + Len(t)
    <3>1. h \in Seq(Int) /\ t \in Seq(Int)
      BY <1>2, <1>3, DigitTextIs DEF DigitText
    <3> QED BY <3>1, JoinAt
  <2> QED BY <1>1, <1>2, <1>3, <2>1, <2>2
<1>5. ASSUME NEW i \in 1..Len(s) PROVE u[i] = s[i]
  <2>1. CASE i <= k
    <3>1. i \in 1..Len(h)
      BY <1>1, <1>2, <2>1
    <3> QED BY <1>2, <1>3, <3>1
  <2>2. CASE ~(i <= k)
    <3>1. i - k \in 1..Len(t) /\ k + (i - k) = i
      BY <1>1, <1>3, <2>2
    <3>2. u[i] = t[i - k]
      BY <1>1, <1>2, <1>3, <2>2
    <3> QED BY <1>3, <3>1, <3>2
  <2> QED BY <1>1, <2>1, <2>2
<1> HIDE DEF u
<1>6. u = [i \in 1..Len(u) |-> u[i]] /\ s = [i \in 1..Len(s) |-> s[i]]
  BY <1>4 DEF DigitText
<1>7. u = s
  BY <1>4, <1>5, <1>6
<1> QED BY <1>2, <1>3, <1>7 DEF DigitText, h, t, u

LEMMA GreatestTen ==
  /\ MaxExponent \in FloatExponents /\ MaxExponent >= 5
  /\ 10^MaxExponent > 2 * MaxExponent
<1>1. /\ MaxExponent \in FloatExponents /\ MaxExponent >= 5 /\ MaxExponent \in Nat
      /\ MaxExponent - 1 \in FloatExponents /\ (MaxExponent - 1) + 1 = MaxExponent
  BY FloatPrintAssumption DEF FloatExponents
<1>2. 10^MaxExponent = 10 * 10^(MaxExponent - 1)
  BY <1>1, TenNext
<1>3. 10^(MaxExponent - 1) \in Nat /\ MaxExponent - 1 < 10^(MaxExponent - 1)
  BY <1>1, TenNat
<1> QED BY <1>1, <1>2, <1>3

LEMMA ExponentReads ==
  ASSUME NEW x \in Int, x <= 2 * MaxExponent, -(2 * MaxExponent) <= x
  PROVE  \E power \in DigitText : \E mark \in {43, 45} :
           /\ ExponentText(x) = IF power = <<>> THEN <<>> ELSE <<101, mark>> \o power
           /\ x = IF power = <<>> THEN 0 ELSE IF mark = 45 THEN -Value(power) ELSE Value(power)
<1>1. CASE x = 0
  <2>1. ExponentText(x) = <<>> /\ <<>> \in DigitText
    BY <1>1 DEF ExponentText, DigitText
  <2> QED BY <1>1, <2>1
<1>2. CASE x # 0
  <2> DEFINE size == IF x < 0 THEN -x ELSE x
             mark == IF x < 0 THEN 45 ELSE 43
             power == Digits(size, 2)
  <2>1. size \in Nat /\ size < 10^MaxExponent /\ 2 <= MaxExponent /\ mark \in {43, 45}
        /\ (mark = 45 <=> x < 0)
    <3>1. 10^MaxExponent \in Nat
      BY GreatestTen, TenNat
    <3>2. size \in Nat /\ size <= 2 * MaxExponent
      BY FloatPrintAssumption
    <3>3. mark \in {43, 45} /\ (mark = 45 <=> x < 0)
      OBVIOUS
    <3> HIDE DEF size, mark
    <3> QED BY <3>1, <3>2, <3>3, FloatPrintAssumption, GreatestTen
  <2>2. ExponentText(x) = <<101, mark>> \o power
    BY <1>2 DEF ExponentText
  <2>3. x = IF mark = 45 THEN -size ELSE size
    BY <2>1
  <2> HIDE DEF size, mark
  <2>4. power \in DigitText /\ Len(power) \in Nat /\ Len(power) >= 2 /\ Value(power) = size
    BY <2>1, GreatestTen, DigitsOf DEF DigitText
  <2> HIDE DEF power
  <2>5. power # <<>>
    BY <2>4, DigitTextIs
  <2> QED BY <2>1, <2>2, <2>3, <2>4, <2>5
<1> QED BY <1>1, <1>2

\* The parts of that text, and what its digits and its exponent read as.
ReadsAs(sign, c, e, head, tail, power, mark, z) ==
  /\ Formatted(sign, c, e) = Layout(sign, head, tail, mark, power) /\ head # <<>>
  /\ z + 1 \in FloatExponents
  /\ c = Value(head \o tail) * 10^z /\ Value(head \o tail) \in Nat
  /\ e + z = (IF power = <<>> THEN 0
              ELSE IF mark = 45 THEN -Value(power) ELSE Value(power)) - Len(tail)

LEMMA FormattedReads ==
  ASSUME NEW sign, NEW c \in min_scaled..max_scaled - 1, NEW e \in FloatPowers
  PROVE  \E head, tail, power \in DigitText : \E mark \in {43, 45}, z \in FloatExponents :
           ReadsAs(sign, c, e, head, tail, power, mark, z)
<1> DEFINE plain == e <= 0 /\ e >= -(sig_digits + 3)
           decimals == IF plain THEN -e ELSE sig_digits - 1
           D == sig_digits
           E == MaxExponent
<1>1. D \in Nat \ {0} /\ E \in Nat /\ D + 4 <= E /\ e \in Int /\ -E <= e /\ e <= E
  BY FloatPrintAssumption DEF FloatPowers
<1>2. decimals \in FloatExponents /\ decimals \in Nat /\ decimals <= D + 3
  BY <1>1 DEF FloatExponents
<1> HIDE DEF plain, decimals
<1>3. c \in Nat /\ c < 10^D /\ 10^D \in Nat
  BY Precision, TenNat DEF max_scaled
<1>4. PICK z \in 0..decimals, w \in Nat :
        PlacePoint(decimals, c) = <<decimals - z, w>> /\ c = w * 10^z
  BY <1>2, <1>3, PointPlaced
<1>5. z \in FloatExponents /\ z + 1 \in FloatExponents /\ z \in Nat /\ 10^z \in Nat \ {0}
  <2>1. z \in FloatExponents /\ z + 1 \in FloatExponents /\ z \in Nat
    BY <1>1, <1>2 DEF FloatExponents
  <2> QED BY <2>1, TenNat
<1> DEFINE frac == decimals - z
           digits == Digits(w, frac + 1)
           point == Len(digits) - frac
<1>6. frac \in Nat /\ frac + 1 \in Nat /\ frac + 1 <= D + 4
  BY <1>1, <1>2, <1>4, <1>5
<1>7. w < 10^(D + 4) /\ D + 4 \in FloatExponents
  <2>1. D + 4 \in FloatExponents /\ D \in Nat /\ D <= D + 4
    BY <1>1 DEF FloatExponents
  <2>2. 10^D <= 10^(D + 4) /\ 10^(D + 4) \in Nat
    BY <2>1, TenDivides, TenNat
  <2>3. w <= w * 10^z
    BY <1>5
  <2>4. w <= c
    BY <1>4, <2>3
  <2> QED BY <1>3, <2>1, <2>2, <2>4
<1> HIDE DEF frac
<1>8. /\ digits \in DigitText /\ Len(digits) \in Nat /\ Len(digits) >= frac + 1
      /\ Value(digits) = w
  BY <1>6, <1>7, DigitsOf DEF DigitText
<1> HIDE DEF digits
<1>9. point \in 0..Len(digits) /\ point >= 1 /\ point \in Nat
  BY <1>6, <1>8
<1> HIDE DEF point
<1> DEFINE head == SubSeq(digits, 1, point)
           rest == SubSeq(digits, point + 1, Len(digits))
<1>10. /\ head \in DigitText /\ rest \in DigitText /\ Len(head) = point
       /\ Len(rest) = Len(digits) - point /\ head \o rest = digits
  BY <1>8, <1>9, DigitsSplit
<1>11. Len(rest) = frac /\ head # <<>> /\ (rest = <<>> <=> frac = 0)
  <2>1. Len(digits) - point = frac
    BY <1>6, <1>8 DEF point
  <2>2. rest = <<>> <=> Len(rest) = 0
    BY <1>10, DigitTextIs
  <2>3. head = <<>> <=> Len(head) = 0
    BY <1>10, DigitTextIs
  <2> HIDE DEF head, rest
  <2> QED BY <1>9, <1>10, <2>1, <2>2, <2>3
<1>12. PICK power \in DigitText, mark \in {43, 45} :
         /\ ExponentText(e + decimals) = IF power = <<>> THEN <<>> ELSE <<101, mark>> \o power
         /\ e + decimals = IF power = <<>> THEN 0
                           ELSE IF mark = 45 THEN -Value(power) ELSE Value(power)
  <2>1. e + decimals \in Int /\ e + decimals <= 2 * E /\ -(2 * E) <= e + decimals
    BY <1>1, <1>2
  <2> QED BY <2>1, ExponentReads
<1>13. Formatted(sign, c, e)
         = sign \o SubSeq(digits, 1, point)
                \o (IF frac = 0 THEN <<>> ELSE <<46>> \o SubSeq(digits, point + 1, Len(digits)))
                \o ExponentText(e + decimals)
  <2>1. PlacePoint(decimals, c)[1] = frac /\ PlacePoint(decimals, c)[2] = w
    BY <1>4 DEF frac
  <2> DEFINE placed == PlacePoint(decimals, c)
             all == Digits(placed[2], placed[1] + 1)
             at == Len(all) - placed[1]
  <2>2. Formatted(sign, c, e)
          = sign \o SubSeq(all, 1, at)
                 \o (IF placed[1] = 0 THEN <<>> ELSE <<46>> \o SubSeq(all, at + 1, Len(all)))
                 \o ExponentText(e + decimals)
    BY DEF Formatted, decimals, plain
  <2>3. all = digits /\ at = point
    BY <2>1 DEF digits, point
  <2> HIDE DEF all, at, placed
  <2>4. placed[1] = frac
    BY <2>1 DEF placed
  <2> QED BY <2>2, <2>3, <2>4
<1> HIDE DEF head, rest
<1>14. Formatted(sign, c, e) = Layout(sign, head, rest, mark, power)
  BY <1>11, <1>12, <1>13 DEF Layout, head, rest
<1>15. c = Value(head \o rest) * 10^z /\ Value(head \o rest) \in Nat
  BY <1>4, <1>8, <1>10
<1> DEFINE written == IF power = <<>> THEN 0 ELSE IF mark = 45 THEN -Value(power) ELSE Value(power)
<1>16. e + z = written - Len(rest)
  <2> HIDE DEF written
  <2>1. written = e + decimals /\ Len(rest) = decimals - z
    BY <1>11, <1>12 DEF written, frac
  <2> QED BY <1>1, <1>2, <1>5, <2>1
<1>17. ReadsAs(sign, c, e, head, rest, power, mark, z)
  BY <1>5, <1>11, <1>14, <1>15, <1>16 DEF ReadsAs
<1> QED BY <1>5, <1>10, <1>12, <1>17

-----------------------------------------------------------------------------
(* Floats.                                                                 *)

Ordinary == input_number.den # 0 /\ input_number.num # 0

MinusSign == IF input_number.num < 0 THEN <<45>> ELSE <<>>

(* A number is scaled to one of the digits wanted, but for roundings, to a *)
(* power of ten that the exponent records; rounded to an integer of those  *)
(* digits; and formatted from that and from the exponent alone.            *)
FloatInv ==
  Ordinary =>
    /\ input_number \in Numbers
    /\ phase = "scaled" => ScaledAs(Magnitude, number, exponent, n_int) /\ text = MinusSign
    /\ phase = "rounded" => RoundedAs(Magnitude, exponent, n) /\ text = MinusSign
    /\ phase = "printed" =>
         RoundedAs(Magnitude, exponent, n) /\ text = Formatted(MinusSign, n, exponent)

LEMMA FloatInit == PrintersInit => FloatInv
<1>1. CASE NoFloat
  BY <1>1 DEF NoFloat, Rat, FloatInv, Ordinary
<1>2. CASE FloatPrintInit
  <2>1. ASSUME Ordinary PROVE input_number \in Numbers
    <3>1. input_number \notin Specials
      BY <2>1 DEF Ordinary, Specials, Rat
    <3> QED BY <1>2, <3>1 DEF FloatPrintInit
  <2>2. phase = "input"
    BY <1>2 DEF FloatPrintInit
  <2> QED BY <2>1, <2>2 DEF FloatInv
<1> QED BY <1>1, <1>2 DEF PrintersInit

LEMMA MagnitudeIs ==
  ASSUME FloatInv, Ordinary
  PROVE  /\ IsMagnitude(Magnitude) /\ Magnitude = Absolute(input_number)
         /\ input_number \in Numbers /\ input_number.num # 0
<1>1. /\ input_number \in Numbers /\ input_number.num \in Int /\ input_number.den \in Nat \ {0}
      /\ input_number.num # 0
  BY FloatPrintAssumption DEF FloatInv, Ordinary
<1> DEFINE a == input_number.num
<1>2. Magnitude.num = (IF a < 0 THEN -a ELSE a) /\ Magnitude.den = input_number.den
  BY DEF Magnitude, Absolute, Rat
<1> HIDE DEF a
<1>3. a \in Int /\ a # 0
  BY <1>1 DEF a
<1>4. (IF a < 0 THEN -a ELSE a) \in Nat \ {0}
  BY <1>3
<1> QED BY <1>1, <1>2, <1>4 DEF IsMagnitude, Magnitude

(* What stays of the number while it is printed.                           *)
LEMMA SameNumber ==
  ASSUME input_number' = input_number
  PROVE  Magnitude' = Magnitude /\ MinusSign' = MinusSign /\ Ordinary' = Ordinary
BY DEF Magnitude, MinusSign, Ordinary

LEMMA BeginsScaled ==
  ASSUME FloatInv, Ordinary, NEW y, NEW e, NEW split, Begin(y, e, split),
         ScaledAs(Magnitude, y, e, split)
  PROVE  FloatInv'
<1>1. /\ input_number' = input_number /\ phase' = "scaled" /\ text' = MinusSign
      /\ number' = y /\ exponent' = e /\ n_int' = split
  BY DEF Begin, MinusSign
<1>2. Magnitude' = Magnitude /\ MinusSign' = MinusSign
  BY <1>1, SameNumber
<1>3. ScaledAs(Magnitude', number', exponent', n_int')
  BY <1>1, <1>2
<1>4. Numbers' = Numbers /\ input_number' \in Numbers
  BY <1>1 DEF FloatInv
<1>5. ScaledAs(Magnitude, number, exponent, n_int)'
  BY <1>3 DEF ScaledAs, Whole, Least, Most, NotAbove, Near, NearlyAtMost,
                  IsMagnitude, TimesTen, CommonTwos, Rat, Steps, FloatPowers,
                  min_scaled, max_scaled
<1> QED BY <1>1, <1>2, <1>4, <1>5 DEF FloatInv

LEMMA ScaleUpStep == FloatInv /\ ScaleUp => FloatInv'
<1> SUFFICES ASSUME FloatInv, ScaleUp PROVE FloatInv'
  OBVIOUS
<1> DEFINE m == Magnitude
           big == Turns(LAMBDA k : ~Less(ScaledUp(m, k), UpEnough))
           x == ScaledUp(m, big)
           small == Turns(LAMBDA k : ~Below(Multiplied(x, k), min_scaled))
           y == Multiplied(x, small)
           e == -(BigExponent * big) - small
<1>1. Ordinary /\ Below(m, 1) /\ Begin(y, e, 0)
  BY DEF ScaleUp, Splits, Ordinary, UpEnough, Most
<1>2. IsMagnitude(m) /\ m = Absolute(input_number) /\ input_number \in Numbers
  BY <1>1, MagnitudeIs
<1>3. ScaledAs(m, y, e, 0)
  <2> HIDE DEF m
  <2>1. InRange(m) /\ Short(m) /\ NotAbove(m, Most) /\ \E t \in 0..MaxExponent : UpReaches(m, t)
    BY <1>1, <1>2, NumberIs
  <2>2. PICK t \in 0..MaxExponent : UpReaches(m, t)
    BY <2>1
  <2>3. UpScales(m)
    BY <2>1, <2>2, ScalesUp
  <2> QED BY <2>3 DEF UpScales
<1> HIDE DEF y, e
<1> QED BY <1>1, <1>3, BeginsScaled

LEMMA ScaleDownStep == FloatInv /\ ScaleDown => FloatInv'
<1> SUFFICES ASSUME FloatInv, ScaleDown PROVE FloatInv'
  OBVIOUS
<1> DEFINE m == Magnitude
           big == Turns(LAMBDA k : ~Less(DownEnough, ScaledDown(m, k)))
           x == ScaledDown(m, big)
           small == Turns(LAMBDA k : AtMost(Divided(x, k), max_scaled))
           y == Divided(x, small)
           e == BigExponent * big + small
<1>1. Ordinary /\ ~AtMost(m, max_scaled) /\ Begin(y, e, 0)
  BY DEF ScaleDown, Splits, Ordinary, DownEnough, Least
<1>2. IsMagnitude(m) /\ m = Absolute(input_number) /\ input_number \in Numbers
  BY <1>1, MagnitudeIs
<1>3. ScaledAs(m, y, e, 0)
  <2> HIDE DEF m
  <2>1. /\ InRange(m) /\ Short(m) /\ NotAbove(Least, m)
        /\ \E t \in 0..MaxExponent : DownReaches(m, t)
    BY <1>1, <1>2, NumberIs
  <2>2. PICK t \in 0..MaxExponent : DownReaches(m, t)
    BY <2>1
  <2>3. DownScales(m)
    BY <2>1, <2>2, ScalesDown
  <2> QED BY <2>3 DEF DownScales
<1> HIDE DEF y, e
<1> QED BY <1>1, <1>3, BeginsScaled

LEMMA SplitStep == FloatInv /\ SplitInteger => FloatInv'
<1> SUFFICES ASSUME FloatInv, SplitInteger PROVE FloatInv'
  OBVIOUS
<1> DEFINE m == Magnitude
           whole == m.num \div m.den
           k == SplitPower(whole)
           y == Multiplied(Rat(m.num % m.den, m.den), k)
<1>1. Ordinary /\ ~Below(m, 1) /\ AtMost(m, max_scaled) /\ Begin(y, -k, whole * 10^k)
  BY DEF SplitInteger, Splits, Ordinary, Floor, SplitPower
<1>2. IsMagnitude(m) /\ m = Absolute(input_number) /\ input_number \in Numbers
  BY <1>1, MagnitudeIs
<1>3. ScaledAs(m, y, -k, whole * 10^k)
  <2> HIDE DEF m
  <2>1. InRange(m) /\ Unit * m.den <= Widest
    BY <1>2, NumberIs
  <2>2. NotAbove(m, Most)
    BY <1>1, <1>2, BelowIs, BigIs DEF Most
  <2>3. SplitsOff(m)
    BY <1>1, <2>1, <2>2, SplitOff
  <2> QED BY <2>3 DEF SplitsOff
<1> DEFINE split == whole * 10^k
           e == -k
<1>4. Begin(y, e, split) /\ ScaledAs(Magnitude, y, e, split)
  BY <1>1, <1>3
<1> HIDE DEF y, e, split
<1> QED BY <1>1, <1>4, BeginsScaled

LEMMA RoundStep == FloatInv /\ Round => FloatInv'
<1> SUFFICES ASSUME FloatInv, Round PROVE FloatInv'
  OBVIOUS
<1> DEFINE m == Magnitude
           sum == NearestEven(number) + n_int
<1>1. /\ phase = "scaled" /\ phase' = "rounded"
      /\ input_number' = input_number /\ text' = text
      /\ n' = (IF sum >= max_scaled THEN min_scaled ELSE sum)
      /\ exponent' = (IF sum >= max_scaled THEN exponent + 1 ELSE exponent)
  BY DEF Round
<1>2. Magnitude' = m /\ MinusSign' = MinusSign /\ Ordinary' = Ordinary
  BY <1>1, SameNumber
<1>3. ASSUME Ordinary PROVE RoundedAs(m, exponent', n')
  <2>1. IsMagnitude(m) /\ ScaledAs(m, number, exponent, n_int)
    BY <1>1, <1>3, MagnitudeIs DEF FloatInv
  <2> HIDE DEF m
  <2>2. RoundedAs(m, IF sum >= max_scaled THEN exponent + 1 ELSE exponent,
                     IF sum >= max_scaled THEN min_scaled ELSE sum)
    BY <2>1, RoundsAs
  <2> HIDE DEF sum
  <2> QED BY <1>1, <2>2
<1>4. ASSUME Ordinary PROVE RoundedAs(Magnitude, exponent, n)'
  <2>1. RoundedAs(Magnitude', exponent', n')
    BY <1>2, <1>3, <1>4
  <2> QED BY <2>1 DEF RoundedAs, NearlyAtMost, LowerEdge, UpperEdge, TimesTen,
                      CommonTwos, Rat, Steps, FloatPowers, min_scaled, max_scaled
<1>5. ASSUME Ordinary PROVE input_number' \in Numbers /\ text' = MinusSign
  BY <1>1, <1>5 DEF FloatInv
<1> QED BY <1>1, <1>2, <1>4, <1>5 DEF FloatInv

LEMMA PrintDigitsStep == FloatInv /\ PrintDigits => FloatInv'
<1> SUFFICES ASSUME FloatInv, PrintDigits PROVE FloatInv'
  OBVIOUS
<1>1. /\ phase = "rounded" /\ phase' = "printed"
      /\ input_number' = input_number /\ n' = n /\ exponent' = exponent
      /\ text' = Formatted(text, n, exponent)
  BY DEF PrintDigits, Formatted
<1>2. Magnitude' = Magnitude /\ MinusSign' = MinusSign /\ Ordinary' = Ordinary
  BY <1>1, SameNumber
<1>3. ASSUME Ordinary PROVE RoundedAs(Magnitude, exponent, n) /\ text = MinusSign
                            /\ input_number \in Numbers
  BY <1>1, <1>3 DEF FloatInv
<1>4. ASSUME Ordinary PROVE RoundedAs(Magnitude, exponent, n)'
  <2>1. RoundedAs(Magnitude', exponent', n')
    BY <1>1, <1>2, <1>3, <1>4
  <2> QED BY <2>1 DEF RoundedAs, NearlyAtMost, LowerEdge, UpperEdge, TimesTen,
                      CommonTwos, Rat, Steps, FloatPowers, min_scaled, max_scaled
<1>5. ASSUME Ordinary PROVE text' = Formatted(MinusSign', n', exponent')
  BY <1>1, <1>2, <1>3, <1>5
<1>6. Formatted(MinusSign, n, exponent)' = Formatted(MinusSign', n', exponent')
  BY DEF Formatted, PlacePoint, Digits, ExponentText, Turns
<1> QED BY <1>1, <1>2, <1>3, <1>4, <1>5, <1>6 DEF FloatInv

LEMMA FloatStands == FloatInv /\ UNCHANGED float_vars => FloatInv'
<1> SUFFICES ASSUME FloatInv, UNCHANGED float_vars PROVE FloatInv'
  OBVIOUS
<1>1. /\ input_number' = input_number /\ phase' = phase /\ number' = number
      /\ exponent' = exponent /\ n_int' = n_int /\ n' = n /\ text' = text
  BY DEF float_vars
<1>2. Magnitude' = Magnitude /\ MinusSign' = MinusSign /\ Ordinary' = Ordinary
  BY <1>1, SameNumber
<1>3. RoundedAs(Magnitude, exponent, n) => RoundedAs(Magnitude, exponent, n)'
  <2>1. RoundedAs(Magnitude, exponent, n) => RoundedAs(Magnitude', exponent', n')
    BY <1>1, <1>2
  <2> QED BY <2>1 DEF RoundedAs, NearlyAtMost, LowerEdge, UpperEdge, TimesTen,
                      CommonTwos, Rat, Steps, FloatPowers, min_scaled, max_scaled
<1>4. ScaledAs(Magnitude, number, exponent, n_int)
        => ScaledAs(Magnitude, number, exponent, n_int)'
  <2>1. ScaledAs(Magnitude, number, exponent, n_int)
          => ScaledAs(Magnitude', number', exponent', n_int')
    BY <1>1, <1>2
  <2> QED BY <2>1 DEF ScaledAs, Whole, Least, Most, NotAbove, Near, NearlyAtMost,
                  IsMagnitude, TimesTen, CommonTwos, Rat, Steps, FloatPowers,
                  min_scaled, max_scaled
<1>5. Formatted(MinusSign, n, exponent)' = Formatted(MinusSign, n, exponent)
  <2>1. Formatted(MinusSign, n, exponent)' = Formatted(MinusSign', n', exponent')
    BY DEF Formatted, PlacePoint, Digits, ExponentText, Turns
  <2> QED BY <1>1, <1>2, <2>1
<1> QED BY <1>1, <1>2, <1>3, <1>4, <1>5 DEF FloatInv

LEMMA FloatStep == FloatInv /\ [PrintersNext]_printer_vars => FloatInv'
<1> SUFFICES ASSUME FloatInv, [PrintersNext]_printer_vars PROVE FloatInv'
  OBVIOUS
<1>1. CASE PrintSpecial
  <2>1. ~Ordinary /\ input_number' = input_number
    BY <1>1 DEF PrintSpecial, Ordinary, Rat
  <2>2. ~Ordinary'
    BY <2>1, SameNumber
  <2> QED BY <2>2 DEF FloatInv
<1>2. CASE UNCHANGED float_vars
  BY <1>2, FloatStands
<1>3. CASE FloatPrintNext
  BY <1>1, <1>3, ScaleUpStep, ScaleDownStep, SplitStep, RoundStep, PrintDigitsStep
     DEF FloatPrintNext
<1> QED BY <1>2, <1>3 DEF PrintersNext, printer_vars

LEMMA FloatInvHolds == PrintersSpec => []FloatInv
BY FloatInit, FloatStep, PTL DEF PrintersSpec

\* The power of ten that gives printed digits their number again.
LEMMA LeastPower ==
  ASSUME NEW v \in Nat, NEW z \in FloatExponents, v * 10^z \in min_scaled..max_scaled - 1
  PROVE  SplitPower(v) = z
<1> DEFINE P(k) == v * 10^k >= min_scaled
           k == SplitPower(v)
           First(j) == P(j) /\ \A l \in 0..j - 1 : ~P(l)
<1>1. /\ min_scaled \in Nat \ {0} /\ max_scaled = 10 * min_scaled /\ MaxExponent \in Nat
      /\ z \in Nat /\ z \in 0..MaxExponent /\ 10^z \in Nat
  BY Precision, TenNat, FloatPrintAssumption DEF FloatExponents
<1>2. k = CHOOSE j \in 0..MaxExponent : First(j)
  BY DEF SplitPower, Turns
<1>3. P(z)
  <2>1. v * 10^z \in Nat
    BY <1>1
  <2> QED BY <1>1, <2>1
<1>4. ASSUME NEW l \in 0..z - 1 PROVE ~P(l)
  <2> DEFINE p == 10^l
             q == 10^z
  <2>1. p \in Nat /\ q \in Nat /\ 10 * p <= q
    BY <1>1, TenDivides
  <2>2. v * q < 10 * min_scaled
    BY <1>1
  <2> HIDE DEF p, q
  <2>3. 10 * (v * p) <= v * q
    <3>1. (10 * p) * v <= q * v
      BY <2>1
    <3>2. (10 * p) * v = 10 * (v * p) /\ q * v = v * q
      BY <2>1
    <3> QED BY <3>1, <3>2
  <2>4. v * p \in Nat /\ v * q \in Nat
    BY <2>1
  <2>5. ~(v * p >= min_scaled)
    BY <1>1, <2>2, <2>3, <2>4
  <2> QED BY <2>5 DEF p
<1> HIDE DEF P, k
<1>5. First(z)
  BY <1>3, <1>4
<1>6. k \in 0..MaxExponent /\ First(k)
  <2> HIDE DEF First
  <2> QED BY <1>1, <1>2, <1>5
<1>7. k = z
  BY <1>1, <1>5, <1>6
<1> QED BY <1>7 DEF k

LEMMA NearestInv == FloatInv => NearestPrinted
<1> SUFFICES ASSUME FloatInv, Printed PROVE NearestPrinted
  BY DEF NearestPrinted
<1>1. RoundedAs(Magnitude, exponent, n) /\ text = Formatted(MinusSign, n, exponent)
  BY DEF Printed, Ordinary, FloatInv
<1>2. exponent \in FloatPowers /\ n \in min_scaled..max_scaled - 1 /\ n \in Nat
  BY <1>1, Precision DEF RoundedAs
<1>3. PICK head \in DigitText, tail \in DigitText, power \in DigitText, mark \in {43, 45},
           z \in FloatExponents : ReadsAs(MinusSign, n, exponent, head, tail, power, mark, z)
  BY <1>2, FormattedReads
<1>4. MinusSign \in SignTexts /\ (MinusSign = <<45>> <=> input_number.num < 0)
  BY DEF MinusSign, SignTexts
<1>5. /\ Mantissa = head \o tail
      /\ PrintedPower = (IF power = <<>> THEN 0
                         ELSE IF mark = 45 THEN -Value(power) ELSE Value(power)) - Len(tail)
      /\ (text[1] = 45) = (MinusSign = <<45>>)
  <2>1. text = Layout(MinusSign, head, tail, mark, power) /\ head # <<>>
    BY <1>1, <1>3 DEF ReadsAs
  <2> QED BY <1>4, <2>1, LayoutReads
<1> DEFINE v == Value(head \o tail)
<1>6. v \in Nat /\ n = v * 10^z /\ Value(Mantissa) = v /\ PrintedPower = exponent + z
  BY <1>3, <1>5 DEF ReadsAs
<1> HIDE DEF v
<1>7. Padding = z
  <2>1. SplitPower(v) = z
    BY <1>2, <1>6, LeastPower
  <2> QED BY <1>6, <2>1 DEF Padding, SplitPower
<1>8. PrintedDigits = n /\ LastPower = exponent
  <2>1. exponent \in Int /\ z \in Int
    BY <1>2, FloatPrintAssumption DEF FloatPowers, FloatExponents
  <2> QED BY <1>6, <1>7, <2>1 DEF PrintedDigits, LastPower
<1>9. Roundings = Steps(exponent)
  BY <1>8 DEF Roundings, Steps
<1>10. n < max_scaled
  BY <1>2, Precision
<1> QED BY <1>1, <1>4, <1>5, <1>8, <1>9, <1>10 DEF NearestPrinted, RoundedAs

(* For every precision, every width of a significand and every number in   *)
(* range: what UnityPrintFloat prints reads as the number of sig_digits    *)
(* digits nearest to one that the number is but for the roundings of its   *)
(* scaling, one for each power of ten of BigExponent digits and one more.  *)
THEOREM NearestPrintedHolds == PrintersSpec => []NearestPrinted
BY FloatInvHolds, NearestInv, PTL
=============================================================================
