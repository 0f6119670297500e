------------------------- MODULE UnityNumbersProofs -------------------------
(***************************************************************************)
(* Integers of every width, and how they are printed: what the proofs about*)
(* assertions and printers need to know.                                   *)
(***************************************************************************)
EXTENDS UnityNumbers, WellFoundedInduction, TLAPS

(* A set of natural numbers has a least one: what is true of no least      *)
(* exception is true of all, and a loop that stops at the first of some    *)
(* numbers stops at the least.                                             *)
LEMMA LeastNat ==
  ASSUME NEW S \in SUBSET Nat, S # {}
  PROVE  \E i \in S : \A k \in S : i <= k
<1> DEFINE R == OpToRel(<, Nat)
<1>1. IsWellFoundedOn(R, Nat)
  BY NatLessThanWellFounded, Zenon
<1>2. R = {ss \in Nat \X Nat : ss[1] < ss[2]}
  BY DEF OpToRel
<1> HIDE DEF R
<1>3. PICK i \in S : \A k \in S : ~(<<k, i>> \in R)
  BY <1>1, WFMin
<1>4. \A k \in S : k \in Nat /\ i \in Nat /\ ~(k < i)
  BY <1>2, <1>3
<1>5. \A k \in S : i <= k
  BY <1>4
<1> QED BY <1>5

LEMMA LesserOfTwo ==
  ASSUME NEW m \in Nat, NEW n \in Nat
  PROVE  Min({m, n}) = IF m <= n THEN m ELSE n
<1> DEFINE least == IF m <= n THEN m ELSE n
<1>1. least \in {m, n} /\ \A y \in {m, n} : least <= y
  OBVIOUS
<1>2. \A x \in {m, n} : (\A y \in {m, n} : x <= y) => x = least
  OBVIOUS
<1> HIDE DEF least
<1>3. Min({m, n}) = least
  BY <1>1, <1>2 DEF Min
<1> QED BY <1>3 DEF least

-----------------------------------------------------------------------------
(* Powers of two.                                                          *)

Exponents == 0..Bits(IntBytes)

LEMMA BitsOf ==
  ASSUME NEW b \in 1..IntBytes
  PROVE  /\ Bits(b) \in Exponents /\ Bits(b) - 1 \in Exponents
         /\ Bits(b) \in Nat \ {0} /\ Bits(b) - 1 \in Nat
         /\ Bits(IntBytes) \in Nat
         /\ \A c \in 1..IntBytes : b <= c => Bits(b) <= Bits(c)
<1> DEFINE w == 2 * NibbleBits
<1>1. w \in Nat /\ w >= 2
  BY NumbersAssumption
<1>2. ASSUME NEW c \in 1..IntBytes PROVE Bits(c) = w * c /\ Bits(c) \in Nat
  BY <1>1, <1>2, NumbersAssumption DEF Bits
<1> HIDE DEF w
<1>3. ASSUME NEW m \in Nat, NEW n \in Nat, m <= n PROVE w * m <= w * n
  <2>1. n - m \in Nat /\ w * (n - m) \in Nat
    BY <1>1, <1>3
  <2>2. w * n = w * m + w * (n - m) /\ w * m \in Nat
    BY <1>1
  <2> QED BY <2>1, <2>2
<1>4. 1 \in 1..IntBytes /\ IntBytes \in 1..IntBytes /\ 1 \in Nat /\ IntBytes \in Nat /\ b \in Nat
  BY NumbersAssumption
<1>5. w * 1 = w
  BY <1>1
<1>6. Bits(b) >= 2
  BY <1>1, <1>2, <1>3, <1>4, <1>5
<1>7. Bits(b) <= Bits(IntBytes)
  BY <1>2, <1>3, <1>4
<1>8. \A c \in 1..IntBytes : b <= c => Bits(b) <= Bits(c)
  BY <1>2, <1>3
<1>9. Bits(b) \in Nat /\ Bits(IntBytes) \in Nat
  BY <1>2, <1>4
<1> QED BY <1>6, <1>7, <1>8, <1>9 DEF Exponents

LEMMA BitsMax == Bits(IntBytes) \in Nat
BY BitsOf, NumbersAssumption

LEMMA PowerNat == \A k \in Exponents : 2^k \in Nat \ {0}
<1> DEFINE bad == {k \in Exponents : 2^k \notin Nat \ {0}}
<1>1. SUFFICES ASSUME bad # {} PROVE FALSE
  OBVIOUS
<1>2. bad \in SUBSET Nat
  BY BitsMax DEF Exponents
<1>3. PICK k \in bad : \A j \in bad : k <= j
  BY <1>1, <1>2, LeastNat
<1>4. k \in Nat /\ k # 0
  <2>1. 2^0 \in Nat \ {0}
    BY PowersAssumption
  <2>2. 0 \notin bad
    BY <2>1
  <2> QED BY <1>2, <2>2, Zenon
<1>5. k - 1 \in 0..Bits(IntBytes) - 1 /\ k - 1 \in Exponents /\ ~(k <= k - 1)
  BY <1>4, BitsMax DEF Exponents
<1>6. 2^(k - 1) \in Nat \ {0}
  BY <1>3, <1>5
<1>7. 2^((k - 1) + 1) = 2 * 2^(k - 1) /\ (k - 1) + 1 = k
  BY <1>4, <1>5, PowersAssumption
<1>8. 2^k \in Nat \ {0}
  BY <1>6, <1>7
<1> QED BY <1>8

LEMMA PowerSum ==
  ASSUME NEW j \in Nat
  PROVE  \A k \in Nat : j + k \in Exponents => 2^(j + k) = 2^j * 2^k
<1> DEFINE bad == {k \in Nat : j + k \in Exponents /\ 2^(j + k) # 2^j * 2^k}
<1>1. SUFFICES ASSUME bad # {} PROVE FALSE
  OBVIOUS
<1>2. PICK k \in bad : \A i \in bad : k <= i
  BY <1>1, LeastNat
<1>3. k \in Nat /\ j + k \in Exponents
  OBVIOUS
<1>4. j \in Exponents /\ k \in Exponents
  BY <1>3, BitsMax DEF Exponents
<1>5. 2^j \in Nat \ {0} /\ 2^k \in Nat \ {0}
  BY <1>4, PowerNat
<1>6. k # 0
  <2>1. j + 0 = j /\ 2^j * 1 = 2^j
    BY <1>5
  <2> QED BY <2>1, PowersAssumption
<1> DEFINE l == k - 1
<1>7. /\ l \in Nat /\ l + 1 = k /\ l \in 0..Bits(IntBytes) - 1
      /\ j + l \in 0..Bits(IntBytes) - 1 /\ (j + l) + 1 = j + k
      /\ j + l \in Exponents /\ l \in Exponents /\ ~(k <= l)
  BY <1>3, <1>6, BitsMax DEF Exponents
<1> HIDE DEF l
<1>8. 2^(j + l) = 2^j * 2^l
  BY <1>2, <1>7
<1>9. 2^k = 2 * 2^l /\ 2^(j + k) = 2 * 2^(j + l)
  BY <1>7, PowersAssumption
<1>10. 2^l \in Nat \ {0}
  BY <1>7, PowerNat
<1>11. \A p, q \in Nat : 2 * (p * q) = p * (2 * q)
  OBVIOUS
<1>12. 2^(j + k) = 2^j * 2^k
  BY <1>5, <1>8, <1>9, <1>10, <1>11
<1> QED BY <1>12

(* A greater power is a multiple of a lesser one.                          *)
LEMMA PowerDivides ==
  ASSUME NEW j \in Nat, NEW k \in Exponents, j <= k
  PROVE  /\ k - j \in Exponents /\ 2^(k - j) \in Nat \ {0}
         /\ 2^k = 2^(k - j) * 2^j /\ 2^j <= 2^k
<1>1. k - j \in Nat /\ j + (k - j) = k /\ j \in Exponents /\ k - j \in Exponents
  BY BitsMax DEF Exponents
<1>2. 2^j \in Nat \ {0} /\ 2^(k - j) \in Nat \ {0}
  BY <1>1, PowerNat
<1>3. 2^(j + (k - j)) = 2^j * 2^(k - j)
  BY <1>1, PowerSum
<1>4. \A m, p \in Nat \ {0} : p * m = m * p /\ p <= m * p
  <2>1. ASSUME NEW m \in Nat \ {0}, NEW p \in Nat \ {0} PROVE p * m = m * p /\ p <= m * p
    <3>1. m - 1 \in Nat /\ (m - 1) * p \in Nat /\ m * p = (m - 1) * p + p
      OBVIOUS
    <3> QED BY <3>1
  <2> QED BY <2>1
<1> QED BY <1>1, <1>2, <1>3, <1>4

-----------------------------------------------------------------------------
(* Conversions between integer types.                                      *)

LEMMA Remainder ==
  ASSUME NEW n \in Int, NEW p \in Nat \ {0}, NEW q \in Int, NEW r \in 0..p - 1, n = q * p + r
  PROVE  n % p = r /\ n \div p = q
OBVIOUS

LEMMA Division ==
  ASSUME NEW n \in Int, NEW p \in Nat \ {0}
  PROVE  n % p \in 0..p - 1 /\ n \div p \in Int /\ n = (n \div p) * p + (n % p)
OBVIOUS

LEMMA Shifted ==
  ASSUME NEW n \in Int, NEW p \in Nat \ {0}, NEW k \in Int
  PROVE  (n + k * p) % p = n % p
<1> DEFINE q == n \div p
           r == n % p
<1>1. q \in Int /\ r \in 0..p - 1 /\ n = q * p + r
  BY Division
<1> HIDE DEF q, r
<1>2. n + k * p = (q + k) * p + r /\ n + k * p \in Int /\ q + k \in Int
  BY <1>1
<1>3. (n + k * p) % p = r
  BY <1>1, <1>2, Remainder
<1> QED BY <1>3 DEF r

(* The modulus of the type of so many bytes, and half of it.               *)
Modulus(bytes) == 2^Bits(bytes)
Half(bytes) == 2^(Bits(bytes) - 1)

LEMMA ModulusIs ==
  ASSUME NEW b \in 1..IntBytes
  PROVE  /\ Modulus(b) \in Nat \ {0} /\ Half(b) \in Nat \ {0}
         /\ Modulus(b) = 2 * Half(b)
         /\ \A c \in 1..IntBytes : b <= c =>
              /\ Modulus(b) <= Modulus(c)
              /\ \E m \in Nat \ {0} : Modulus(c) = m * Modulus(b)
<1>1. /\ Bits(b) - 1 \in Exponents /\ Bits(b) \in Exponents
      /\ Bits(b) - 1 \in 0..Bits(IntBytes) - 1
      /\ (Bits(b) - 1) + 1 = Bits(b) /\ Bits(b) \in Nat
  BY BitsOf DEF Exponents
<1>2. 2^((Bits(b) - 1) + 1) = 2 * 2^(Bits(b) - 1)
  BY <1>1, PowersAssumption
<1>3. ASSUME NEW c \in 1..IntBytes, b <= c
      PROVE  /\ Modulus(b) <= Modulus(c)
             /\ \E m \in Nat \ {0} : Modulus(c) = m * Modulus(b)
  <2>1. Bits(c) \in Exponents /\ Bits(b) <= Bits(c)
    BY <1>3, BitsOf
  <2> QED BY <1>1, <2>1, PowerDivides DEF Modulus
<1> QED BY <1>1, <1>2, <1>3, PowerNat DEF Modulus, Half

LEMMA UnsignedIs ==
  ASSUME NEW n \in Int, NEW b \in 1..IntBytes
  PROVE  /\ ToUnsigned(n, b) = n % Modulus(b)
         /\ ToUnsigned(n, b) \in 0..Modulus(b) - 1 /\ ToUnsigned(n, b) \in Nat
         /\ n \in 0..Modulus(b) - 1 => ToUnsigned(n, b) = n
         /\ \A k \in Int : ToUnsigned(n + k * Modulus(b), b) = ToUnsigned(n, b)
         /\ \E q \in Int : n = q * Modulus(b) + ToUnsigned(n, b)
<1>1. ToUnsigned(n, b) = n % Modulus(b)
  BY DEF ToUnsigned, Modulus
<1>2. Modulus(b) \in Nat \ {0}
  BY ModulusIs
<1>3. ToUnsigned(n, b) \in 0..Modulus(b) - 1
  BY <1>1, <1>2, Division
<1>4. ASSUME n \in 0..Modulus(b) - 1 PROVE ToUnsigned(n, b) = n
  <2>1. n = 0 * Modulus(b) + n
    BY <1>2
  <2> QED BY <1>1, <1>2, <1>4, <2>1, Remainder
<1>5. ASSUME NEW k \in Int PROVE ToUnsigned(n + k * Modulus(b), b) = ToUnsigned(n, b)
  <2>1. ToUnsigned(n + k * Modulus(b), b) = (n + k * Modulus(b)) % Modulus(b)
    BY DEF ToUnsigned, Modulus
  <2> QED BY <1>1, <1>2, <2>1, Shifted
<1>6. ToUnsigned(n, b) \in Nat
  BY <1>2, <1>3
<1>7. \E q \in Int : n = q * Modulus(b) + ToUnsigned(n, b)
  <2>1. n \div Modulus(b) \in Int /\ n = (n \div Modulus(b)) * Modulus(b) + (n % Modulus(b))
    BY <1>2, Division
  <2> QED BY <1>1, <2>1
<1> QED BY <1>1, <1>3, <1>4, <1>5, <1>6, <1>7

(* The signed value is the unsigned one, or that less the modulus.         *)
LEMMA SignedIs ==
  ASSUME NEW n \in Int, NEW b \in 1..IntBytes
  PROVE  /\ ToSigned(n, b) = IF ToUnsigned(n, b) < Half(b) THEN ToUnsigned(n, b)
                             ELSE ToUnsigned(n, b) - Modulus(b)
         /\ ToSigned(n, b) \in -Half(b)..Half(b) - 1 /\ ToSigned(n, b) \in Int
         /\ \E k \in {0, -1} : ToSigned(n, b) = ToUnsigned(n, b) + k * Modulus(b)
         /\ \E k \in Int : ToSigned(n, b) = n + k * Modulus(b)
<1> DEFINE u == ToUnsigned(n, b)
           s == ToSigned(n, b)
<1>1. s = IF u < Half(b) THEN u ELSE u - Modulus(b)
  BY DEF ToSigned, Half, Modulus
<1>2. /\ Modulus(b) \in Nat \ {0} /\ Half(b) \in Nat \ {0} /\ Modulus(b) = 2 * Half(b)
      /\ u \in 0..Modulus(b) - 1
  BY ModulusIs, UnsignedIs
<1>3. PICK q \in Int : n = q * Modulus(b) + u
  BY UnsignedIs
<1> HIDE DEF u, s
<1>4. s \in -Half(b)..Half(b) - 1 /\ s \in Int
  BY <1>1, <1>2
<1>5. \E k \in {0, -1} : s = u + k * Modulus(b)
  <2>1. 0 * Modulus(b) = 0 /\ (-1) * Modulus(b) = -Modulus(b)
    BY <1>2
  <2>2. CASE u < Half(b)
    BY <1>1, <1>2, <2>1, <2>2
  <2>3. CASE ~(u < Half(b))
    BY <1>1, <1>2, <2>1, <2>3
  <2> QED BY <2>2, <2>3
<1>6. \E k \in Int : s = n + k * Modulus(b)
  <2>1. PICK k \in {0, -1} : s = u + k * Modulus(b)
    BY <1>5
  <2>2. s = n + (k - q) * Modulus(b)
    BY <1>2, <1>3, <2>1
  <2>3. k - q \in Int
    BY <1>3, <2>1
  <2> QED BY <2>2, <2>3
<1> QED BY <1>1, <1>4, <1>5, <1>6 DEF u, s

(* A signed value, read back, is itself; two are equal when their unsigned *)
(* values are.                                                             *)
LEMMA SignedRead ==
  ASSUME NEW n \in Int, NEW b \in 1..IntBytes
  PROVE  /\ ToUnsigned(ToSigned(n, b), b) = ToUnsigned(n, b)
         /\ n \in -Half(b)..Half(b) - 1 => ToSigned(n, b) = n
         /\ \A m \in Int : ToSigned(m, b) = ToSigned(n, b)
                             <=> ToUnsigned(m, b) = ToUnsigned(n, b)
<1>1. ASSUME NEW m \in Int PROVE ToUnsigned(ToSigned(m, b), b) = ToUnsigned(m, b)
  BY SignedIs, UnsignedIs
<1>2. ASSUME NEW m \in Int
      PROVE  ToSigned(m, b) = ToSigned(n, b) <=> ToUnsigned(m, b) = ToUnsigned(n, b)
  <2>1. /\ ToSigned(m, b) = IF ToUnsigned(m, b) < Half(b) THEN ToUnsigned(m, b)
                             ELSE ToUnsigned(m, b) - Modulus(b)
        /\ ToSigned(n, b) = IF ToUnsigned(n, b) < Half(b) THEN ToUnsigned(n, b)
                             ELSE ToUnsigned(n, b) - Modulus(b)
    BY SignedIs
  <2> QED BY <1>1, <2>1
<1>3. ASSUME n \in -Half(b)..Half(b) - 1 PROVE ToSigned(n, b) = n
  <2>1. Modulus(b) = 2 * Half(b) /\ Half(b) \in Nat \ {0} /\ Modulus(b) \in Nat \ {0}
    BY ModulusIs
  <2>2. CASE n >= 0
    <3>1. n \in 0..Modulus(b) - 1 /\ n < Half(b)
      BY <1>3, <2>1, <2>2
    <3> QED BY <3>1, SignedIs, UnsignedIs
  <2>3. CASE n < 0
    <3>1. n + Modulus(b) \in 0..Modulus(b) - 1 /\ ~(n + Modulus(b) < Half(b))
          /\ n + Modulus(b) \in Int /\ n = (n + Modulus(b)) - Modulus(b)
          /\ n + 1 * Modulus(b) = n + Modulus(b)
      BY <1>3, <2>1, <2>3
    <3>2. ToUnsigned(n + Modulus(b), b) = n + Modulus(b)
      BY <3>1, UnsignedIs
    <3>3. ToUnsigned(n, b) = n + Modulus(b)
      BY <3>1, <3>2, UnsignedIs
    <3> QED BY <3>1, <3>3, SignedIs
  <2> QED BY <2>2, <2>3
<1> QED BY <1>1, <1>2, <1>3

(* A conversion to a wider type leaves the one to a narrower one alone.    *)
LEMMA Narrowed ==
  ASSUME NEW n \in Int, NEW b \in 1..IntBytes, NEW c \in 1..IntBytes, b <= c
  PROVE  /\ ToUnsigned(ToUnsigned(n, c), b) = ToUnsigned(n, b)
         /\ ToUnsigned(ToSigned(n, c), b) = ToUnsigned(n, b)
         /\ ToSigned(ToSigned(n, c), b) = ToSigned(n, b)
         /\ ToSigned(ToUnsigned(n, c), b) = ToSigned(n, b)
<1>1. Modulus(b) \in Nat \ {0} /\ Modulus(c) \in Nat \ {0}
  BY ModulusIs
<1>2. PICK m \in Nat \ {0} : Modulus(c) = m * Modulus(b)
  BY ModulusIs
<1>3. ASSUME NEW x \in Int, NEW k \in Int
      PROVE  ToUnsigned(x + k * Modulus(c), b) = ToUnsigned(x, b)
  <2>1. k * Modulus(c) = (k * m) * Modulus(b) /\ k * m \in Int
    BY <1>1, <1>2
  <2> QED BY <2>1, UnsignedIs
<1>4. ToUnsigned(n, c) \in Int /\ ToSigned(n, c) \in Int
  <2>1. ToUnsigned(n, c) \in Nat
    BY UnsignedIs
  <2>2. ToSigned(n, c) \in Int
    BY SignedIs
  <2> QED BY <2>1, <2>2
<1>5. ToUnsigned(ToSigned(n, c), b) = ToUnsigned(n, b)
  BY <1>3, SignedIs
<1>6. ToUnsigned(ToUnsigned(n, c), b) = ToUnsigned(n, b)
  <2>1. PICK k \in {0, -1} : ToSigned(n, c) = ToUnsigned(n, c) + k * Modulus(c)
    BY SignedIs
  <2> QED BY <1>3, <1>4, <1>5, <2>1
<1> QED BY <1>4, <1>5, <1>6, SignedRead

LEMMA UnityInt ==
  /\ UNITY_INT = -Half(IntBytes)..Half(IntBytes) - 1
  /\ \A k \in UNITY_INT : /\ k \in Int
                          /\ k >= 0 => k \in 0..Modulus(IntBytes) - 1
                          /\ k < 0 => ToUnsigned(-k, IntBytes) = -k
                                      /\ -k \in 0..Modulus(IntBytes) - 1
<1>1. IntBytes \in 1..IntBytes
  BY NumbersAssumption
<1>2. /\ Modulus(IntBytes) \in Nat \ {0} /\ Half(IntBytes) \in Nat \ {0}
      /\ Modulus(IntBytes) = 2 * Half(IntBytes)
  BY <1>1, ModulusIs
<1>3. UNITY_INT = -Half(IntBytes)..Half(IntBytes) - 1
  BY DEF UNITY_INT, Half
<1>4. ASSUME NEW k \in UNITY_INT
      PROVE  /\ k \in Int
             /\ k >= 0 => k \in 0..Modulus(IntBytes) - 1
             /\ k < 0 => ToUnsigned(-k, IntBytes) = -k /\ -k \in 0..Modulus(IntBytes) - 1
  <2>1. k \in Int /\ -k \in Int /\ (k >= 0 => k \in 0..Modulus(IntBytes) - 1)
        /\ (k < 0 => -k \in 0..Modulus(IntBytes) - 1)
    BY <1>2, <1>3
  <2> QED BY <1>1, <2>1, UnsignedIs
<1> QED BY <1>3, <1>4

(* A hexadecimal digit within so many bytes does not depend on the others. *)
LEMMA LowDigit ==
  ASSUME NEW b \in 1..IntBytes, NEW n \in Int, NEW j \in 0..2 * b - 1
  PROVE  (n \div 2^(NibbleBits * j)) % 2^NibbleBits
           = (ToUnsigned(n, b) \div 2^(NibbleBits * j)) % 2^NibbleBits
<1> DEFINE w == NibbleBits
           lo == w * j
           rest == Bits(b) - lo - w
           P == 2^lo
           D == 2^w
           R == 2^rest
           r == ToUnsigned(n, b)
<1>1. w \in Nat /\ b \in Nat /\ j \in Nat /\ lo \in Nat /\ rest \in Nat /\ lo + w \in Nat
      /\ (lo + w) + rest = Bits(b)
  <2>1. w \in Nat /\ b \in Nat /\ j \in Nat /\ 2 * b - 1 - j \in Nat
    BY NumbersAssumption
  <2>2. Bits(b) = w * (2 * b)
    BY <2>1 DEF Bits
  <2> HIDE DEF w
  <2>3. w * (2 * b) = w * j + w + w * (2 * b - 1 - j)
    BY <2>1
  <2>4. w * j \in Nat /\ w * (2 * b - 1 - j) \in Nat
    BY <2>1
  <2> QED BY <2>1, <2>2, <2>3, <2>4 DEF lo, rest
<1>2. Bits(b) \in Exponents /\ Bits(IntBytes) \in Nat
  BY BitsOf
<1> HIDE DEF w, lo, rest
<1>3. lo \in Exponents /\ w \in Exponents /\ rest \in Exponents /\ lo + w \in Exponents
      /\ (lo + w) + rest \in Exponents
  BY <1>1, <1>2 DEF Exponents
<1>4. Modulus(b) = (P * D) * R
  <2>1. 2^((lo + w) + rest) = 2^(lo + w) * 2^rest /\ 2^(lo + w) = 2^lo * 2^w
    BY <1>1, <1>3, PowerSum
  <2> QED BY <1>1, <2>1 DEF Modulus
<1>5. P \in Nat \ {0} /\ D \in Nat \ {0} /\ R \in Nat \ {0}
  BY <1>3, PowerNat
<1>6. PICK q \in Int : n = q * Modulus(b) + r
  BY UnsignedIs
<1>7. r \in Int
  <2>1. r \in Nat
    BY UnsignedIs
  <2> QED BY <2>1
<1> HIDE DEF P, D, R, r
<1> DEFINE s == r \div P
           k == (q * R) * D
<1>8. s \in Int /\ r % P \in 0..P - 1 /\ r = s * P + (r % P)
  BY <1>5, <1>7, Division
<1>9. k \in Int /\ q * Modulus(b) = k * P
  BY <1>4, <1>5
<1> HIDE DEF s, k
<1>10. n = (k + s) * P + (r % P) /\ k + s \in Int
  BY <1>5, <1>6, <1>8, <1>9
<1>11. n \div P = k + s
  BY <1>5, <1>8, <1>10, Remainder
<1>12. (s + (q * R) * D) % D = s % D
  <2>1. q * R \in Int
    BY <1>5
  <2> QED BY <1>5, <1>8, <2>1, Shifted
<1>13. k + s = s + (q * R) * D
  BY <1>5, <1>8, <1>9 DEF k
<1> QED BY <1>11, <1>12, <1>13 DEF P, D, r, s, lo, w

-----------------------------------------------------------------------------
(* Bits.                                                                   *)

Places == 0..Bits(IntBytes) - 1

LEMMA PlaceIs ==
  ASSUME NEW i \in Places
  PROVE  /\ i \in Nat /\ i + 1 \in Nat /\ i \in Exponents /\ i + 1 \in Exponents
         /\ 2^i \in Nat \ {0} /\ 2^(i + 1) \in Nat \ {0} /\ 2^(i + 1) = 2 * 2^i
<1>1. i \in Nat /\ i + 1 \in Nat /\ i \in Exponents /\ i + 1 \in Exponents
  BY BitsMax DEF Places, Exponents
<1>2. 2^(i + 1) = 2 * 2^i
  BY PowersAssumption DEF Places
<1> QED BY <1>1, <1>2, PowerNat

(* Dividing what is less than m away from a multiple of m.                 *)
LEMMA DividedTwice ==
  ASSUME NEW a \in Int, NEW m \in Nat \ {0}, NEW d \in Nat \ {0}, NEW c \in 0..m - 1
  PROVE  (a * m + c) \div (d * m) = a \div d
<1> DEFINE q == a \div d
           r == a % d
<1>1. q \in Int /\ r \in 0..d - 1 /\ a = q * d + r
  BY Division
<1> HIDE DEF q, r
<1>2. r * m + c \in 0..d * m - 1
  <2>1. (d - 1 - r) * m \in Nat /\ r * m \in Nat
    BY <1>1
  <2>2. d * m = (d - 1 - r) * m + r * m + m
    BY <1>1
  <2> QED BY <2>1, <2>2
<1>3. a * m + c = q * (d * m) + (r * m + c)
  BY <1>1
<1>4. d * m \in Nat \ {0} /\ a * m + c \in Int
  <2>1. (d - 1) * m \in Nat /\ d * m = (d - 1) * m + m
    OBVIOUS
  <2> QED BY <2>1
<1>5. (a * m + c) \div (d * m) = q
  BY <1>1, <1>2, <1>3, <1>4, Remainder
<1> QED BY <1>5 DEF q

LEMMA BitIs ==
  ASSUME NEW n \in Int, NEW i \in Places
  PROVE  BitOf(n, i) \in {0, 1}
<1>1. ToUnsigned(n, IntBytes) \in Int /\ 2^i \in Nat \ {0}
  <2>1. ToUnsigned(n, IntBytes) \in Nat
    BY UnsignedIs, NumbersAssumption
  <2> QED BY <2>1, PlaceIs
<1>2. ToUnsigned(n, IntBytes) \div 2^i \in Int
  BY <1>1, Division
<1> QED BY <1>2, Division DEF BitOf

(* The number with its bit i turned over.                                  *)
Flipped(n, i) == IF BitOf(n, i) = 0 THEN n + 2^i ELSE n - 2^i

(* A number has its bit i, what is above and what is below; turned over,   *)
(* the bit is the other one and the rest stays.                            *)
LEMMA FlipParts ==
  ASSUME NEW n \in Int, NEW i \in Places
  PROVE  \E a \in Nat, r \in 0..2^i - 1 :
           /\ ToUnsigned(n, IntBytes) = a * 2^(i + 1) + BitOf(n, i) * 2^i + r
           /\ ToUnsigned(Flipped(n, i), IntBytes)
                = a * 2^(i + 1) + (1 - BitOf(n, i)) * 2^i + r
<1> DEFINE P == 2^i
           M == Modulus(IntBytes)
           u == ToUnsigned(n, IntBytes)
           s == u \div P
           r == u % P
           a == s \div 2
           bit == BitOf(n, i)
           R == 2^(Bits(IntBytes) - (i + 1))
<1> HIDE DEF P, M, u
<1>1. P \in Nat \ {0} /\ 2^(i + 1) = 2 * P /\ i + 1 \in Nat /\ i + 1 <= Bits(IntBytes)
  <2>1. P \in Nat \ {0} /\ 2^(i + 1) = 2 * P
    BY PlaceIs DEF P
  <2>2. i + 1 \in Nat /\ i + 1 <= Bits(IntBytes)
    BY BitsMax DEF Places
  <2> QED BY <2>1, <2>2
<1>2. u \in 0..M - 1 /\ u \in Nat /\ u \in Int /\ M \in Nat \ {0}
  <2>1. IntBytes \in 1..IntBytes
    BY NumbersAssumption
  <2>2. u \in 0..M - 1 /\ u \in Nat
    BY <2>1, UnsignedIs DEF u, M
  <2>3. M \in Nat \ {0}
    BY <2>1, ModulusIs DEF M
  <2> QED BY <2>2, <2>3
<1>3. s \in Int /\ r \in 0..P - 1 /\ u = s * P + r
  BY <1>1, <1>2, Division
<1>4. bit = s % 2
  BY DEF BitOf, u, P
<1>5. PICK q \in Int : n = q * M + u
  BY UnsignedIs, NumbersAssumption DEF u, M
<1>6. R \in Nat \ {0} /\ M = R * (2 * P)
  <2>1. Bits(IntBytes) \in Exponents
    BY BitsMax DEF Exponents
  <2>2. R \in Nat \ {0} /\ 2^Bits(IntBytes) = R * 2^(i + 1)
    BY <1>1, <2>1, PowerDivides
  <2> QED BY <1>1, <2>2 DEF Modulus, M
<1> HIDE DEF r, R
<1>7. a \in Int /\ bit \in {0, 1} /\ s = a * 2 + bit
  <2>1. s % 2 \in 0..1 /\ a \in Int /\ s = a * 2 + (s % 2)
    BY <1>3
  <2> HIDE DEF s, a, bit
  <2> QED BY <1>4, <2>1
<1> HIDE DEF s, a, bit
<1>8. u = a * (2 * P) + bit * P + r
  BY <1>1, <1>3, <1>7
<1>9. a \in Nat /\ a <= R - 1
  <2>1. bit * P + r \in 0..2 * P - 1
    BY <1>1, <1>3, <1>7
  <2>2. CASE a < 0
    <3>1. -a - 1 \in Nat /\ 2 * P \in Nat
      BY <1>1, <1>7, <2>2
    <3>2. (-a - 1) * (2 * P) \in Nat
      BY <3>1
    <3>3. a * (2 * P) = -((-a - 1) * (2 * P)) - 2 * P
      BY <1>1, <1>7
    <3>4. u = a * (2 * P) + (bit * P + r)
      BY <1>1, <1>3, <1>7, <1>8
    <3> HIDE DEF P
    <3> QED BY <1>1, <1>2, <2>1, <3>2, <3>3, <3>4
  <2>3. CASE a > R - 1
    <3>1. a - R \in Nat /\ 2 * P \in Nat
      BY <1>1, <1>6, <1>7, <2>3
    <3>2. (a - R) * (2 * P) \in Nat
      BY <3>1
    <3>3. a * (2 * P) = (a - R) * (2 * P) + R * (2 * P)
      BY <1>1, <1>6, <1>7
    <3>4. u = a * (2 * P) + (bit * P + r)
      BY <1>1, <1>3, <1>7, <1>8
    <3> QED BY <1>1, <1>2, <1>6, <2>1, <3>2, <3>3, <3>4
  <2> QED BY <1>6, <1>7, <2>2, <2>3
<1> DEFINE v == a * (2 * P) + (1 - bit) * P + r
           turned == Flipped(n, i)
<1>10. v \in 0..M - 1
  <2>1. (1 - bit) * P + r \in 0..2 * P - 1
    BY <1>1, <1>3, <1>7
  <2>2. (R - 1 - a) * (2 * P) \in Nat /\ a * (2 * P) \in Nat
    BY <1>1, <1>6, <1>9
  <2>3. M = (R - 1 - a) * (2 * P) + a * (2 * P) + 2 * P
    BY <1>1, <1>6, <1>9
  <2> HIDE DEF v
  <2>4. v = a * (2 * P) + ((1 - bit) * P + r)
    BY <1>1, <1>3, <1>7, <1>9 DEF v
  <2> QED BY <1>1, <2>1, <2>2, <2>3, <2>4
<1>11. turned = q * M + v
  <2>1. turned = IF bit = 0 THEN n + P ELSE n - P
    BY DEF Flipped, bit, P
  <2>2. bit = 0 => v = u + P
    BY <1>1, <1>3, <1>8, <1>9
  <2>3. bit = 1 => v = u - P
    BY <1>1, <1>3, <1>8, <1>9
  <2> HIDE DEF v, turned
  <2> QED BY <1>1, <1>2, <1>5, <1>7, <2>1, <2>2, <2>3
<1>12. ToUnsigned(turned, IntBytes) = v
  <2> HIDE DEF v, turned
  <2>1. ToUnsigned(turned, IntBytes) = turned % M
    BY DEF ToUnsigned, M, Modulus
  <2>2. v \in Int /\ q * M + v \in Int
    BY <1>2, <1>10
  <2> QED BY <1>2, <1>10, <1>11, <2>1, <2>2, Remainder
<1> QED BY <1>1, <1>3, <1>8, <1>9, <1>12 DEF u, P, bit, v

(* Exactly the bit that was turned over differs.                           *)
LEMMA FlipIs ==
  ASSUME NEW n \in Int, NEW i \in Places, NEW j \in Places
  PROVE  BitOf(Flipped(n, i), j) = IF j = i THEN 1 - BitOf(n, i) ELSE BitOf(n, j)
<1> DEFINE P == 2^i
           Q == 2^j
           u == ToUnsigned(n, IntBytes)
           v == ToUnsigned(Flipped(n, i), IntBytes)
           bit == BitOf(n, i)
<1>1. PICK a \in Nat, r \in 0..P - 1 :
         u = a * 2^(i + 1) + bit * P + r /\ v = a * 2^(i + 1) + (1 - bit) * P + r
  BY FlipParts
<1>2. /\ BitOf(n, j) = (u \div Q) % 2
      /\ BitOf(Flipped(n, i), j) = (v \div Q) % 2
  BY DEF BitOf
<1>3. P \in Nat \ {0} /\ Q \in Nat \ {0} /\ 2^(i + 1) = 2 * P /\ bit \in {0, 1}
  BY PlaceIs, BitIs
<1>4. i \in Nat /\ j \in Nat /\ i + 1 \in Exponents /\ i \in Exponents /\ j \in Exponents
  BY PlaceIs
<1> HIDE DEF P, Q, u, v, bit
<1>5. CASE j = i
  <2>1. Q = P
    BY <1>5 DEF P, Q
  <2>2. v = (a * 2 + (1 - bit)) * P + r
    BY <1>1, <1>3
  <2>3. a * 2 + (1 - bit) \in Int
    BY <1>3
  <2>4. v \div P = a * 2 + (1 - bit)
    <3>1. v \in Int
      BY <1>1, <1>3
    <3> QED BY <1>1, <1>3, <2>2, <2>3, <3>1, Remainder
  <2>5. (a * 2 + (1 - bit)) % 2 = 1 - bit
    BY <1>3
  <2> QED BY <1>2, <1>5, <2>1, <2>4, <2>5 DEF bit
<1>6. CASE j < i
  <2> DEFINE E == 2^(i - (j + 1))
  <2>1. j + 1 \in Nat /\ j + 1 <= i /\ 2^(j + 1) = 2 * Q
    <3>1. 2^(j + 1) = 2 * 2^j
      BY PlaceIs
    <3> QED BY <1>4, <1>6, <3>1 DEF Q
  <2>2. E \in Nat \ {0} /\ P = E * (2 * Q)
    <3>1. E \in Nat \ {0} /\ 2^i = E * 2^(j + 1)
      BY <1>4, <2>1, PowerDivides
    <3> QED BY <2>1, <3>1 DEF P
  <2> HIDE DEF E
  <2> DEFINE s == u \div Q
             k == IF bit = 0 THEN E ELSE -E
  <2>3. u \in Int /\ v \in Int
    BY <1>1, <1>3
  <2>4. s \in Int /\ u % Q \in 0..Q - 1 /\ u = s * Q + (u % Q)
    BY <1>3, <2>3, Division
  <2>5. k \in Int /\ v = u + (k * 2) * Q
    <3>1. k \in Int
      BY <2>2
    <3>2. /\ E * (2 * Q) = (E * 2) * Q /\ (-E) * (2 * Q) = -(E * (2 * Q))
          /\ ((-E) * 2) * Q = (-E) * (2 * Q)
      BY <1>3, <2>2
    <3>3. v = IF bit = 0 THEN u + P ELSE u - P
      BY <1>1, <1>3
    <3> QED BY <1>3, <2>2, <2>3, <3>1, <3>2, <3>3
  <2> HIDE DEF s, k
  <2>6. v = (s + k * 2) * Q + (u % Q) /\ s + k * 2 \in Int
    BY <1>3, <2>4, <2>5
  <2>7. v \div Q = s + k * 2
    BY <1>3, <2>3, <2>4, <2>6, Remainder
  <2>8. (s + k * 2) % 2 = s % 2
    BY <2>4, <2>5, Shifted
  <2> QED BY <1>2, <1>6, <1>4, <2>7, <2>8 DEF s
<1>7. CASE j > i
  <2> DEFINE E == 2^(j - (i + 1))
             m == 2 * P
  <2>1. E \in Nat \ {0} /\ Q = E * m
    <3>1. i + 1 \in Nat /\ i + 1 <= j
      BY <1>4, <1>7
    <3>2. E \in Nat \ {0} /\ 2^j = E * 2^(i + 1)
      BY <1>4, <3>1, PowerDivides
    <3> QED BY <1>3, <3>2 DEF Q
  <2>2. m \in Nat \ {0} /\ bit * P + r \in 0..m - 1 /\ (1 - bit) * P + r \in 0..m - 1
    BY <1>1, <1>3
  <2>3. u = a * m + (bit * P + r) /\ v = a * m + ((1 - bit) * P + r)
    BY <1>1, <1>3
  <2> HIDE DEF E, m
  <2>4. ASSUME NEW c \in 0..m - 1 PROVE (a * m + c) \div Q = a \div E
    BY <2>1, <2>2, DividedTwice
  <2>5. u \div Q = a \div E /\ v \div Q = a \div E
    <3> DEFINE c == bit * P + r
               d == (1 - bit) * P + r
    <3>1. c \in 0..m - 1 /\ d \in 0..m - 1 /\ u = a * m + c /\ v = a * m + d
      BY <2>2, <2>3
    <3> HIDE DEF c, d
    <3> QED BY <2>4, <3>1
  <2> QED BY <1>2, <1>4, <1>7, <2>5
<1> QED BY <1>4, <1>5, <1>6, <1>7

(* Under a mask a bit that is turned over shows exactly when the mask has  *)
(* it and it is one of an int's.                                           *)
LEMMA FlipShown ==
  ASSUME NEW mask \in Int, NEW n \in Int, NEW i \in Places
  PROVE  UnityPrintMask(mask, Flipped(n, i)) # UnityPrintMask(mask, n)
           <=> BitOf(mask, i) = 1 /\ i < Bits(IntWidth)
<1> DEFINE width == Bits(IntWidth)
           m == Flipped(n, i)
           At(k, x) == IF BitOf(mask, width - k) = 0 THEN LetterX ELSE Zero + BitOf(x, width - k)
<1>1. width \in Nat /\ width <= Bits(IntBytes) /\ i \in Nat
  BY BitsOf, NumbersAssumption, PlaceIs
<1>2. UnityPrintMask(mask, m) = [k \in 1..width |-> At(k, m)]
  BY DEF UnityPrintMask
<1>3. UnityPrintMask(mask, n) = [k \in 1..width |-> At(k, n)]
  BY DEF UnityPrintMask
<1>4. BitOf(m, i) = 1 - BitOf(n, i) /\ \A j \in Places : j # i => BitOf(m, j) = BitOf(n, j)
  BY FlipIs
<1>5. ASSUME NEW k \in 1..width PROVE width - k \in Places /\ width - k \in Nat
  <2> HIDE DEF width
  <2> QED BY <1>1, BitsMax DEF Places
<1>6. \A j \in Places : BitOf(mask, j) \in {0, 1} /\ BitOf(n, j) \in {0, 1}
  BY BitIs
<1> HIDE DEF m, width
<1>7. CASE BitOf(mask, i) = 1 /\ i < width
  <2>1. width - i \in 1..width /\ width - (width - i) = i
    BY <1>1, <1>7
  <2>2. At(width - i, m) = Zero + BitOf(m, i) /\ At(width - i, n) = Zero + BitOf(n, i)
    BY <1>7, <2>1
  <2>3. Zero + BitOf(m, i) # Zero + BitOf(n, i)
    BY <1>4, <1>6 DEF Zero
  <2> HIDE DEF At
  <2> QED BY <1>2, <1>3, <1>7, <2>1, <2>2, <2>3 DEF m, width
<1>8. CASE ~(BitOf(mask, i) = 1 /\ i < width)
  <2>1. ASSUME NEW k \in 1..width PROVE At(k, m) = At(k, n)
    <3>1. CASE width - k = i
      <4>1. i < width
        BY <1>1, <3>1
      <4>2. BitOf(mask, i) = 0
        BY <1>6, <1>8, <4>1
      <4> QED BY <3>1, <4>2
    <3>2. CASE width - k # i
      BY <1>4, <1>5, <3>2
    <3> QED BY <3>1, <3>2
  <2> HIDE DEF At
  <2> QED BY <1>2, <1>3, <1>8, <2>1 DEF m, width
<1> QED BY <1>7, <1>8

-----------------------------------------------------------------------------
(* Reading digits.                                                         *)

LEMMA Joined ==
  ASSUME NEW s \in Seq(Int), NEW t \in Seq(Int)
  PROVE  s \o t = [k \in 1..Len(s) + Len(t) |-> IF k <= Len(s) THEN s[k] ELSE t[k - Len(s)]]
<1>1. s \o t \in Seq(Int) /\ Len(s \o t) = Len(s) + Len(t)
  OBVIOUS
<1>2. \A k \in 1..Len(s) + Len(t) :
        (s \o t)[k] = IF k <= Len(s) THEN s[k] ELSE t[k - Len(s)]
  OBVIOUS
<1>3. \A q \in Seq(Int) : q = [k \in 1..Len(q) |-> q[k]]
  OBVIOUS
<1>4. s \o t = [k \in 1..Len(s \o t) |-> (s \o t)[k]]
  BY <1>1, <1>3
<1> QED BY <1>1, <1>2, <1>4

ValueOf(c) == IF c >= 65 THEN c - 55 ELSE c - 48

LEMMA DigitValue ==
  ASSUME NEW d \in Nat
  PROVE  ValueOf(Digit(d)) = d /\ Digit(d) \in Int
BY DEF ValueOf, Digit, Zero

(* What a text reads as is the last of the values of its beginnings.       *)
LEMMA ReadIs ==
  ASSUME NEW s, Len(s) \in Nat, NEW base \in Int, NEW v \in [0..Len(s) -> Int], v[0] = 0,
         \A k \in 1..Len(s) : v[k] = base * v[k - 1] + ValueOf(s[k])
  PROVE  Read(s, base) = v[Len(s)]
<1> DEFINE N == Len(s)
           Step(f, k) == IF k = 0 THEN 0 ELSE base * f[k - 1] + ValueOf(s[k])
           P(f) == f = [k \in 0..N |-> Step(f, k)]
           read == CHOOSE f : P(f)
<1>1. Read(s, base) = read[N]
  BY DEF Read, ValueOf
<1>2. P(v)
  <2>1. ASSUME NEW k \in 0..N PROVE v[k] = Step(v, k)
    <3>1. k # 0 => k \in 1..N
      OBVIOUS
    <3> QED BY <3>1
  <2>2. v = [k \in 0..N |-> v[k]]
    OBVIOUS
  <2> HIDE DEF Step
  <2> QED BY <2>1, <2>2
<1>3. P(read)
  <2> HIDE DEF P
  <2> QED BY <1>2
<1>4. \A k \in 0..N : read[k] = Step(read, k)
  <2> HIDE DEF Step, read
  <2> QED BY <1>3
<1> HIDE DEF P, read
<1> DEFINE bad == {k \in 0..N : read[k] # v[k]}
<1>5. bad = {}
  <2> SUFFICES ASSUME bad # {} PROVE FALSE
    OBVIOUS
  <2>1. bad \in SUBSET Nat
    OBVIOUS
  <2>2. PICK k \in bad : \A l \in bad : k <= l
    <3> HIDE DEF bad
    <3> QED BY <2>1, LeastNat
  <2>3. k \in 0..N /\ read[k] # v[k]
    BY <2>2
  <2>4. k # 0
    <3>1. read[0] = 0
      BY <1>4
    <3> QED BY <2>3, <3>1
  <2>5. k - 1 \in 0..N /\ ~(k <= k - 1) /\ k \in 1..N
    BY <2>3, <2>4
  <2>6. read[k - 1] = v[k - 1]
    BY <2>2, <2>5
  <2>7. read[k] = base * read[k - 1] + ValueOf(s[k])
    BY <1>4, <2>3, <2>4
  <2> QED BY <2>3, <2>5, <2>6, <2>7
<1>6. read[N] = v[N]
  BY <1>5
<1> QED BY <1>1, <1>6

-----------------------------------------------------------------------------
(* Powers of ten.                                                          *)

IsTens(T) ==
  /\ T \in [Nat -> Nat \ {0}]
  /\ T[0] = 1
  /\ \A k \in Nat : T[k + 1] = 10 * T[k] /\ k < T[k]

(* The first of them, up to the exponent n.                                *)
TensTo(n, f) ==
  /\ f \in [0..n -> Nat \ {0}]
  /\ f[0] = 1
  /\ \A k \in 1..n : f[k] = 10 * f[k - 1]
  /\ \A k \in 0..n : k < f[k]

LEMMA TensToExist == \A n \in Nat : \E f : TensTo(n, f)
<1> DEFINE bad == {n \in Nat : ~ \E f : TensTo(n, f)}
<1> SUFFICES ASSUME bad # {} PROVE FALSE
  OBVIOUS
<1>1. bad \in SUBSET Nat
  OBVIOUS
<1>2. PICK n \in bad : \A l \in bad : n <= l
  <2> HIDE DEF bad
  <2> QED BY <1>1, LeastNat
<1>3. n \in Nat /\ ~ \E f : TensTo(n, f)
  BY <1>2
<1>4. CASE n = 0
  <2> DEFINE f == [k \in 0..0 |-> 1]
  <2>1. TensTo(0, f)
    BY DEF TensTo
  <2> QED BY <1>3, <1>4, <2>1
<1>5. CASE n # 0
  <2>1. n - 1 \in Nat /\ n - 1 \notin bad
    BY <1>2, <1>3, <1>5
  <2>2. PICK f : TensTo(n - 1, f)
    BY <2>1
  <2> DEFINE g == [k \in 0..n |-> IF k = n THEN 10 * f[n - 1] ELSE f[k]]
  <2>3. f[n - 1] \in Nat \ {0} /\ n - 1 < f[n - 1]
    BY <2>1, <2>2 DEF TensTo
  <2>4. ASSUME NEW k \in 0..n - 1 PROVE g[k] = f[k] /\ k \in 0..n
    BY <1>3
  <2>5. g[n] = 10 * f[n - 1]
    BY <1>3
  <2>6. g \in [0..n -> Nat \ {0}]
    <3>1. ASSUME NEW k \in 0..n PROVE (IF k = n THEN 10 * f[n - 1] ELSE f[k]) \in Nat \ {0}
      <4>1. k # n => k \in 0..n - 1
        BY <1>3
      <4>2. k # n => f[k] \in Nat \ {0}
        BY <2>2, <4>1 DEF TensTo
      <4>3. 10 * f[n - 1] \in Nat \ {0}
        BY <2>3
      <4> QED BY <4>2, <4>3
    <3> QED BY <3>1
  <2> HIDE DEF g
  <2>7. g[0] = 1
    BY <1>3, <1>5, <2>2, <2>4 DEF TensTo
  <2>8. ASSUME NEW k \in 1..n PROVE g[k] = 10 * g[k - 1]
    <3>1. k - 1 \in 0..n - 1 /\ (k # n => k \in 0..n - 1 /\ k \in 1..n - 1)
      BY <1>3
    <3> QED BY <2>2, <2>4, <2>5, <3>1 DEF TensTo
  <2>9. ASSUME NEW k \in 0..n PROVE k < g[k]
    <3>1. k # n => k \in 0..n - 1
      BY <1>3
    <3>2. k # n => k < f[k]
      BY <2>2, <3>1 DEF TensTo
    <3>3. n < g[n]
      BY <1>3, <2>3, <2>5
    <3> QED BY <2>4, <3>1, <3>2, <3>3
  <2>10. TensTo(n, g)
    BY <2>6, <2>7, <2>8, <2>9 DEF TensTo
  <2> QED BY <1>3, <2>10
<1> QED BY <1>4, <1>5

LEMMA TensAgree ==
  ASSUME NEW m \in Nat, NEW n \in Nat, m <= n, NEW f, NEW g, TensTo(m, f), TensTo(n, g)
  PROVE  \A k \in 0..m : f[k] = g[k]
<1> DEFINE bad == {k \in 0..m : f[k] # g[k]}
<1> SUFFICES ASSUME bad # {} PROVE FALSE
  OBVIOUS
<1>1. bad \in SUBSET Nat
  OBVIOUS
<1>2. PICK k \in bad : \A l \in bad : k <= l
  <2> HIDE DEF bad
  <2> QED BY <1>1, LeastNat
<1>3. k \in 0..m /\ f[k] # g[k]
  BY <1>2
<1>4. k # 0
  BY <1>3 DEF TensTo
<1>5. k - 1 \in 0..m /\ k \in 1..m /\ k \in 1..n /\ ~(k <= k - 1)
  BY <1>3, <1>4
<1>6. f[k - 1] = g[k - 1]
  BY <1>2, <1>5
<1> QED BY <1>3, <1>5, <1>6 DEF TensTo

LEMMA TensExist == \E T : IsTens(T)
<1> DEFINE F(n) == CHOOSE f : TensTo(n, f)
           T == [k \in Nat |-> F(k)[k]]
<1>1. ASSUME NEW n \in Nat PROVE TensTo(n, F(n))
  BY TensToExist
<1> HIDE DEF F
<1>2. ASSUME NEW k \in Nat
      PROVE  /\ T[k] = F(k)[k] /\ T[k] \in Nat \ {0} /\ k < T[k]
             /\ T[k + 1] = 10 * T[k]
  <2>1. T[k] = F(k)[k] /\ T[k + 1] = F(k + 1)[k + 1]
    OBVIOUS
  <2>2. TensTo(k, F(k)) /\ TensTo(k + 1, F(k + 1))
    BY <1>1
  <2>3. F(k)[k] = F(k + 1)[k]
    BY <2>2, TensAgree
  <2>4. F(k)[k] \in Nat \ {0} /\ k < F(k)[k]
    BY <2>2 DEF TensTo
  <2>5. F(k + 1)[k + 1] = 10 * F(k + 1)[(k + 1) - 1] /\ (k + 1) - 1 = k
    BY <2>2 DEF TensTo
  <2> HIDE DEF T
  <2> QED BY <2>1, <2>3, <2>4, <2>5
<1>3. T[0] = 1
  BY <1>1 DEF TensTo
<1>4. T \in [Nat -> Nat \ {0}]
  <2>1. T = [k \in Nat |-> T[k]]
    OBVIOUS
  <2> HIDE DEF T
  <2> QED BY <1>2, <2>1
<1> HIDE DEF T
<1>5. IsTens(T)
  BY <1>2, <1>3, <1>4 DEF IsTens
<1> QED BY <1>5

LEMMA TensAre ==
  ASSUME NEW T, IsTens(T), NEW k \in Nat
  PROVE  /\ T[k] \in Nat \ {0} /\ T[k + 1] \in Nat \ {0} /\ T[k + 1] = 10 * T[k]
         /\ k < T[k] /\ T[0] = 1
         /\ k # 0 => k - 1 \in Nat /\ T[k - 1] \in Nat \ {0} /\ T[k] = 10 * T[k - 1]
<1>1. k + 1 \in Nat /\ (k # 0 => k - 1 \in Nat /\ (k - 1) + 1 = k)
  OBVIOUS
<1> QED BY <1>1 DEF IsTens

-----------------------------------------------------------------------------
(* The digits of a number.                                                 *)

LEMMA Quotient ==
  ASSUME NEW n \in Nat, NEW d \in Nat \ {0}
  PROVE  /\ n \div d \in Nat /\ n % d \in 0..d - 1 /\ n = (n \div d) * d + (n % d)
         /\ \A m \in Nat : n \div d < m <=> n < m * d
<1>1. n \div d \in Int /\ n % d \in 0..d - 1 /\ n = (n \div d) * d + (n % d)
  BY Division
<1> DEFINE q == n \div d
           r == n % d
<1> HIDE DEF q, r
<1>2. q \in Int /\ r \in 0..d - 1 /\ n = q * d + r
  BY <1>1 DEF q, r
<1>3. q \in Nat
  <2> SUFFICES ASSUME q < 0 PROVE FALSE
    BY <1>2
  <2>1. (-q - 1) * d \in Nat /\ q * d = -((-q - 1) * d) - d
    BY <1>2
  <2> QED BY <1>2, <2>1
<1>4. ASSUME NEW m \in Nat PROVE q < m <=> n < m * d
  <2>1. CASE q < m
    <3>1. (m - 1 - q) * d \in Nat /\ m * d = (m - 1 - q) * d + q * d + d
      BY <1>2, <1>3, <2>1
    <3>2. q * d \in Nat
      BY <1>3
    <3> QED BY <1>2, <2>1, <3>1, <3>2
  <2>2. CASE ~(q < m)
    <3>1. (q - m) * d \in Nat /\ q * d = (q - m) * d + m * d /\ m * d \in Nat
      BY <1>2, <1>3, <2>2
    <3> QED BY <1>2, <2>2, <3>1
  <2> QED BY <2>1, <2>2
<1> QED BY <1>2, <1>3, <1>4 DEF q, r

(* Dividing by ten and then by d is dividing by 10 * d.                    *)
LEMMA DividedByTen ==
  ASSUME NEW n \in Nat, NEW d \in Nat \ {0}
  PROVE  /\ 10 * d \in Nat \ {0}
         /\ (n \div 10) \div d = n \div (10 * d)
         /\ (n \div d) \div 10 = n \div (10 * d)
         /\ n \div d = 10 * (n \div (10 * d)) + ((n \div d) % 10)
<1>1. 10 * d \in Nat \ {0} /\ 10 * d = d * 10
  OBVIOUS
<1>2. n \div 10 \in Nat /\ n % 10 \in 0..10 - 1 /\ n = (n \div 10) * 10 + (n % 10)
  BY Quotient
<1>3. n \div d \in Nat /\ n % d \in 0..d - 1 /\ n = (n \div d) * d + (n % d)
  BY Quotient
<1> DEFINE a == n \div 10
           c == n % 10
           e == n \div d
           r == n % d
<1> HIDE DEF a, c, e, r
<1>4. (a * 10 + c) \div (d * 10) = a \div d
  <2>1. a \in Int /\ c \in 0..10 - 1 /\ 10 \in Nat \ {0}
    BY <1>2 DEF a, c
  <2> QED BY <2>1, DividedTwice
<1>5. (e * d + r) \div (10 * d) = e \div 10
  <2>1. e \in Int /\ r \in 0..d - 1 /\ 10 \in Nat \ {0}
    BY <1>3 DEF e, r
  <2> QED BY <2>1, DividedTwice
<1>6. n = a * 10 + c /\ n = e * d + r /\ e \in Nat
  BY <1>2, <1>3 DEF a, c, e, r
<1>7. a \div d = n \div (10 * d) /\ e \div 10 = n \div (10 * d)
  BY <1>1, <1>4, <1>5, <1>6
<1>8. e = 10 * (e \div 10) + (e % 10)
  <2>1. e = (e \div 10) * 10 + (e % 10) /\ e \div 10 \in Nat
    <3>1. e \in Nat /\ 10 \in Nat \ {0}
      BY <1>6
    <3> QED BY <3>1, Quotient
  <2> QED BY <2>1
<1> QED BY <1>1, <1>7, <1>8 DEF a, e

(* The two loops of UnityPrintNumberUnsigned: the divisor of the first     *)
(* digit, and the digits from a divisor on.                                *)
DivisorStep(n, f, d) == IF n \div d > 9 THEN f[ToUnsigned(d * 10, IntBytes)] ELSE d

DigitsStep(n, f, d) == IF d = 0 THEN <<>> ELSE <<Digit((n \div d) % 10)>> \o f[d \div 10]

DivisorLoop(n) == CHOOSE f : f = [d \in Nat |-> DivisorStep(n, f, d)]

DigitsLoop(n) == CHOOSE f : f = [d \in Nat |-> DigitsStep(n, f, d)]

LEMMA PrintIs ==
  ASSUME NEW n
  PROVE  UnityPrintNumberUnsigned(n) = DigitsLoop(n)[DivisorLoop(n)[1]]
BY DEF UnityPrintNumberUnsigned, DigitsLoop, DivisorLoop, DivisorStep, DigitsStep

(* How often d is to be multiplied by ten until one digit is left.         *)
LoopTurns(n, T, d) ==
  CHOOSE k \in Nat : n \div (d * T[k]) <= 9 /\ \A j \in 0..k - 1 : n \div (d * T[j]) > 9

LEMMA LoopTurnsIs ==
  ASSUME NEW n \in Nat, NEW T, IsTens(T), NEW d \in Nat \ {0}
  PROVE  /\ LoopTurns(n, T, d) \in Nat
         /\ n \div (d * T[LoopTurns(n, T, d)]) <= 9
         /\ \A j \in 0..LoopTurns(n, T, d) - 1 : n \div (d * T[j]) > 9
         /\ \A k \in Nat :
              (n \div (d * T[k]) <= 9 /\ \A j \in 0..k - 1 : n \div (d * T[j]) > 9)
                => k = LoopTurns(n, T, d)
<1> DEFINE S == {k \in Nat : n \div (d * T[k]) <= 9}
           First(k) == n \div (d * T[k]) <= 9 /\ \A j \in 0..k - 1 : n \div (d * T[j]) > 9
           t == LoopTurns(n, T, d)
<1>1. ASSUME NEW k \in Nat PROVE d * T[k] \in Nat \ {0} /\ n \div (d * T[k]) \in Nat
  <2>1. T[k] \in Nat \ {0}
    BY TensAre
  <2>2. (d - 1) * T[k] \in Nat /\ d * T[k] = (d - 1) * T[k] + T[k]
    BY <2>1
  <2>3. d * T[k] \in Nat \ {0}
    BY <2>1, <2>2
  <2> QED BY <2>3, Quotient
<1>2. n \in S
  <2>1. T[n] \in Nat \ {0} /\ n < T[n]
    BY TensAre
  <2>2. (d - 1) * T[n] \in Nat /\ d * T[n] = (d - 1) * T[n] + T[n]
    BY <2>1
  <2>3. n < 1 * (d * T[n])
    BY <2>1, <2>2
  <2>4. n \div (d * T[n]) < 1
    BY <1>1, <2>3, Quotient
  <2>5. n \div (d * T[n]) <= 9
    BY <1>1, <2>4
  <2> QED BY <2>5
<1>3. PICK k \in S : \A l \in S : k <= l
  <2>1. S \in SUBSET Nat
    OBVIOUS
  <2> HIDE DEF S
  <2> QED BY <1>2, <2>1, LeastNat
<1>4. k \in Nat /\ First(k)
  <2>1. ASSUME NEW j \in 0..k - 1 PROVE n \div (d * T[j]) > 9
    <3>1. j \in Nat /\ ~(k <= j)
      BY <1>3
    <3>2. j \notin S
      BY <1>3, <3>1
    <3> QED BY <1>1, <3>1, <3>2
  <2> QED BY <1>3, <2>1
<1>5. t \in Nat /\ First(t)
  <2>1. t = CHOOSE l \in Nat : First(l)
    BY DEF LoopTurns
  <2> HIDE DEF First, t
  <2> QED BY <1>4, <2>1
<1>6. ASSUME NEW l \in Nat, First(l) PROVE l = t
  <2>1. ASSUME l < t PROVE FALSE
    <3>1. l \in 0..t - 1
      BY <1>5, <2>1
    <3> QED BY <1>1, <1>5, <1>6, <3>1
  <2>2. ASSUME t < l PROVE FALSE
    <3>1. t \in 0..l - 1
      BY <1>5, <2>2
    <3> QED BY <1>1, <1>5, <1>6, <3>1
  <2> HIDE DEF t, First
  <2> QED BY <1>5, <2>1, <2>2
<1> QED BY <1>5, <1>6

LEMMA ConcatOne ==
  ASSUME NEW S, NEW a \in S, NEW n \in Nat, NEW t \in [1..n -> S]
  PROVE  <<a>> \o t = [i \in 1..n + 1 |-> IF i = 1 THEN a ELSE t[i - 1]]
<1>1. t \in Seq(S) /\ Len(t) = n /\ <<a>> \in Seq(S) /\ Len(<<a>>) = 1
  OBVIOUS
<1> DEFINE q == <<a>> \o t
           r == [i \in 1..n + 1 |-> IF i = 1 THEN a ELSE t[i - 1]]
<1>2. q \in Seq(S) /\ Len(q) = n + 1
  BY <1>1
<1>3. \A i \in 1..n + 1 : q[i] = IF i = 1 THEN a ELSE t[i - 1]
  BY <1>1
<1>4. q = [i \in 1..n + 1 |-> q[i]]
  <2> HIDE DEF q
  <2> QED BY <1>2
<1> HIDE DEF q
<1>5. q = r
  BY <1>3, <1>4
<1> QED BY <1>5 DEF q

(* The first loop ends, at the greatest power of ten there is in n.        *)
LEMMA DivisorIs ==
  ASSUME NEW n \in 0..Modulus(IntBytes) - 1, NEW T, IsTens(T)
  PROVE  \E k \in Nat : /\ DivisorLoop(n)[1] = T[k]
                        /\ n < T[k + 1] /\ (k # 0 => T[k] <= n)
<1> DEFINE P(f) == f = [d \in Nat |-> DivisorStep(n, f, d)]
           F == [d \in Nat |-> IF d = 0 THEN 0 ELSE d * T[LoopTurns(n, T, d)]]
           loop == DivisorLoop(n)
<1>1. n \in Nat /\ IntBytes \in 1..IntBytes /\ Modulus(IntBytes) \in Nat \ {0}
  BY NumbersAssumption, ModulusIs
<1>2. ASSUME NEW d \in Nat \ {0}, n \div d > 9
      PROVE  ToUnsigned(d * 10, IntBytes) = 10 * d /\ 10 * d \in Nat \ {0} /\ 10 * d <= n
  <2>1. ~(n < 10 * d)
    <3>1. n \div d \in Nat /\ ~(n \div d < 10)
      BY <1>1, <1>2, Quotient
    <3>2. 10 \in Nat
      OBVIOUS
    <3> QED BY <1>1, <3>1, <3>2, Quotient
  <2>2. d * 10 \in 0..Modulus(IntBytes) - 1 /\ d * 10 = 10 * d /\ d * 10 \in Int
    BY <1>1, <2>1
  <2>3. ToUnsigned(d * 10, IntBytes) = d * 10
    BY <1>1, <2>2, UnsignedIs
  <2> QED BY <1>1, <2>1, <2>2, <2>3
<1>3. ASSUME NEW d \in Nat PROVE F[d] = DivisorStep(n, F, d)
  <2>1. CASE d = 0
    <3>1. ToUnsigned(0 * 10, IntBytes) = 0
      <4>1. 0 * 10 = 0 /\ 0 \in Int /\ 0 \in 0..Modulus(IntBytes) - 1
        BY <1>1
      <4> HIDE DEF F
      <4> QED BY <1>1, <4>1, UnsignedIs
    <3>2. F[0] = 0
      OBVIOUS
    <3> HIDE DEF F
    <3> QED BY <2>1, <3>1, <3>2 DEF DivisorStep
  <2>2. CASE d # 0 /\ n \div d <= 9
    <3>1. T[0] = 1 /\ d * 1 = d
      BY TensAre
    <3>2. n \div (d * T[0]) <= 9 /\ \A j \in 0..0 - 1 : n \div (d * T[j]) > 9
      BY <2>2, <3>1
    <3>3. LoopTurns(n, T, d) = 0
      BY <1>1, <2>2, <3>2, LoopTurnsIs
    <3>4. F[d] = d
      BY <2>2, <3>1, <3>3
    <3>5. ~(n \div d > 9)
      <4>1. n \div d \in Nat
        BY <1>1, <2>2, Quotient
      <4> QED BY <2>2, <4>1
    <3> HIDE DEF F
    <3> QED BY <3>4, <3>5 DEF DivisorStep
  <2>3. CASE d # 0 /\ n \div d > 9
    <3> DEFINE e == 10 * d
               k == LoopTurns(n, T, e)
    <3>1. ToUnsigned(d * 10, IntBytes) = e /\ e \in Nat \ {0}
      BY <1>2, <2>3
    <3> HIDE DEF e
    <3>2. /\ k \in Nat /\ n \div (e * T[k]) <= 9
          /\ \A j \in 0..k - 1 : n \div (e * T[j]) > 9
      BY <1>1, <3>1, LoopTurnsIs
    <3> HIDE DEF k
    <3>3. ASSUME NEW j \in Nat PROVE d * T[j + 1] = e * T[j]
      <4>1. T[j] \in Nat /\ T[j + 1] = 10 * T[j]
        BY TensAre
      <4>2. \A x, y \in Nat : x * (10 * y) = (10 * x) * y
        OBVIOUS
      <4> QED BY <4>1, <4>2 DEF e
    <3>4. n \div (d * T[k + 1]) <= 9 /\ k + 1 \in Nat
      BY <3>2, <3>3
    <3>5. ASSUME NEW j \in 0..(k + 1) - 1 PROVE n \div (d * T[j]) > 9
      <4>1. CASE j = 0
        <5>1. T[0] = 1 /\ d * 1 = d
          BY TensAre
        <5> QED BY <2>3, <4>1, <5>1
      <4>2. CASE j # 0
        <5>1. j - 1 \in 0..k - 1 /\ j - 1 \in Nat /\ (j - 1) + 1 = j
          BY <3>2, <4>2
        <5>2. d * T[j] = e * T[j - 1]
          BY <3>3, <5>1
        <5> QED BY <3>2, <5>1, <5>2
      <4> QED BY <4>1, <4>2
    <3>6. LoopTurns(n, T, d) = k + 1
      BY <1>1, <2>3, <3>4, <3>5, LoopTurnsIs
    <3>7. F[d] = d * T[k + 1] /\ F[e] = e * T[k]
      BY <2>3, <3>1, <3>6 DEF k
    <3> HIDE DEF F
    <3> QED BY <2>3, <3>1, <3>2, <3>3, <3>7 DEF DivisorStep
  <2>4. d # 0 => n \div d \in Nat
    BY <1>1, Quotient
  <2> QED BY <2>1, <2>2, <2>3, <2>4
<1>4. P(F)
  <2>1. F = [d \in Nat |-> F[d]]
    OBVIOUS
  <2> HIDE DEF F
  <2> QED BY <1>3, <2>1
<1>5. P(loop)
  <2>1. loop = CHOOSE f : P(f)
    BY DEF DivisorLoop
  <2> HIDE DEF P, loop
  <2> QED BY <1>4, <2>1
<1>6. \A d \in Nat : loop[d] = DivisorStep(n, loop, d)
  <2> HIDE DEF loop
  <2> QED BY <1>5
<1> HIDE DEF P, loop, F
<1> DEFINE k == LoopTurns(n, T, 1)
<1>7. k \in Nat /\ n \div T[k] <= 9 /\ \A j \in 0..k - 1 : n \div T[j] > 9
  <2>1. /\ k \in Nat /\ n \div (1 * T[k]) <= 9
        /\ \A j \in 0..k - 1 : n \div (1 * T[j]) > 9
    <3>1. 1 \in Nat \ {0}
      OBVIOUS
    <3> QED BY <1>1, <3>1, LoopTurnsIs
  <2> HIDE DEF k
  <2>2. \A j \in Nat : 1 * T[j] = T[j]
    <3>1. \A j \in Nat : T[j] \in Nat
      BY TensAre
    <3> QED BY <3>1
  <2> QED BY <2>1, <2>2
<1> HIDE DEF k
<1> DEFINE bad == {j \in 0..k : loop[T[k - j]] # T[k]}
<1>8. bad = {}
  <2> SUFFICES ASSUME bad # {} PROVE FALSE
    OBVIOUS
  <2>1. bad \in SUBSET Nat
    BY <1>7
  <2>2. PICK j \in bad : \A l \in bad : j <= l
    <3> HIDE DEF bad
    <3> QED BY <2>1, LeastNat
  <2>3. j \in 0..k /\ loop[T[k - j]] # T[k] /\ k - j \in Nat
    BY <1>7, <2>2
  <2>4. CASE j = 0
    <3>1. k - 0 = k /\ T[k] \in Nat \ {0}
      BY <1>7, TensAre
    <3>2. n \div T[k] \in Nat
      BY <1>1, <3>1, Quotient
    <3>3. ~(n \div T[k] > 9)
      BY <1>7, <3>2
    <3>4. loop[T[k]] = T[k]
      BY <1>6, <3>1, <3>3 DEF DivisorStep
    <3> QED BY <2>3, <2>4, <3>1, <3>4
  <2>5. CASE j # 0
    <3> DEFINE i == k - j
    <3>1. i \in Nat /\ i \in 0..k - 1 /\ k - (j - 1) = i + 1 /\ j - 1 \in 0..k /\ ~(j <= j - 1)
      BY <1>7, <2>3, <2>5
    <3>2. loop[T[k - (j - 1)]] = T[k]
      BY <2>2, <3>1
    <3> HIDE DEF i
    <3>3. T[i] \in Nat \ {0} /\ T[i + 1] = 10 * T[i] /\ n \div T[i] > 9
      BY <1>7, <3>1, TensAre
    <3>4. ToUnsigned(T[i] * 10, IntBytes) = T[i + 1]
      BY <1>2, <3>3
    <3>5. loop[T[i]] = loop[T[i + 1]]
      BY <1>6, <3>3, <3>4 DEF DivisorStep
    <3> QED BY <2>3, <3>1, <3>2, <3>5 DEF i
  <2> QED BY <2>4, <2>5
<1>9. loop[1] = T[k]
  <2>1. k \in 0..k /\ k - k = 0 /\ T[0] = 1
    BY <1>7, TensAre
  <2>2. loop[T[k - k]] = T[k]
    BY <1>8, <2>1
  <2> QED BY <2>1, <2>2
<1>10. n < T[k + 1]
  <2>1. T[k] \in Nat \ {0} /\ T[k + 1] = 10 * T[k]
    BY <1>7, TensAre
  <2>2. n \div T[k] < 10
    <3>1. n \div T[k] \in Nat
      BY <1>1, <2>1, Quotient
    <3> QED BY <1>7, <3>1
  <2>3. n < 10 * T[k]
    BY <1>1, <2>1, <2>2, Quotient
  <2> QED BY <2>1, <2>3
<1>11. ASSUME k # 0 PROVE T[k] <= n
  <2>1. k - 1 \in 0..k - 1 /\ T[k - 1] \in Nat \ {0} /\ T[k] = 10 * T[k - 1]
    BY <1>7, <1>11, TensAre
  <2>2. n \div T[k - 1] > 9
    BY <1>7, <2>1
  <2>3. 10 * T[k - 1] <= n
    BY <1>2, <2>1, <2>2
  <2> QED BY <2>1, <2>3
<1> QED BY <1>7, <1>9, <1>10, <1>11 DEF loop

(* How many digits a number has.                                           *)
DigitCount(T, d) == CHOOSE k \in Nat : d < T[k] /\ \A j \in 0..k - 1 : T[j] <= d

LEMMA DigitCountIs ==
  ASSUME NEW T, IsTens(T), NEW d \in Nat
  PROVE  /\ DigitCount(T, d) \in Nat /\ d < T[DigitCount(T, d)]
         /\ \A j \in 0..DigitCount(T, d) - 1 : T[j] <= d
         /\ \A k \in Nat : (d < T[k] /\ \A j \in 0..k - 1 : T[j] <= d) => k = DigitCount(T, d)
<1> DEFINE S == {k \in Nat : d < T[k]}
           First(k) == d < T[k] /\ \A j \in 0..k - 1 : T[j] <= d
           t == DigitCount(T, d)
<1>1. \A k \in Nat : T[k] \in Nat /\ k < T[k]
  BY TensAre
<1>2. PICK k \in S : \A l \in S : k <= l
  <2>1. S \in SUBSET Nat /\ d \in S
    BY <1>1
  <2> HIDE DEF S
  <2> QED BY <2>1, LeastNat
<1>3. k \in Nat /\ First(k)
  <2>1. ASSUME NEW j \in 0..k - 1 PROVE T[j] <= d
    <3>1. j \in Nat /\ ~(k <= j)
      BY <1>2
    <3>2. j \notin S
      BY <1>2, <3>1
    <3> QED BY <1>1, <3>1, <3>2
  <2> QED BY <1>2, <2>1
<1>4. t \in Nat /\ First(t)
  <2>1. t = CHOOSE l \in Nat : First(l)
    BY DEF DigitCount
  <2> HIDE DEF First, t
  <2> QED BY <1>3, <2>1
<1>5. ASSUME NEW l \in Nat, First(l) PROVE l = t
  <2>1. ASSUME l < t PROVE FALSE
    <3>1. l \in 0..t - 1
      BY <1>4, <2>1
    <3> QED BY <1>1, <1>4, <1>5, <3>1
  <2>2. ASSUME t < l PROVE FALSE
    <3>1. t \in 0..l - 1
      BY <1>4, <2>2
    <3> QED BY <1>1, <1>4, <1>5, <3>1
  <2> HIDE DEF t, First
  <2> QED BY <1>4, <2>1, <2>2
<1> QED BY <1>4, <1>5

(* The second loop ends for every divisor; from a power of ten on it gives *)
(* the digit at each of the places below.                                  *)
LEMMA DigitsAre ==
  ASSUME NEW n \in Nat, NEW T, IsTens(T), NEW k \in Nat
  PROVE  DigitsLoop(n)[T[k]] = [i \in 1..k + 1 |-> Digit((n \div T[k + 1 - i]) % 10)]
<1> DEFINE P(f) == f = [d \in Nat |-> DigitsStep(n, f, d)]
           At(d, i) == Digit((n \div (d \div T[i - 1])) % 10)
           G == [d \in Nat |-> [i \in 1..DigitCount(T, d) |-> At(d, i)]]
           loop == DigitsLoop(n)
<1>1. ASSUME NEW d \in Nat \ {0} PROVE Digit((n \div d) % 10) \in Int
  <2>1. n \div d \in Nat
    BY Quotient
  <2>2. (n \div d) % 10 \in Nat
    BY <2>1
  <2> QED BY <2>2, DigitValue
<1>2. ASSUME NEW d \in Nat, NEW i \in 1..DigitCount(T, d)
      PROVE  d \div T[i - 1] \in Nat \ {0} /\ At(d, i) \in Int
  <2>1. DigitCount(T, d) \in Nat /\ \A j \in 0..DigitCount(T, d) - 1 : T[j] <= d
    BY DigitCountIs
  <2>2. i - 1 \in Nat /\ i - 1 \in 0..DigitCount(T, d) - 1
    BY <2>1
  <2>3. T[i - 1] \in Nat \ {0} /\ T[i - 1] <= d
    BY <2>1, <2>2, TensAre
  <2>4. d \div T[i - 1] \in Nat /\ ~(d \div T[i - 1] < 1)
    <3>1. ~(d < 1 * T[i - 1])
      BY <2>3
    <3> QED BY <2>3, <3>1, Quotient
  <2>5. d \div T[i - 1] \in Nat \ {0}
    BY <2>4
  <2> QED BY <1>1, <2>5
<1>3. ASSUME NEW d \in Nat PROVE G[d] = DigitsStep(n, G, d)
  <2>1. CASE d = 0
    <3>1. DigitCount(T, 0) = 0
      <4>1. T[0] = 1
        BY TensAre
      <4>2. 0 < T[0] /\ \A j \in 0..0 - 1 : T[j] <= 0
        BY <4>1
      <4> QED BY <2>1, <4>2, DigitCountIs
    <3>2. G[0] = [i \in 1..0 |-> At(0, i)]
      BY <2>1, <3>1
    <3>3. G[0] = <<>>
      <4> HIDE DEF At, G
      <4> QED BY <3>2
    <3> HIDE DEF G
    <3> QED BY <2>1, <3>3 DEF DigitsStep
  <2>2. CASE d # 0
    <3> DEFINE e == d \div 10
               c == DigitCount(T, e)
    <3>1. e \in Nat
      <4>1. 10 \in Nat \ {0}
        OBVIOUS
      <4> QED BY <4>1, Quotient
    <3> HIDE DEF e
    <3>2. c \in Nat /\ e < T[c] /\ \A j \in 0..c - 1 : T[j] <= e
      BY <3>1, DigitCountIs
    <3> HIDE DEF c
    <3>3. ASSUME NEW j \in Nat
          PROVE  /\ e < T[j] <=> d < T[j + 1]
                 /\ T[j] \in Nat /\ T[j + 1] \in Nat
                 /\ e \div T[j] = d \div T[j + 1]
      <4>1. T[j] \in Nat \ {0} /\ T[j + 1] = 10 * T[j]
        BY TensAre
      <4>2. e \div T[j] = d \div T[j + 1]
        BY <4>1, DividedByTen DEF e
      <4>3. e < T[j] <=> d < T[j] * 10
        <5>1. 10 \in Nat \ {0} /\ T[j] \in Nat
          BY <4>1
        <5> QED BY <5>1, Quotient DEF e
      <4> QED BY <4>1, <4>2, <4>3
    <3>4. d < T[c + 1] /\ c + 1 \in Nat
      BY <3>2, <3>3
    <3>5. ASSUME NEW j \in 0..(c + 1) - 1 PROVE T[j] <= d
      <4>1. CASE j = 0
        BY <2>2, <4>1, TensAre
      <4>2. CASE j # 0
        <5>1. j - 1 \in Nat /\ j - 1 \in 0..c - 1 /\ (j - 1) + 1 = j
          BY <3>2, <4>2
        <5>2. T[j - 1] <= e
          BY <3>2, <5>1
        <5>3. ~(e < T[j - 1])
          BY <3>1, <3>3, <5>1, <5>2
        <5>4. ~(d < T[j]) /\ T[j] \in Nat
          BY <3>3, <5>1, <5>3
        <5> QED BY <5>4
      <4> QED BY <4>1, <4>2
    <3>6. DigitCount(T, d) = c + 1
      BY <3>4, <3>5, DigitCountIs
    <3>7. G[d] = [i \in 1..c + 1 |-> At(d, i)] /\ G[e] = [i \in 1..c |-> At(e, i)]
      BY <3>1, <3>6 DEF c
    <3>8. At(d, 1) = Digit((n \div d) % 10)
      <4>1. T[1 - 1] = 1
        BY TensAre
      <4>2. d \div T[1 - 1] = d
        BY <4>1
      <4> QED BY <4>2
    <3>9. ASSUME NEW i \in 2..c + 1 PROVE At(d, i) = At(e, i - 1)
      <4>1. (i - 1) - 1 \in Nat /\ ((i - 1) - 1) + 1 = i - 1
        BY <3>2
      <4>2. e \div T[(i - 1) - 1] = d \div T[i - 1]
        BY <3>3, <4>1
      <4> QED BY <4>2
    <3>10. ASSUME NEW i \in 1..c PROVE At(e, i) \in Int
      BY <1>2, <3>1 DEF c
    <3>11. At(d, 1) \in Int
      BY <1>1, <2>2, <3>8
    <3> HIDE DEF At, G
    <3>12. G[e] \in [1..c -> Int]
      BY <3>7, <3>10
    <3>13. <<At(d, 1)>> \o G[e] = [i \in 1..c + 1 |-> IF i = 1 THEN At(d, 1) ELSE G[e][i - 1]]
      BY <3>2, <3>11, <3>12, ConcatOne
    <3>14. ASSUME NEW i \in 1..c + 1 PROVE At(d, i) = IF i = 1 THEN At(d, 1) ELSE G[e][i - 1]
      <4>1. i # 1 => i \in 2..c + 1 /\ i - 1 \in 1..c
        BY <3>2
      <4> QED BY <3>7, <3>9, <4>1
    <3>15. G[d] = <<At(d, 1)>> \o G[e]
      BY <3>7, <3>13, <3>14
    <3> QED BY <2>2, <3>8, <3>15 DEF DigitsStep, e
  <2> QED BY <2>1, <2>2
<1>4. P(G)
  <2>1. G = [d \in Nat |-> G[d]]
    OBVIOUS
  <2> HIDE DEF G
  <2> QED BY <1>3, <2>1
<1>5. P(loop)
  <2>1. loop = CHOOSE f : P(f)
    BY DEF DigitsLoop
  <2> HIDE DEF P, loop
  <2> QED BY <1>4, <2>1
<1>6. \A d \in Nat : loop[d] = DigitsStep(n, loop, d)
  <2> HIDE DEF loop
  <2> QED BY <1>5
<1> HIDE DEF P, loop, G
<1> DEFINE Text(l) == [i \in 1..l + 1 |-> Digit((n \div T[l + 1 - i]) % 10)]
           bad == {l \in Nat : loop[T[l]] # Text(l)}
<1>7. bad = {}
  <2> SUFFICES ASSUME bad # {} PROVE FALSE
    OBVIOUS
  <2>1. bad \in SUBSET Nat
    OBVIOUS
  <2>2. PICK l \in bad : \A j \in bad : l <= j
    <3> HIDE DEF bad
    <3> QED BY <2>1, LeastNat
  <2>3. l \in Nat /\ loop[T[l]] # Text(l)
    BY <2>2
  <2> DEFINE first == Digit((n \div T[l]) % 10)
  <2>4. T[l] \in Nat \ {0}
    BY <2>3, TensAre
  <2>5. loop[T[l]] = <<first>> \o loop[T[l] \div 10] /\ first \in Int
    BY <1>1, <1>6, <2>4 DEF DigitsStep
  <2>6. CASE l = 0
    <3>1. T[l] \div 10 = 0
      <4>1. T[l] = 1
        BY <2>6, TensAre
      <4> QED BY <4>1
    <3>2. loop[0] = <<>>
      BY <1>6 DEF DigitsStep
    <3>3. loop[T[l]] = <<first>>
      <4> HIDE DEF first
      <4>1. <<first>> \o <<>> = <<first>>
        BY <2>5
      <4> QED BY <2>5, <3>1, <3>2, <4>1
    <3>4. Text(l) = <<first>>
      <4>1. l + 1 = 1 /\ l + 1 - 1 = l
        BY <2>6
      <4>2. ASSUME NEW i \in 1..1 PROVE l + 1 - i = l
        BY <2>6
      <4>3. ASSUME NEW i \in 1..1 PROVE Digit((n \div T[l + 1 - i]) % 10) = first
        BY <4>2
      <4>4. Text(l) = [i \in 1..1 |-> Digit((n \div T[l + 1 - i]) % 10)]
        BY <4>1
      <4>5. Text(l) = [i \in 1..1 |-> first]
        <5> HIDE DEF first, Text
        <5> QED BY <4>3, <4>4
      <4> HIDE DEF first, Text
      <4> QED BY <4>5
    <3> QED BY <2>3, <3>3, <3>4
  <2>7. CASE l # 0
    <3> DEFINE m == l - 1
    <3>1. m \in Nat /\ m + 1 = l /\ ~(l <= m) /\ T[m] \in Nat \ {0} /\ T[l] = 10 * T[m]
      BY <2>3, <2>7, TensAre
    <3>2. loop[T[m]] = Text(m)
      BY <2>2, <3>1
    <3>3. T[l] \div 10 = T[m]
      BY <3>1
    <3> HIDE DEF m
    <3>4. Text(m) = [i \in 1..l |-> Digit((n \div T[l - i]) % 10)]
      BY <3>1
    <3>5. ASSUME NEW i \in 1..l PROVE Digit((n \div T[l - i]) % 10) \in Int
      <4>1. l - i \in Nat
        BY <2>3
      <4>2. T[l - i] \in Nat \ {0}
        BY <4>1, TensAre
      <4> QED BY <1>1, <4>2
    <3>6. Text(m) \in [1..l -> Int]
      BY <3>4, <3>5
    <3> HIDE DEF first
    <3>7. <<first>> \o Text(m) = [i \in 1..l + 1 |-> IF i = 1 THEN first ELSE Text(m)[i - 1]]
      <4> HIDE DEF Text
      <4> QED BY <2>3, <2>5, <3>6, ConcatOne
    <3>8. ASSUME NEW i \in 1..l + 1
          PROVE  Digit((n \div T[l + 1 - i]) % 10) = IF i = 1 THEN first ELSE Text(m)[i - 1]
      <4>1. i = 1 => l + 1 - i = l
        BY <2>3
      <4>2. i # 1 => i - 1 \in 1..l /\ l - (i - 1) = l + 1 - i
        BY <2>3
      <4>3. i # 1 => Text(m)[i - 1] = Digit((n \div T[l - (i - 1)]) % 10)
        <5> HIDE DEF Text
        <5> QED BY <3>4, <4>2
      <4> HIDE DEF Text
      <4> QED BY <4>1, <4>2, <4>3 DEF first
    <3>9. Text(l) = <<first>> \o Text(m)
      BY <3>7, <3>8
    <3> HIDE DEF Text
    <3> QED BY <2>3, <2>5, <3>2, <3>3, <3>9
  <2> QED BY <2>6, <2>7
<1> HIDE DEF Text
<1>8. loop[T[k]] = Text(k)
  BY <1>7
<1> QED BY <1>8 DEF loop, Text

(* A text whose digits are the last digits of ever longer beginnings of a  *)
(* number reads as that number.                                            *)
LEMMA DigitsRead ==
  ASSUME NEW N \in Nat, NEW base \in Nat \ {0}, NEW q \in [0..N -> Nat], q[0] = 0,
         \A k \in 1..N : q[k] = base * q[k - 1] + (q[k] % base)
  PROVE  /\ [i \in 1..N |-> Digit(q[i] % base)] \in Seq(Int)
         /\ Len([i \in 1..N |-> Digit(q[i] % base)]) = N
         /\ Read([i \in 1..N |-> Digit(q[i] % base)], base) = q[N]
<1> DEFINE s == [i \in 1..N |-> Digit(q[i] % base)]
<1>1. ASSUME NEW i \in 1..N
      PROVE  /\ q[i] % base \in Nat /\ Digit(q[i] % base) \in Int
             /\ ValueOf(Digit(q[i] % base)) = q[i] % base
  <2> DEFINE n == q[i]
  <2>1. n \in Int
    OBVIOUS
  <2> HIDE DEF n
  <2>2. n % base \in 0..base - 1
    BY <2>1, Division
  <2>3. n % base \in Nat
    BY <2>2
  <2> QED BY <2>3, DigitValue DEF n
<1>2. s \in Seq(Int) /\ Len(s) = N
  BY <1>1
<1>3. q \in [0..Len(s) -> Int]
  <2> HIDE DEF s
  <2> QED BY <1>2
<1>4. ASSUME NEW k \in 1..Len(s) PROVE q[k] = base * q[k - 1] + ValueOf(s[k])
  <2>1. k \in 1..N
    <3> HIDE DEF s
    <3> QED BY <1>2
  <2>2. ValueOf(s[k]) = q[k] % base
    BY <1>1, <2>1
  <2> HIDE DEF s
  <2> QED BY <2>1, <2>2
<1>5. Read(s, base) = q[Len(s)]
  <2> HIDE DEF s
  <2>1. Len(s) \in Nat /\ base \in Int
    BY <1>2
  <2>2. \A k \in 1..Len(s) : q[k] = base * q[k - 1] + ValueOf(s[k])
    BY <1>4
  <2> QED BY <1>3, <2>1, <2>2, ReadIs
<1> QED BY <1>2, <1>5

(* UnityPrintNumberUnsigned, for every number of the widest type: at least *)
(* one digit, none but decimal digits, no leading zero, and the number     *)
(* reads back.                                                             *)
LEMMA DecimalIs ==
  ASSUME NEW n \in 0..Modulus(IntBytes) - 1
  PROVE  /\ UnityPrintNumberUnsigned(n) \in Seq(48..57)
         /\ Len(UnityPrintNumberUnsigned(n)) > 0
         /\ Read(UnityPrintNumberUnsigned(n), 10) = n
         /\ Len(UnityPrintNumberUnsigned(n)) > 1 => UnityPrintNumberUnsigned(n)[1] # Zero
<1> DEFINE s == UnityPrintNumberUnsigned(n)
<1>1. n \in Nat
  BY NumbersAssumption, ModulusIs
<1>2. PICK T : IsTens(T)
  BY TensExist
<1>3. PICK k \in Nat : /\ DivisorLoop(n)[1] = T[k]
                       /\ n < T[k + 1] /\ (k # 0 => T[k] <= n)
  BY <1>2, DivisorIs
<1>4. s = [i \in 1..k + 1 |-> Digit((n \div T[k + 1 - i]) % 10)]
  <2>1. s = DigitsLoop(n)[T[k]]
    <3>1. s = DigitsLoop(n)[DivisorLoop(n)[1]]
      BY PrintIs
    <3> HIDE DEF s
    <3> QED BY <1>3, <3>1
  <2>2. DigitsLoop(n)[T[k]] = [i \in 1..k + 1 |-> Digit((n \div T[k + 1 - i]) % 10)]
    BY <1>1, <1>2, <1>3, DigitsAre
  <2> HIDE DEF s
  <2> QED BY <2>1, <2>2
<1> DEFINE N == k + 1
           q == [m \in 0..N |-> n \div T[N - m]]
<1>5. N \in Nat /\ N >= 1
  BY <1>3
<1>6. ASSUME NEW m \in 0..N
      PROVE  /\ N - m \in Nat /\ T[N - m] \in Nat \ {0}
             /\ n \div T[N - m] \in Nat
             /\ \A d \in Nat : n \div T[N - m] < d <=> n < d * T[N - m]
  <2>1. N - m \in Nat
    BY <1>5
  <2>2. T[N - m] \in Nat \ {0}
    BY <1>2, <2>1, TensAre
  <2> QED BY <1>1, <2>1, <2>2, Quotient
<1>7. q \in [0..N -> Nat]
  BY <1>6
<1>8. q[0] = 0
  <2>1. 0 \in 0..N /\ N - 0 = N
    BY <1>5
  <2>2. T[N] \in Nat \ {0} /\ n < 1 * T[N]
    BY <1>2, <1>3, <1>5, TensAre
  <2>3. n \div T[N] \in Nat /\ (n \div T[N] < 1 <=> n < 1 * T[N])
    BY <1>6, <2>1
  <2>4. n \div T[N] = 0
    BY <2>2, <2>3
  <2> QED BY <2>1, <2>4
<1>9. ASSUME NEW j \in 1..N PROVE q[j] = 10 * q[j - 1] + (q[j] % 10)
  <2>1. j \in 0..N /\ j - 1 \in 0..N /\ N - (j - 1) = (N - j) + 1 /\ N - j \in Nat
    BY <1>5
  <2>2. T[N - (j - 1)] = 10 * T[N - j] /\ T[N - j] \in Nat \ {0}
    BY <1>2, <2>1, TensAre
  <2>3. n \div T[N - j] = 10 * (n \div (10 * T[N - j])) + ((n \div T[N - j]) % 10)
    BY <1>1, <2>2, DividedByTen
  <2>4. q[j] = n \div T[N - j] /\ q[j - 1] = n \div (10 * T[N - j])
    BY <2>1, <2>2
  <2> HIDE DEF q
  <2> QED BY <2>3, <2>4
<1>10. q[N] = n
  <2>1. N \in 0..N /\ N - N = 0 /\ T[0] = 1
    BY <1>2, <1>5, TensAre
  <2>2. q[N] = n \div 1
    BY <2>1
  <2> QED BY <1>1, <2>2
<1>11. s = [i \in 1..N |-> Digit(q[i] % 10)]
  <2>1. ASSUME NEW i \in 1..N PROVE q[i] = n \div T[N - i]
    BY <1>5
  <2> HIDE DEF s, q
  <2> QED BY <1>4, <2>1
<1>12. ASSUME NEW i \in 1..N
       PROVE  q[i] % 10 \in 0..9 /\ Digit(q[i] % 10) \in 48..57
  <2>1. i \in 0..N
    BY <1>5
  <2>2. q[i] \in Nat
    <3> HIDE DEF q
    <3> QED BY <1>7, <2>1
  <2>3. q[i] % 10 \in 0..9
    <3> HIDE DEF q
    <3> QED BY <2>2
  <2> HIDE DEF q
  <2> QED BY <2>3 DEF Digit, Zero
<1>13. T[k] \in Nat \ {0} /\ q[1] = n \div T[k]
  <2>1. 1 \in 0..N /\ N - 1 = k
    BY <1>3
  <2> QED BY <1>2, <1>3, <2>1, TensAre
<1>14. k # 0 => Digit(q[1] % 10) # Zero
  <2> SUFFICES ASSUME k # 0 PROVE Digit(q[1] % 10) # Zero
    OBVIOUS
  <2>1. ~(n < 1 * T[k]) /\ n < 10 * T[k]
    <3>1. T[k + 1] = 10 * T[k]
      BY <1>2, <1>3, TensAre
    <3> QED BY <1>1, <1>3, <1>13, <3>1
  <2>2. q[1] \in Nat /\ ~(q[1] < 1) /\ q[1] < 10
    <3>1. n \div T[k] \in Nat /\ \A d \in Nat : n \div T[k] < d <=> n < d * T[k]
      BY <1>1, <1>13, Quotient
    <3> QED BY <1>13, <2>1, <3>1
  <2>3. q[1] % 10 \in 1..9
    <3> HIDE DEF q
    <3> QED BY <2>2
  <2> HIDE DEF q
  <2> QED BY <2>3 DEF Digit, Zero
<1> HIDE DEF q, s, N
<1>15. s \in Seq(Int) /\ Len(s) = N /\ Read(s, 10) = n
  <2>1. 10 \in Nat \ {0}
    OBVIOUS
  <2> QED BY <1>5, <1>7, <1>8, <1>9, <1>10, <1>11, <2>1, DigitsRead
<1>16. s \in Seq(48..57)
  BY <1>5, <1>11, <1>12
<1>17. s[1] = Digit(q[1] % 10)
  BY <1>5, <1>11
<1> QED BY <1>3, <1>5, <1>14, <1>15, <1>16, <1>17 DEF s, N

(* UnityPrintNumberHex, for every number of the widest type and every size:*)
(* all the digits of that size and no more, and what fits it reads back.   *)
LEMMA HexIs ==
  ASSUME NEW n \in Int, NEW b \in 1..IntBytes
  PROVE  /\ UnityPrintNumberHex(ToUnsigned(n, IntBytes), 2 * b) \in Seq(Int)
         /\ Len(UnityPrintNumberHex(ToUnsigned(n, IntBytes), 2 * b)) = 2 * b
         /\ Read(UnityPrintNumberHex(ToUnsigned(n, IntBytes), 2 * b), 2^NibbleBits)
              = ToUnsigned(n, b)
<1> DEFINE w == NibbleBits
           D == 2^w
           N == 2 * b
           U == ToUnsigned(n, IntBytes)
           u == ToUnsigned(n, b)
           q == [m \in 0..N |-> u \div 2^(w * (N - m))]
           s == UnityPrintNumberHex(U, N)
<1>1. w \in Nat \ {0} /\ b \in Nat \ {0} /\ N \in Nat /\ IntBytes \in 1..IntBytes
      /\ 2 * IntBytes \in Nat /\ N <= 2 * IntBytes /\ b <= IntBytes
  BY NumbersAssumption
<1>2. u \in Nat /\ u < Modulus(b) /\ U \in Int
  <2>1. u \in 0..Modulus(b) - 1 /\ u \in Nat /\ U \in Nat
    BY <1>1, UnsignedIs
  <2>2. Modulus(b) \in Nat
    BY ModulusIs
  <2> HIDE DEF u, U
  <2> QED BY <2>1, <2>2
<1>3. w * N = Bits(b) /\ Bits(b) \in Exponents
  <2>1. Bits(b) = w * N
    BY <1>1 DEF Bits
  <2> QED BY <2>1, BitsOf
<1> HIDE DEF w, U, u
<1>4. ASSUME NEW m \in 0..N PROVE w * (N - m) \in Exponents /\ w * (N - m) \in Nat
  <2>1. N - m \in Nat /\ m \in Nat
    BY <1>1
  <2> HIDE DEF N
  <2>2. w * (N - m) \in Nat /\ w * m \in Nat /\ w * (N - m) + w * m = w * N
    BY <1>1, <2>1
  <2> QED BY <1>3, <2>2, BitsMax DEF Exponents
<1>5. ASSUME NEW m \in 0..N PROVE 2^(w * (N - m)) \in Nat \ {0}
  BY <1>4, PowerNat
<1>6. D \in Nat \ {0}
  <2>1. w \in Exponents
    <3>1. N - 1 \in 0..N /\ N - (N - 1) = 1
      BY <1>1
    <3>2. w * 1 \in Exponents
      BY <1>4, <3>1
    <3> QED BY <1>1, <3>2
  <2> QED BY <2>1, PowerNat
<1>7. q \in [0..N -> Nat]
  <2>1. ASSUME NEW m \in 0..N PROVE u \div 2^(w * (N - m)) \in Nat
    <3> DEFINE P == 2^(w * (N - m))
    <3>1. P \in Nat \ {0}
      BY <1>5
    <3> HIDE DEF P
    <3>2. u \div P \in Nat
      BY <1>2, <3>1, Quotient
    <3> QED BY <3>2 DEF P
  <2> QED BY <2>1
<1>8. q[0] = 0
  <2>1. 0 \in 0..N /\ N - 0 = N
    BY <1>1
  <2>2. q[0] = u \div Modulus(b)
    BY <1>3, <2>1 DEF Modulus
  <2>3. Modulus(b) \in Nat \ {0} /\ u < 1 * Modulus(b)
    <3>1. Modulus(b) \in Nat \ {0}
      BY ModulusIs
    <3> QED BY <1>2, <3>1
  <2>4. u \div Modulus(b) \in Nat /\ u \div Modulus(b) < 1
    BY <1>2, <2>3, Quotient
  <2> HIDE DEF q
  <2> QED BY <2>2, <2>4
<1>9. ASSUME NEW j \in 1..N PROVE q[j] = D * q[j - 1] + (q[j] % D)
  <2> DEFINE P == 2^(w * (N - j))
             a == u \div P
             c == u % P
  <2>1. j \in 0..N /\ j - 1 \in 0..N /\ N - (j - 1) = (N - j) + 1 /\ N - j \in Nat
    BY <1>1
  <2>2. w * (N - (j - 1)) = w * (N - j) + w
    <3> DEFINE l == N - j
    <3>1. l \in Nat /\ N - (j - 1) = l + 1
      BY <2>1
    <3> HIDE DEF l
    <3>2. w * (l + 1) = w * l + w
      BY <1>1, <3>1
    <3> QED BY <3>1, <3>2 DEF l
  <2>3. 2^(w * (N - (j - 1))) = P * D
    <3>1. w * (N - j) \in Nat /\ w * (N - j) + w \in Exponents
      BY <1>4, <2>1, <2>2
    <3> QED BY <1>1, <2>2, <3>1, PowerSum
  <2>4. P \in Nat \ {0}
    BY <1>5, <2>1
  <2>5. q[j] = a /\ q[j - 1] = u \div (P * D)
    BY <2>1, <2>3
  <2> HIDE DEF P, D, q
  <2>6. a \in Int /\ c \in 0..P - 1 /\ u = a * P + c
    BY <1>2, <2>4, Division
  <2> HIDE DEF a, c
  <2>7. (a * P + c) \div (D * P) = a \div D
    BY <1>6, <2>4, <2>6, DividedTwice
  <2>8. D * P = P * D
    BY <1>6, <2>4
  <2>9. q[j - 1] = a \div D
    BY <2>5, <2>6, <2>7, <2>8
  <2>10. a % D \in 0..D - 1 /\ a \div D \in Int /\ a = (a \div D) * D + (a % D)
    BY <1>6, <2>6, Division
  <2>11. (a \div D) * D = D * (a \div D)
    <3> DEFINE z == a \div D
    <3>1. z \in Int
      BY <2>10
    <3> HIDE DEF z
    <3>2. z * D = D * z
      BY <1>6, <3>1
    <3> QED BY <3>2 DEF z
  <2>12. a = D * (a \div D) + (a % D)
    BY <2>10, <2>11
  <2> QED BY <2>5, <2>9, <2>12
<1>10. q[N] = u
  <2>1. N \in 0..N /\ N - N = 0 /\ w * 0 = 0
    BY <1>1
  <2>2. q[N] = u \div 1
    BY <2>1, PowersAssumption
  <2> HIDE DEF q
  <2> QED BY <1>2, <2>2
<1>11. s = [i \in 1..N |-> Digit(q[i] % D)]
  <2>1. Min({N, 2 * IntBytes}) = N
    BY <1>1, LesserOfTwo
  <2>2. s = [i \in 1..N |-> Digit((U \div 2^(w * (N - i))) % D)]
    BY <2>1 DEF UnityPrintNumberHex, w
  <2>3. ASSUME NEW i \in 1..N PROVE (U \div 2^(w * (N - i))) % D = q[i] % D
    <3>1. N - i \in 0..2 * b - 1 /\ i \in 0..N
      BY <1>1
    <3>2. (U \div 2^(w * (N - i))) % D = (ToUnsigned(U, b) \div 2^(w * (N - i))) % D
      BY <1>2, <3>1, LowDigit DEF w
    <3>3. ToUnsigned(U, b) = u
      BY <1>1, Narrowed DEF U, u
    <3>4. q[i] = u \div 2^(w * (N - i))
      BY <3>1
    <3> HIDE DEF q, D, N
    <3> QED BY <3>2, <3>3, <3>4
  <2> HIDE DEF s, q, D, N
  <2> QED BY <2>2, <2>3
<1> HIDE DEF q, s, D
<1>12. /\ [i \in 1..N |-> Digit(q[i] % D)] \in Seq(Int)
       /\ Len([i \in 1..N |-> Digit(q[i] % D)]) = N
       /\ Read([i \in 1..N |-> Digit(q[i] % D)], D) = q[N]
  <2> HIDE DEF N
  <2> QED BY <1>1, <1>6, <1>7, <1>8, <1>9, DigitsRead
<1>13. s \in Seq(Int) /\ Len(s) = N /\ Read(s, D) = u
  BY <1>10, <1>11, <1>12
<1> QED BY <1>13 DEF s, D, u, U, w

-----------------------------------------------------------------------------
(* Sequences put one after the other.                                      *)

LEMMA SeqWider ==
  ASSUME NEW S, NEW R, S \subseteq R, NEW s \in Seq(S)
  PROVE  s \in Seq(R)
<1>1. Len(s) \in Nat /\ (\A k \in 1..Len(s) : s[k] \in R) /\ s = [k \in 1..Len(s) |-> s[k]]
  OBVIOUS
<1> QED BY <1>1

LEMMA SequenceJoin ==
  ASSUME NEW S, NEW s \in Seq(S), NEW t \in Seq(S)
  PROVE  s \o t \in Seq(S)
OBVIOUS

\* What the first k of N sequences come to.
Gathers(N, S, a, g) ==
  /\ g \in [0..N -> Seq(S)]
  /\ g[0] = <<>>
  /\ \A k \in 1..N : g[k] = g[k - 1] \o a[k]

LEMMA GatherExists ==
  ASSUME NEW N \in Nat, NEW S, NEW a, \A k \in 1..N : a[k] \in Seq(S)
  PROVE  \E g : Gathers(N, S, a, g)
<1> DEFINE bad == {n_0 \in 0..N : ~ \E g : Gathers(n_0, S, a, g)}
<1> SUFFICES ASSUME bad # {} PROVE FALSE
  BY SMT
<1>1. bad \in SUBSET Nat
  OBVIOUS
<1>2. PICK m \in bad : \A l \in bad : m <= l
  <2> HIDE DEF bad
  <2> QED BY <1>1, LeastNat
<1>3. m \in 0..N /\ ~ \E g : Gathers(m, S, a, g)
  BY <1>2
<1>4. CASE m = 0
  <2> DEFINE g == [k \in 0..0 |-> <<>>]
  <2>1. g \in [0..0 -> Seq(S)] /\ g[0] = <<>>
    <3>1. <<>> \in Seq(S)
      OBVIOUS
    <3> QED BY <3>1
  <2>2. \A k \in 1..0 : FALSE
    OBVIOUS
  <2> HIDE DEF g
  <2>3. Gathers(0, S, a, g)
    BY <2>1, <2>2 DEF Gathers
  <2> QED BY <1>3, <1>4, <2>3
<1>5. CASE m # 0
  <2>1. m - 1 \in 0..N /\ ~(m <= m - 1) /\ m \in 1..N /\ m \in Nat
    BY <1>3, <1>5
  <2>2. PICK f : Gathers(m - 1, S, a, f)
    BY <1>2, <2>1
  <2>3. f \in [0..m - 1 -> Seq(S)] /\ f[0] = <<>> /\ \A k \in 1..m - 1 : f[k] = f[k - 1] \o a[k]
    BY <2>2 DEF Gathers
  <2> DEFINE last == f[m - 1] \o a[m]
             g == [k \in 0..m |-> IF k = m THEN last ELSE f[k]]
  <2>4. last \in Seq(S)
    <3>1. f[m - 1] \in Seq(S) /\ a[m] \in Seq(S)
      BY <2>1, <2>3
    <3> QED BY <3>1, SequenceJoin
  <2> HIDE DEF last
  <2>5. \A k \in 0..m - 1 : k \in 0..m /\ g[k] = f[k]
    BY <2>1
  <2>6. g[m] = last
    BY <2>1
  <2>7. g \in [0..m -> Seq(S)]
    <3>1. ASSUME NEW k \in 0..m PROVE (IF k = m THEN last ELSE f[k]) \in Seq(S)
      <4>1. k # m => k \in 0..m - 1
        BY <2>1
      <4> QED BY <2>3, <2>4, <4>1
    <3> QED BY <3>1
  <2> HIDE DEF g
  <2>8. g[0] = <<>>
    <3>1. 0 \in 0..m - 1
      BY <2>1
    <3> QED BY <2>3, <2>5, <3>1
  <2>9. ASSUME NEW k \in 1..m PROVE g[k] = g[k - 1] \o a[k]
    <3>1. k - 1 \in 0..m - 1 /\ (k # m => k \in 1..m - 1 /\ k \in 0..m - 1)
      BY <2>1
    <3>2. CASE k = m
      BY <2>5, <2>6, <3>1, <3>2 DEF last
    <3>3. CASE k # m
      BY <2>3, <2>5, <3>1, <3>3
    <3> QED BY <3>2, <3>3
  <2>10. Gathers(m, S, a, g)
    BY <2>7, <2>8, <2>9 DEF Gathers
  <2> QED BY <1>3, <2>10
<1> QED BY <1>4, <1>5

(* FlattenSeq is all of them.                                              *)
LEMMA FlattenIs ==
  ASSUME NEW N \in Nat, NEW S, NEW a, NEW g, Gathers(N, S, a, g),
         \A k \in 1..N : a[k] \in Seq(S)
  PROVE  FlattenSeq([i \in 1..N |-> a[i]]) = g[N]
<1> DEFINE seqs == [i \in 1..N |-> a[i]]
           Step(f, i) == IF i = 1 THEN seqs[i] ELSE f[i - 1] \o seqs[i]
           P(f) == f = [i \in 1..N |-> Step(f, i)]
           flat == CHOOSE f : P(f)
           h == [i \in 1..N |-> g[i]]
<1>1. g \in [0..N -> Seq(S)] /\ g[0] = <<>> /\ \A k \in 1..N : g[k] = g[k - 1] \o a[k]
  BY DEF Gathers
<1>2. seqs \in Seq(Seq(S)) /\ Len(seqs) = N /\ DOMAIN seqs = 1..N
  OBVIOUS
<1>3. CASE N = 0
  <2>1. FlattenSeq(seqs) = seqs
    <3> HIDE DEF seqs
    <3> QED BY <1>2, <1>3 DEF FlattenSeq
  <2>2. seqs = <<>>
    <3> HIDE DEF seqs
    <3> QED BY <1>2, <1>3
  <2> QED BY <1>1, <1>3, <2>1, <2>2
<1>4. CASE N # 0
  <2>1. FlattenSeq(seqs) = flat[N]
    <3>1. 1..Len(seqs) = 1..N /\ Len(seqs) # 0
      BY <1>2, <1>4
    <3> HIDE DEF seqs
    <3> QED BY <1>2, <3>1 DEF FlattenSeq
  <2>2. P(h)
    <3>1. ASSUME NEW i \in 1..N PROVE g[i] = Step(h, i)
      <4>1. seqs[i] = a[i] /\ g[i] = g[i - 1] \o a[i]
        BY <1>1
      <4>2. CASE i = 1
        <5>1. g[i - 1] = <<>> /\ a[i] \in Seq(S)
          BY <1>1, <4>2
        <5>2. <<>> \o a[i] = a[i]
          <6> DEFINE x == a[i]
          <6>1. x \in Seq(S)
            BY <5>1
          <6> HIDE DEF x
          <6>2. <<>> \o x = x
            BY <6>1
          <6> QED BY <6>2 DEF x
        <5> HIDE DEF seqs
        <5> QED BY <4>1, <4>2, <5>1, <5>2
      <4>3. CASE i # 1
        <5>1. i - 1 \in 1..N
          BY <4>3
        <5>2. h[i - 1] = g[i - 1]
          BY <5>1
        <5> HIDE DEF seqs, h
        <5> QED BY <4>1, <4>3, <5>2
      <4> QED BY <4>2, <4>3
    <3> DEFINE V(i) == Step(h, i)
    <3>2. \A i \in 1..N : g[i] = V(i)
      BY <3>1
    <3> HIDE DEF V
    <3>3. h = [i \in 1..N |-> V(i)]
      BY <3>2
    <3> HIDE DEF Step, h
    <3> QED BY <3>3 DEF V
  <2>3. P(flat)
    <3> HIDE DEF P
    <3> QED BY <2>2
  <2>4. \A i \in 1..N : flat[i] = Step(flat, i)
    <3> HIDE DEF Step, flat
    <3> QED BY <2>3
  <2> HIDE DEF P, flat
  <2> DEFINE bad == {i \in 1..N : flat[i] # g[i]}
  <2>5. bad = {}
    <3> SUFFICES ASSUME bad # {} PROVE FALSE
      BY SMT
    <3>1. bad \in SUBSET Nat
      OBVIOUS
    <3>2. PICK i \in bad : \A l \in bad : i <= l
      <4> HIDE DEF bad
      <4> QED BY <3>1, LeastNat
    <3>3. i \in 1..N /\ flat[i] # g[i]
      BY <3>2
    <3>4. flat[i] = Step(flat, i) /\ h[i] = g[i]
      BY <2>4, <3>3
    <3>5. h[i] = Step(h, i)
      <4> HIDE DEF Step, h
      <4> QED BY <2>2, <3>3 DEF P
    <3>6. i # 1
      <4> HIDE DEF seqs, h
      <4> QED BY <3>3, <3>4, <3>5
    <3>7. i - 1 \in 1..N /\ ~(i <= i - 1)
      BY <3>3, <3>6
    <3>8. flat[i - 1] = g[i - 1] /\ h[i - 1] = g[i - 1]
      BY <3>2, <3>7
    <3> HIDE DEF seqs, h
    <3> QED BY <3>3, <3>4, <3>5, <3>6, <3>8
  <2>6. N \in 1..N
    BY <1>4
  <2> QED BY <2>1, <2>5, <2>6
<1> QED BY <1>3, <1>4
=============================================================================
