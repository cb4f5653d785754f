----------------------------- MODULE UtilProofs -----------------------------
(***************************************************************************)
(* The algorithms of Util do what they should for every text over any set  *)
(* of bytes without zero, of any length, and for every position.           *)
(***************************************************************************)
EXTENDS Util, SequenceTheorems, FiniteSetTheorems, WellFoundedInduction, TLAPS

TextInv == text \in Seq(Bytes) /\ position \in -Farthest..Farthest

LEMMA TextInvariant == Spec => []TextInv
<1>1. Init => TextInv
  BY EmptySeq DEF Init, TextInv
<1>2. TextInv /\ [Next]_vars => TextInv'
  <2>. SUFFICES ASSUME TextInv, [Next]_vars PROVE TextInv'
    OBVIOUS
  <2>1. CASE Type
    BY <2>1, AppendProperties DEF Type, Next, vars, TextInv
  <2>2. CASE StringSplit \/ CutItem \/ LastItem \/ UNCHANGED vars
    BY <2>2 DEF StringSplit, CutItem, LastItem, Next, vars, TextInv
  <2>. QED  BY <2>1, <2>2 DEF Next
<1>. QED  BY <1>1, <1>2, PTL DEF Spec

(* What is given for 1 to n is a sequence of length n.                     *)
LEMMA SequenceOf ==
  ASSUME NEW S, NEW n \in Nat, NEW s \in [1..n -> S]
  PROVE  s \in Seq(S) /\ Len(s) = n
<1>1. s \in Seq(S)
  BY SeqDef
<1>. QED  BY <1>1, LenProperties

(* A text is a sequence of numbers that fit a byte.                        *)
LEMMA TextFacts ==
  ASSUME NEW s \in Seq(Bytes)
  PROVE  /\ s \in Seq(0..255) /\ Len(s) \in Nat /\ DOMAIN s = 1..Len(s)
         /\ \A k \in 1..Len(s) : s[k] \in Bytes /\ s[k] \in 1..255
<1>1. Bytes \subseteq 0..255 /\ Bytes \subseteq 1..255
  BY UtilAssumption
<1>2. s \in Seq(0..255)
  <2>1. s \in [1..Len(s) -> Bytes] /\ Len(s) \in Nat
    BY LenProperties
  <2>2. s \in [1..Len(s) -> 0..255]
    BY <1>1, <2>1
  <2>. QED  BY <2>1, <2>2, SequenceOf
<1>. QED  BY <1>1, <1>2, LenProperties, ElementOfSeq

(* Every set of natural numbers has a least.                               *)
LEMMA Least ==
  ASSUME NEW T \in SUBSET Nat, T # {}
  PROVE  \E x \in T : \A y \in T : x <= y
<1>. DEFINE R == OpToRel(<, Nat)
<1>1. R = {p \in Nat \X Nat : p[1] < p[2]}
  BY DEF OpToRel
<1>2. IsWellFoundedOn(R, Nat)
  BY NatLessThanWellFounded
<1>. HIDE DEF R
<1>3. PICK x \in T : \A y \in T : ~(<<y, x>> \in R)
  BY <1>2, WFMin
<1>4. ASSUME NEW y \in T PROVE x <= y
  <2>1. <<y, x>> \notin R
    BY <1>3
  <2>2. x \in Nat /\ y \in Nat
    OBVIOUS
  <2>. QED  BY <1>1, <2>1, <2>2
<1>. QED  BY <1>4

(* Find returns the first place, or 0 if there is none.                    *)
LEMMA Found ==
  ASSUME NEW s, NEW part, NEW from \in Nat \ {0}
  PROVE  \/ Places(s, part, from) = {} /\ Find(s, part, from) = 0
         \/ /\ Find(s, part, from) \in Places(s, part, from)
            /\ \A j \in Places(s, part, from) : Find(s, part, from) <= j
            /\ Find(s, part, from) \in Nat \ {0}
<1>. DEFINE found == Places(s, part, from)
<1>1. CASE found = {}
  BY <1>1 DEF Find
<1>2. CASE found # {}
  <2>1. found \in SUBSET (Nat \ {0})
    BY DEF Places
  <2>. HIDE DEF found
  <2>2. \E x \in found : \A y \in found : x <= y
    BY <1>2, <2>1, Least
  <2>. DEFINE f == CHOOSE k \in found : \A j \in found : k <= j
  <2>3. f \in found /\ \A j \in found : f <= j
    BY <2>2
  <2>4. Find(s, part, from) = f
    BY <1>2 DEF Find, found
  <2>. HIDE DEF f
  <2>. QED  BY <2>1, <2>3, <2>4 DEF found
<1>. QED  BY <1>1, <1>2

(* A place that is least is the one Find returns.                          *)
LEMMA FindIs ==
  ASSUME NEW s, NEW part, NEW from \in Nat \ {0},
         NEW k \in Places(s, part, from), \A j \in Places(s, part, from) : k <= j
  PROVE  Find(s, part, from) = k
<1>. DEFINE f == Find(s, part, from)  P == Places(s, part, from)
<1>1. k \in P /\ P # {} /\ P \subseteq Int
  <2>1. P \subseteq Int
    BY DEF Places
  <2>2. k \in P
    OBVIOUS
  <2>. HIDE DEF P
  <2>. QED  BY <2>1, <2>2
<1>2. \/ P = {} /\ f = 0
      \/ f \in P /\ (\A j \in P : f <= j) /\ f \in Nat \ {0}
  BY Found
<1>. HIDE DEF f, P
<1>3. f \in P /\ f \in Int /\ f <= k /\ k <= f
  BY <1>1, <1>2 DEF P
<1>4. f = k
  BY <1>1, <1>3
<1>. QED  BY <1>4 DEF f

(* The places of a single byte.                                            *)
LEMMA PlacesOfByte ==
  ASSUME NEW s \in Seq(Int), NEW c \in Int, NEW from \in Nat \ {0}
  PROVE  Places(s, <<c>>, from) = {k \in from..Len(s) : s[k] = c}
<1>1. Len(<<c>>) = 1 /\ Len(s) \in Nat
  BY LenProperties
<1>2. ASSUME NEW k \in from..Len(s) PROVE SubSeq(s, k, k + 1 - 1) = <<c>> <=> s[k] = c
  <2>1. k \in Int /\ k + 1 - 1 = k /\ (k - k) + 1 = 1
    BY <1>1
  <2>2. \A i \in k..k : s[i] \in Int
    BY <1>1, ElementOfSeq
  <2>3. /\ SubSeq(s, k, k) \in Seq(Int) /\ Len(SubSeq(s, k, k)) = 1
        /\ \A i \in 1..1 : SubSeq(s, k, k)[i] = s[k + i - 1]
    BY <2>1, <2>2, SubSeqProperties
  <2>4. SubSeq(s, k, k)[1] = s[k]
    BY <2>1, <2>3
  <2>5. <<c>> \in Seq(Int) /\ <<c>>[1] = c
    OBVIOUS
  <2>6. s[k] = c => SubSeq(s, k, k) = <<c>>
    <3>. SUFFICES ASSUME s[k] = c PROVE SubSeq(s, k, k) = <<c>>
      OBVIOUS
    <3>1. \A i \in 1..1 : SubSeq(s, k, k)[i] = <<c>>[i]
      BY <2>4, <2>5
    <3>2. Len(SubSeq(s, k, k)) = Len(<<c>>)
      BY <1>1, <2>3
    <3>. QED  BY <2>3, <2>5, <3>1, <3>2, SeqEqual
  <2>. QED  BY <2>1, <2>4, <2>5, <2>6
<1>3. Len(s) - 1 + 1 = Len(s)
  BY <1>1
<1>. QED  BY <1>1, <1>2, <1>3 DEF Places

LEMMA PlacesOfEOL ==
  ASSUME NEW s \in Seq(Int), NEW from \in Nat \ {0}
  PROVE  Places(s, EOL, from) = {k \in from..(Len(s) - 1) : s[k] = 13 /\ s[k + 1] = 10}
<1>1. Len(EOL) = 2 /\ Len(s) \in Nat
  BY LenProperties DEF EOL
<1>2. ASSUME NEW k \in from..(Len(s) - 1)
      PROVE  SubSeq(s, k, k + 2 - 1) = EOL <=> s[k] = 13 /\ s[k + 1] = 10
  <2>1. k + 2 - 1 = k + 1 /\ (k + 1) - k + 1 = 2
    BY <1>1
  <2>2. \A i \in k..(k + 1) : s[i] \in Int
    BY <1>1, ElementOfSeq
  <2>3. /\ SubSeq(s, k, k + 1) \in Seq(Int) /\ Len(SubSeq(s, k, k + 1)) = 2
        /\ \A i \in 1..2 : SubSeq(s, k, k + 1)[i] = s[k + i - 1]
    BY <1>1, <2>1, <2>2, SubSeqProperties
  <2>4. SubSeq(s, k, k + 1)[1] = s[k] /\ SubSeq(s, k, k + 1)[2] = s[k + 1]
    BY <2>3
  <2>5. EOL \in Seq(Int) /\ EOL[1] = 13 /\ EOL[2] = 10
    BY DEF EOL
  <2>6. ASSUME s[k] = 13, s[k + 1] = 10 PROVE SubSeq(s, k, k + 1) = EOL
    <3>. DEFINE part == SubSeq(s, k, k + 1)
    <3>1. part \in Seq(Int) /\ Len(part) = 2 /\ part[1] = EOL[1] /\ part[2] = EOL[2]
      BY <2>3, <2>4, <2>5, <2>6
    <3>. HIDE DEF part
    <3>2. \A i \in 1..2 : i = 1 \/ i = 2
      OBVIOUS
    <3>3. \A i \in 1..2 : part[i] = EOL[i]
      BY <3>1, <3>2
    <3>4. part = EOL
      BY <1>1, <2>5, <3>1, <3>3, SeqEqual
    <3>. QED  BY <3>4 DEF part
  <2>. QED  BY <2>1, <2>4, <2>5, <2>6
<1>3. Len(s) - 2 + 1 = Len(s) - 1
  BY <1>1
<1>. QED  BY <1>1, <1>2, <1>3 DEF Places
-----------------------------------------------------------------------------
(* Positions.                                                              *)

(* The coordinate of every position in the north and east, or of whole     *)
(* degrees, is read as it was set.                                         *)
THEOREM PositionsAreExact == Spec => []PositionExact
<1>1. ASSUME NEW d \in Int, d >= 0 \/ d % 60 = 0 PROVE Read(Coordinate(d)) = d
  <2>. DEFINE q == d \div 60  r == d % 60
  <2>1. /\ q \in Int /\ r \in 0..59 /\ d = 60 * q + r /\ (d > 0 => q >= 0)
        /\ (d >= 0 \/ r = 0)
    BY <1>1
  <2>2. DegreeConvertToDDMM(d) = 100 * q + r
    BY DEF DegreeConvertToDDMM
  <2>. HIDE DEF q, r
  <2>3. CASE d > 0
    <3>1. Coordinate(d) = [value |-> 100 * q + r, positive |-> TRUE]
      <4>1. ~(100 * q + r < 0)
        BY <2>1, <2>3
      <4>. QED  BY <2>2, <2>3, <4>1 DEF Coordinate
    <3>2. (100 * q + r) \div 100 = q /\ (100 * q + r) % 100 = r
      BY <2>1, <2>3
    <3>3. Read([value |-> 100 * q + r, positive |-> TRUE])
            = 60 * ((100 * q + r) \div 100) + ((100 * q + r) % 100)
      BY DEF Read
    <3>. QED  BY <2>1, <3>1, <3>2, <3>3
  <2>4. CASE d <= 0
    <3>1. r = 0 /\ q <= 0
      BY <1>1, <2>1, <2>4
    <3>2. PICK v \in Nat : v = -(100 * q) /\ DegreeConvertToDDMM(d) = -v
      BY <2>1, <2>2, <3>1
    <3>3. Coordinate(d) = [value |-> v, positive |-> FALSE]
      <4>1. (IF -v < 0 THEN -(-v) ELSE -v) = v
        BY <3>2
      <4>2. (d > 0) = FALSE
        BY <2>4
      <4>. QED  BY <3>2, <4>1, <4>2, Zenon DEF Coordinate
    <3>4. v \div 100 = -q /\ v % 100 = 0
      BY <2>1, <3>2
    <3>5. Read([value |-> v, positive |-> FALSE]) = -(60 * (v \div 100) + (v % 100))
      BY DEF Read
    <3>. QED  BY <2>1, <3>1, <3>3, <3>4, <3>5
  <2>. QED  BY <2>3, <2>4
<1>2. TextInv => PositionExact
  BY <1>1, UtilAssumption DEF TextInv, PositionExact
<1>. QED  BY <1>2, TextInvariant, PTL

-----------------------------------------------------------------------------
(* Base64.                                                                 *)

(* The k-th byte of a text filled up with zeros.                           *)
Filled(raw, k) == IF k <= Len(raw) THEN raw[k] ELSE 0

LEMMA FilledIsByte ==
  ASSUME NEW raw \in Seq(0..255), NEW k \in Nat \ {0} PROVE Filled(raw, k) \in 0..255
  BY ElementOfSeq, LenProperties DEF Filled

(* The sextets hold the bits of the three bytes.                           *)
LEMMA SextetsType ==
  ASSUME NEW a \in 0..255, NEW b \in 0..255, NEW c \in 0..255, NEW j \in 1..4
  PROVE  Sextets(a, b, c)[j] \in 0..63
<1>1. /\ a \div 4 \in 0..63 /\ (a % 4) * 16 + (b \div 16) \in 0..63
      /\ (b % 16) * 4 + (c \div 64) \in 0..63 /\ c % 64 \in 0..63
  OBVIOUS
<1>. QED  BY <1>1 DEF Sextets

LEMMA SextetBits ==
  ASSUME NEW a \in 0..255, NEW b \in 0..255, NEW c \in 0..255, NEW r \in 0..23
  PROVE  (Sextets(a, b, c)[(r \div 6) + 1] \div 2^(5 - (r % 6))) % 2
           = (<<a, b, c>>[(r \div 8) + 1] \div 2^(7 - (r % 8))) % 2
<1>. DEFINE x == a \div 4  y == (a % 4) * 16 + (b \div 16)
            z == (b % 16) * 4 + (c \div 64)  w == c % 64
<1>1. Sextets(a, b, c) = <<x, y, z, w>>
  BY DEF Sextets
<1>2. /\ (x \div 2^5) % 2 = (a \div 2^7) % 2 /\ (x \div 2^4) % 2 = (a \div 2^6) % 2
      /\ (x \div 2^3) % 2 = (a \div 2^5) % 2 /\ (x \div 2^2) % 2 = (a \div 2^4) % 2
      /\ (x \div 2^1) % 2 = (a \div 2^3) % 2 /\ (x \div 2^0) % 2 = (a \div 2^2) % 2
  BY SMTT(30)
<1>3. /\ (y \div 2^5) % 2 = (a \div 2^1) % 2 /\ (y \div 2^4) % 2 = (a \div 2^0) % 2
  OBVIOUS
<1>4. /\ (y \div 2^3) % 2 = (b \div 2^7) % 2 /\ (y \div 2^2) % 2 = (b \div 2^6) % 2
      /\ (y \div 2^1) % 2 = (b \div 2^5) % 2 /\ (y \div 2^0) % 2 = (b \div 2^4) % 2
  BY SMTT(30)
<1>5. /\ (z \div 2^5) % 2 = (b \div 2^3) % 2 /\ (z \div 2^4) % 2 = (b \div 2^2) % 2
      /\ (z \div 2^3) % 2 = (b \div 2^1) % 2 /\ (z \div 2^2) % 2 = (b \div 2^0) % 2
  <2>. DEFINE l == b % 16  h == b \div 16
  <2>1. l \in 0..15 /\ b = 16 * h + l /\ h \in 0..15
    OBVIOUS
  <2>2. z \div 4 = l
    BY <2>1
  <2>. HIDE DEF l, h, z
  <2>3. /\ (b \div 8) % 2 = (l \div 8) % 2 /\ (b \div 4) % 2 = (l \div 4) % 2
        /\ (b \div 2) % 2 = (l \div 2) % 2 /\ b % 2 = l % 2
    BY <2>1
  <2>4. /\ z \div 32 = l \div 8 /\ z \div 16 = l \div 4 /\ z \div 8 = l \div 2
    BY <2>1, <2>2 DEF z
  <2>. QED  BY <2>2, <2>3, <2>4
<1>6. /\ (z \div 2^1) % 2 = (c \div 2^7) % 2 /\ (z \div 2^0) % 2 = (c \div 2^6) % 2
  OBVIOUS
<1>7. /\ (w \div 2^5) % 2 = (c \div 2^5) % 2 /\ (w \div 2^4) % 2 = (c \div 2^4) % 2
      /\ (w \div 2^3) % 2 = (c \div 2^3) % 2 /\ (w \div 2^2) % 2 = (c \div 2^2) % 2
      /\ (w \div 2^1) % 2 = (c \div 2^1) % 2 /\ (w \div 2^0) % 2 = (c \div 2^0) % 2
  <2>1. w \in 0..63 /\ c = 64 * (c \div 64) + w /\ c \div 64 \in 0..3
    OBVIOUS
  <2>. HIDE DEF w
  <2>. QED  BY <2>1
<1>. HIDE DEF x, y, z, w
<1>8. CASE r \in 0..5
  <2>1. CASE r = 0   BY <1>1, <1>2, <2>1
  <2>2. CASE r = 1   BY <1>1, <1>2, <2>2
  <2>3. CASE r = 2   BY <1>1, <1>2, <2>3
  <2>4. CASE r = 3   BY <1>1, <1>2, <2>4
  <2>5. CASE r = 4   BY <1>1, <1>2, <2>5
  <2>6. CASE r = 5   BY <1>1, <1>2, <2>6
  <2>. QED  BY <1>8, <2>1, <2>2, <2>3, <2>4, <2>5, <2>6
<1>9. CASE r \in 6..11
  <2>1. CASE r = 6   BY <1>1, <1>3, <2>1
  <2>2. CASE r = 7   BY <1>1, <1>3, <2>2
  <2>3. CASE r = 8   BY <1>1, <1>4, <2>3
  <2>4. CASE r = 9   BY <1>1, <1>4, <2>4
  <2>5. CASE r = 10   BY <1>1, <1>4, <2>5
  <2>6. CASE r = 11   BY <1>1, <1>4, <2>6
  <2>. QED  BY <1>9, <2>1, <2>2, <2>3, <2>4, <2>5, <2>6
<1>10. CASE r \in 12..17
  <2>1. CASE r = 12   BY <1>1, <1>5, <2>1
  <2>2. CASE r = 13   BY <1>1, <1>5, <2>2
  <2>3. CASE r = 14   BY <1>1, <1>5, <2>3
  <2>4. CASE r = 15   BY <1>1, <1>5, <2>4
  <2>5. CASE r = 16   BY <1>1, <1>6, <2>5
  <2>6. CASE r = 17   BY <1>1, <1>6, <2>6
  <2>. QED  BY <1>10, <2>1, <2>2, <2>3, <2>4, <2>5, <2>6
<1>11. CASE r \in 18..23
  <2>1. CASE r = 18   BY <1>1, <1>7, <2>1
  <2>2. CASE r = 19   BY <1>1, <1>7, <2>2
  <2>3. CASE r = 20   BY <1>1, <1>7, <2>3
  <2>4. CASE r = 21   BY <1>1, <1>7, <2>4
  <2>5. CASE r = 22   BY <1>1, <1>7, <2>5
  <2>6. CASE r = 23   BY <1>1, <1>7, <2>6
  <2>. QED  BY <1>11, <2>1, <2>2, <2>3, <2>4, <2>5, <2>6
<1>. QED  BY <1>8, <1>9, <1>10, <1>11

(* The code element by element: the j-th of the sextets of group g.        *)
LEMMA EncodeIs ==
  ASSUME NEW raw \in Seq(0..255)
  PROVE  /\ Base64Encode(raw) \in Seq(0..64) /\ Len(raw) \in Nat
         /\ Len(Base64Encode(raw)) = 4 * ((Len(raw) + 2) \div 3)
         /\ \A g \in Nat, j \in 0..3 : 4 * g + j < 4 * ((Len(raw) + 2) \div 3) =>
              Base64Encode(raw)[4 * g + j + 1] =
                IF 3 * g + j > Len(raw) THEN Pad
                ELSE Sextets(Filled(raw, 3 * g + 1), Filled(raw, 3 * g + 2),
                             Filled(raw, 3 * g + 3))[j + 1]
<1>. DEFINE n == Len(raw)  m == 4 * ((n + 2) \div 3)
            E(g, j) == IF 3 * g + j > n THEN Pad
                       ELSE Sextets(Filled(raw, 3 * g + 1), Filled(raw, 3 * g + 2),
                                    Filled(raw, 3 * g + 3))[j + 1]
<1>1. n \in Nat /\ m \in Nat
  BY LenProperties
<1>2. Base64Encode(raw) = [k \in 1..m |-> E((k - 1) \div 4, (k - 1) % 4)]
  BY DEF Base64Encode, Filled
<1>3. ASSUME NEW g \in Nat, NEW j \in 0..3 PROVE E(g, j) \in 0..64
  <2>. DEFINE a == Filled(raw, 3 * g + 1)  b == Filled(raw, 3 * g + 2)
              c == Filled(raw, 3 * g + 3)
  <2>1. a \in 0..255 /\ b \in 0..255 /\ c \in 0..255
    BY FilledIsByte, SMTT(30)
  <2>. HIDE DEF a, b, c
  <2>2. j + 1 \in 1..4
    OBVIOUS
  <2>3. Sextets(a, b, c)[j + 1] \in 0..63
    BY <2>1, <2>2, SextetsType
  <2>. QED  BY <2>3 DEF Pad, a, b, c
<1>. HIDE DEF n, m, E
<1>4. \A k \in 1..m : (k - 1) \div 4 \in Nat /\ (k - 1) % 4 \in 0..3
  BY <1>1
<1>5. Base64Encode(raw) \in [1..m -> 0..64]
  BY <1>2, <1>3, <1>4, ZenonT(30)
<1>6. Base64Encode(raw) \in Seq(0..64) /\ Len(Base64Encode(raw)) = m
  BY <1>1, <1>5, SequenceOf
<1>7. ASSUME NEW g \in Nat, NEW j \in 0..3, 4 * g + j < m
      PROVE  Base64Encode(raw)[4 * g + j + 1] = E(g, j)
  <2>1. 4 * g + j + 1 \in 1..m /\ (4 * g + j + 1) - 1 = 4 * g + j
    BY <1>1, <1>7
  <2>2. (4 * g + j) \div 4 = g /\ (4 * g + j) % 4 = j
    OBVIOUS
  <2>. QED  BY <1>2, <2>1, <2>2
<1>. QED  BY <1>1, <1>6, <1>7 DEF n, m, E

(* Every number below 4 times another splits into a group and a place.     *)
LEMMA GroupOf ==
  ASSUME NEW k \in Nat
  PROVE  k \div 4 \in Nat /\ k % 4 \in 0..3 /\ k = 4 * (k \div 4) + (k % 4)
  OBVIOUS

(* Where the digits end and the padding begins.                            *)
LEMMA DigitsEnd ==
  ASSUME NEW n \in Nat, NEW g \in Nat, NEW j \in 0..3, 4 * g + j < 4 * ((n + 2) \div 3)
  PROVE  4 * g + j < (8 * n + 5) \div 6 <=> 3 * g + j <= n
<1>. DEFINE d == (8 * n + 5) \div 6
<1>1. d \in Nat /\ 6 * d <= 8 * n + 5 /\ 8 * n + 5 < 6 * d + 6
  OBVIOUS
<1>. HIDE DEF d
<1>2. 3 * g + 1 <= n
  BY DEF d
<1>3. 3 * g + j <= n => 4 * g + j < d
  BY <1>1, <1>2
<1>4. ASSUME 3 * g + j > n PROVE 4 * g + j >= d
  <2>1. j # 0 /\ j # 1
    BY <1>2, <1>4
  <2>2. CASE j = 2
    BY <1>1, <1>4, <2>2
  <2>3. CASE j = 3
    <3>1. n <= 3 * g + 2 /\ 6 * d <= 24 * g + 21
      BY <1>1, <1>4, <2>3
    <3>. QED  BY <1>1, <2>3, <3>1
  <2>. QED  BY <2>1, <2>2, <2>3
<1>6. 4 * g + j < d <=> 3 * g + j <= n
  BY <1>1, <1>3, <1>4
<1>. QED  BY <1>6 DEF d

(* The bits of a text, those past its end too.                             *)
LEMMA TextBit ==
  ASSUME NEW raw \in Seq(0..255), NEW k \in Nat
  PROVE  Bit(raw, 8, k) = (Filled(raw, (k \div 8) + 1) \div 2^(7 - (k % 8))) % 2
<1>1. k \div 8 \in Nat /\ k % 8 \in 0..7 /\ Len(raw) \in Nat /\ 8 - 1 - (k % 8) = 7 - (k % 8)
  BY LenProperties
<1>2. CASE k \div 8 >= Len(raw)
  <2>1. Bit(raw, 8, k) = 0 /\ Filled(raw, (k \div 8) + 1) = 0
    BY <1>1, <1>2 DEF Bit, Filled
  <2>2. 7 - (k % 8) \in 0..7
    BY <1>1
  <2>3. \A e \in 0..7 : (0 \div 2^e) % 2 = 0
    <3>. SUFFICES ASSUME NEW e \in 0..7 PROVE (0 \div 2^e) % 2 = 0
      OBVIOUS
    <3>1. e = 0 \/ e = 1 \/ e = 2 \/ e = 3 \/ e = 4 \/ e = 5 \/ e = 6 \/ e = 7
      OBVIOUS
    <3>2. /\ 2^0 = 1 /\ 2^1 = 2 /\ 2^2 = 4 /\ 2^3 = 8
          /\ 2^4 = 16 /\ 2^5 = 32 /\ 2^6 = 64 /\ 2^7 = 128
      OBVIOUS
    <3>3. \A w \in {1, 2, 4, 8, 16, 32, 64, 128} : (0 \div w) % 2 = 0
      OBVIOUS
    <3>4. 2^e \in {1, 2, 4, 8, 16, 32, 64, 128}
      <4>1. CASE e = 0   BY <3>2, <4>1
      <4>2. CASE e = 1   BY <3>2, <4>2
      <4>3. CASE e = 2   BY <3>2, <4>3
      <4>4. CASE e = 3   BY <3>2, <4>4
      <4>5. CASE e = 4   BY <3>2, <4>5
      <4>6. CASE e = 5   BY <3>2, <4>6
      <4>7. CASE e = 6   BY <3>2, <4>7
      <4>8. CASE e = 7   BY <3>2, <4>8
      <4>. QED  BY <3>1, <4>1, <4>2, <4>3, <4>4, <4>5, <4>6, <4>7, <4>8
    <3>. QED  BY <3>3, <3>4
  <2>. QED  BY <2>1, <2>2, <2>3
<1>3. CASE ~(k \div 8 >= Len(raw))
  BY <1>1, <1>3 DEF Bit, Filled
<1>. QED  BY <1>2, <1>3

(* The encoding has the bits of the text and the padding.                  *)
LEMMA EncodingHasBits ==
  ASSUME NEW raw \in Seq(0..255), NEW k \in 0..(6 * ((8 * Len(raw) + 5) \div 6) - 1)
  PROVE  Bit(Base64Encode(raw), 6, k) = Bit(raw, 8, k)
<1>. DEFINE n == Len(raw)  m == 4 * ((n + 2) \div 3)  d == (8 * n + 5) \div 6
            g == k \div 24  r == k % 24
            F(i) == Filled(raw, 3 * g + i)
<1>1. n \in Nat /\ m \in Nat /\ d \in Nat /\ d <= m /\ k \in Nat /\ k \div 6 < d
  BY LenProperties
<1>2. g \in Nat /\ r \in 0..23 /\ k = 24 * g + r
  BY <1>1
<1>3. /\ k \div 6 = 4 * g + (r \div 6) /\ k % 6 = r % 6 /\ r \div 6 \in 0..3
      /\ k \div 8 = 3 * g + (r \div 8) /\ k % 8 = r % 8 /\ r \div 8 \in 0..2
  <2>1. PICK h \in Nat, e \in 0..23 : h = g /\ e = r /\ k = 24 * h + e
    BY <1>2
  <2>2. r \div 6 \in 0..3 /\ r \div 8 \in 0..2
    BY <1>2
  <2>3. (24 * h + e) \div 6 = 4 * h + (e \div 6) /\ (24 * h + e) % 6 = e % 6
    OBVIOUS
  <2>4. (24 * h + e) \div 8 = 3 * h + (e \div 8) /\ (24 * h + e) % 8 = e % 8
    OBVIOUS
  <2>. HIDE DEF g, r
  <2>. QED  BY <2>1, <2>2, <2>3, <2>4
<1>. HIDE DEF g, r
<1>4. 3 * g + (r \div 6) <= n /\ 4 * g + (r \div 6) < m
  <2>1. 4 * g + (r \div 6) < d
    BY <1>1, <1>3
  <2>2. 4 * g + (r \div 6) < m
    BY <1>1, <1>2, <1>3, <2>1
  <2>. QED  BY <1>1, <1>2, <1>3, <2>1, <2>2, DigitsEnd
<1>5. Base64Encode(raw)[4 * g + (r \div 6) + 1] = Sextets(F(1), F(2), F(3))[(r \div 6) + 1]
  <2>. DEFINE j == r \div 6
  <2>1. j \in 0..3 /\ ~(3 * g + j > n) /\ 4 * g + j < m
    BY <1>1, <1>2, <1>3, <1>4
  <2>. HIDE DEF j
  <2>2. Base64Encode(raw)[4 * g + j + 1] = Sextets(F(1), F(2), F(3))[j + 1]
    BY <1>2, <2>1, EncodeIs
  <2>. QED  BY <2>2 DEF j
<1>6. Bit(Base64Encode(raw), 6, k)
        = (Sextets(F(1), F(2), F(3))[(r \div 6) + 1] \div 2^(5 - (r % 6))) % 2
  <2>1. Len(Base64Encode(raw)) = m /\ ~(k \div 6 >= m) /\ 6 - 1 - (k % 6) = 5 - (r % 6)
    BY <1>1, <1>2, <1>3, <1>4, EncodeIs
  <2>. QED  BY <1>3, <1>5, <2>1 DEF Bit
<1>7. F(1) \in 0..255 /\ F(2) \in 0..255 /\ F(3) \in 0..255
  BY <1>2, FilledIsByte, SMTT(30)
<1>8. <<F(1), F(2), F(3)>>[(r \div 8) + 1] = Filled(raw, (k \div 8) + 1)
  <2>1. r \div 8 = 0 \/ r \div 8 = 1 \/ r \div 8 = 2
    BY <1>3
  <2>. QED  BY <1>2, <1>3, <2>1, SMTT(30)
<1>9. (Sextets(F(1), F(2), F(3))[(r \div 6) + 1] \div 2^(5 - (r % 6))) % 2
        = (<<F(1), F(2), F(3)>>[(r \div 8) + 1] \div 2^(7 - (r % 8))) % 2
  <2>. HIDE DEF F
  <2>. QED  BY <1>2, <1>7, SextetBits, ZenonT(30)
<1>10. Bit(raw, 8, k) = (Filled(raw, (k \div 8) + 1) \div 2^(7 - (r % 8))) % 2
  BY <1>1, <1>3, TextBit
<1>. HIDE DEF F
<1>. QED  BY <1>6, <1>8, <1>9, <1>10

(* The Authorization line holds the Base64 of the user and the password,   *)
(* however long they are, as any other caster or client computes it.       *)
THEOREM EncodingIsBase64 == Spec => []EncodesBits
<1>1. ASSUME NEW raw \in Seq(0..255), NEW k \in DOMAIN Base64Encode(raw)
      PROVE  Base64Encode(raw)[k] = Pad <=> k > (8 * Len(raw) + 5) \div 6
  <2>. DEFINE n == Len(raw)  g == (k - 1) \div 4  j == (k - 1) % 4
  <2>1. n \in Nat /\ k \in 1..(4 * ((n + 2) \div 3))
    BY EncodeIs, LenProperties
  <2>2. g \in Nat /\ j \in 0..3 /\ k = 4 * g + j + 1 /\ 4 * g + j < 4 * ((n + 2) \div 3)
    <3>1. k - 1 \in Nat
      BY <2>1
    <3>2. g \in Nat /\ j \in 0..3 /\ k - 1 = 4 * g + j
      BY <3>1, GroupOf
    <3>. HIDE DEF g, j
    <3>. QED  BY <2>1, <3>2
  <2>. HIDE DEF g, j
  <2>. DEFINE S == Sextets(Filled(raw, 3 * g + 1), Filled(raw, 3 * g + 2),
                           Filled(raw, 3 * g + 3))[j + 1]
  <2>3. S \in 0..63
    <3>. DEFINE a == Filled(raw, 3 * g + 1)  b == Filled(raw, 3 * g + 2)
                c == Filled(raw, 3 * g + 3)
    <3>1. a \in 0..255 /\ b \in 0..255 /\ c \in 0..255
      BY <2>2, FilledIsByte, SMTT(30)
    <3>. HIDE DEF a, b, c
    <3>2. j + 1 \in 1..4
      BY <2>2
    <3>3. Sextets(a, b, c)[j + 1] \in 0..63
      BY <3>1, <3>2, SextetsType
    <3>. QED  BY <3>3 DEF a, b, c
  <2>4. Base64Encode(raw)[k] = IF 3 * g + j > n THEN Pad ELSE S
    BY <2>2, EncodeIs
  <2>5. 4 * g + j < (8 * n + 5) \div 6 <=> 3 * g + j <= n
    BY <2>1, <2>2, DigitsEnd
  <2>. HIDE DEF S
  <2>. QED  BY <2>1, <2>2, <2>3, <2>4, <2>5 DEF Pad
<1>2. TextInv => EncodesBits
  BY <1>1, TextFacts, EncodeIs, EncodingHasBits DEF TextInv, EncodesBits
<1>. QED  BY <1>2, TextInvariant, PTL

(* What decoding makes of the sextets of three bytes is the three bytes.   *)
LEMMA OctetsOfSextets ==
  ASSUME NEW a \in 0..255, NEW b \in 0..255, NEW c \in 0..255
  PROVE  LET S == Sextets(a, b, c)
         IN Octets(S[1], S[2], S[3], S[4]) = <<a, b, c>>
<1>. DEFINE x == a \div 4  y == (a % 4) * 16 + (b \div 16)
            z == (b % 16) * 4 + (c \div 64)  w == c % 64
<1>1. Sextets(a, b, c) = <<x, y, z, w>>
  BY DEF Sextets
<1>2. x * 4 + (y \div 16) = a
  OBVIOUS
<1>3. (y % 16) * 16 + (z \div 4) = b
  <2>1. y % 16 = b \div 16
    OBVIOUS
  <2>2. z \div 4 = b % 16
    <3>1. c \div 64 \in 0..3
      OBVIOUS
    <3>. QED  BY <3>1
  <2>. HIDE DEF y, z
  <2>. QED  BY <2>1, <2>2
<1>4. (z % 4) * 64 + w = c
  <2>1. z % 4 = c \div 64
    OBVIOUS
  <2>. HIDE DEF z
  <2>. QED  BY <2>1
<1>. HIDE DEF x, y, z, w
<1>. QED  BY <1>1, <1>2, <1>3, <1>4 DEF Octets

(* The j-th element of group g is padding, or a sextet that is not.        *)
LEMMA CodeAt ==
  ASSUME NEW raw \in Seq(0..255), NEW g \in Nat, NEW j \in 0..3,
         g < (Len(raw) + 2) \div 3
  PROVE  LET c == Base64Encode(raw)[4 * g + j + 1]
             S == Sextets(Filled(raw, 3 * g + 1), Filled(raw, 3 * g + 2),
                          Filled(raw, 3 * g + 3))
         IN /\ S[j + 1] \in 0..63
            /\ 3 * g + j > Len(raw) => c = Pad
            /\ 3 * g + j <= Len(raw) => c = S[j + 1] /\ c # Pad
<1>. DEFINE n == Len(raw)  G == (n + 2) \div 3
            S == Sextets(Filled(raw, 3 * g + 1), Filled(raw, 3 * g + 2),
                         Filled(raw, 3 * g + 3))
<1>1. S[j + 1] \in 0..63
  <2>. DEFINE a == Filled(raw, 3 * g + 1)  b == Filled(raw, 3 * g + 2)
              c == Filled(raw, 3 * g + 3)
  <2>1. a \in 0..255 /\ b \in 0..255 /\ c \in 0..255
    BY FilledIsByte, SMTT(30)
  <2>. HIDE DEF a, b, c
  <2>2. j + 1 \in 1..4
    OBVIOUS
  <2>3. Sextets(a, b, c)[j + 1] \in 0..63
    BY <2>1, <2>2, SextetsType
  <2>. QED  BY <2>3 DEF a, b, c
<1>2. n \in Nat /\ G \in Nat /\ 4 * g + j < 4 * G
  BY LenProperties
<1>3. Base64Encode(raw)[4 * g + j + 1] = IF 3 * g + j > n THEN Pad ELSE S[j + 1]
  BY <1>2, EncodeIs
<1>. HIDE DEF S
<1>4. 3 * g + j <= n <=> ~(3 * g + j > n)
  BY <1>2
<1>5. S[j + 1] # Pad
  <2>1. PICK v \in 0..63 : S[j + 1] = v
    BY <1>1
  <2>. QED  BY <2>1 DEF Pad
<1>6. /\ S[j + 1] \in 0..63
      /\ 3 * g + j > n => Base64Encode(raw)[4 * g + j + 1] = Pad
      /\ 3 * g + j <= n => /\ Base64Encode(raw)[4 * g + j + 1] = S[j + 1]
                           /\ Base64Encode(raw)[4 * g + j + 1] # Pad
  BY <1>1, <1>3, <1>4, <1>5
<1>. QED  BY <1>6 DEF S

(* The number of bytes that decoding the code of n bytes yields: one more  *)
(* when the last group is padded.                                          *)
Yield(n) == IF n % 3 = 0 THEN n ELSE n + 1

LEMMA DecodedLenOfCode ==
  ASSUME NEW raw \in Seq(0..255)
  PROVE  LET code == Base64Encode(raw)
             padded == {g \in 1..(Len(code) \div 4) : Pad \in {code[4 * g - 1], code[4 * g]}}
             last == IF padded = {} THEN Len(code) \div 4
                     ELSE CHOOSE g \in padded : \A h \in padded : g <= h
         IN DecodedLen(code, last) = Yield(Len(raw))
<1>. DEFINE n == Len(raw)  G == (n + 2) \div 3  code == Base64Encode(raw)
            padded == {g \in 1..(Len(code) \div 4) : Pad \in {code[4 * g - 1], code[4 * g]}}
            last == IF padded = {} THEN Len(code) \div 4
                    ELSE CHOOSE g \in padded : \A h \in padded : g <= h
<1>1. n \in Nat /\ G \in Nat /\ 3 * G <= n + 2 /\ n <= 3 * G
  BY LenProperties
<1>2. Len(code) \div 4 = G
  <2>1. Len(code) = 4 * G
    BY EncodeIs
  <2>. HIDE DEF code, G
  <2>. QED  BY <1>1, <2>1
<1>. HIDE DEF G
<1>3. ASSUME NEW g \in 1..G
      PROVE  (code[4 * g - 1] = Pad <=> 3 * g - 1 > n) /\ (code[4 * g] = Pad <=> 3 * g > n)
  <2>1. PICK h \in Nat : g = h + 1 /\ h < G
    <3>1. g - 1 \in Nat /\ g = (g - 1) + 1 /\ g - 1 < G
      BY <1>1
    <3>. QED  BY <3>1
  <2>2. /\ 4 * g - 1 = 4 * h + 2 + 1 /\ 4 * g = 4 * h + 3 + 1
        /\ 3 * g - 1 = 3 * h + 2 /\ 3 * g = 3 * h + 3
    BY <2>1
  <2>3. code[4 * h + 2 + 1] = Pad <=> 3 * h + 2 > n
    BY <1>1, <2>1, CodeAt DEF G
  <2>4. code[4 * h + 3 + 1] = Pad <=> 3 * h + 3 > n
    BY <1>1, <2>1, CodeAt DEF G
  <2>. QED  BY <2>2, <2>3, <2>4
<1>. HIDE DEF code
<1>4. padded = {g \in 1..G : 3 * g > n}
  <2>1. ASSUME NEW g \in 1..G
        PROVE  Pad \in {code[4 * g - 1], code[4 * g]} <=> 3 * g > n
    <3>1. 3 * g - 1 > n => 3 * g > n
      BY <1>1
    <3>2. Pad \in {code[4 * g - 1], code[4 * g]}
            <=> code[4 * g - 1] = Pad \/ code[4 * g] = Pad
      OBVIOUS
    <3>. QED  BY <1>3, <3>1, <3>2
  <2>. QED  BY <1>2, <2>1
<1>5. last = G
  <2>1. CASE n % 3 = 0
    <3>1. n = 3 * G
      BY <1>1, <2>1
    <3>2. padded = {}
      BY <1>1, <1>4, <3>1
    <3>. QED  BY <1>2, <3>2
  <2>2. CASE n % 3 # 0
    <3>1. G \in 1..G /\ 3 * G > n /\ \A g \in 1..G : 3 * g > n => g = G
      BY <1>1, <2>2
    <3>2. padded = {G}
      BY <1>4, <3>1
    <3>. HIDE DEF padded
    <3>3. G <= G
      BY <1>1
    <3>. QED  BY <3>2, <3>3
  <2>. QED  BY <2>1, <2>2
<1>. HIDE DEF last
<1>6. DecodedLen(code, G) = Yield(n)
  <2>1. CASE G = 0
    BY <1>1, <2>1 DEF DecodedLen, Yield
  <2>2. CASE G # 0
    <3>1. code[4 * G - 1] = Pad <=> 3 * G - 1 > n
      BY <1>1, <1>3, <2>2
    <3>2. Yield(n) = IF 3 * G - 1 > n THEN 3 * G - 1 ELSE 3 * G
      BY <1>1, SMTT(30) DEF Yield
    <3>. QED  BY <2>2, <3>1, <3>2 DEF DecodedLen
  <2>. QED  BY <2>1, <2>2
<1>7. DecodedLen(code, last) = Yield(n)
  BY <1>5, <1>6
<1>. QED  BY <1>7 DEF last, code

(* Decoding returns what was encoded, and a zero if it ends in a padding.  *)
LEMMA RoundTrip ==
  ASSUME NEW raw \in Seq(0..255)
  PROVE  Base64Decode(Base64Encode(raw)) = [k \in 1..Yield(Len(raw)) |-> Filled(raw, k)]
<1>. DEFINE n == Len(raw)  G == (n + 2) \div 3  code == Base64Encode(raw)
            Sextet(k) == IF code[k] = Pad THEN 0 ELSE code[k]
            D(k) == Octets(code[4 * ((k - 1) \div 3) + 1], code[4 * ((k - 1) \div 3) + 2],
                           Sextet(4 * ((k - 1) \div 3) + 3),
                           Sextet(4 * ((k - 1) \div 3) + 4))[((k - 1) % 3) + 1]
<1>1. n \in Nat /\ G \in Nat /\ 3 * G <= n + 2 /\ n <= 3 * G /\ Yield(n) \in Nat
  BY LenProperties DEF Yield
<1>2. Base64Decode(code) = [k \in 1..Yield(n) |-> D(k)]
  BY DecodedLenOfCode DEF Base64Decode
<1>3. ASSUME NEW k \in 1..Yield(n) PROVE D(k) = Filled(raw, k)
  <2>. DEFINE g == (k - 1) \div 3  i == (k - 1) % 3
              F(e) == Filled(raw, 3 * g + e)
              S == Sextets(F(1), F(2), F(3))
  <2>1. k - 1 \in Nat /\ k <= n + 1 /\ (n % 3 = 0 => k <= n)
    BY <1>1 DEF Yield
  <2>2. g \in Nat /\ i \in 0..2 /\ k = 3 * g + i + 1
    BY <2>1
  <2>. HIDE DEF g, i
  <2>3. g < G /\ 3 * g <= n /\ 3 * g + 1 <= n
    <3>1. 3 * g < n
      <4>1. CASE n % 3 = 0
        BY <1>1, <2>1, <2>2, <4>1
      <4>2. CASE n % 3 # 0
        <5>1. 3 * g + i <= n
          BY <1>1, <2>1, <2>2
        <5>2. 3 * g # n
          BY <1>1, <2>2, <4>2, SMTT(30)
        <5>. QED  BY <1>1, <2>2, <5>1, <5>2
      <4>. QED  BY <4>1, <4>2
    <3>. QED  BY <1>1, <2>2, <3>1
  <2>4. F(1) \in 0..255 /\ F(2) \in 0..255 /\ F(3) \in 0..255
    BY <2>2, FilledIsByte, SMTT(30)
  <2>5. code[4 * g + 1] = S[1]
    <3>1. code[4 * g + 0 + 1] = S[0 + 1]
      BY <1>1, <2>2, <2>3, CodeAt
    <3>. HIDE DEF code, S
    <3>. QED  BY <2>2, <3>1
  <2>6. code[4 * g + 2] = S[2]
    <3>1. code[4 * g + 1 + 1] = S[1 + 1]
      BY <1>1, <2>2, <2>3, CodeAt
    <3>. HIDE DEF code, S
    <3>. QED  BY <2>2, <3>1
  <2>7. Sextet(4 * g + 3) = S[3]
    <3>1. /\ 3 * g + 2 > n => code[4 * g + 2 + 1] = Pad
          /\ 3 * g + 2 <= n => code[4 * g + 2 + 1] = S[2 + 1] /\ code[4 * g + 2 + 1] # Pad
      BY <1>1, <2>2, <2>3, CodeAt
    <3>2. 4 * g + 2 + 1 = 4 * g + 3 /\ 2 + 1 = 3
      BY <2>2
    <3>3. CASE 3 * g + 2 <= n
      <4>. HIDE DEF code, S
      <4>. QED  BY <3>1, <3>2, <3>3
    <3>4. CASE 3 * g + 2 > n
      <4>1. F(2) = 0 /\ F(3) = 0
        BY <1>1, <2>2, <3>4 DEF Filled
      <4>2. S[3] = 0
        BY <4>1 DEF Sextets
      <4>. HIDE DEF code, S, F
      <4>. QED  BY <3>1, <3>2, <3>4, <4>2
    <3>. QED  BY <1>1, <2>2, <3>3, <3>4
  <2>8. Sextet(4 * g + 4) = S[4]
    <3>1. /\ 3 * g + 3 > n => code[4 * g + 3 + 1] = Pad
          /\ 3 * g + 3 <= n => code[4 * g + 3 + 1] = S[3 + 1] /\ code[4 * g + 3 + 1] # Pad
      BY <1>1, <2>2, <2>3, CodeAt
    <3>2. 4 * g + 3 + 1 = 4 * g + 4 /\ 3 + 1 = 4
      BY <2>2
    <3>3. CASE 3 * g + 3 <= n
      <4>. HIDE DEF code, S
      <4>. QED  BY <3>1, <3>2, <3>3
    <3>4. CASE 3 * g + 3 > n
      <4>1. F(3) = 0
        BY <1>1, <2>2, <3>4 DEF Filled
      <4>2. S[4] = 0
        BY <4>1 DEF Sextets
      <4>. HIDE DEF code, S, F
      <4>. QED  BY <3>1, <3>2, <3>4, <4>2
    <3>. QED  BY <1>1, <2>2, <3>3, <3>4
  <2>9. Octets(S[1], S[2], S[3], S[4]) = <<F(1), F(2), F(3)>>
    <3>. HIDE DEF F
    <3>. QED  BY <2>4, OctetsOfSextets
  <2>10. D(k) = Octets(code[4 * g + 1], code[4 * g + 2], Sextet(4 * g + 3),
                       Sextet(4 * g + 4))[i + 1]
    BY DEF g, i
  <2>. HIDE DEF code, Sextet, S, D
  <2>11. D(k) = <<F(1), F(2), F(3)>>[i + 1]
    BY <2>5, <2>6, <2>7, <2>8, <2>9, <2>10
  <2>12. i = 0 \/ i = 1 \/ i = 2
    BY <2>2
  <2>. QED  BY <2>2, <2>11, <2>12
<1>. HIDE DEF D, code
<1>4. Base64Decode(code) = [k \in 1..Yield(n) |-> Filled(raw, k)]
  BY <1>2, <1>3
<1>. QED  BY <1>4 DEF code

(* The caster finds the user and the password at their places in the text, *)
(* the password followed by a zero if decoding appended one.               *)
LEMMA PresentsIs ==
  ASSUME NEW raw \in Seq(Bytes), IsLogin(raw)
  PROVE  \E p \in 2..(Len(raw) - 1) : \E user \in Seq(Int), passwd \in Seq(Int) :
           /\ Presents(raw) = <<user, passwd>> /\ raw[p] = Colon
           /\ Len(user) = p - 1 /\ \A k \in 1..(p - 1) : user[k] = raw[k]
           /\ Len(passwd) = Yield(Len(raw)) - p
           /\ \A k \in 1..(Yield(Len(raw)) - p) : passwd[k] = Filled(raw, p + k)
<1>. DEFINE n == Len(raw)  D == Base64Decode(Base64Encode(raw))
            p == Find(raw, <<Colon>>, 1)
            user == SubSeq(D, 1, p - 1)  passwd == SubSeq(D, p + 1, Len(D))
<1>1. /\ raw \in Seq(0..255) /\ raw \in Seq(Int) /\ n \in Nat
      /\ Yield(n) \in Nat /\ n <= Yield(n) /\ Yield(n) <= n + 1
  <2>1. raw \in Seq(0..255) /\ n \in Nat
    BY TextFacts
  <2>2. raw \in [1..n -> 0..255]
    BY <2>1, LenProperties
  <2>. HIDE DEF n
  <2>3. raw \in [1..n -> Int]
    <3>1. 0..255 \subseteq Int
      OBVIOUS
    <3>. QED  BY <2>2, <3>1
  <2>. QED  BY <2>1, <2>3, SequenceOf DEF Yield
<1>2. D = [k \in 1..Yield(n) |-> Filled(raw, k)]
  BY <1>1, RoundTrip
<1>3. p \in 2..(n - 1)
  BY DEF IsLogin
<1>. HIDE DEF n, D
<1>4. ASSUME NEW k \in 1..Yield(n) PROVE D[k] = Filled(raw, k) /\ D[k] \in Int
  <2>1. k \in Nat \ {0}
    BY <1>1
  <2>2. Filled(raw, k) \in 0..255
    BY <1>1, <2>1, FilledIsByte
  <2>3. D[k] = Filled(raw, k)
    BY <1>2
  <2>4. 0..255 \subseteq Int
    OBVIOUS
  <2>5. D[k] \in Int
    BY <2>2, <2>3, <2>4, Zenon
  <2>. QED  BY <2>3, <2>5
<1>5. D \in Seq(Int) /\ Len(D) = Yield(n)
  <2>1. D \in [1..Yield(n) -> Int]
    BY <1>2, <1>4
  <2>. QED  BY <1>1, <2>1, SequenceOf
<1>6. ASSUME NEW k \in 1..n PROVE D[k] = raw[k]
  BY <1>1, <1>4 DEF Filled, n
<1>7. Places(raw, <<Colon>>, 1) = {k \in 1..n : raw[k] = Colon}
  BY <1>1, PlacesOfByte DEF Colon, n
<1>8. Places(D, <<Colon>>, 1) = {k \in 1..Yield(n) : D[k] = Colon}
  BY <1>5, PlacesOfByte DEF Colon
<1>9. p \in Places(raw, <<Colon>>, 1) /\ \A j \in Places(raw, <<Colon>>, 1) : p <= j
  BY <1>3, Found
<1>. HIDE DEF p
<1>10. raw[p] = Colon /\ p \in 1..n /\ D[p] = Colon
  BY <1>3, <1>6, <1>7, <1>9
<1>11. Find(D, <<Colon>>, 1) = p
  <2>1. p \in Places(D, <<Colon>>, 1)
    <3>1. p \in 1..Yield(n)
      BY <1>1, <1>10
    <3>. QED  BY <1>8, <1>10, <3>1
  <2>2. ASSUME NEW j \in Places(D, <<Colon>>, 1) PROVE p <= j
    <3>1. j \in 1..Yield(n) /\ D[j] = Colon
      BY <1>8
    <3>2. CASE j <= n
      BY <1>6, <1>7, <1>9, <3>1, <3>2
    <3>3. CASE j > n
      BY <1>1, <1>10, <3>1, <3>3
    <3>. QED  BY <1>1, <3>1, <3>2, <3>3
  <2>. QED  BY <2>1, <2>2, FindIs
<1>12. Presents(raw) = <<user, passwd>>
  BY <1>11 DEF Presents, Login, D
<1>13. /\ user \in Seq(Int) /\ Len(user) = p - 1
       /\ \A k \in 1..(p - 1) : user[k] = raw[k]
  <2>1. \A k \in 1..(p - 1) : D[k] \in Int /\ D[k] = raw[k]
    BY <1>1, <1>3, <1>4, <1>6
  <2>2. p - 1 \in Int /\ 1 <= p - 1 /\ (p - 1) - 1 + 1 = p - 1
    BY <1>1, <1>3
  <2>3. /\ user \in Seq(Int) /\ Len(user) = p - 1
        /\ \A k \in 1..(p - 1) : user[k] = D[1 + k - 1]
    BY <2>1, <2>2, SubSeqProperties
  <2>4. \A k \in 1..(p - 1) : 1 + k - 1 = k
    OBVIOUS
  <2>. QED  BY <2>1, <2>3, <2>4
<1>14. /\ passwd \in Seq(Int) /\ Len(passwd) = Yield(n) - p
       /\ \A k \in 1..(Yield(n) - p) : passwd[k] = Filled(raw, p + k)
  <2>1. \A k \in (p + 1)..Yield(n) : D[k] \in Int
    BY <1>1, <1>3, <1>4
  <2>2. /\ p + 1 \in Int /\ Yield(n) \in Int /\ p + 1 <= Yield(n)
        /\ Yield(n) - (p + 1) + 1 = Yield(n) - p
    BY <1>1, <1>3
  <2>3. /\ passwd \in Seq(Int) /\ Len(passwd) = Yield(n) - p
        /\ \A k \in 1..(Yield(n) - p) : passwd[k] = D[(p + 1) + k - 1]
    BY <1>5, <2>1, <2>2, SubSeqProperties
  <2>4. ASSUME NEW k \in 1..(Yield(n) - p) PROVE D[(p + 1) + k - 1] = Filled(raw, p + k)
    <3>1. (p + 1) + k - 1 = p + k /\ p + k \in 1..Yield(n)
      BY <1>1, <1>3
    <3>. QED  BY <1>4, <3>1
  <2>. QED  BY <2>3, <2>4
<1>. HIDE DEF user, passwd
<1>. QED  BY <1>3, <1>10, <1>12, <1>13, <1>14 DEF n

(* Two logins of any length that the caster finds alike, after encoding,   *)
(* decoding and splitting, are the same: none gets at a mount point with   *)
(* other credentials than those its server registered.                     *)
THEOREM LoginsDiffer ==
  ASSUME NEW raw \in Seq(Bytes), IsLogin(raw), NEW s \in Seq(Bytes), IsLogin(s),
         Presents(raw) = Presents(s)
  PROVE  raw = s
<1>. DEFINE n == Len(raw)  m == Len(s)
<1>1. /\ n \in Nat /\ m \in Nat
      /\ \A k \in 1..n : raw[k] \in 1..255
      /\ \A k \in 1..m : s[k] \in 1..255
  BY TextFacts
<1>2. PICK p \in 2..(n - 1), u \in Seq(Int), w \in Seq(Int) :
        /\ Presents(raw) = <<u, w>> /\ raw[p] = Colon
        /\ Len(u) = p - 1 /\ \A k \in 1..(p - 1) : u[k] = raw[k]
        /\ Len(w) = Yield(n) - p
        /\ \A k \in 1..(Yield(n) - p) : w[k] = Filled(raw, p + k)
  BY PresentsIs
<1>3. PICK q \in 2..(m - 1), v \in Seq(Int), x \in Seq(Int) :
        /\ Presents(s) = <<v, x>> /\ s[q] = Colon
        /\ Len(v) = q - 1 /\ \A k \in 1..(q - 1) : v[k] = s[k]
        /\ Len(x) = Yield(m) - q
        /\ \A k \in 1..(Yield(m) - q) : x[k] = Filled(s, q + k)
  BY PresentsIs
<1>4. u = v /\ w = x
  <2>1. <<u, w>> = <<v, x>>
    BY <1>2, <1>3
  <2>2. <<u, w>>[1] = u /\ <<u, w>>[2] = w /\ <<v, x>>[1] = v /\ <<v, x>>[2] = x
    OBVIOUS
  <2>. QED  BY <2>1, <2>2, Zenon
<1>. HIDE DEF n, m
<1>5. p = q
  <2>1. p - 1 = q - 1
    BY <1>2, <1>3, <1>4
  <2>. QED  BY <1>1, <2>1
<1>6. Yield(n) = Yield(m) /\ Yield(n) \in Nat /\ p \in Nat /\ p < n /\ p < m
  <2>1. Yield(n) \in Nat /\ Yield(m) \in Nat
    BY <1>1 DEF Yield
  <2>2. Yield(n) - p = Yield(m) - p
    BY <1>2, <1>3, <1>4, <1>5
  <2>. QED  BY <1>1, <1>5, <2>1, <2>2
<1>7. ASSUME NEW k \in (p + 1)..Yield(n) PROVE Filled(raw, k) = Filled(s, k)
  <2>1. k - p \in 1..(Yield(n) - p) /\ p + (k - p) = k
    BY <1>1, <1>6
  <2>. QED  BY <1>2, <1>3, <1>4, <1>5, <1>6, <2>1
<1>8. n = m
  <2>1. /\ Yield(n) \in {n, n + 1} /\ Yield(m) \in {m, m + 1}
    BY DEF Yield
  <2>2. CASE m = n + 1
    <3>1. m \in (p + 1)..Yield(n) /\ m \in 1..m /\ ~(m <= n)
      BY <1>1, <1>6, <2>1, <2>2
    <3>2. Filled(raw, m) = 0
      BY <3>1 DEF Filled, n
    <3>3. Filled(s, m) = s[m]
      BY <1>1 DEF Filled, m
    <3>4. s[m] = 0 /\ s[m] \in 1..255
      BY <1>1, <1>7, <3>1, <3>2, <3>3
    <3>. QED  BY <3>4
  <2>3. CASE n = m + 1
    <3>1. n \in (p + 1)..Yield(n) /\ n \in 1..n /\ ~(n <= m)
      BY <1>1, <1>6, <2>1, <2>3
    <3>2. Filled(s, n) = 0
      BY <3>1 DEF Filled, m
    <3>3. Filled(raw, n) = raw[n]
      BY <1>1 DEF Filled, n
    <3>4. raw[n] = 0 /\ raw[n] \in 1..255
      BY <1>1, <1>7, <3>1, <3>2, <3>3
    <3>. QED  BY <3>4
  <2>. QED  BY <1>1, <1>6, <2>1, <2>2, <2>3
<1>9. ASSUME NEW k \in 1..n PROVE raw[k] = s[k]
  <2>1. CASE k < p
    <3>1. k \in 1..(p - 1)
      BY <1>1, <1>6, <2>1
    <3>. QED  BY <1>2, <1>3, <1>4, <1>5, <3>1
  <2>2. CASE k = p
    BY <1>2, <1>3, <1>5, <2>2
  <2>3. CASE k > p
    <3>1. k \in (p + 1)..Yield(n) /\ k <= n /\ k <= m
      BY <1>1, <1>6, <1>8, <2>3 DEF Yield
    <3>2. Filled(raw, k) = raw[k] /\ Filled(s, k) = s[k]
      BY <3>1 DEF Filled, n, m
    <3>. QED  BY <1>7, <3>1, <3>2
  <2>. QED  BY <1>1, <1>6, <2>1, <2>2, <2>3
<1>. QED  BY <1>8, <1>9, SeqEqual DEF n, m

(* However long the credentials a client sends: the caster takes them for  *)
(* one of the short logins exactly when they are the same.                 *)
THEOREM AdmissionIsExact == Spec => []AdmitsIffEqual
<1>1. TextInv => AdmitsIffEqual
  <2>. SUFFICES ASSUME TextInv, IsLogin(text), NEW s \in Logins
                PROVE  Presents(text) = Known[s] <=> text = s
    BY DEF AdmitsIffEqual
  <2>1. IsLogin(s) /\ Known[s] = Presents(s)
    BY DEF Logins, Known
  <2>2. s \in Seq(Bytes)
    <3>1. PICK n \in 3..4 : s \in [1..n -> Bytes]
      BY DEF Logins
    <3>. QED  BY <3>1, SequenceOf
  <2>3. text \in Seq(Bytes)
    BY DEF TextInv
  <2>. QED  BY <2>1, <2>2, <2>3, LoginsDiffer
<1>. QED  BY <1>1, TextInvariant, PTL

-----------------------------------------------------------------------------
(* Checksums.                                                              *)

Weights == {1, 2, 4, 8, 16, 32, 64, 128}

(* The places of s that have the bit of weight w set.                      *)
SetBits(s, w) == {k \in DOMAIN s : (s[k] \div w) % 2 = 1}

LEMMA SetBitsFinite ==
  ASSUME NEW s \in Seq(0..255), NEW w \in Weights
  PROVE  IsFiniteSet(SetBits(s, w)) /\ Cardinality(SetBits(s, w)) \in Nat
<1>1. Len(s) \in Nat /\ DOMAIN s = 1..Len(s)
  BY LenProperties
<1>2. SetBits(s, w) \subseteq 1..Len(s)
  BY <1>1 DEF SetBits
<1>3. IsFiniteSet(1..Len(s))
  BY <1>1, FS_Interval
<1>4. IsFiniteSet(SetBits(s, w))
  BY <1>2, <1>3, FS_Subset
<1>. QED  BY <1>4, FS_CardinalityType

LEMMA ParityType ==
  ASSUME NEW s \in Seq(0..255), NEW w \in Weights
  PROVE  Parity(s, w) = Cardinality(SetBits(s, w)) % 2 /\ Parity(s, w) \in 0..1
<1>1. Cardinality(SetBits(s, w)) \in Nat
  BY SetBitsFinite
<1>2. Parity(s, w) = Cardinality(SetBits(s, w)) % 2
  BY DEF Parity, SetBits
<1>. QED  BY <1>1, <1>2

(* A sum is a byte, and has the parities as its bits.                      *)
LEMMA XorFacts ==
  ASSUME NEW s \in Seq(0..255)
  PROVE  /\ XorOf(s) \in 0..255
         /\ \A t \in Seq(0..255) :
              XorOf(s) = XorOf(t) <=> \A w \in Weights : Parity(s, w) = Parity(t, w)
<1>. DEFINE a == Parity(s, 1)  b == Parity(s, 2)  c == Parity(s, 4)  d == Parity(s, 8)
            e == Parity(s, 16)  f == Parity(s, 32)  g == Parity(s, 64)  h == Parity(s, 128)
<1>1. ASSUME NEW u \in Seq(0..255)
      PROVE  /\ Parity(u, 1) \in 0..1 /\ Parity(u, 2) \in 0..1 /\ Parity(u, 4) \in 0..1
             /\ Parity(u, 8) \in 0..1 /\ Parity(u, 16) \in 0..1 /\ Parity(u, 32) \in 0..1
             /\ Parity(u, 64) \in 0..1 /\ Parity(u, 128) \in 0..1
  BY ParityType DEF Weights
<1>2. /\ a \in 0..1 /\ b \in 0..1 /\ c \in 0..1 /\ d \in 0..1
      /\ e \in 0..1 /\ f \in 0..1 /\ g \in 0..1 /\ h \in 0..1
  BY <1>1
<1>3. XorOf(s) = a + 2 * b + 4 * c + 8 * d + 16 * e + 32 * f + 64 * g + 128 * h
  BY Zenon DEF XorOf
<1>4. XorOf(s) \in 0..255
  <2>. HIDE DEF a, b, c, d, e, f, g, h
  <2>. QED  BY <1>2, <1>3
<1>5. ASSUME NEW t \in Seq(0..255), \A w \in Weights : Parity(s, w) = Parity(t, w)
      PROVE  XorOf(s) = XorOf(t)
  BY <1>5, Zenon DEF XorOf, Weights
<1>6. ASSUME NEW t \in Seq(0..255), XorOf(s) = XorOf(t), NEW w \in Weights
      PROVE  Parity(s, w) = Parity(t, w)
  <2>. DEFINE k == Parity(t, 1)  l == Parity(t, 2)  m == Parity(t, 4)  n == Parity(t, 8)
              o == Parity(t, 16)  p == Parity(t, 32)  q == Parity(t, 64)  r == Parity(t, 128)
  <2>1. /\ k \in 0..1 /\ l \in 0..1 /\ m \in 0..1 /\ n \in 0..1
        /\ o \in 0..1 /\ p \in 0..1 /\ q \in 0..1 /\ r \in 0..1
    BY <1>1
  <2>2. XorOf(t) = k + 2 * l + 4 * m + 8 * n + 16 * o + 32 * p + 64 * q + 128 * r
    BY Zenon DEF XorOf
  <2>3. a + 2 * b + 4 * c + 8 * d + 16 * e + 32 * f + 64 * g + 128 * h
          = k + 2 * l + 4 * m + 8 * n + 16 * o + 32 * p + 64 * q + 128 * r
    <3>. HIDE DEF a, b, c, d, e, f, g, h, k, l, m, n, o, p, q, r
    <3>. QED  BY <1>3, <1>6, <2>2, Zenon
  <2>4. a = k /\ b = l /\ c = m /\ d = n /\ e = o /\ f = p /\ g = q /\ h = r
    <3>. HIDE DEF a, b, c, d, e, f, g, h, k, l, m, n, o, p, q, r
    <3>. QED  BY <1>2, <2>1, <2>3
  <2>. QED  BY <2>4 DEF Weights
<1>. QED  BY <1>4, <1>5, <1>6

(* The terminating zero adds nothing.                                      *)
LEMMA ZeroAddsNothing ==
  ASSUME NEW s \in Seq(0..255) PROVE Checksum(s) = XorOf(s)
<1>. DEFINE t == s \o <<0>>
<1>1. <<0>> \in Seq(0..255) /\ Len(<<0>>) = 1 /\ <<0>>[1] = 0
  OBVIOUS
<1>2. /\ t \in Seq(0..255) /\ Len(t) = Len(s) + 1 /\ Len(s) \in Nat
      /\ DOMAIN t = 1..(Len(s) + 1) /\ DOMAIN s = 1..Len(s)
  BY <1>1, ConcatProperties, LenProperties
<1>3. (\A k \in 1..Len(s) : t[k] = s[k]) /\ t[Len(s) + 1] = 0
  <2>1. \A k \in 1..(Len(s) + Len(<<0>>)) :
          t[k] = IF k <= Len(s) THEN s[k] ELSE <<0>>[k - Len(s)]
    BY <1>1, ConcatProperties
  <2>. HIDE DEF t
  <2>. QED  BY <1>1, <1>2, <2>1
<1>. HIDE DEF t
<1>4. ASSUME NEW w \in Weights PROVE Parity(s, w) = Parity(t, w)
  <2>1. (0 \div w) % 2 = 0
    BY DEF Weights
  <2>2. SetBits(s, w) = SetBits(t, w)
    BY <1>2, <1>3, <2>1 DEF SetBits
  <2>. QED  BY <1>2, <2>2, ParityType
<1>. QED  BY <1>2, <1>4, XorFacts DEF Checksum, t

(* A byte is the sum of its bits.                                          *)
LEMMA ByteOfBits ==
  ASSUME NEW a \in 0..255, NEW b \in 0..255,
         \A w \in Weights : (a \div w) % 2 = (b \div w) % 2
  PROVE  a = b
<1>1. ASSUME NEW x \in 0..255
      PROVE  x = ((x \div 1) % 2) + 2 * ((x \div 2) % 2) + 4 * ((x \div 4) % 2)
                 + 8 * ((x \div 8) % 2) + 16 * ((x \div 16) % 2) + 32 * ((x \div 32) % 2)
                 + 64 * ((x \div 64) % 2) + 128 * ((x \div 128) % 2)
  <2>1. /\ x \div 1 = x /\ x = 2 * (x \div 2) + (x % 2)
        /\ x \div 2 = 2 * (x \div 4) + ((x \div 2) % 2)
        /\ x \div 4 = 2 * (x \div 8) + ((x \div 4) % 2)
        /\ x \div 8 = 2 * (x \div 16) + ((x \div 8) % 2)
        /\ x \div 16 = 2 * (x \div 32) + ((x \div 16) % 2)
        /\ x \div 32 = 2 * (x \div 64) + ((x \div 32) % 2)
        /\ x \div 64 = 2 * (x \div 128) + ((x \div 64) % 2)
        /\ x \div 128 = (x \div 128) % 2
    OBVIOUS
  <2>. QED  BY <2>1
<1>2. /\ (a \div 1) % 2 = (b \div 1) % 2 /\ (a \div 2) % 2 = (b \div 2) % 2
      /\ (a \div 4) % 2 = (b \div 4) % 2 /\ (a \div 8) % 2 = (b \div 8) % 2
      /\ (a \div 16) % 2 = (b \div 16) % 2 /\ (a \div 32) % 2 = (b \div 32) % 2
      /\ (a \div 64) % 2 = (b \div 64) % 2 /\ (a \div 128) % 2 = (b \div 128) % 2
  BY Zenon DEF Weights
<1>3. a = ((b \div 1) % 2) + 2 * ((b \div 2) % 2) + 4 * ((b \div 4) % 2)
          + 8 * ((b \div 8) % 2) + 16 * ((b \div 16) % 2) + 32 * ((b \div 32) % 2)
          + 64 * ((b \div 64) % 2) + 128 * ((b \div 128) % 2)
  BY <1>1, <1>2, Zenon
<1>. QED  BY <1>1, <1>3, Zenon

(* A byte that changes, changes the sum.                                   *)
LEMMA ChangeChangesSum ==
  ASSUME NEW s \in Seq(0..255), NEW k \in 1..Len(s), NEW b \in 0..255, b # s[k]
  PROVE  XorOf([s EXCEPT ![k] = b]) # XorOf(s)
<1>. DEFINE t == [s EXCEPT ![k] = b]
<1>1. /\ t \in Seq(0..255) /\ Len(t) = Len(s)
      /\ \A j \in 1..Len(s) : t[j] = IF j = k THEN b ELSE s[j]
  BY ExceptSeq
<1>2. DOMAIN t = 1..Len(s) /\ DOMAIN s = 1..Len(s) /\ s[k] \in 0..255
  BY <1>1, LenProperties, ElementOfSeq, ZenonT(30)
<1>. HIDE DEF t
<1>3. PICK w \in Weights : (b \div w) % 2 # (s[k] \div w) % 2
  BY <1>2, ByteOfBits
<1>. DEFINE S == SetBits(s, w)  T == SetBits(t, w)
<1>4. /\ IsFiniteSet(S) /\ IsFiniteSet(T)
      /\ Cardinality(S) \in Nat /\ Cardinality(T) \in Nat
  BY <1>1, SetBitsFinite
<1>5. /\ (b \div w) % 2 = 0 \/ (b \div w) % 2 = 1
      /\ (s[k] \div w) % 2 = 0 \/ (s[k] \div w) % 2 = 1
  <2>1. \A x \in 0..255 : (x \div w) % 2 = 0 \/ (x \div w) % 2 = 1
    BY DEF Weights
  <2>. QED  BY <1>2, <2>1, Zenon
<1>6. CASE (b \div w) % 2 = 1
  <2>1. (s[k] \div w) % 2 = 0
    BY <1>2, <1>3, <1>5, <1>6
  <2>2. T = S \cup {k} /\ k \notin S
    BY <1>1, <1>2, <1>6, <2>1 DEF SetBits
  <2>3. Cardinality(T) = Cardinality(S) + 1
    BY <1>4, <2>2, FS_AddElement
  <2>. HIDE DEF S, T
  <2>4. Cardinality(T) % 2 # Cardinality(S) % 2
    BY <1>4, <2>3
  <2>5. Parity(t, w) # Parity(s, w)
    BY <1>1, <2>4, ParityType DEF S, T
  <2>. QED  BY <1>1, <2>5, XorFacts, ZenonT(30) DEF t
<1>7. CASE (b \div w) % 2 # 1
  <2>1. (b \div w) % 2 = 0 /\ (s[k] \div w) % 2 = 1
    BY <1>2, <1>3, <1>5, <1>7
  <2>2. S = T \cup {k} /\ k \notin T
    BY <1>1, <1>2, <2>1 DEF SetBits
  <2>3. Cardinality(S) = Cardinality(T) + 1
    BY <1>4, <2>2, FS_AddElement
  <2>. HIDE DEF S, T
  <2>4. Cardinality(T) % 2 # Cardinality(S) % 2
    BY <1>4, <2>3
  <2>5. Parity(t, w) # Parity(s, w)
    BY <1>1, <2>4, ParityType DEF S, T
  <2>. QED  BY <1>1, <2>5, XorFacts, ZenonT(30) DEF t
<1>. QED  BY <1>6, <1>7

(* What the caster compares, in a sentence with the given body.            *)
LEMMA ComparisonIs ==
  ASSUME NEW body \in Seq(0..255), \A k \in 1..Len(body) : body[k] # Star,
         NEW f \in Seq(Int), Len(f) = Len(body) + 6, f[1] = Dollar,
         \A k \in 1..Len(body) : f[k + 1] = body[k], f[Len(body) + 2] = Star
  PROVE  BccCheckSumCompareForGGA(f)
           = XorOf(body) - (16 * HexValue(f[Len(body) + 3]) + HexValue(f[Len(body) + 4]))
<1>. DEFINE n == Len(body)
<1>1. n \in Nat /\ \A k \in 1..n : body[k] \in 0..255
  BY LenProperties, ElementOfSeq
<1>2. Places(f, <<Star>>, 1) = {k \in 1..(n + 6) : f[k] = Star}
  BY PlacesOfByte DEF Star
<1>. HIDE DEF n
<1>3. n + 2 \in Places(f, <<Star>>, 1)
  <2>1. n + 2 \in 1..(n + 6)
    BY <1>1
  <2>2. f[n + 2] = Star
    BY DEF n
  <2>. QED  BY <1>2, <2>1, <2>2
<1>4. ASSUME NEW j \in Places(f, <<Star>>, 1) PROVE n + 2 <= j
  <2>1. j \in 1..(n + 6) /\ f[j] = Star
    BY <1>2
  <2>2. j # 1
    BY <2>1 DEF Dollar, Star
  <2>3. CASE j <= n + 1
    <3>1. j - 1 \in 1..n /\ (j - 1) + 1 = j
      BY <1>1, <2>1, <2>2, <2>3
    <3>2. f[j] = body[j - 1]
      BY <3>1 DEF n
    <3>. QED  BY <2>1, <3>1, <3>2 DEF n
  <2>. QED  BY <1>1, <2>1, <2>3
<1>5. Find(f, <<Star>>, 1) = n + 2
  BY <1>3, <1>4, FindIs
<1>6. SubSeq(f, 2, n + 1) = body
  <2>1. ASSUME NEW i \in 2..(n + 1) PROVE f[i] = body[i - 1] /\ f[i] \in 0..255
    <3>1. i - 1 \in 1..n /\ (i - 1) + 1 = i
      BY <1>1
    <3>2. f[i] = body[i - 1]
      BY <3>1 DEF n
    <3>. QED  BY <1>1, <3>1, <3>2
  <2>2. /\ SubSeq(f, 2, n + 1) \in Seq(0..255)
        /\ Len(SubSeq(f, 2, n + 1)) = IF 2 <= n + 1 THEN (n + 1) - 2 + 1 ELSE 0
        /\ \A i \in 1..((n + 1) - 2 + 1) : SubSeq(f, 2, n + 1)[i] = f[2 + i - 1]
    <3>1. n + 1 \in Int
      BY <1>1
    <3>. QED  BY <2>1, <3>1, SubSeqProperties
  <2>3. Len(SubSeq(f, 2, n + 1)) = n /\ (n + 1) - 2 + 1 = n
    BY <1>1, <2>2
  <2>4. ASSUME NEW i \in 1..n PROVE SubSeq(f, 2, n + 1)[i] = body[i]
    <3>1. 2 + i - 1 \in 2..(n + 1) /\ (2 + i - 1) - 1 = i
      BY <1>1
    <3>. QED  BY <2>1, <2>2, <2>3, <3>1
  <2>. QED  BY <2>2, <2>3, <2>4, SeqEqual, SMTT(30) DEF n
<1>7. (n + 2) - 1 = n + 1 /\ (n + 2) + 1 = n + 3 /\ (n + 2) + 2 = n + 4
  BY <1>1
<1>8. BccCheckSumCompareForGGA(f)
        = XorOf(body) - (16 * HexValue(f[n + 3]) + HexValue(f[n + 4]))
  BY <1>5, <1>6, <1>7, Zenon DEF BccCheckSumCompareForGGA
<1>. QED  BY <1>8 DEF n

(* The sentence byte by byte.                                              *)
LEMMA FrameIs ==
  ASSUME NEW body \in Seq(0..255)
  PROVE  LET f == GGAFrameGenerate(body)
             n == Len(body)
         IN /\ f \in Seq(Int) /\ Len(f) = n + 6 /\ n \in Nat
            /\ f[1] = Dollar /\ f[n + 2] = Star
            /\ \A k \in 1..n : f[k + 1] = body[k]
            /\ 16 * HexValue(f[n + 3]) + HexValue(f[n + 4]) = XorOf(body)
<1>. DEFINE f == GGAFrameGenerate(body)  n == Len(body)  x == XorOf(body)
            tail == <<Star, HexDigit(x \div 16), HexDigit(x % 16)>>
            d == <<Dollar>> \o body
<1>1. n \in Nat /\ x \in 0..255 /\ body \in Seq(Int)
  <2>1. n \in Nat /\ body \in [1..n -> 0..255] /\ x \in 0..255
    BY LenProperties, XorFacts, ZenonT(30)
  <2>. HIDE DEF n, x
  <2>2. 0..255 \subseteq Int
    OBVIOUS
  <2>3. body \in [1..n -> Int]
    BY <2>1, <2>2
  <2>. QED  BY <2>1, <2>3, SequenceOf
<1>2. f = (d \o tail) \o EOL
  BY ZeroAddsNothing DEF GGAFrameGenerate
<1>3. x \div 16 \in 0..15 /\ x % 16 \in 0..15 /\ 16 * (x \div 16) + (x % 16) = x
  <2>. HIDE DEF x
  <2>. QED  BY <1>1
<1>4. ASSUME NEW v \in 0..15 PROVE HexDigit(v) \in Int /\ HexValue(HexDigit(v)) = v
  BY DEF HexDigit, HexValue
<1>5. /\ tail \in Seq(Int) /\ Len(tail) = 3 /\ tail[1] = Star
      /\ tail[2] = HexDigit(x \div 16) /\ tail[3] = HexDigit(x % 16)
  <2>1. HexDigit(x \div 16) \in Int /\ HexDigit(x % 16) \in Int /\ Star \in Int
    <3>1. Star \in Int
      BY DEF Star
    <3>2. \A v \in 0..15 : HexDigit(v) \in Int
      BY <1>4
    <3>. HIDE DEF x
    <3>. QED  BY <1>3, <3>1, <3>2, Zenon
  <2>. HIDE DEF x
  <2>. QED  BY <2>1
<1>. HIDE DEF n, x, tail
<1>6. /\ <<Dollar>> \in Seq(Int) /\ Len(<<Dollar>>) = 1 /\ <<Dollar>>[1] = Dollar
      /\ EOL \in Seq(Int) /\ Len(EOL) = 2
  BY DEF Dollar, EOL
<1>7. /\ d \in Seq(Int) /\ Len(d) = n + 1
      /\ \A k \in 1..(n + 1) : d[k] = IF k <= 1 THEN <<Dollar>>[k] ELSE body[k - 1]
  BY <1>1, <1>6, ConcatProperties DEF n
<1>. HIDE DEF d
<1>8. /\ d \o tail \in Seq(Int) /\ Len(d \o tail) = n + 4
      /\ \A k \in 1..(n + 4) : (d \o tail)[k] = IF k <= n + 1 THEN d[k] ELSE tail[k - (n + 1)]
  <2>. DEFINE e == d \o tail
  <2>1. /\ e \in Seq(Int) /\ Len(e) = Len(d) + Len(tail)
        /\ \A k \in 1..(Len(d) + Len(tail)) :
             e[k] = IF k <= Len(d) THEN d[k] ELSE tail[k - Len(d)]
    BY <1>5, <1>7, ConcatProperties, ZenonT(30)
  <2>. HIDE DEF e
  <2>2. Len(d) = n + 1 /\ Len(d) + Len(tail) = n + 4
    BY <1>1, <1>5, <1>7
  <2>3. /\ e \in Seq(Int) /\ Len(e) = n + 4
        /\ \A k \in 1..(n + 4) : e[k] = IF k <= n + 1 THEN d[k] ELSE tail[k - (n + 1)]
    BY <2>1, <2>2, Zenon
  <2>. QED  BY <2>3 DEF e
<1>9. /\ f \in Seq(Int) /\ Len(f) = n + 6
      /\ \A k \in 1..(n + 4) : f[k] = (d \o tail)[k]
  <2>. DEFINE e == d \o tail
  <2>1. e \in Seq(Int) /\ Len(e) = n + 4 /\ f = e \o EOL
    BY <1>2, <1>8
  <2>. HIDE DEF e, f
  <2>2. /\ f \in Seq(Int) /\ Len(f) = (n + 4) + 2
        /\ \A k \in 1..((n + 4) + 2) : f[k] = IF k <= n + 4 THEN e[k] ELSE EOL[k - (n + 4)]
    <3>1. /\ e \o EOL \in Seq(Int) /\ Len(e \o EOL) = Len(e) + Len(EOL)
          /\ \A k \in 1..(Len(e) + Len(EOL)) :
               (e \o EOL)[k] = IF k <= Len(e) THEN e[k] ELSE EOL[k - Len(e)]
      BY <1>6, <2>1, ConcatProperties, ZenonT(30)
    <3>2. Len(e) = n + 4 /\ Len(EOL) = 2 /\ f = e \o EOL
      BY <1>6, <2>1
    <3>. QED  BY <3>1, <3>2, Zenon
  <2>3. (n + 4) + 2 = n + 6 /\ \A k \in 1..(n + 4) : k \in 1..((n + 4) + 2) /\ k <= n + 4
    BY <1>1
  <2>. QED  BY <2>2, <2>3 DEF e
<1>. HIDE DEF f
<1>10. f[1] = Dollar /\ \A k \in 1..n : f[k + 1] = body[k]
  <2>1. f[1] = Dollar
    BY <1>1, <1>6, <1>7, <1>8, <1>9
  <2>2. ASSUME NEW k \in 1..n PROVE f[k + 1] = body[k]
    <3>1. k + 1 \in 1..(n + 1) /\ k + 1 \in 1..(n + 4) /\ ~(k + 1 <= 1) /\ k + 1 <= n + 1
          /\ (k + 1) - 1 = k
      BY <1>1
    <3>. QED  BY <1>7, <1>8, <1>9, <3>1
  <2>. QED  BY <2>1, <2>2
<1>11. ASSUME NEW i \in 1..3 PROVE f[n + 1 + i] = tail[i]
  <2>1. n + 1 + i \in 1..(n + 4) /\ ~(n + 1 + i <= n + 1) /\ (n + 1 + i) - (n + 1) = i
    BY <1>1
  <2>. QED  BY <1>8, <1>9, <2>1
<1>12. /\ f[n + 2] = Star /\ f[n + 3] = HexDigit(x \div 16) /\ f[n + 4] = HexDigit(x % 16)
  <2>1. n + 1 + 1 = n + 2 /\ n + 1 + 2 = n + 3 /\ n + 1 + 3 = n + 4
    BY <1>1
  <2>. QED  BY <1>5, <1>11, <2>1
<1>13. 16 * HexValue(f[n + 3]) + HexValue(f[n + 4]) = x
  BY <1>3, <1>4, <1>12
<1>. QED  BY <1>1, <1>9, <1>10, <1>12, <1>13 DEF f, n, x

(* The caster passes every sentence the client generates, and no sentence  *)
(* that differs from one in a byte of its body, whatever its length.       *)
THEOREM ChecksumDetects == Spec => []ChecksumGuards
<1>1. ASSUME NEW body \in Seq(0..255), \A k \in 1..Len(body) : body[k] # Star
      PROVE  BccCheckSumCompareForGGA(GGAFrameGenerate(body)) = 0
  <2>. DEFINE f == GGAFrameGenerate(body)
  <2>1. BccCheckSumCompareForGGA(f) = XorOf(body) - XorOf(body)
    <3>1. /\ f \in Seq(Int) /\ Len(f) = Len(body) + 6 /\ f[1] = Dollar
          /\ f[Len(body) + 2] = Star /\ \A k \in 1..Len(body) : f[k + 1] = body[k]
          /\ 16 * HexValue(f[Len(body) + 3]) + HexValue(f[Len(body) + 4]) = XorOf(body)
      BY FrameIs
    <3>. HIDE DEF f
    <3>2. BccCheckSumCompareForGGA(f) = XorOf(body)
            - (16 * HexValue(f[Len(body) + 3]) + HexValue(f[Len(body) + 4]))
      BY <1>1, <3>1, ComparisonIs
    <3>. QED  BY <3>1, <3>2
  <2>. HIDE DEF f
  <2>2. PICK x \in 0..255 : XorOf(body) = x
    BY XorFacts
  <2>3. BccCheckSumCompareForGGA(f) = x - x
    BY <2>1, <2>2, Zenon
  <2>4. BccCheckSumCompareForGGA(f) = 0
    BY <2>3
  <2>. QED  BY <2>4 DEF f
<1>2. ASSUME NEW body \in Seq(0..255), \A k \in 1..Len(body) : body[k] # Star,
             NEW k \in 1..Len(body), NEW b \in 0..255, b # body[k], b # Star
      PROVE  BccCheckSumCompareForGGA([GGAFrameGenerate(body) EXCEPT ![k + 1] = b]) # 0
  <2>. DEFINE f == GGAFrameGenerate(body)  n == Len(body)
              g == [f EXCEPT ![k + 1] = b]  changed == [body EXCEPT ![k] = b]
  <2>1. /\ f \in Seq(Int) /\ Len(f) = n + 6 /\ f[1] = Dollar /\ n \in Nat
        /\ f[n + 2] = Star /\ \A i \in 1..n : f[i + 1] = body[i]
        /\ 16 * HexValue(f[n + 3]) + HexValue(f[n + 4]) = XorOf(body)
    BY FrameIs
  <2>. HIDE DEF f
  <2>2. /\ g \in Seq(Int) /\ Len(g) = n + 6
        /\ \A i \in 1..(n + 6) : g[i] = IF i = k + 1 THEN b ELSE f[i]
    <3>1. k + 1 \in 1..Len(f) /\ b \in Int
      BY <2>1
    <3>. QED  BY <2>1, <3>1, ExceptSeq
  <2>3. /\ changed \in Seq(0..255) /\ Len(changed) = n
        /\ \A i \in 1..n : changed[i] = IF i = k THEN b ELSE body[i]
    BY ExceptSeq
  <2>. HIDE DEF g, changed
  <2>4. \A i \in 1..Len(changed) : changed[i] # Star
    BY <1>2, <2>3
  <2>5. g[1] = Dollar /\ g[n + 2] = Star /\ g[n + 3] = f[n + 3] /\ g[n + 4] = f[n + 4]
    <3>. HIDE DEF n
    <3>1. k \in 1..n
      BY DEF n
    <3>2. 1 # k + 1 /\ n + 2 # k + 1 /\ n + 3 # k + 1 /\ n + 4 # k + 1
      BY <2>1, <3>1
    <3>3. /\ 1 \in 1..(n + 6) /\ n + 2 \in 1..(n + 6) /\ n + 3 \in 1..(n + 6)
          /\ n + 4 \in 1..(n + 6)
      BY <2>1
    <3>. QED  BY <2>1, <2>2, <3>2, <3>3
  <2>6. ASSUME NEW i \in 1..n PROVE g[i + 1] = changed[i]
    <3>1. i + 1 \in 1..(n + 6) /\ (i + 1 = k + 1 <=> i = k)
      BY <2>1
    <3>. QED  BY <2>1, <2>2, <2>3, <3>1
  <2>. HIDE DEF n
  <2>7. BccCheckSumCompareForGGA(g) = XorOf(changed) - XorOf(body)
    <3>1. BccCheckSumCompareForGGA(g)
            = XorOf(changed) - (16 * HexValue(g[n + 3]) + HexValue(g[n + 4]))
      BY <2>2, <2>3, <2>4, <2>5, <2>6, ComparisonIs
    <3>. QED  BY <2>1, <2>5, <3>1
  <2>8. XorOf(changed) # XorOf(body)
    BY <1>2, ChangeChangesSum DEF changed
  <2>9. PICK x \in 0..255, y \in 0..255 : XorOf(changed) = x /\ XorOf(body) = y
    BY <2>3, XorFacts
  <2>10. BccCheckSumCompareForGGA(g) = x - y /\ x # y
    BY <2>7, <2>8, <2>9, Zenon
  <2>11. BccCheckSumCompareForGGA(g) # 0
    BY <2>10
  <2>. QED  BY <2>11 DEF g, f
<1>3. TextInv => ChecksumGuards
  <2>. SUFFICES ASSUME TextInv, IsBody(text)
       PROVE  LET frame == GGAFrameGenerate(text)
              IN /\ BccCheckSumCompareForGGA(frame) = 0
                 /\ \A k \in DOMAIN text : \A b \in Bytes \ {text[k], Star} :
                      b < 128 => BccCheckSumCompareForGGA([frame EXCEPT ![k + 1] = b]) # 0
    BY DEF ChecksumGuards
  <2>1. text \in Seq(0..255) /\ DOMAIN text = 1..Len(text) /\ Bytes \subseteq 0..255
    BY TextFacts, UtilAssumption DEF TextInv
  <2>2. \A k \in 1..Len(text) : text[k] # Star
    BY <2>1 DEF IsBody
  <2>. QED  BY <1>1, <1>2, <2>1, <2>2
<1>. QED  BY <1>3, TextInvariant, PTL

-----------------------------------------------------------------------------
(* Lines.                                                                  *)

EOLAt(k) == k \in 1..(Len(text) - 1) /\ text[k] = 13 /\ text[k + 1] = 10

(* A request without empty lines.                                          *)
Regular ==
  text # <<>> /\ ~EOLAt(1) /\ \A k \in 1..Len(text) : ~(EOLAt(k) /\ EOLAt(k + 2))

(* The items follow each other, with one divider between any two and none  *)
(* inside.                                                                 *)
Chained ==
  \A k \in 1..Len(out) :
    /\ 1 <= out[k].first /\ out[k].first <= out[k].last /\ out[k].last <= Len(text)
    /\ \A i \in out[k].first..(out[k].last - 1) : ~EOLAt(i)
    /\ out[k].first = IF k = 1 THEN 1 ELSE out[k - 1].last + 3
    /\ k # Len(out) => EOLAt(out[k].last + 1)

(* The loop goes on behind the divider of the last item.                   *)
Ahead ==
  /\ pos_begin <= Len(text) + 1
  /\ IF out = <<>> THEN pos_begin = 1
     ELSE pos_begin = out[Len(out)].last + 3 /\ EOLAt(out[Len(out)].last + 1)

(* Nothing, a divider, or one byte is left.                                *)
Behind ==
  IF out = <<>> THEN Len(text) = 1
  ELSE LET last == out[Len(out)].last
       IN \/ last = Len(text)
          \/ last \in {Len(text) - 2, Len(text) - 3} /\ EOLAt(last + 1)

CutInv ==
  /\ text \in Seq(Bytes) /\ pos_begin \in Nat \ {0}
  /\ out \in Seq([first : Int, last : Int])
  /\ at = "text" => pos_begin = 1 /\ out = <<>>
  /\ at \in {"find", "done"} /\ Regular => Chained
  /\ at = "find" /\ Regular => Ahead
  /\ at = "done" /\ Regular => Behind

(* The places of the divider.                                              *)
LEMMA EOLPlaces ==
  ASSUME text \in Seq(Bytes), NEW from \in Nat \ {0}
  PROVE  /\ Len(text) \in Nat
         /\ Places(text, EOL, from) = {k \in from..(Len(text) - 1) : EOLAt(k)}
<1>1. text \in Seq(Int) /\ Len(text) \in Nat
  <2>1. Len(text) \in Nat /\ text \in [1..Len(text) -> Bytes] /\ Bytes \subseteq Int
    BY LenProperties, UtilAssumption
  <2>2. text \in [1..Len(text) -> Int]
    BY <2>1
  <2>. QED  BY <2>1, <2>2, SequenceOf
<1>2. Places(text, EOL, from) =
        {k \in from..(Len(text) - 1) : text[k] = 13 /\ text[k + 1] = 10}
  BY <1>1, PlacesOfEOL
<1>3. \A k \in from..(Len(text) - 1) : EOLAt(k) <=> text[k] = 13 /\ text[k + 1] = 10
  BY <1>1 DEF EOLAt
<1>. QED  BY <1>1, <1>2, <1>3

LEMMA ItemFacts ==
  ASSUME out \in Seq([first : Int, last : Int])
  PROVE  /\ \A k \in 1..Len(out) : out[k].first \in Int /\ out[k].last \in Int
         /\ out # <<>> => Len(out) \in Nat \ {0} /\ out[Len(out)].last \in Int
<1>1. ASSUME NEW k \in 1..Len(out) PROVE out[k].first \in Int /\ out[k].last \in Int
  <2>1. out[k] \in [first : Int, last : Int]
    BY ElementOfSeq
  <2>. QED  BY <2>1
<1>2. ASSUME out # <<>> PROVE Len(out) \in Nat \ {0} /\ out[Len(out)].last \in Int
  <2>1. Len(out) \in Nat \ {0}
    BY <1>2, EmptySeq
  <2>2. Len(out) \in 1..Len(out)
    BY <2>1
  <2>. QED  BY <1>1, <2>1, <2>2
<1>. QED  BY <1>1, <1>2

(* What an item that follows the others adds.                              *)
LEMMA Chain ==
  ASSUME text \in Seq(Bytes), out \in Seq([first : Int, last : Int]), pos_begin \in Nat \ {0},
         Chained, Ahead, NEW last \in Int, pos_begin <= last, last <= Len(text),
         \A i \in pos_begin..(last - 1) : ~EOLAt(i), out' = Item(last), text' = text
  PROVE  /\ out' \in Seq([first : Int, last : Int]) /\ out' # <<>>
         /\ out'[Len(out')].last = last /\ Chained'
<1>. DEFINE item == [first |-> pos_begin, last |-> last]  n == Len(out)
<1>1. /\ n \in Nat /\ out' \in Seq([first : Int, last : Int]) /\ Len(out') = n + 1
      /\ (\A k \in 1..n : out'[k] = out[k]) /\ out'[n + 1] = item
  <2>1. item \in [first : Int, last : Int]
    OBVIOUS
  <2>2. out' = Append(out, item)
    BY DEF Item
  <2>. HIDE DEF item
  <2>. QED  BY <2>1, <2>2, AppendProperties, LenProperties
<1>2. item.first = pos_begin /\ item.last = last
  OBVIOUS
<1>3. \A k \in 1..n : out[k].first \in Int /\ out[k].last \in Int
  BY ItemFacts
<1>4. \A i : EOLAt(i)' <=> EOLAt(i)
  BY DEF EOLAt
<1>5. n = 0 <=> out = <<>>
  BY EmptySeq, LenProperties
<1>. HIDE DEF item, n
<1>6. ASSUME NEW k \in 1..n
      PROVE  /\ 1 <= out'[k].first /\ out'[k].first <= out'[k].last
             /\ out'[k].last <= Len(text)
             /\ \A i \in out'[k].first..(out'[k].last - 1) : ~EOLAt(i)
             /\ out'[k].first = IF k = 1 THEN 1 ELSE out'[k - 1].last + 3
             /\ EOLAt(out'[k].last + 1)
  <2>1. /\ 1 <= out[k].first /\ out[k].first <= out[k].last /\ out[k].last <= Len(text)
        /\ \A i \in out[k].first..(out[k].last - 1) : ~EOLAt(i)
        /\ out[k].first = IF k = 1 THEN 1 ELSE out[k - 1].last + 3
        /\ k # n => EOLAt(out[k].last + 1)
    BY DEF Chained, n
  <2>2. out'[k] = out[k] /\ (k # 1 => out'[k - 1] = out[k - 1])
    BY <1>1
  <2>3. k = n => EOLAt(out[k].last + 1)
    BY <1>5 DEF Ahead, n
  <2>. QED  BY <2>1, <2>2, <2>3
<1>7. /\ 1 <= out'[n + 1].first /\ out'[n + 1].first <= out'[n + 1].last
      /\ out'[n + 1].last <= Len(text)
      /\ \A i \in out'[n + 1].first..(out'[n + 1].last - 1) : ~EOLAt(i)
      /\ out'[n + 1].first = IF n + 1 = 1 THEN 1 ELSE out'[(n + 1) - 1].last + 3
  <2>1. out'[n + 1].first = pos_begin /\ out'[n + 1].last = last
    BY <1>1, <1>2
  <2>2. CASE n = 0
    BY <1>1, <1>5, <2>1, <2>2 DEF Ahead
  <2>3. CASE n # 0
    <3>1. out'[(n + 1) - 1] = out[n] /\ n + 1 # 1
      BY <1>1, <2>3
    <3>2. pos_begin = out[n].last + 3
      BY <1>5, <2>3 DEF Ahead, n
    <3>. QED  BY <2>1, <3>1, <3>2, SMTT(30)
  <2>. QED  BY <2>2, <2>3
<1>8. ASSUME NEW k \in 1..(n + 1)
      PROVE  /\ 1 <= out'[k].first /\ out'[k].first <= out'[k].last
             /\ out'[k].last <= Len(text)
             /\ \A i \in out'[k].first..(out'[k].last - 1) : ~EOLAt(i)
             /\ out'[k].first = IF k = 1 THEN 1 ELSE out'[k - 1].last + 3
             /\ k # n + 1 => EOLAt(out'[k].last + 1)
  <2>1. CASE k = n + 1
    BY <1>7, <2>1
  <2>2. CASE k # n + 1
    <3>1. k \in 1..n
      BY <1>1, <2>2
    <3>. QED  BY <1>6, <3>1
  <2>. QED  BY <2>1, <2>2
<1>9. Chained'
  BY <1>1, <1>4, <1>8 DEF Chained
<1>10. out' # <<>>
  BY <1>1, EmptySeq
<1>. QED  BY <1>1, <1>2, <1>9, <1>10

LEMMA CutKeeps == ASSUME CutInv, CutItem PROVE CutInv'
<1>0. PICK d \in Nat : d = Find(text, EOL, pos_begin)
  BY Found DEF CutInv
<1>1. /\ at = "find" /\ d # 0 /\ text' = text /\ at' = at
      /\ out' = IF d > pos_begin THEN Item(d - 1) ELSE out
      /\ pos_begin' = d + 2
  <2>1. Len(EOL) = 2
    BY DEF EOL
  <2>. QED  BY <1>0, <2>1 DEF CutItem
<1>2. text \in Seq(Bytes) /\ pos_begin \in Nat \ {0} /\ out \in Seq([first : Int, last : Int])
  BY DEF CutInv
<1>3. /\ Len(text) \in Nat
      /\ Places(text, EOL, pos_begin) = {k \in pos_begin..(Len(text) - 1) : EOLAt(k)}
  BY <1>2, EOLPlaces
<1>4. d \in Places(text, EOL, pos_begin) /\ \A j \in Places(text, EOL, pos_begin) : d <= j
  BY <1>0, <1>1, <1>2, Found
<1>5. d \in pos_begin..(Len(text) - 1) /\ EOLAt(d) /\ d \in Nat
  BY <1>2, <1>3, <1>4
<1>6. pos_begin' \in Nat \ {0}
  BY <1>1, <1>5
<1>7. out' \in Seq([first : Int, last : Int])
  <2>1. [first |-> pos_begin, last |-> d - 1] \in [first : Int, last : Int]
    BY <1>2, <1>5
  <2>2. Item(d - 1) \in Seq([first : Int, last : Int])
    BY <1>2, <2>1, AppendProperties DEF Item
  <2>. QED  BY <1>1, <1>2, <2>2
<1>8. ASSUME Regular PROVE Chained' /\ Ahead'
  <2>1. Chained /\ Ahead
    BY <1>1, <1>8 DEF CutInv
  <2>2. d # pos_begin
    <3>1. CASE out = <<>>
      BY <1>5, <1>8, <2>1, <3>1 DEF Ahead, Regular
    <3>2. CASE out # <<>>
      <4>1. Len(out) \in Nat \ {0}
        BY <1>2, <3>2, EmptySeq
      <4>2. PICK l \in Int : l = out[Len(out)].last
        BY <1>2, <3>2, ItemFacts
      <4>3. pos_begin = l + 3 /\ EOLAt(l + 1)
        BY <2>1, <3>2, <4>2 DEF Ahead
      <4>4. l + 1 \in 1..Len(text) /\ (l + 1) + 2 = l + 3
        BY <1>3, <4>3 DEF EOLAt
      <4>. QED  BY <1>5, <1>8, <4>3, <4>4 DEF Regular
    <3>. QED  BY <3>1, <3>2
  <2>3. d > pos_begin /\ out' = Item(d - 1)
    BY <1>1, <1>2, <1>5, <2>2
  <2>4. ASSUME NEW i \in pos_begin..((d - 1) - 1) PROVE ~EOLAt(i)
    <3>1. i \in pos_begin..(Len(text) - 1) /\ ~(d <= i)
      BY <1>2, <1>3, <1>5
    <3>. QED  BY <1>3, <1>4, <3>1
  <2>5. d - 1 \in Int /\ pos_begin <= d - 1 /\ d - 1 <= Len(text)
    BY <1>2, <1>3, <1>5, <2>3
  <2>6. out' # <<>> /\ out'[Len(out')].last = d - 1 /\ Chained'
    BY <1>1, <1>2, <2>1, <2>3, <2>4, <2>5, Chain
  <2>7. (d - 1) + 3 = d + 2 /\ (d - 1) + 1 = d /\ d + 2 <= Len(text) + 1
    BY <1>3, <1>5
  <2>8. EOLAt(d)'
    BY <1>1, <1>5, <2>7 DEF EOLAt
  <2>. QED  BY <1>1, <2>6, <2>7, <2>8 DEF Ahead
<1>9. Regular' => Regular
  BY <1>1 DEF Regular, EOLAt
<1>. QED  BY <1>1, <1>2, <1>6, <1>7, <1>8, <1>9 DEF CutInv

LEMMA LastKeeps == ASSUME CutInv, LastItem PROVE CutInv'
<1>1. /\ at = "find" /\ Find(text, EOL, pos_begin) = 0 /\ text' = text /\ at' = "done"
      /\ out' = IF LastItemKept THEN Item(Len(text)) ELSE out
      /\ pos_begin' = pos_begin
  BY DEF LastItem
<1>2. text \in Seq(Bytes) /\ pos_begin \in Nat \ {0} /\ out \in Seq([first : Int, last : Int])
  BY DEF CutInv
<1>3. /\ Len(text) \in Nat
      /\ Places(text, EOL, pos_begin) = {k \in pos_begin..(Len(text) - 1) : EOLAt(k)}
  BY <1>2, EOLPlaces
<1>4. ASSUME NEW i \in pos_begin..(Len(text) - 1) PROVE ~EOLAt(i)
  <2>1. Places(text, EOL, pos_begin) = {}
    BY <1>1, <1>2, Found
  <2>. QED  BY <1>3, <2>1
<1>5. LastItemKept <=> pos_begin + 1 <= Len(text)
  <2>1. Len(EOL) = 2
    BY DEF EOL
  <2>. QED  BY <1>2, <1>3, <2>1 DEF LastItemKept
<1>6. out' \in Seq([first : Int, last : Int])
  <2>1. [first |-> pos_begin, last |-> Len(text)] \in [first : Int, last : Int]
    BY <1>2, <1>3
  <2>2. Item(Len(text)) \in Seq([first : Int, last : Int])
    BY <1>2, <2>1, AppendProperties DEF Item
  <2>. QED  BY <1>1, <1>2, <2>2
<1>7. \A i : EOLAt(i)' <=> EOLAt(i)
  BY <1>1 DEF EOLAt
<1>8. ASSUME Regular PROVE Chained' /\ Behind'
  <2>1. Chained /\ Ahead
    BY <1>1, <1>8 DEF CutInv
  <2>2. CASE LastItemKept
    <3>1. out' = Item(Len(text)) /\ pos_begin <= Len(text)
      BY <1>1, <1>2, <1>3, <1>5, <2>2
    <3>2. out' # <<>> /\ out'[Len(out')].last = Len(text) /\ Chained'
      <4>1. PICK l \in Int : l = Len(text) /\ pos_begin <= l
        BY <1>3, <3>1
      <4>2. out' = Item(l) /\ l <= Len(text) /\ \A i \in pos_begin..(l - 1) : ~EOLAt(i)
        BY <1>3, <1>4, <3>1, <4>1
      <4>3. out' # <<>> /\ out'[Len(out')].last = l /\ Chained'
        BY <1>1, <1>2, <2>1, <4>1, <4>2, Chain
      <4>. QED  BY <4>1, <4>3
    <3>. QED  BY <1>1, <3>2 DEF Behind
  <2>3. CASE ~LastItemKept
    <3>1. out' = out /\ ~(pos_begin + 1 <= Len(text))
      BY <1>1, <1>5, <2>3
    <3>2. Chained'
      BY <1>1, <1>7, <2>1, <3>1 DEF Chained
    <3>3. CASE out = <<>>
      <4>1. Len(text) # 0
        BY <1>2, <1>8, EmptySeq DEF Regular
      <4>2. pos_begin = 1
        BY <2>1, <3>3 DEF Ahead
      <4>3. PICK n \in Nat : n = Len(text)
        BY <1>3
      <4>4. ~(1 + 1 <= n) /\ n # 0
        BY <3>1, <4>1, <4>2, <4>3
      <4>5. Len(text) = 1
        BY <4>3, <4>4
      <4>. QED  BY <1>1, <3>1, <3>2, <3>3, <4>5 DEF Behind
    <3>4. CASE out # <<>>
      <4>1. Len(out) \in Nat \ {0}
        BY <1>2, <3>4, EmptySeq
      <4>2. PICK l \in Int : l = out[Len(out)].last
        BY <1>2, <3>4, ItemFacts
      <4>3. pos_begin = l + 3 /\ EOLAt(l + 1) /\ pos_begin <= Len(text) + 1
        BY <2>1, <3>4, <4>2 DEF Ahead
      <4>4. l = Len(text) - 2 \/ l = Len(text) - 3
        BY <1>3, <3>1, <4>3
      <4>. QED  BY <1>1, <1>7, <3>1, <3>2, <3>4, <4>2, <4>3, <4>4 DEF Behind
    <3>. QED  BY <3>3, <3>4
  <2>. QED  BY <2>2, <2>3
<1>9. Regular' => Regular
  BY <1>1 DEF Regular, EOLAt
<1>. QED  BY <1>1, <1>2, <1>6, <1>8, <1>9 DEF CutInv

LEMMA CutInvariant == Spec => []CutInv
<1>1. Init => CutInv
  BY EmptySeq DEF Init, CutInv
<1>2. CutInv /\ [Next]_vars => CutInv'
  <2>. SUFFICES ASSUME CutInv, [Next]_vars PROVE CutInv'
    OBVIOUS
  <2>1. CASE Type
    BY <2>1, AppendProperties DEF Type, CutInv
  <2>2. CASE StringSplit
    <3>1. /\ out = <<>> /\ out' = <<>> /\ pos_begin = 1 /\ pos_begin' = 1 /\ at' = "find"
          /\ text' = text /\ text \in Seq(Bytes)
      BY <2>2 DEF StringSplit, CutInv
    <3>2. Chained'
      BY <3>1 DEF Chained
    <3>3. Ahead'
      BY <3>1, LenProperties DEF Ahead
    <3>. QED  BY <2>2, <3>1, <3>2, <3>3 DEF StringSplit, CutInv
  <2>3. CASE CutItem
    BY <2>3, CutKeeps
  <2>4. CASE LastItem
    BY <2>4, LastKeeps
  <2>5. CASE UNCHANGED vars
    BY <2>5 DEF vars, CutInv, Regular, Chained, Ahead, Behind, EOLAt
  <2>. QED  BY <2>1, <2>2, <2>3, <2>4, <2>5 DEF Next
<1>. QED  BY <1>1, <1>2, PTL DEF Spec

(* A part of the text, byte by byte.                                       *)
LEMMA PartOfText ==
  ASSUME text \in Seq(Bytes), NEW a \in Nat \ {0}, NEW b \in Int, b <= Len(text)
  PROVE  /\ SubSeq(text, a, b) \in Seq(Int)
         /\ Len(SubSeq(text, a, b)) = IF a <= b THEN b - a + 1 ELSE 0
         /\ \A i \in 1..(b - a + 1) : SubSeq(text, a, b)[i] = text[a + i - 1]
<1>1. \A i \in a..b : text[i] \in Int
  <2>1. \A i \in 1..Len(text) : text[i] \in Int
    <3>1. \A i \in 1..Len(text) : text[i] \in Bytes
      BY ElementOfSeq
    <3>2. Bytes \subseteq Int
      BY UtilAssumption
    <3>. QED  BY <3>1, <3>2, Zenon
  <2>2. Len(text) \in Nat
    BY LenProperties
  <2>. QED  BY <2>1, <2>2
<1>. QED  BY <1>1, SubSeqProperties

LEMMA EOLFacts == EOL \in Seq(Int) /\ Len(EOL) = 2 /\ EOL[1] = 13 /\ EOL[2] = 10
  BY DEF EOL

(* What LinesKept asks of the text.                                        *)
LEMMA WithoutEmptyLines ==
  ASSUME text \in Seq(Bytes), text # <<>>, Find(text, EOL, 1) # 1,
         Find(text, EOL \o EOL, 1) = 0
  PROVE  Regular
<1>1. Len(text) \in Nat /\ Places(text, EOL, 1) = {k \in 1..(Len(text) - 1) : EOLAt(k)}
  BY EOLPlaces
<1>2. ~EOLAt(1)
  <2>. SUFFICES ASSUME EOLAt(1) PROVE FALSE
    OBVIOUS
  <2>1. 1 \in Places(text, EOL, 1) /\ \A j \in Places(text, EOL, 1) : 1 <= j
    BY <1>1 DEF EOLAt
  <2>. QED  BY <2>1, FindIs
<1>3. ASSUME NEW k \in 1..Len(text), EOLAt(k), EOLAt(k + 2) PROVE FALSE
  <2>. DEFINE s == SubSeq(text, k, k + 3)  two == EOL \o EOL
  <2>1. /\ k + 3 <= Len(text) /\ k \in Nat \ {0} /\ text[k] = 13 /\ text[k + 1] = 10
        /\ text[k + 2] = 13 /\ text[k + 3] = 10 /\ (k + 2) + 1 = k + 3
    <3>1. k + 2 \in 1..(Len(text) - 1) /\ (k + 2) + 1 = k + 3
      BY <1>3 DEF EOLAt
    <3>. QED  BY <1>1, <1>3, <3>1 DEF EOLAt
  <2>2. /\ s \in Seq(Int) /\ Len(s) = 4
        /\ s[1] = 13 /\ s[2] = 10 /\ s[3] = 13 /\ s[4] = 10
    <3>1. k + 3 \in Int /\ k <= k + 3 /\ (k + 3) - k + 1 = 4
      BY <2>1
    <3>2. s \in Seq(Int) /\ Len(s) = 4 /\ \A i \in 1..4 : s[i] = text[k + i - 1]
      BY <2>1, <3>1, PartOfText
    <3>3. k + 1 - 1 = k /\ k + 2 - 1 = k + 1 /\ k + 3 - 1 = k + 2 /\ k + 4 - 1 = k + 3
      BY <2>1
    <3>. HIDE DEF s
    <3>. QED  BY <2>1, <3>2, <3>3
  <2>3. /\ two \in Seq(Int) /\ Len(two) = 4
        /\ two[1] = 13 /\ two[2] = 10 /\ two[3] = 13 /\ two[4] = 10
    BY DEF EOL
  <2>. HIDE DEF s, two
  <2>4. s = two
    <3>1. \A i \in 1..4 : i = 1 \/ i = 2 \/ i = 3 \/ i = 4
      OBVIOUS
    <3>2. \A i \in 1..4 : s[i] = two[i]
      BY <2>2, <2>3, <3>1
    <3>. QED  BY <2>2, <2>3, <3>2, SeqEqual
  <2>5. k \in Places(text, two, 1)
    <3>1. k \in 1..(Len(text) - Len(two) + 1) /\ k + Len(two) - 1 = k + 3
      BY <1>1, <2>1, <2>3
    <3>. QED  BY <2>4, <3>1 DEF Places, s
  <2>6. Find(text, two, 1) # 0
    BY <2>5, Found
  <2>. QED  BY <2>6 DEF two
<1>. QED  BY <1>2, <1>3 DEF Regular

(* The divider appended to an item without one is the first in it.         *)
LEMMA LineEnds ==
  ASSUME text \in Seq(Bytes), NEW item, item.first \in Nat \ {0}, item.last \in Nat,
         item.first <= item.last, item.last <= Len(text),
         \A i \in item.first..(item.last - 1) : ~EOLAt(i)
  PROVE  Find(Line(item), EOL, 1) = Len(Line(item)) - 1
<1>. DEFINE f == item.first  l == item.last  m == l - f + 1
            s == SubSeq(text, f, l)  L == s \o EOL
<1>. HIDE DEF f, l
<1>1. f \in Nat \ {0} /\ l \in Nat /\ f <= l /\ l <= Len(text) /\ m \in Nat \ {0}
  BY DEF f, l
<1>2. Len(text) \in Nat
  BY LenProperties
<1>. HIDE DEF m
<1>3. s \in Seq(Int) /\ Len(s) = m /\ \A i \in 1..m : s[i] = text[f + i - 1]
  BY <1>1, PartOfText DEF m
<1>. HIDE DEF s
<1>4. /\ L \in Seq(Int) /\ Len(L) = m + 2
      /\ \A i \in 1..(m + 2) : L[i] = IF i <= m THEN s[i] ELSE EOL[i - m]
  <2>1. /\ L \in Seq(Int) /\ Len(L) = Len(s) + Len(EOL)
        /\ \A i \in 1..(Len(s) + Len(EOL)) :
             L[i] = IF i <= Len(s) THEN s[i] ELSE EOL[i - Len(s)]
    <3>1. s \in Seq(Int) /\ EOL \in Seq(Int)
      BY <1>3, EOLFacts
    <3>2. /\ s \o EOL \in Seq(Int) /\ Len(s \o EOL) = Len(s) + Len(EOL)
          /\ \A i \in 1..(Len(s) + Len(EOL)) :
               (s \o EOL)[i] = IF i <= Len(s) THEN s[i] ELSE EOL[i - Len(s)]
      BY <3>1, ConcatProperties, ZenonT(30)
    <3>. QED  BY <3>2
  <2>2. Len(s) = m /\ Len(EOL) = 2
    BY <1>3, EOLFacts
  <2>. HIDE DEF L
  <2>. QED  BY <2>1, <2>2, Zenon
<1>. HIDE DEF L
<1>5. L[m + 1] = 13 /\ L[m + 2] = 10 /\ \A i \in 1..m : L[i] = text[f + i - 1]
  <2>1. /\ m + 1 \in 1..(m + 2) /\ m + 2 \in 1..(m + 2) /\ ~(m + 1 <= m) /\ ~(m + 2 <= m)
        /\ (m + 1) - m = 1 /\ (m + 2) - m = 2 /\ \A i \in 1..m : i \in 1..(m + 2) /\ i <= m
    BY <1>1
  <2>. QED  BY <1>3, <1>4, <2>1, EOLFacts, ZenonT(30)
<1>6. Places(L, EOL, 1) = {i \in 1..((m + 2) - 1) : L[i] = 13 /\ L[i + 1] = 10}
  <2>1. Places(L, EOL, 1) = {i \in 1..(Len(L) - 1) : L[i] = 13 /\ L[i + 1] = 10}
    <3>1. L \in Seq(Int) /\ 1 \in Nat \ {0}
      BY <1>4
    <3>. QED  BY <3>1, PlacesOfEOL, Zenon
  <2>2. Len(L) = m + 2
    BY <1>4
  <2>. QED  BY <2>1, <2>2, Zenon
<1>7. m + 1 \in Places(L, EOL, 1)
  <2>1. m + 1 \in 1..((m + 2) - 1) /\ (m + 1) + 1 = m + 2
    BY <1>1
  <2>. QED  BY <1>5, <1>6, <2>1
<1>8. ASSUME NEW j \in Places(L, EOL, 1) PROVE m + 1 <= j
  <2>1. j \in 1..(m + 1) /\ L[j] = 13 /\ L[j + 1] = 10
    BY <1>1, <1>6
  <2>2. j # m
    BY <1>5, <2>1
  <2>3. ASSUME j < m PROVE FALSE
    <3>1. j \in 1..m /\ j + 1 \in 1..m
      BY <1>1, <2>1, <2>3
    <3>2. text[f + j - 1] = 13 /\ text[f + (j + 1) - 1] = 10
      BY <1>5, <2>1, <3>1
    <3>3. f + j - 1 \in f..(l - 1) /\ f + (j + 1) - 1 = (f + j - 1) + 1
          /\ f + j - 1 \in 1..(Len(text) - 1)
      BY <1>1, <1>2, <2>3, <3>1 DEF m
    <3>4. EOLAt(f + j - 1)
      BY <3>2, <3>3 DEF EOLAt
    <3>. QED  BY <3>3, <3>4 DEF f, l
  <2>. QED  BY <1>1, <2>1, <2>2, <2>3
<1>9. Find(L, EOL, 1) = m + 1
  BY <1>7, <1>8, FindIs
<1>10. Len(L) - 1 = m + 1
  BY <1>1, <1>4
<1>11. Line(item) = L
  BY DEF Line, L, s, f, l
<1>. QED  BY <1>9, <1>10, <1>11

(* What follows the end of an item, if that is a divider.                  *)
LEMMA RestStarts ==
  ASSUME text \in Seq(Bytes), NEW l \in Nat, EOLAt(l + 1)
  PROVE  LET r == SubSeq(text, l + 1, Len(text))
         IN /\ r \in Seq(Int) /\ Len(r) = Len(text) - l
            /\ \A i \in 1..(Len(text) - l) : r[i] = text[l + i]
            /\ r[1] = 13 /\ r[2] = 10 /\ 2 <= Len(r)
<1>. DEFINE n == Len(text)  r == SubSeq(text, l + 1, n)
<1>1. n \in Nat /\ l + 2 <= n /\ text[l + 1] = 13 /\ text[l + 2] = 10
  <2>1. n \in Nat
    BY LenProperties
  <2>2. l + 1 \in 1..(n - 1) /\ (l + 1) + 1 = l + 2
    BY DEF EOLAt
  <2>. HIDE DEF n
  <2>. QED  BY <2>1, <2>2 DEF EOLAt
<1>2. /\ r \in Seq(Int) /\ Len(r) = IF l + 1 <= n THEN n - (l + 1) + 1 ELSE 0
      /\ \A i \in 1..(n - (l + 1) + 1) : r[i] = text[(l + 1) + i - 1]
  <2>1. l + 1 \in Nat \ {0} /\ n \in Int /\ n <= n
    BY <1>1
  <2>. QED  BY <2>1, PartOfText
<1>. HIDE DEF r, n
<1>3. n - (l + 1) + 1 = n - l /\ l + 1 <= n /\ \A i \in Nat : (l + 1) + i - 1 = l + i
  BY <1>1
<1>4. /\ r \in Seq(Int) /\ Len(r) = n - l
      /\ \A i \in 1..(n - l) : r[i] = text[l + i]
  BY <1>2, <1>3
<1>5. 1 \in 1..(n - l) /\ 2 \in 1..(n - l) /\ 2 <= n - l
  BY <1>1
<1>. QED  BY <1>1, <1>4, <1>5 DEF r, n

LEMMA NextIsEOL ==
  ASSUME text \in Seq(Bytes), NEW l \in Nat, EOLAt(l + 1)
  PROVE  SubSeq(SubSeq(text, l + 1, Len(text)), 1, 2) = EOL
<1>. DEFINE r == SubSeq(text, l + 1, Len(text))  h == SubSeq(r, 1, 2)
<1>1. r \in Seq(Int) /\ r[1] = 13 /\ r[2] = 10 /\ 2 <= Len(r)
  BY RestStarts
<1>. HIDE DEF r
<1>2. h \in Seq(Int) /\ Len(h) = 2 /\ h[1] = 13 /\ h[2] = 10
  <2>1. \A i \in 1..2 : r[i] \in Int
    BY <1>1
  <2>2. h \in Seq(Int) /\ Len(h) = 2 /\ \A i \in 1..2 : h[i] = r[1 + i - 1]
    BY <2>1, SubSeqProperties
  <2>. HIDE DEF h
  <2>. QED  BY <1>1, <2>2
<1>. HIDE DEF h
<1>3. h = EOL
  <2>1. \A i \in 1..2 : i = 1 \/ i = 2
    OBVIOUS
  <2>2. \A i \in 1..2 : h[i] = EOL[i]
    BY <1>2, <2>1, EOLFacts
  <2>. QED  BY <1>2, <2>2, EOLFacts, SeqEqual
<1>. QED  BY <1>3 DEF h, r

(* A request without empty lines, of any length, is cut into its lines.    *)
THEOREM CutsIntoLines == Spec => []LinesKept
<1>. DEFINE last == out[Len(out)].last
<1>1. ASSUME CutInv, at = "done", Regular PROVE text \in Seq(Bytes) /\ Chained /\ Behind
  BY <1>1 DEF CutInv
<1>2. Len(EOL) = 2
  BY EOLFacts
<1>3. ASSUME CutInv, at = "done", Regular, NEW k \in DOMAIN out
      PROVE  /\ Find(Line(out[k]), EOL, 1) = Len(Line(out[k])) - 1
             /\ out[k].first = IF k = 1 THEN 1 ELSE out[k - 1].last + 1 + Len(EOL)
             /\ k # Len(out) => SubSeq(Rest(k), 1, Len(EOL)) = EOL
  <2>1. /\ out \in Seq([first : Int, last : Int]) /\ text \in Seq(Bytes) /\ Chained
        /\ Len(text) \in Nat
    BY <1>1, <1>3, LenProperties DEF CutInv
  <2>2. Len(out) \in Nat /\ DOMAIN out = 1..Len(out)
    BY <2>1, LenProperties
  <2>3. k \in 1..Len(out)
    BY <1>3, <2>2
  <2>4. /\ 1 <= out[k].first /\ out[k].first <= out[k].last /\ out[k].last <= Len(text)
        /\ \A i \in out[k].first..(out[k].last - 1) : ~EOLAt(i)
        /\ out[k].first = IF k = 1 THEN 1 ELSE out[k - 1].last + 3
        /\ k # Len(out) => EOLAt(out[k].last + 1)
    BY <2>1, <2>3 DEF Chained
  <2>5. out[k].first \in Nat \ {0} /\ out[k].last \in Nat
    <3>1. out[k].first \in Int /\ out[k].last \in Int
      BY <2>1, <2>3, ItemFacts
    <3>. QED  BY <2>4, <3>1
  <2>6. Find(Line(out[k]), EOL, 1) = Len(Line(out[k])) - 1
    BY <2>1, <2>4, <2>5, LineEnds
  <2>7. out[k].first = IF k = 1 THEN 1 ELSE out[k - 1].last + 1 + Len(EOL)
    <3>1. CASE k = 1
      BY <2>4, <3>1
    <3>2. CASE k # 1
      <4>1. k - 1 \in 1..Len(out)
        BY <2>2, <2>3, <3>2
      <4>2. PICK l \in Int : l = out[k - 1].last
        BY <2>1, <4>1, ItemFacts
      <4>3. out[k].first = l + 3 /\ l + 3 = l + 1 + 2
        BY <2>4, <3>2, <4>2
      <4>. QED  BY <1>2, <3>2, <4>2, <4>3
    <3>. QED  BY <3>1, <3>2
  <2>8. ASSUME k # Len(out) PROVE SubSeq(Rest(k), 1, Len(EOL)) = EOL
    <3>1. Rest(k) = SubSeq(text, out[k].last + 1, Len(text))
      <4>1. k # 0
        BY <2>2, <2>3
      <4>. QED  BY <4>1 DEF Rest
    <3>. QED  BY <1>2, <2>1, <2>4, <2>5, <2>8, <3>1, NextIsEOL
  <2>. QED  BY <2>6, <2>7, <2>8
<1>4. ASSUME CutInv, at = "done", Regular
      PROVE  \/ out # <<>> /\ Rest(Len(out)) \in {<<>>, EOL}
             \/ \E b \in Bytes : Rest(Len(out)) = IF out = <<>> THEN <<b>> ELSE EOL \o <<b>>
  <2>. DEFINE n == Len(text)
  <2>1. /\ out \in Seq([first : Int, last : Int]) /\ text \in Seq(Bytes) /\ Chained
        /\ Behind /\ n \in Nat
    BY <1>1, <1>4, LenProperties DEF CutInv
  <2>. HIDE DEF n
  <2>2. CASE out = <<>>
    <3>1. Len(out) = 0 /\ n = 1
      BY <2>1, <2>2, EmptySeq DEF Behind, n
    <3>2. text \in [1..1 -> Bytes]
      BY <2>1, <3>1, LenProperties DEF n
    <3>3. PICK b \in Bytes : text[1] = b
      BY <3>2
    <3>4. Rest(0) = SubSeq(text, 1, 1)
      BY <3>1 DEF Rest, n
    <3>5. /\ SubSeq(text, 1, 1) \in Seq(Int) /\ Len(SubSeq(text, 1, 1)) = 1
          /\ \A i \in 1..1 : SubSeq(text, 1, 1)[i] = text[1 + i - 1]
      <4>1. 1 \in Nat \ {0} /\ 1 \in Int /\ 1 <= Len(text) /\ 1 - 1 + 1 = 1 /\ 1 <= 1
        BY <3>1 DEF n
      <4>. QED  BY <2>1, <4>1, PartOfText
    <3>6. /\ <<b>> \in Seq(Int) /\ Len(<<b>>) = 1 /\ \A i \in 1..1 : <<b>>[i] = b
      BY UtilAssumption
    <3>7. \A i \in 1..1 : SubSeq(text, 1, 1)[i] = <<b>>[i]
      BY <3>3, <3>5, <3>6
    <3>8. SubSeq(text, 1, 1) = <<b>>
      BY <3>5, <3>6, <3>7, SeqEqual
    <3>. QED  BY <2>2, <3>1, <3>4, <3>8
  <2>3. CASE out # <<>>
    <3>1. Len(out) \in Nat \ {0} /\ last \in Int
      BY <2>1, <2>3, ItemFacts
    <3>. HIDE DEF last
    <3>2. last \in Nat
      <4>1. Len(out) \in 1..Len(out)
        BY <3>1
      <4>2. /\ 1 <= out[Len(out)].first /\ out[Len(out)].first <= out[Len(out)].last
            /\ out[Len(out)].first \in Int
        BY <2>1, <4>1, ItemFacts DEF Chained
      <4>. QED  BY <3>1, <4>2 DEF last
    <3>3. Rest(Len(out)) = SubSeq(text, last + 1, n)
      BY <3>1 DEF Rest, last, n
    <3>4. last = n \/ (last \in {n - 2, n - 3} /\ EOLAt(last + 1))
      BY <2>1, <2>3 DEF Behind, last, n
    <3>5. CASE last = n
      <4>1. Rest(Len(out)) = <<>>
        BY <2>1, <3>3, <3>5, SubSeqEmpty
      <4>. QED  BY <2>3, <4>1
    <3>6. CASE last = n - 2 /\ EOLAt(last + 1)
      <4>. DEFINE r == SubSeq(text, last + 1, n)
      <4>1. r \in Seq(Int) /\ Len(r) = n - last /\ r[1] = 13 /\ r[2] = 10
        BY <2>1, <3>2, <3>6, RestStarts DEF n
      <4>. HIDE DEF r
      <4>2. Len(r) = 2
        BY <2>1, <3>6, <4>1
      <4>3. \A i \in 1..2 : i = 1 \/ i = 2
        OBVIOUS
      <4>4. \A i \in 1..2 : r[i] = EOL[i]
        BY <4>1, <4>3, EOLFacts
      <4>5. r = EOL
        BY <4>1, <4>2, <4>4, EOLFacts, SeqEqual
      <4>. QED  BY <2>3, <3>3, <4>5 DEF r
    <3>7. CASE last = n - 3 /\ EOLAt(last + 1)
      <4>. DEFINE r == SubSeq(text, last + 1, n)
      <4>1. /\ r \in Seq(Int) /\ Len(r) = n - last /\ r[1] = 13 /\ r[2] = 10
            /\ \A i \in 1..(n - last) : r[i] = text[last + i]
        BY <2>1, <3>2, <3>7, RestStarts DEF n
      <4>. HIDE DEF r
      <4>2. Len(r) = 3 /\ n - last = 3 /\ last + 3 = n /\ n \in 1..n
        BY <2>1, <3>2, <3>7, <4>1
      <4>3. PICK b \in Bytes : text[n] = b
        BY <2>1, <4>2, ElementOfSeq DEF n
      <4>4. r[3] = b
        BY <4>1, <4>2, <4>3
      <4>. DEFINE t == EOL \o <<b>>
      <4>5. t \in Seq(Int) /\ Len(t) = 3 /\ t[1] = 13 /\ t[2] = 10 /\ t[3] = b
        <5>1. b \in Int
          BY UtilAssumption
        <5>. QED  BY <5>1 DEF EOL
      <4>. HIDE DEF t
      <4>6. \A i \in 1..3 : i = 1 \/ i = 2 \/ i = 3
        OBVIOUS
      <4>7. \A i \in 1..3 : r[i] = t[i]
        BY <4>1, <4>4, <4>5, <4>6
      <4>8. r = t
        BY <4>1, <4>2, <4>5, <4>7, SeqEqual
      <4>. QED  BY <2>3, <3>3, <4>8 DEF r, t
    <3>. QED  BY <3>4, <3>5, <3>6, <3>7
  <2>. QED  BY <2>2, <2>3
<1>5. CutInv => LinesKept
  <2>. SUFFICES ASSUME CutInv, at = "done", text # <<>>, Find(text, EOL, 1) # 1,
                       Find(text, EOL \o EOL, 1) = 0
       PROVE  /\ \A k \in DOMAIN out :
                   /\ Find(Line(out[k]), EOL, 1) = Len(Line(out[k])) - 1
                   /\ out[k].first = IF k = 1 THEN 1 ELSE out[k - 1].last + 1 + Len(EOL)
                   /\ k # Len(out) => SubSeq(Rest(k), 1, Len(EOL)) = EOL
              /\ \/ out # <<>> /\ Rest(Len(out)) \in {<<>>, EOL}
                 \/ \E b \in Bytes :
                      Rest(Len(out)) = IF out = <<>> THEN <<b>> ELSE EOL \o <<b>>
    BY Zenon DEF LinesKept
  <2>1. Regular
    BY WithoutEmptyLines DEF CutInv
  <2>2. \A k \in DOMAIN out :
          /\ Find(Line(out[k]), EOL, 1) = Len(Line(out[k])) - 1
          /\ out[k].first = IF k = 1 THEN 1 ELSE out[k - 1].last + 1 + Len(EOL)
          /\ k # Len(out) => SubSeq(Rest(k), 1, Len(EOL)) = EOL
    BY <1>3, <2>1, Zenon
  <2>. QED  BY <1>4, <2>1, <2>2, Zenon
<1>. QED  BY <1>5, CutInvariant, PTL
=============================================================================
