-------------------------------- MODULE Util --------------------------------
(***************************************************************************)
(* The pure algorithms of the library (src/src/ntrip_util.cc) and the      *)
(* parsing in src/src/ntrip_caster.cc that rests on them, against          *)
(* reference definitions, over every text.  A text is a sequence of bytes, *)
(* a Base64 code one of indices into kBase64CodeTable with Pad for '='.  A *)
(* position is a whole number of minutes of arc.                           *)
(*                                                                         *)
(* The loops whose iterations do not depend on each other, those of Base64 *)
(* and of the checksum, are written element by element; StringSplit, whose *)
(* iterations do, is a loop: one step each.                                *)
(***************************************************************************)
EXTENDS Integers, Sequences, FiniteSets

CONSTANTS
  Bytes,       \* the bytes texts are made of, never a zero
  MaxLen,      \* bound: the length of a text
  Farthest     \* 10800 minutes: the largest longitude

ASSUME UtilAssumption == Bytes \subseteq 1..255 /\ MaxLen \in Nat /\ Farthest \in Nat

VARIABLES
  text, position,
  at,           \* text while it is read, find in StringSplit's loop, done
  pos_begin,    \* StringSplit's, counted from 1
  out           \* the items found, each as the first and the last byte it has
vars == <<text, position, at, pos_begin, out>>

Dollar == 36
Star == 42
Colon == 58
EOL == <<13, 10>>
Pad == 64

Places(s, part, from) ==
  {k \in from..(Len(s) - Len(part) + 1) : SubSeq(s, k, k + Len(part) - 1) = part}

(* The index at which part first occurs in s, from one on; 0 if it does not. *)
Find(s, part, from) ==
  LET found == Places(s, part, from)
  IN IF found = {} THEN 0 ELSE CHOOSE k \in found : \A j \in found : k <= j

-----------------------------------------------------------------------------
(* Base64.                                                                 *)

(* Mutant: the upper bits of the third byte are lost.                      *)
SextetsCut(a, b, c) == <<a \div 4, (a % 4) * 16 + (b \div 16), (b % 16) * 4, c % 64>>

Sextets(a, b, c) ==
  <<a \div 4, (a % 4) * 16 + (b \div 16), (b % 16) * 4 + (c \div 64), c % 64>>

Base64Encode(raw) ==
  LET Byte(k) == IF k <= Len(raw) THEN raw[k] ELSE 0
  IN [k \in 1..(4 * ((Len(raw) + 2) \div 3)) |->
        LET i == 3 * ((k - 1) \div 4)
            j == (k - 1) % 4
        IN IF i + j > Len(raw) THEN Pad
           ELSE Sextets(Byte(i + 1), Byte(i + 2), Byte(i + 3))[j + 1]]

Octets(a, b, c, d) == <<a * 4 + (b \div 16), (b % 16) * 16 + (c \div 4), (c % 4) * 64 + d>>

(* Mutant: the byte a padded group leaves off with is dropped.             *)
DecodedLenCut(code, last) ==
  IF last # 0 /\ code[4 * last - 1] = Pad THEN 3 * last - 3 ELSE 3 * last

(* A padded group is the last, and yields one byte too many.               *)
DecodedLen(code, last) ==
  IF last # 0 /\ code[4 * last - 1] = Pad THEN 3 * last - 1 ELSE 3 * last

(* What Base64Encode yields, decoded; the -1 for a text that is empty or   *)
(* whose length is no multiple of four, and what becomes of characters     *)
(* outside the table, are left out.                                        *)
Base64Decode(code) ==
  LET Sextet(k) == IF code[k] = Pad THEN 0 ELSE code[k]
      padded == {g \in 1..(Len(code) \div 4) : Pad \in {code[4 * g - 1], code[4 * g]}}
      last == IF padded = {} THEN Len(code) \div 4
              ELSE CHOOSE g \in padded : \A h \in padded : g <= h
  IN [k \in 1..DecodedLen(code, last) |->
        LET i == 4 * ((k - 1) \div 3)
        IN Octets(code[i + 1], code[i + 2], Sextet(i + 3), Sextet(i + 4))[((k - 1) % 3) + 1]]

(* The user and the password the caster finds, split at the first colon.   *)
Login(user_passwd) ==
  LET pos == Find(user_passwd, <<Colon>>, 1)
  IN <<SubSeq(user_passwd, 1, pos - 1), SubSeq(user_passwd, pos + 1, Len(user_passwd))>>

Presents(raw) == Login(Base64Decode(Base64Encode(raw)))

-----------------------------------------------------------------------------
(* GGA sentences.                                                          *)

(* The bits of weight w that are set, counted modulo 2.                    *)
Parity(s, w) == Cardinality({k \in DOMAIN s : (s[k] \div w) % 2 = 1}) % 2

(* The exclusive or of all bytes.                                          *)
XorOf(s) ==
  Parity(s, 1) + 2 * Parity(s, 2) + 4 * Parity(s, 4) + 8 * Parity(s, 8)
    + 16 * Parity(s, 16) + 32 * Parity(s, 32) + 64 * Parity(s, 64) + 128 * Parity(s, 128)

HexDigit(d) == IF d < 10 THEN 48 + d ELSE 55 + d
HexValue(b) == IF b < 58 THEN b - 48 ELSE b - 55

(* src has a star, followed by two digits.                                 *)
BccCheckSumCompareForGGA(src) ==
  LET star == Find(src, <<Star>>, 1)
  IN XorOf(SubSeq(src, 2, star - 1)) - (16 * HexValue(src[star + 1]) + HexValue(src[star + 2]))

(* Mutant: the dollar sign is summed up too.                               *)
ChecksumFromDollar(body) == XorOf(<<Dollar>> \o body)

(* The terminating zero is summed up too.                                  *)
Checksum(body) == XorOf(body \o <<0>>)

(* The sentence around what is printed between '$' and '*'.                *)
GGAFrameGenerate(body) ==
  LET sum == Checksum(body)
  IN <<Dollar>> \o body \o <<Star, HexDigit(sum \div 16), HexDigit(sum % 16)>> \o EOL

(* Mutant: decimal degrees.                                                *)
HundredfoldDegrees(degree) == 100 * (degree \div 60) + ((100 * (degree % 60)) \div 60)

(* A hundred times the result: ddmm.                                       *)
DegreeConvertToDDMM(degree) == 100 * (degree \div 60) + (degree % 60)

Coordinate(degree) ==
  LET ddmm == DegreeConvertToDDMM(degree)
  IN [value |-> IF ddmm < 0 THEN -ddmm ELSE ddmm, positive |-> degree > 0]

-----------------------------------------------------------------------------
(* Every position, and every text, cut into lines.                         *)

Init ==
  /\ text = <<>> /\ position \in -Farthest..Farthest
  /\ at = "text" /\ pos_begin = 1 /\ out = <<>>

Type == \E b \in Bytes :
  /\ at = "text" /\ Len(text) < MaxLen /\ text' = Append(text, b)
  /\ UNCHANGED <<at, pos_begin, out>>

StringSplit ==
  /\ at = "text" /\ at' = "find"
  /\ UNCHANGED <<text, pos_begin, out>>

Item(last) == Append(out, [first |-> pos_begin, last |-> last])

CutItem ==
  LET div_pos_begin == Find(text, EOL, pos_begin)
  IN /\ at = "find" /\ div_pos_begin # 0
     /\ out' = IF div_pos_begin > pos_begin THEN Item(div_pos_begin - 1) ELSE out
     /\ pos_begin' = div_pos_begin + Len(EOL)
     /\ UNCHANGED <<text, at>>

(* Mutant: the last fragment must be longer than the divider.              *)
LastItemKeptIfLonger == pos_begin + Len(EOL) <= Len(text)

(* The last fragment is dropped when it is shorter than the divider.       *)
LastItemKept == pos_begin - 1 + Len(EOL) <= Len(text)

LastItem ==
  /\ at = "find" /\ Find(text, EOL, pos_begin) = 0
  /\ at' = "done"
  /\ out' = IF LastItemKept THEN Item(Len(text)) ELSE out
  /\ UNCHANGED <<text, pos_begin>>

Next ==
  /\ position = 0 /\ UNCHANGED position
  /\ Type \/ StringSplit \/ CutItem \/ LastItem

Spec == Init /\ [][Next]_vars
-----------------------------------------------------------------------------
(* Properties.                                                             *)

(* The k-th bit of a sequence of numbers of w bits each, 0 past its end.   *)
Bit(s, w, k) ==
  IF k \div w >= Len(s) THEN 0 ELSE (s[(k \div w) + 1] \div 2^(w - 1 - (k % w))) % 2

(* What NtripClient and NtripServer put into their Authorization line is   *)
(* Base64 as other casters read it: the bits of the text, six by six,      *)
(* filled up with zeros, and padded to whole groups of four.               *)
EncodesBits ==
  LET code == Base64Encode(text)
      digits == (8 * Len(text) + 5) \div 6
  IN /\ Len(code) = 4 * ((Len(text) + 2) \div 3)
     /\ \A k \in DOMAIN code : code[k] = Pad <=> k > digits
     /\ \A k \in 0..(6 * digits - 1) : Bit(code, 6, k) = Bit(text, 8, k)

(* A user and a password, neither of them empty.                           *)
IsLogin(s) == Find(s, <<Colon>>, 1) \in 2..(Len(s) - 1)

Logins == {s \in UNION {[1..n -> Bytes] : n \in 3..4} : IsLogin(s)}
Known == [s \in Logins |-> Presents(s)]

(* Encoded by a client, decoded and split by the caster, two logins are    *)
(* taken for the same exactly when they are, in spite of the byte that     *)
(* decoding appends to some: a client gets at a mount point with the       *)
(* credentials its server registered, and with no others.                  *)
AdmitsIffEqual ==
  at = "text" /\ IsLogin(text) => \A s \in Logins : Presents(text) = Known[s] <=> text = s

(* An item as StringSplit hands it out, with the divider appended.         *)
Line(item) == SubSeq(text, item.first, item.last) \o EOL

(* What follows the k-th item, or all if k is 0.                           *)
Rest(k) == SubSeq(text, IF k = 0 THEN 1 ELSE out[k].last + 1, Len(text))

(* A request without empty lines is cut into its lines, each with its end  *)
(* of line, and nothing is lost or made up but the end of an incomplete    *)
(* last line; one of a single byte is dropped.                             *)
LinesKept ==
  at = "done" /\ text # <<>> /\ Find(text, EOL, 1) # 1 /\ Find(text, EOL \o EOL, 1) = 0 =>
    /\ \A k \in DOMAIN out :
         /\ Find(Line(out[k]), EOL, 1) = Len(Line(out[k])) - 1
         /\ out[k].first = IF k = 1 THEN 1 ELSE out[k - 1].last + 1 + Len(EOL)
         /\ k # Len(out) => SubSeq(Rest(k), 1, Len(EOL)) = EOL
    /\ \/ out # <<>> /\ Rest(Len(out)) \in {<<>>, EOL}
       \/ \E b \in Bytes : Rest(Len(out)) = IF out = <<>> THEN <<b>> ELSE EOL \o <<b>>

(* Bytes that a body of a GGA sentence may have.                           *)
IsBody(s) == \A k \in DOMAIN s : s[k] < 128 /\ s[k] # Star

(* The caster's comparison passes a sentence the client generated, and     *)
(* none that differs from it in one byte.                                  *)
ChecksumGuards ==
  LET frame == GGAFrameGenerate(text)
  IN at = "text" /\ IsBody(text) =>
       /\ BccCheckSumCompareForGGA(frame) = 0
       /\ \A k \in DOMAIN text : \A b \in Bytes \ {text[k], Star} :
            b < 128 => BccCheckSumCompareForGGA([frame EXCEPT ![k + 1] = b]) # 0

(* What a receiver reads from a coordinate.                                *)
Read(c) ==
  LET minutes == 60 * (c.value \div 100) + (c.value % 100)
  IN IF c.positive THEN minutes ELSE -minutes

(* A position in the north and east, or of whole degrees, is read as it    *)
(* was set.  (Elsewhere it is not: the degree is rounded down, so that     *)
(* minutes count from the wrong end.)                                      *)
PositionExact ==
  position >= 0 \/ position % 60 = 0 => Read(Coordinate(position)) = position
=============================================================================
