--------------------------- MODULE HeaderSealProofs ---------------------------
(***************************************************************************)
(* Proofs about HeaderSeal, for every number of values of an octet, every  *)
(* set of arrays, texts, indices and numbers, and every kind of header.    *)
(***************************************************************************)
EXTENDS HeaderSeal, TLAPS

-------------------------------------------------------------------------------
(* Division, and the words of util.h.                                      *)
LEMMA DivMod ==
  ASSUME NEW a \in Nat, NEW n \in Nat \ {0}
  PROVE  /\ a \div n \in Nat
         /\ a % n \in 0 .. n - 1
         /\ a = n * (a \div n) + (a % n)
  BY SMTT(30)

LEMMA DivUnique ==
  ASSUME NEW n \in Nat \ {0}, NEW q \in Nat, NEW r \in 0 .. n - 1
  PROVE  (n * q + r) \div n = q /\ (n * q + r) % n = r
  BY SMTT(30)

(* Two multiples of n that are less than n apart are the same.             *)
LEMMA MultiplesApart ==
  ASSUME NEW n \in Nat \ {0}, NEW q \in Int, NEW p \in Int, NEW d \in Int,
         n * q = n * p + d, d < n, -n < d
  PROVE  d = 0
  BY SMTT(30)

LEMMA WordsPositive == Words \in Nat \ {0} /\ Words > 3
  BY WordAssumption, SMTT(30) DEF Words

LEMMA NtohsZero == \A w \in WordVal : Ntohs[w] \in WordVal /\ (Ntohs[w] = 0 <=> w = 0)
  BY WordAssumption, WordsPositive DEF WordVal

LEMMA LittleRange ==
  ASSUME NEW lo \in ByteVal, NEW hi \in ByteVal
  PROVE  Little(lo, hi) \in WordVal
  BY WordAssumption, SMTT(30) DEF Little, ByteVal, WordVal, Words

LEMMA FoldRange == ASSUME NEW t \in Nat PROVE Fold(t) \in WordVal
<1> DEFINE s == Sum32(t)
<1>1. Words * Words \in Nat \ {0}
  BY WordsPositive, SMTT(30)
<1>2. s \in Nat
  BY <1>1, DivMod DEF Sum32
<1>3. Folded(t) \in Nat
  BY <1>2, WordsPositive, DivMod DEF Folded
<1> HIDE DEF s
<1>4. Folded(t) % Words \in 0 .. Words - 1
  BY <1>3, WordsPositive, DivMod, Zenon
<1> QED BY <1>4, WordsPositive DEF Fold, WordVal

(* A sum that fits four octets is not cut.                                 *)
LEMMA SmallSum ==
  ASSUME NEW t \in Nat, t < Words * Words
  PROVE  Sum32(t) = t
<1> DEFINE n == Words * Words
<1>1. n \in Nat \ {0}
  BY WordsPositive, SMTT(30)
<1>2. t = n * 0 + t /\ t \in 0 .. n - 1
  BY <1>1
<1> HIDE DEF n
<1>3. t % n = t
  BY <1>1, <1>2, DivUnique
<1> QED BY <1>3 DEF Sum32, n

(* What the two words of a sum add up to, when the checksum is zero.       *)
LEMMA FoldZero ==
  ASSUME NEW t \in Nat, t < Words * Words
  PROVE  Fold(t) = 0 <=> Folded(t) = Words - 1
<1> DEFINE q == t \div Words
           r == t % Words
<1>1. q \in Nat /\ r \in 0 .. Words - 1 /\ t = Words * q + r
  BY WordsPositive, DivMod, Zenon
<1>2. Folded(t) = q + r
  BY SmallSum DEF Folded
<1> HIDE DEF q, r
<1>3. q < Words
  BY <1>1, WordsPositive, SMTT(30)
<1>4. q + r \in Nat /\ q + r < 2 * Words - 1
  BY <1>1, <1>3, WordsPositive
<1>5. CASE q + r < Words
  <2>1. q + r \in 0 .. Words - 1 /\ q + r = Words * 0 + (q + r)
    BY <1>4, <1>5, WordsPositive
  <2>2. (q + r) % Words = q + r
    BY <2>1, WordsPositive, DivUnique
  <2> QED BY <1>2, <1>4, <2>2, WordsPositive DEF Fold
<1>6. CASE q + r >= Words
  <2> DEFINE rest == q + r - Words
  <2>1. rest \in 0 .. Words - 1 /\ q + r = Words * 1 + rest
    BY <1>1, <1>4, <1>6, WordsPositive
  <2> HIDE DEF rest
  <2>2. (Words * 1 + rest) % Words = rest
    BY <2>1, WordsPositive, DivUnique
  <2>3. rest # Words - 1
    BY <1>4, <2>1, WordsPositive
  <2>4. Fold(t) = Words - 1 - rest
    BY <1>2, <2>1, <2>2 DEF Fold
  <2> QED BY <1>2, <1>6, <2>1, <2>3, <2>4, WordsPositive
<1> QED BY <1>4, <1>5, <1>6, WordsPositive

(* The sums with checksum zero are multiples of 2^16 - 1.                  *)
LEMMA ZeroIsMultiple ==
  ASSUME NEW t \in Nat, t < Words * Words, Fold(t) = 0
  PROVE  \E k \in Nat : t = (Words - 1) * k
<1> DEFINE q == t \div Words
           r == t % Words
<1>1. q \in Nat /\ r \in 0 .. Words - 1 /\ t = Words * q + r
  BY WordsPositive, DivMod, Zenon
<1>2. q + r = Words - 1
  BY FoldZero, SmallSum DEF Folded
<1> HIDE DEF q, r
<1>3. t = (Words - 1) * (q + 1)
  BY <1>1, <1>2, WordsPositive, SMTT(30)
<1>4. q + 1 \in Nat
  BY <1>1
<1> QED BY <1>3, <1>4

(* Adding its checksum to a sum gives checksum zero, unless a carry of the *)
(* first one was lost.                                                     *)
LEMMA SealCancels ==
  ASSUME NEW t \in Nat, t + Words < Words * Words, ~CarriesTwice(t)
  PROVE  Fold(t + Fold(t)) = 0
<1> DEFINE q == t \div Words
           r == t % Words
           f == Fold(t)
<1>1. q \in Nat /\ r \in 0 .. Words - 1 /\ t = Words * q + r
  BY WordsPositive, DivMod, Zenon
<1>w. Words * Words \in Nat
  BY WordsPositive, SMTT(30)
<1>2. Folded(t) = q + r /\ t < Words * Words
  BY <1>w, WordsPositive, SmallSum DEF Folded
<1>3. q + r \in 0 .. Words - 1
  BY <1>1, <1>2, WordsPositive DEF CarriesTwice
<1>4. f = Words - 1 - (q + r)
  <2>1. q + r = Words * 0 + (q + r)
    BY <1>3, WordsPositive
  <2>2. (q + r) % Words = q + r
    BY <1>3, <2>1, WordsPositive, DivUnique
  <2> QED BY <1>2, <2>2 DEF Fold
<1> HIDE DEF q, r, f
<1>5. t + f = Words * q + (Words - 1 - q) /\ t + f \in Nat
  BY <1>1, <1>3, <1>4, WordsPositive
<1>6. Words - 1 - q \in 0 .. Words - 1
  BY <1>1, <1>3, WordsPositive
<1>7. (t + f) \div Words = q /\ (t + f) % Words = Words - 1 - q
  <2>1. /\ (Words * q + (Words - 1 - q)) \div Words = q
        /\ (Words * q + (Words - 1 - q)) % Words = Words - 1 - q
    BY <1>1, <1>6, WordsPositive, DivUnique, Zenon
  <2> QED BY <1>5, <2>1
<1>8. t + f < Words * Words
  BY <1>1, <1>3, <1>4, <1>w, WordsPositive
<1>9. Folded(t + f) = Words - 1
  BY <1>1, <1>5, <1>7, <1>8, WordsPositive, SmallSum DEF Folded
<1> QED BY <1>5, <1>8, <1>9, FoldZero DEF f

(* A sum with checksum zero that is off by less than 2^16 - 1 has another. *)
LEMMA OffByLess ==
  ASSUME NEW t \in Nat, t < Words * Words, Fold(t) = 0,
         NEW d \in Int, d # 0, d < Words - 1, -(Words - 1) < d,
         t + d \in Nat, t + d < Words * Words
  PROVE  Fold(t + d) # 0
<1> SUFFICES ASSUME Fold(t + d) = 0 PROVE FALSE
  OBVIOUS
<1>1. PICK p \in Nat : t = (Words - 1) * p
  BY ZeroIsMultiple
<1>2. PICK q \in Nat : t + d = (Words - 1) * q
  BY ZeroIsMultiple
<1> DEFINE n == Words - 1
<1>3. n \in Nat \ {0}
  BY WordsPositive
<1>4. n * q = n * p + d /\ d < n /\ -n < d
  BY <1>1, <1>2
<1> HIDE DEF n
<1> QED BY <1>3, <1>4, MultiplesApart

-------------------------------------------------------------------------------
(* Address objects.                                                        *)
InName(k, a) == a.raw \in RawOf(k) /\ a = Named(k, a.raw)

LEMMA SetStrNamed ==
  ASSUME NEW k \in HeaderKind, NEW a, InName(k, a), NEW text
  PROVE  InName(k, SetStr(k, a, text))
<1>1. CASE FamilyOf[k] = "mac"
  BY <1>1 DEF InName, Named, RawOf, SetStr, MacSetStr, MacName
<1>2. CASE FamilyOf[k] = "ipv4"
  BY <1>2 DEF InName, Named, RawOf, SetStr, Ipv4SetStr, Ipv4Name
<1>3. CASE FamilyOf[k] = "ipv6"
  BY <1>3, WordAssumption DEF InName, Named, RawOf, SetStr, Ipv6SetStr, Ipv6Name, Ipv6Raw
<1> QED BY <1>1, <1>2, <1>3 DEF HeaderKind, FamilyOf

(* Clearing, and reading an array.                                         *)
LEMMA ArrayNamed ==
  ASSUME NEW k \in HeaderKind
  PROVE  /\ \A raw \in RawOf(k) : InName(k, Named(k, raw))
         /\ InName(k, Clear(k))
<1>1. CASE FamilyOf[k] = "mac"
  BY <1>1, WordAssumption
  DEF InName, Named, RawOf, Clear, MacClear, MacName, MacRaw, ByteVal
<1>2. CASE FamilyOf[k] = "ipv4"
  BY <1>2, WordAssumption
  DEF InName, Named, RawOf, Clear, Ipv4Clear, Ipv4Name, Ipv4Raw, ByteVal
<1>3. CASE FamilyOf[k] = "ipv6"
  BY <1>3, WordsPositive
  DEF InName, Named, RawOf, Clear, Ipv6Clear, Ipv6Name, Ipv6Raw, WordVal
<1> QED BY <1>1, <1>2, <1>3 DEF HeaderKind, FamilyOf

(* Whatever call is made on an address, its text is that of its octets.    *)
LEMMA CallsNamed ==
  ASSUME NEW k \in HeaderKind, NEW a, NEW b, InName(k, a), InName(k, b),
         NEW c \in Calls(k, a, b)
  PROVE  InName(k, c)
<1>1. CASE FamilyOf[k] = "mac"
  <2>1. MacSetByArray(b.raw) = b
    BY <1>1 DEF InName, Named, MacSetByArray
  <2>2. \A g : InName(k, MacSetStr(a, g)) /\ InName(k, MacSetByDev(a, g))
    BY <1>1 DEF InName, Named, RawOf, MacSetStr, MacSetByDev, MacName
  <2>3. \A g \in MacRaw : InName(k, MacSetByArray(g))
    BY <1>1 DEF InName, Named, RawOf, MacSetByArray, MacName
  <2>4. \A i \in Indices, n \in Numbers["mac"] : InName(k, MacSetOctet(a, i, n))
    BY <1>1, AddressAssumption
    DEF InName, Named, RawOf, MacSetOctet, MacName, MacRaw
  <2>5. InName(k, MacClear)
    BY <1>1, ArrayNamed DEF Clear
  <2>6. InName(k, MacBcast)
    BY <1>1, <2>5 DEF MacBcast, InName, Named, RawOf, MacSetStr, MacName
  <2> QED BY <1>1, <2>1, <2>2, <2>3, <2>4, <2>5, <2>6 DEF Calls, MacCalls
<1>2. CASE FamilyOf[k] = "ipv4"
  <2>1. Ipv4SetByArray(b.raw) = b
    BY <1>2 DEF InName, Named, Ipv4SetByArray
  <2>2. \A g : InName(k, Ipv4SetStr(a, g)) /\ InName(k, Ipv4SetByDev(a, g))
    BY <1>2 DEF InName, Named, RawOf, Ipv4SetStr, Ipv4SetByDev, Ipv4Name
  <2>3. \A g \in Ipv4Raw : InName(k, Ipv4SetByArray(g))
    BY <1>2 DEF InName, Named, RawOf, Ipv4SetByArray, Ipv4Name
  <2>4. \A i \in Indices, n \in Numbers["ipv4"] : InName(k, Ipv4SetOctet(a, i, n))
    BY <1>2, AddressAssumption
    DEF InName, Named, RawOf, Ipv4SetOctet, Ipv4Name, Ipv4Raw
  <2>5. InName(k, Ipv4Clear)
    BY <1>2, ArrayNamed DEF Clear
  <2> QED BY <1>2, <2>1, <2>2, <2>3, <2>4, <2>5 DEF Calls, Ipv4Calls
<1>3. CASE FamilyOf[k] = "ipv6"
  <2>1. Ipv6SetByArray(b.raw) = b
    BY <1>3 DEF InName, Named, Ipv6SetByArray
  <2>2. \A g : InName(k, Ipv6SetStr(a, g)) /\ InName(k, Ipv6SetByDev(a, g))
    BY <1>3, WordAssumption
    DEF InName, Named, RawOf, Ipv6SetStr, Ipv6SetByDev, Ipv6Name, Ipv6Raw
  <2>3. \A g \in Ipv6Raw : InName(k, Ipv6SetByArray(g))
    BY <1>3 DEF InName, Named, RawOf, Ipv6SetByArray, Ipv6Name
  <2>4. \A i \in Indices, n \in Numbers["ipv6"] : InName(k, Ipv6SetSection(a, i, n))
    BY <1>3, AddressAssumption
    DEF InName, Named, RawOf, Ipv6SetSection, Ipv6Name, Ipv6Raw
  <2>5. InName(k, Ipv6Clear)
    BY <1>3, ArrayNamed DEF Clear
  <2> QED BY <1>3, <2>1, <2>2, <2>3, <2>4, <2>5 DEF Calls, Ipv6Calls
<1> QED BY <1>1, <1>2, <1>3 DEF HeaderKind, FamilyOf

(* Parsing the text of an address gives its octets.                        *)
LEMMA TextOfAddress ==
  ASSUME NEW k \in HeaderKind, NEW a, NEW b, InName(k, b)
  PROVE  SetStr(k, a, b.name) = b
<1>1. CASE FamilyOf[k] = "mac"
  BY <1>1 DEF InName, Named, RawOf, SetStr, MacSetStr, MacName
<1>2. CASE FamilyOf[k] = "ipv4"
  BY <1>2 DEF InName, Named, RawOf, SetStr, Ipv4SetStr, Ipv4Name
<1>3. CASE FamilyOf[k] = "ipv6"
  <2>1. b.raw \in Ipv6Raw /\ b.name = [i \in 1 .. 8 |-> Ntohs[b.raw[i]]]
    BY <1>3 DEF InName, Named, RawOf, Ipv6Name
  <2>2. b.name \in Ipv6Raw
    BY <2>1, WordAssumption DEF Ipv6Raw
  <2>3. [i \in 1 .. 8 |-> Ntohs[b.name[i]]] = b.raw
    BY <2>1, WordAssumption DEF Ipv6Raw
  <2> QED BY <1>3, <2>2, <2>3 DEF InName, Named, SetStr, Ipv6SetStr
<1> QED BY <1>1, <1>2, <1>3 DEF HeaderKind, FamilyOf

-------------------------------------------------------------------------------
(* The sums of headers.                                                    *)
LEMMA RestSmall ==
  ASSUME NEW k \in Kinds, NEW r \in Rests(k)
  PROVE  r \in Nat /\ r + 5 * Words < Words * Words
  BY SealAssumption

LEMMA AddressSumRange ==
  ASSUME NEW raw \in Ipv4Raw
  PROVE  AddressSum(raw) \in 0 .. 2 * (Words - 1)
<1> DEFINE v == Little(raw[1], raw[2])
           w == Little(raw[3], raw[4])
<1>1. v \in WordVal /\ w \in WordVal
  BY LittleRange DEF Ipv4Raw
<1> HIDE DEF v, w
<1>2. v + w \in 0 .. 2 * (Words - 1)
  BY <1>1, WordsPositive DEF WordVal
<1> QED BY <1>2 DEF AddressSum, v, w

(* The buffers of a kind.                                                  *)
Buffer(k) == [src : RawOf(k), dst : RawOf(k), check : WordVal, rest : Rests(k)]

LEMMA TotalSmall ==
  ASSUME NEW k \in Kinds, Sealable(k), NEW b \in Buffer(k)
  PROVE  Total(b) \in Nat /\ Total(b) < Words * Words
<1> DEFINE v == AddressSum(b.src)
           w == AddressSum(b.dst)
<1>1. v \in 0 .. 2 * (Words - 1) /\ w \in 0 .. 2 * (Words - 1)
  BY AddressSumRange DEF Buffer, Sealable, RawOf
<1>2. b.rest \in Nat /\ b.rest + 5 * Words < Words * Words
  BY RestSmall DEF Buffer
<1>3. b.check \in 0 .. Words - 1
  BY DEF Buffer, WordVal
<1>4. Words * Words \in Nat
  BY WordsPositive, SMTT(30)
<1> DEFINE n == Words * Words
<1> HIDE DEF v, w, n
<1>5. b.rest + b.check + v + w \in Nat /\ b.rest + b.check + v + w < n
  BY <1>1, <1>2, <1>3, <1>4, WordsPositive DEF n
<1> QED BY <1>5 DEF Total, v, w, n

(* A sealed header has checksum zero.                                      *)
LEMMA SealedZero ==
  ASSUME NEW k \in Kinds, Sealable(k), NEW b \in Buffer(k), b.check = 0,
         ~CarriesTwice(Total(b))
  PROVE  Fold(Total([b EXCEPT !.check = Fold(Total(b))])) = 0
<1> DEFINE t == Total(b)
           v == AddressSum(b.src)
           w == AddressSum(b.dst)
           f == Fold(t)
<1>1. v \in 0 .. 2 * (Words - 1) /\ w \in 0 .. 2 * (Words - 1)
  BY AddressSumRange DEF Buffer, Sealable, RawOf
<1>2. b.rest \in Nat /\ b.rest + 5 * Words < Words * Words
  BY RestSmall DEF Buffer
<1>3. t = b.rest + 0 + v + w
  BY DEF Total
<1>4. t \in Nat
  BY TotalSmall
<1>f. f \in Nat
  BY <1>4, FoldRange, WordsPositive DEF WordVal
<1>5. Total([b EXCEPT !.check = f]) = b.rest + f + v + w
  BY DEF Total, Buffer
<1>c. ~CarriesTwice(t)
  OBVIOUS
<1>6. Words * Words \in Nat
  BY WordsPositive, SMTT(30)
<1> DEFINE n == Words * Words
<1> HIDE DEF v, w, t, n
<1>7. t + Words < n
  BY <1>1, <1>2, <1>3, <1>6, WordsPositive DEF n
<1>8. Fold(t + f) = 0
  BY <1>4, <1>7, <1>c, SealCancels DEF n
<1> HIDE DEF f
<1>9. t + f = b.rest + f + v + w
  BY <1>1, <1>2, <1>3, <1>f, WordsPositive
<1> QED BY <1>5, <1>8, <1>9 DEF f, t

(* One octet of an address changes the sum by less than 2^16 - 1.          *)
LEMMA OctetApart ==
  ASSUME NEW raw \in Ipv4Raw, NEW i \in 1 .. 4, NEW n \in ByteVal, n # raw[i]
  PROVE  \E d \in Int : /\ d # 0 /\ d < Words - 1 /\ -(Words - 1) < d
                        /\ AddressSum([raw EXCEPT ![i] = n]) = AddressSum(raw) + d
<1> DEFINE e == n - raw[i]
<1>1. /\ e \in Int /\ e # 0 /\ e < Base /\ -Base < e
      /\ Base \in Nat /\ Base > 1
      /\ raw[1] \in Int /\ raw[2] \in Int /\ raw[3] \in Int /\ raw[4] \in Int
  BY WordAssumption DEF Ipv4Raw, ByteVal
<1>2. n = raw[i] + e
  BY <1>1, WordAssumption DEF Ipv4Raw, ByteVal
<1> DEFINE r == [raw EXCEPT ![i] = n]
<1>3. CASE i = 1 \/ i = 3
  <2>1. AddressSum(r) = AddressSum(raw) + e
    <3>1. CASE i = 1
      <4>1. r[1] = raw[1] + e /\ r[2] = raw[2] /\ r[3] = raw[3] /\ r[4] = raw[4]
        BY <1>2, <3>1 DEF Ipv4Raw
      <4> HIDE DEF r, e
      <4> QED BY <1>1, <4>1, SMTT(30) DEF AddressSum, Little
    <3>2. CASE i = 3
      <4>1. r[3] = raw[3] + e /\ r[2] = raw[2] /\ r[1] = raw[1] /\ r[4] = raw[4]
        BY <1>2, <3>2 DEF Ipv4Raw
      <4> HIDE DEF r, e
      <4> QED BY <1>1, <4>1, SMTT(30) DEF AddressSum, Little
    <3> QED BY <1>3, <3>1, <3>2
  <2> HIDE DEF r, e
  <2>2. e < Words - 1 /\ -(Words - 1) < e
    BY <1>1, SMTT(30) DEF Words
  <2> QED BY <1>1, <2>1, <2>2 DEF r
<1>4. CASE i = 2 \/ i = 4
  <2>1. AddressSum(r) = AddressSum(raw) + Base * e
    <3>1. CASE i = 2
      <4>1. r[2] = raw[2] + e /\ r[1] = raw[1] /\ r[3] = raw[3] /\ r[4] = raw[4]
        BY <1>2, <3>1 DEF Ipv4Raw
      <4> HIDE DEF r, e
      <4> QED BY <1>1, <4>1, SMTT(30) DEF AddressSum, Little
    <3>2. CASE i = 4
      <4>1. r[4] = raw[4] + e /\ r[2] = raw[2] /\ r[1] = raw[1] /\ r[3] = raw[3]
        BY <1>2, <3>2 DEF Ipv4Raw
      <4> HIDE DEF r, e
      <4> QED BY <1>1, <4>1, SMTT(30) DEF AddressSum, Little
    <3> QED BY <1>4, <3>1, <3>2
  <2> HIDE DEF r, e
  <2>2. Base * e \in Int /\ Base * e # 0 /\ Base * e < Words - 1 /\ -(Words - 1) < Base * e
    BY <1>1, SMTT(30) DEF Words
  <2> QED BY <2>1, <2>2 DEF r
<1>5. (i = 1 \/ i = 3) \/ (i = 2 \/ i = 4)
  OBVIOUS
<1> QED BY <1>3, <1>4, <1>5, Zenon

-------------------------------------------------------------------------------
(* The inductive invariant: the texts of the addresses are in step, and a  *)
(* seal says what the sum of the header, or of the buffer, comes to.       *)
SealSays(s, b) ==
  /\ s = "sealed" => Sealable(kind) /\ Fold(Total(b)) = 0
  /\ s = "broken" => Sealable(kind) /\ Fold(Total(b)) # 0

IInv ==
  /\ TypeOK
  /\ InName(kind, h.src) /\ InName(kind, h.dst)
  /\ SealSays(seal, Wire(h))
  /\ buf # None => SealSays(buf.seal, buf.b)

LEMMA KindsOK == Kinds \subseteq HeaderKind
  BY SealAssumption

LEMMA NamedType ==
  ASSUME NEW k \in HeaderKind, NEW a, InName(k, a)
  PROVE  a \in Address(k)
<1>1. CASE FamilyOf[k] = "mac"
  BY <1>1 DEF InName, Named, RawOf, Address, MacName
<1>2. CASE FamilyOf[k] = "ipv4"
  BY <1>2 DEF InName, Named, RawOf, Address, Ipv4Name
<1>3. CASE FamilyOf[k] = "ipv6"
  BY <1>3, WordAssumption DEF InName, Named, RawOf, Address, Ipv6Name, Ipv6Raw
<1> QED BY <1>1, <1>2, <1>3 DEF HeaderKind, FamilyOf

(* A header object, its wire form and its checksum.                        *)
HeaderOK(hd) ==
  /\ InName(kind, hd.src) /\ InName(kind, hd.dst)
  /\ hd.check \in WordVal /\ hd.rest \in Rests(kind)
  /\ hd = [src |-> hd.src, dst |-> hd.dst, check |-> hd.check, rest |-> hd.rest]

LEMMA HeaderType ==
  ASSUME kind \in Kinds, NEW hd, HeaderOK(hd)
  PROVE  /\ hd \in [src : Address(kind), dst : Address(kind), check : WordVal, rest : Rests(kind)]
         /\ Wire(hd) \in Buffer(kind)
<1>1. hd.src \in Address(kind) /\ hd.dst \in Address(kind)
  BY KindsOK, NamedType DEF HeaderOK
<1>2. Ntohs[hd.check] \in WordVal
  BY NtohsZero DEF HeaderOK
<1> QED BY <1>1, <1>2 DEF HeaderOK, InName, Wire, Buffer

LEMMA HeaderOfInv == IInv => HeaderOK(h)
  BY DEF IInv, TypeOK, HeaderOK

LEMMA ChecksumZero ==
  ASSUME kind \in Kinds, Sealable(kind), NEW hd, HeaderOK(hd)
  PROVE  CalcChecksum(hd, 0) = 0 <=> Fold(Total(Wire(hd))) = 0
<1>1. Total(Wire(hd)) \in Nat
  BY HeaderType, TotalSmall
<1>2. 0 + Total(Wire(hd)) = Total(Wire(hd))
  BY <1>1
<1>3. Fold(Total(Wire(hd))) \in WordVal
  BY <1>1, FoldRange
<1> QED BY <1>2, <1>3, NtohsZero DEF CalcChecksum

LEMMA InitInv == Init => IInv
<1> SUFFICES ASSUME Init PROVE IInv
  OBVIOUS
<1>1. HeaderOK(h) /\ kind \in Kinds
  BY KindsOK, ArrayNamed, WordsPositive DEF Init, HeaderOK, WordVal
<1> QED BY <1>1, HeaderType DEF Init, IInv, TypeOK, Seals, SealSays, HeaderOK

(* A change of the header by the program.                                  *)
LEMMA ChangedInv ==
  ASSUME IInv, NEW hd, HeaderOK(hd), Changed(hd)
  PROVE  IInv'
<1>1. kind \in Kinds /\ kind' = kind /\ buf' = buf /\ h' = hd
  BY DEF IInv, TypeOK, Changed
<1>2. TypeOK'
  BY <1>1, HeaderType DEF IInv, TypeOK, Changed, Seals
<1>3. InName(kind, h.src)' /\ InName(kind, h.dst)'
  BY <1>1 DEF HeaderOK, InName, Named, RawOf
<1>4. SealSays(seal, Wire(h))'
  BY <1>1 DEF IInv, Changed, SealSays, Sealable
<1>5. (buf # None => SealSays(buf.seal, buf.b))'
  BY <1>1 DEF IInv, SealSays, Sealable
<1> QED BY <1>2, <1>3, <1>4, <1>5 DEF IInv

LEMMA CallInv == IInv /\ (CallSrc \/ CallDst) => IInv'
<1> SUFFICES ASSUME IInv, CallSrc \/ CallDst PROVE IInv'
  OBVIOUS
<1>1. HeaderOK(h) /\ kind \in HeaderKind
  BY HeaderOfInv, KindsOK DEF IInv, TypeOK
<1>2. CASE CallSrc
  <2>1. PICK a \in Calls(kind, h.src, h.dst) : Changed([h EXCEPT !.src = a])
    BY <1>2 DEF CallSrc
  <2>2. InName(kind, a)
    BY <1>1, <2>1, CallsNamed DEF HeaderOK
  <2>3. HeaderOK([h EXCEPT !.src = a])
    BY <1>1, <2>2 DEF HeaderOK
  <2> QED BY <2>1, <2>3, ChangedInv
<1>3. CASE CallDst
  <2>1. PICK a \in Calls(kind, h.dst, h.src) : Changed([h EXCEPT !.dst = a])
    BY <1>3 DEF CallDst
  <2>2. InName(kind, a)
    BY <1>1, <2>1, CallsNamed DEF HeaderOK
  <2>3. HeaderOK([h EXCEPT !.dst = a])
    BY <1>1, <2>2 DEF HeaderOK
  <2> QED BY <2>1, <2>3, ChangedInv
<1> QED BY <1>2, <1>3

LEMMA FieldInv == IInv /\ (SetRest \/ ClearCheck) => IInv'
<1> SUFFICES ASSUME IInv, SetRest \/ ClearCheck PROVE IInv'
  OBVIOUS
<1>1. HeaderOK(h)
  BY HeaderOfInv
<1>2. CASE SetRest
  <2>1. PICK r \in Rests(kind) : Changed([h EXCEPT !.rest = r])
    BY <1>2 DEF SetRest
  <2>2. HeaderOK([h EXCEPT !.rest = r])
    BY <1>1 DEF HeaderOK
  <2> QED BY <2>1, <2>2, ChangedInv
<1>3. CASE ClearCheck
  <2>1. HeaderOK([h EXCEPT !.check = 0])
    BY <1>1, WordsPositive DEF HeaderOK, WordVal
  <2> QED BY <1>3, <2>1, ChangedInv DEF ClearCheck
<1> QED BY <1>2, <1>3

LEMMA SetChecksumInv ==
  ASSUME IInv, NEW g \in Garbage, SetChecksum(g)
  PROVE  IInv'
<1>1. HeaderOK(h) /\ kind \in Kinds /\ Sealable(kind)
  BY HeaderOfInv DEF IInv, TypeOK, SetChecksum
<1> DEFINE b == Wire(h)
           c == CalcChecksum(h, g)
<1>2. b \in Buffer(kind) /\ Total(b) \in Nat
  BY <1>1, HeaderType, TotalSmall
<1>3. c \in WordVal /\ Ntohs[c] = Fold(g + Total(b))
  <2>1. g + Total(b) \in Nat
    BY <1>2, SealAssumption
  <2>2. Fold(g + Total(b)) \in WordVal
    BY <2>1, FoldRange
  <2> QED BY <2>2, WordAssumption DEF CalcChecksum
<1>4. h' = [h EXCEPT !.check = c] /\ kind' = kind /\ buf' = buf /\ HeaderOK(h')
  BY <1>1, <1>3 DEF SetChecksum, HeaderOK
<1>5. TypeOK'
  BY <1>1, <1>4, HeaderType DEF IInv, TypeOK, SetChecksum, Seals
<1>6. InName(kind, h.src)' /\ InName(kind, h.dst)'
  BY <1>4 DEF HeaderOK, InName, Named, RawOf
<1>7. SealSays(seal, Wire(h))'
  <2>1. CASE h.check = 0 /\ g = 0 /\ ~CarriesTwice(Total(b))
    <3>1. b.check = 0
      BY <2>1, NtohsZero, WordsPositive DEF Wire, WordVal
    <3>2. Fold(Total([b EXCEPT !.check = Fold(Total(b))])) = 0
      BY <1>1, <1>2, <2>1, <3>1, SealedZero
    <3>3. Ntohs[c] = Fold(Total(b))
      BY <1>2, <1>3, <2>1
    <3>4. Wire(h') = [b EXCEPT !.check = Fold(Total(b))]
      BY <1>1, <1>4, <3>3 DEF Wire, HeaderOK
    <3>5. seal' = "sealed"
      BY <2>1 DEF SetChecksum
    <3> QED BY <1>1, <1>4, <3>2, <3>4, <3>5 DEF SealSays, Sealable
  <2>2. CASE ~(h.check = 0 /\ g = 0 /\ ~CarriesTwice(Total(b)))
    BY <2>2 DEF SetChecksum, SealSays
  <2> QED BY <2>1, <2>2
<1>8. (buf # None => SealSays(buf.seal, buf.b))'
  BY <1>4 DEF IInv, SealSays, Sealable
<1> QED BY <1>5, <1>6, <1>7, <1>8 DEF IInv

LEMMA WriteInv == IInv /\ Write => IInv'
<1> SUFFICES ASSUME IInv, Write PROVE IInv'
  OBVIOUS
<1>1. HeaderOK(h) /\ kind \in Kinds
  BY HeaderOfInv DEF IInv, TypeOK
<1>2. Wire(h) \in Buffer(kind)
  BY <1>1, HeaderType
<1>3. kind' = kind /\ h' = h /\ seal' = seal /\ buf' = [b |-> Wire(h), seal |-> seal]
  BY DEF Write
<1>4. TypeOK'
  BY <1>2, <1>3 DEF IInv, TypeOK, Buffer, Seals
<1>5. SealSays(seal, Wire(h))' /\ SealSays(buf.seal, buf.b)'
  BY <1>3 DEF IInv, SealSays, Sealable
<1> QED BY <1>3, <1>4, <1>5 DEF IInv, InName

LEMMA TamperInv == IInv /\ Tamper => IInv'
<1> SUFFICES ASSUME IInv, Tamper PROVE IInv'
  OBVIOUS
<1> DEFINE o == buf.b
<1>1. /\ kind \in Kinds /\ Sealable(kind) /\ o \in Buffer(kind) /\ Fold(Total(o)) = 0
      /\ Numbers[FamilyOf[kind]] \subseteq ByteVal
  BY AddressAssumption DEF IInv, TypeOK, Tamper, SealSays, Sealable, Buffer
<1>2. PICK b \in Tampered(o) \ {o} : buf' = [b |-> b, seal |-> "broken"]
  BY DEF Tamper
<1>3. PICK f \in {"src", "dst"}, i \in Indices \cap 1 .. 4, n \in Numbers[FamilyOf[kind]] :
        b = [o EXCEPT ![f] = [o[f] EXCEPT ![i] = n]]
  BY <1>2 DEF Tampered
<1>4. o.src \in Ipv4Raw /\ o.dst \in Ipv4Raw
  BY <1>1 DEF Buffer, RawOf, Sealable
<1>5. b \in Buffer(kind)
  <2>1. [o[f] EXCEPT ![i] = n] \in Ipv4Raw
    BY <1>1, <1>3, <1>4 DEF Ipv4Raw
  <2> QED BY <1>1, <1>3, <2>1 DEF Buffer, RawOf, Sealable
<1>6. n # o[f][i]
  <2> SUFFICES ASSUME n = o[f][i] PROVE FALSE
    OBVIOUS
  <2>1. [o[f] EXCEPT ![i] = n] = o[f]
    BY <1>3, <1>4 DEF Ipv4Raw
  <2> QED BY <1>1, <1>2, <1>3, <2>1 DEF Buffer
<1>7. PICK d \in Int : /\ d # 0 /\ d < Words - 1 /\ -(Words - 1) < d
                      /\ AddressSum([o[f] EXCEPT ![i] = n]) = AddressSum(o[f]) + d
  BY <1>1, <1>3, <1>4, <1>6, OctetApart
<1>8. Total(b) = Total(o) + d
  <2> DEFINE v == AddressSum(o.src)
             w == AddressSum(o.dst)
  <2>1. v \in Int /\ w \in Int
    BY <1>4, AddressSumRange, WordsPositive
  <2>2. o.rest \in Int /\ o.check \in Int
    BY <1>1, RestSmall DEF Buffer, WordVal
  <2>3. CASE f = "src"
    <3>1. /\ AddressSum(b.src) = v + d /\ AddressSum(b.dst) = w
          /\ b.rest = o.rest /\ b.check = o.check
      BY <1>1, <1>3, <1>7, <2>3 DEF Buffer
    <3> HIDE DEF v, w
    <3>2. Total(b) = o.rest + o.check + (v + d) + w
      BY <3>1 DEF Total
    <3>3. Total(o) = o.rest + o.check + v + w
      BY DEF Total, v, w
    <3> QED BY <2>1, <2>2, <3>2, <3>3
  <2>4. CASE f = "dst"
    <3>1. /\ AddressSum(b.dst) = w + d /\ AddressSum(b.src) = v
          /\ b.rest = o.rest /\ b.check = o.check
      BY <1>1, <1>3, <1>7, <2>4 DEF Buffer
    <3> HIDE DEF v, w
    <3>2. Total(b) = o.rest + o.check + v + (w + d)
      BY <3>1 DEF Total
    <3>3. Total(o) = o.rest + o.check + v + w
      BY DEF Total, v, w
    <3> QED BY <2>1, <2>2, <3>2, <3>3
  <2> QED BY <2>3, <2>4
<1>9. Fold(Total(b)) # 0
  <2>1. Total(o) \in Nat /\ Total(o) < Words * Words
    BY <1>1, TotalSmall
  <2>2. Total(b) \in Nat /\ Total(b) < Words * Words
    BY <1>1, <1>5, TotalSmall
  <2>3. Fold(Total(o) + d) # 0
    BY <1>1, <1>7, <1>8, <2>1, <2>2, OffByLess
  <2> QED BY <1>8, <2>3
<1>10. kind' = kind /\ h' = h /\ seal' = seal
  BY DEF Tamper
<1>11. TypeOK'
  BY <1>2, <1>5, <1>10 DEF IInv, TypeOK, Buffer, Seals
<1>12. SealSays(buf.seal, buf.b)'
  BY <1>1, <1>2, <1>9, <1>10 DEF SealSays, Sealable
<1>13. SealSays(seal, Wire(h))'
  BY <1>10 DEF IInv, SealSays, Sealable
<1> QED BY <1>10, <1>11, <1>12, <1>13 DEF IInv, InName

LEMMA ReadInv == IInv /\ Read => IInv'
<1> SUFFICES ASSUME IInv, Read PROVE IInv'
  OBVIOUS
<1>1. kind \in Kinds /\ kind \in HeaderKind /\ buf.b \in Buffer(kind) /\ buf.seal \in Seals
  BY KindsOK DEF IInv, TypeOK, Read, Buffer
<1>2. kind' = kind /\ buf' = buf /\ h' = ReadHeader(buf.b) /\ seal' = buf.seal
  BY DEF Read
<1>3. InName(kind, Named(kind, buf.b.src)) /\ InName(kind, Named(kind, buf.b.dst))
  BY <1>1, ArrayNamed DEF Buffer
<1>4. Ntohs[buf.b.check] \in WordVal
  BY <1>1, NtohsZero DEF Buffer
<1>5. HeaderOK(h')
  BY <1>1, <1>2, <1>3, <1>4 DEF HeaderOK, ReadHeader, Buffer
<1>6. Wire(h') = buf.b
  <2>1. Ntohs[Ntohs[buf.b.check]] = buf.b.check
    BY <1>1, WordAssumption DEF Buffer
  <2>2. \A raw : Named(kind, raw).raw = raw
    <3>1. FamilyOf[kind] \in Family
      BY <1>1 DEF HeaderKind, FamilyOf, Family
    <3> QED BY <3>1 DEF Family, Named, MacName, Ipv4Name, Ipv6Name
  <2> QED BY <1>1, <1>2, <2>1, <2>2 DEF Wire, ReadHeader, Buffer
<1>7. TypeOK'
  BY <1>1, <1>2, <1>5, HeaderType DEF IInv, TypeOK
<1>8. InName(kind, h.src)' /\ InName(kind, h.dst)'
  BY <1>2, <1>5 DEF HeaderOK, InName, Named, RawOf
<1>9. SealSays(buf.seal, buf.b)' /\ SealSays(seal, Wire(h))'
  BY <1>2, <1>6 DEF IInv, Read, SealSays, Sealable
<1> QED BY <1>7, <1>8, <1>9 DEF IInv

LEMMA NextInv == IInv /\ [Next]_vars => IInv'
<1> SUFFICES ASSUME IInv, [Next]_vars PROVE IInv'
  OBVIOUS
<1>1. CASE CallSrc \/ CallDst
  BY <1>1, CallInv
<1>2. CASE SetRest \/ ClearCheck
  BY <1>2, FieldInv
<1>3. CASE \E g \in Garbage : SetChecksum(g)
  BY <1>3, SetChecksumInv
<1>4. CASE Write
  BY <1>4, WriteInv
<1>5. CASE Tamper
  BY <1>5, TamperInv
<1>6. CASE Read
  BY <1>6, ReadInv
<1>7. CASE UNCHANGED vars
  BY <1>7
  DEF vars, IInv, TypeOK, Address, RawOf, Rests, InName, Named, SealSays, Sealable, Wire
<1> QED BY <1>1, <1>2, <1>3, <1>4, <1>5, <1>6, <1>7 DEF Next

THEOREM Inductive == Spec => []IInv
<1>1. Init => IInv
  BY InitInv
<1>2. IInv /\ [Next]_vars => IInv'
  BY NextInv
<1> QED BY <1>1, <1>2, PTL DEF Spec

-------------------------------------------------------------------------------
(* The variables of HeaderSeal keep their types.                           *)
THEOREM Typing == Spec => []TypeOK
<1>1. IInv => TypeOK
  BY DEF IInv
<1> QED BY <1>1, Inductive, PTL

(* In every state the text of an address parses to that address: no call   *)
(* on the three classes, and no read(), leaves the cached name behind.     *)
THEOREM TextInStep == Spec => []TextMakesEqual
<1>1. IInv => TextMakesEqual
  BY KindsOK, TextOfAddress DEF IInv, TypeOK, TextMakesEqual
<1> QED BY <1>1, Inductive, PTL

(* A header that was sealed verifies, for every word size and sum.         *)
THEOREM SealedVerifies == Spec => []Verifies
<1>1. IInv => Verifies
  <2> SUFFICES ASSUME IInv, seal = "sealed" PROVE CalcChecksum(h, 0) = 0
    BY DEF Verifies
  <2>1. kind \in Kinds /\ Sealable(kind) /\ Fold(Total(Wire(h))) = 0
    BY DEF IInv, TypeOK, SealSays
  <2> QED BY <2>1, HeaderOfInv, ChecksumZero
<1> QED BY <1>1, Inductive, PTL

(* One that was changed on the way in one octet of an address does not.    *)
THEOREM TamperingShows == Spec => []TamperSeen
<1>1. IInv => TamperSeen
  <2> SUFFICES ASSUME IInv, seal = "broken" PROVE CalcChecksum(h, 0) # 0
    BY DEF TamperSeen
  <2>1. kind \in Kinds /\ Sealable(kind) /\ Fold(Total(Wire(h))) # 0
    BY DEF IInv, TypeOK, SealSays
  <2> QED BY <2>1, HeaderOfInv, ChecksumZero
<1> QED BY <1>1, Inductive, PTL
=============================================================================
