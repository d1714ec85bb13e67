---------------------------- MODULE RoundTripProofs ----------------------------
(***************************************************************************)
(* Proofs about Packet with the conversions of Protocols: analyze() and    *)
(* compile() are inverse to each other, on whatever object, and what one   *)
(* object sends, another one reads.                                        *)
(***************************************************************************)
EXTENDS PacketProofs, Protocols

-------------------------------------------------------------------------------
(* The conversions.                                                        *)

(* read() undoes what write() does, but for what write() zeroes; options   *)
(* are copied as they are, and only ipv6 has members that are zeroed.      *)
Mirrored ==
  /\ \A s \in Slot : ReadAs[s] = WriteAs[s]
  /\ \A s \in Slot : s[1] = "OPT" => WriteAs[s] = "copy"
  /\ \A s \in Slot : WriteAs[s] = "zero" => s[1] = "IPV6"

(* Field by field, in the headers of the library.                          *)
LEMMA TablesMirror ==
  ASSUME WriteAs = Written, ReadAs = ReadBack
  PROVE  Mirrored
  <1> SUFFICES ASSUME NEW s \in Slot
               PROVE  /\ ReadBack[s] = Written[s]
                      /\ s[1] = "OPT" => Written[s] = "copy"
                      /\ Written[s] = "zero" => s[1] = "IPV6"
    BY DEF Mirrored
  <1> DEFINE l == s[1]
             n == StructOf(l)[s[2]]
  <1>1. CASE l = "OPT"
    BY <1>1 DEF Written, ReadBack
  <1>2. CASE l # "OPT"
    <2>1. l \in Layer
      BY <1>2, Slots DEF Slot, SlotsOf, Layer
    <2>2. Written[s] = WriteField(l, n) /\ ReadBack[s] = ReadField(l, n)
      BY <1>2 DEF Written, ReadBack
    <2>. HIDE DEF n, l
    <2>3. \A x, names : Swap(x, names) # "zero"
      BY DEF Swap
    <2>4. WriteField(l, n) = ReadField(l, n) /\ (WriteField(l, n) = "zero" => l = "IPV6")
      <3>1. CASE l = "ETH"
        BY <2>3, <3>1 DEF WriteField, ReadField, EthWrite, EthRead
      <3>2. CASE l = "ARP"
        BY <2>3, <3>2 DEF WriteField, ReadField, ArpWrite, ArpRead
      <3>3. CASE l = "IP"
        BY <2>3, <3>3 DEF WriteField, ReadField, IpWrite, IpRead
      <3>4. CASE l = "IPV6"
        BY <3>4 DEF WriteField, ReadField, Ipv6Write, Ipv6Read
      <3>5. CASE l = "UDP"
        BY <2>3, <3>5 DEF WriteField, ReadField, UdpWrite, UdpRead
      <3> QED BY <2>1, <3>1, <3>2, <3>3, <3>4, <3>5 DEF Layer
    <2> QED BY <1>2, <2>2, <2>4 DEF l
  <1> QED BY <1>1, <1>2

(* A conversion twice is none, except to zero.                             *)
LEMMA ConvertTwice ==
  ASSUME NEW how \in Conversion, NEW v \in Octet
  PROVE  /\ Convert(how, v) \in Octet
         /\ how # "zero" => Convert(how, Convert(how, v)) = v
         /\ how = "zero" => Convert(how, v) = 0
BY OctetAssumption DEF Convert, Conversion

-------------------------------------------------------------------------------
(* One header of the walk: it takes the front of what is left, all members *)
(* on the wire come from there, and those of other headers stay.           *)
LEMMA HeaderRead ==
  ASSUME Mirrored, NEW m \in Members, NEW l \in Layer, NEW buf \in Seq(Octet),
         l = "IP" /\ Len(buf) >= Fixed[l] => buf[1] \in LegalHlen,
         NEW got, ReadHeader(m, l, buf) = got, got.ok
  PROVE  /\ got.m \in Members
         /\ HdrLen(got.m, l) \in Nat /\ HdrLen(got.m, l) <= Len(buf)
         /\ \A k \in 1 .. HdrLen(got.m, l) :
              got.m[CellSlot(l, k)] = Convert(ReadAs[CellSlot(l, k)], buf[k])
         /\ \A s \in Slot : s[1] # l /\ ~(s[1] = "OPT" /\ l = "IP") => got.m[s] = m[s]
  <1> DEFINE r == ReadFixed(m, l, buf)
             opt == ReadOption(r, l, buf)
  <1>1. got.m \in Members /\ Len(buf) >= HdrLen(got.m, l)
    BY ReadKeepsMembers
  <1>2. got.m = opt /\ Len(buf) >= Fixed[l]
    <2>1. Len(buf) \in Nat /\ Fixed[l] \in Nat
      BY Lengths
    <2>2. ReadHeader(m, l, buf) = IF Len(buf) < Fixed[l] THEN [m |-> m, ok |-> FALSE]
                                  ELSE IF Len(buf) < HdrLen(r, l) THEN [m |-> r, ok |-> FALSE]
                                  ELSE [m |-> opt, ok |-> TRUE]
      BY DEF ReadHeader
    <2> HIDE DEF r, opt
    <2>3. got = [m |-> opt, ok |-> TRUE] /\ ~(Len(buf) < Fixed[l])
      BY <2>2
    <2> QED BY <2>1, <2>3
  <1>3. HdrLen(got.m, l) \in Nat /\ Fixed[l] \in Nat /\ Fixed[l] > 0
        /\ (l # "IP" => HdrLen(got.m, l) = Fixed[l])
        /\ (l = "IP" => HdrLen(got.m, l) <= Fixed[l] + OptLen)
    BY <1>1, Lengths
  <1>4. HlenSlot \in Slot /\ HlenSlot[1] = "IP" /\ l # "OPT"
    BY Slots DEF HlenSlot, Layer
  <1>5. HdrLen(opt, l) = HdrLen(r, l)
    BY <1>4 DEF ReadOption, HdrLen
  <1>6. ASSUME NEW k \in 1 .. HdrLen(got.m, l)
        PROVE  got.m[CellSlot(l, k)] = Convert(ReadAs[CellSlot(l, k)], buf[k])
    <2>1. CASE k <= Fixed[l]
      <3>1. <<l, k>> \in Slot
        BY <1>3, <2>1, Slots
      <3>2. opt[<<l, k>>] = r[<<l, k>>]
        BY <1>4, <3>1 DEF ReadOption
      <3>3. r[<<l, k>>] = Convert(ReadAs[<<l, k>>], buf[k])
        BY <3>1 DEF ReadFixed
      <3> QED BY <1>2, <2>1, <3>2, <3>3 DEF CellSlot
    <2>2. CASE k > Fixed[l]
      <3> DEFINE j == k - Fixed[l]
                 s == <<"OPT", j>>
      <3>1. j \in 1 .. OptLen /\ j <= HdrLen(r, l) - Fixed[l] /\ Fixed[l] + j = k
        <4>1. l = "IP"
          BY <1>3, <2>2
        <4>2. OptLen \in Int
          BY SizeAssumption DEF OptLen
        <4> QED BY <1>2, <1>3, <1>5, <2>2, <4>1, <4>2
      <3>2. s \in Slot /\ s[1] = "OPT" /\ s[2] = j
        BY <3>1, Slots
      <3>3. CellSlot(l, k) = s
        BY <1>3, <2>2 DEF CellSlot
      <3> HIDE DEF s, j
      <3>4. opt[s] = buf[k]
        BY <3>1, <3>2 DEF ReadOption
      <3>5. ReadAs[s] = "copy"
        BY <3>2 DEF Mirrored
      <3> QED BY <1>2, <3>3, <3>4, <3>5 DEF Convert
    <2> QED BY <1>3, <2>1, <2>2
  <1>7. ASSUME NEW s \in Slot, s[1] # l, ~(s[1] = "OPT" /\ l = "IP")
        PROVE  got.m[s] = m[s]
    <2>1. r[s] = m[s]
      BY <1>7 DEF ReadFixed
    <2>2. ~(s[1] = "OPT" /\ s[2] <= HdrLen(r, l) - Fixed[l])
      <3>1. CASE s[1] = "OPT"
        <4>1. s[2] \in 1 .. OptLen /\ HdrLen(r, l) - Fixed[l] = 0
          BY <1>2, <1>3, <1>5, <1>7, <3>1, Slots
        <4>2. OptLen \in Int
          BY SizeAssumption DEF OptLen
        <4> QED BY <4>1, <4>2
      <3> QED BY <3>1
    <2>3. opt[s] = r[s]
      BY <2>2 DEF ReadOption
    <2> QED BY <1>2, <2>1, <2>3
  <1> QED BY <1>1, <1>3, <1>6, <1>7

(* It is read when it is there: the fixed part, and ipv4's options up to   *)
(* the hlen in the buffer.                                                 *)
LEMMA HeaderOk ==
  ASSUME Mirrored, NEW m \in Members, NEW m0 \in Members, NEW l \in Layer, NEW buf \in Seq(Octet),
         Len(buf) >= HdrLen(m0, l), l = "IP" => buf[1] = m0[HlenSlot]
  PROVE  /\ ReadHeader(m, l, buf).ok
         /\ HdrLen(ReadHeader(m, l, buf).m, l) = HdrLen(m0, l)
  <1> DEFINE r == ReadFixed(m, l, buf)
             opt == ReadOption(r, l, buf)
  <1>1. HlenSlot \in Slot /\ HlenSlot[1] = "IP" /\ HlenSlot[2] = 1 /\ HlenSlot # <<"OPT", 1>>
    BY Slots DEF HlenSlot
  <1>2. l = "IP" => r[HlenSlot] = m0[HlenSlot]
    BY <1>1, Converted DEF ReadFixed
  <1>3. HdrLen(r, l) = HdrLen(m0, l)
    BY <1>2 DEF HdrLen
  <1>4. opt[HlenSlot] = r[HlenSlot]
    BY <1>1 DEF ReadOption
  <1>5. HdrLen(opt, l) = HdrLen(m0, l)
    BY <1>3, <1>4 DEF HdrLen
  <1>6. HdrLen(m0, l) \in Nat /\ Fixed[l] \in Nat /\ HdrLen(m0, l) >= Fixed[l] /\ Len(buf) \in Nat
    BY Lengths
  <1>7. ReadHeader(m, l, buf) = [m |-> opt, ok |-> TRUE]
    BY <1>3, <1>6 DEF ReadHeader
  <1> QED BY <1>5, <1>7

-------------------------------------------------------------------------------
(* Where header i begins in a buffer, from its lengths: the cells of the   *)
(* headers before it.                                                      *)
Before(m, c, i) ==
  (IF i > 1 THEN VecLen(m, c, 1) ELSE 0) + (IF i > 2 THEN VecLen(m, c, 2) ELSE 0)
    + (IF i > 3 THEN VecLen(m, c, 3) ELSE 0)

LEMMA Befores ==
  ASSUME NEW m \in Members, NEW c \in Class
  PROVE  /\ \A i \in 1 .. 3 : VecLen(m, c, i) \in Nat
         /\ \A i \in 1 .. 4 : Before(m, c, i) \in Nat
         /\ Before(m, c, 1) = 0
         /\ \A i \in 1 .. 3 : Before(m, c, i + 1) = Before(m, c, i) + VecLen(m, c, i)
         /\ Before(m, c, 4) = VecLenFrom(m, c, 1)
         /\ \A i \in 1 .. 3 : Before(m, c, i) = VecLenFrom(m, c, 1) - VecLenFrom(m, c, i)
         /\ \A i \in 1 .. 3 : Before(m, c, i + 1) <= Before(m, c, 4)
  <1>1. /\ \A i \in 1 .. 3 : VecLen(m, c, i) \in Nat
        /\ VecLenFrom(m, c, 3) = VecLen(m, c, 3)
        /\ VecLenFrom(m, c, 2) = VecLen(m, c, 2) + VecLen(m, c, 3)
        /\ VecLenFrom(m, c, 1) = VecLen(m, c, 1) + VecLen(m, c, 2) + VecLen(m, c, 3)
    BY Fits
  <1>2. VecLen(m, c, 1) \in Nat /\ VecLen(m, c, 2) \in Nat /\ VecLen(m, c, 3) \in Nat
    BY <1>1
  <1>3. /\ Before(m, c, 1) = 0
        /\ Before(m, c, 2) = VecLen(m, c, 1)
        /\ Before(m, c, 3) = VecLen(m, c, 1) + VecLen(m, c, 2)
        /\ Before(m, c, 4) = VecLen(m, c, 1) + VecLen(m, c, 2) + VecLen(m, c, 3)
    BY <1>2 DEF Before
  <1>4. \A i \in 1 .. 3 : i = 1 \/ i = 2 \/ i = 3
    OBVIOUS
  <1>5. \A i \in 1 .. 4 : i = 1 \/ i = 2 \/ i = 3 \/ i = 4
    OBVIOUS
  <1>6. \A i \in 1 .. 4 : Before(m, c, i) \in Nat
    BY <1>2, <1>3, <1>5
  <1>7. \A i \in 1 .. 3 : Before(m, c, i + 1) = Before(m, c, i) + VecLen(m, c, i)
    BY <1>2, <1>3, <1>4
  <1>8. \A i \in 1 .. 3 : Before(m, c, i) = VecLenFrom(m, c, 1) - VecLenFrom(m, c, i)
    BY <1>1, <1>2, <1>3, <1>4
  <1>9. \A i \in 1 .. 3 : Before(m, c, i + 1) <= Before(m, c, 4)
    BY <1>2, <1>3, <1>4
  <1> QED BY <1>1, <1>2, <1>3, <1>6, <1>7, <1>8, <1>9

(* No class has a header twice.                                            *)
LEMMA VectorsDiffer ==
  ASSUME NEW c \in Class, NEW i \in 1 .. Len(Vec(c)), NEW j \in 1 .. Len(Vec(c)), i # j
  PROVE  Vec(c)[i] # Vec(c)[j]
  <1>1. CASE c = "ethernet"
    BY <1>1 DEF Vec
  <1>2. CASE c = "arp"
    BY <1>2 DEF Vec
  <1>3. CASE c = "ipv4"
    BY <1>3 DEF Vec
  <1>4. CASE c = "ipv6"
    BY <1>4 DEF Vec
  <1>5. CASE c = "udp"
    BY <1>5 DEF Vec
  <1> QED BY <1>1, <1>2, <1>3, <1>4, <1>5 DEF Class

(* Reading header i changes nothing of header j.                           *)
LEMMA OtherHeader ==
  ASSUME NEW c \in Class, NEW i \in 1 .. Len(Vec(c)), NEW j \in 1 .. Len(Vec(c)), i # j,
         NEW m \in Members, NEW n \in Members,
         \A s \in Slot : s[1] # Vec(c)[i] /\ ~(s[1] = "OPT" /\ Vec(c)[i] = "IP") => n[s] = m[s]
  PROVE  /\ HdrLen(n, Vec(c)[j]) = HdrLen(m, Vec(c)[j])
         /\ \A k \in 1 .. HdrLen(m, Vec(c)[j]) : n[CellSlot(Vec(c)[j], k)] = m[CellSlot(Vec(c)[j], k)]
  <1> DEFINE l == Vec(c)[i]
             h == Vec(c)[j]
  <1>1. l \in Layer /\ h \in Layer /\ l # h /\ l # "OPT" /\ h # "OPT"
    BY Vectors, VectorsDiffer DEF Layer
  <1> HIDE DEF l, h
  <1>2. HlenSlot \in Slot /\ HlenSlot[1] = "IP"
    BY Slots DEF HlenSlot
  <1>3. HdrLen(n, h) = HdrLen(m, h)
    <2>1. h = "IP" => n[HlenSlot] = m[HlenSlot]
      BY <1>1, <1>2 DEF l
    <2> QED BY <2>1 DEF HdrLen
  <1>4. ASSUME NEW k \in 1 .. HdrLen(m, h) PROVE n[CellSlot(h, k)] = m[CellSlot(h, k)]
    <2> DEFINE s == CellSlot(h, k)
    <2>1. s \in Slot
      BY <1>1, Cells
    <2>2. s[1] = h \/ (s[1] = "OPT" /\ k > Fixed[h])
      BY <1>1, Lengths DEF CellSlot
    <2>3. k > Fixed[h] => h = "IP"
      BY <1>1, Lengths
    <2>4. s[1] # l /\ ~(s[1] = "OPT" /\ l = "IP")
      BY <1>1, <2>2, <2>3
    <2> QED BY <2>1, <2>4 DEF l
  <1> QED BY <1>3, <1>4 DEF h

-------------------------------------------------------------------------------
(* The members of header j are those of the buffer.                        *)
FromBuffer(m, c, buf, j) ==
  \A k \in 1 .. HdrLen(m, Vec(c)[j]) :
    m[CellSlot(Vec(c)[j], k)]
      = Convert(ReadAs[CellSlot(Vec(c)[j], k)], buf[Before(m, c, j) + k])

(* A walk over buf that stands before header i of o's vector.              *)
Walked(s, o, buf, i) ==
  LET c == classOf[o]
      m == s.ms[o]
      n == Before(m, c, i)
  IN  /\ s.ok
      /\ n <= Len(buf)
      /\ Len(s.rest) = Len(buf) - n
      /\ \A k \in 1 .. Len(buf) - n : s.rest[k] = buf[n + k]
      /\ \A j \in 1 .. Len(Vec(c)) : j < i => FromBuffer(m, c, buf, j)

LEMMA WalkStep ==
  ASSUME Mirrored, NEW o \in Obj, classOf \in [Obj -> Class], NEW s \in Walks,
         NEW buf \in Seq(Octet), NEW i \in 1 .. 3, Walked(s, o, buf, i),
         LegalNext(s, classOf[o], i), NEW w, ReadAt(s, Own(o), i) = w, w.ok
  PROVE  /\ w \in Walks /\ Walked(w, o, buf, i + 1)
         /\ \A j \in 1 .. 3 : j < i => VecLen(w.ms[o], classOf[o], j) = VecLen(s.ms[o], classOf[o], j)
  <1> DEFINE c == classOf[o]
             m == s.ms[o]
  <1>1. /\ c \in Class /\ Len(Own(o)) = Len(Vec(c)) /\ Len(Vec(c)) \in 1 .. 3
        /\ s.ms \in [Obj -> Members] /\ s.rest \in Seq(Octet) /\ m \in Members
    BY Pointers, Vectors DEF Walks
  <1>2. w \in Walks
    BY ReadOne
  <1>3. CASE i > Len(Vec(c))
    <2>1. w = s
      BY <1>1, <1>3 DEF ReadAt
    <2>2. Before(m, c, i + 1) = Before(m, c, i)
      <3>1. VecLen(m, c, i) = 0 /\ Before(m, c, i) \in Nat
        BY <1>1, <1>3, Befores DEF VecLen
      <3>2. Before(m, c, i + 1) = Before(m, c, i) + VecLen(m, c, i)
        <4> HIDE DEF m, c
        <4> QED BY <1>1, Befores
      <3> QED BY <3>1, <3>2
    <2>3. Walked(s, o, buf, i + 1)
      BY <1>1, <1>3, <2>2 DEF Walked
    <2> QED BY <1>2, <2>1, <2>3
  <1>4. CASE i <= Len(Vec(c))
    <2> DEFINE l == Vec(c)[i]
               got == ReadHeader(m, l, s.rest)
               n == HdrLen(got.m, l)
               b == Before(m, c, i)
    <2>1. /\ i \in 1 .. Len(Vec(c)) /\ Own(o)[i][1] = o /\ Own(o)[i][2] = l /\ l \in Layer
      BY <1>1, <1>4, Pointers
    <2>2. /\ got.ok /\ w.ms = [s.ms EXCEPT ![o] = got.m]
          /\ w.rest = SubSeq(s.rest, n + 1, Len(s.rest))
      <3>1. s.ok
        BY DEF Walked
      <3>2. w = [ms |-> [s.ms EXCEPT ![o] = got.m],
                 rest |-> IF got.ok THEN SubSeq(s.rest, n + 1, Len(s.rest)) ELSE s.rest,
                 ok |-> got.ok]
        BY <1>1, <1>4, <2>1, <3>1 DEF ReadAt
      <3> DEFINE ms == [s.ms EXCEPT ![o] = got.m]
                 ok == got.ok
                 left == IF ok THEN SubSeq(s.rest, n + 1, Len(s.rest)) ELSE s.rest
      <3>3. ReadAt(s, Own(o), i) = [ms |-> ms, rest |-> left, ok |-> ok]
        BY <3>2
      <3> HIDE DEF ms, ok, left
      <3>4. w.ok = ok /\ w.ms = ms /\ w.rest = left
        BY <3>3
      <3>5. ok
        BY <3>4
      <3>6. left = SubSeq(s.rest, n + 1, Len(s.rest))
        <4> HIDE DEF n
        <4> QED BY <3>5 DEF left
      <3> QED BY <3>4, <3>5, <3>6 DEF ok, ms
    <2>3. l = "IP" /\ Len(s.rest) >= Fixed[l] => s.rest[1] \in LegalHlen
      BY <1>4 DEF LegalNext, Walked
    <2>4. /\ got.m \in Members /\ n \in Nat /\ n <= Len(s.rest)
          /\ \A k \in 1 .. n :
               got.m[CellSlot(l, k)] = Convert(ReadAs[CellSlot(l, k)], s.rest[k])
          /\ \A x \in Slot : x[1] # l /\ ~(x[1] = "OPT" /\ l = "IP") => got.m[x] = m[x]
      BY <1>1, <2>1, <2>2, <2>3, HeaderRead, SMTT(30)
    <2>5. w.ms[o] = got.m
      BY <1>1, <2>2
    <2> DEFINE g == got.m
    <2>6. \A j \in 1 .. Len(Vec(c)) : j # i =>
            /\ HdrLen(g, Vec(c)[j]) = HdrLen(m, Vec(c)[j])
            /\ \A k \in 1 .. HdrLen(m, Vec(c)[j]) : g[CellSlot(Vec(c)[j], k)] = m[CellSlot(Vec(c)[j], k)]
      <3> HIDE DEF g, m, c
      <3>1. g \in Members /\ \A x \in Slot : x[1] # Vec(c)[i] /\ ~(x[1] = "OPT" /\ Vec(c)[i] = "IP") => g[x] = m[x]
        BY <2>4 DEF g
      <3> QED BY <1>1, <2>1, <3>1, OtherHeader
    <2>7. \A j \in 1 .. 3 : j # i => VecLen(g, c, j) = VecLen(m, c, j)
      BY <2>6 DEF VecLen
    <2>8. \A j \in 1 .. i : Before(g, c, j) = Before(m, c, j)
      BY <2>7 DEF Before
    <2>9. VecLen(g, c, i) = n
      BY <1>4 DEF VecLen
    <2> HIDE DEF got, g, l, n
    <2>10. b \in Nat /\ Before(g, c, i + 1) = b + n /\ Before(g, c, i) = b
      <3>1. g \in Members
        BY <2>4 DEF g
      <3>2. b \in Nat
        <4>1. i \in 1 .. 4
          OBVIOUS
        <4> HIDE DEF m, c
        <4> QED BY <1>1, <4>1, Befores
      <3>3. Before(g, c, i + 1) = Before(g, c, i) + VecLen(g, c, i)
        BY <1>1, <3>1, Befores
      <3>4. Before(g, c, i) = b
        BY <2>8
      <3> QED BY <2>9, <3>2, <3>3, <3>4
    <2>11. /\ Len(buf) \in Nat /\ b <= Len(buf) /\ Len(s.rest) = Len(buf) - b
           /\ \A k \in 1 .. Len(buf) - b : s.rest[k] = buf[b + k]
           /\ \A j \in 1 .. Len(Vec(c)) : j < i => FromBuffer(m, c, buf, j)
      BY DEF Walked
    <2> HIDE DEF b
    <2>12. /\ Len(w.rest) = Len(s.rest) - n
           /\ \A k \in 1 .. Len(s.rest) - n : w.rest[k] = s.rest[n + k]
      BY <1>1, <2>2, <2>4, Tails
    <2>13. /\ b + n <= Len(buf) /\ Len(w.rest) = Len(buf) - (b + n)
           /\ \A k \in 1 .. Len(buf) - (b + n) : w.rest[k] = buf[(b + n) + k]
      <3>1. b + n <= Len(buf) /\ Len(w.rest) = Len(buf) - (b + n)
        BY <2>4, <2>10, <2>11, <2>12
      <3>2. ASSUME NEW k \in 1 .. Len(buf) - (b + n) PROVE w.rest[k] = buf[(b + n) + k]
        <4>1. k \in 1 .. Len(s.rest) - n /\ n + k \in 1 .. Len(buf) - b /\ b + (n + k) = (b + n) + k
          BY <2>4, <2>10, <2>11
        <4>2. w.rest[k] = s.rest[n + k]
          BY <2>12, <4>1
        <4>3. s.rest[n + k] = buf[b + (n + k)]
          BY <2>11, <4>1
        <4> QED BY <4>1, <4>2, <4>3
      <3> QED BY <3>1, <3>2
    <2>14. ASSUME NEW j \in 1 .. Len(Vec(c)), j < i + 1 PROVE FromBuffer(g, c, buf, j)
      <3>1. CASE j = i
        <4>1. ASSUME NEW k \in 1 .. n
              PROVE  g[CellSlot(l, k)] = Convert(ReadAs[CellSlot(l, k)], buf[b + k])
          <5>1. k \in 1 .. Len(buf) - b
            BY <2>4, <2>10, <2>11
          <5>2. s.rest[k] = buf[b + k]
            BY <2>11, <5>1
          <5> QED BY <2>4, <5>2 DEF g
        <4> QED BY <2>10, <3>1, <4>1 DEF FromBuffer, n, g, l
      <3>2. CASE j < i
        <4>1. FromBuffer(m, c, buf, j)
          BY <2>11, <3>2
        <4>2. Before(g, c, j) = Before(m, c, j)
          BY <2>8, <3>2
        <4> QED BY <2>6, <3>2, <4>1, <4>2 DEF FromBuffer
      <3> QED BY <1>1, <2>14, <3>1, <3>2
    <2>15. Walked(w, o, buf, i + 1)
      <3>1. w.ms[o] = g
        BY <2>5 DEF g
      <3> QED BY <2>10, <2>13, <2>14, <3>1 DEF Walked
    <2> QED BY <1>2, <2>5, <2>7, <2>15 DEF g
  <1> QED BY <1>1, <1>3, <1>4

-------------------------------------------------------------------------------
(* The whole walk.                                                         *)
LEMMA StepLegal ==
  ASSUME NEW o \in Obj, classOf \in [Obj -> Class], NEW s \in Walks,
         NEW buf \in Seq(Octet), NEW i \in 1 .. 3, Walked(s, o, buf, i),
         LegalFrame(classOf[o], buf)
  PROVE  LegalNext(s, classOf[o], i)
  <1> DEFINE c == classOf[o]
             m == s.ms[o]
  <1> SUFFICES ASSUME i <= Len(Vec(c)), Vec(c)[i] = "IP", Len(s.rest) >= Fixed["IP"]
               PROVE  s.rest[1] \in LegalHlen
    BY DEF LegalNext
  <1>1. c \in Class /\ m \in Members /\ Len(buf) \in Nat
    BY DEF Walks
  <1>2. i = 2 /\ HasLayer(c, "IP") /\ Len(Vec(c)) \in 1 .. 3 /\ Vec(c)[1] = "ETH"
    BY <1>1, Vectors
  <1>3. Fixed["ETH"] \in Nat /\ Fixed["IP"] \in Nat /\ Fixed["IP"] > 0
    BY SizeAssumption DEF Layer
  <1>4. Before(m, c, i) = Fixed["ETH"]
    BY <1>2, <1>3 DEF Before, VecLen, HdrLen
  <1> HIDE DEF m, c
  <1>5. /\ Len(s.rest) = Len(buf) - Fixed["ETH"]
        /\ \A k \in 1 .. Len(buf) - Fixed["ETH"] : s.rest[k] = buf[Fixed["ETH"] + k]
    BY <1>4 DEF Walked, m, c
  <1>6. Len(buf) >= Fixed["ETH"] + Fixed["IP"] /\ 1 \in 1 .. Len(buf) - Fixed["ETH"]
    BY <1>1, <1>3, <1>5
  <1>7. buf[Fixed["ETH"] + 1] \in LegalHlen
    BY <1>2, <1>6 DEF LegalFrame, c
  <1> QED BY <1>5, <1>6, <1>7

LEMMA WalkStart ==
  ASSUME NEW o \in Obj, classOf \in [Obj -> Class], NEW ms \in [Obj -> Members],
         NEW buf \in Seq(Octet), NEW s, [ms |-> ms, rest |-> buf, ok |-> TRUE] = s
  PROVE  s \in Walks /\ Walked(s, o, buf, 1)
  <1>1. s \in Walks /\ s.ms = ms /\ s.rest = buf /\ s.ok
    BY DEF Walks
  <1>2. classOf[o] \in Class /\ ms[o] \in Members /\ Len(buf) \in Nat
    OBVIOUS
  <1>3. Before(ms[o], classOf[o], 1) = 0
    BY <1>2, Befores
  <1>4. \A k \in 1 .. Len(buf) - 0 : buf[k] = buf[0 + k]
    BY <1>2
  <1> QED BY <1>1, <1>2, <1>3, <1>4, Vectors DEF Walked

(* What analyze() leaves, when no header was too short for it.             *)
LEMMA Analysis ==
  ASSUME Mirrored, NEW o \in Obj, classOf \in [Obj -> Class], NEW ms \in [Obj -> Members],
         NEW buf \in Seq(Octet), LegalFrame(classOf[o], buf),
         NEW got, Analyzed(ms, Own(o), buf) = got, got.ok
  PROVE  got \in Walks /\ Walked(got, o, buf, 4)
  <1> DEFINE s0 == [ms |-> ms, rest |-> buf, ok |-> TRUE]
             s1 == ReadAt(s0, Own(o), 1)
             s2 == ReadAt(s1, Own(o), 2)
  <1>1. s0 \in Walks /\ Walked(s0, o, buf, 1)
    BY WalkStart
  <1>2. ReadAt(s2, Own(o), 3) = got
    BY DEF Analyzed
  <1> HIDE DEF s0, s1, s2
  <1>3. ReadAt(s0, Own(o), 1) = s1 /\ ReadAt(s1, Own(o), 2) = s2
    BY DEF s1, s2
  <1>4. \A s, i : ReadAt(s, Own(o), i).ok => s.ok
    BY DEF ReadAt
  <1>5. s2.ok /\ s1.ok
    BY <1>2, <1>3, <1>4
  <1>6. s1 \in Walks /\ Walked(s1, o, buf, 2)
    <2>1. LegalNext(s0, classOf[o], 1)
      BY <1>1, StepLegal
    <2>2. s1 \in Walks /\ Walked(s1, o, buf, 1 + 1)
      BY <1>1, <1>3, <1>5, <2>1, WalkStep
    <2> QED BY <2>2
  <1>7. s2 \in Walks /\ Walked(s2, o, buf, 3)
    <2>1. LegalNext(s1, classOf[o], 2)
      BY <1>6, StepLegal
    <2>2. s2 \in Walks /\ Walked(s2, o, buf, 2 + 1)
      BY <1>3, <1>5, <1>6, <2>1, WalkStep
    <2> QED BY <2>2
  <1>8. got \in Walks /\ Walked(got, o, buf, 4)
    <2>1. LegalNext(s2, classOf[o], 3)
      BY <1>7, StepLegal
    <2>2. got \in Walks /\ Walked(got, o, buf, 3 + 1)
      BY <1>2, <1>7, <2>1, WalkStep
    <2> QED BY <2>2
  <1> QED BY <1>8

-------------------------------------------------------------------------------
(* A buffer that begins with the image of the headers of class c with      *)
(* members m.                                                              *)
Wired(buf, m, c) ==
  /\ Before(m, c, 4) <= Len(buf)
  /\ \A j \in 1 .. Len(Vec(c)) : \A k \in 1 .. HdrLen(m, Vec(c)[j]) :
       buf[Before(m, c, j) + k] = WireCell(m, Vec(c)[j], k)

(* The walk goes on over it, by the lengths of m.                          *)
LEMMA StepGoes ==
  ASSUME Mirrored, NEW o \in Obj, classOf \in [Obj -> Class], NEW s \in Walks,
         NEW buf \in Seq(Octet), NEW i \in 1 .. 3, Walked(s, o, buf, i),
         LegalFrame(classOf[o], buf), NEW w, ReadAt(s, Own(o), i) = w,
         NEW m0 \in Members, Wired(buf, m0, classOf[o]),
         \A j \in 1 .. 3 : j < i => VecLen(s.ms[o], classOf[o], j) = VecLen(m0, classOf[o], j)
  PROVE  /\ w.ok /\ w \in Walks /\ Walked(w, o, buf, i + 1)
         /\ \A j \in 1 .. 3 : j < i + 1 => VecLen(w.ms[o], classOf[o], j) = VecLen(m0, classOf[o], j)
  <1> DEFINE c == classOf[o]
             m == s.ms[o]
  <1>1. /\ c \in Class /\ Len(Own(o)) = Len(Vec(c)) /\ Len(Vec(c)) \in 1 .. 3
        /\ s.ms \in [Obj -> Members] /\ s.rest \in Seq(Octet) /\ m \in Members
    BY Pointers, Vectors DEF Walks
  <1>2. w.ok /\ VecLen(w.ms[o], c, i) = VecLen(m0, c, i)
    <2>1. CASE i > Len(Vec(c))
      <3>1. w = s
        BY <1>1, <2>1 DEF ReadAt
      <3> QED BY <2>1, <3>1 DEF VecLen, Walked
    <2>2. CASE i <= Len(Vec(c))
      <3> DEFINE l == Vec(c)[i]
                 got == ReadHeader(m, l, s.rest)
                 b == Before(m0, c, i)
      <3>1. /\ i \in 1 .. Len(Vec(c)) /\ Own(o)[i][1] = o /\ Own(o)[i][2] = l /\ l \in Layer
        BY <1>1, <2>2, Pointers
      <3>2. Before(m, c, i) = b
        BY DEF Before
      <3>3. /\ VecLen(m0, c, i) = HdrLen(m0, l) /\ HdrLen(m0, l) \in Nat
            /\ HdrLen(m0, l) >= Fixed[l] /\ Fixed[l] \in Nat /\ Fixed[l] > 0
        BY <2>2, <3>1, Lengths DEF VecLen
      <3>4. b \in Nat /\ b + HdrLen(m0, l) <= Len(buf) /\ Len(buf) \in Nat
        <4>1. i \in 1 .. 4
          OBVIOUS
        <4>2. Before(m0, c, 4) <= Len(buf) /\ Before(m0, c, 4) \in Nat
          <5> HIDE DEF c
          <5>1. 4 \in 1 .. 4 /\ Before(m0, c, 4) \in Nat
            BY <1>1, Befores
          <5> QED BY <5>1 DEF Wired, c
        <4> HIDE DEF m, c, l
        <4>3. /\ b \in Nat /\ Before(m0, c, i + 1) = b + VecLen(m0, c, i)
              /\ Before(m0, c, i + 1) <= Before(m0, c, 4)
          BY <1>1, <4>1, Befores
        <4> QED BY <3>3, <4>2, <4>3
      <3>5. /\ Len(s.rest) = Len(buf) - b
            /\ \A k \in 1 .. Len(buf) - b : s.rest[k] = buf[b + k]
        BY <3>2 DEF Walked
      <3>6. Len(s.rest) >= HdrLen(m0, l)
        <4> HIDE DEF b, l
        <4> QED BY <3>3, <3>4, <3>5
      <3>7. l = "IP" => s.rest[1] = m0[HlenSlot]
        <4> SUFFICES ASSUME l = "IP" PROVE s.rest[1] = m0[HlenSlot]
          OBVIOUS
        <4>1. HlenSlot \in Slot /\ CellSlot(l, 1) = HlenSlot /\ m0[HlenSlot] \in Octet
          BY <3>3, Slots DEF CellSlot, HlenSlot, Members
        <4>2. WriteAs[HlenSlot] = "copy"
          BY <4>1, SlotAssumption DEF Mirrored
        <4>3. WireCell(m0, l, 1) = m0[HlenSlot]
          BY <4>1, <4>2 DEF WireCell, Convert
        <4> HIDE DEF b, l
        <4>4. 1 \in 1 .. HdrLen(m0, l) /\ 1 \in 1 .. Len(buf) - b
          BY <3>3, <3>4
        <4>5. buf[b + 1] = WireCell(m0, l, 1)
          BY <3>1, <4>4 DEF Wired, b, l
        <4> QED BY <3>5, <4>3, <4>4, <4>5
      <3>8. got.ok /\ HdrLen(got.m, l) = HdrLen(m0, l)
        BY <1>1, <3>1, <3>6, <3>7, HeaderOk
      <3>9. w.ok = got.ok /\ w.ms = [s.ms EXCEPT ![o] = got.m]
        <4> DEFINE n == HdrLen(got.m, l)
                   ms == [s.ms EXCEPT ![o] = got.m]
                   ok == got.ok
                   left == IF ok THEN SubSeq(s.rest, n + 1, Len(s.rest)) ELSE s.rest
        <4>1. s.ok
          BY DEF Walked
        <4>2. ReadAt(s, Own(o), i) = [ms |-> ms, rest |-> left, ok |-> ok]
          BY <1>1, <2>2, <3>1, <4>1 DEF ReadAt
        <4>3. ok
          BY <3>8
        <4> HIDE DEF ms, ok, left, n
        <4>4. w.ok = ok /\ w.ms = ms
          BY <4>2
        <4>5. w.ok /\ w.ms = ms
          BY <4>3, <4>4
        <4> QED BY <3>8, <4>5 DEF ok, ms
      <3>10. w.ms[o] = got.m
        BY <1>1, <3>9
      <3>11. w.ok
        BY <3>8, <3>9
      <3>12. VecLen(w.ms[o], c, i) = HdrLen(got.m, l)
        BY <2>2, <3>10 DEF VecLen
      <3> QED BY <3>3, <3>8, <3>11, <3>12
    <2> QED BY <1>1, <2>1, <2>2
  <1>3. LegalNext(s, classOf[o], i)
    BY StepLegal
  <1>4. /\ w \in Walks /\ Walked(w, o, buf, i + 1)
        /\ \A j \in 1 .. 3 : j < i => VecLen(w.ms[o], c, j) = VecLen(m, c, j)
    BY <1>2, <1>3, WalkStep
  <1>5. ASSUME NEW j \in 1 .. 3, j < i + 1
        PROVE  VecLen(w.ms[o], c, j) = VecLen(m0, c, j)
    <2>1. j < i \/ j = i
      BY <1>5
    <2> QED BY <1>2, <1>4, <2>1
  <1> QED BY <1>2, <1>4, <1>5

(* A member on the wire is written to a cell of its class's headers.       *)
LEMMA VisibleCell ==
  ASSUME NEW c \in Class, NEW m \in Members, NEW s \in Visible(m, c)
  PROVE  \E j \in 1 .. Len(Vec(c)) : \E k \in 1 .. HdrLen(m, Vec(c)[j]) : CellSlot(Vec(c)[j], k) = s
  <1>1. s \in Slot /\ s = <<s[1], s[2]>>
    BY Slots DEF Visible
  <1>2. CASE HasLayer(c, s[1])
    <2>1. PICK j \in 1 .. Len(Vec(c)) : Vec(c)[j] = s[1]
      BY <1>2 DEF HasLayer
    <2>2. s[1] \in Layer
      BY <2>1, Vectors
    <2>3. s[2] \in 1 .. Fixed[s[1]] /\ Fixed[s[1]] \in Nat
      BY <1>1, <2>2, Slots, Lengths
    <2>4. s[2] \in 1 .. HdrLen(m, s[1])
      BY <2>2, <2>3, Lengths
    <2>5. CellSlot(s[1], s[2]) = s
      BY <1>1, <2>3 DEF CellSlot
    <2> QED BY <2>1, <2>4, <2>5
  <1>3. CASE s[1] = "OPT" /\ HasLayer(c, "IP") /\ s[2] <= HdrLen(m, "IP") - Fixed["IP"]
    <2>1. PICK j \in 1 .. Len(Vec(c)) : Vec(c)[j] = "IP"
      BY <1>3 DEF HasLayer
    <2> DEFINE k == Fixed["IP"] + s[2]
    <2>2. "IP" \in Layer /\ Fixed["IP"] \in Nat /\ HdrLen(m, "IP") \in Nat /\ OptLen \in Int
      BY Lengths, SizeAssumption DEF Layer, OptLen
    <2>3. s[2] \in 1 .. OptLen
      BY <1>1, <1>3, Slots
    <2>4. k \in 1 .. HdrLen(m, "IP") /\ ~(k <= Fixed["IP"]) /\ k - Fixed["IP"] = s[2]
      BY <1>3, <2>2, <2>3
    <2>5. CellSlot("IP", k) = s
      BY <1>1, <1>3, <2>4 DEF CellSlot
    <2> QED BY <2>1, <2>4, <2>5
  <1> QED BY <1>2, <1>3 DEF Visible

(* The walk over the image of m0 throws nowhere and reads m0 back.         *)
LEMMA Restored ==
  ASSUME Mirrored, NEW o \in Obj, classOf \in [Obj -> Class], NEW ms \in [Obj -> Members],
         NEW buf \in Seq(Octet), LegalFrame(classOf[o], buf),
         NEW m0 \in Members, Wired(buf, m0, classOf[o]),
         NEW got, Analyzed(ms, Own(o), buf) = got
  PROVE  /\ got.ok /\ got \in Walks /\ Walked(got, o, buf, 4)
         /\ Before(got.ms[o], classOf[o], 4) = Before(m0, classOf[o], 4)
         /\ \A s \in Visible(m0, classOf[o]) \ Zeroed : got.ms[o][s] = m0[s]
  <1> DEFINE c == classOf[o]
             s0 == [ms |-> ms, rest |-> buf, ok |-> TRUE]
             s1 == ReadAt(s0, Own(o), 1)
             s2 == ReadAt(s1, Own(o), 2)
             Agree(s, i) == \A j \in 1 .. 3 : j < i => VecLen(s.ms[o], c, j) = VecLen(m0, c, j)
  <1>1. s0 \in Walks /\ Walked(s0, o, buf, 1)
    BY WalkStart
  <1>2. ReadAt(s2, Own(o), 3) = got
    BY DEF Analyzed
  <1> HIDE DEF s0, s1, s2
  <1>3. ReadAt(s0, Own(o), 1) = s1 /\ ReadAt(s1, Own(o), 2) = s2
    BY DEF s1, s2
  <1>4. Agree(s0, 1)
    OBVIOUS
  <1>5. s1 \in Walks /\ Walked(s1, o, buf, 2) /\ Agree(s1, 2)
    <2>1. s1 \in Walks /\ Walked(s1, o, buf, 1 + 1) /\ Agree(s1, 1 + 1)
      BY <1>1, <1>3, <1>4, StepGoes
    <2> HIDE DEF Agree
    <2> QED BY <2>1
  <1>6. s2 \in Walks /\ Walked(s2, o, buf, 3) /\ Agree(s2, 3)
    <2>1. s2 \in Walks /\ Walked(s2, o, buf, 2 + 1) /\ Agree(s2, 2 + 1)
      BY <1>3, <1>5, StepGoes
    <2> HIDE DEF Agree
    <2> QED BY <2>1
  <1>7. got.ok /\ got \in Walks /\ Walked(got, o, buf, 4) /\ Agree(got, 4)
    <2>1. got.ok /\ got \in Walks /\ Walked(got, o, buf, 3 + 1) /\ Agree(got, 3 + 1)
      BY <1>2, <1>6, StepGoes
    <2> HIDE DEF Agree
    <2> QED BY <2>1
  <1>8. \A j \in 1 .. 3 : VecLen(got.ms[o], c, j) = VecLen(m0, c, j)
    BY <1>7
  <1>9. \A j \in 1 .. 4 : Before(got.ms[o], c, j) = Before(m0, c, j)
    BY <1>8 DEF Before
  <1>10. ASSUME NEW s \in Visible(m0, c) \ Zeroed PROVE got.ms[o][s] = m0[s]
    <2>1. c \in Class /\ s \in Slot /\ s \in Visible(m0, c)
      BY DEF Visible
    <2>2. PICK j \in 1 .. Len(Vec(c)) : \E k \in 1 .. HdrLen(m0, Vec(c)[j]) : CellSlot(Vec(c)[j], k) = s
      BY <2>1, VisibleCell
    <2>3. PICK k \in 1 .. HdrLen(m0, Vec(c)[j]) : CellSlot(Vec(c)[j], k) = s
      BY <2>2
    <2>4. j \in 1 .. 3 /\ j < 4 /\ Len(Vec(c)) \in 1 .. 3
      BY <2>1, Vectors
    <2>5. HdrLen(got.ms[o], Vec(c)[j]) = HdrLen(m0, Vec(c)[j])
      BY <1>8, <2>4 DEF VecLen
    <2>6. FromBuffer(got.ms[o], c, buf, j)
      BY <1>7, <2>4 DEF Walked
    <2>7. got.ms[o][s] = Convert(ReadAs[s], buf[Before(m0, c, j) + k])
      BY <1>9, <2>3, <2>4, <2>5, <2>6 DEF FromBuffer
    <2>8. buf[Before(m0, c, j) + k] = Convert(WriteAs[s], m0[s])
      BY <2>3 DEF Wired, WireCell
    <2>9. WriteAs[s] \in Conversion /\ WriteAs[s] # "zero" /\ ReadAs[s] = WriteAs[s] /\ m0[s] \in Octet
      BY <2>1, SlotAssumption DEF Zeroed, Mirrored, Members
    <2> QED BY <2>7, <2>8, <2>9, ConvertTwice
  <1> QED BY <1>7, <1>9, <1>10

-------------------------------------------------------------------------------
(* What is set as contents is what contents() returns.                     *)
LEMMA ContentsSet ==
  ASSUME NEW vec \in Seq(Octet), NEW buf \in Seq(Octet), Len(vec) >= Pivot,
         NEW w, SetContent(vec, buf) = w
  PROVE  /\ \A k \in 1 .. Len(buf) : w[Pivot + k] = buf[k]
         /\ SubSeq(w, Pivot + 1, Len(w)) = buf
  <1> DEFINE front == SubSeq(vec, 1, Pivot)
  <1>1. Pivot \in Nat /\ Len(vec) \in Nat /\ Len(buf) \in Nat
    BY PacketAssumption
  <1>2. front \in Seq(Octet) /\ Len(front) = Pivot
    BY <1>1
  <1>3. w \in Seq(Octet) /\ Len(w) = Pivot + Len(buf)
    BY ContentSet
  <1>4. w = front \o buf
    BY DEF SetContent
  <1> HIDE DEF front
  <1>5. ASSUME NEW k \in 1 .. Len(buf) PROVE w[Pivot + k] = buf[k]
    <2>1. \A i \in 1 .. Len(front) + Len(buf) :
            (front \o buf)[i] = IF i <= Len(front) THEN front[i] ELSE buf[i - Len(front)]
      BY <1>2, ConcatProperties, Zenon
    <2>2. Pivot + k \in 1 .. Len(front) + Len(buf) /\ ~(Pivot + k <= Len(front))
          /\ (Pivot + k) - Len(front) = k
      BY <1>1, <1>2
    <2> QED BY <1>4, <2>1, <2>2
  <1> DEFINE t == SubSeq(w, Pivot + 1, Len(w))
  <1>6. Len(t) = Len(buf) /\ \A k \in 1 .. Len(buf) : t[k] = w[Pivot + k]
    <2>1. Len(t) = Len(w) - Pivot /\ \A k \in 1 .. Len(w) - Pivot : t[k] = w[Pivot + k]
      BY <1>1, <1>3, Tails
    <2>2. Len(w) - Pivot = Len(buf)
      BY <1>1, <1>3
    <2> QED BY <2>1, <2>2
  <1>7. t \in Seq(Octet)
    BY <1>1, <1>3
  <1>8. t = buf
    <2> HIDE DEF t
    <2> QED BY <1>5, <1>6, <1>7
  <1> QED BY <1>5, <1>8

(* raw() of an object that was compiled with the members it still has: the *)
(* image of its headers, then its contents.                                *)
LEMMA SentImage ==
  ASSUME IInv, NEW r \in alive, compiled[r] = {hdr[r]}
  PROVE  /\ Raw(r) \in Seq(Octet)
         /\ Wired(Raw(r), hdr[r], classOf[r])
         /\ Contents(r) \in Seq(Octet)
         /\ Len(Contents(r)) = Len(Raw(r)) - Before(hdr[r], classOf[r], 4)
         /\ \A k \in 1 .. Len(Contents(r)) : Contents(r)[k] = Raw(r)[Before(hdr[r], classOf[r], 4) + k]
  <1> DEFINE c == classOf[r]
             m == hdr[r]
             v == raw[r]
             n == HeaderLength(r)
             f == Raw(r)
             t == Contents(r)
  <1>1. r \in Obj /\ c \in Class /\ m \in Members /\ v \in Seq(Octet) /\ Len(v) >= Pivot /\ Pivot \in Nat
        /\ Len(v) \in Nat
    <2>1. r \in Obj
      BY DEF IInv, TypeOK
    <2> QED BY <2>1, Values
  <1>2. n = VecLenFrom(m, c, 1) /\ n \in Nat /\ n <= Pivot
    BY HeaderFits
  <1>3. \A i \in 1 .. Len(Vec(c)) : \A k \in 1 .. HdrLen(m, Vec(c)[i]) :
          v[Pivot - VecLenFrom(m, c, i) + k] = WireCell(m, Vec(c)[i], k)
    BY DEF IInv, RawIsWireImage
  <1>4. f = SubSeq(v, Pivot - n + 1, Len(v)) /\ t = SubSeq(v, Pivot + 1, Len(v))
    BY DEF Raw, Contents
  <1> HIDE DEF c, m, v, n, f, t
  <1>5. /\ Pivot - n \in Nat /\ Pivot - n <= Len(v)
        /\ Len(f) = Len(v) - (Pivot - n)
        /\ \A k \in 1 .. Len(v) - (Pivot - n) : f[k] = v[(Pivot - n) + k]
    <2>1. Pivot - n \in Nat /\ Pivot - n <= Len(v)
      BY <1>1, <1>2
    <2> QED BY <1>1, <1>4, <2>1, Tails
  <1>6. /\ Len(t) = Len(v) - Pivot
        /\ \A k \in 1 .. Len(v) - Pivot : t[k] = v[Pivot + k]
    BY <1>1, <1>4, Tails
  <1>7. f \in Seq(Octet) /\ t \in Seq(Octet)
    <2>1. Pivot - n + 1 >= 1 /\ Pivot - n + 1 \in Int /\ Pivot + 1 \in Int /\ Pivot + 1 >= 1
      BY <1>1, <1>2
    <2> QED BY <1>1, <1>4, <2>1
  <1>8. /\ \A i \in 1 .. 3 : /\ Before(m, c, i) \in Nat
                             /\ Before(m, c, i) = n - VecLenFrom(m, c, i)
                             /\ Before(m, c, i) + VecLen(m, c, i) <= n
                             /\ VecLen(m, c, i) \in Nat
        /\ Before(m, c, 4) = n
    <2>1. Before(m, c, 4) = n
      BY <1>1, <1>2, Befores
    <2>2. ASSUME NEW i \in 1 .. 3
          PROVE  /\ Before(m, c, i) \in Nat
                 /\ Before(m, c, i) = n - VecLenFrom(m, c, i)
                 /\ Before(m, c, i) + VecLen(m, c, i) <= n
                 /\ VecLen(m, c, i) \in Nat
      <3>1. i \in 1 .. 4
        OBVIOUS
      <3> QED BY <1>1, <1>2, <2>1, <3>1, Befores
    <2> QED BY <2>1, <2>2
  <1>9. ASSUME NEW j \in 1 .. Len(Vec(c)), NEW k \in 1 .. HdrLen(m, Vec(c)[j])
        PROVE  f[Before(m, c, j) + k] = WireCell(m, Vec(c)[j], k)
    <2>1. j \in 1 .. 3 /\ VecLen(m, c, j) = HdrLen(m, Vec(c)[j])
      <3>1. Len(Vec(c)) \in 1 .. 3
        BY <1>1, Vectors
      <3> QED BY <3>1 DEF VecLen
    <2> DEFINE b == Before(m, c, j)
               g == VecLenFrom(m, c, j)
    <2>2. b \in Nat /\ b + k <= n /\ k \in Nat /\ k >= 1 /\ b = n - g
      <3>1. b \in Nat /\ b = n - g /\ b + VecLen(m, c, j) <= n /\ VecLen(m, c, j) \in Nat
        BY <1>8, <2>1
      <3>2. k \in 1 .. VecLen(m, c, j)
        BY <2>1
      <3> HIDE DEF b, g
      <3>3. k \in Nat /\ k >= 1 /\ k <= VecLen(m, c, j)
        BY <3>1, <3>2
      <3>4. b + k <= n
        BY <1>2, <3>1, <3>3
      <3> QED BY <3>1, <3>3, <3>4
    <2>3. g = n - b
      <3>1. g \in Int
        <4>1. \A i \in 1 .. 3 : VecLenFrom(m, c, i) \in Int
          <5>1. \A i \in 1 .. 3 : i = 1 \/ i = 2 \/ i = 3
            OBVIOUS
          <5> QED BY <1>1, <5>1, Fits
        <4> QED BY <2>1, <4>1
      <3> HIDE DEF b, g
      <3> QED BY <1>2, <2>2, <3>1
    <2> HIDE DEF b, g
    <2>4. b + k \in 1 .. Len(v) - (Pivot - n) /\ (Pivot - n) + (b + k) = Pivot - g + k
      <3>1. Pivot \in Nat /\ Len(v) \in Nat /\ Len(v) >= Pivot /\ n \in Nat /\ n <= Pivot
        BY <1>1, <1>2
      <3> QED BY <2>2, <2>3, <3>1
    <2>5. f[b + k] = v[Pivot - g + k]
      BY <1>5, <2>4
    <2> QED BY <1>3, <2>5 DEF b, g
  <1>10. Before(m, c, 4) <= Len(f) /\ Len(t) = Len(f) - n
    <2>1. Pivot \in Nat /\ Len(v) \in Nat /\ Len(v) >= Pivot /\ n \in Nat /\ n <= Pivot
      BY <1>1, <1>2
    <2>2. Len(f) = Len(v) - (Pivot - n) /\ Len(t) = Len(v) - Pivot /\ Before(m, c, 4) = n
      BY <1>5, <1>6, <1>8
    <2> QED BY <2>1, <2>2
  <1>11. Wired(f, m, c)
    BY <1>9, <1>10 DEF Wired
  <1>12. ASSUME NEW k \in 1 .. Len(t) PROVE t[k] = f[n + k]
    <2>1. k \in 1 .. Len(v) - Pivot /\ n + k \in 1 .. Len(v) - (Pivot - n)
          /\ (Pivot - n) + (n + k) = Pivot + k
      BY <1>1, <1>2, <1>6
    <2> QED BY <1>5, <1>6, <2>1
  <1> QED BY <1>7, <1>8, <1>10, <1>11, <1>12 DEF c, m, f, t

(* One reception.                                                          *)
LEMMA ReceiveRestored ==
  ASSUME Mirrored, IInv, NEW o \in Obj, NEW r \in Obj, compiled[r] = {hdr[r]}, Receive(o, r)
  PROVE  /\ result' = "ok"
         /\ \A s \in Visible(hdr[r], classOf[r]) \ Zeroed : hdr'[o][s] = hdr[r][s]
         /\ Contents(o)' = Contents(r)
  <1> DEFINE c == classOf[o]
             m0 == hdr[r]
             f == Raw(r)
             t == Contents(r)
             got == Analyzed(hdr, headers[o], f)
             w == SetContent(raw[o], got.rest)
             n == Before(m0, c, 4)
  <1>1. o \in alive /\ r \in alive /\ classOf[r] = c /\ LegalFrame(c, f) /\ Analyze(o, f)
    BY DEF Receive
  <1>2. headers[o] = Own(o) /\ raw[o] \in Seq(Octet) /\ Len(raw[o]) >= Pivot
    BY <1>1, Values
  <1>3. /\ f \in Seq(Octet) /\ Wired(f, m0, c) /\ t \in Seq(Octet)
        /\ Len(t) = Len(f) - n /\ \A k \in 1 .. Len(t) : t[k] = f[n + k]
    BY <1>1, SentImage
  <1>4. /\ hdr' = got.ms
        /\ raw' = IF got.ok THEN [raw EXCEPT ![o] = w] ELSE raw
        /\ result' = IF got.ok THEN "ok" ELSE "threw"
    BY <1>1 DEF Analyze
  <1>5. Analyzed(hdr, Own(o), f) = got /\ hdr \in [Obj -> Members] /\ m0 \in Members
        /\ classOf \in [Obj -> Class] /\ raw \in [Obj -> Seq(Octet)]
    BY <1>2 DEF IInv, TypeOK
  <1>5a. /\ LegalFrame(classOf[o], f) /\ Wired(f, m0, classOf[o]) /\ f \in Seq(Octet)
    BY <1>1, <1>3
  <1> HIDE DEF got, f, t, m0, w, c
  <1>6. /\ got.ok /\ got \in Walks /\ Walked(got, o, f, 4)
        /\ Before(got.ms[o], classOf[o], 4) = Before(m0, classOf[o], 4)
        /\ \A s \in Visible(m0, classOf[o]) \ Zeroed : got.ms[o][s] = m0[s]
    <2>1. /\ Analyzed(hdr, Own(o), f) = got /\ hdr \in [Obj -> Members] /\ m0 \in Members
          /\ classOf \in [Obj -> Class]
      BY <1>5
    <2> HIDE DEF n
    <2> QED BY <1>5a, <2>1, Restored, SMTT(60)
  <1>7. got.rest = t
    <2>1. got.rest \in Seq(Octet)
      BY <1>6 DEF Walks
    <2>2. Len(got.rest) = Len(f) - n /\ \A k \in 1 .. Len(f) - n : got.rest[k] = f[n + k]
      BY <1>6 DEF Walked, c
    <2> HIDE DEF n
    <2>3. t \in Seq(Octet) /\ Len(t) = Len(f) - n /\ \A k \in 1 .. Len(t) : t[k] = f[n + k]
      BY <1>3
    <2> QED BY <2>1, <2>2, <2>3
  <1>8. Contents(o)' = t
    <2>1. raw'[o] = w
      BY <1>4, <1>5, <1>6
    <2>2. SubSeq(w, Pivot + 1, Len(w)) = t
      BY <1>2, <1>3, <1>7, ContentsSet DEF w
    <2> QED BY <2>1, <2>2 DEF Contents
  <1> QED BY <1>1, <1>4, <1>6, <1>8 DEF m0, t, c

(* With the tables of the library, of whatever sizes and for whatever      *)
(* htons() that is its own inverse: an object that receives what another   *)
(* one compiled and sent holds its members and contents (packet.h:150-170, *)
(* 201-240).                                                               *)
THEOREM ReceiveRestores ==
  ASSUME WriteAs = Written, ReadAs = ReadBack
  PROVE  Spec => ReceiveRestoresMembers
  <1> DEFINE Restores ==
               \A o, r \in Obj :
                 compiled[r] = {hdr[r]} /\ Receive(o, r)
                   => /\ result' = "ok"
                      /\ \A s \in Visible(hdr[r], classOf[r]) \ Zeroed : hdr'[o][s] = hdr[r][s]
                      /\ Contents(o)' = Contents(r)
  <1>1. Mirrored
    BY TablesMirror
  <1>2. IInv => Restores
    BY <1>1, ReceiveRestored
  <1>3. IInv /\ [Next]_vars => [Restores]_vars
    BY <1>2
  <1> QED BY <1>3, Invariance, PTL DEF Spec, ReceiveRestoresMembers

-------------------------------------------------------------------------------
(* Every cell before the contents is a cell of one header.                 *)
LEMMA CellOfHeader ==
  ASSUME NEW m \in Members, NEW c \in Class, NEW k \in 1 .. Before(m, c, 4)
  PROVE  \E j \in 1 .. Len(Vec(c)) : \E i \in 1 .. HdrLen(m, Vec(c)[j]) : k = Before(m, c, j) + i
  <1>1. /\ VecLen(m, c, 1) \in Nat /\ VecLen(m, c, 2) \in Nat /\ VecLen(m, c, 3) \in Nat
        /\ Before(m, c, 1) = 0
        /\ Before(m, c, 2) = VecLen(m, c, 1)
        /\ Before(m, c, 3) = VecLen(m, c, 1) + VecLen(m, c, 2)
        /\ Before(m, c, 4) = VecLen(m, c, 1) + VecLen(m, c, 2) + VecLen(m, c, 3)
    <2>1. VecLen(m, c, 1) \in Nat /\ VecLen(m, c, 2) \in Nat /\ VecLen(m, c, 3) \in Nat
      BY Befores
    <2> QED BY <2>1 DEF Before
  <1>2. ASSUME NEW j \in 1 .. 3, Before(m, c, j) < k, k <= Before(m, c, j) + VecLen(m, c, j),
               Before(m, c, j) \in Nat
        PROVE  \E x \in 1 .. Len(Vec(c)) : \E i \in 1 .. HdrLen(m, Vec(c)[x]) : k = Before(m, c, x) + i
    <2> DEFINE b == Before(m, c, j)
               i == k - b
    <2>1. k \in Nat /\ VecLen(m, c, j) \in Nat
      BY <1>1
    <2> HIDE DEF b
    <2>2. b \in Nat /\ b < k /\ k <= b + VecLen(m, c, j)
      BY <1>2 DEF b
    <2>3. i \in 1 .. VecLen(m, c, j) /\ k = b + i /\ VecLen(m, c, j) # 0
      BY <2>1, <2>2
    <2> HIDE DEF i
    <2>4. j <= Len(Vec(c)) /\ VecLen(m, c, j) = HdrLen(m, Vec(c)[j])
      BY <2>3 DEF VecLen
    <2>5. j \in 1 .. Len(Vec(c))
      BY <2>4, Vectors
    <2> QED BY <2>3, <2>4, <2>5 DEF b
  <1>3. k \in Nat /\ 1 <= k /\ k <= Before(m, c, 4)
    BY <1>1
  <1>4. CASE k <= Before(m, c, 2)
    <2>1. Before(m, c, 1) < k /\ k <= Before(m, c, 1) + VecLen(m, c, 1) /\ Before(m, c, 1) \in Nat
      BY <1>1, <1>3, <1>4
    <2> QED BY <1>2, <2>1
  <1>5. CASE Before(m, c, 2) < k /\ k <= Before(m, c, 3)
    <2>1. Before(m, c, 2) < k /\ k <= Before(m, c, 2) + VecLen(m, c, 2) /\ Before(m, c, 2) \in Nat
      BY <1>1, <1>5
    <2> QED BY <1>2, <2>1
  <1>6. CASE Before(m, c, 3) < k
    <2>1. Before(m, c, 3) < k /\ k <= Before(m, c, 3) + VecLen(m, c, 3) /\ Before(m, c, 3) \in Nat
      BY <1>1, <1>3, <1>6
    <2> QED BY <1>2, <2>1
  <1>7. k <= Before(m, c, 2) \/ (Before(m, c, 2) < k /\ k <= Before(m, c, 3)) \/ Before(m, c, 3) < k
    BY <1>1, <1>3
  <1> QED BY <1>4, <1>5, <1>6, <1>7

(* write() gives each cell back that read() took, but for those it zeroes: *)
(* they are in an ipv6 header, which follows the ethernet one.             *)
LEMMA CellBack ==
  ASSUME Mirrored, NEW m \in Members, NEW c \in Class, NEW buf \in Seq(Octet), ZeroBlanks(c, buf),
         Before(m, c, 4) <= Len(buf), NEW j \in 1 .. Len(Vec(c)), FromBuffer(m, c, buf, j),
         NEW i \in 1 .. HdrLen(m, Vec(c)[j])
  PROVE  /\ Before(m, c, j) + i \in 1 .. Len(buf)
         /\ WireCell(m, Vec(c)[j], i) = buf[Before(m, c, j) + i]
  <1> DEFINE l == Vec(c)[j]
             s == CellSlot(l, i)
             b == Before(m, c, j)
  <1>1. j \in 1 .. 3 /\ l \in Layer /\ VecLen(m, c, j) = HdrLen(m, l)
    <2>1. Len(Vec(c)) \in 1 .. 3
      BY Vectors
    <2> QED BY <2>1, Vectors DEF VecLen
  <1>2. b + i \in 1 .. Len(buf)
    <2>1. /\ b \in Nat /\ VecLen(m, c, j) \in Nat /\ Before(m, c, j + 1) = b + VecLen(m, c, j)
          /\ Before(m, c, j + 1) <= Before(m, c, 4) /\ Before(m, c, 4) \in Nat
      <3>1. j \in 1 .. 4
        BY <1>1
      <3>2. b \in Nat
        BY <3>1, Befores
      <3>3. /\ VecLen(m, c, j) \in Nat /\ Before(m, c, j + 1) = b + VecLen(m, c, j)
            /\ Before(m, c, j + 1) <= Before(m, c, 4)
        BY <1>1, Befores
      <3>4. 4 \in 1 .. 4 /\ Before(m, c, 4) \in Nat
        BY Befores
      <3> QED BY <3>2, <3>3, <3>4
    <2>2. i \in 1 .. VecLen(m, c, j)
      BY <1>1
    <2> HIDE DEF b
    <2> QED BY <2>1, <2>2
  <1>3. s \in Slot
    BY <1>1, Cells
  <1>4. m[s] = Convert(ReadAs[s], buf[b + i])
    BY DEF FromBuffer
  <1>5. WireCell(m, l, i) = Convert(WriteAs[s], m[s])
    BY DEF WireCell
  <1> HIDE DEF b
  <1>6. buf[b + i] \in Octet
    BY <1>2
  <1>7. WriteAs[s] \in Conversion /\ ReadAs[s] = WriteAs[s]
    BY <1>3, SlotAssumption DEF Mirrored
  <1>8. CASE WriteAs[s] # "zero"
    BY <1>4, <1>5, <1>6, <1>7, <1>8, <1>2, ConvertTwice DEF b
  <1>9. CASE WriteAs[s] = "zero"
    <2>1. s \in Zeroed /\ s[1] = "IPV6"
      BY <1>3, <1>9 DEF Mirrored, Zeroed
    <2>2. l = "IPV6" /\ s[2] = i
      BY <2>1 DEF CellSlot
    <2>3. j = 2 /\ HasLayer(c, "IPV6") /\ Vec(c)[1] = "ETH"
      <3>1. \A x \in 1 .. Len(Vec(c)) : Vec(c)[x] = "IPV6" => x = 2
        <4>1. CASE c = "ethernet"
          BY <4>1 DEF Vec
        <4>2. CASE c = "arp"
          BY <4>2 DEF Vec
        <4>3. CASE c = "ipv4"
          BY <4>3 DEF Vec
        <4>4. CASE c = "ipv6"
          BY <4>4 DEF Vec
        <4>5. CASE c = "udp"
          BY <4>5 DEF Vec
        <4> QED BY <4>1, <4>2, <4>3, <4>4, <4>5 DEF Class
      <3> QED BY <2>2, <3>1, Vectors DEF HasLayer
    <2>4. b = Fixed["ETH"]
      <3>1. VecLen(m, c, 1) = Fixed["ETH"] /\ Fixed["ETH"] \in Nat
        BY <2>3, Lengths, SizeAssumption DEF VecLen, HdrLen, Layer
      <3> QED BY <2>3, <3>1 DEF Before, b
    <2>5. Len(buf) >= Fixed["ETH"] + i
      BY <1>2, <2>4
    <2>6. buf[b + i] = 0
      BY <2>1, <2>2, <2>3, <2>4, <2>5 DEF ZeroBlanks
    <2>7. WireCell(m, l, i) = 0
      BY <1>5, <1>9 DEF Convert
    <2> QED BY <1>2, <2>6, <2>7 DEF b
  <1> QED BY <1>8, <1>9

(* The lengths of HeaderFits, in the next state too.                       *)
Fitting == \A o \in alive : HeaderLength(o) = VecLenFrom(hdr[o], classOf[o], 1)

LEMMA AllFit == IInv => Fitting
  BY HeaderFits DEF Fitting

LEMMA AllFitNext == IInv' => Fitting'
  BY AllFit, PTL

(* One iteration of module::check(): what is sent back is what came.       *)
LEMMA CheckGivesBack ==
  ASSUME Mirrored, IInv, classOf' = classOf, NEW o \in Obj, NEW f \in Frames[classOf[o]],
         ZeroBlanks(classOf[o], f), Check(o, f)
  PROVE  result' \notin {"length error", "binary error"}
  <1> DEFINE c == classOf[o]
             got == Analyzed(hdr, headers[o], f)
             ms == got.ms
             m == ms[o]
             v == SetContent(raw[o], got.rest)
             w == Compiled(v, ms, headers[o])
             n == Before(m, c, 4)
  <1>1. /\ o \in alive /\ headers[o] = Own(o) /\ f \in Seq(Octet) /\ LegalFrame(classOf[o], f)
        /\ raw[o] \in Seq(Octet) /\ Len(raw[o]) >= Pivot /\ Pivot \in Nat
    BY Values DEF Check
  <1>2. CASE ~got.ok
    BY <1>2 DEF Check
  <1>3. CASE got.ok
    <2>1. /\ hdr' = ms /\ alive' = alive
          /\ raw' = [raw EXCEPT ![o] = w]
          /\ result' = IF Len(f) # Length(o)' THEN "length error"
                       ELSE IF Raw(o)' = f THEN "success" ELSE "binary error"
      BY <1>3 DEF Check
    <2>2. Analyzed(hdr, Own(o), f) = got /\ hdr \in [Obj -> Members] /\ classOf \in [Obj -> Class]
      BY <1>1 DEF IInv, TypeOK
    <2>3. HeaderLength(o)' = VecLenFrom(m, c, 1)
      <3>1. IInv'
        BY CheckStep
      <3>2. Fitting'
        BY <3>1, AllFitNext
      <3>3. HeaderLength(o)' = VecLenFrom(hdr'[o], classOf'[o], 1)
        BY <1>1, <2>1, <3>2 DEF Fitting
      <3> HIDE DEF ms
      <3> QED BY <2>1, <3>3
    <2> HIDE DEF got
    <2>4. got \in Walks /\ Walked(got, o, f, 4)
      BY <1>1, <1>3, <2>2, Analysis, SMTT(60)
    <2>5. /\ ms \in [Obj -> Members] /\ got.rest \in Seq(Octet) /\ m \in Members /\ c \in Class
      BY <2>2, <2>4 DEF Walks
    <2> HIDE DEF ms, m
    <2>6. /\ n <= Len(f) /\ Len(got.rest) = Len(f) - n
          /\ \A k \in 1 .. Len(f) - n : got.rest[k] = f[n + k]
          /\ \A j \in 1 .. Len(Vec(c)) : FromBuffer(m, c, f, j)
      <3>1. \A j \in 1 .. Len(Vec(c)) : j < 4
        BY <2>5, Vectors
      <3> QED BY <2>4, <3>1 DEF Walked, m, ms
    <2>7. n \in Nat /\ VecLenFrom(m, c, 1) = n /\ n <= Pivot /\ Len(f) \in Nat
      <3>1. n \in Nat /\ VecLenFrom(m, c, 1) = n
        <4> HIDE DEF c
        <4>1. 4 \in 1 .. 4
          OBVIOUS
        <4> QED BY <2>5, <4>1, Befores
      <3>2. VecLenFrom(m, c, 1) <= Pivot
        BY <2>5, Fits
      <3> QED BY <1>1, <3>1, <3>2
    <2>8. /\ v \in Seq(Octet) /\ Len(v) = Pivot + Len(got.rest)
          /\ \A k \in 1 .. Len(got.rest) : v[Pivot + k] = got.rest[k]
      <3>1. /\ v \in Seq(Octet) /\ Len(v) = Pivot + Len(got.rest)
        BY <1>1, <2>5, ContentSet
      <3>2. SetContent(raw[o], got.rest) = v
        OBVIOUS
      <3> HIDE DEF v
      <3>3. raw[o] \in Seq(Octet) /\ Len(raw[o]) >= Pivot /\ got.rest \in Seq(Octet)
        BY <1>1, <2>5
      <3>4. \A k \in 1 .. Len(got.rest) : v[Pivot + k] = got.rest[k]
        BY <3>2, <3>3, ContentsSet
      <3> QED BY <3>1, <3>4
    <2> HIDE DEF v, n
    <2>9. /\ w \in Seq(Octet) /\ Len(w) = Len(v)
          /\ Image(w, m, c)
          /\ \A k \in 1 .. Len(v) : k > Pivot => w[k] = v[k]
      <3>1. Len(v) >= Pivot
        BY <1>1, <2>5, <2>8
      <3>2. w = Compiled(v, ms, Own(o))
        BY <1>1
      <3> HIDE DEF w
      <3> QED BY <2>2, <2>5, <2>8, <3>1, <3>2, CompiledImage DEF m
    <2> HIDE DEF w
    <2>10. raw'[o] = w
      BY <2>1 DEF IInv, TypeOK
    <2> DEFINE t == SubSeq(w, Pivot - n + 1, Len(w))
    <2>11. /\ Len(w) \in Nat /\ Len(w) = Pivot + (Len(f) - n) /\ Len(w) >= Pivot
           /\ Pivot - n \in Nat /\ Pivot - n <= Len(w)
      BY <1>1, <2>6, <2>7, <2>8, <2>9
    <2>12. Length(o)' = Len(f)
      <3>1. Length(o)' = Len(w) - Pivot + n
        BY <2>3, <2>7, <2>10 DEF Length
      <3> QED BY <1>1, <2>7, <2>11, <3>1
    <2>13. Raw(o)' = t
      BY <2>3, <2>7, <2>10 DEF Raw
    <2>14. /\ Len(t) = Len(f)
           /\ \A k \in 1 .. Len(f) : t[k] = w[(Pivot - n) + k]
      <3>1. /\ Len(t) = Len(w) - (Pivot - n)
            /\ \A k \in 1 .. Len(w) - (Pivot - n) : t[k] = w[(Pivot - n) + k]
        BY <2>9, <2>11, Tails
      <3>2. Len(w) - (Pivot - n) = Len(f)
        BY <1>1, <2>7, <2>11
      <3> QED BY <3>1, <3>2
    <2>15. ASSUME NEW k \in 1 .. Len(f) PROVE w[(Pivot - n) + k] = f[k]
      <3>1. CASE k > n
        <4>1. /\ k - n \in 1 .. Len(got.rest) /\ (Pivot - n) + k = Pivot + (k - n)
              /\ Pivot + (k - n) \in 1 .. Len(v) /\ Pivot + (k - n) > Pivot
              /\ k - n \in 1 .. Len(f) - n /\ n + (k - n) = k
          <5>1. Len(v) = Pivot + (Len(f) - n) /\ Len(got.rest) = Len(f) - n
            BY <2>6, <2>8
          <5> QED BY <1>1, <2>7, <3>1, <5>1
        <4>2. w[Pivot + (k - n)] = v[Pivot + (k - n)]
          BY <2>9, <4>1
        <4>3. v[Pivot + (k - n)] = got.rest[k - n]
          BY <2>8, <4>1
        <4>4. got.rest[k - n] = f[n + (k - n)]
          BY <2>6, <4>1
        <4> QED BY <4>1, <4>2, <4>3, <4>4
      <3>2. CASE k <= n
        <4>1. k \in 1 .. Before(m, c, 4)
          BY <2>7, <3>2 DEF n
        <4>2. PICK j \in 1 .. Len(Vec(c)) :
                \E i \in 1 .. HdrLen(m, Vec(c)[j]) : k = Before(m, c, j) + i
          BY <2>5, <4>1, CellOfHeader
        <4>3. PICK i \in 1 .. HdrLen(m, Vec(c)[j]) : k = Before(m, c, j) + i
          BY <4>2
        <4>4. WireCell(m, Vec(c)[j], i) = f[k]
          <5>1. FromBuffer(m, c, f, j) /\ Before(m, c, 4) <= Len(f)
            BY <2>6 DEF n
          <5>2. ZeroBlanks(c, f)
            OBVIOUS
          <5> HIDE DEF c
          <5> QED BY <1>1, <2>5, <4>3, <5>1, <5>2, CellBack
        <4>5. w[Pivot - VecLenFrom(m, c, j) + i] = WireCell(m, Vec(c)[j], i)
          BY <2>9 DEF Image
        <4>6. Pivot - VecLenFrom(m, c, j) + i = (Pivot - n) + k
          <5>1. j \in 1 .. 3 /\ i \in Int
            <6>1. Len(Vec(c)) \in 1 .. 3 /\ Vec(c)[j] \in Layer
              BY <2>5, Vectors
            <6>2. HdrLen(m, Vec(c)[j]) \in Nat
              BY <2>5, <6>1, Lengths
            <6> QED BY <6>1, <6>2
          <5> DEFINE g == VecLenFrom(m, c, j)
          <5>2. Before(m, c, j) = n - g
            <6> HIDE DEF c
            <6> QED BY <2>5, <2>7, <5>1, Befores
          <5>3. g \in Int
            <6>1. \A x \in 1 .. 3 : x = 1 \/ x = 2 \/ x = 3
              OBVIOUS
            <6>2. \A x \in 1 .. 3 : VecLenFrom(m, c, x) \in Int
              <7> HIDE DEF c
              <7>1. m \in Members /\ c \in Class
                BY <2>5
              <7> QED BY <6>1, <7>1, Fits
            <6> QED BY <5>1, <6>2
          <5>4. k = (n - g) + i
            BY <4>3, <5>2
          <5> HIDE DEF g
          <5>5. Pivot - g + i = (Pivot - n) + k
            BY <1>1, <2>7, <5>1, <5>3, <5>4
          <5> QED BY <5>5 DEF g
        <4> QED BY <4>4, <4>5, <4>6
      <3> QED BY <2>7, <3>1, <3>2
    <2>16. t \in Seq(Octet)
      <3>1. Pivot - n + 1 \in Int /\ Pivot - n + 1 >= 1
        BY <2>11
      <3> QED BY <2>9, <2>11, <3>1
    <2>17. t = f
      <3> HIDE DEF t
      <3> QED BY <1>1, <2>14, <2>15, <2>16
    <2> QED BY <2>1, <2>12, <2>13, <2>17
  <1> QED BY <1>2, <1>3

LEMMA ClassesStay == [Next]_vars => classOf' = classOf
  BY ZenonT(60) DEF Next, vars, Construct, ConstructFrom, CopyConstruct, Assign, AssignBase, SetField,
         SetOption, Clear, SetContents, Compile, Analyze, Receive, Check, Destroy

(* With the tables of the library: module::check() prints no error for a   *)
(* frame whose traffic class and flow label are zero (module.h:223-233),   *)
(* whatever its length, its options and the packet the object held.        *)
THEOREM ChecksSucceed ==
  ASSUME WriteAs = Written, ReadAs = ReadBack
  PROVE  Spec => CheckSucceeds
  <1> DEFINE Succeeds ==
               result' \in {"length error", "binary error"} =>
                 \A o \in Obj : \A f \in Frames[classOf[o]] :
                   ZeroBlanks(classOf[o], f) => ~Check(o, f)
  <1>1. Mirrored
    BY TablesMirror
  <1>2. IInv /\ [Next]_vars => Succeeds
    BY <1>1, ClassesStay, CheckGivesBack
  <1>3. IInv /\ [Next]_vars => [Succeeds]_vars
    BY <1>2
  <1> QED BY <1>3, Invariance, PTL DEF Spec, CheckSucceeds
=============================================================================
