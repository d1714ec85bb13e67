----------------------------- MODULE PcapngProofs -----------------------------
(***************************************************************************)
(* Proofs about PcapngBlock and PcapngStream: that read() gets back the    *)
(* block that write() was given, and that every block of a file does, for  *)
(* every set of packets, options and foreign files and every alignment.    *)
(***************************************************************************)
EXTENDS PcapngStream, SequenceTheorems, TLAPS

-------------------------------------------------------------------------------
(* Sequences.                                                              *)
LEMMA AppendParts ==
  ASSUME NEW S, NEW s \in Seq(S), NEW x \in S
  PROVE  /\ Append(s, x) \in Seq(S) /\ Len(Append(s, x)) = Len(s) + 1 /\ Len(s) \in Nat
         /\ \A i \in 1 .. Len(s) : Append(s, x)[i] = s[i]
         /\ Append(s, x)[Len(s) + 1] = x
  OBVIOUS

LEMMA ConcatParts ==
  ASSUME NEW S, NEW s \in Seq(S), NEW t \in Seq(S)
  PROVE  /\ s \o t \in Seq(S) /\ Len(s \o t) = Len(s) + Len(t)
         /\ Len(s) \in Nat /\ Len(t) \in Nat
         /\ \A i \in 1 .. Len(s) : (s \o t)[i] = s[i]
         /\ \A i \in 1 .. Len(t) : (s \o t)[Len(s) + i] = t[i]
  OBVIOUS

LEMMA SameSeq ==
  ASSUME NEW S, NEW s \in Seq(S), NEW t \in Seq(S), Len(s) = Len(t),
         \A i \in 1 .. Len(s) : s[i] = t[i]
  PROVE  s = t
  OBVIOUS

LEMMA Reassociate ==
  ASSUME NEW S, NEW s \in Seq(S), NEW t \in Seq(S), NEW u \in Seq(S)
  PROVE  (s \o t) \o u = s \o (t \o u)
<1> DEFINE p == s \o t
           l == p \o u
           q == t \o u
           r == s \o q
<1>1. /\ p \in Seq(S) /\ Len(p) = Len(s) + Len(t)
      /\ \A i \in 1 .. Len(s) : p[i] = s[i]
      /\ \A i \in 1 .. Len(t) : p[Len(s) + i] = t[i]
  BY ConcatParts
<1>2. /\ q \in Seq(S) /\ Len(q) = Len(t) + Len(u)
      /\ \A i \in 1 .. Len(t) : q[i] = t[i]
      /\ \A i \in 1 .. Len(u) : q[Len(t) + i] = u[i]
  BY ConcatParts
<1> HIDE DEF p, q
<1>3. /\ l \in Seq(S) /\ Len(l) = Len(p) + Len(u)
      /\ \A i \in 1 .. Len(p) : l[i] = p[i]
      /\ \A i \in 1 .. Len(u) : l[Len(p) + i] = u[i]
  <2>1. p \in Seq(S)
    BY <1>1
  <2> QED BY <2>1, ConcatParts
<1>4. /\ r \in Seq(S) /\ Len(r) = Len(s) + Len(q)
      /\ \A i \in 1 .. Len(s) : r[i] = s[i]
      /\ \A i \in 1 .. Len(q) : r[Len(s) + i] = q[i]
  <2>1. q \in Seq(S)
    BY <1>2
  <2> QED BY <2>1, ConcatParts
<1> HIDE DEF l, r
<1>5. Len(s) \in Nat /\ Len(t) \in Nat /\ Len(u) \in Nat
  OBVIOUS
<1>6. Len(l) = Len(s) + Len(t) + Len(u) /\ Len(r) = Len(s) + Len(t) + Len(u)
  BY <1>1, <1>2, <1>3, <1>4, <1>5
<1>7. ASSUME NEW i \in 1 .. Len(s) + Len(t) + Len(u) PROVE l[i] = r[i]
  <2>1. CASE i <= Len(s)
    <3>1. i \in 1 .. Len(s) /\ i \in 1 .. Len(p)
      BY <1>1, <1>5, <2>1
    <3> QED BY <1>1, <1>3, <1>4, <3>1
  <2>2. CASE i > Len(s) /\ i <= Len(s) + Len(t)
    <3> DEFINE j == i - Len(s)
    <3>1. j \in 1 .. Len(t) /\ j \in 1 .. Len(q) /\ i \in 1 .. Len(p) /\ i = Len(s) + j
      BY <1>1, <1>2, <1>5, <2>2
    <3> HIDE DEF j
    <3>2. l[i] = p[i] /\ p[Len(s) + j] = t[j] /\ r[Len(s) + j] = q[j] /\ q[j] = t[j]
      BY <1>1, <1>2, <1>3, <1>4, <3>1
    <3> QED BY <3>1, <3>2
  <2>3. CASE i > Len(s) + Len(t)
    <3> DEFINE j == i - (Len(s) + Len(t))
    <3>1. j \in 1 .. Len(u) /\ Len(t) + j \in 1 .. Len(q)
      BY <1>2, <1>5, <2>3
    <3>2. i = Len(p) + j /\ i = Len(s) + (Len(t) + j)
      BY <1>1, <1>5
    <3> HIDE DEF j
    <3>3. l[Len(p) + j] = u[j] /\ r[Len(s) + (Len(t) + j)] = q[Len(t) + j] /\ q[Len(t) + j] = u[j]
      BY <1>2, <1>3, <1>4, <3>1
    <3> QED BY <3>2, <3>3
  <2> QED BY <1>5, <2>1, <2>2, <2>3
<1>8. \A i \in 1 .. Len(l) : l[i] = r[i]
  BY <1>6, <1>7
<1>9. Len(l) = Len(r)
  BY <1>6
<1>10. l = r
  BY <1>3, <1>4, <1>8, <1>9, SameSeq
<1> QED BY <1>10 DEF l, r, p, q

LEMMA SubSeqParts ==
  ASSUME NEW S, NEW s \in Seq(S), NEW m \in Nat \ {0}, NEW n \in Nat, n <= Len(s), m <= n + 1
  PROVE  /\ SubSeq(s, m, n) \in Seq(S) /\ Len(SubSeq(s, m, n)) = n - m + 1
         /\ \A i \in 1 .. n - m + 1 : SubSeq(s, m, n)[i] = s[m + i - 1]
  OBVIOUS

(* A part of a sequence that is another one.                               *)
LEMMA PartIs ==
  ASSUME NEW S, NEW s \in Seq(S), NEW t \in Seq(S), NEW m \in Nat,
         m + Len(t) <= Len(s), \A i \in 1 .. Len(t) : s[m + i] = t[i]
  PROVE  SubSeq(s, m + 1, m + Len(t)) = t
<1> DEFINE l == Len(t)
           u == SubSeq(s, m + 1, m + l)
<1>1. l \in Nat
  OBVIOUS
<1> HIDE DEF l
<1>2. m + 1 \in Nat \ {0} /\ m + l \in Nat /\ m + l <= Len(s) /\ m + 1 <= (m + l) + 1
  BY <1>1 DEF l
<1>3. /\ u \in Seq(S) /\ Len(u) = (m + l) - (m + 1) + 1
      /\ \A i \in 1 .. (m + l) - (m + 1) + 1 : u[i] = s[(m + 1) + i - 1]
  BY <1>2, SubSeqParts
<1>4. (m + l) - (m + 1) + 1 = l /\ \A i \in 1 .. l : (m + 1) + i - 1 = m + i
  BY <1>1
<1> HIDE DEF u
<1>5. Len(u) = l /\ \A i \in 1 .. l : u[i] = s[m + i]
  BY <1>3, <1>4, Zenon
<1>6. u = t
  BY <1>3, <1>5, SameSeq DEF l
<1> QED BY <1>6 DEF u, l

-------------------------------------------------------------------------------
(* The blocks.                                                             *)
LEMMA PaddedUp ==
  ASSUME NEW k \in Nat
  PROVE  Padded(k) \in Nat /\ Padded(k) >= k
<1>1. Align \in Nat \ {0}
  BY BlockAssumption
<1> DEFINE q == (k + Align - 1) \div Align
           r == (k + Align - 1) % Align
<1>2. q \in Nat /\ r \in 0 .. Align - 1 /\ k + Align - 1 = Align * q + r
  BY <1>1, SMTT(30)
<1>3. Padded(k) = q * Align
  BY DEF Padded
<1> HIDE DEF q, r
<1>4. q * Align = Align * q /\ Align * q \in Nat
  BY <1>1, <1>2, SMTT(30)
<1> QED BY <1>1, <1>2, <1>3, <1>4

LEMMA PaddedZero == Padded(0) = 0
<1>1. Align \in Nat \ {0}
  BY BlockAssumption
<1>2. (0 + Align - 1) \div Align = 0
  BY <1>1, SMTT(30)
<1> QED BY <1>1, <1>2 DEF Padded

(* The two words before a packet are aligned by themselves.                *)
LEMMA PaddedBehind ==
  ASSUME NEW n \in Nat
  PROVE  Padded(2 + n) = 2 + Padded(n)
<1> DEFINE q == (n + Align - 1) \div Align
           r == (n + Align - 1) % Align
           d == 2 \div Align
<1>1. Align \in Nat \ {0} /\ d \in Nat /\ 2 = Align * d
  BY BlockAssumption, SMTT(30)
<1>2. q \in Nat /\ r \in 0 .. Align - 1 /\ n + Align - 1 = Align * q + r
  BY <1>1, SMTT(30)
<1> HIDE DEF d
<1>3. (2 + n) + Align - 1 = Align * (d + q) + r
  <2> HIDE DEF q, r
  <2>1. Align * (d + q) = Align * d + Align * q
    BY <1>1, <1>2, SMTT(30)
  <2>2. Align * q \in Nat
    BY <1>1, <1>2, SMTT(30)
  <2> QED BY <1>1, <1>2, <2>1, <2>2
<1>4. ((2 + n) + Align - 1) \div Align = d + q
  <2> HIDE DEF q, r
  <2>1. (Align * (d + q) + r) \div Align = d + q
    <3> DEFINE s == d + q
    <3>1. s \in Nat
      BY <1>1, <1>2
    <3> HIDE DEF s
    <3>2. (Align * s + r) \div Align = s
      BY <1>1, <1>2, <3>1, SMTT(30)
    <3> QED BY <3>2 DEF s
  <2> QED BY <1>3, <2>1
<1>5. Padded(2 + n) = (d + q) * Align /\ Padded(n) = q * Align
  BY <1>4 DEF Padded
<1> HIDE DEF q, r
<1>6. (d + q) * Align = Align * d + q * Align
  BY <1>1, <1>2, SMTT(30)
<1> QED BY <1>1, <1>5, <1>6

(* The sequence s lies in c, behind its first k elements.                  *)
Lies(s, c, k) == k + Len(s) <= Len(c) /\ \A i \in 1 .. Len(s) : c[k + i] = s[i]

LEMMA LiesFirst ==
  ASSUME NEW S, NEW s \in Seq(S), NEW t \in Seq(S)
  PROVE  s \o t \in Seq(S) /\ Len(s \o t) = Len(s) + Len(t) /\ Lies(s, s \o t, 0)
<1>1. \A i \in 1 .. Len(s) : (s \o t)[0 + i] = s[i]
  BY ConcatParts
<1> QED BY <1>1, ConcatParts DEF Lies

LEMMA LiesLast ==
  ASSUME NEW S, NEW s \in Seq(S), NEW t \in Seq(S)
  PROVE  Lies(t, s \o t, Len(s))
BY ConcatParts DEF Lies

LEMMA LiesLonger ==
  ASSUME NEW S, NEW c \in Seq(S), NEW t \in Seq(S), NEW s \in Seq(S), NEW k \in Nat,
         Lies(s, c, k)
  PROVE  Lies(s, c \o t, k)
<1> DEFINE e == c \o t
<1>1. /\ Len(e) = Len(c) + Len(t) /\ Len(c) \in Nat /\ Len(t) \in Nat
      /\ \A i \in 1 .. Len(c) : e[i] = c[i]
  BY ConcatParts
<1> HIDE DEF e
<1>2. k + Len(s) <= Len(c) /\ \A i \in 1 .. Len(s) : c[k + i] = s[i]
  BY DEF Lies
<1>3. \A i \in 1 .. Len(s) : k + i \in 1 .. Len(c)
  BY <1>1, <1>2
<1>4. \A i \in 1 .. Len(s) : e[k + i] = s[i]
  BY <1>1, <1>2, <1>3
<1>5. k + Len(s) <= Len(e)
  BY <1>1, <1>2
<1> QED BY <1>4, <1>5 DEF Lies, e

LEMMA LiesWithin ==
  ASSUME NEW S, NEW c \in Seq(S), NEW s \in Seq(S), NEW u \in Seq(S),
         NEW k \in Nat, NEW m \in Nat, Lies(s, c, k), Lies(u, s, m)
  PROVE  Lies(u, c, k + m)
<1>1. k + Len(s) <= Len(c) /\ \A i \in 1 .. Len(s) : c[k + i] = s[i]
  BY DEF Lies
<1>2. m + Len(u) <= Len(s) /\ \A i \in 1 .. Len(u) : s[m + i] = u[i]
  BY DEF Lies
<1>3. \A i \in 1 .. Len(u) : m + i \in 1 .. Len(s) /\ (k + m) + i = k + (m + i)
  BY <1>2
<1>4. \A i \in 1 .. Len(u) : c[(k + m) + i] = u[i]
  BY <1>1, <1>2, <1>3
<1>5. (k + m) + Len(u) <= Len(c)
  BY <1>1, <1>2
<1> QED BY <1>4, <1>5 DEF Lies

LEMMA LiesCut ==
  ASSUME NEW S, NEW c \in Seq(S), NEW s \in Seq(S), NEW k \in Nat, Lies(s, c, k)
  PROVE  SubSeq(c, k + 1, k + Len(s)) = s
BY PartIs DEF Lies

(* Five pieces, one behind the other.                                      *)
Joined(head, body, zeros, option, tail) == head \o body \o zeros \o option \o tail

LEMMA Five ==
  ASSUME NEW head \in Seq(Cell), NEW body \in Seq(Cell), NEW zeros \in Seq(Cell),
         NEW option \in Seq(Cell), NEW tail \in Seq(Cell)
  PROVE  LET c == Joined(head, body, zeros, option, tail)
             h == Len(head)
             a == h + Len(body)
             b == a + Len(zeros)
             d == b + Len(option)
         IN  /\ c \in Seq(Cell) /\ Len(c) = d + Len(tail)
             /\ Lies(head, c, 0) /\ Lies(body, c, h) /\ Lies(option, c, b) /\ Lies(tail, c, d)
<1> DEFINE c == Joined(head, body, zeros, option, tail)
           h == Len(head)
           a == h + Len(body)
           b == a + Len(zeros)
           d == b + Len(option)
<1>0. h \in Nat /\ a \in Nat /\ b \in Nat /\ d \in Nat
  OBVIOUS
<1> DEFINE c1 == head \o body
           c2 == c1 \o zeros
           c3 == c2 \o option
           c4 == c3 \o tail
<1>1. c1 \in Seq(Cell) /\ Len(c1) = a /\ Lies(head, c1, 0) /\ Lies(body, c1, h)
  BY LiesFirst, LiesLast
<1> HIDE DEF c1
<1>2. c2 \in Seq(Cell) /\ Len(c2) = b
  <2>1. c2 \in Seq(Cell) /\ Len(c2) = Len(c1) + Len(zeros)
    BY <1>1, LiesFirst
  <2> QED BY <1>1, <2>1
<1>3. Lies(head, c2, 0) /\ Lies(body, c2, h)
  BY <1>1, LiesLonger
<1> HIDE DEF c2
<1>4. c3 \in Seq(Cell) /\ Len(c3) = d
  BY <1>2, LiesFirst
<1>5. Lies(option, c3, b)
  BY <1>2, LiesLast
<1>6. Lies(head, c3, 0) /\ Lies(body, c3, h)
  BY <1>2, <1>3, LiesLonger
<1> HIDE DEF c3
<1>7. c4 \in Seq(Cell) /\ Len(c4) = d + Len(tail)
  BY <1>4, LiesFirst
<1>8. Lies(tail, c4, d)
  BY <1>4, LiesLast
<1>9. Lies(head, c4, 0) /\ Lies(body, c4, h) /\ Lies(option, c4, b)
  BY <1>4, <1>5, <1>6, LiesLonger
<1> HIDE DEF c4
<1>10. c = c4
  BY DEF Joined, c4, c3, c2, c1
<1> HIDE DEF h, a, b, d, c
<1>11. /\ c \in Seq(Cell) /\ Len(c) = d + Len(tail)
       /\ Lies(head, c, 0) /\ Lies(body, c, h) /\ Lies(option, c, b) /\ Lies(tail, c, d)
  BY <1>7, <1>8, <1>9, <1>10
<1> QED BY <1>11 DEF h, a, b, d, c

-------------------------------------------------------------------------------
(* The EPB objects of a program, and what write() makes of one.            *)
Epb(b) ==
  /\ b \in [kind : {EPB}, type : {EPB}, total : Nat, option : Seq(Cell), word : {0},
            capture : Nat, packet : Nat, data : Seq(Cell)]
  /\ b.capture = Len(b.data) /\ b.packet = Len(b.data)

LEMMA TypesAreCells == 0 \in Cell /\ SHB \in Cell /\ IDB \in Cell /\ EPB \in Cell
BY PcapngAssumption

LEMMA EpbImage ==
  ASSUME NEW b, Epb(b), Writable(b), b.total \in Cell,
         NEW n \in Nat, Len(b.data) = n, NEW w \in Nat, Padded(2 + n) = w,
         NEW m \in Nat, Len(b.option) = m, n \in Cell,
         NEW c, Image(b) = c
  PROVE  /\ c \in Seq(Cell) /\ Len(c) = b.total /\ b.total = 3 + w + m /\ w >= 2 + n
         /\ c[1] = EPB /\ c[2] = b.total /\ c[3] = n /\ c[4] = n
         /\ Lies(b.data, c, 4) /\ Lies(b.option, c, 2 + w)
         /\ c[3 + w + m] = b.total
<1> DEFINE head == <<b.type, b.total>>
           lens == <<b.capture, b.packet>>
           body == lens \o b.data
           zeros == Zeros(w - Len(body))
           tail == <<b.total>>
<1>1. b.total = 3 + w + m
  BY DEF Writable, BodyLength, Epb
<1>2. w >= 2 + n
  BY PaddedUp
<1>3. head \in Seq(Cell) /\ Len(head) = 2 /\ head[1] = EPB /\ head[2] = b.total
  BY TypesAreCells DEF Epb
<1>4. lens \in Seq(Cell) /\ Len(lens) = 2 /\ lens[1] = n /\ lens[2] = n
  BY DEF Epb
<1>5. tail \in Seq(Cell) /\ Len(tail) = 1 /\ tail[1] = b.total
  OBVIOUS
<1>6. b.data \in Seq(Cell) /\ b.option \in Seq(Cell) /\ b.kind = EPB
  BY DEF Epb
<1>7. Joined(head, body, zeros, b.option, tail) = c
  BY <1>6 DEF Joined, Image, Struct, BodyLength, Epb
<1> HIDE DEF head, lens, tail
<1>8. body \in Seq(Cell) /\ Len(body) = 2 + n /\ Lies(lens, body, 0) /\ Lies(b.data, body, 2)
  <2>1. body \in Seq(Cell) /\ Len(body) = Len(lens) + Len(b.data) /\ Lies(lens, body, 0)
    BY <1>4, <1>6, LiesFirst
  <2>2. Lies(b.data, body, 2)
    BY <1>4, <1>6, LiesLast
  <2> QED BY <1>4, <2>1, <2>2
<1> HIDE DEF body
<1>9. zeros \in Seq(Cell) /\ Len(zeros) = w - (2 + n)
  <2>1. w - Len(body) = w - (2 + n) /\ w - (2 + n) \in Nat
    BY <1>2, <1>8
  <2> DEFINE z == w - (2 + n)
  <2>2. [k \in 1 .. z |-> 0] \in Seq(Cell) /\ Len([k \in 1 .. z |-> 0]) = z
    <3>1. z \in Nat
      BY <2>1
    <3> HIDE DEF z
    <3> QED BY <3>1, TypesAreCells
  <2> QED BY <2>1, <2>2 DEF Zeros
<1> HIDE DEF zeros
<1>10. /\ c \in Seq(Cell) /\ Len(c) = (2 + w + m) + Len(tail)
       /\ Lies(head, c, 0) /\ Lies(body, c, 2) /\ Lies(b.option, c, 2 + w)
       /\ Lies(tail, c, 2 + w + m)
  <2> DEFINE h == Len(head)
             a == h + Len(body)
             p == a + Len(zeros)
             d == p + Len(b.option)
  <2>1. h \in Nat /\ a \in Nat /\ p \in Nat /\ d \in Nat
    BY <1>3, <1>6, <1>8, <1>9
  <2>2. h = 2 /\ p = 2 + w /\ d = 2 + w + m
    BY <1>2, <1>3, <1>8, <1>9
  <2>3. h = Len(head) /\ a = h + Len(body) /\ p = a + Len(zeros) /\ d = p + Len(b.option)
    OBVIOUS
  <2>4. tail \in Seq(Cell) /\ head \in Seq(Cell) /\ body \in Seq(Cell)
        /\ zeros \in Seq(Cell) /\ b.option \in Seq(Cell)
    BY <1>3, <1>5, <1>6, <1>8, <1>9
  <2> DEFINE o == b.option
             j == Joined(head, body, zeros, o, tail)
  <2>5. o \in Seq(Cell)
    BY <2>4
  <2>6. j = c
    BY <1>7
  <2> HIDE DEF o
  <2>7. /\ j \in Seq(Cell)
        /\ Len(j) = Len(head) + Len(body) + Len(zeros) + Len(o) + Len(tail)
        /\ Lies(head, j, 0) /\ Lies(body, j, Len(head))
        /\ Lies(o, j, Len(head) + Len(body) + Len(zeros))
        /\ Lies(tail, j, Len(head) + Len(body) + Len(zeros) + Len(o))
    BY <2>4, <2>5, Five
  <2>8. /\ c \in Seq(Cell) /\ Len(c) = d + Len(tail)
        /\ Lies(head, c, 0) /\ Lies(body, c, h) /\ Lies(b.option, c, p) /\ Lies(tail, c, d)
    BY <2>6, <2>7, Zenon DEF o
  <2> HIDE DEF h, a, p, d
  <2> QED BY <2>2, <2>8, Zenon
<1>11. c[1] = EPB /\ c[2] = b.total
  BY <1>3, <1>10 DEF Lies
<1>12. c[3] = n /\ c[4] = n
  <2>1. Lies(lens, c, 2 + 0)
    BY <1>4, <1>8, <1>10, LiesWithin
  <2>2. \A i \in 1 .. 2 : c[2 + i] = lens[i]
    BY <1>4, <2>1 DEF Lies
  <2>3. c[2 + 1] = lens[1] /\ c[2 + 2] = lens[2]
    BY <2>2
  <2> QED BY <1>4, <2>3
<1>13. Lies(b.data, c, 4)
  <2>1. Lies(b.data, c, 2 + 2)
    BY <1>6, <1>8, <1>10, LiesWithin
  <2> QED BY <2>1
<1>14. c[3 + w + m] = b.total
  <2>1. \A i \in 1 .. 1 : c[(2 + w + m) + i] = tail[i]
    BY <1>5, <1>10 DEF Lies
  <2>2. c[(2 + w + m) + 1] = tail[1] /\ (2 + w + m) + 1 = 3 + w + m
    BY <2>1
  <2> QED BY <1>5, <2>2
<1>15. Len(c) = b.total
  <2>1. Len(c) = (2 + w + m) + 1
    BY <1>5, <1>10, Zenon
  <2>2. (2 + w + m) + 1 = 3 + w + m
    OBVIOUS
  <2> QED BY <1>1, <2>1, <2>2, Zenon
<1> QED BY <1>1, <1>2, <1>10, <1>11, <1>12, <1>13, <1>14, <1>15

(* read() gets back an EPB that write() wrote.                             *)
LEMMA EpbBack ==
  ASSUME NEW b, Epb(b), Writable(b), b.total \in Cell, Len(b.data) \in Cell
  PROVE  Readable(EPB, Image(b)) /\ BlockIn(EPB, Image(b)) = b
<1> DEFINE n == Len(b.data)
           w == Padded(2 + n)
           m == Len(b.option)
           c == Image(b)
           from == 2 + w
<1>1. n \in Nat /\ m \in Nat /\ b.data \in Seq(Cell) /\ b.option \in Seq(Cell)
  BY DEF Epb
<1>2. w \in Nat
  <2> HIDE DEF n
  <2>1. 2 + n \in Nat
    BY <1>1
  <2> QED BY <2>1, PaddedUp
<1> HIDE DEF n, w, m, c
<1>3. Len(b.data) = n /\ Len(b.option) = m /\ Padded(2 + n) = w /\ Image(b) = c /\ n \in Cell
  BY DEF n, w, m, c
<1>4. /\ c \in Seq(Cell) /\ Len(c) = b.total /\ b.total = 3 + w + m /\ w >= 2 + n
      /\ c[1] = EPB /\ c[2] = b.total /\ c[3] = n /\ c[4] = n
      /\ Lies(b.data, c, 4) /\ Lies(b.option, c, 2 + w)
      /\ c[3 + w + m] = b.total
  BY <1>1, <1>2, <1>3, EpbImage, SMTT(30)
<1>5. BodyIn(EPB, c) = w /\ OptionIn(EPB, c) = m
  <2>1. BodyIn(EPB, c) = w
    BY <1>3, <1>4 DEF BodyIn
  <2>2. (3 + w + m) - 3 - w = m
    BY <1>1, <1>2
  <2> QED BY <1>4, <2>1, <2>2 DEF OptionIn
<1>6. Len(c) = 3 + w + m /\ Len(c) >= 4 /\ Len(c) >= 2 + w /\ m \in 0 .. Len(c) - 3 - w
  BY <1>1, <1>2, <1>4
<1>7. Readable(EPB, c)
  BY <1>4, <1>5, <1>6 DEF Readable, StructLength
<1>8. SubSeq(c, 5, 4 + c[3]) = b.data
  <2>1. SubSeq(c, 4 + 1, 4 + Len(b.data)) = b.data
    BY <1>1, <1>4, LiesCut
  <2> QED BY <1>3, <1>4, <2>1
<1>9. SubSeq(c, from + 1, from + m) = b.option
  <2>1. from \in Nat
    BY <1>2
  <2> HIDE DEF from
  <2>2. Lies(b.option, c, from)
    BY <1>4 DEF from
  <2>3. SubSeq(c, from + 1, from + Len(b.option)) = b.option
    BY <1>1, <1>4, <2>1, <2>2, LiesCut
  <2> QED BY <1>3, <2>3
<1>10. BlockIn(EPB, c) = [kind |-> EPB, type |-> EPB, total |-> b.total, word |-> 0,
                          capture |-> n, packet |-> n, data |-> b.data, option |-> b.option]
  BY <1>4, <1>5, <1>8, <1>9 DEF BlockIn
<1>11. b = [kind |-> EPB, type |-> EPB, total |-> b.total, word |-> 0,
            capture |-> n, packet |-> n, data |-> b.data, option |-> b.option]
  BY <1>3 DEF Epb
<1> QED BY <1>3, <1>7, <1>10, <1>11

(* The blocks that open() writes are four cells each.                      *)
LEMMA PlainImage ==
  ASSUME NEW k \in {SHB, IDB}, 4 \in Cell
  PROVE  LET b == NewBlock(k) IN
         /\ Image(b) \in Seq(Cell) /\ Len(Image(b)) = 4
         /\ Readable(b.kind, Image(b)) /\ BlockIn(b.kind, Image(b)) = b
<1> DEFINE none == [i \in 1 .. 0 |-> 0]
<1>1. k # EPB /\ k \in Cell /\ 0 \in Cell
  BY TypesAreCells, BlockAssumption
<1>2. NewBlock(k) = [kind |-> k, type |-> k, total |-> 4, option |-> <<>>,
                     word |-> 0, capture |-> 0, packet |-> 0, data |-> <<>>]
  BY <1>1 DEF NewBlock, StructLength
<1> DEFINE head == <<k, 4>>
           body == <<0>> \o <<>>
           empty == <<>>
           tail == <<4>>
           c == Joined(head, body, none, empty, tail)
<1>3. body = <<0>> /\ none = empty
  OBVIOUS
<1>4. Image(NewBlock(k)) = c
  <2>1. Struct(NewBlock(k)) = <<0>> /\ BodyLength(NewBlock(k)) = 1
    BY <1>1, <1>2 DEF Struct, BodyLength
  <2>2. Zeros(1 - Len(body)) = none
    <3>1. 1 - Len(body) = 0
      BY <1>3
    <3> QED BY <3>1 DEF Zeros
  <2> QED BY <1>2, <2>1, <2>2 DEF Image, Joined
<1>5. /\ head \in Seq(Cell) /\ Len(head) = 2 /\ head[1] = k /\ head[2] = 4
      /\ body \in Seq(Cell) /\ Len(body) = 1 /\ body[1] = 0
      /\ none \in Seq(Cell) /\ Len(none) = 0
      /\ empty \in Seq(Cell) /\ Len(empty) = 0
      /\ tail \in Seq(Cell) /\ Len(tail) = 1 /\ tail[1] = 4
  BY <1>1, <1>3
<1> HIDE DEF head, body, none, empty, tail
<1>6. /\ c \in Seq(Cell)
      /\ Len(c) = Len(head) + Len(body) + Len(none) + Len(empty) + Len(tail)
      /\ Lies(head, c, 0) /\ Lies(body, c, Len(head))
      /\ Lies(empty, c, Len(head) + Len(body) + Len(none))
      /\ Lies(tail, c, Len(head) + Len(body) + Len(none) + Len(empty))
  <2>1. /\ head \in Seq(Cell) /\ body \in Seq(Cell) /\ none \in Seq(Cell)
        /\ empty \in Seq(Cell) /\ tail \in Seq(Cell)
    BY <1>5
  <2> QED BY <2>1, Five
<1> HIDE DEF c
<1>7. /\ Len(c) = 4 /\ Lies(head, c, 0) /\ Lies(body, c, 2)
      /\ Lies(empty, c, 3) /\ Lies(tail, c, 3)
  BY <1>5, <1>6
<1>8. c[1] = k /\ c[2] = 4 /\ c[3] = 0 /\ c[4] = 4
  BY <1>5, <1>7 DEF Lies
<1>9. BodyIn(k, c) = 1 /\ OptionIn(k, c) = 0
  BY <1>1, <1>8 DEF BodyIn, OptionIn
<1>10. Readable(k, c)
  BY <1>1, <1>7, <1>8, <1>9 DEF Readable, StructLength
<1>11. SubSeq(c, 4, 3) = <<>>
  <2>1. SubSeq(c, 3 + 1, 3 + Len(empty)) = empty
    BY <1>5, <1>6, <1>7, LiesCut
  <2> QED BY <1>5, <2>1 DEF empty
<1>12. BlockIn(k, c) = NewBlock(k)
  BY <1>1, <1>2, <1>8, <1>9, <1>11 DEF BlockIn
<1>13. NewBlock(k).kind = k
  BY <1>2
<1> QED BY <1>4, <1>6, <1>7, <1>10, <1>12, <1>13

-------------------------------------------------------------------------------
(* The file: read() makes of c a block that has the packet p and that      *)
(* write() would write the same way.                                       *)
Block(c, p) ==
  /\ Readable(EPB, c) /\ BlockIn(EPB, c).data = p
  /\ Writable(BlockIn(EPB, c)) /\ Image(BlockIn(EPB, c)) = c

(* The blocks of the packets ps end in image where es says.                *)
Blocks(image, es, ps) ==
  /\ SubSeq(image, 1, es[1]) = Preamble
  /\ \A i \in 1 .. Len(ps) : Block(SubSeq(image, es[i] + 1, es[i + 1]), ps[i])

(* What a file holds already is still there when there is more behind it.  *)
LEMMA CutLonger ==
  ASSUME NEW S, NEW s \in Seq(S), NEW t \in Seq(S), NEW a \in Nat, NEW b \in Nat, b <= Len(s)
  PROVE  SubSeq(s \o t, a + 1, b) = SubSeq(s, a + 1, b)
<1> DEFINE u == s \o t
<1>1. Len(s) \in Nat /\ \A i \in 1 .. Len(s) : u[i] = s[i]
  BY ConcatParts
<1> HIDE DEF u
<1>2. u \in Seq(S) /\ b <= Len(u)
  BY ConcatParts DEF u
<1>3. CASE a <= b
  <2> DEFINE v == SubSeq(u, a + 1, b)
             r == SubSeq(s, a + 1, b)
  <2>1. a + 1 \in Nat \ {0} /\ a + 1 <= b + 1
    BY <1>3
  <2>2. /\ v \in Seq(S) /\ Len(v) = b - (a + 1) + 1
        /\ \A i \in 1 .. b - (a + 1) + 1 : v[i] = u[(a + 1) + i - 1]
    BY <1>2, <2>1, SubSeqParts, SMTT(30)
  <2>3. /\ r \in Seq(S) /\ Len(r) = b - (a + 1) + 1
        /\ \A i \in 1 .. b - (a + 1) + 1 : r[i] = s[(a + 1) + i - 1]
    BY <2>1, SubSeqParts
  <2> HIDE DEF v, r
  <2>4. \A i \in 1 .. b - (a + 1) + 1 : (a + 1) + i - 1 \in 1 .. Len(s)
    BY <1>1
  <2>5. \A i \in 1 .. Len(v) : v[i] = r[i]
    BY <1>1, <2>2, <2>3, <2>4
  <2>6. v = r
    BY <2>2, <2>3, <2>5, SameSeq
  <2> QED BY <2>6 DEF v, r, u
<1>4. CASE a > b
  <2>1. SubSeq(u, a + 1, b) = <<>> /\ SubSeq(s, a + 1, b) = <<>>
    BY <1>2, <1>4
  <2> QED BY <2>1 DEF u
<1> QED BY <1>3, <1>4

LEMMA BlocksMore ==
  ASSUME NEW image \in Seq(Cell), NEW x \in Seq(Cell),
         NEW ps \in Seq(Payloads), NEW p \in Payloads,
         NEW es \in Seq(Nat), Len(es) = Len(ps) + 1,
         \A i \in 1 .. Len(es) : es[i] <= Len(image), es[Len(es)] = Len(image),
         Blocks(image, es, ps), Block(x, p)
  PROVE  Blocks(image \o x, Append(es, Len(image) + Len(x)), Append(ps, p))
<1> DEFINE n == Len(ps)
           new == image \o x
           fs == Append(es, Len(image) + Len(x))
           qs == Append(ps, p)
<1>1. n \in Nat /\ Len(image) \in Nat /\ Len(x) \in Nat /\ Len(es) = n + 1
  OBVIOUS
<1>2. /\ \A i \in 1 .. n + 1 : fs[i] = es[i] /\ es[i] \in Nat /\ es[i] <= Len(image)
      /\ fs[n + 2] = Len(image) + Len(x) /\ es[n + 1] = Len(image)
  BY <1>1, AppendParts
<1>3. Len(qs) = n + 1 /\ qs[n + 1] = p /\ \A i \in 1 .. n : qs[i] = ps[i]
  BY AppendParts
<1>4. \A a, b \in Nat : b <= Len(image) => SubSeq(new, a + 1, b) = SubSeq(image, a + 1, b)
  BY CutLonger
<1>5. SubSeq(new, Len(image) + 1, Len(image) + Len(x)) = x
  <2>1. new \in Seq(Cell) /\ Lies(x, new, Len(image))
    BY LiesFirst, LiesLast
  <2> HIDE DEF new
  <2> QED BY <1>1, <2>1, LiesCut
<1> HIDE DEF n, new, fs, qs
<1>6. SubSeq(new, 1, fs[1]) = Preamble
  <2>1. SubSeq(image, 1, es[1]) = Preamble
    BY DEF Blocks
  <2>2. fs[1] = es[1] /\ es[1] \in Nat /\ es[1] <= Len(image)
    BY <1>1, <1>2
  <2>3. SubSeq(new, 0 + 1, es[1]) = SubSeq(image, 0 + 1, es[1])
    BY <1>4, <2>2
  <2> QED BY <2>1, <2>2, <2>3
<1>7. ASSUME NEW i \in 1 .. n + 1 PROVE Block(SubSeq(new, fs[i] + 1, fs[i + 1]), qs[i])
  <2>1. CASE i = n + 1
    <3>1. fs[i] = Len(image) /\ fs[i + 1] = Len(image) + Len(x) /\ qs[i] = p
      BY <1>1, <1>2, <1>3, <2>1
    <3> QED BY <1>5, <3>1
  <2>2. CASE i # n + 1
    <3>1. i \in 1 .. n /\ i \in 1 .. n + 1 /\ i + 1 \in 1 .. n + 1
      BY <1>1, <2>2
    <3>2. Block(SubSeq(image, es[i] + 1, es[i + 1]), ps[i])
      BY <3>1 DEF Blocks, n
    <3>3. /\ fs[i] = es[i] /\ fs[i + 1] = es[i + 1] /\ qs[i] = ps[i]
          /\ es[i] \in Nat /\ es[i + 1] \in Nat /\ es[i + 1] <= Len(image)
      BY <1>2, <1>3, <3>1
    <3>4. SubSeq(new, es[i] + 1, es[i + 1]) = SubSeq(image, es[i] + 1, es[i + 1])
      BY <1>4, <3>3
    <3> QED BY <3>2, <3>3, <3>4
  <2> QED BY <2>1, <2>2
<1>8. Blocks(new, fs, qs)
  BY <1>3, <1>6, <1>7 DEF Blocks
<1> QED BY <1>8 DEF new, fs, qs

(* A block that write() took is one of these, and as long as it says.      *)
LEMMA Written ==
  ASSUME NEW e, Epb(e), Writable(e), e.total \in 0 .. MaxTotal
  PROVE  Image(e) \in Seq(Cell) /\ Len(Image(e)) = e.total /\ Block(Image(e), e.data)
<1> DEFINE n == Len(e.data)
           w == Padded(2 + n)
           m == Len(e.option)
           c == Image(e)
<1>1. n \in Nat /\ m \in Nat
  BY DEF Epb
<1>2. w \in Nat /\ w >= 2 + n
  <2>1. 2 + n \in Nat
    BY <1>1
  <2> HIDE DEF n
  <2> QED BY <2>1, PaddedUp
<1>3. e.total = 3 + w + m
  BY DEF Writable, BodyLength, Epb
<1> HIDE DEF n, w, m, c
<1>4. n \in 0 .. MaxTotal
  BY <1>1, <1>2, <1>3, PcapngAssumption
<1>5. n \in Cell /\ e.total \in Cell
  BY <1>4, PcapngAssumption
<1>6. Readable(EPB, c) /\ BlockIn(EPB, c) = e
  BY <1>5, EpbBack DEF n, c
<1>7. Len(e.data) = n /\ Len(e.option) = m /\ Padded(2 + n) = w /\ Image(e) = c
  BY DEF n, w, m, c
<1>8. c \in Seq(Cell) /\ Len(c) = e.total
  BY <1>1, <1>2, <1>5, <1>7, EpbImage
<1> QED BY <1>6, <1>7, <1>8 DEF Block

-------------------------------------------------------------------------------
(* The inductive invariant.  The blocks of a file that is being written    *)
(* follow each other, up to the place where the next one will lie.         *)
Layout ==
  writer = "open" =>
    LET image == disk \o wbuf IN
    /\ ends[Len(ends)] = Len(image)
    /\ \A i \in 1 .. Len(ends) : ends[i] <= Len(image)
    /\ Blocks(image, ends, log)

File ==
  /\ disk \in Seq(Cell) /\ wbuf \in Seq(Cell)
  /\ writer \in {"closed", "open"}
  /\ writer = "closed" => wbuf = <<>>
  /\ log \in Seq(Payloads) /\ Len(log) <= MaxLog
  /\ ends \in Seq(Nat) /\ Len(ends) = Len(log) + 1
  /\ ends[Len(ends)] <= Len(disk) + Len(wbuf)
  /\ Layout

Reader ==
  /\ reader \in {"closed", "open"} /\ cursor \in Nat
  /\ want \in Buflens \cup {0}
  /\ passed \in Nat
  /\ recvd \in Seq([rec : Nat, data : Seq(Cell), over : Nat])
  /\ lost \in {"no", "short", "overrun", "bodyless", "truncated"}

Flags == atEof \in BOOLEAN /\ sticky \in BOOLEAN

Object ==
  /\ Epb(epb) /\ epb.total <= MaxTotal
  /\ epb.data \in Payloads /\ epb.option \in Options \cup {<<>>}

IInv == File /\ Reader /\ Flags /\ Object

LEMMA FileSame ==
  ASSUME File, UNCHANGED <<disk, wbuf, writer, log, ends>>
  PROVE  File'
BY DEF File, Layout

LEMMA ReaderSame ==
  ASSUME Reader, Flags, UNCHANGED <<readVars, sticky, want, passed, recvd, lost>>
  PROVE  Reader' /\ Flags'
BY DEF Reader, Flags, readVars

LEMMA ObjectSame == ASSUME Object, UNCHANGED epb PROVE Object'
BY DEF Object

(* An object without a packet or option, and one with a packet more.       *)
LEMMA FreshEpb ==
  /\ Epb(NewBlock(EPB)) /\ NewBlock(EPB).total = 5
  /\ NewBlock(EPB).data = <<>> /\ NewBlock(EPB).option = <<>>
  /\ 5 <= MaxTotal /\ MaxTotal \in Nat /\ 4 \in Cell
<1>1. NewBlock(EPB) = [kind |-> EPB, type |-> EPB, total |-> 5, option |-> <<>>, word |-> 0,
                       capture |-> 0, packet |-> 0, data |-> <<>>]
  BY DEF NewBlock, StructLength
<1>2. Epb(NewBlock(EPB))
  BY <1>1 DEF Epb
<1>3. SetPacket(NewBlock(EPB), <<>>).total = 5
  BY <1>1, PaddedZero DEF SetPacket
<1>4. SetPacket(NewBlock(EPB), <<>>).total <= MaxTotal /\ MaxTotal \in Nat
      /\ 0 .. MaxTotal \subseteq Cell
  BY PcapngAssumption
<1> QED BY <1>1, <1>2, <1>3, <1>4

LEMMA Packets == \A p \in Payloads : p \in Seq(Cell)
BY PcapngAssumption

LEMMA FilledEpb ==
  ASSUME NEW b, Epb(b), NEW p \in Seq(Cell)
  PROVE  /\ Epb(SetPacket(b, p)) /\ SetPacket(b, p).data = p
         /\ SetPacket(b, p).option = b.option /\ SetPacket(b, p).total \in Nat
<1>1. Padded(Len(p)) \in Nat /\ Len(p) \in Nat
  BY PaddedUp
<1>2. SetPacket(b, p) \in [kind : {EPB}, type : {EPB}, total : Nat, option : Seq(Cell),
                           word : {0}, capture : Nat, packet : Nat, data : Seq(Cell)]
  <2> DEFINE R == [kind : {EPB}, type : {EPB}, total : Nat, option : Seq(Cell), word : {0},
                   capture : Nat, packet : Nat, data : Seq(Cell)]
             b1 == [b EXCEPT !.data = p]
             b2 == [b1 EXCEPT !.capture = Len(p)]
             b3 == [b2 EXCEPT !.packet = Len(p)]
             b4 == [b3 EXCEPT !.total = b3.total + Padded(Len(p))]
  <2>1. b \in R
    BY DEF Epb
  <2>2. b1 \in R
    BY <2>1
  <2> HIDE DEF b1
  <2>3. b2 \in R
    BY <1>1, <2>2
  <2> HIDE DEF b2
  <2>4. b3 \in R
    BY <1>1, <2>3
  <2> HIDE DEF b3
  <2>5. b4 \in R
    <3>1. b3.total + Padded(Len(p)) \in Nat
      BY <1>1, <2>4
    <3> QED BY <2>4, <3>1
  <2>6. SetPacket(b, p) = b4
    BY DEF SetPacket, b1, b2, b3
  <2> QED BY <2>5, <2>6
<1>3. /\ SetPacket(b, p).data = p /\ SetPacket(b, p).capture = Len(p)
      /\ SetPacket(b, p).packet = Len(p) /\ SetPacket(b, p).option = b.option
  BY DEF Epb, SetPacket
<1>4. SetPacket(b, p).total \in Nat
  BY <1>2
<1> QED BY <1>2, <1>3, <1>4 DEF Epb

LEMMA PreambleCells ==
  /\ Preamble \in Seq(Cell) /\ Len(Preamble) = 8
  /\ \A b \in {NewBlock(SHB), NewBlock(IDB)} :
       Readable(b.kind, Image(b)) /\ BlockIn(b.kind, Image(b)) = b
<1>1. \A k \in {SHB, IDB} :
        /\ Image(NewBlock(k)) \in Seq(Cell) /\ Len(Image(NewBlock(k))) = 4
        /\ Readable(NewBlock(k).kind, Image(NewBlock(k)))
        /\ BlockIn(NewBlock(k).kind, Image(NewBlock(k))) = NewBlock(k)
  BY PlainImage, FreshEpb
<1> DEFINE s == Image(NewBlock(SHB))
           t == Image(NewBlock(IDB))
<1>2. s \in Seq(Cell) /\ t \in Seq(Cell) /\ Len(s) = 4 /\ Len(t) = 4
  BY <1>1
<1> HIDE DEF s, t
<1>3. s \o t \in Seq(Cell) /\ Len(s \o t) = 8
  <2>1. s \o t \in Seq(Cell) /\ Len(s \o t) = Len(s) + Len(t)
    BY <1>2, LiesFirst
  <2> QED BY <1>2, <2>1
<1>4. Preamble = s \o t
  BY DEF Preamble, s, t
<1> QED BY <1>1, <1>3, <1>4

LEMMA InitInv == Init => IInv
<1> SUFFICES ASSUME Init PROVE IInv
  OBVIOUS
<1>1. PICK f \in Files \cup {NoFile} :
        FileInit(f.disk) /\ log = f.log /\ ends = [k \in 1 .. Len(f.log) + 1 |-> 0]
  BY DEF Init
<1>2. f.disk \in Seq(Cell) /\ f.log \in Seq(Payloads) /\ Len(f.log) <= MaxLog
  <2>1. CASE f \in Files
    BY <2>1, PcapngAssumption
  <2>2. CASE f = NoFile
    BY <2>2, PcapngAssumption DEF NoFile
  <2> QED BY <2>1, <2>2
<1>3. ends \in Seq(Nat) /\ Len(ends) = Len(log) + 1 /\ ends[Len(ends)] = 0
  <2> DEFINE n == Len(f.log) + 1
  <2>1. n \in Nat /\ n > 0
    BY <1>2
  <2> HIDE DEF n
  <2>2. ends = [k \in 1 .. n |-> 0]
    BY <1>1 DEF n
  <2>3. ends \in Seq(Nat) /\ Len(ends) = n /\ ends[n] = 0
    BY <2>1, <2>2
  <2> QED BY <1>1, <2>3 DEF n
<1>4. disk = f.disk /\ wbuf = <<>> /\ writer = "closed" /\ reader = "closed" /\ cursor = 0
  BY <1>1 DEF FileInit
<1>5. File
  BY <1>1, <1>2, <1>3, <1>4 DEF File, Layout
<1>6. Reader
  BY <1>4 DEF Init, Reader
<1>7. Flags
  <2>1. atEof = FALSE /\ sticky \in Sticky
    BY <1>1 DEF FileInit
  <2> QED BY <2>1, FileAssumption DEF Flags
<1>8. Object
  BY FreshEpb DEF Init, Object, Payloads
<1> QED BY <1>5, <1>6, <1>7, <1>8 DEF IInv

-------------------------------------------------------------------------------
(* The writer's steps.                                                     *)
LEMMA OpenWriteInv == ASSUME IInv, OpenWrite PROVE IInv'
<1>1. /\ writer' = "open" /\ disk' = <<>> /\ wbuf' = Preamble
      /\ log' = <<>> /\ ends' = <<Len(Preamble)>> /\ lost' = "truncated"
      /\ UNCHANGED <<readVars, sticky, epb, want, passed, recvd>>
  BY DEF OpenWrite, OpenWriting
<1>2. Preamble \in Seq(Cell) /\ Len(Preamble) = 8
  BY PreambleCells
<1> DEFINE p == Preamble
<1> HIDE DEF p
<1>3. p \in Seq(Cell) /\ Len(p) = 8 /\ <<>> \o p = p /\ SubSeq(p, 1, 8) = p
  <2>1. p \in Seq(Cell) /\ Len(p) = 8
    BY <1>2 DEF p
  <2> QED BY <2>1
<1>4. ends' = <<8>> /\ wbuf' = p /\ disk' \o wbuf' = p
  BY <1>1, <1>2, <1>3 DEF p
<1>5. Layout'
  <2>1. Blocks(p, <<8>>, <<>>)
    BY <1>3 DEF Blocks, p
  <2> QED BY <1>1, <1>3, <1>4, <2>1 DEF Layout
<1>6. File'
  <2>1. MaxLog \in Nat
    BY PcapngAssumption
  <2> QED BY <1>1, <1>3, <1>4, <1>5, <2>1 DEF File
<1>7. Reader' /\ Flags'
  BY <1>1 DEF IInv, Reader, Flags, readVars
<1>8. Object'
  BY <1>1, ObjectSame DEF IInv
<1> QED BY <1>6, <1>7, <1>8 DEF IInv

LEMMA WriteInv ==
  ASSUME IInv, NEW e, Epb(e), e.total \in 0 .. MaxTotal, e.data \in Payloads, WriteBlock(e)
  PROVE  IInv'
<1> DEFINE x == Image(e)
           image == disk \o wbuf
<1>1. /\ writer = "open" /\ Len(log) < MaxLog /\ wbuf' = wbuf \o x
      /\ log' = Append(log, e.data) /\ ends' = Append(ends, Last(ends) + e.total)
      /\ UNCHANGED <<disk, writer, readVars, sticky, epb, want, passed, recvd, lost>>
  BY DEF WriteBlock, Fwrite
<1>2. x \in Seq(Cell) /\ Len(x) = e.total /\ Block(x, e.data)
  BY Written DEF WriteBlock
<1>3. File
  BY DEF IInv
<1>4. /\ disk \in Seq(Cell) /\ wbuf \in Seq(Cell) /\ log \in Seq(Payloads)
      /\ ends \in Seq(Nat) /\ Len(ends) = Len(log) + 1
  BY <1>3 DEF File
<1> HIDE DEF x
<1>5. image \in Seq(Cell) /\ Len(image) = Len(disk) + Len(wbuf)
  BY <1>4, LiesFirst
<1>6. disk' \o wbuf' = image \o x
  <2>1. (disk \o wbuf) \o x = disk \o (wbuf \o x)
    <3>1. disk \in Seq(Cell) /\ wbuf \in Seq(Cell) /\ x \in Seq(Cell)
      BY <1>2, <1>4
    <3> QED BY <3>1, Reassociate, SMTT(30)
  <2> QED BY <1>1, <2>1
<1>7. /\ ends[Len(ends)] = Len(image) /\ \A i \in 1 .. Len(ends) : ends[i] <= Len(image)
      /\ Blocks(image, ends, log)
  BY <1>1, <1>3 DEF File, Layout
<1> HIDE DEF image
<1>8. ends' = Append(ends, Len(image) + Len(x))
  BY <1>1, <1>2, <1>7 DEF Last
<1>9. Blocks(image \o x, ends', log')
  BY <1>1, <1>2, <1>4, <1>5, <1>7, <1>8, BlocksMore
<1>10. image \o x \in Seq(Cell) /\ Len(image \o x) = Len(image) + Len(x)
       /\ Len(image) \in Nat /\ Len(x) \in Nat
  BY <1>2, <1>5, ConcatParts
<1>11. /\ ends' \in Seq(Nat) /\ Len(ends') = Len(ends) + 1
       /\ ends'[Len(ends) + 1] = Len(image) + Len(x)
       /\ \A i \in 1 .. Len(ends) : ends'[i] = ends[i]
  BY <1>4, <1>8, <1>10, AppendParts
<1>12. \A i \in 1 .. Len(ends) + 1 : ends'[i] <= Len(image) + Len(x)
  <2>1. \A i \in 1 .. Len(ends) : ends[i] \in Nat /\ ends[i] <= Len(image)
    BY <1>4, <1>7
  <2>2. Len(ends) \in Nat
    BY <1>4
  <2>3. ASSUME NEW i \in 1 .. Len(ends) + 1 PROVE ends'[i] <= Len(image) + Len(x)
    <3>1. CASE i = Len(ends) + 1
      BY <1>10, <1>11, <3>1
    <3>2. CASE i # Len(ends) + 1
      <4>1. i \in 1 .. Len(ends)
        BY <2>2, <3>2
      <4>2. ends'[i] = ends[i]
        BY <1>11, <4>1
      <4> QED BY <1>10, <2>1, <4>1, <4>2
    <3> QED BY <3>1, <3>2
  <2> QED BY <2>3
<1>13. Layout'
  BY <1>6, <1>9, <1>10, <1>11, <1>12 DEF Layout
<1>14. log' \in Seq(Payloads) /\ Len(log') = Len(log) + 1
  BY <1>1, <1>4, AppendParts
<1>15. wbuf' \in Seq(Cell) /\ Len(wbuf') = Len(wbuf) + Len(x)
  BY <1>1, <1>2, <1>4, ConcatParts
<1>16. File'
  <2>1. ends'[Len(ends')] <= Len(disk') + Len(wbuf')
    <3>1. ends'[Len(ends')] = Len(image) + Len(x)
      BY <1>11
    <3>2. Len(disk') = Len(disk) /\ Len(disk) \in Nat /\ Len(wbuf) \in Nat
      BY <1>1, <1>4
    <3> QED BY <1>5, <1>10, <1>15, <3>1, <3>2
  <2>2. Len(ends') = Len(log') + 1 /\ Len(log') <= MaxLog
    BY <1>1, <1>4, <1>11, <1>14, PcapngAssumption
  <2> QED BY <1>1, <1>4, <1>11, <1>13, <1>14, <1>15, <2>1, <2>2 DEF File
<1> QED BY <1>1, <1>16, ReaderSame, ObjectSame DEF IInv

(* What a program does with its EPB object leaves the file alone.          *)
LEMMA ObjectInv ==
  ASSUME IInv, Object', UNCHANGED <<fileVars, want, history>>
  PROVE  IInv'
<1>1. UNCHANGED <<disk, wbuf, writer, log, ends>>
  BY DEF fileVars, history
<1>2. UNCHANGED <<readVars, sticky, want, passed, recvd, lost>>
  BY DEF fileVars, history, readVars
<1> QED BY <1>1, <1>2, FileSame, ReaderSame DEF IInv

LEMMA NewEpbInv == ASSUME IInv, NewEpb PROVE IInv'
<1>1. epb' = NewBlock(EPB) /\ UNCHANGED <<fileVars, want, history>>
  BY DEF NewEpb
<1>2. Object'
  BY <1>1, FreshEpb DEF Object, Payloads
<1> QED BY <1>1, <1>2, ObjectInv

LEMMA FillInv == ASSUME IInv, NEW p \in Fills, FillBlock(p) PROVE IInv'
<1>1. /\ SetPacket(epb, p).total <= MaxTotal /\ epb' = SetPacket(epb, p)
      /\ UNCHANGED <<fileVars, want, history>>
  BY DEF FillBlock
<1>2. p \in Payloads /\ p \in Seq(Cell)
  BY Packets DEF Payloads
<1>3. Epb(epb) /\ epb.option \in Options \cup {<<>>}
  BY DEF IInv, Object
<1>4. Object'
  <2>1. Epb(epb') /\ epb'.data = p /\ epb'.option = epb.option
    BY <1>1, <1>2, <1>3, FilledEpb
  <2>2. Payloads' = Payloads
    BY DEF Payloads
  <2> QED BY <1>1, <1>2, <1>3, <2>1 DEF Object
<1> QED BY <1>1, <1>4, ObjectInv

LEMMA OptionInv == ASSUME IInv, NEW o \in Options, AddOption(o) PROVE IInv'
<1>1. PICK n \in {0, Len(o)} :
        epb.total + n <= MaxTotal /\ epb' = [epb EXCEPT !.option = o, !.total = @ + n]
  BY DEF AddOption
<1>2. UNCHANGED <<fileVars, want, history>>
  BY DEF AddOption
<1>3. o \in Seq(Cell) /\ n \in Nat
  BY PcapngAssumption
<1> DEFINE R == [kind : {EPB}, type : {EPB}, total : Nat, option : Seq(Cell), word : {0},
                 capture : Nat, packet : Nat, data : Seq(Cell)]
           b1 == [epb EXCEPT !.option = o]
           b2 == [b1 EXCEPT !.total = b1.total + n]
<1>4. epb \in R /\ epb.capture = Len(epb.data) /\ epb.packet = Len(epb.data)
      /\ epb.data \in Payloads
  BY DEF IInv, Object, Epb
<1>5. b1 \in R /\ b1.option = o /\ b1.total = epb.total
  BY <1>3, <1>4
<1>6. b1.data = epb.data /\ b1.capture = epb.capture /\ b1.packet = epb.packet
  BY <1>4
<1>7. epb' = b2
  BY <1>1, <1>4
<1> HIDE DEF b1
<1>8. b1.total + n \in Nat
  BY <1>3, <1>5
<1>9. b2 \in R /\ b2.option = o /\ b2.total = b1.total + n
  BY <1>5, <1>8
<1>10. b2.data = b1.data /\ b2.capture = b1.capture /\ b2.packet = b1.packet
  BY <1>5
<1>11. Epb(b2) /\ b2.total <= MaxTotal /\ b2.data \in Payloads /\ b2.option \in Options
  BY <1>1, <1>4, <1>5, <1>6, <1>9, <1>10 DEF Epb
<1>12. Object'
  BY <1>7, <1>11 DEF Object
<1> QED BY <1>2, <1>12, ObjectInv

LEMMA FlushInv == ASSUME IInv, FlushSome PROVE IInv'
<1>1. PICK n \in 1 .. Len(wbuf) :
        disk' = disk \o SubSeq(wbuf, 1, n) /\ wbuf' = SubSeq(wbuf, n + 1, Len(wbuf))
  BY DEF FlushSome, Flush
<1>2. UNCHANGED <<writer, readVars, sticky, epb, want, log, ends, passed, recvd, lost>>
  BY DEF FlushSome, Flush, history
<1>3. File
  BY DEF IInv
<1>4. disk \in Seq(Cell) /\ wbuf \in Seq(Cell) /\ Len(wbuf) \in Nat
  BY <1>3 DEF File
<1> DEFINE s == SubSeq(wbuf, 1, n)
           t == SubSeq(wbuf, n + 1, Len(wbuf))
<1>5. s \in Seq(Cell) /\ Len(s) = n /\ t \in Seq(Cell) /\ Len(t) = Len(wbuf) - n
  <2>1. n \in Nat /\ n <= Len(wbuf) /\ 1 <= n + 1 /\ n + 1 \in Nat \ {0}
        /\ n + 1 <= Len(wbuf) + 1
    BY <1>4
  <2>2. s \in Seq(Cell) /\ Len(s) = n - 1 + 1
    BY <1>4, <2>1, SubSeqParts
  <2>3. t \in Seq(Cell) /\ Len(t) = Len(wbuf) - (n + 1) + 1
    BY <1>4, <2>1, SubSeqParts
  <2> QED BY <1>4, <2>1, <2>2, <2>3
<1>6. s \o t = wbuf
  <2>1. 1 \in 1 .. Len(wbuf) + 1 /\ n \in 1 - 1 .. Len(wbuf) /\ Len(wbuf) \in n .. Len(wbuf)
    BY <1>4
  <2>2. SubSeq(wbuf, 1, n) \o SubSeq(wbuf, n + 1, Len(wbuf)) = SubSeq(wbuf, 1, Len(wbuf))
    BY <1>4, <2>1, ConcatAdjacentSubSeq
  <2>3. SubSeq(wbuf, 1, Len(wbuf)) = wbuf
    BY <1>4
  <2> QED BY <2>2, <2>3
<1> HIDE DEF s, t
<1>7. disk' = disk \o s /\ wbuf' = t
  BY <1>1 DEF s, t
<1>8. disk' \o wbuf' = disk \o wbuf
  <2>1. (disk \o s) \o t = disk \o (s \o t)
    <3>1. disk \in Seq(Cell) /\ s \in Seq(Cell) /\ t \in Seq(Cell)
      BY <1>4, <1>5
    <3> QED BY <3>1, Reassociate, SMTT(30)
  <2> QED BY <1>6, <1>7, <2>1
<1>9. disk' \in Seq(Cell) /\ Len(disk') = Len(disk) + Len(s)
  BY <1>4, <1>5, <1>7, ConcatParts
<1>10. Len(disk') + Len(wbuf') = Len(disk) + Len(wbuf)
  <2>1. Len(wbuf') = Len(wbuf) - n /\ Len(disk') = Len(disk) + n
    BY <1>5, <1>7, <1>9
  <2>2. Len(disk) \in Nat /\ Len(wbuf) \in Nat /\ n \in Nat
    BY <1>4
  <2> QED BY <2>1, <2>2
<1>11. Layout'
  <2>1. Layout
    BY <1>3 DEF File
  <2> QED BY <1>2, <1>8, <2>1 DEF Layout
<1>12. File'
  BY <1>2, <1>3, <1>5, <1>7, <1>9, <1>10, <1>11 DEF File
<1> QED BY <1>2, <1>12, ReaderSame, ObjectSame DEF IInv

LEMMA CloseWriteInv == ASSUME IInv, CloseWrite PROVE IInv'
<1>1. /\ writer' = "closed" /\ disk' = disk \o wbuf /\ wbuf' = <<>>
      /\ UNCHANGED <<readVars, sticky, epb, want, log, ends, passed, recvd, lost>>
  BY DEF CloseWrite, CloseWriting, history
<1>2. File
  BY DEF IInv
<1>3. disk \in Seq(Cell) /\ wbuf \in Seq(Cell)
  BY <1>2 DEF File
<1>4. disk' \in Seq(Cell) /\ Len(disk') = Len(disk) + Len(wbuf)
  BY <1>1, <1>3, ConcatParts
<1>5. Len(disk') + Len(wbuf') = Len(disk) + Len(wbuf)
  BY <1>1, <1>3, <1>4
<1>6. File'
  BY <1>1, <1>2, <1>4, <1>5 DEF File, Layout
<1> QED BY <1>1, <1>6, ReaderSame, ObjectSame DEF IInv

LEMMA CrashInv == ASSUME IInv, Crash PROVE IInv'
<1>1. /\ writer' = "closed" /\ disk' = disk /\ wbuf' = <<>>
      /\ UNCHANGED <<readVars, sticky, epb, want, passed, recvd, lost>>
  BY DEF Crash, CrashWriting
<1>2. File /\ MaxLog \in Nat
  BY PcapngAssumption DEF IInv
<1>3. /\ disk \in Seq(Cell) /\ log \in Seq(Payloads) /\ Len(log) <= MaxLog
      /\ ends \in Seq(Nat) /\ Len(ends) = Len(log) + 1 /\ Len(log) \in Nat
  BY <1>2 DEF File
<1>4. /\ log' \in Seq(Payloads) /\ Len(log') <= MaxLog
      /\ ends' \in Seq(Nat) /\ Len(ends') = Len(log') + 1
      /\ ends'[Len(ends')] <= Len(disk)
  <2>1. CASE ends[1] > Len(disk)
    <3>1. log' = <<>> /\ ends' = <<0>>
      BY <2>1 DEF Crash
    <3>2. Len(disk) \in Nat
      BY <1>3
    <3> QED BY <1>2, <3>1, <3>2
  <2>2. CASE ~ (ends[1] > Len(disk))
    <3>1. PICK n \in 0 .. Len(log) :
            /\ ends[n + 1] <= Len(disk)
            /\ log' = SubSeq(log, 1, n) /\ ends' = SubSeq(ends, 1, n + 1)
      BY <2>2 DEF Crash
    <3>2. n \in Nat /\ n <= Len(log) /\ n + 1 <= Len(ends) /\ n + 1 \in Nat /\ 1 <= n + 1
          /\ 1 <= (n + 1) + 1 /\ n - 1 + 1 = n /\ (n + 1) - 1 + 1 = n + 1
      BY <1>3
    <3>3. log' \in Seq(Payloads) /\ Len(log') = n
      BY <1>3, <3>1, <3>2, SubSeqParts
    <3>4. /\ ends' \in Seq(Nat) /\ Len(ends') = n + 1
          /\ \A i \in 1 .. n + 1 : ends'[i] = ends[1 + i - 1]
      BY <1>3, <3>1, <3>2, SubSeqParts
    <3>5. ends'[n + 1] = ends[n + 1]
      BY <3>2, <3>4
    <3>6. Len(log') <= MaxLog
      BY <1>2, <1>3, <3>2, <3>3
    <3> QED BY <3>1, <3>3, <3>4, <3>5, <3>6
  <2> QED BY <2>1, <2>2
<1>5. Len(disk') + Len(wbuf') = Len(disk)
  BY <1>1, <1>3
<1>6. File'
  BY <1>1, <1>3, <1>4, <1>5 DEF File, Layout
<1> QED BY <1>1, <1>6, ReaderSame, ObjectSame DEF IInv

-------------------------------------------------------------------------------
(* The reader's steps leave the file and the objects alone.                *)
LEMMA ReadInv ==
  ASSUME IInv, UNCHANGED <<disk, wbuf, writer, sticky, log, ends, epb>>,
         reader' \in {"closed", "open"}, cursor' \in Nat, atEof' \in BOOLEAN,
         want' \in Buflens \cup {0}, passed' \in Nat,
         recvd' \in Seq([rec : Nat, data : Seq(Cell), over : Nat]),
         lost' \in {"no", "short", "overrun", "bodyless", "truncated"}
  PROVE  IInv'
<1>1. File'
  BY FileSame DEF IInv
<1>2. Object'
  BY ObjectSame DEF IInv
<1>3. Reader'
  BY DEF Reader
<1>4. Flags'
  <2>1. sticky \in BOOLEAN /\ sticky' = sticky
    BY DEF IInv, Flags
  <2> QED BY <2>1, Zenon DEF Flags
<1> QED BY <1>1, <1>2, <1>3, <1>4 DEF IInv

(* What the reader's variables are.                                        *)
LEMMA ReaderParts ==
  ASSUME IInv
  PROVE  /\ reader \in {"closed", "open"} /\ cursor \in Nat
         /\ want \in Buflens \cup {0} /\ 0 \in Buflens \cup {0} /\ passed \in Nat
         /\ recvd \in Seq([rec : Nat, data : Seq(Cell), over : Nat])
         /\ lost \in {"no", "short", "overrun", "bodyless", "truncated"}
         /\ disk \in Seq(Cell) /\ Len(disk) \in Nat
         /\ atEof \in BOOLEAN
BY DEF IInv, Reader, File, Flags

LEMMA OpenReadInv == ASSUME IInv, OpenRead PROVE IInv'
<1>1. /\ reader' = "open" /\ cursor' = 0 /\ atEof' = FALSE
      /\ passed' = 0 /\ recvd' = <<>> /\ lost' = "no" /\ want' = want
      /\ UNCHANGED <<disk, wbuf, writer, sticky, log, ends, epb>>
  BY DEF OpenRead, OpenReading
<1>2. atEof' \in BOOLEAN
  BY <1>1
<1> QED BY <1>1, <1>2, ReaderParts, ReadInv

LEMMA CloseReadInv == ASSUME IInv, CloseRead PROVE IInv'
<1>1. /\ reader' = "closed"
      /\ UNCHANGED <<disk, wbuf, writer, sticky, log, ends, epb>>
      /\ UNCHANGED <<cursor, atEof, want, passed, recvd, lost>>
  BY DEF CloseRead, CloseReading, history
<1>2. atEof' \in BOOLEAN
  BY <1>1, ReaderParts, Zenon
<1> QED BY <1>1, <1>2, ReaderParts, ReadInv

LEMMA PollEofInv == ASSUME IInv, PollEof PROVE IInv'
<1>1. /\ UNCHANGED <<disk, wbuf, writer, sticky, log, ends, epb>>
      /\ UNCHANGED <<reader, cursor, want, passed, recvd, lost>>
  BY DEF PollEof, Eof, history
<1>2. atEof' = ~CanRead(cursor, 1)
  BY DEF PollEof, Eof
<1>3. atEof' \in BOOLEAN
  BY <1>2, Zenon
<1> QED BY <1>1, <1>3, ReaderParts, ReadInv

LEMMA RecvCallInv == ASSUME IInv, NEW n \in Buflens, RecvCall(n) PROVE IInv'
<1>1. /\ want' = n /\ UNCHANGED <<disk, wbuf, writer, sticky, log, ends, epb>>
      /\ UNCHANGED <<reader, cursor, atEof, passed, recvd, lost>>
  BY DEF RecvCall, fileVars, history
<1>2. atEof' \in BOOLEAN
  BY <1>1, ReaderParts, Zenon
<1> QED BY <1>1, <1>2, ReaderParts, ReadInv

LEMMA RecvEofInv == ASSUME IInv, RecvEof PROVE IInv'
<1>1. /\ atEof' = TRUE /\ want' = 0
      /\ UNCHANGED <<disk, wbuf, writer, sticky, log, ends, epb>>
      /\ UNCHANGED <<reader, cursor, passed, recvd, lost>>
  BY DEF RecvEof, history
<1>2. atEof' \in BOOLEAN
  BY <1>1
<1> QED BY <1>1, <1>2, ReaderParts, ReadInv

LEMMA RecvShortInv == ASSUME IInv, RecvShort PROVE IInv'
<1>1. /\ atEof' = TRUE /\ want' = 0 /\ lost' = "short"
      /\ UNCHANGED <<disk, wbuf, writer, sticky, log, ends, epb>>
      /\ UNCHANGED <<reader, passed, recvd>>
  BY DEF RecvShort, ReadShort
<1>2. cursor' = cursor \/ cursor' = Len(disk)
  BY DEF RecvShort, ReadShort
<1>3. atEof' \in BOOLEAN /\ cursor' \in Nat
  BY <1>1, <1>2, ReaderParts
<1> QED BY <1>1, <1>3, ReaderParts, ReadInv

LEMMA RecvOverrunInv == ASSUME IInv, RecvOverrun PROVE IInv'
<1>1. /\ want' = 0 /\ lost' = "overrun"
      /\ UNCHANGED <<disk, wbuf, writer, sticky, log, ends, epb>>
      /\ UNCHANGED <<reader, cursor, atEof, passed, recvd>>
  BY DEF RecvOverrun, fileVars
<1>2. atEof' \in BOOLEAN
  BY <1>1, ReaderParts, Zenon
<1> QED BY <1>1, <1>2, ReaderParts, ReadInv

LEMMA RecvNoBodyInv == ASSUME IInv, RecvNoBody PROVE IInv'
<1>1. /\ atEof' = FALSE /\ want' = 0 /\ lost' = "bodyless" /\ cursor' = cursor + 2
      /\ UNCHANGED <<disk, wbuf, writer, sticky, log, ends, epb>>
      /\ UNCHANGED <<reader, passed, recvd>>
  BY DEF RecvNoBody, Advance
<1>2. atEof' \in BOOLEAN
  BY <1>1
<1>3. cursor' \in Nat
  BY <1>1, ReaderParts
<1> QED BY <1>1, <1>2, <1>3, ReaderParts, ReadInv

(* A block is there: it is a sequence of cells, as long as it says.        *)
LEMMA HereIs ==
  ASSUME IInv, BlockHere
  PROVE  Here \in Seq(Cell) /\ Len(Here) = Total /\ Total \in Nat
<1>1. cursor + 2 <= Len(disk) /\ cursor + Total <= Len(disk) /\ Total \in 4 .. TmpSize
  BY DEF BlockHere, HeadHere, CanRead
<1>2. cursor \in Nat /\ disk \in Seq(Cell) /\ Len(disk) \in Nat
  BY ReaderParts
<1>3. Total \in Cell
  BY <1>1, <1>2 DEF Total
<1>4. Total \in Nat
  BY <1>3, FileAssumption
<1> DEFINE n == Total
<1> HIDE DEF n
<1>5. n \in Nat /\ n > 0 /\ cursor + n <= Len(disk)
  <2>1. n \in 4 .. TmpSize
    BY <1>1 DEF n
  <2> QED BY <1>1, <1>4, <2>1, PcapngAssumption DEF n
<1>6. cursor + 1 \in Nat \ {0} /\ cursor + n \in Nat /\ cursor + 1 <= (cursor + n) + 1
      /\ (cursor + n) - (cursor + 1) + 1 = n
  BY <1>2, <1>5
<1>7. /\ SubSeq(disk, cursor + 1, cursor + n) \in Seq(Cell)
      /\ Len(SubSeq(disk, cursor + 1, cursor + n)) = (cursor + n) - (cursor + 1) + 1
  BY <1>2, <1>5, <1>6, SubSeqParts
<1> QED BY <1>5, <1>6, <1>7 DEF Here, n

LEMMA RecvOnInv == ASSUME IInv, RecvSkip \/ RecvRefuse PROVE IInv'
<1>1. /\ BlockHere /\ cursor' = cursor + Total /\ want' \in {want, 0} /\ atEof' = FALSE
      /\ UNCHANGED <<disk, wbuf, writer, sticky, log, ends, epb>>
      /\ UNCHANGED <<reader, passed, recvd, lost>>
  BY DEF RecvSkip, RecvRefuse, Advance, history
<1>2. atEof' \in BOOLEAN
  BY <1>1
<1>3. cursor' \in Nat
  BY <1>1, HereIs, ReaderParts
<1>4. want' \in Buflens \cup {0}
  BY <1>1, ReaderParts
<1> QED BY <1>1, <1>2, <1>3, <1>4, ReaderParts, ReadInv

(* What read() makes of an EPB has its types.                              *)
LEMMA EpbIn ==
  ASSUME NEW c \in Seq(Cell), Readable(EPB, c)
  PROVE  LET b == BlockIn(EPB, c) IN
         /\ b.packet \in Nat /\ b.capture \in Nat
         /\ b.data \in Seq(Cell) /\ Len(b.data) = b.capture
<1>1. Len(c) \in Nat /\ Len(c) >= 4 /\ Len(c) >= 2 + BodyIn(EPB, c)
  BY DEF Readable, StructLength
<1>2. c[3] \in Nat /\ c[4] \in Nat
  <2>1. c[3] \in Cell /\ c[4] \in Cell
    BY <1>1
  <2> QED BY <2>1, FileAssumption
<1> DEFINE n == c[3]
           w == Padded(2 + n)
<1>3. BodyIn(EPB, c) = w
  BY DEF BodyIn
<1>4. n \in Nat
  BY <1>2
<1> HIDE DEF n
<1>5. w \in Nat /\ w >= 2 + n
  <2>1. 2 + n \in Nat
    BY <1>4
  <2> QED BY <2>1, PaddedUp
<1> HIDE DEF w
<1>6. 4 + n \in Nat /\ 4 + n <= Len(c) /\ 5 <= (4 + n) + 1 /\ (4 + n) - 5 + 1 = n
  BY <1>1, <1>3, <1>4, <1>5
<1>7. SubSeq(c, 5, 4 + n) \in Seq(Cell) /\ Len(SubSeq(c, 5, 4 + n)) = (4 + n) - 5 + 1
  BY <1>6, SubSeqParts
<1>8. BlockIn(EPB, c).packet = c[4] /\ BlockIn(EPB, c).capture = n
      /\ BlockIn(EPB, c).data = SubSeq(c, 5, 4 + n)
  BY DEF BlockIn, n
<1> QED BY <1>2, <1>4, <1>6, <1>7, <1>8

LEMMA RecvPacketInv == ASSUME IInv, RecvPacket PROVE IInv'
<1> DEFINE b == BlockIn(EPB, Here)
           k == Copied(b)
           n == IF Copied(b) < b.capture THEN Copied(b) ELSE b.capture
           got == [rec |-> passed', data |-> SubSeq(b.data, 1, n), over |-> k - n]
<1>1. /\ BlockHere /\ Readable(EPB, Here) /\ cursor' = cursor + Total /\ want' = 0
      /\ passed' = passed + 1 /\ atEof' = FALSE
      /\ UNCHANGED <<disk, wbuf, writer, sticky, log, ends, epb>>
      /\ UNCHANGED <<reader, lost>>
  BY DEF RecvPacket, Advance
<1>2. recvd' = Append(recvd, got)
  BY DEF RecvPacket
<1>3. Here \in Seq(Cell) /\ Total \in Nat
  BY <1>1, HereIs
<1>4. b.packet \in Nat /\ b.capture \in Nat /\ b.data \in Seq(Cell) /\ Len(b.data) = b.capture
  BY <1>1, <1>3, EpbIn
<1>5. want \in Nat
  <2>1. want \in Buflens \cup {0}
    BY ReaderParts
  <2>2. Buflens \subseteq Nat \ {0}
    BY PcapngAssumption
  <2> QED BY <2>1, <2>2
<1> HIDE DEF b
<1>6. k \in Nat
  BY <1>4, <1>5 DEF Copied
<1> HIDE DEF k
<1>7. n = IF k < b.capture THEN k ELSE b.capture
  BY DEF k
<1>8. n \in Nat /\ n <= Len(b.data) /\ k - n \in Nat
  BY <1>4, <1>6, <1>7
<1> HIDE DEF n
<1>9. SubSeq(b.data, 1, n) \in Seq(Cell)
  BY <1>4, <1>8, SubSeqParts
<1>10. passed' \in Nat
  BY <1>1, ReaderParts
<1>11. got \in [rec : Nat, data : Seq(Cell), over : Nat]
  BY <1>8, <1>9, <1>10
<1> HIDE DEF got
<1>12. recvd' \in Seq([rec : Nat, data : Seq(Cell), over : Nat])
  BY <1>2, <1>11, ReaderParts
<1>13. cursor' \in Nat
  BY <1>1, <1>3, ReaderParts
<1>14. atEof' \in BOOLEAN
  BY <1>1
<1> QED BY <1>1, <1>10, <1>12, <1>13, <1>14, ReaderParts, ReadInv

-------------------------------------------------------------------------------
LEMMA NextInv == ASSUME IInv, [Next]_vars PROVE IInv'
<1>1. CASE OpenWrite
  BY <1>1, OpenWriteInv
<1>2. CASE NewEpb
  BY <1>2, NewEpbInv
<1>3. CASE WriteBlock(epb)
  <2>1. Epb(epb) /\ epb.total <= MaxTotal /\ epb.data \in Payloads
    BY DEF IInv, Object
  <2>2. epb.total \in 0 .. MaxTotal
    BY <2>1, PcapngAssumption DEF Epb
  <2> QED BY <1>3, <2>1, <2>2, WriteInv
<1>4. CASE FlushSome
  BY <1>4, FlushInv
<1>5. CASE CloseWrite
  BY <1>5, CloseWriteInv
<1>6. CASE Crash
  BY <1>6, CrashInv
<1>7. ASSUME NEW p \in Sends, Send(p) PROVE IInv'
  <2> DEFINE e == SetPacket(NewBlock(EPB), p)
  <2>1. p \in Payloads /\ p \in Seq(Cell)
    BY Packets DEF Payloads
  <2>2. Epb(e) /\ e.data = p /\ e.total \in Nat
    BY <2>1, FreshEpb, FilledEpb
  <2>3. e.total <= MaxTotal /\ MaxTotal \in Nat
    BY PcapngAssumption
  <2>4. WriteBlock(e)
    BY <1>7 DEF Send
  <2> HIDE DEF e
  <2>5. e.total \in 0 .. MaxTotal
    BY <2>2, <2>3
  <2> QED BY <2>1, <2>2, <2>4, <2>5, WriteInv
<1>8. ASSUME NEW p \in Fills, FillBlock(p) PROVE IInv'
  BY <1>8, FillInv
<1>9. ASSUME NEW o \in Options, AddOption(o) PROVE IInv'
  BY <1>9, OptionInv
<1>10. CASE OpenRead
  BY <1>10, OpenReadInv
<1>11. CASE CloseRead
  BY <1>11, CloseReadInv
<1>12. CASE PollEof
  BY <1>12, PollEofInv
<1>13. ASSUME NEW n \in Buflens, RecvCall(n) PROVE IInv'
  BY <1>13, RecvCallInv
<1>14. CASE Step
  BY <1>14, RecvEofInv, RecvShortInv, RecvOverrunInv, RecvNoBodyInv, RecvOnInv, RecvPacketInv
     DEF Step
<1>15. CASE UNCHANGED vars
  <2>1. UNCHANGED <<fileVars, want, history>> /\ Object'
    BY <1>15, ObjectSame DEF vars, IInv
  <2> QED BY <2>1, ObjectInv
<1> QED
  BY <1>1, <1>2, <1>3, <1>4, <1>5, <1>6, <1>7, <1>8, <1>9, <1>10, <1>11, <1>12, <1>13, <1>14,
     <1>15 DEF Next

(* The invariant holds of a stream, its file and its blocks at all times.  *)
THEOREM Inductive == Spec => []IInv
<1>1. IInv /\ [Next]_vars => IInv'
  BY NextInv
<1> QED BY <1>1, InitInv, PTL DEF Spec

(* The variables keep their types, and the last block of the log lies      *)
(* within what was written, crashes included.                              *)
THEOREM Typing == Spec => []TypeOK
<1>1. IInv => TypeOK
  <2> SUFFICES ASSUME IInv PROVE TypeOK
    OBVIOUS
  <2>1. File /\ Reader /\ Flags /\ Object
    BY DEF IInv
  <2>2. {atEof, sticky} \subseteq BOOLEAN
    BY <2>1, Zenon DEF Flags
  <2>3. FileTypeOK
    BY <2>1, <2>2 DEF File, Reader, FileTypeOK
  <2>4. Last(ends) <= Len(disk) + Len(wbuf)
    BY <2>1 DEF File, Last
  <2> QED BY <2>1, <2>3, <2>4 DEF File, Reader, Object, TypeOK
<1> QED BY <1>1, Inductive, PTL

(* Every block of a file that is being written lies where the one before   *)
(* it ends, and read() gets back what write() was given: for all packets   *)
(* and options, any alignment, and EPB objects used in any order.          *)
THEOREM BlocksBack == Spec => []ReadsBack
<1>1. IInv => ReadsBack
  <2> SUFFICES ASSUME IInv, writer = "open" PROVE ReadsBack
    BY DEF ReadsBack
  <2> DEFINE image == disk \o wbuf
  <2>1. Blocks(image, ends, log)
    BY DEF IInv, File, Layout
  <2>2. log \in Seq(Payloads)
    BY DEF IInv, File
  <2>3. DOMAIN log = 1 .. Len(log)
    BY <2>2
  <2> HIDE DEF image
  <2>4. /\ SubSeq(image, 1, ends[1]) = Preamble
        /\ \A i \in DOMAIN log :
             LET c == SubSeq(image, ends[i] + 1, ends[i + 1]) IN
             /\ Readable(EPB, c)
             /\ BlockIn(EPB, c).data = log[i]
             /\ Writable(BlockIn(EPB, c)) /\ Image(BlockIn(EPB, c)) = c
    BY <2>1, <2>3 DEF Blocks, Block
  <2> QED BY <2>4, PreambleCells DEF ReadsBack, image
<1> QED BY <1>1, Inductive, PTL

-------------------------------------------------------------------------------
(* Where the reader stands.  x is a block that write() made of the packet  *)
(* p, whatever options it has.                                             *)
Sent(x, p) ==
  /\ x \in Seq(Cell) /\ Len(x) >= 4 /\ x[2] = Len(x)
  /\ Readable(EPB, x)
  /\ BlockIn(EPB, x).data = p /\ BlockIn(EPB, x).capture = Len(p)
  /\ BlockIn(EPB, x).packet = Len(p)

(* The blocks of the packets ps lie in image one behind the other.         *)
Chain(image, es, ps) ==
  /\ Lies(Preamble, image, 0)
  /\ \A i \in 1 .. Len(ps) :
       \E x : Sent(x, ps[i]) /\ es[i + 1] = es[i] + Len(x) /\ Lies(x, image, es[i])
  /\ \A i, j \in 1 .. Len(es) : i <= j => es[i] <= es[j]

(* Behind its first n cells, image holds a part of one more block.         *)
CutOff(image, n) ==
  /\ n <= Len(image)
  /\ \E x, p : /\ Sent(x, p) /\ Len(image) < n + Len(x)
               /\ \A k \in 1 .. Len(image) - n : image[n + k] = x[k]

(* What the writer has written, on disk or not.                            *)
Laid == disk \o wbuf

Placed ==
  /\ cursor <= Len(disk)
  /\ \/ passed = 0 /\ cursor \in {0, 4}
     \/ passed <= Len(log) /\ cursor = ends[passed + 1]

(* The file is one that the writer made, perhaps cut off by a crash; ...   *)
Own ==
  /\ ends[1] = 8 /\ Chain(Laid, ends, log)
  /\ \/ ends[Len(ends)] = Len(Laid)
     \/ writer = "closed" /\ CutOff(Laid, ends[Len(ends)])
  /\ lost = "no" => Placed

(* ... or one that has not even the first two blocks, as no file has; ...  *)
Torn ==
  /\ ends[1] = 0 /\ writer = "closed" /\ wbuf = <<>> /\ log = <<>>
  /\ Len(disk) < 8 /\ \A k \in 1 .. Len(disk) : disk[k] = Preamble[k]
  /\ lost = "no" => passed = 0 /\ cursor \in {0, 4}

(* ... or that of another program, as it was found.                        *)
Foreign(f) ==
  /\ ends[1] = 0 /\ writer = "closed" /\ wbuf = <<>> /\ disk = f.disk /\ log = f.log
  /\ lost = "no" => cursor \in DOMAIN f.before /\ passed = f.before[cursor]

Origin == Own \/ Torn \/ \E f \in Files : Foreign(f)

(* What the variables of the file are.                                     *)
LEMMA FileParts ==
  ASSUME IInv
  PROVE  /\ disk \in Seq(Cell) /\ wbuf \in Seq(Cell)
         /\ Len(disk) \in Nat /\ Len(wbuf) \in Nat
         /\ Laid \in Seq(Cell) /\ Len(Laid) = Len(disk) + Len(wbuf)
         /\ \A i \in 1 .. Len(disk) : Laid[i] = disk[i]
         /\ log \in Seq(Payloads) /\ Len(log) \in Nat
         /\ ends \in Seq(Nat) /\ Len(ends) = Len(log) + 1
         /\ cursor \in Nat /\ passed \in Nat
         /\ writer = "open" => ends[Len(ends)] = Len(Laid)
<1>1. File /\ cursor \in Nat /\ passed \in Nat
  BY DEF IInv, Reader
<1>2. disk \in Seq(Cell) /\ wbuf \in Seq(Cell)
  BY <1>1 DEF File
<1>3. log \in Seq(Payloads) /\ ends \in Seq(Nat) /\ Len(ends) = Len(log) + 1
  BY <1>1 DEF File
<1>4. writer = "open" => ends[Len(ends)] = Len(Laid)
  BY <1>1 DEF File, Layout, Laid
<1>5. /\ Laid \in Seq(Cell) /\ Len(Laid) = Len(disk) + Len(wbuf)
      /\ Len(disk) \in Nat /\ Len(wbuf) \in Nat
      /\ \A i \in 1 .. Len(disk) : Laid[i] = disk[i]
  BY <1>2, ConcatParts DEF Laid
<1>6. Len(log) \in Nat
  BY <1>3
<1> QED BY <1>1, <1>2, <1>3, <1>4, <1>5, <1>6

LEMMA PreambleWords ==
  /\ Preamble[1] = SHB /\ Preamble[2] = 4 /\ Preamble[5] = IDB /\ Preamble[6] = 4
<1>1. ASSUME NEW k \in {SHB, IDB}
      PROVE  /\ Image(NewBlock(k)) \in Seq(Cell) /\ Len(Image(NewBlock(k))) = 4
             /\ Image(NewBlock(k))[1] = k /\ Image(NewBlock(k))[2] = 4
  <2> DEFINE c == Image(NewBlock(k))
  <2>1. k # EPB
    BY BlockAssumption
  <2>2. NewBlock(k).kind = k /\ NewBlock(k).type = k /\ NewBlock(k).total = 4
    BY <2>1 DEF NewBlock, StructLength
  <2>3. c \in Seq(Cell) /\ Len(c) = 4 /\ BlockIn(NewBlock(k).kind, c) = NewBlock(k)
    BY PlainImage, FreshEpb
  <2> HIDE DEF c
  <2>4. BlockIn(k, c).type = c[1] /\ BlockIn(k, c).total = c[2]
    BY DEF BlockIn
  <2> QED BY <2>2, <2>3, <2>4 DEF c
<1> DEFINE s == Image(NewBlock(SHB))
           t == Image(NewBlock(IDB))
<1>2. /\ s \in Seq(Cell) /\ Len(s) = 4 /\ s[1] = SHB /\ s[2] = 4
      /\ t \in Seq(Cell) /\ Len(t) = 4 /\ t[1] = IDB /\ t[2] = 4
  BY <1>1
<1>3. Preamble = s \o t
  BY DEF Preamble
<1> HIDE DEF s, t
<1> DEFINE p == s \o t
<1>4. \A i \in 1 .. 4 : p[i] = s[i] /\ p[4 + i] = t[i]
  <2>1. s \in Seq(Cell) /\ t \in Seq(Cell)
    BY <1>2
  <2>2. /\ \A i \in 1 .. Len(s) : p[i] = s[i]
        /\ \A i \in 1 .. Len(t) : p[Len(s) + i] = t[i]
    BY <2>1, ConcatParts
  <2> HIDE DEF p
  <2> QED BY <1>2, <2>2
<1> HIDE DEF p
<1>5. p[1] = s[1] /\ p[2] = s[2] /\ p[5] = t[1] /\ p[6] = t[2]
  <2>1. p[4 + 1] = t[1] /\ p[4 + 2] = t[2]
    BY <1>4
  <2> QED BY <1>4, <2>1
<1> QED BY <1>2, <1>3, <1>5 DEF p

(* A block that write() took is one of these.                              *)
LEMMA SentImage ==
  ASSUME NEW e, Epb(e), Writable(e), e.total \in 0 .. MaxTotal
  PROVE  Sent(Image(e), e.data) /\ Len(Image(e)) = e.total
<1> DEFINE n == Len(e.data)
           w == Padded(2 + n)
           m == Len(e.option)
           c == Image(e)
<1>1. n \in Nat /\ m \in Nat /\ e.capture = n /\ e.packet = n
  BY DEF Epb
<1>2. w \in Nat /\ w >= 2 + n
  <2>1. 2 + n \in Nat
    BY <1>1
  <2> HIDE DEF n
  <2> QED BY <2>1, PaddedUp
<1>3. e.total = 3 + w + m
  BY DEF Writable, BodyLength, Epb
<1> HIDE DEF n, w, m, c
<1>4. n \in 0 .. MaxTotal
  BY <1>1, <1>2, <1>3, PcapngAssumption
<1>5. n \in Cell /\ e.total \in Cell
  BY <1>4, PcapngAssumption
<1>6. Readable(EPB, c) /\ BlockIn(EPB, c) = e
  BY <1>5, EpbBack DEF n, c
<1>7. Len(e.data) = n /\ Len(e.option) = m /\ Padded(2 + n) = w /\ Image(e) = c
  BY DEF n, w, m, c
<1>8. c \in Seq(Cell) /\ Len(c) = e.total /\ c[2] = e.total
  BY <1>1, <1>2, <1>5, <1>7, EpbImage
<1>9. Len(c) >= 4
  BY <1>1, <1>2, <1>3, <1>8
<1> QED BY <1>1, <1>6, <1>7, <1>8, <1>9 DEF Sent

LEMMA InitOrigin == Init => Origin
<1> SUFFICES ASSUME Init PROVE Origin
  OBVIOUS
<1>1. PICK f \in Files \cup {NoFile} :
        FileInit(f.disk) /\ log = f.log /\ ends = [k \in 1 .. Len(f.log) + 1 |-> 0]
  BY DEF Init
<1>2. /\ disk = f.disk /\ wbuf = <<>> /\ writer = "closed" /\ cursor = 0
      /\ passed = 0
  BY <1>1 DEF Init, FileInit
<1>3. ends[1] = 0
  <2>1. Len(f.log) \in Nat
    <3>1. CASE f \in Files
      BY <3>1, PcapngAssumption
    <3>2. CASE f = NoFile
      BY <3>2 DEF NoFile
    <3> QED BY <3>1, <3>2
  <2>2. 1 \in 1 .. Len(f.log) + 1
    BY <2>1
  <2> QED BY <1>1, <2>2
<1>4. CASE f \in Files
  <2>1. 0 \in DOMAIN f.before /\ f.before[0] = 0
    BY <1>4, FilesAssumption DEF Described
  <2> QED BY <1>1, <1>2, <1>3, <1>4, <2>1 DEF Origin, Foreign
<1>5. CASE f = NoFile
  <2>1. disk = <<>> /\ log = <<>>
    BY <1>1, <1>2, <1>5 DEF NoFile
  <2>2. Len(disk) < 8 /\ \A k \in 1 .. Len(disk) : disk[k] = Preamble[k]
    BY <2>1
  <2> QED BY <1>2, <1>3, <2>1, <2>2 DEF Origin, Torn
<1> QED BY <1>4, <1>5

(* The reader's steps leave the file as it is.                             *)
LEMMA ReaderMoves ==
  ASSUME Origin, UNCHANGED <<disk, wbuf, writer, log, ends>>,
         Own /\ lost' = "no" => Placed',
         Torn /\ lost' = "no" => passed' = 0 /\ cursor' \in {0, 4},
         \A f \in Files :
           Foreign(f) /\ lost' = "no" => cursor' \in DOMAIN f.before /\ passed' = f.before[cursor']
  PROVE  Origin'
<1>1. CASE Own
  <2>1. Laid' = Laid
    BY DEF Laid
  <2>2. Own'
    BY <1>1, <2>1 DEF Own
  <2> QED BY <2>2 DEF Origin
<1>2. CASE Torn
  <2>1. Torn'
    BY <1>2 DEF Torn
  <2> QED BY <2>1 DEF Origin
<1>3. ASSUME NEW f \in Files, Foreign(f) PROVE Origin'
  <2>1. Foreign(f)'
    BY <1>3 DEF Foreign
  <2> QED BY <2>1 DEF Origin
<1> QED BY <1>1, <1>2, <1>3 DEF Origin

(* It stays where it is, or it loses its place.                            *)
LEMMA ReaderStays ==
  ASSUME Origin, UNCHANGED <<disk, wbuf, writer, log, ends>>,
         lost' = "no" => lost = "no" /\ cursor' = cursor /\ passed' = passed
  PROVE  Origin'
<1>1. Own /\ lost' = "no" => Placed'
  BY DEF Own, Placed
<1>2. Torn /\ lost' = "no" => passed' = 0 /\ cursor' \in {0, 4}
  BY DEF Torn
<1>3. \A f \in Files :
        Foreign(f) /\ lost' = "no" => cursor' \in DOMAIN f.before /\ passed' = f.before[cursor']
  BY DEF Foreign
<1> QED BY <1>1, <1>2, <1>3, ReaderMoves

LEMMA OpenReadOrigin == ASSUME IInv, Origin, OpenRead PROVE Origin'
<1>1. /\ UNCHANGED <<disk, wbuf, writer, log, ends>> /\ cursor' = 0 /\ passed' = 0
  BY DEF OpenRead, OpenReading
<1>2. Placed'
  <2>1. Len(disk) \in Nat
    BY FileParts
  <2> QED BY <1>1, <2>1 DEF Placed
<1>3. \A f \in Files : 0 \in DOMAIN f.before /\ f.before[0] = 0
  BY FilesAssumption DEF Described
<1> QED BY <1>1, <1>2, <1>3, ReaderMoves

LEMMA OpenWriteOrigin == ASSUME OpenWrite PROVE Origin'
<1>1. /\ disk' = <<>> /\ wbuf' = Preamble /\ log' = <<>>
      /\ ends' = <<Len(Preamble)>> /\ lost' = "truncated"
  BY DEF OpenWrite, OpenWriting
<1> DEFINE p == Preamble
<1>2. p \in Seq(Cell) /\ Len(p) = 8
  BY PreambleCells
<1>3. <<>> \o p = p /\ Lies(p, p, 0)
  <2> HIDE DEF p
  <2> QED BY <1>2 DEF Lies
<1>4. Laid' = p /\ ends' = <<8>>
  BY <1>1, <1>2, <1>3 DEF Laid
<1>5. Chain(p, <<8>>, <<>>)
  BY <1>3 DEF Chain
<1> HIDE DEF p
<1>6. Chain(Laid', ends', log')
  BY <1>1, <1>4, <1>5
<1>7. ends'[1] = 8 /\ ends'[Len(ends')] = Len(Laid') /\ lost' # "no"
  BY <1>1, <1>2, <1>4
<1>8. Own'
  BY <1>6, <1>7 DEF Own
<1> QED BY <1>8 DEF Origin

(* The file of a writer that is open is its own.                           *)
LEMMA OwnWhenOpen == ASSUME Origin, writer = "open" PROVE Own
BY DEF Origin, Torn, Foreign

LEMMA LiesShorter ==
  ASSUME NEW S, NEW c \in Seq(S), NEW d \in Seq(S), NEW s \in Seq(S), NEW k \in Nat,
         \A i \in 1 .. Len(d) : c[i] = d[i], Lies(s, c, k), k + Len(s) <= Len(d)
  PROVE  Lies(s, d, k)
<1>1. Len(s) \in Nat /\ Len(d) \in Nat /\ \A i \in 1 .. Len(s) : c[k + i] = s[i]
  BY DEF Lies
<1>2. \A i \in 1 .. Len(s) : k + i \in 1 .. Len(d)
  BY <1>1
<1> QED BY <1>1, <1>2 DEF Lies

LEMMA ChainMore ==
  ASSUME NEW image \in Seq(Cell), NEW x, NEW p \in Payloads, Sent(x, p),
         NEW ps \in Seq(Payloads), NEW es \in Seq(Nat), Len(es) = Len(ps) + 1,
         es[Len(es)] = Len(image), Chain(image, es, ps)
  PROVE  Chain(image \o x, Append(es, Len(image) + Len(x)), Append(ps, p))
<1> DEFINE n == Len(ps)
           l == Len(image)
           new == image \o x
           end == l + Len(x)
           fs == Append(es, end)
           qs == Append(ps, p)
<1>1. x \in Seq(Cell) /\ Len(x) \in Nat
  BY DEF Sent
<1>2. n \in Nat /\ l \in Nat /\ Len(es) = n + 1 /\ es[n + 1] = l
  OBVIOUS
<1>3. end \in Nat /\ l <= end
  BY <1>1, <1>2
<1>4. Len(fs) = n + 2 /\ fs[n + 2] = end /\ \A i \in 1 .. n + 1 : fs[i] = es[i]
  <2> HIDE DEF end
  <2>1. /\ Len(fs) = Len(es) + 1 /\ fs[Len(es) + 1] = end
        /\ \A i \in 1 .. Len(es) : fs[i] = es[i]
    BY <1>3, AppendParts
  <2> HIDE DEF fs, n
  <2> QED BY <1>2, <2>1
<1>5. Len(qs) = n + 1 /\ qs[n + 1] = p /\ \A i \in 1 .. n : qs[i] = ps[i]
  BY AppendParts
<1>6. \A i \in 1 .. n + 1 : es[i] \in Nat
  BY <1>2
<1>7. /\ Lies(Preamble, image, 0)
      /\ \A i \in 1 .. n : \E y : Sent(y, ps[i]) /\ es[i + 1] = es[i] + Len(y)
                                  /\ Lies(y, image, es[i])
      /\ \A i, j \in 1 .. n + 1 : i <= j => es[i] <= es[j]
  BY <1>2 DEF Chain
<1> HIDE DEF n, l, fs, qs
<1>8. Lies(Preamble, new, 0)
  <2>1. Preamble \in Seq(Cell)
    BY PreambleCells
  <2> QED BY <1>1, <1>7, <2>1, LiesLonger
<1>9. Lies(x, new, l)
  BY <1>1, LiesLast DEF l
<1> HIDE DEF new
<1>10. ASSUME NEW i \in 1 .. n + 1
       PROVE  \E y : Sent(y, qs[i]) /\ fs[i + 1] = fs[i] + Len(y) /\ Lies(y, new, fs[i])
  <2>1. CASE i = n + 1
    <3>1. n + 1 \in 1 .. n + 1 /\ i + 1 = n + 2
      BY <1>2, <2>1
    <3>2. fs[i + 1] = end /\ fs[i] = l /\ qs[i] = p
      BY <1>2, <1>4, <1>5, <2>1, <3>1
    <3> QED BY <1>9, <3>2
  <2>2. CASE i # n + 1
    <3>1. i \in 1 .. n /\ i \in 1 .. n + 1 /\ i + 1 \in 1 .. n + 1
      BY <1>2, <2>2
    <3>2. PICK y : Sent(y, ps[i]) /\ es[i + 1] = es[i] + Len(y) /\ Lies(y, image, es[i])
      BY <1>7, <3>1
    <3>3. fs[i] = es[i] /\ fs[i + 1] = es[i + 1] /\ qs[i] = ps[i] /\ es[i] \in Nat
      BY <1>4, <1>5, <1>6, <3>1
    <3>4. y \in Seq(Cell)
      BY <3>2 DEF Sent
    <3>5. Lies(y, image \o x, es[i])
      BY <1>1, <3>2, <3>3, <3>4, LiesLonger
    <3> QED BY <3>2, <3>3, <3>5 DEF new
  <2> QED BY <2>1, <2>2
<1>11. ASSUME NEW i \in 1 .. n + 2, NEW j \in 1 .. n + 2, i <= j PROVE fs[i] <= fs[j]
  <2>1. n + 1 \in 1 .. n + 1 /\ \A k \in 1 .. n + 1 : es[k] <= l
    <3>1. n + 1 \in 1 .. n + 1 /\ \A k \in 1 .. n + 1 : k <= n + 1
      BY <1>2
    <3> QED BY <1>2, <1>7, <3>1
  <2>2. CASE j = n + 2
    <3>1. CASE i = n + 2
      BY <1>3, <1>4, <2>2, <3>1
    <3>2. CASE i # n + 2
      <4>1. i \in 1 .. n + 1
        BY <1>2, <3>2
      <4>2. fs[i] = es[i] /\ es[i] \in Nat /\ es[i] <= l /\ fs[j] = end
        BY <1>4, <1>6, <2>1, <2>2, <4>1
      <4> QED BY <1>2, <1>3, <4>2
    <3> QED BY <3>1, <3>2
  <2>3. CASE j # n + 2
    <3>1. i \in 1 .. n + 1 /\ j \in 1 .. n + 1
      BY <1>2, <1>11, <2>3
    <3> QED BY <1>4, <1>7, <1>11, <3>1
  <2> QED BY <2>2, <2>3
<1>12. Chain(new, fs, qs)
  BY <1>4, <1>5, <1>8, <1>10, <1>11 DEF Chain
<1> QED BY <1>12 DEF new, fs, qs, l

(* The blocks that lie in a front part of a file, and what is left there   *)
(* of the next one.                                                        *)
LEMMA ChainFront ==
  ASSUME NEW image \in Seq(Cell), NEW d \in Seq(Cell), \A i \in 1 .. Len(d) : image[i] = d[i],
         NEW ps \in Seq(Payloads), NEW es \in Seq(Nat), Len(es) = Len(ps) + 1,
         es[1] = 8, Chain(image, es, ps),
         NEW n \in 0 .. Len(ps), es[n + 1] <= Len(d)
  PROVE  /\ Chain(d, SubSeq(es, 1, n + 1), SubSeq(ps, 1, n))
         /\ n < Len(ps) /\ es[n + 2] > Len(d) => CutOff(d, es[n + 1])
<1> DEFINE l == Len(ps)
           fs == SubSeq(es, 1, n + 1)
           qs == SubSeq(ps, 1, n)
<1>1. l \in Nat /\ Len(es) = l + 1 /\ n \in Nat /\ n <= l /\ Len(d) \in Nat
  OBVIOUS
<1>2. \A i \in 1 .. l + 1 : es[i] \in Nat
  BY <1>1
<1>3. Len(qs) = n /\ \A i \in 1 .. n : qs[i] = ps[i]
  <2>1. /\ Len(qs) = n - 1 + 1 /\ \A i \in 1 .. n - 1 + 1 : qs[i] = ps[1 + i - 1]
    <3>1. n <= Len(ps) /\ 1 <= n + 1
      BY <1>1
    <3> QED BY <1>1, <3>1, SubSeqParts
  <2> HIDE DEF qs
  <2> QED BY <1>1, <2>1
<1>4. Len(fs) = n + 1 /\ \A i \in 1 .. n + 1 : fs[i] = es[i]
  <2> DEFINE m == n + 1
  <2>1. m \in Nat /\ m <= Len(es) /\ 1 <= m + 1
    BY <1>1
  <2> HIDE DEF m
  <2> DEFINE gs == SubSeq(es, 1, m)
  <2>2. /\ Len(gs) = m - 1 + 1 /\ \A i \in 1 .. m - 1 + 1 : gs[i] = es[1 + i - 1]
    BY <2>1, SubSeqParts
  <2> HIDE DEF gs
  <2>3. Len(gs) = m /\ \A i \in 1 .. m : gs[i] = es[i]
    BY <2>1, <2>2
  <2> QED BY <2>3 DEF gs, m
<1>5. /\ Lies(Preamble, image, 0)
      /\ \A i \in 1 .. l : \E y : Sent(y, ps[i]) /\ es[i + 1] = es[i] + Len(y)
                                  /\ Lies(y, image, es[i])
      /\ \A i, j \in 1 .. l + 1 : i <= j => es[i] <= es[j]
  BY <1>1 DEF Chain
<1> HIDE DEF l, fs, qs
<1>6. \A i \in 1 .. n + 1 : i \in 1 .. l + 1 /\ es[i] <= Len(d)
  <2>1. n + 1 \in 1 .. l + 1 /\ \A i \in 1 .. n + 1 : i \in 1 .. l + 1 /\ i <= n + 1
    BY <1>1
  <2>2. \A i \in 1 .. n + 1 : es[i] <= es[n + 1]
    BY <1>5, <2>1
  <2> QED BY <1>1, <1>2, <2>1, <2>2, SMTT(30)
<1>7. Lies(Preamble, d, 0)
  <2>1. Preamble \in Seq(Cell) /\ Len(Preamble) = 8
    BY PreambleCells
  <2>2. 1 \in 1 .. n + 1
    BY <1>1
  <2>3. 0 + Len(Preamble) <= Len(d)
    BY <1>6, <2>1, <2>2
  <2> QED BY <1>5, <2>1, <2>3, LiesShorter
<1>8. ASSUME NEW i \in 1 .. n
      PROVE  \E y : Sent(y, qs[i]) /\ fs[i + 1] = fs[i] + Len(y) /\ Lies(y, d, fs[i])
  <2>1. i \in 1 .. l /\ i \in 1 .. n + 1 /\ i + 1 \in 1 .. n + 1
    BY <1>1
  <2>2. PICK y : Sent(y, ps[i]) /\ es[i + 1] = es[i] + Len(y) /\ Lies(y, image, es[i])
    BY <1>5, <2>1
  <2>3. fs[i] = es[i] /\ fs[i + 1] = es[i + 1] /\ qs[i] = ps[i]
    BY <1>3, <1>4, <2>1
  <2>4. es[i] \in Nat /\ es[i + 1] <= Len(d)
    BY <1>2, <1>6, <2>1
  <2>5. y \in Seq(Cell)
    BY <2>2 DEF Sent
  <2>6. es[i] + Len(y) <= Len(d)
    BY <2>2, <2>4
  <2>7. Lies(y, d, es[i])
    BY <2>2, <2>4, <2>5, <2>6, LiesShorter
  <2> QED BY <2>2, <2>3, <2>7
<1>9. \A i, j \in 1 .. n + 1 : i <= j => fs[i] <= fs[j]
  BY <1>4, <1>5, <1>6
<1>10. Chain(d, fs, qs)
  BY <1>3, <1>4, <1>7, <1>8, <1>9 DEF Chain
<1>11. ASSUME n < l, es[n + 2] > Len(d) PROVE CutOff(d, es[n + 1])
  <2>1. n + 1 \in 1 .. l /\ n + 1 \in 1 .. l + 1 /\ (n + 1) + 1 = n + 2
    BY <1>1, <1>11
  <2>2. PICK y : /\ Sent(y, ps[n + 1]) /\ es[(n + 1) + 1] = es[n + 1] + Len(y)
                 /\ Lies(y, image, es[n + 1])
    BY <1>5, <2>1
  <2> DEFINE e == es[n + 1]
  <2>3. e \in Nat /\ Len(d) < e + Len(y)
    BY <1>2, <1>11, <2>1, <2>2
  <2>4. Len(y) \in Nat /\ \A k \in 1 .. Len(y) : image[e + k] = y[k]
    BY <2>2, SMTT(30) DEF Lies, Sent
  <2>5. e <= Len(d)
    OBVIOUS
  <2> HIDE DEF e
  <2>6. \A k \in 1 .. Len(d) - e : k \in 1 .. Len(y) /\ e + k \in 1 .. Len(d)
    BY <1>1, <2>3, <2>4, <2>5, SMTT(30)
  <2>7. \A k \in 1 .. Len(d) - e : d[e + k] = y[k]
    BY <2>4, <2>6
  <2> QED BY <2>2, <2>3, <2>5, <2>7 DEF CutOff, e
<1> QED BY <1>10, <1>11 DEF fs, qs, l

(* Cells that go from the buffer of the writer to the disk.                *)
LEMMA DiskGrows ==
  ASSUME IInv, IInv', Own, Laid' = Laid, Len(disk) <= Len(disk'), writer' \in {writer, "closed"},
         UNCHANGED <<log, ends, cursor, passed, lost>>
  PROVE  Origin'
<1>1. Len(disk) \in Nat /\ Len(disk') \in Nat /\ cursor \in Nat
  <2>1. disk' \in Seq(Cell)
    BY DEF IInv, File
  <2> QED BY <2>1, FileParts
<1>2. lost = "no" => Placed'
  BY <1>1 DEF Own, Placed
<1>3. Own'
  BY <1>2 DEF Own
<1> QED BY <1>3 DEF Origin

LEMMA WriteOrigin ==
  ASSUME IInv, IInv', Origin,
         NEW e, Epb(e), e.total \in 0 .. MaxTotal, e.data \in Payloads, WriteBlock(e)
  PROVE  Origin'
<1> DEFINE x == Image(e)
<1>1. /\ writer = "open" /\ writer' = "open" /\ disk' = disk /\ wbuf' = wbuf \o x
      /\ log' = Append(log, e.data) /\ ends' = Append(ends, Last(ends) + e.total)
      /\ UNCHANGED <<cursor, passed, lost>>
  BY DEF WriteBlock, Fwrite, readVars
<1>2. Sent(x, e.data) /\ Len(x) = e.total
  BY SentImage DEF WriteBlock
<1> HIDE DEF x
<1>3. Own
  BY <1>1, OwnWhenOpen
<1>4. /\ disk \in Seq(Cell) /\ wbuf \in Seq(Cell) /\ Laid \in Seq(Cell)
      /\ log \in Seq(Payloads) /\ Len(log) \in Nat
      /\ ends \in Seq(Nat) /\ Len(ends) = Len(log) + 1
      /\ passed \in Nat /\ ends[Len(ends)] = Len(Laid)
  BY <1>1, FileParts
<1>5. x \in Seq(Cell) /\ Len(x) \in Nat
  BY <1>2 DEF Sent
<1>6. Laid' = Laid \o x
  <2>1. (disk \o wbuf) \o x = disk \o (wbuf \o x)
    <3>1. disk \in Seq(Cell) /\ wbuf \in Seq(Cell) /\ x \in Seq(Cell)
      BY <1>4, <1>5
    <3> QED BY <3>1, Reassociate, SMTT(30)
  <2> QED BY <1>1, <2>1 DEF Laid
<1>7. ends' = Append(ends, Len(Laid) + Len(x))
  BY <1>1, <1>2, <1>4 DEF Last
<1>8. Chain(Laid, ends, log)
  BY <1>3 DEF Own
<1> DEFINE s == Laid
           end == Len(s) + Len(x)
<1>9. s \in Seq(Cell) /\ Len(s) \in Nat
  BY <1>4
<1> HIDE DEF s
<1>10. Chain(s \o x, Append(ends, Len(s) + Len(x)), Append(log, e.data))
  BY <1>2, <1>4, <1>8, <1>9, ChainMore DEF s
<1>11. Chain(Laid', ends', log')
  BY <1>1, <1>6, <1>7, <1>10 DEF s
<1>12. Len(s \o x) = end /\ end \in Nat
  BY <1>5, <1>9, ConcatParts
<1> HIDE DEF end
<1>13. /\ Len(ends') = Len(ends) + 1 /\ ends'[Len(ends) + 1] = end
       /\ \A i \in 1 .. Len(ends) : ends'[i] = ends[i]
  <2>1. ends' = Append(ends, end)
    BY <1>7 DEF end, s
  <2> QED BY <1>4, <1>12, <2>1, AppendParts
<1>14. ends'[Len(ends')] = Len(Laid')
  BY <1>6, <1>12, <1>13 DEF s
<1>15. ends'[1] = 8
  <2>1. 1 \in 1 .. Len(ends) /\ ends[1] = 8
    BY <1>3, <1>4 DEF Own
  <2> QED BY <1>13, <2>1
<1>16. lost' = "no" => Placed'
  <2> SUFFICES ASSUME lost' = "no" PROVE Placed'
    OBVIOUS
  <2>1. Placed
    BY <1>1, <1>3 DEF Own
  <2>2. cursor' <= Len(disk') /\ cursor' = cursor /\ passed' = passed
    BY <1>1, <2>1 DEF Placed
  <2>3. CASE passed = 0 /\ cursor \in {0, 4}
    BY <2>2, <2>3 DEF Placed
  <2>4. CASE passed <= Len(log) /\ cursor = ends[passed + 1]
    <3>1. Len(log') = Len(log) + 1
      BY <1>1, <1>4, AppendParts
    <3>2. passed + 1 \in 1 .. Len(ends)
      BY <1>4, <2>4
    <3>3. passed' <= Len(log') /\ cursor' = ends'[passed' + 1]
      BY <1>4, <1>13, <2>2, <2>4, <3>1, <3>2
    <3> QED BY <2>2, <3>3 DEF Placed
  <2> QED BY <2>1, <2>3, <2>4 DEF Placed
<1>17. Own'
  BY <1>11, <1>14, <1>15, <1>16 DEF Own
<1> QED BY <1>17 DEF Origin

LEMMA FlushOrigin == ASSUME IInv, IInv', Origin, FlushSome PROVE Origin'
<1>1. PICK n \in 1 .. Len(wbuf) :
        disk' = disk \o SubSeq(wbuf, 1, n) /\ wbuf' = SubSeq(wbuf, n + 1, Len(wbuf))
  BY DEF FlushSome, Flush
<1>2. writer = "open" /\ writer' = writer /\ UNCHANGED <<log, ends, cursor, passed, lost>>
  BY DEF FlushSome, Flush, readVars, history
<1>3. disk \in Seq(Cell) /\ wbuf \in Seq(Cell) /\ Len(wbuf) \in Nat /\ Len(disk) \in Nat
  BY FileParts
<1> DEFINE s == SubSeq(wbuf, 1, n)
           t == SubSeq(wbuf, n + 1, Len(wbuf))
<1>4. s \in Seq(Cell) /\ t \in Seq(Cell)
  <2>1. n \in Nat /\ n <= Len(wbuf) /\ 1 <= n + 1 /\ n + 1 \in Nat \ {0}
        /\ n + 1 <= Len(wbuf) + 1
    BY <1>3
  <2>2. s \in Seq(Cell)
    BY <1>3, <2>1, SubSeqParts
  <2>3. t \in Seq(Cell)
    BY <1>3, <2>1, SubSeqParts
  <2> QED BY <2>2, <2>3
<1>5. s \o t = wbuf
  <2>1. 1 \in 1 .. Len(wbuf) + 1 /\ n \in 1 - 1 .. Len(wbuf) /\ Len(wbuf) \in n .. Len(wbuf)
    BY <1>3
  <2>2. SubSeq(wbuf, 1, n) \o SubSeq(wbuf, n + 1, Len(wbuf)) = SubSeq(wbuf, 1, Len(wbuf))
    BY <1>3, <2>1, ConcatAdjacentSubSeq
  <2>3. SubSeq(wbuf, 1, Len(wbuf)) = wbuf
    BY <1>3
  <2> QED BY <2>2, <2>3
<1> HIDE DEF s, t
<1>6. disk' = disk \o s /\ wbuf' = t
  BY <1>1 DEF s, t
<1>7. Laid' = Laid
  <2>1. (disk \o s) \o t = disk \o (s \o t)
    <3>1. disk \in Seq(Cell) /\ s \in Seq(Cell) /\ t \in Seq(Cell)
      BY <1>3, <1>4
    <3> QED BY <3>1, Reassociate, SMTT(30)
  <2> QED BY <1>5, <1>6, <2>1 DEF Laid
<1>8. Len(disk) <= Len(disk')
  <2>1. Len(disk') = Len(disk) + Len(s) /\ Len(s) \in Nat
    BY <1>3, <1>4, <1>6, ConcatParts
  <2> QED BY <1>3, <2>1
<1> QED BY <1>2, <1>7, <1>8, OwnWhenOpen, DiskGrows

LEMMA CloseWriteOrigin == ASSUME IInv, IInv', Origin, CloseWrite PROVE Origin'
<1>1. /\ writer = "open" /\ writer' = "closed" /\ disk' = disk \o wbuf /\ wbuf' = <<>>
      /\ UNCHANGED <<log, ends, cursor, passed, lost>>
  BY DEF CloseWrite, CloseWriting, readVars, history
<1>2. Laid \in Seq(Cell) /\ Len(Laid) = Len(disk) + Len(wbuf)
      /\ Len(disk) \in Nat /\ Len(wbuf) \in Nat
  BY FileParts
<1>3. disk' = Laid
  BY <1>1 DEF Laid
<1>4. Laid' = Laid
  <2>1. Laid \o <<>> = Laid
    BY <1>2
  <2> QED BY <1>1, <1>3, <2>1 DEF Laid
<1>5. Len(disk) <= Len(disk')
  BY <1>2, <1>3
<1> QED BY <1>1, <1>4, <1>5, OwnWhenOpen, DiskGrows

(* A crash leaves the reader's place, and the packets before it.           *)
LEMMA CrashOrigin ==
  ASSUME IInv, IInv', Origin, Crash
  PROVE  /\ Origin'
         /\ InStep => \E n \in passed .. Len(log) : log' = SubSeq(log, 1, n)
<1>1. /\ writer = "open" /\ writer' = "closed" /\ disk' = disk /\ wbuf' = <<>>
      /\ UNCHANGED <<cursor, passed, lost>>
  BY DEF Crash, CrashWriting, readVars
<1>2. Own
  BY <1>1, OwnWhenOpen
<1>3. /\ disk \in Seq(Cell) /\ Len(disk) \in Nat /\ Len(wbuf) \in Nat
      /\ Laid \in Seq(Cell) /\ Len(Laid) = Len(disk) + Len(wbuf)
      /\ \A i \in 1 .. Len(disk) : Laid[i] = disk[i]
  BY FileParts
<1>4. /\ log \in Seq(Payloads) /\ Len(log) \in Nat
      /\ ends \in Seq(Nat) /\ Len(ends) = Len(log) + 1
      /\ cursor \in Nat /\ passed \in Nat /\ ends[Len(ends)] = Len(Laid)
  BY <1>1, FileParts
<1>5. ends[1] = 8 /\ Chain(Laid, ends, log)
  BY <1>2 DEF Own
<1>6. \A i \in 1 .. Len(ends) : ends[i] \in Nat /\ ends[i] >= 8
  <2>1. 1 \in 1 .. Len(ends)
    BY <1>4
  <2>2. \A i \in 1 .. Len(ends) : ends[1] <= ends[i]
    BY <2>1, <1>4, <1>5 DEF Chain
  <2> QED BY <1>4, <1>5, <2>2
<1>7. lost = "no" => Placed
  BY <1>2 DEF Own
<1>8. Laid' = disk
  BY <1>1, <1>3 DEF Laid
<1>9. CASE ends[1] > Len(disk)
  <2>1. log' = <<>> /\ ends' = <<0>>
    BY <1>9 DEF Crash
  <2>2. lost = "no" => passed = 0 /\ cursor \in {0, 4}
    <3> SUFFICES ASSUME lost = "no" PROVE passed = 0 /\ cursor \in {0, 4}
      OBVIOUS
    <3>1. Placed
      BY <1>7
    <3>2. ~(passed <= Len(log) /\ cursor = ends[passed + 1])
      <4> SUFFICES ASSUME passed <= Len(log), cursor = ends[passed + 1] PROVE FALSE
        OBVIOUS
      <4>1. passed + 1 \in 1 .. Len(ends)
        BY <1>4
      <4>2. cursor >= 8
        BY <1>6, <4>1
      <4> QED BY <1>3, <1>4, <1>5, <1>9, <3>1, <4>2 DEF Placed
    <3> QED BY <3>1, <3>2 DEF Placed
  <2>3. \A k \in 1 .. Len(disk) : disk[k] = Preamble[k]
    <3>1. Lies(Preamble, Laid, 0) /\ Len(Preamble) = 8
      BY <1>5, PreambleCells DEF Chain
    <3>2. \A k \in 1 .. 8 : Laid[0 + k] = Preamble[k]
      BY <3>1 DEF Lies
    <3>3. \A k \in 1 .. Len(disk) : k \in 1 .. 8 /\ 0 + k = k
      BY <1>3, <1>5, <1>9
    <3> QED BY <1>3, <3>2, <3>3
  <2>4. Len(disk) < 8
    BY <1>3, <1>5, <1>9
  <2>5. Torn'
    BY <1>1, <2>1, <2>2, <2>3, <2>4 DEF Torn
  <2>6. ASSUME InStep PROVE \E n \in passed .. Len(log) : log' = SubSeq(log, 1, n)
    <3>1. passed = 0
      BY <2>2, <2>6 DEF InStep
    <3>2. 0 \in passed .. Len(log) /\ SubSeq(log, 1, 0) = <<>>
      BY <1>4, <3>1
    <3> QED BY <2>1, <3>2
  <2> QED BY <2>5, <2>6 DEF Origin
<1>10. CASE ~(ends[1] > Len(disk))
  <2>1. PICK n \in 0 .. Len(log) :
          /\ ends[n + 1] <= Len(disk) /\ (n < Len(log) => ends[n + 2] > Len(disk))
          /\ log' = SubSeq(log, 1, n) /\ ends' = SubSeq(ends, 1, n + 1)
    BY <1>10 DEF Crash
  <2>2. n \in Nat /\ n <= Len(log) /\ n + 1 \in 1 .. Len(ends)
    BY <1>4
  <2>3. Len(log') = n
    <3>1. Len(log') = n - 1 + 1
      BY <1>4, <2>1, <2>2, SubSeqParts
    <3> QED BY <2>2, <3>1
  <2>4. Len(ends') = n + 1 /\ \A i \in 1 .. n + 1 : ends'[i] = ends[i]
    <3> DEFINE m == n + 1
    <3>1. m \in Nat /\ m <= Len(ends) /\ 1 <= m + 1 /\ ends' = SubSeq(ends, 1, m)
      BY <1>4, <2>1, <2>2
    <3> HIDE DEF m
    <3>2. Len(ends') = m - 1 + 1 /\ \A i \in 1 .. m - 1 + 1 : ends'[i] = ends[1 + i - 1]
      BY <1>4, <3>1, SubSeqParts
    <3>3. Len(ends') = m /\ \A i \in 1 .. m : ends'[i] = ends[i]
      BY <3>1, <3>2
    <3> QED BY <3>3 DEF m
  <2>5. /\ Chain(disk, ends', log')
        /\ n < Len(log) /\ ends[n + 2] > Len(disk) => CutOff(disk, ends[n + 1])
    BY <1>3, <1>4, <1>5, <2>1, ChainFront
  <2>6. Chain(Laid', ends', log') /\ ends'[1] = 8 /\ ends'[Len(ends')] = ends[n + 1]
    BY <1>5, <1>8, <2>2, <2>4, <2>5
  <2>7. \/ ends[n + 1] = Len(disk)
        \/ CutOff(disk, ends[n + 1])
    <3>1. CASE n < Len(log)
      BY <2>1, <2>5, <3>1
    <3>2. CASE ~(n < Len(log))
      <4>1. n + 1 = Len(ends)
        BY <1>4, <2>2, <3>2
      <4>2. ends[n + 1] = Len(disk) + Len(wbuf)
        BY <1>3, <1>4, <4>1
      <4> QED BY <1>3, <2>1, <4>2
    <3> QED BY <3>1, <3>2
  <2>8. ASSUME lost = "no" PROVE passed <= n /\ Placed'
    <3>1. Placed
      BY <1>7, <2>8
    <3>2. CASE passed = 0 /\ cursor \in {0, 4}
      BY <1>1, <2>2, <3>1, <3>2 DEF Placed
    <3>3. CASE passed <= Len(log) /\ cursor = ends[passed + 1]
      <4>1. passed <= n
        <5> SUFFICES ASSUME passed > n PROVE FALSE
          BY <1>4, <2>2
        <5>1. n < Len(log) /\ n + 2 \in 1 .. Len(ends) /\ passed + 1 \in 1 .. Len(ends)
              /\ n + 2 <= passed + 1
          BY <1>4, <2>2, <3>3
        <5>2. ends[n + 2] <= ends[passed + 1]
          BY <1>5, <5>1 DEF Chain
        <5>3. ends[n + 2] > Len(disk) /\ cursor <= Len(disk)
          BY <2>1, <3>1, <5>1 DEF Placed
        <5> QED BY <1>3, <1>6, <3>3, <5>1, <5>2, <5>3, SMTT(30)
      <4>2. passed + 1 \in 1 .. n + 1
        BY <1>4, <2>2, <4>1
      <4>3. cursor' = ends'[passed' + 1] /\ passed' <= Len(log') /\ cursor' <= Len(disk')
        BY <1>1, <2>3, <2>4, <3>1, <3>3, <4>1, <4>2 DEF Placed
      <4> QED BY <4>1, <4>3 DEF Placed
    <3> QED BY <3>1, <3>2, <3>3 DEF Placed
  <2>9. Own'
    <3>1. lost' = "no" => Placed'
      BY <1>1, <2>8
    <3>2. \/ ends'[Len(ends')] = Len(Laid')
          \/ writer' = "closed" /\ CutOff(Laid', ends'[Len(ends')])
      BY <1>1, <1>8, <2>6, <2>7
    <3> QED BY <2>6, <3>1, <3>2 DEF Own
  <2>10. ASSUME InStep PROVE \E k \in passed .. Len(log) : log' = SubSeq(log, 1, k)
    <3>1. passed <= n
      BY <2>8, <2>10 DEF InStep
    <3>2. n \in passed .. Len(log)
      BY <1>4, <2>2, <3>1
    <3> QED BY <2>1, <3>2
  <2> QED BY <2>9, <2>10 DEF Origin
<1> QED BY <1>9, <1>10

(* The block that the reader finds in each kind of file.                   *)
LEMMA BlockLies ==
  ASSUME IInv, BlockHere
  PROVE  /\ Total \in Nat /\ Total > 0 /\ Total \in 4 .. TmpSize
         /\ cursor + 2 <= Len(disk) /\ cursor + Total <= Len(disk)
         /\ lost = "no" /\ Here[1] = disk[cursor + 1]
<1>1. /\ cursor + 2 <= Len(disk) /\ cursor + Total <= Len(disk)
      /\ Total \in 4 .. TmpSize /\ lost = "no"
  BY DEF BlockHere, HeadHere, CanRead, Turn, InStep
<1>2. Total \in Nat /\ Total > 0
  <2>1. Total \in Nat /\ TmpSize \in Nat
    BY HereIs, PcapngAssumption
  <2> QED BY <1>1, <2>1
<1>3. cursor \in Nat /\ disk \in Seq(Cell) /\ Len(disk) \in Nat
  BY FileParts
<1> DEFINE n == Total
<1> HIDE DEF n
<1>4. n \in Nat /\ n > 0 /\ cursor + n <= Len(disk)
  BY <1>1, <1>2 DEF n
<1>5. SubSeq(disk, cursor + 1, cursor + n)[1] = disk[cursor + 1]
  <2>1. cursor + 1 \in Nat \ {0} /\ cursor + n \in Nat /\ cursor + 1 <= (cursor + n) + 1
        /\ (cursor + n) - (cursor + 1) + 1 = n /\ 1 \in 1 .. n /\ (cursor + 1) + 1 - 1 = cursor + 1
    BY <1>3, <1>4
  <2> DEFINE h == SubSeq(disk, cursor + 1, cursor + n)
  <2>2. \A i \in 1 .. (cursor + n) - (cursor + 1) + 1 : h[i] = disk[(cursor + 1) + i - 1]
    BY <1>3, <1>4, <2>1, SubSeqParts
  <2> HIDE DEF h
  <2>3. h[1] = disk[(cursor + 1) + 1 - 1]
    BY <2>1, <2>2
  <2> QED BY <2>1, <2>3 DEF h
<1> QED BY <1>1, <1>2, <1>5 DEF Here, n

LEMMA PlaceOwn ==
  ASSUME IInv, Own, BlockHere
  PROVE  /\ ~Readable(EPB, Here) => passed = 0 /\ cursor + Total \in {4, 8}
         /\ Readable(EPB, Here) =>
              /\ passed < Len(log)
              /\ BlockIn(EPB, Here).data = log[passed + 1]
              /\ BlockIn(EPB, Here).packet = BlockIn(EPB, Here).capture
              /\ cursor + Total = ends[passed + 2]
<1>1. /\ Total \in Nat /\ Total > 0 /\ cursor + 2 <= Len(disk) /\ cursor + Total <= Len(disk)
      /\ lost = "no" /\ Here[1] = disk[cursor + 1]
  BY BlockLies
<1>2. /\ disk \in Seq(Cell) /\ Len(disk) \in Nat /\ Len(wbuf) \in Nat
      /\ Laid \in Seq(Cell) /\ Len(Laid) = Len(disk) + Len(wbuf)
      /\ \A i \in 1 .. Len(disk) : Laid[i] = disk[i]
  BY FileParts
<1>3. /\ Len(log) \in Nat /\ ends \in Seq(Nat) /\ Len(ends) = Len(log) + 1
      /\ cursor \in Nat /\ passed \in Nat
  BY FileParts
<1>4. Placed /\ Chain(Laid, ends, log)
  BY <1>1 DEF Own
<1>5. CASE passed = 0 /\ cursor \in {0, 4}
  <2>1. Lies(Preamble, Laid, 0) /\ Len(Preamble) = 8
    BY <1>4, PreambleCells DEF Chain
  <2>2. \A k \in 1 .. 8 : Laid[0 + k] = Preamble[k]
    BY <2>1 DEF Lies
  <2>3. /\ cursor + 1 \in 1 .. 8 /\ cursor + 2 \in 1 .. 8
        /\ cursor + 1 \in 1 .. Len(disk) /\ cursor + 2 \in 1 .. Len(disk)
        /\ 0 + (cursor + 1) = cursor + 1 /\ 0 + (cursor + 2) = cursor + 2
    BY <1>1, <1>2, <1>3, <1>5
  <2>4. Here[1] = Preamble[cursor + 1] /\ Total = Preamble[cursor + 2]
    BY <1>1, <1>2, <2>2, <2>3 DEF Total
  <2>5. \/ cursor = 0 /\ Here[1] = Preamble[1] /\ Total = Preamble[2]
        \/ cursor = 4 /\ Here[1] = Preamble[5] /\ Total = Preamble[6]
    BY <1>5, <2>4
  <2>6. Here[1] \in {SHB, IDB} /\ Total = 4
    BY <2>5, PreambleWords
  <2>7. ~Readable(EPB, Here)
    BY <2>6, BlockAssumption DEF Readable
  <2> QED BY <1>5, <2>6, <2>7
<1>6. CASE passed <= Len(log) /\ cursor = ends[passed + 1]
  <2>1. CASE passed = Len(log)
    <3>1. cursor = ends[Len(ends)]
      BY <1>3, <1>6, <2>1
    <3>2. cursor # Len(Laid)
      BY <1>1, <1>2, <1>3
    <3>3. CutOff(Laid, cursor)
      BY <3>1, <3>2 DEF Own
    <3>4. PICK x, p : /\ Sent(x, p) /\ Len(Laid) < cursor + Len(x)
                      /\ \A k \in 1 .. Len(Laid) - cursor : Laid[cursor + k] = x[k]
      BY <3>3 DEF CutOff
    <3>5. 2 \in 1 .. Len(Laid) - cursor /\ cursor + 2 \in 1 .. Len(disk)
      BY <1>1, <1>2, <1>3
    <3>6. Total = x[2]
      BY <1>2, <3>4, <3>5 DEF Total
    <3>7. x[2] = Len(x) /\ Len(x) \in Nat
      BY <3>4 DEF Sent
    <3> QED BY <1>1, <1>2, <1>3, <3>4, <3>6, <3>7
  <2>2. CASE passed # Len(log)
    <3>1. passed < Len(log) /\ passed + 1 \in 1 .. Len(log) /\ (passed + 1) + 1 = passed + 2
      BY <1>3, <1>6, <2>2
    <3>2. PICK x : /\ Sent(x, log[passed + 1]) /\ ends[passed + 2] = ends[passed + 1] + Len(x)
                   /\ Lies(x, Laid, ends[passed + 1])
      BY <1>4, <3>1 DEF Chain
    <3>3. /\ x \in Seq(Cell) /\ Len(x) \in Nat /\ Len(x) >= 4 /\ x[2] = Len(x)
          /\ Readable(EPB, x) /\ BlockIn(EPB, x).data = log[passed + 1]
          /\ BlockIn(EPB, x).packet = BlockIn(EPB, x).capture
      BY <3>2 DEF Sent
    <3>4. Lies(x, Laid, cursor)
      BY <1>6, <3>2
    <3>5. Total = Len(x)
      <4>1. 2 \in 1 .. Len(x) /\ cursor + 2 \in 1 .. Len(disk)
        BY <1>1, <1>2, <1>3, <3>3
      <4>2. Laid[cursor + 2] = x[2]
        BY <3>4, <4>1 DEF Lies
      <4> QED BY <1>2, <3>3, <4>1, <4>2 DEF Total
    <3>6. Lies(x, disk, cursor)
      <4>1. cursor + Len(x) <= Len(disk)
        BY <1>1, <3>5
      <4> QED BY <1>2, <1>3, <3>3, <3>4, <4>1, LiesShorter
    <3>7. SubSeq(disk, cursor + 1, cursor + Len(x)) = x
      BY <1>2, <1>3, <3>3, <3>6, LiesCut
    <3>8. Here = x
      BY <3>5, <3>7 DEF Here
    <3>9. cursor + Total = ends[passed + 2]
      BY <1>6, <3>2, <3>5
    <3> QED BY <3>1, <3>3, <3>8, <3>9
  <2> QED BY <2>1, <2>2
<1> QED BY <1>4, <1>5, <1>6 DEF Placed

LEMMA PlaceTorn ==
  ASSUME IInv, Torn, BlockHere
  PROVE  /\ ~Readable(EPB, Here)
         /\ passed = 0 /\ cursor + Total = 4
<1>1. /\ Total \in Nat /\ cursor + 2 <= Len(disk) /\ cursor + Total <= Len(disk)
      /\ lost = "no" /\ Here[1] = disk[cursor + 1]
  BY BlockLies
<1>2. /\ Len(disk) \in Nat /\ Len(disk) < 8 /\ passed = 0 /\ cursor \in {0, 4}
      /\ \A k \in 1 .. Len(disk) : disk[k] = Preamble[k]
  BY <1>1, FileParts DEF Torn
<1>3. cursor + 1 \in 1 .. Len(disk) /\ cursor + 2 \in 1 .. Len(disk)
  BY <1>1, <1>2
<1>4. Here[1] = Preamble[cursor + 1] /\ Total = Preamble[cursor + 2]
  BY <1>1, <1>2, <1>3 DEF Total
<1>5. CASE cursor = 0
  <2>1. Here[1] = SHB /\ Total = 4
    BY <1>4, <1>5, PreambleWords
  <2>2. ~Readable(EPB, Here)
    BY <2>1, BlockAssumption DEF Readable
  <2> QED BY <1>2, <1>5, <2>1, <2>2
<1>6. CASE cursor = 4
  <2>1. Total = 4
    BY <1>4, <1>6, PreambleWords
  <2> QED BY <1>1, <1>2, <1>6, <2>1
<1> QED BY <1>2, <1>5, <1>6

LEMMA PlaceForeign ==
  ASSUME IInv, NEW f \in Files, Foreign(f), BlockHere
  PROVE  /\ cursor + Total \in DOMAIN f.before
         /\ ~Readable(EPB, Here) => f.before[cursor + Total] = passed
         /\ Readable(EPB, Here) =>
              /\ passed < Len(log)
              /\ BlockIn(EPB, Here).data = log[passed + 1]
              /\ BlockIn(EPB, Here).capture <= BlockIn(EPB, Here).packet
              /\ f.before[cursor + Total] = passed + 1
<1>1. /\ cursor + 2 <= Len(disk) /\ cursor + Total <= Len(disk)
      /\ Total \in 4 .. TmpSize /\ lost = "no"
  BY BlockLies
<1>2. /\ disk = f.disk /\ log = f.log /\ cursor \in DOMAIN f.before
      /\ passed = f.before[cursor]
  BY <1>1 DEF Foreign
<1>3. Total = f.disk[cursor + 2]
      /\ Here = SubSeq(f.disk, cursor + 1, cursor + f.disk[cursor + 2])
  BY <1>2 DEF Total, Here
<1> DEFINE n == f.disk[cursor + 2]
           h == SubSeq(f.disk, cursor + 1, cursor + n)
           k == f.before[cursor]
<1>4. Total = n /\ Here = h
  BY <1>3
<1>5. /\ cursor + 2 <= Len(f.disk) /\ n \in 4 .. TmpSize /\ cursor + n <= Len(f.disk)
  BY <1>1, <1>2, <1>4
<1>6. /\ cursor + n \in DOMAIN f.before
      /\ IF Readable(EPB, h)
         THEN /\ f.before[cursor + n] = k + 1
              /\ k < Len(f.log) /\ BlockIn(EPB, h).data = f.log[k + 1]
              /\ BlockIn(EPB, h).capture <= BlockIn(EPB, h).packet
         ELSE f.before[cursor + n] = k
  BY <1>2, <1>5, FilesAssumption DEF Described
<1> HIDE DEF n, h, k
<1>7. k = passed
  BY <1>2 DEF k
<1> QED BY <1>2, <1>4, <1>6, <1>7

(* What recv() makes of a block, and where it stands then.                 *)
LEMMA PacketHere ==
  ASSUME IInv, Origin, BlockHere, Readable(EPB, Here)
  PROVE  /\ passed < Len(log)
         /\ BlockIn(EPB, Here).data = log[passed + 1]
         /\ BlockIn(EPB, Here).capture <= BlockIn(EPB, Here).packet
         /\ ends[1] > 0 => BlockIn(EPB, Here).packet = BlockIn(EPB, Here).capture
<1>1. CASE Own
  <2>1. BlockIn(EPB, Here).capture \in Nat
    BY HereIs, EpbIn
  <2> QED BY <1>1, <2>1, PlaceOwn
<1>2. CASE Torn
  BY <1>2, PlaceTorn
<1>3. ASSUME NEW f \in Files, Foreign(f)
      PROVE  /\ passed < Len(log)
             /\ BlockIn(EPB, Here).data = log[passed + 1]
             /\ BlockIn(EPB, Here).capture <= BlockIn(EPB, Here).packet
             /\ ends[1] > 0 => BlockIn(EPB, Here).packet = BlockIn(EPB, Here).capture
  <2>1. ends[1] = 0
    BY <1>3 DEF Foreign
  <2> QED BY <1>3, <2>1, PlaceForeign
<1> QED BY <1>1, <1>2, <1>3 DEF Origin

LEMMA BlockOrigin ==
  ASSUME IInv, Origin, BlockHere, UNCHANGED <<disk, wbuf, writer, log, ends>>,
         cursor' = cursor + Total,
         passed' = IF Readable(EPB, Here) THEN passed + 1 ELSE passed
  PROVE  Origin'
<1> DEFINE there == cursor + Total
<1>1. there <= Len(disk) /\ passed \in Nat /\ Len(log) \in Nat
  BY BlockLies, FileParts
<1>2. ASSUME Own PROVE Placed'
  <2>1. CASE Readable(EPB, Here)
    <3>1. passed < Len(log) /\ there = ends[passed + 2]
      BY <1>2, <2>1, PlaceOwn
    <3>2. passed' <= Len(log) /\ passed' + 1 = passed + 2
      BY <1>1, <2>1, <3>1
    <3> QED BY <1>1, <3>1, <3>2 DEF Placed
  <2>2. CASE ~Readable(EPB, Here)
    <3>1. passed = 0 /\ there \in {4, 8}
      BY <1>2, <2>2, PlaceOwn
    <3>2. passed' = 0
      BY <2>2, <3>1
    <3>3. CASE there = 4
      BY <1>1, <3>2, <3>3 DEF Placed
    <3>4. CASE there = 8
      <4>1. ends[0 + 1] = 8
        BY <1>2 DEF Own
      <4>2. 0 <= Len(log)
        BY <1>1
      <4> QED BY <1>1, <3>2, <3>4, <4>1, <4>2 DEF Placed
    <3> QED BY <3>1, <3>3, <3>4
  <2> QED BY <2>1, <2>2
<1>3. ASSUME Torn PROVE passed' = 0 /\ cursor' \in {0, 4}
  BY <1>3, PlaceTorn
<1>4. ASSUME NEW f \in Files, Foreign(f)
      PROVE  cursor' \in DOMAIN f.before /\ passed' = f.before[cursor']
  <2>1. CASE Readable(EPB, Here)
    BY <1>4, <2>1, PlaceForeign
  <2>2. CASE ~Readable(EPB, Here)
    BY <1>4, <2>2, PlaceForeign
  <2> QED BY <2>1, <2>2
<1> QED BY <1>2, <1>3, <1>4, ReaderMoves

LEMMA RecvOnOrigin == ASSUME IInv, Origin, RecvSkip \/ RecvRefuse PROVE Origin'
<1>1. /\ BlockHere /\ cursor' = cursor + Total /\ passed' = passed
      /\ UNCHANGED <<disk, wbuf, writer, log, ends>>
  BY DEF RecvSkip, RecvRefuse, Advance, history
<1>2. ~Readable(EPB, Here)
  <2>1. Here[1] # EPB \/ ~Readable(EPB, Here)
    BY BlockAssumption DEF RecvSkip, RecvRefuse
  <2> QED BY <2>1 DEF Readable
<1> QED BY <1>1, <1>2, BlockOrigin

LEMMA RecvPacketOrigin == ASSUME IInv, Origin, RecvPacket PROVE Origin'
<1>1. /\ BlockHere /\ Readable(EPB, Here) /\ cursor' = cursor + Total /\ passed' = passed + 1
      /\ UNCHANGED <<disk, wbuf, writer, log, ends>>
  BY DEF RecvPacket, Advance
<1> QED BY <1>1, BlockOrigin

LEMMA NextOrigin == ASSUME IInv, IInv', Origin, [Next]_vars PROVE Origin'
<1>1. ASSUME UNCHANGED <<disk, wbuf, writer, log, ends, lost, cursor, passed>> PROVE Origin'
  BY <1>1, ReaderStays
<1>2. ASSUME UNCHANGED <<fileVars, history>> PROVE Origin'
  BY <1>1, <1>2 DEF fileVars, history
<1>3. CASE OpenWrite
  BY <1>3, OpenWriteOrigin
<1>4. CASE WriteBlock(epb)
  <2>1. Epb(epb) /\ epb.total <= MaxTotal /\ epb.data \in Payloads
    BY DEF IInv, Object
  <2>2. epb.total \in 0 .. MaxTotal
    BY <2>1, PcapngAssumption DEF Epb
  <2> QED BY <1>4, <2>1, <2>2, WriteOrigin
<1>5. ASSUME NEW p \in Sends, Send(p) PROVE Origin'
  <2> DEFINE e == SetPacket(NewBlock(EPB), p)
  <2>1. p \in Payloads /\ p \in Seq(Cell)
    BY Packets DEF Payloads
  <2>2. Epb(e) /\ e.data = p /\ e.total \in Nat
    BY <2>1, FreshEpb, FilledEpb
  <2>3. e.total <= MaxTotal /\ MaxTotal \in Nat
    BY PcapngAssumption
  <2>4. WriteBlock(e)
    BY <1>5 DEF Send
  <2> HIDE DEF e
  <2>5. e.total \in 0 .. MaxTotal
    BY <2>2, <2>3
  <2> QED BY <2>1, <2>2, <2>4, <2>5, WriteOrigin
<1>6. CASE FlushSome
  BY <1>6, FlushOrigin
<1>7. CASE CloseWrite
  BY <1>7, CloseWriteOrigin
<1>8. CASE Crash
  BY <1>8, CrashOrigin
<1>9. CASE \/ NewEpb
           \/ \E p \in Fills : FillBlock(p)
           \/ \E o \in Options : AddOption(o)
           \/ \E n \in Buflens : RecvCall(n)
  BY <1>2, <1>9 DEF NewEpb, FillBlock, AddOption, RecvCall
<1>10. CASE OpenRead
  BY <1>10, OpenReadOrigin
<1>11. CASE CloseRead \/ PollEof \/ RecvEof
  BY <1>1, <1>11 DEF CloseRead, CloseReading, PollEof, Eof, RecvEof, history
<1>12. CASE RecvShort \/ RecvOverrun \/ RecvNoBody
  <2>1. UNCHANGED <<disk, wbuf, writer, log, ends>> /\ lost' # "no"
    BY <1>12 DEF RecvShort, ReadShort, RecvOverrun, RecvNoBody, Advance, fileVars
  <2> QED BY <2>1, ReaderStays
<1>13. CASE RecvSkip \/ RecvRefuse
  BY <1>13, RecvOnOrigin
<1>14. CASE RecvPacket
  BY <1>14, RecvPacketOrigin
<1>15. CASE UNCHANGED vars
  BY <1>2, <1>15 DEF vars
<1> QED
  BY <1>3, <1>4, <1>5, <1>6, <1>7, <1>8, <1>9, <1>10, <1>11, <1>12, <1>13, <1>14, <1>15
     DEF Next, Step

(* A reader in step stands between two blocks, and the next packet it can  *)
(* find is the one that follows those it has gone by, whoever wrote the    *)
(* file and whatever a crash left of it.                                   *)
THEOREM InPlace == Spec => []Origin
<1>1. IInv /\ IInv' /\ Origin /\ [Next]_vars => Origin'
  BY NextOrigin
<1> QED BY <1>1, InitOrigin, Inductive, PTL DEF Spec

-------------------------------------------------------------------------------
(* The refinement of PacketLog.                                            *)
Plain(s) == [j \in DOMAIN s |-> [rec |-> s[j].rec, data |-> s[j].data]]

LEMMA PlainMore ==
  ASSUME NEW s \in Seq([rec : Nat, data : Seq(Cell), over : Nat]),
         NEW g \in [rec : Nat, data : Seq(Cell), over : Nat]
  PROVE  Plain(Append(s, g)) = Append(Plain(s), [rec |-> g.rec, data |-> g.data])
<1> DEFINE R == [rec : Nat, data : Seq(Cell)]
           n == Len(s)
           t == Append(s, g)
           last == [rec |-> g.rec, data |-> g.data]
           p == Plain(s)
           q == Plain(t)
<1>1. /\ n \in Nat /\ DOMAIN s = 1 .. n /\ DOMAIN t = 1 .. n + 1
      /\ \A j \in 1 .. n : t[j] = s[j]
      /\ t[n + 1] = g
  OBVIOUS
<1>2. n \in Nat /\ \A j \in 1 .. n : s[j] \in [rec : Nat, data : Seq(Cell), over : Nat]
  <2> DEFINE T == [rec : Nat, data : Seq(Cell), over : Nat]
  <2>1. s \in Seq(T)
    OBVIOUS
  <2> HIDE DEF T
  <2>2. n \in Nat /\ \A j \in 1 .. n : s[j] \in T
    BY <2>1
  <2> QED BY <2>2 DEF T
<1>3. /\ p = [j \in 1 .. n |-> [rec |-> s[j].rec, data |-> s[j].data]]
      /\ q = [j \in 1 .. n + 1 |-> [rec |-> t[j].rec, data |-> t[j].data]]
  BY <1>1 DEF Plain
<1>4. last \in R
  OBVIOUS
<1> HIDE DEF n, t, last
<1>5. p \in Seq(R) /\ Len(p) = n
  <2>1. \A j \in 1 .. n : [rec |-> s[j].rec, data |-> s[j].data] \in R
    BY <1>2
  <2> HIDE DEF R
  <2> QED BY <1>1, <1>3, <2>1, SMTT(30)
<1>6. q \in Seq(R) /\ Len(q) = n + 1
  <2>1. n + 1 \in Nat
    BY <1>1
  <2>2. \A j \in 1 .. n + 1 : [rec |-> t[j].rec, data |-> t[j].data] \in R
    <3>1. \A j \in 1 .. n + 1 : t[j] \in [rec : Nat, data : Seq(Cell), over : Nat]
      BY <1>1, <1>2
    <3> QED BY <3>1
  <2> HIDE DEF R
  <2> QED BY <1>3, <2>1, <2>2
<1>7. /\ Append(p, last) \in Seq(R) /\ Len(Append(p, last)) = n + 1
      /\ \A j \in 1 .. n : Append(p, last)[j] = p[j]
      /\ Append(p, last)[n + 1] = last
  <2> HIDE DEF p, R
  <2> QED BY <1>4, <1>5, AppendParts
<1>8. \A j \in 1 .. n + 1 : q[j] = Append(p, last)[j]
  <2>1. ASSUME NEW j \in 1 .. n PROVE q[j] = Append(p, last)[j]
    <3>1. j \in 1 .. n + 1 /\ t[j] = s[j]
      <4>1. j \in 1 .. n + 1
        BY <1>2
      <4> QED BY <1>1, <4>1
    <3>2. q[j] = [rec |-> s[j].rec, data |-> s[j].data]
      BY <1>3, <3>1
    <3>3. p[j] = [rec |-> s[j].rec, data |-> s[j].data]
      BY <1>3
    <3> QED BY <1>7, <3>2, <3>3
  <2>2. q[n + 1] = last
    <3>1. n + 1 \in 1 .. n + 1
      BY <1>1
    <3> QED BY <1>1, <1>3, <3>1 DEF last
  <2>3. \A j \in 1 .. n + 1 : j \in 1 .. n \/ j = n + 1
    BY <1>1
  <2> QED BY <1>7, <2>1, <2>2, <2>3
<1> HIDE DEF p, q
<1>9. q = Append(p, last)
  <2> DEFINE r == Append(p, last)
  <2>1. r \in Seq(R) /\ Len(r) = n + 1 /\ \A j \in 1 .. n + 1 : q[j] = r[j]
    BY <1>7, <1>8
  <2> HIDE DEF r, R
  <2>2. q = r
    BY <1>6, <2>1, SameSeq
  <2> QED BY <2>2 DEF r
<1> QED BY <1>9 DEF p, q, t, last

(* recv() returns a front part of the next packet, all of it if the buffer *)
(* is large enough, and no more unless another program cut the packet.     *)
LEMMA GotPacket ==
  ASSUME IInv, Origin, RecvPacket
  PROVE  \E n \in 0 .. Len(log[passed + 1]), over \in Nat :
           /\ passed + 1 \in 1 .. Len(log)
           /\ log[passed + 1] \in Seq(Cell)
           /\ n = IF want < Len(log[passed + 1]) THEN want ELSE Len(log[passed + 1])
           /\ ends[1] > 0 => over = 0
           /\ recvd' = Append(recvd, [rec  |-> passed + 1,
                                      data |-> SubSeq(log[passed + 1], 1, n), over |-> over])
<1> DEFINE b == BlockIn(EPB, Here)
           k == Copied(b)
           n == IF k < b.capture THEN k ELSE b.capture
<1>1. /\ BlockHere /\ Readable(EPB, Here) /\ passed' = passed + 1
      /\ recvd' = Append(recvd, [rec |-> passed', data |-> SubSeq(b.data, 1, n), over |-> k - n])
  BY DEF RecvPacket
<1>2. /\ passed < Len(log) /\ b.data = log[passed + 1] /\ b.capture <= b.packet
      /\ ends[1] > 0 => b.packet = b.capture
  BY <1>1, PacketHere
<1>3. b.packet \in Nat /\ b.capture \in Nat /\ b.data \in Seq(Cell) /\ Len(b.data) = b.capture
  BY <1>1, HereIs, EpbIn
<1>4. want \in Nat
  <2>1. want \in Buflens \cup {0}
    BY ReaderParts
  <2>2. Buflens \subseteq Nat \ {0}
    BY PcapngAssumption
  <2> QED BY <2>1, <2>2
<1>5. passed + 1 \in 1 .. Len(log)
  <2>1. passed \in Nat /\ Len(log) \in Nat
    BY FileParts
  <2> QED BY <1>2, <2>1
<1> HIDE DEF b
<1>6. k = IF want < b.packet THEN want ELSE b.packet
  BY DEF Copied
<1>7. k \in Nat /\ (ends[1] > 0 => k <= b.capture)
  BY <1>2, <1>3, <1>4, <1>6
<1>8. n = IF want < b.capture THEN want ELSE b.capture
  BY <1>2, <1>3, <1>4, <1>6
<1>9. n \in 0 .. b.capture /\ k - n \in Nat /\ (ends[1] > 0 => k - n = 0)
  <2> HIDE DEF k
  <2> QED BY <1>3, <1>7
<1> HIDE DEF n, k
<1> DEFINE over == k - n
<1>10. over \in Nat /\ (ends[1] > 0 => over = 0)
  BY <1>9
<1>11. recvd' = Append(recvd, [rec  |-> passed + 1, data |-> SubSeq(log[passed + 1], 1, n),
                               over |-> over])
  BY <1>1, <1>2 DEF n, k
<1> HIDE DEF over
<1> QED BY <1>2, <1>3, <1>5, <1>8, <1>9, <1>10, <1>11

LEMMA StepMaps ==
  ASSUME IInv, IInv', Origin, Next
  PROVE  Abstract!Next \/ UNCHANGED Abstract!vars
<1> USE DEF Abstract!Next, Abstract!vars
<1>1. CASE ~InStep'
  BY <1>1 DEF Abstract!Derail
<1>2. ASSUME UNCHANGED <<log, passed, recvd, lost>>
      PROVE  UNCHANGED Abstract!vars
  BY <1>2 DEF InStep
<1>3. ASSUME UNCHANGED history
      PROVE  UNCHANGED Abstract!vars
  BY <1>2, <1>3 DEF history
<1>4. CASE OpenWrite \/ RecvShort \/ RecvOverrun \/ RecvNoBody
  BY <1>1, <1>4 DEF OpenWrite, RecvShort, RecvOverrun, RecvNoBody, InStep
<1>5. ASSUME NEW e, e.data \in Payloads, WriteBlock(e)
      PROVE  Abstract!Next
  <2>1. log' = Append(log, e.data) /\ UNCHANGED <<passed, recvd, lost>>
    BY <1>5 DEF WriteBlock
  <2> QED BY <1>5, <2>1 DEF Abstract!Put, InStep
<1>6. CASE WriteBlock(epb)
  BY <1>5, <1>6 DEF IInv, Object
<1>7. ASSUME NEW p \in Sends, Send(p)
      PROVE  Abstract!Next
  <2> DEFINE e == SetPacket(NewBlock(EPB), p)
  <2>1. p \in Payloads /\ p \in Seq(Cell)
    BY Packets DEF Payloads
  <2>2. e.data = p
    BY <2>1, FreshEpb, FilledEpb
  <2> QED BY <1>5, <1>7, <2>1, <2>2 DEF Send
<1>8. CASE \/ NewEpb \/ FlushSome \/ CloseWrite \/ CloseRead \/ PollEof \/ RecvEof
           \/ RecvSkip \/ RecvRefuse
  BY <1>3, <1>8
     DEF NewEpb, FlushSome, CloseWrite, CloseRead, PollEof, RecvEof, RecvSkip, RecvRefuse
<1>9. CASE \/ \E p \in Fills : FillBlock(p)
           \/ \E o \in Options : AddOption(o)
           \/ \E n \in Buflens : RecvCall(n)
  BY <1>3, <1>9 DEF FillBlock, AddOption, RecvCall
<1>10. CASE Crash
  <2>1. UNCHANGED <<passed, recvd, lost>>
    BY <1>10 DEF Crash
  <2>2. CASE InStep
    BY <1>10, <2>1, <2>2, CrashOrigin DEF Abstract!Lose, InStep
  <2>3. CASE ~InStep
    BY <1>1, <2>1, <2>3 DEF InStep
  <2> QED BY <2>2, <2>3
<1>11. CASE OpenRead
  <2>1. passed' = 0 /\ recvd' = <<>> /\ lost' = "no" /\ log' = log
    BY <1>11 DEF OpenRead
  <2> QED BY <2>1 DEF Abstract!Reopen, InStep
<1>12. CASE RecvPacket
  <2>1. PICK n \in 0 .. Len(log[passed + 1]), over \in Nat :
          /\ passed + 1 \in 1 .. Len(log) /\ log[passed + 1] \in Seq(Cell)
          /\ recvd' = Append(recvd, [rec  |-> passed + 1,
                                     data |-> SubSeq(log[passed + 1], 1, n), over |-> over])
    BY <1>12, GotPacket
  <2> DEFINE d == SubSeq(log[passed + 1], 1, n)
             g == [rec |-> passed + 1, data |-> d, over |-> over]
  <2>2. d \in Seq(Cell)
    <3> DEFINE p == log[passed + 1]
    <3>1. p \in Seq(Cell) /\ n \in Nat /\ n <= Len(p) /\ 1 <= n + 1
      BY <2>1
    <3> HIDE DEF p
    <3>2. SubSeq(p, 1, n) \in Seq(Cell)
      BY <3>1, SubSeqParts
    <3> QED BY <3>2 DEF p
  <2> HIDE DEF d
  <2>3. passed \in Nat /\ Len(log) \in Nat
    BY FileParts
  <2>4. recvd \in Seq([rec : Nat, data : Seq(Cell), over : Nat])
    BY ReaderParts
  <2>5. g \in [rec : Nat, data : Seq(Cell), over : Nat]
    BY <2>1, <2>2, <2>3
  <2>6. Plain(Append(recvd, g)) = Append(Plain(recvd), [rec |-> g.rec, data |-> g.data])
    BY <2>4, <2>5, PlainMore
  <2>7. recvd' = Append(recvd, g) /\ g.rec = passed + 1 /\ g.data = d
    BY <2>1 DEF d
  <2> HIDE DEF g
  <2>8. [j \in DOMAIN recvd |-> [rec |-> recvd[j].rec, data |-> recvd[j].data]]'
          = Append([j \in DOMAIN recvd |-> [rec |-> recvd[j].rec, data |-> recvd[j].data]],
                   [rec |-> passed + 1, data |-> SubSeq(log[passed + 1], 1, n)])
    BY <2>6, <2>7 DEF Plain, d
  <2>9. passed < Len(log)
    BY <2>1, <2>3
  <2>10. InStep /\ InStep' /\ passed' = passed + 1 /\ log' = log
    BY <1>12 DEF RecvPacket, BlockHere, HeadHere, Turn, InStep
  <2> QED BY <2>1, <2>8, <2>9, <2>10 DEF Abstract!Take
<1> QED BY <1>4, <1>6, <1>7, <1>8, <1>9, <1>10, <1>11, <1>12 DEF Next, Step

(* The stream is a PacketLog: what is read is what was sent, in order and  *)
(* with nothing skipped, for as long as the reader keeps in step, and no   *)
(* matter how many blocks of other kinds lie between.                      *)
THEOREM Implements == Spec => KeepsLog
<1>1. Init => Abstract!Init
  <2> SUFFICES ASSUME Init PROVE Abstract!Init
    OBVIOUS
  <2>1. IInv
    BY InitInv
  <2>2. log \in Seq(Payloads)
    BY <2>1, FileParts
  <2> QED BY <2>2 DEF Init, Abstract!Init, InStep
<1>2. IInv /\ IInv' /\ Origin /\ [Next]_vars => [Abstract!Next]_(Abstract!vars)
  <2> SUFFICES ASSUME IInv, IInv', Origin, [Next]_vars PROVE [Abstract!Next]_(Abstract!vars)
    OBVIOUS
  <2>1. CASE Next
    BY <2>1, StepMaps
  <2>2. CASE UNCHANGED vars
    BY <2>2 DEF vars, history, InStep, Abstract!vars
  <2> QED BY <2>1, <2>2
<1> QED BY <1>1, <1>2, Inductive, InPlace, PTL DEF Spec, KeepsLog, Abstract!Spec

(* recv() fills its buffer from the packet it stands before, as far as the *)
(* packet goes, and adds nothing to a packet that the writer sent.         *)
THEOREM FillsBuffer == Spec => RecvFillsBuffer
<1> DEFINE P == Len(recvd') > Len(recvd) =>
                  LET got == Last(recvd')
                      p   == log[got.rec]
                  IN  /\ got.data = SubSeq(p, 1, IF want < Len(p) THEN want ELSE Len(p))
                      /\ ends[1] > 0 => got.over = 0
<1>1. IInv /\ Origin /\ [Next]_vars => [P]_vars
  <2> SUFFICES ASSUME IInv, Origin, [Next]_vars PROVE P
    OBVIOUS
  <2>1. recvd \in Seq([rec : Nat, data : Seq(Cell), over : Nat]) /\ Len(recvd) \in Nat
    <3>1. recvd \in Seq([rec : Nat, data : Seq(Cell), over : Nat])
      BY ReaderParts
    <3> QED BY <3>1
  <2>2. ASSUME recvd' = recvd \/ recvd' = <<>> PROVE P
    <3>1. ~(Len(recvd') > Len(recvd))
      BY <2>1, <2>2
    <3> QED BY <3>1
  <2>3. CASE RecvPacket
    <3>1. PICK n \in 0 .. Len(log[passed + 1]), over \in Nat :
            /\ n = IF want < Len(log[passed + 1]) THEN want ELSE Len(log[passed + 1])
            /\ ends[1] > 0 => over = 0
            /\ recvd' = Append(recvd, [rec  |-> passed + 1,
                                       data |-> SubSeq(log[passed + 1], 1, n), over |-> over])
      BY <2>3, GotPacket
    <3> DEFINE g == [rec |-> passed + 1, data |-> SubSeq(log[passed + 1], 1, n), over |-> over]
    <3>2. Last(recvd') = g
      <4> HIDE DEF g
      <4>1. recvd' = Append(recvd, g)
        BY <3>1 DEF g
      <4> QED BY <2>1, <4>1 DEF Last
    <3>3. g.rec = passed + 1 /\ g.data = SubSeq(log[passed + 1], 1, n) /\ g.over = over
      OBVIOUS
    <3> HIDE DEF g
    <3> QED BY <3>1, <3>2, <3>3
  <2>4. CASE ~RecvPacket
    <3>1. recvd' = recvd \/ recvd' = <<>>
      BY <2>4
         DEF Next, Step, OpenWrite, NewEpb, WriteBlock, FlushSome, CloseWrite, Crash, Send,
             FillBlock, AddOption, OpenRead, CloseRead, PollEof, RecvCall, RecvEof, RecvShort,
             RecvOverrun, RecvNoBody, RecvSkip, RecvRefuse, vars, history
    <3> QED BY <2>2, <3>1
  <2> QED BY <2>3, <2>4
<1> QED BY <1>1, Inductive, InPlace, PTL DEF Spec, RecvFillsBuffer
-------------------------------------------------------------------------------
(* The end of the file.  A reader in step that finds no further cell in a  *)
(* file nobody writes has gone by all of its packets.                      *)
LEMMA AllPassed ==
  ASSUME IInv, Origin, writer = "closed", lost = "no", ~(sticky /\ atEof), ~CanRead(cursor, 1)
  PROVE  passed = Len(log)
<1>1. /\ Len(disk) \in Nat /\ cursor \in Nat /\ Len(log) \in Nat /\ passed \in Nat
      /\ ends \in Seq(Nat) /\ Len(ends) = Len(log) + 1
      /\ Len(Laid) = Len(disk) + Len(wbuf)
  BY FileParts
<1>2. Len(disk) <= cursor
  <2>1. ~(cursor + 1 <= Len(disk))
    BY DEF CanRead
  <2> QED BY <1>1, <2>1
<1>3. CASE Own
  <2> DEFINE n == Len(log)
  <2>1. Len(Laid) = Len(disk)
    BY <1>1 DEF IInv, File
  <2>2. ends[n + 1] <= Len(disk)
    BY <1>1, <1>3, <2>1 DEF Own, CutOff
  <2>3. /\ ends[1] = 8 /\ Placed
        /\ \A i \in 1 .. n : \E x : /\ x \in Seq(Cell) /\ Len(x) >= 4
                                    /\ ends[i + 1] = ends[i] + Len(x)
        /\ \A i, j \in 1 .. n + 1 : i <= j => ends[i] <= ends[j]
    BY <1>1, <1>3 DEF Own, Chain, Sent
  <2>4. \A i \in 1 .. n + 1 : ends[i] \in Nat
    BY <1>1
  <2>5. \A i \in 1 .. n + 1 : ends[i] <= cursor
    <3> SUFFICES ASSUME NEW i \in 1 .. n + 1 PROVE ends[i] <= cursor
      OBVIOUS
    <3>1. n + 1 \in 1 .. n + 1 /\ i <= n + 1
      BY <1>1
    <3>2. ends[i] <= ends[n + 1]
      BY <2>3, <3>1
    <3> QED BY <1>1, <1>2, <2>2, <2>4, <3>1, <3>2
  <2>6. CASE passed = 0 /\ cursor \in {0, 4}
    <3>1. 1 \in 1 .. n + 1
      BY <1>1
    <3>2. ends[1] <= cursor
      BY <2>5, <3>1
    <3> QED BY <2>3, <2>6, <3>2
  <2>7. CASE passed < n /\ cursor = ends[passed + 1]
    <3>1. passed + 1 \in 1 .. n /\ passed + 1 \in 1 .. n + 1 /\ (passed + 1) + 1 \in 1 .. n + 1
      BY <1>1, <2>7
    <3>2. PICK x : /\ x \in Seq(Cell) /\ Len(x) >= 4
                   /\ ends[(passed + 1) + 1] = ends[passed + 1] + Len(x)
      BY <2>3, <3>1
    <3>3. Len(x) \in Nat /\ cursor + Len(x) <= cursor
      <4>1. ends[(passed + 1) + 1] <= cursor
        BY <2>5, <3>1
      <4> QED BY <2>7, <3>2, <4>1
    <3> QED BY <1>1, <3>2, <3>3
  <2> HIDE DEF n
  <2>8. passed <= n => passed < n \/ passed = n
    BY <1>1 DEF n
  <2> QED BY <2>3, <2>6, <2>7, <2>8 DEF Placed, n
<1>4. CASE Torn
  BY <1>4 DEF Torn
<1>5. ASSUME NEW f \in Files, Foreign(f) PROVE passed = Len(log)
  <2>1. disk = f.disk /\ log = f.log /\ cursor \in DOMAIN f.before /\ passed = f.before[cursor]
    BY <1>5 DEF Foreign
  <2>2. /\ DOMAIN f.before \subseteq 0 .. Len(f.disk)
        /\ Len(f.disk) \in DOMAIN f.before => f.before[Len(f.disk)] = Len(f.log)
    BY FilesAssumption DEF Described
  <2>3. cursor = Len(f.disk)
    BY <1>1, <1>2, <2>1, <2>2
  <2> QED BY <2>1, <2>2, <2>3
<1> QED BY <1>3, <1>4, <1>5 DEF Origin

(* Whoever wrote a file that nobody writes any more, and whatever a crash  *)
(* left of it, a reader in step is told the end of it only behind its last *)
(* packet, unless its indicator is sticky and was set before.              *)
THEOREM EndsLast == Spec => []EndAfterAll
<1>1. IInv /\ Origin => EndAfterAll
  <2> SUFFICES ASSUME IInv, Origin, writer = "closed", InStep, ~CanRead(cursor, 1),
                      ~(sticky /\ atEof)
               PROVE  passed = Len(log)
    BY Zenon DEF EndAfterAll
  <2> QED BY AllPassed DEF InStep
<1> QED BY <1>1, Inductive, InPlace, PTL
=============================================================================
