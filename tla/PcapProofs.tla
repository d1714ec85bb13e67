------------------------------ MODULE PcapProofs ------------------------------
(***************************************************************************)
(* Proofs about PcapStream: its types, that recv() invents nothing, and    *)
(* that the stream is a PacketLog, for every set of packets and buffers.   *)
(***************************************************************************)
EXTENDS PcapStream, TLAPS

(* What was written, on the disk or still in stdio.                        *)
Cells == Len(disk) + Len(wbuf)
Image == [k \in 1 .. Cells |-> IF k <= Len(disk) THEN disk[k] ELSE wbuf[k - Len(disk)]]

(* The types of the variables.                                             *)
Shape ==
  /\ disk \in Seq(Cell) /\ wbuf \in Seq(Cell)
  /\ writer \in {"closed", "open"} /\ reader \in {"closed", "open"}
  /\ writer = "closed" => wbuf = <<>>
  /\ cursor \in Nat
  /\ log \in Seq(Payloads)
  /\ torn \in Nat /\ Len(log) + torn <= MaxLog
  /\ ends \in Seq(Nat) /\ Len(ends) = Len(log) + 1
  /\ passed \in Nat
  /\ recvd \in Seq([rec : Nat, data : Seq(Cell)])
  /\ lost \in {"no", "short", "small", "torn", "truncated"}

Flags == atEof \in BOOLEAN /\ sticky \in BOOLEAN

(* The records lie one behind the other, from behind the file header on.   *)
Layout ==
  /\ ends[1] \in {0, 1}
  /\ ends[1] = 0 => Cells = 0 /\ Len(log) = 0
  /\ \A i \in 1 .. Len(log) : ends[i + 1] = ends[i] + 2 + Len(log[i])
  /\ \A i, j \in 1 .. Len(log) + 1 : i <= j => ends[i] <= ends[j]
  /\ ends[Len(log) + 1] <= Cells
  /\ writer = "open" => ends[1] = 1
  /\ writer = "open" /\ torn = 0 => ends[Len(log) + 1] = Cells

Contents ==
  \A i \in 1 .. Len(log) : \A k \in 1 .. Len(log[i]) + 2 :
    Image[ends[i] + k] = Record(log[i])[k]

(* What a crash leaves of the next record is not all of it.                *)
Partial ==
  torn = 0 /\ ends[Len(log) + 1] + 2 <= Len(disk) =>
    ends[Len(log) + 1] + 2 + disk[ends[Len(log) + 1] + 2] > Len(disk)

(* recvd is worth something.                                               *)
Trusted == lost = "no" \/ (lost = "short" /\ sticky)

Received ==
  \A j \in 1 .. Len(recvd) :
    /\ recvd[j].rec \in 1 .. passed
    /\ recvd[j].data = log[recvd[j].rec]
    /\ j > 1 => recvd[j - 1].rec < recvd[j].rec

Place ==
  /\ lost = "no" => cursor = ends[passed + 1]
  /\ lost = "short" /\ sticky => atEof
  /\ Trusted => /\ passed <= Len(log)
                /\ ends[passed + 1] <= Len(disk)
                /\ Received

IInv == Shape /\ Flags /\ Layout /\ Contents /\ Partial /\ Place

-------------------------------------------------------------------------------
(* Arithmetic of places.                                                   *)
LEMMA Between ==
  ASSUME NEW from \in Nat, NEW len \in Nat, NEW to \in Nat, NEW last \in Nat, NEW all \in Nat,
         NEW k \in 1 .. len + 2, to = from + 2 + len, to <= last, last <= all
  PROVE  from + k \in 1 .. all
  OBVIOUS

LEMMA Indices ==
  ASSUME NEW n \in Nat, NEW i \in 1 .. n + 1, i # n + 1
  PROVE  i \in 1 .. n /\ i + 1 \in 1 .. n + 1 /\ i + 1 <= n + 1 /\ n + 1 \in 1 .. n + 1
  OBVIOUS

LEMMA Longer ==
  ASSUME NEW n \in Nat, NEW c \in Nat, NEW d \in Nat, NEW e, NEW f,
         \A i \in 1 .. n + 1 : e[i] \in Nat /\ f[i] = e[i],
         \A i, j \in 1 .. n + 1 : i <= j => e[i] <= e[j],
         e[n + 1] = c, f[n + 2] = c + d
  PROVE  \A i, j \in 1 .. n + 2 : i <= j => f[i] <= f[j]
  <1> SUFFICES ASSUME NEW i \in 1 .. n + 2, NEW j \in 1 .. n + 2, i <= j
               PROVE  f[i] <= f[j]
    OBVIOUS
  <1>1. CASE j \in 1 .. n + 1
    <2>1. i \in 1 .. n + 1
      BY <1>1
    <2> QED BY <1>1, <2>1
  <1>2. CASE j = n + 2 /\ i \in 1 .. n + 1
    <2>1. n + 1 \in 1 .. n + 1 /\ i <= n + 1
      BY <1>2
    <2>2. f[i] \in Nat /\ f[i] <= c
      BY <1>2, <2>1
    <2> QED BY <1>2, <2>2
  <1>3. CASE j = n + 2 /\ i = n + 2
    BY <1>3
  <1> QED BY <1>1, <1>2, <1>3

(* Sequences.                                                              *)
LEMMA AppendParts ==
  ASSUME NEW S, NEW s \in Seq(S), NEW x \in S
  PROVE  /\ Append(s, x) \in Seq(S) /\ Len(Append(s, x)) = Len(s) + 1
         /\ \A i \in 1 .. Len(s) : Append(s, x)[i] = s[i]
         /\ Append(s, x)[Len(s) + 1] = x
  OBVIOUS

LEMMA ConcatParts ==
  ASSUME NEW S, NEW s \in Seq(S), NEW t \in Seq(S)
  PROVE  /\ s \o t \in Seq(S) /\ Len(s \o t) = Len(s) + Len(t)
         /\ \A i \in 1 .. Len(s) : (s \o t)[i] = s[i]
         /\ \A i \in 1 .. Len(t) : (s \o t)[Len(s) + i] = t[i]
  OBVIOUS

LEMMA SubSeqParts ==
  ASSUME NEW S, NEW s \in Seq(S), NEW m \in Nat \ {0}, NEW n \in Nat, n <= Len(s), m <= n + 1
  PROVE  /\ SubSeq(s, m, n) \in Seq(S) /\ Len(SubSeq(s, m, n)) = n - m + 1
         /\ \A i \in 1 .. n - m + 1 : SubSeq(s, m, n)[i] = s[m + i - 1]
  OBVIOUS

-------------------------------------------------------------------------------
(* The inductive invariant holds at the start.                             *)
LEMMA InitInv == Init => IInv
  <1> SUFFICES ASSUME Init PROVE IInv
    OBVIOUS
  <1> USE PcapAssumption, FileAssumption DEF Init, FileInit
  <1>1. Shape /\ Flags
    <2>1. Shape
      BY DEF Shape
    <2>2. Flags
      BY Zenon DEF Flags
    <2> QED BY <2>1, <2>2
  <1>2. Layout /\ Contents /\ Partial /\ Place
    BY DEF Layout, Contents, Partial, Place, Trusted, Received, Cells
  <1> QED
    BY <1>1, <1>2 DEF IInv

(* What the types say of single elements.                                  *)
LEMMA Elements ==
  ASSUME Shape
  PROVE  /\ Len(disk) \in Nat /\ Len(wbuf) \in Nat /\ Len(log) \in Nat /\ Len(recvd) \in Nat
         /\ Cells \in Nat
         /\ \A i \in 1 .. Len(log) : log[i] \in Payloads /\ Len(log[i]) \in Nat
         /\ \A i \in 1 .. Len(log) + 1 : ends[i] \in Nat
  <1>1. Len(disk) \in Nat /\ Len(wbuf) \in Nat
    BY DEF Shape
  <1>2. Len(log) \in Nat
    BY DEF Shape
  <1>3. Len(recvd) \in Nat
    BY DEF Shape
  <1>4. \A i \in 1 .. Len(log) : log[i] \in Payloads
    BY DEF Shape
  <1>5. \A i \in 1 .. Len(log) : Len(log[i]) \in Nat
    BY PcapAssumption, SMTT(30) DEF Shape
  <1>6. \A i \in 1 .. Len(log) + 1 : ends[i] \in Nat
    BY DEF Shape
  <1>7. Cells \in Nat
    BY DEF Shape, Cells
  <1> QED BY <1>1, <1>2, <1>3, <1>4, <1>5, <1>6, <1>7

LEMMA Records ==
  ASSUME NEW p \in Payloads
  PROVE  /\ p \in Seq(Cell) /\ Len(p) \in Nat /\ Len(p) \in Cell
         /\ Record(p) \in Seq(Cell) /\ Len(Record(p)) = Len(p) + 2
         /\ Record(p)[1] = Len(p) /\ Record(p)[2] = Len(p)
         /\ \A k \in 1 .. Len(p) : Record(p)[k + 2] = p[k]
  <1>1. p \in Seq(Cell) /\ Len(p) \in Nat /\ Len(p) \in Cell
    BY PcapAssumption
  <1>2. <<Len(p), Len(p)>> \in Seq(Cell) /\ Len(<<Len(p), Len(p)>>) = 2
    BY <1>1
  <1> QED BY <1>1, <1>2 DEF Record

(* A record lies within what was written.                                  *)
LEMMA Inside ==
  ASSUME Shape, Layout, NEW i \in 1 .. Len(log), NEW k \in 1 .. Len(log[i]) + 2
  PROVE  ends[i] + k \in 1 .. Cells
  <1>1. Len(log) \in Nat
    BY Elements
  <1>2. /\ i \in 1 .. Len(log) + 1 /\ i + 1 \in 1 .. Len(log) + 1
        /\ Len(log) + 1 \in 1 .. Len(log) + 1 /\ i + 1 <= Len(log) + 1
    BY <1>1
  <1>3. /\ ends[i] \in Nat /\ ends[i + 1] \in Nat /\ ends[Len(log) + 1] \in Nat
        /\ Len(log[i]) \in Nat /\ Cells \in Nat
    BY <1>2, Elements
  <1>4. ends[i + 1] = ends[i] + 2 + Len(log[i])
    BY DEF Layout
  <1>5. ends[i + 1] <= ends[Len(log) + 1]
    BY <1>2 DEF Layout
  <1>6. ends[Len(log) + 1] <= Cells
    BY DEF Layout
  <1> QED BY <1>3, <1>4, <1>5, <1>6, Between

(* fwrite() adds to the end, and changes nothing before it.                *)
LEMMA WrittenMore ==
  ASSUME Shape, NEW r \in Seq(Cell), wbuf' = wbuf \o r, disk' = disk
  PROVE  /\ wbuf' \in Seq(Cell) /\ Cells' = Cells + Len(r)
         /\ \A k \in 1 .. Cells : Image'[k] = Image[k]
         /\ \A k \in 1 .. Len(r) : Image'[Cells + k] = r[k]
  <1>1. Len(disk) \in Nat /\ Len(wbuf) \in Nat /\ Len(r) \in Nat
    BY Elements
  <1>2. wbuf \in Seq(Cell)
    BY DEF Shape
  <1>3. /\ wbuf' \in Seq(Cell) /\ Len(wbuf') = Len(wbuf) + Len(r)
        /\ \A k \in 1 .. Len(wbuf) : wbuf'[k] = wbuf[k]
        /\ \A k \in 1 .. Len(r) : wbuf'[Len(wbuf) + k] = r[k]
    BY <1>2, ConcatParts
  <1>4. Cells' = Cells + Len(r)
    BY <1>1, <1>3 DEF Cells
  <1>5. ASSUME NEW k \in 1 .. Cells
        PROVE  Image'[k] = Image[k]
    <2>1. k \in 1 .. Cells'
      BY <1>1, <1>4 DEF Cells
    <2>2. CASE k <= Len(disk)
      BY <2>1, <2>2 DEF Image
    <2>3. CASE ~(k <= Len(disk))
      <3>1. k - Len(disk) \in 1 .. Len(wbuf)
        BY <1>1, <2>3 DEF Cells
      <3> QED BY <1>3, <2>1, <2>3, <3>1 DEF Image
    <2> QED BY <2>2, <2>3
  <1>6. ASSUME NEW k \in 1 .. Len(r)
        PROVE  Image'[Cells + k] = r[k]
    <2>1. PICK x \in 1 .. Cells' : x = Cells + k
      BY <1>1, <1>4 DEF Cells
    <2>2. Image'[x] = IF x <= Len(disk') THEN disk'[x] ELSE wbuf'[x - Len(disk')]
      BY DEF Image
    <2>3. ~(x <= Len(disk')) /\ x - Len(disk') = Len(wbuf) + k
      BY <1>1, <2>1 DEF Cells
    <2>4. Image'[x] = wbuf'[Len(wbuf) + k]
      BY <2>2, <2>3, Zenon
    <2> QED BY <1>3, <2>1, <2>4
  <1> QED BY <1>3, <1>4, <1>5, <1>6

(* Cells behind a tear change nothing.                                     *)
LEMMA BehindTear ==
  ASSUME IInv, NEW n \in Nat,
         torn' \in Nat \ {0}, Len(log) + torn' <= MaxLog,
         log' = log, ends' = ends, writer = "open", writer' = writer, reader' = reader,
         disk' = disk, wbuf' \in Seq(Cell), Cells' = Cells + n,
         \A k \in 1 .. Cells : Image'[k] = Image[k],
         cursor' = cursor, atEof' = atEof, sticky' = sticky,
         passed' = passed, recvd' = recvd, lost' = lost
  PROVE  IInv'
  <1>1. Shape /\ Flags /\ Layout /\ Contents /\ Partial /\ Place
    BY DEF IInv
  <1>2. Shape' /\ Flags'
    BY <1>1 DEF Shape, Flags
  <1>3. Layout'
    <2>1. ends[Len(log) + 1] \in Nat /\ Cells \in Nat /\ Len(log) \in Nat
      BY <1>1, Elements
    <2>2. ends[Len(log) + 1] <= Cells + n
      BY <1>1, <2>1 DEF Layout
    <2> QED BY <1>1, <2>2 DEF Layout
  <1>4. Contents'
    <2> SUFFICES ASSUME NEW i \in 1 .. Len(log), NEW k \in 1 .. Len(log[i]) + 2
                 PROVE  Image'[ends[i] + k] = Record(log[i])[k]
      BY DEF Contents, Record
    <2> QED BY <1>1, Inside DEF Contents
  <1>5. Partial' /\ Place'
    BY <1>1 DEF Partial, Place, Trusted, Received
  <1> QED BY <1>2, <1>3, <1>4, <1>5 DEF IInv

-------------------------------------------------------------------------------
(* The writer.                                                             *)
LEMMA OpenWriteInv == IInv /\ OpenWrite => IInv'
  <1> SUFFICES ASSUME IInv, OpenWrite PROVE IInv'
    OBVIOUS
  <1> USE PcapAssumption, FileAssumption DEF IInv, OpenWrite, OpenWriting, readVars
  <1>1. Shape' /\ Flags'
    BY DEF Shape, Flags
  <1>2. Layout' /\ Contents' /\ Partial'
    BY DEF Layout, Contents, Partial, Cells, Shape
  <1>3. Place'
    BY DEF Place, Trusted
  <1> QED
    BY <1>1, <1>2, <1>3
(* A record that is written in whole, or behind a tear.                    *)
LEMMA SendInv == ASSUME NEW p \in Payloads, IInv, Send(p) PROVE IInv'
  <1> DEFINE n == Len(log)
             m == Len(p)
  <1>1. Shape /\ Flags /\ Layout /\ Contents /\ Partial /\ Place
    BY DEF IInv
  <1>2. /\ disk' = disk /\ wbuf' = wbuf \o Record(p) /\ writer = "open" /\ writer' = writer
        /\ reader' = reader /\ cursor' = cursor /\ atEof' = atEof /\ sticky' = sticky
        /\ passed' = passed /\ recvd' = recvd /\ lost' = lost
        /\ n + torn < MaxLog
        /\ Logged(p)
    BY DEF Send, Fwrite, readVars
  <1>3. /\ n \in Nat /\ m \in Nat /\ Cells \in Nat /\ Len(disk) \in Nat /\ Len(wbuf) \in Nat
        /\ \A i \in 1 .. n : log[i] \in Payloads /\ Len(log[i]) \in Nat
        /\ \A i \in 1 .. n + 1 : ends[i] \in Nat
    BY <1>1, Elements, Records
  <1>4. /\ wbuf' \in Seq(Cell)
        /\ Cells' = Cells + (m + 2)
        /\ \A k \in 1 .. Cells : Image'[k] = Image[k]
        /\ \A k \in 1 .. m + 2 : Image'[Cells + k] = Record(p)[k]
    <2>1. PICK r \in Seq(Cell) : r = Record(p) /\ Len(r) = m + 2
      BY Records
    <2> QED BY <1>1, <1>2, <2>1, WrittenMore
  <1>7. CASE torn = 0
    <2>1. ends[n + 1] = Cells
      BY <1>1, <1>2, <1>7 DEF Layout
    <2>2. /\ log' = Append(log, p) /\ torn' = 0
          /\ ends' = Append(ends, Cells + (m + 2))
      <3>1. Last(ends) = Cells
        BY <1>1, <2>1 DEF Last, Shape
      <3>2. Len(Record(p)) = m + 2
        BY Records
      <3> QED BY <1>2, <1>7, <3>1, <3>2 DEF Logged
    <2>3. /\ log' \in Seq(Payloads) /\ Len(log') = n + 1
          /\ \A i \in 1 .. n : log'[i] = log[i]
          /\ log'[n + 1] = p
      <3>1. log \in Seq(Payloads)
        BY <1>1 DEF Shape
      <3> QED BY <2>2, <3>1, AppendParts
    <2>4. /\ ends' \in Seq(Nat) /\ Len(ends') = n + 2
          /\ \A i \in 1 .. n + 1 : ends'[i] = ends[i]
          /\ ends'[n + 2] = Cells + (m + 2)
      <3>1. ends \in Seq(Nat) /\ Len(ends) = n + 1 /\ Cells + (m + 2) \in Nat /\ n + 1 + 1 = n + 2
        BY <1>1, <1>3 DEF Shape
      <3> QED BY <2>2, <3>1, AppendParts
    <2>5. Shape'
      BY <1>1, <1>2, <1>3, <1>4, <1>7, <2>2, <2>3, <2>4, PcapAssumption DEF Shape
    <2> HIDE DEF n, m
    <2>10. ends'[n + 1] = Cells
      <3>1. n + 1 \in 1 .. n + 1
        BY <1>3
      <3>2. ends'[n + 1] = ends[n + 1]
        BY <2>4, <3>1
      <3> QED BY <2>1, <3>2
    <2>6. Layout'
      <3>1. \A i \in 1 .. n + 1 : ends'[i + 1] = ends'[i] + 2 + Len(log'[i])
        <4> SUFFICES ASSUME NEW i \in 1 .. n + 1
                     PROVE  ends'[i + 1] = ends'[i] + 2 + Len(log'[i])
          OBVIOUS
        <4>1. CASE i = n + 1
          <5>1. i + 1 = n + 2
            BY <1>3, <4>1
          <5>3. ends'[i + 1] = Cells + (m + 2)
            BY <2>4, <5>1, Zenon
          <5>4. ends'[i] = Cells
            BY <2>10, <4>1, Zenon
          <5>5. log'[i] = p
            BY <2>3, <4>1, Zenon
          <5>2. Cells + (m + 2) = Cells + 2 + m
            BY <1>3
          <5>6. Cells + (m + 2) = Cells + 2 + Len(p)
            BY <5>2 DEF m
          <5> QED BY <5>3, <5>4, <5>5, <5>6, Zenon
        <4>2. CASE i # n + 1
          <5>1. i \in 1 .. n /\ i + 1 \in 1 .. n + 1
            BY <1>3, <4>2
          <5>2. ends[i + 1] = ends[i] + 2 + Len(log[i])
            BY <1>1, <5>1 DEF Layout, n
          <5> QED BY <2>3, <2>4, <5>1, <5>2
        <4> QED BY <4>1, <4>2
      <3>2. \A i, j \in 1 .. n + 2 : i <= j => ends'[i] <= ends'[j]
        <4>1. \A i, j \in 1 .. n + 1 : i <= j => ends[i] <= ends[j]
          BY <1>1 DEF Layout, n
        <4>2. m + 2 \in Nat
          BY <1>3
        <4> QED BY <1>3, <2>1, <2>4, <4>1, <4>2, Longer
      <3>3. ends'[1] = 1
        BY <1>1, <1>2, <1>3, <2>4 DEF Layout
      <3>4. ends'[n + 2] = Cells'
        BY <1>4, <2>4
      <3>5. Len(log') + 1 = n + 2 /\ Cells' \in Nat
        BY <1>3, <1>4, <2>3
      <3> QED BY <2>3, <3>1, <3>2, <3>3, <3>4, <3>5 DEF Layout
    <2>7. Contents'
      <3> SUFFICES ASSUME NEW i \in 1 .. n + 1, NEW k \in 1 .. Len(log'[i]) + 2
                   PROVE  Image'[ends'[i] + k] = Record(log'[i])[k]
        BY <2>3 DEF Contents, Record
      <3>1. CASE i = n + 1
        <4>1. ends'[i] = Cells
          BY <2>10, <3>1, Zenon
        <4>2. log'[i] = p
          BY <2>3, <3>1, Zenon
        <4>3. k \in 1 .. m + 2
          BY <4>2, Zenon DEF m
        <4>4. Image'[Cells + k] = Record(p)[k]
          BY <1>4, <4>3, Zenon
        <4> QED BY <4>1, <4>2, <4>4, Zenon
      <3>2. CASE i # n + 1
        <4>1. i \in 1 .. n /\ i \in 1 .. n + 1
          BY <1>3, <3>2
        <4>2. log'[i] = log[i] /\ ends'[i] = ends[i]
          BY <2>3, <2>4, <4>1
        <4>3. ends[i] + k \in 1 .. Cells
          BY <1>1, <4>1, <4>2, Inside DEF n
        <4>4. Image'[ends[i] + k] = Image[ends[i] + k]
          BY <1>4, <4>3
        <4>5. Image[ends[i] + k] = Record(log[i])[k]
          BY <1>1, <4>1, <4>2 DEF Contents, n
        <4> QED BY <4>2, <4>4, <4>5
      <3> QED BY <3>1, <3>2
    <2>8. Partial'
      <3>1. ends'[Len(log') + 1] = Cells + (m + 2)
        BY <1>3, <2>3, <2>4
      <3>2. ~(Cells + (m + 2) + 2 <= Len(disk'))
        BY <1>2, <1>3 DEF Cells
      <3> QED BY <3>1, <3>2 DEF Partial
    <2>9. Place'
      <3>1. Trusted' <=> Trusted
        BY <1>2 DEF Trusted
      <3>2. lost = "no" => Trusted
        BY DEF Trusted
      <3>3. passed \in Nat
        BY <1>1 DEF Shape
      <3>4. Trusted => passed <= n /\ ends[passed + 1] <= Len(disk) /\ Received
        BY <1>1 DEF Place, n
      <3>5. Trusted => passed + 1 \in 1 .. n + 1
        BY <1>3, <3>3, <3>4
      <3>6. Trusted => ends'[passed + 1] = ends[passed + 1]
        BY <2>4, <3>5
      <3>7. Trusted => Received'
        <4> SUFFICES ASSUME Trusted, NEW j \in 1 .. Len(recvd)
                     PROVE  /\ recvd[j].rec \in 1 .. passed
                            /\ recvd[j].data = log'[recvd[j].rec]
                            /\ j > 1 => recvd[j - 1].rec < recvd[j].rec
          BY <1>2 DEF Received
        <4>1. /\ recvd[j].rec \in 1 .. passed
              /\ recvd[j].data = log[recvd[j].rec]
              /\ j > 1 => recvd[j - 1].rec < recvd[j].rec
          BY <3>4 DEF Received
        <4>2. recvd[j].rec \in 1 .. n
          BY <1>3, <3>3, <3>4, <4>1
        <4> QED BY <2>3, <4>1, <4>2
      <3>8. Trusted => passed <= Len(log')
        BY <1>3, <2>3, <3>3, <3>4
      <3>9. /\ lost = "no" => cursor = ends[passed + 1]
            /\ lost = "short" /\ sticky => atEof
        BY <1>1 DEF Place
      <3> QED BY <1>2, <3>1, <3>2, <3>4, <3>6, <3>7, <3>8, <3>9 DEF Place
    <2> QED BY <1>1, <1>2, <2>5, <2>6, <2>7, <2>8, <2>9 DEF IInv, Flags
  <1>8. CASE torn # 0
    <2>1. torn' = torn + 1 /\ log' = log /\ ends' = ends
      BY <1>2, <1>8 DEF Logged
    <2>2. torn' \in Nat \ {0} /\ Len(log) + torn' <= MaxLog /\ m + 2 \in Nat
      BY <1>1, <1>2, <1>3, <2>1, PcapAssumption DEF Shape
    <2> HIDE DEF n, m
    <2> QED BY <1>2, <1>4, <2>1, <2>2, BehindTear
  <1> QED BY <1>7, <1>8

(* A record that is written in part.                                       *)
LEMMA SendFailsInv == ASSUME NEW p \in Payloads, IInv, SendFails(p) PROVE IInv'
  <1>1. Shape /\ Layout
    BY DEF IInv
  <1>2. PICK n \in 1 .. Len(Record(p)) - 1 : FwriteFails(Record(p), n)
    BY DEF SendFails
  <1>3. PICK r \in Seq(Cell) : r = Record(p) /\ Len(r) = Len(p) + 2 /\ Len(p) \in Nat
    BY Records
  <1>4. PICK t \in Seq(Cell) : t = SubSeq(r, 1, n) /\ Len(t) \in Nat
    <2>1. 1 \in Nat \ {0} /\ n \in Nat /\ n <= Len(r) /\ 1 <= n + 1
      BY <1>3
    <2>2. SubSeq(r, 1, n) \in Seq(Cell)
      BY <2>1, SubSeqParts
    <2>3. \A u \in Seq(Cell) : Len(u) \in Nat
      OBVIOUS
    <2> QED BY <2>2, <2>3
  <1>5. /\ disk' = disk /\ wbuf' = wbuf \o t /\ writer = "open" /\ writer' = writer
        /\ reader' = reader /\ cursor' = cursor /\ atEof' = atEof /\ sticky' = sticky
        /\ passed' = passed /\ recvd' = recvd /\ lost' = lost
        /\ log' = log /\ ends' = ends /\ torn' = torn + 1
        /\ Len(log) + torn < MaxLog
    BY <1>2, <1>3, <1>4 DEF SendFails, FwriteFails, readVars
  <1>6. /\ wbuf' \in Seq(Cell) /\ Cells' = Cells + Len(t)
        /\ \A k \in 1 .. Cells : Image'[k] = Image[k]
    BY <1>1, <1>5, WrittenMore
  <1>7. torn' \in Nat \ {0} /\ Len(log) + torn' <= MaxLog
    BY <1>1, <1>5, PcapAssumption, SMTT(30) DEF Shape
  <1> QED BY <1>4, <1>5, <1>6, <1>7, BehindTear

(* Cells go from the buffer to the disk, in fflush() or fclose().          *)
LEMMA MovedInv ==
  ASSUME IInv, writer = "open", writer' \in {"open", "closed"},
         writer' = "closed" => wbuf' = <<>>,
         disk' \in Seq(Cell), wbuf' \in Seq(Cell), Cells' = Cells, Len(disk) <= Len(disk'),
         Image' = Image,
         reader' = reader, cursor' = cursor, atEof' = atEof, sticky' = sticky,
         log' = log, ends' = ends, torn' = torn,
         passed' = passed, recvd' = recvd, lost' = lost
  PROVE  IInv'
  <1>1. Shape /\ Flags /\ Layout /\ Contents /\ Partial /\ Place
    BY DEF IInv
  <1>2. Shape' /\ Flags'
    BY <1>1 DEF Shape, Flags
  <1>3. Layout' /\ Contents'
    BY <1>1 DEF Layout, Contents, Record
  <1>4. /\ Len(disk) \in Nat /\ Len(disk') \in Nat /\ Len(wbuf') \in Nat
        /\ \A i \in 1 .. Len(log) + 1 : ends[i] \in Nat
        /\ Len(log) \in Nat /\ Cells \in Nat
    BY <1>1, Elements
  <1>5. Partial'
    <2>1. Len(disk') <= Cells
      BY <1>4 DEF Cells
    <2>2. torn = 0 => ends[Len(log) + 1] = Cells
      BY <1>1 DEF Layout
    <2>3. torn = 0 => ~(ends[Len(log) + 1] + 2 <= Len(disk'))
      BY <1>4, <2>1, <2>2
    <2> QED BY <2>3 DEF Partial
  <1>6. Place'
    <2>1. Trusted => passed + 1 \in 1 .. Len(log) + 1
      BY <1>1, <1>4 DEF Place, Shape
    <2>2. Trusted => ends[passed + 1] <= Len(disk')
      BY <1>1, <1>4, <2>1 DEF Place
    <2> QED BY <1>1, <2>2 DEF Place, Trusted, Received
  <1> QED BY <1>2, <1>3, <1>5, <1>6 DEF IInv

LEMMA Handed ==
  ASSUME Shape, NEW n \in 0 .. Len(wbuf),
         disk' = disk \o SubSeq(wbuf, 1, n), wbuf' = SubSeq(wbuf, n + 1, Len(wbuf))
  PROVE  /\ disk' \in Seq(Cell) /\ wbuf' \in Seq(Cell)
         /\ Cells' = Cells /\ Len(disk) <= Len(disk') /\ Image' = Image
  <1> DEFINE l == Len(wbuf)
             d == Len(disk)
  <1>1. d \in Nat /\ l \in Nat /\ n \in Nat /\ n <= l
    BY Elements
  <1>2. wbuf \in Seq(Cell) /\ disk \in Seq(Cell)
    BY DEF Shape
  <1>3. PICK t \in Seq(Cell) :
          t = SubSeq(wbuf, 1, n) /\ Len(t) = n /\ \A i \in 1 .. n : t[i] = wbuf[i]
    <2>1. 1 \in Nat \ {0} /\ 1 <= n + 1 /\ n - 1 + 1 = n
      BY <1>1
    <2>2. /\ SubSeq(wbuf, 1, n) \in Seq(Cell) /\ Len(SubSeq(wbuf, 1, n)) = n
          /\ \A i \in 1 .. n : SubSeq(wbuf, 1, n)[i] = wbuf[i]
      BY <1>1, <1>2, <2>1
    <2> QED BY <2>2
  <1>4. PICK u \in Seq(Cell) :
          u = SubSeq(wbuf, n + 1, l) /\ Len(u) = l - n /\ \A i \in 1 .. l - n : u[i] = wbuf[n + i]
    <2>1. /\ SubSeq(wbuf, n + 1, l) \in Seq(Cell) /\ Len(SubSeq(wbuf, n + 1, l)) = l - n
          /\ \A i \in 1 .. l - n : SubSeq(wbuf, n + 1, l)[i] = wbuf[n + i]
      BY <1>1, <1>2
    <2> QED BY <2>1
  <1>5. /\ disk' \in Seq(Cell) /\ Len(disk') = d + n
        /\ \A i \in 1 .. d : disk'[i] = disk[i]
        /\ \A i \in 1 .. n : disk'[d + i] = wbuf[i]
    <2>1. /\ disk \o t \in Seq(Cell) /\ Len(disk \o t) = d + n
          /\ \A i \in 1 .. d : (disk \o t)[i] = disk[i]
          /\ \A i \in 1 .. n : (disk \o t)[d + i] = t[i]
      BY <1>2, <1>3, ConcatParts
    <2> QED BY <1>3, <2>1
  <1>6. wbuf' = u
    BY <1>4
  <1>7. Cells' = Cells
    <2>1. Len(disk') = d + n /\ Len(wbuf') = l - n /\ d + n + (l - n) = d + l
      BY <1>1, <1>4, <1>5, <1>6
    <2> QED BY <2>1 DEF Cells
  <1>8. ASSUME NEW k \in 1 .. Cells
        PROVE  Image'[k] = Image[k]
    <2>1. Image'[k] = IF k <= d + n THEN disk'[k] ELSE u[k - (d + n)]
      BY <1>5, <1>6, <1>7 DEF Image
    <2>2. Image[k] = IF k <= d THEN disk[k] ELSE wbuf[k - d]
      BY DEF Image
    <2>3. k \in Nat /\ 1 <= k /\ k <= d + l
      BY <1>1 DEF Cells
    <2> HIDE DEF d, l
    <2>4. CASE k <= d
      BY <1>1, <1>5, <2>1, <2>2, <2>3, <2>4
    <2>5. CASE d < k /\ k <= d + n
      <3>1. PICK i \in 1 .. n : k = d + i
        BY <1>1, <2>3, <2>5
      <3>2. disk'[k] = wbuf[i] /\ k - d = i /\ ~(k <= d)
        BY <1>1, <1>5, <2>5, <3>1, SMTT(30)
      <3> QED BY <2>1, <2>2, <2>5, <3>2
    <2>6. CASE d + n < k
      <3>1. PICK i \in 1 .. l - n : k = d + n + i
        <4>1. k - d - n \in 1 .. l - n /\ k = d + n + (k - d - n)
          BY <1>1, <2>3, <2>6
        <4> QED BY <4>1
      <3>2. k - (d + n) = i /\ k - d = n + i /\ ~(k <= d) /\ ~(k <= d + n)
        BY <1>1, <2>6, <3>1
      <3>3. u[i] = wbuf[n + i]
        BY <1>4
      <3> QED BY <2>1, <2>2, <3>2, <3>3
    <2> QED BY <1>1, <2>3, <2>4, <2>5, <2>6
  <1>9. Image' = Image
    <2>1. Image = [k \in 1 .. Cells |-> Image[k]] /\ Image' = [k \in 1 .. Cells |-> Image'[k]]
      BY <1>7 DEF Image
    <2> QED BY <1>8, <2>1, Zenon
  <1> QED BY <1>1, <1>4, <1>5, <1>6, <1>7, <1>9

LEMMA FlushInv == ASSUME IInv, FlushSome PROVE IInv'
  <1>1. PICK n \in 1 .. Len(wbuf) :
          disk' = disk \o SubSeq(wbuf, 1, n) /\ wbuf' = SubSeq(wbuf, n + 1, Len(wbuf))
    BY DEF FlushSome, Flush
  <1>2. n \in 0 .. Len(wbuf)
    OBVIOUS
  <1>3. writer = "open" /\ UNCHANGED <<writer, readVars, sticky, log, ends, passed, recvd, lost, torn>>
    BY DEF FlushSome, Flush
  <1>4. Shape
    BY DEF IInv
  <1> QED BY <1>1, <1>2, <1>3, <1>4, Handed, MovedInv DEF readVars

LEMMA CloseWriteInv == ASSUME IInv, CloseWrite PROVE IInv'
  <1>1. Shape
    BY DEF IInv
  <1>2. /\ writer = "open" /\ writer' = "closed" /\ disk' = disk \o wbuf /\ wbuf' = <<>>
        /\ UNCHANGED <<readVars, sticky, log, ends, passed, recvd, lost, torn>>
    BY DEF CloseWrite, CloseWriting
  <1>3. SubSeq(wbuf, 1, Len(wbuf)) = wbuf /\ SubSeq(wbuf, Len(wbuf) + 1, Len(wbuf)) = <<>>
    BY <1>1 DEF Shape
  <1>4. Len(wbuf) \in 0 .. Len(wbuf)
    BY <1>1, Elements
  <1>5. /\ disk' \in Seq(Cell) /\ wbuf' \in Seq(Cell)
        /\ Cells' = Cells /\ Len(disk) <= Len(disk') /\ Image' = Image
    BY <1>1, <1>2, <1>3, <1>4, Handed
  <1> QED BY <1>2, <1>5, MovedInv DEF readVars

(* A crash: the records that are whole on the disk are left.               *)
LEMMA CrashInv == ASSUME IInv, Crash PROVE IInv'
  <1> DEFINE len == Len(log)
  <1>1. Shape /\ Flags /\ Layout /\ Contents /\ Partial /\ Place
    BY DEF IInv
  <1>2. /\ writer = "open" /\ writer' = "closed" /\ wbuf' = <<>> /\ disk' = disk
        /\ reader' = reader /\ cursor' = cursor /\ atEof' = atEof /\ sticky' = sticky
        /\ passed' = passed /\ recvd' = recvd /\ lost' = lost
    BY DEF Crash, CrashWriting, readVars
  <1>3. /\ Len(disk) \in Nat /\ Len(wbuf) \in Nat /\ len \in Nat /\ Cells \in Nat
        /\ \A i \in 1 .. len : log[i] \in Payloads /\ Len(log[i]) \in Nat
        /\ \A i \in 1 .. len + 1 : ends[i] \in Nat
        /\ passed \in Nat
    BY <1>1, Elements DEF Shape
  <1>4. ends[1] = 1
    BY <1>1, <1>2 DEF Layout
  <1>5. Cells' = Len(disk) /\ Len(disk') = Len(disk)
    BY <1>2, <1>3 DEF Cells
  <1>6. Flags'
    BY <1>1, <1>2 DEF Flags
  <1>7. Trusted' <=> Trusted
    BY <1>2 DEF Trusted
  <1>8. lost = "no" => Trusted
    BY DEF Trusted
  <1>9. Trusted => passed <= len /\ ends[passed + 1] <= Len(disk) /\ Received
    BY <1>1 DEF Place
  <1>10. /\ lost = "no" => cursor = ends[passed + 1]
         /\ lost = "short" /\ sticky => atEof
    BY <1>1 DEF Place
  <1>11. CASE ends[1] > Len(disk)
    <2>1. log' = <<>> /\ ends' = <<0>> /\ torn' = 0
      BY <1>11 DEF Crash
    <2>2. Len(disk) = 0
      BY <1>3, <1>4, <1>11
    <2>3. Shape'
      BY <1>1, <1>2, <2>1, PcapAssumption DEF Shape
    <2>4. Layout' /\ Contents' /\ Partial'
      BY <1>2, <1>5, <2>1, <2>2 DEF Layout, Contents, Partial
    <2>5. ~Trusted
      <3> SUFFICES ASSUME Trusted PROVE FALSE
        OBVIOUS
      <3>1. passed + 1 \in 1 .. len + 1 /\ 1 \in 1 .. len + 1 /\ 1 <= passed + 1
        BY <1>3, <1>9
      <3>2. ends[1] <= ends[passed + 1]
        BY <1>1, <3>1 DEF Layout
      <3> QED BY <1>3, <1>4, <1>9, <2>2, <3>1, <3>2, SMTT(30)
    <2>6. Place'
      BY <1>2, <1>7, <1>8, <1>10, <2>5 DEF Place
    <2> QED BY <1>6, <2>3, <2>4, <2>6 DEF IInv
  <1>12. CASE ~(ends[1] > Len(disk))
    <2>1. PICK n \in 0 .. len :
            /\ ends[n + 1] <= Len(disk)
            /\ n < len => ends[n + 2] > Len(disk)
            /\ log' = SubSeq(log, 1, n)
            /\ ends' = SubSeq(ends, 1, n + 1)
            /\ torn' = IF n < len THEN 0 ELSE torn
      BY <1>12 DEF Crash
    <2>2. n \in Nat /\ n <= len /\ n + 1 \in 1 .. len + 1
      BY <1>3, <2>1
    <2>3. /\ log' \in Seq(Payloads) /\ Len(log') = n
          /\ \A i \in 1 .. n : log'[i] = log[i]
      BY <1>1, <1>3, <2>1, <2>2 DEF Shape
    <2>4. /\ ends' \in Seq(Nat) /\ Len(ends') = n + 1
          /\ \A i \in 1 .. n + 1 : ends'[i] = ends[i]
      <3>1. ends \in Seq(Nat) /\ Len(ends) = len + 1 /\ n + 1 \in Nat /\ n + 1 <= Len(ends)
        BY <1>1, <2>2 DEF Shape
      <3> QED BY <2>1, <2>2, <3>1
    <2> HIDE DEF len
    <2>5. \A i \in 1 .. n : i \in 1 .. len
      BY <1>3, <2>2
    <2>6. \A i \in 1 .. n + 1 : i \in 1 .. len + 1
      BY <1>3, <2>2
    <2>7. Shape'
      <3>1. torn' \in Nat /\ n + torn' <= MaxLog
        BY <1>1, <1>3, <2>1, <2>2, PcapAssumption DEF Shape, len
      <3> QED BY <1>1, <1>2, <2>3, <2>4, <3>1 DEF Shape
    <2>8. Layout'
      <3>1. \A i \in 1 .. n : ends'[i + 1] = ends'[i] + 2 + Len(log'[i])
        <4> SUFFICES ASSUME NEW i \in 1 .. n PROVE ends'[i + 1] = ends'[i] + 2 + Len(log'[i])
          OBVIOUS
        <4>1. i \in 1 .. n + 1 /\ i + 1 \in 1 .. n + 1 /\ i \in 1 .. len
          BY <2>2, <2>5
        <4>2. ends[i + 1] = ends[i] + 2 + Len(log[i])
          BY <1>1, <4>1 DEF Layout, len
        <4> QED BY <2>3, <2>4, <4>1, <4>2
      <3>2. \A i, j \in 1 .. n + 1 : i <= j => ends'[i] <= ends'[j]
        <4>1. \A i, j \in 1 .. len + 1 : i <= j => ends[i] <= ends[j]
          BY <1>1 DEF Layout, len
        <4> QED BY <2>4, <2>6, <4>1
      <3>3. ends'[1] = 1 /\ ends'[n + 1] <= Cells'
        BY <1>4, <1>5, <2>1, <2>2, <2>4
      <3> QED BY <1>2, <2>3, <3>1, <3>2, <3>3 DEF Layout
    <2>9. Contents'
      <3> SUFFICES ASSUME NEW i \in 1 .. n, NEW k \in 1 .. Len(log'[i]) + 2
                   PROVE  Image'[ends'[i] + k] = Record(log'[i])[k]
        BY <2>3 DEF Contents, Record
      <3>1. log'[i] = log[i] /\ ends'[i] = ends[i] /\ i \in 1 .. len
        BY <2>2, <2>3, <2>4, <2>5
      <3>2. ends'[i] + k \in 1 .. Cells'
        <4>1. i \in 1 .. len + 1 /\ i + 1 \in 1 .. len + 1 /\ i + 1 <= n + 1
          BY <1>3, <2>2, <3>1
        <4>2. /\ ends[i] \in Nat /\ ends[i + 1] \in Nat /\ ends[n + 1] \in Nat
              /\ Len(log[i]) \in Nat /\ k \in 1 .. Len(log[i]) + 2
          BY <1>3, <2>2, <3>1, <4>1
        <4>3. ends[i + 1] = ends[i] + 2 + Len(log[i]) /\ ends[i + 1] <= ends[n + 1]
          BY <1>1, <2>2, <3>1, <4>1 DEF Layout, len
        <4>4. ends[i] + k \in 1 .. Len(disk)
          BY <1>3, <2>1, <4>2, <4>3, Between
        <4> QED BY <1>5, <3>1, <4>4
      <3>3. ends[i] + k \in 1 .. Cells
        BY <1>1, <3>1, Inside DEF len
      <3>4. PICK x \in 1 .. Cells : x = ends[i] + k /\ x \in 1 .. Cells' /\ x <= Len(disk)
        BY <1>3, <1>5, <3>1, <3>2, <3>3
      <3>5. Image[x] = disk[x] /\ Image'[x] = disk[x]
        BY <1>2, <3>4 DEF Image
      <3>6. Image[ends[i] + k] = Record(log[i])[k]
        BY <1>1, <3>1 DEF Contents, len
      <3> QED BY <3>1, <3>4, <3>5, <3>6
    <2>10. Partial'
      <3>1. CASE n < len
        <4>1. n + 1 \in 1 .. len /\ n + 2 \in 1 .. len + 1 /\ n + 1 + 1 = n + 2
          BY <1>3, <2>2, <3>1
        <4> DEFINE a == ends[n + 1]
                   l == Len(log[n + 1])
        <4>2. ends[n + 2] = a + 2 + l /\ a \in Nat /\ l \in Nat /\ l \in Cell
          BY <1>1, <1>3, <4>1, PcapAssumption DEF Layout, len
        <4>3. Image[a + 2] = l /\ a + 2 \in 1 .. Cells
          <5>1. 2 \in 1 .. l + 2
            BY <4>2
          <5>2. Image[a + 2] = Record(log[n + 1])[2]
            BY <1>1, <4>1, <5>1 DEF Contents, len
          <5>3. Record(log[n + 1])[2] = l
            BY <1>3, <4>1, Records
          <5>4. a + 2 \in 1 .. Cells
            BY <1>1, <4>1, <5>1, Inside DEF len
          <5> QED BY <5>2, <5>3, <5>4
        <4>4. ends'[Len(log') + 1] = a
          BY <2>2, <2>3, <2>4
        <4>5. ASSUME a + 2 <= Len(disk) PROVE a + 2 + disk[a + 2] > Len(disk)
          <5>1. disk[a + 2] = l
            BY <4>3, <4>5 DEF Image
          <5>2. a + 2 + l > Len(disk)
            BY <2>1, <3>1, <4>2
          <5> QED BY <5>1, <5>2
        <4> QED BY <1>2, <4>4, <4>5 DEF Partial
      <3>2. CASE ~(n < len)
        <4>1. n = len /\ torn' = torn
          BY <1>3, <2>1, <2>2, <3>2
        <4>2. ends'[Len(log') + 1] = ends[len + 1]
          BY <2>2, <2>3, <2>4, <4>1
        <4> QED BY <1>1, <1>2, <4>1, <4>2 DEF Partial, len
      <3> QED BY <3>1, <3>2
    <2>11. Trusted => passed <= n
      <3> SUFFICES ASSUME Trusted, ~(passed <= n) PROVE FALSE
        OBVIOUS
      <3>1. n < len /\ n + 2 \in 1 .. len + 1 /\ passed + 1 \in 1 .. len + 1 /\ n + 2 <= passed + 1
        BY <1>3, <1>9, <2>2 DEF len
      <3>2. ends[n + 2] <= ends[passed + 1]
        BY <1>1, <3>1 DEF Layout, len
      <3> QED BY <1>3, <1>9, <2>1, <3>1, <3>2
    <2>12. Place'
      <3>1. Trusted => passed + 1 \in 1 .. n + 1
        BY <1>3, <2>2, <2>11
      <3>2. Trusted => ends'[passed + 1] = ends[passed + 1]
        BY <2>4, <3>1
      <3>3. Trusted => Received'
        <4> SUFFICES ASSUME Trusted, NEW j \in 1 .. Len(recvd)
                     PROVE  /\ recvd[j].rec \in 1 .. passed
                            /\ recvd[j].data = log'[recvd[j].rec]
                            /\ j > 1 => recvd[j - 1].rec < recvd[j].rec
          BY <1>2 DEF Received
        <4>1. /\ recvd[j].rec \in 1 .. passed
              /\ recvd[j].data = log[recvd[j].rec]
              /\ j > 1 => recvd[j - 1].rec < recvd[j].rec
          BY <1>9 DEF Received
        <4>2. recvd[j].rec \in 1 .. n
          BY <1>3, <2>2, <2>11, <4>1
        <4> QED BY <2>3, <4>1, <4>2
      <3> QED BY <1>2, <1>5, <1>7, <1>8, <1>9, <1>10, <2>3, <2>11, <3>2, <3>3 DEF Place
    <2> QED BY <1>6, <2>7, <2>8, <2>9, <2>10, <2>12 DEF IInv
  <1> QED BY <1>11, <1>12

-------------------------------------------------------------------------------
(* The reader leaves the file and the writer alone.                        *)
LEMMA ReaderInv ==
  ASSUME IInv,
         disk' = disk, wbuf' = wbuf, writer' = writer, sticky' = sticky,
         log' = log, ends' = ends, torn' = torn,
         reader' \in {"closed", "open"}, cursor' \in Nat, atEof' \in BOOLEAN,
         passed' \in Nat, recvd' \in Seq([rec : Nat, data : Seq(Cell)]),
         lost' \in {"no", "short", "small", "torn", "truncated"},
         Place'
  PROVE  IInv'
  <1>1. Shape /\ Flags /\ Layout /\ Contents /\ Partial
    BY DEF IInv
  <1>2. Shape'
    BY <1>1 DEF Shape
  <1>3. Flags'
    BY <1>1, Zenon DEF Flags
  <1>4. Cells' = Cells
    BY DEF Cells
  <1>5. Image' = Image
    BY <1>4 DEF Image
  <1>6. Layout' /\ Contents' /\ Partial'
    BY <1>1, <1>4, <1>5 DEF Layout, Contents, Partial, Record
  <1> QED BY <1>2, <1>3, <1>6 DEF IInv

LEMMA OpenReadInv == ASSUME IInv, OpenRead PROVE IInv'
  <1>1. Shape /\ Layout /\ Flags
    BY DEF IInv
  <1>2. /\ Len(disk) >= 1 /\ reader' = "open" /\ cursor' = 1 /\ atEof' = FALSE
        /\ disk' = disk /\ wbuf' = wbuf /\ writer' = writer /\ sticky' = sticky
        /\ passed' = 0 /\ recvd' = <<>> /\ lost' = "no"
        /\ log' = log /\ ends' = ends /\ torn' = torn
    BY DEF OpenRead, OpenReading
  <1>3. Len(disk) \in Nat /\ Len(wbuf) \in Nat /\ Len(log) \in Nat
    BY <1>1, Elements
  <1>4. ends[1] = 1
    BY <1>1, <1>2, <1>3 DEF Layout, Cells
  <1>5. Place'
    BY <1>2, <1>3, <1>4 DEF Place, Trusted, Received
  <1>6. atEof' \in BOOLEAN
    BY <1>2, Zenon
  <1>7. recvd' \in Seq([rec : Nat, data : Seq(Cell)])
    <2> DEFINE R == [rec : Nat, data : Seq(Cell)]
    <2> HIDE DEF R
    <2>1. <<>> \in Seq(R)
      OBVIOUS
    <2> QED BY <1>2, <2>1 DEF R
  <1>8. /\ reader' \in {"closed", "open"} /\ cursor' \in Nat /\ passed' \in Nat
        /\ lost' \in {"no", "short", "small", "torn", "truncated"}
    BY <1>2
  <1> QED BY <1>2, <1>5, <1>6, <1>7, <1>8, ReaderInv

LEMMA CloseReadInv == ASSUME IInv, CloseRead PROVE IInv'
  <1>1. Shape /\ Flags /\ Place
    BY DEF IInv
  <1>2. /\ reader' = "closed" /\ cursor' = cursor /\ atEof' = atEof
        /\ disk' = disk /\ wbuf' = wbuf /\ writer' = writer /\ sticky' = sticky
        /\ passed' = passed /\ recvd' = recvd /\ lost' = lost
        /\ log' = log /\ ends' = ends /\ torn' = torn
    BY DEF CloseRead, CloseReading
  <1>3. Place'
    BY <1>1, <1>2 DEF Place, Trusted, Received
  <1> QED BY <1>1, <1>2, <1>3, ReaderInv DEF Shape, Flags

LEMMA PollEofInv == ASSUME IInv, PollEof PROVE IInv'
  <1>1. Shape /\ Flags /\ Place
    BY DEF IInv
  <1>2. /\ reader' = reader /\ cursor' = cursor /\ atEof' = ~CanRead(cursor, 1)
        /\ disk' = disk /\ wbuf' = wbuf /\ writer' = writer /\ sticky' = sticky
        /\ passed' = passed /\ recvd' = recvd /\ lost' = lost
        /\ log' = log /\ ends' = ends /\ torn' = torn
    BY DEF PollEof, Eof
  <1>3. sticky /\ atEof => atEof'
    BY <1>2 DEF CanRead
  <1>4. Place'
    BY <1>1, <1>2, <1>3 DEF Place, Trusted, Received
  <1>5. atEof' \in BOOLEAN
    BY <1>2
  <1> QED BY <1>1, <1>2, <1>4, <1>5, ReaderInv DEF Shape

-------------------------------------------------------------------------------
(* recv().  A reader in step that finds a header and what it says follows  *)
(* stands before the next record, and finds its packet.                    *)
LEMMA AtRecord ==
  ASSUME IInv, InStep, ~AtTear, HeaderHere, cursor + 2 + OriginalLen <= Len(disk)
  PROVE  /\ passed + 1 \in 1 .. Len(log)
         /\ OriginalLen = Len(log[passed + 1])
         /\ cursor + 2 + OriginalLen = ends[passed + 2]
         /\ \A k \in 1 .. OriginalLen : disk[cursor + 2 + k] = log[passed + 1][k]
  <1> DEFINE n == Len(log)
             p == passed
             d == Len(disk)
  <1>1. Shape /\ Layout /\ Contents /\ Partial /\ Place
    BY DEF IInv
  <1>2. /\ d \in Nat /\ n \in Nat /\ Cells \in Nat /\ p \in Nat /\ cursor \in Nat /\ torn \in Nat
        /\ Len(wbuf) \in Nat
        /\ \A i \in 1 .. n : log[i] \in Payloads /\ Len(log[i]) \in Nat
        /\ \A i \in 1 .. n + 1 : ends[i] \in Nat
    BY <1>1, Elements DEF Shape
  <1>3. lost = "no" /\ Trusted
    BY DEF InStep, Trusted
  <1>4. cursor = ends[p + 1] /\ p <= n
    BY <1>1, <1>3 DEF Place
  <1>5. cursor + 2 <= d
    BY DEF HeaderHere, CanRead
  <1>6. p # n
    <2> SUFFICES ASSUME p = n PROVE FALSE
      OBVIOUS
    <2>1. torn = 0
      BY <1>2 DEF AtTear
    <2>2. ends[n + 1] = cursor
      BY <1>4
    <2>3. cursor + 2 + disk[cursor + 2] > d
      BY <1>1, <1>5, <2>1, <2>2 DEF Partial
    <2>4. disk[cursor + 2] \in Nat
      <3>1. PICK x \in 1 .. Len(disk) : x = cursor + 2
        BY <1>2, <1>5
      <3>2. disk \in Seq(Cell)
        BY <1>1 DEF Shape
      <3>3. disk[x] \in Cell
        BY <3>1, <3>2
      <3> QED BY <3>1, <3>3, FileAssumption
    <2> QED BY <1>2, <2>3, <2>4 DEF OriginalLen
  <1>7. p + 1 \in 1 .. n /\ p + 1 \in 1 .. n + 1 /\ p + 2 \in 1 .. n + 1 /\ p + 1 + 1 = p + 2
    BY <1>2, <1>4, <1>6
  <1> DEFINE l == Len(log[p + 1])
  <1>8. l \in Nat /\ log[p + 1] \in Payloads /\ ends[p + 2] = cursor + 2 + l
    BY <1>1, <1>2, <1>4, <1>7 DEF Layout
  <1>9. \A k \in 1 .. l + 2 : Image[cursor + k] = Record(log[p + 1])[k] /\ cursor + k \in 1 .. Cells
    BY <1>1, <1>4, <1>7, Inside DEF Contents
  <1>10. OriginalLen = l
    <2>1. 2 \in 1 .. l + 2
      BY <1>8
    <2>2. Image[cursor + 2] = Record(log[p + 1])[2] /\ cursor + 2 \in 1 .. Cells
      BY <1>9, <2>1
    <2>3. Image[cursor + 2] = disk[cursor + 2]
      BY <1>5, <2>2 DEF Image
    <2>4. Record(log[p + 1])[2] = l
      BY <1>8, Records
    <2> QED BY <2>2, <2>3, <2>4 DEF OriginalLen
  <1>11. ASSUME NEW k \in 1 .. l
         PROVE  disk[cursor + 2 + k] = log[p + 1][k]
    <2>1. k + 2 \in 1 .. l + 2 /\ cursor + (k + 2) = cursor + 2 + k /\ cursor + (k + 2) <= d
      <3>1. k \in Nat /\ 1 <= k /\ k <= l /\ l \in Nat
        BY <1>8
      <3>2. cursor \in Nat /\ d \in Nat /\ cursor + 2 + l <= d
        BY <1>2, <1>10
      <3> HIDE DEF l, d
      <3> QED BY <3>1, <3>2
    <2>2. Image[cursor + (k + 2)] = Record(log[p + 1])[k + 2] /\ cursor + (k + 2) \in 1 .. Cells
      BY <1>9, <2>1
    <2>3. Image[cursor + (k + 2)] = disk[cursor + (k + 2)]
      BY <2>1, <2>2 DEF Image
    <2>4. Record(log[p + 1])[k + 2] = log[p + 1][k]
      BY <1>8, Records
    <2> QED BY <2>1, <2>2, <2>3, <2>4
  <1> QED BY <1>7, <1>8, <1>10, <1>11

(* A recv() that does not go by a record.                                  *)
LEMMA NoRecordInv ==
  ASSUME IInv, NEW cause \in {"short", "small"},
         lost' = Now(cause), cause = "short" => atEof' = TRUE, cursor' \in Nat,
         disk' = disk, wbuf' = wbuf, writer' = writer, reader' = reader, sticky' = sticky,
         log' = log, ends' = ends, torn' = torn, passed' = passed, recvd' = recvd,
         atEof' = atEof \/ atEof' = TRUE
  PROVE  IInv'
  <1>1. Shape /\ Flags /\ Place
    BY DEF IInv
  <1>2. Trusted' => Trusted
    BY DEF Trusted, Now, InStep
  <1>3. lost' # "no"
    BY DEF Now, InStep
  <1>4. lost' = "short" /\ sticky => atEof'
    BY <1>1 DEF Now, InStep, Place
  <1>5. Place'
    BY <1>1, <1>2, <1>3, <1>4 DEF Place, Received
  <1>6. lost' \in {"no", "short", "small", "torn", "truncated"}
    BY <1>1 DEF Now, Shape
  <1>7. atEof' \in BOOLEAN
    BY <1>1, Zenon DEF Flags
  <1> QED BY <1>1, <1>5, <1>6, <1>7, ReaderInv DEF Shape

LEMMA RecvNoHeaderInv == ASSUME IInv, RecvNoHeader PROVE IInv'
  <1>1. Shape /\ Flags /\ Place
    BY DEF IInv
  <1>2. /\ atEof' = TRUE /\ disk' = disk /\ wbuf' = wbuf /\ writer' = writer
        /\ reader' = reader /\ sticky' = sticky
        /\ log' = log /\ ends' = ends /\ torn' = torn /\ passed' = passed /\ recvd' = recvd
        /\ lost' = IF cursor' = cursor THEN lost ELSE Now("short")
    BY DEF RecvNoHeader, ReadShort
  <1>3. cursor' \in Nat
    BY <1>1, Elements DEF RecvNoHeader, ReadShort, Shape
  <1>4. CASE cursor' = cursor
    <2>1. Place'
      BY <1>1, <1>2, <1>4 DEF Place, Trusted, Received
    <2> QED BY <1>1, <1>2, <1>3, <1>4, <2>1, ReaderInv DEF Shape
  <1>5. CASE cursor' # cursor
    BY <1>2, <1>3, <1>5, NoRecordInv
  <1> QED BY <1>4, <1>5

LEMMA RecvTooSmallInv == ASSUME IInv, NEW n \in Buflens, RecvTooSmall(n) PROVE IInv'
  <1>1. /\ atEof' = atEof /\ disk' = disk /\ wbuf' = wbuf /\ writer' = writer
        /\ reader' = reader /\ sticky' = sticky /\ cursor' = cursor + 2
        /\ log' = log /\ ends' = ends /\ torn' = torn /\ passed' = passed /\ recvd' = recvd
        /\ lost' = Now("small")
    BY DEF RecvTooSmall, Consume
  <1>2. cursor' \in Nat
    BY <1>1 DEF IInv, Shape
  <1> QED BY <1>1, <1>2, NoRecordInv

LEMMA RecvNoBodyInv == ASSUME IInv, NEW n \in Buflens, RecvNoBody(n) PROVE IInv'
  <1>1. /\ atEof' = TRUE /\ disk' = disk /\ wbuf' = wbuf /\ writer' = writer
        /\ reader' = reader /\ sticky' = sticky
        /\ log' = log /\ ends' = ends /\ torn' = torn /\ passed' = passed /\ recvd' = recvd
        /\ lost' = Now("short")
    BY DEF RecvNoBody, ReadShort
  <1>2. cursor' \in Nat
    BY Elements DEF RecvNoBody, ReadShort, IInv, Shape
  <1> QED BY <1>1, <1>2, NoRecordInv


(* A recv() that goes by a record, or leaves a tear behind.                *)
LEMMA PassInv ==
  ASSUME IInv, HeaderHere, cursor + 2 + OriginalLen <= Len(disk),
         OriginalLen \in Nat, cursor' = cursor + 2 + OriginalLen,
         disk' = disk, wbuf' = wbuf, writer' = writer, reader' = reader,
         sticky' = sticky, atEof' = atEof,
         log' = log, ends' = ends, torn' = torn,
         passed' = Passing, lost' = Now("no"),
         recvd' \in Seq([rec : Nat, data : Seq(Cell)]),
         InStep /\ ~AtTear => Received'
  PROVE  IInv'
  <1>1. Shape /\ Flags /\ Place
    BY DEF IInv
  <1>2. passed \in Nat /\ cursor \in Nat /\ Len(log) \in Nat /\ Len(disk) \in Nat
    BY <1>1, Elements DEF Shape
  <1>3. passed' \in Nat /\ cursor' \in Nat
    BY <1>2 DEF Passing
  <1>4. lost' \in {"no", "short", "small", "torn", "truncated"}
    BY <1>1 DEF Now, Shape
  <1>5. Place'
    <2>1. CASE InStep /\ ~AtTear
      <3>1. passed' = passed + 1 /\ lost' = "no"
        BY <2>1 DEF Passing, Now, InStep
      <3>2. passed + 1 \in 1 .. Len(log) /\ cursor' = ends[passed + 2]
        BY <2>1, AtRecord
      <3>3. passed' + 1 = passed + 2
        BY <1>2, <3>1
      <3>4. lost' = "no" => cursor' = ends'[passed' + 1]
        BY <3>2, <3>3
      <3>5. passed' <= Len(log') /\ ends'[passed' + 1] <= Len(disk')
        BY <1>2, <3>1, <3>2, <3>3
      <3> QED BY <2>1, <3>1, <3>4, <3>5 DEF Place
    <2>2. CASE InStep /\ AtTear
      BY <2>2 DEF Place, Trusted, Now
    <2>3. CASE ~InStep
      <3>1. lost' = lost /\ lost # "no"
        BY <2>3 DEF Now, InStep
      <3>2. ~(lost = "short" /\ sticky)
        BY <1>1 DEF HeaderHere, CanRead, Place
      <3> QED BY <3>1, <3>2 DEF Place, Trusted
    <2> QED BY <2>1, <2>2, <2>3
  <1> QED BY <1>1, <1>3, <1>4, <1>5, ReaderInv DEF Shape, Flags

LEMMA RecvEmptyInv == ASSUME IInv, RecvEmpty PROVE IInv'
  <1>1. Shape /\ Place
    BY DEF IInv
  <1>2. /\ atEof' = atEof /\ disk' = disk /\ wbuf' = wbuf /\ writer' = writer
        /\ reader' = reader /\ sticky' = sticky /\ cursor' = cursor + 2
        /\ log' = log /\ ends' = ends /\ torn' = torn /\ recvd' = recvd
        /\ passed' = Passing /\ lost' = Now("no")
        /\ HeaderHere /\ OriginalLen = 0
    BY DEF RecvEmpty, Consume
  <1>3. cursor \in Nat /\ passed \in Nat /\ cursor + 2 <= Len(disk)
    BY <1>1, <1>2 DEF Shape, HeaderHere, CanRead
  <1>4. /\ cursor' = cursor + 2 + OriginalLen /\ cursor + 2 + OriginalLen <= Len(disk)
        /\ OriginalLen \in Nat
    BY <1>2, <1>3
  <1>5. recvd' \in Seq([rec : Nat, data : Seq(Cell)])
    BY <1>1, <1>2 DEF Shape
  <1>6. InStep /\ ~AtTear => Received'
    <2> SUFFICES ASSUME InStep, ~AtTear, NEW j \in 1 .. Len(recvd)
                 PROVE  /\ recvd[j].rec \in 1 .. passed'
                        /\ recvd[j].data = log[recvd[j].rec]
                        /\ j > 1 => recvd[j - 1].rec < recvd[j].rec
      BY <1>2 DEF Received
    <2>1. Received /\ passed' = passed + 1
      BY <1>1, <1>2 DEF Place, Trusted, InStep, Passing
    <2>2. recvd[j].rec \in 1 .. passed
      BY <2>1 DEF Received
    <2>3. recvd[j].rec \in 1 .. passed'
      BY <1>3, <2>1, <2>2
    <2> QED BY <2>1, <2>3 DEF Received
  <1> QED BY <1>2, <1>4, <1>5, <1>6, PassInv

LEMMA RecvPacketInv == ASSUME IInv, NEW n \in Buflens, RecvPacket(n) PROVE IInv'
  <1> DEFINE got == SubSeq(disk, cursor + 3, cursor + 2 + OriginalLen)
             R   == [rec : Nat, data : Seq(Cell)]
             new == [rec |-> passed', data |-> got]
  <1>1. Shape /\ Place
    BY DEF IInv
  <1>2. /\ atEof' = atEof /\ disk' = disk /\ wbuf' = wbuf /\ writer' = writer
        /\ reader' = reader /\ sticky' = sticky /\ cursor' = cursor + (2 + OriginalLen)
        /\ log' = log /\ ends' = ends /\ torn' = torn
        /\ passed' = Passing /\ lost' = Now("no")
        /\ HeaderHere /\ 0 < OriginalLen
        /\ cursor + 2 + OriginalLen <= Len(disk)
        /\ recvd' = Append(recvd, new)
    BY DEF RecvPacket, Consume, CanRead
  <1>3. cursor \in Nat /\ passed \in Nat /\ cursor + 2 <= Len(disk) /\ Len(disk) \in Nat
    BY <1>1, <1>2, Elements DEF Shape, HeaderHere, CanRead
  <1>4. OriginalLen \in Nat
    <2>1. PICK x \in 1 .. Len(disk) : x = cursor + 2
      BY <1>3
    <2>2. disk \in Seq(Cell)
      BY <1>1 DEF Shape
    <2>3. disk[x] \in Cell
      BY <2>1, <2>2
    <2> QED BY <2>1, <2>3, FileAssumption DEF OriginalLen
  <1>5. /\ got \in Seq(Cell) /\ Len(got) = OriginalLen
        /\ \A k \in 1 .. OriginalLen : got[k] = disk[cursor + 2 + k]
    <2> DEFINE a == cursor + 3
               b == cursor + 2 + OriginalLen
    <2>1. a \in Nat \ {0} /\ b \in Nat /\ b <= Len(disk) /\ a <= b + 1 /\ b - a + 1 = OriginalLen
      BY <1>2, <1>3, <1>4
    <2>2. disk \in Seq(Cell)
      BY <1>1 DEF Shape
    <2>3. \A k \in 1 .. OriginalLen : a + k - 1 = cursor + 2 + k
      BY <1>3, <1>4
    <2>4. got = SubSeq(disk, a, b)
      OBVIOUS
    <2> HIDE DEF a, b, got
    <2> QED BY <2>1, <2>2, <2>3, <2>4, SubSeqParts
  <1>6. passed' \in Nat
    BY <1>2, <1>3 DEF Passing
  <1> HIDE DEF got
  <1>7. new \in R
    BY <1>5, <1>6
  <1>8. recvd \in Seq(R)
    BY <1>1 DEF Shape
  <1> HIDE DEF R, new
  <1>9. /\ recvd' \in Seq(R) /\ Len(recvd') = Len(recvd) + 1 /\ recvd'[Len(recvd) + 1] = new
        /\ \A j \in 1 .. Len(recvd) : recvd'[j] = recvd[j]
    BY <1>2, <1>7, <1>8, AppendParts
  <1>10. InStep /\ ~AtTear => Received'
    <2> SUFFICES ASSUME InStep, ~AtTear PROVE Received'
      OBVIOUS
    <2>1. Received /\ passed' = passed + 1
      BY <1>1, <1>2 DEF Place, Trusted, InStep, Passing
    <2>2. /\ passed + 1 \in 1 .. Len(log) /\ OriginalLen = Len(log[passed + 1])
          /\ \A k \in 1 .. OriginalLen : disk[cursor + 2 + k] = log[passed + 1][k]
      BY <1>2, AtRecord
    <2>3. got = log[passed + 1]
      <3>1. log[passed + 1] \in Payloads
        BY <1>1, <2>2, Elements
      <3>2. PICK q \in Seq(Cell) : q = log[passed + 1]
        BY <3>1, PcapAssumption
      <3>3. \A k \in 1 .. Len(got) : got[k] = q[k]
        BY <1>5, <2>2, <3>2
      <3>4. Len(got) = Len(q)
        BY <1>5, <2>2, <3>2
      <3>5. got = q
        BY <1>5, <3>3, <3>4
      <3> QED BY <3>2, <3>5
    <2>4. new.rec = passed + 1 /\ new.data = log[passed + 1]
      BY <2>1, <2>3 DEF new
    <2>5. Len(recvd) \in Nat
      BY <1>1, Elements
    <2> SUFFICES ASSUME NEW j \in 1 .. Len(recvd')
                 PROVE  /\ recvd'[j].rec \in 1 .. passed'
                        /\ recvd'[j].data = log[recvd'[j].rec]
                        /\ j > 1 => recvd'[j - 1].rec < recvd'[j].rec
      BY <1>2 DEF Received
    <2>6. CASE j \in 1 .. Len(recvd)
      <3>1. recvd'[j] = recvd[j] /\ recvd[j].rec \in 1 .. passed
            /\ recvd[j].data = log[recvd[j].rec]
        BY <1>9, <2>1, <2>6 DEF Received
      <3>2. j > 1 => recvd'[j - 1].rec < recvd'[j].rec
        <4> SUFFICES ASSUME j > 1 PROVE recvd'[j - 1].rec < recvd'[j].rec
          OBVIOUS
        <4>1. j - 1 \in 1 .. Len(recvd)
          BY <2>5, <2>6
        <4> QED BY <1>9, <2>1, <2>6, <3>1, <4>1 DEF Received
      <3>3. recvd[j].rec \in 1 .. passed'
        BY <1>3, <2>1, <3>1
      <3> QED BY <3>1, <3>2, <3>3
    <2>7. CASE j = Len(recvd) + 1
      <3>1. recvd'[j] = new
        BY <1>9, <2>7
      <3>2. j > 1 => recvd'[j - 1].rec < new.rec
        <4> SUFFICES ASSUME j > 1 PROVE recvd'[j - 1].rec < new.rec
          OBVIOUS
        <4>1. PICK i \in 1 .. Len(recvd) : i = j - 1
          BY <2>5, <2>7
        <4>2. recvd'[i] = recvd[i] /\ recvd[i].rec \in 1 .. passed
          BY <1>9, <2>1, <4>1 DEF Received
        <4>3. recvd[i].rec < passed + 1
          BY <1>3, <4>2
        <4> QED BY <2>4, <4>1, <4>2, <4>3
      <3>3. new.rec \in 1 .. passed'
        BY <1>3, <2>1, <2>4
      <3>4. new.data = log[new.rec]
        BY <2>4
      <3> QED BY <3>1, <3>2, <3>3, <3>4
    <2>8. j \in 1 .. Len(recvd) \/ j = Len(recvd) + 1
      BY <1>9, <2>5
    <2> QED BY <2>6, <2>7, <2>8
  <1>11. cursor' = cursor + 2 + OriginalLen
    BY <1>2, <1>3, <1>4
  <1> QED BY <1>2, <1>4, <1>9, <1>10, <1>11, PassInv DEF R

LEMMA NextInv == ASSUME IInv, [Next]_vars PROVE IInv'
  <1>1. CASE OpenWrite
    BY <1>1, OpenWriteInv
  <1>2. CASE FlushSome
    BY <1>2, FlushInv
  <1>3. CASE CloseWrite
    BY <1>3, CloseWriteInv
  <1>4. CASE Crash
    BY <1>4, CrashInv
  <1>5. ASSUME NEW p \in Payloads, Send(p) PROVE IInv'
    BY <1>5, SendInv
  <1>6. ASSUME NEW p \in Payloads, SendFails(p) PROVE IInv'
    BY <1>6, SendFailsInv
  <1>7. CASE OpenRead
    BY <1>7, OpenReadInv
  <1>8. CASE CloseRead
    BY <1>8, CloseReadInv
  <1>9. CASE PollEof
    BY <1>9, PollEofInv
  <1>10. ASSUME NEW n \in Buflens, Recv(n) PROVE IInv'
    <2>1. CASE RecvNoHeader
      BY <2>1, RecvNoHeaderInv
    <2>2. CASE RecvTooSmall(n)
      BY <2>2, RecvTooSmallInv
    <2>3. CASE RecvEmpty
      BY <2>3, RecvEmptyInv
    <2>4. CASE RecvNoBody(n)
      BY <2>4, RecvNoBodyInv
    <2>5. CASE RecvPacket(n)
      BY <2>5, RecvPacketInv
    <2> QED BY <1>10, <2>1, <2>2, <2>3, <2>4, <2>5 DEF Recv
  <1>11. CASE UNCHANGED vars
    <2>1. Cells' = Cells
      BY <1>11 DEF vars, fileVars, Cells
    <2>2. Image' = Image
      BY <1>11, <2>1 DEF vars, fileVars, Image
    <2> QED
      BY <1>11, <2>1, <2>2, ZenonT(60)
      DEF vars, fileVars, IInv, Shape, Flags, Layout, Contents, Record, Partial, Place, Trusted,
          Received
  <1> QED
    BY <1>1, <1>2, <1>3, <1>4, <1>5, <1>6, <1>7, <1>8, <1>9, <1>10, <1>11 DEF Next

(* The invariant holds of the stream at all times.                         *)
THEOREM Inductive == Spec => []IInv
  <1>1. Init => IInv
    BY InitInv
  <1>2. IInv /\ [Next]_vars => IInv'
    BY NextInv
  <1> QED BY <1>1, <1>2, PTL DEF Spec

(* Every variable keeps its type, and the records' ends, in their order,   *)
(* stay within what was written.                                           *)
THEOREM Typing == Spec => []TypeOK
  <1>1. IInv => TypeOK
    <2> SUFFICES ASSUME IInv PROVE TypeOK
      OBVIOUS
    <2>1. Shape /\ Flags /\ Layout
      BY DEF IInv
    <2>2. Len(log) \in Nat /\ Cells \in Nat
      BY <2>1, Elements
    <2>3. FileTypeOK
      <3>1. {atEof, sticky} \subseteq BOOLEAN
        BY <2>1, Zenon DEF Flags
      <3> QED BY <2>1, <3>1 DEF Shape, FileTypeOK
    <2>4. torn \in 0 .. MaxLog - Len(log)
      BY <2>1, <2>2, PcapAssumption DEF Shape
    <2>5. Last(ends) <= Len(disk) + Len(wbuf)
      BY <2>1, <2>2 DEF Shape, Layout, Last, Cells
    <2> QED BY <2>1, <2>3, <2>4, <2>5 DEF TypeOK, Shape
  <1> QED BY <1>1, Inductive, PTL

(* A reader in step is handed the packet of the next record.               *)
LEMMA GotPacket ==
  ASSUME IInv, NEW n \in Buflens, RecvPacket(n), InStep, ~AtTear
  PROVE  /\ passed + 1 \in 1 .. Len(log) /\ passed' = passed + 1
         /\ recvd' = Append(recvd, [rec |-> passed + 1, data |-> log[passed + 1]])
  <1> DEFINE got == SubSeq(disk, cursor + 3, cursor + 2 + OriginalLen)
  <1>1. Shape /\ Place
    BY DEF IInv
  <1>2. /\ HeaderHere /\ cursor + 2 + OriginalLen <= Len(disk)
        /\ recvd' = Append(recvd, [rec |-> passed', data |-> got])
        /\ passed' = passed + 1
    BY DEF RecvPacket, CanRead, Passing
  <1>3. passed + 1 \in 1 .. Len(log)
    BY <1>2, AtRecord
  <1>4. IInv'
    BY RecvPacketInv
  <1>5. Len(recvd) \in Nat /\ recvd \in Seq([rec : Nat, data : Seq(Cell)])
    BY <1>1, Elements DEF Shape
  <1>6. Received'
    BY <1>2, <1>4 DEF IInv, Place, Trusted, InStep, RecvPacket, Now
  <1> HIDE DEF got
  <1>7. Len(recvd') = Len(recvd) + 1 /\ recvd'[Len(recvd) + 1] = [rec |-> passed + 1, data |-> got]
    BY <1>2, <1>5
  <1>8. recvd'[Len(recvd) + 1].data = log'[recvd'[Len(recvd) + 1].rec]
    BY <1>5, <1>6, <1>7 DEF Received
  <1>9. got = log[passed + 1]
    <2>1. PICK r : r = recvd'[Len(recvd) + 1] /\ r.rec = passed + 1 /\ r.data = got
      BY <1>7
    <2>2. r.data = log'[r.rec]
      BY <1>8, <2>1
    <2>3. log' = log
      BY DEF RecvPacket
    <2> QED BY <2>1, <2>2, <2>3
  <1> QED BY <1>2, <1>3, <1>9

(* A crash takes no packet back that a reader in step has gone by.         *)
LEMMA CrashLoses ==
  ASSUME IInv, Crash, InStep
  PROVE  \E n \in passed .. Len(log) : log' = SubSeq(log, 1, n)
  <1>1. Shape /\ Place
    BY DEF IInv
  <1>2. IInv'
    BY CrashInv
  <1>3. passed <= Len(log')
    BY <1>2 DEF IInv, Place, Trusted, InStep, Crash
  <1>4. log \in Seq(Payloads) /\ Len(log) \in Nat /\ passed \in Nat
    BY <1>1, Elements DEF Shape
  <1>5. PICK n \in 0 .. Len(log) : log' = SubSeq(log, 1, n)
    <2>1. 0 \in 0 .. Len(log) /\ SubSeq(log, 1, 0) = <<>>
      BY <1>4
    <2> QED BY <2>1 DEF Crash
  <1>6. Len(log') = n
    BY <1>4, <1>5
  <1>7. n \in passed .. Len(log)
    BY <1>3, <1>4, <1>6
  <1> QED BY <1>5, <1>7

(* Every step of the stream is a step of the log, or leaves it alone.      *)
LEMMA StepMaps ==
  ASSUME IInv, Next
  PROVE  Abstract!Next \/ UNCHANGED Abstract!vars
  <1> USE DEF Abstract!Next, Abstract!vars
  <1>1. CASE ~InStep'
    BY <1>1 DEF Abstract!Derail
  <1>2. ASSUME UNCHANGED <<log, passed, recvd, lost>>
        PROVE  UNCHANGED Abstract!vars
    BY <1>2 DEF InStep
  <1>3. CASE FlushSome \/ CloseWrite \/ CloseRead \/ PollEof
    BY <1>2, <1>3 DEF FlushSome, CloseWrite, CloseRead, PollEof
  <1>4. CASE OpenWrite
    BY <1>1, <1>4 DEF OpenWrite, InStep
  <1>5. ASSUME NEW p \in Payloads, Send(p)
        PROVE  Abstract!Next \/ UNCHANGED Abstract!vars
    <2>1. UNCHANGED <<passed, recvd, lost>>
      BY <1>5 DEF Send
    <2>2. CASE torn = 0
      BY <1>5, <2>1, <2>2 DEF Send, Logged, Abstract!Put, InStep
    <2>3. CASE torn # 0
      BY <1>2, <1>5, <2>1, <2>3 DEF Send, Logged
    <2> QED BY <2>2, <2>3
  <1>6. ASSUME NEW p \in Payloads, SendFails(p)
        PROVE  UNCHANGED Abstract!vars
    BY <1>2, <1>6 DEF SendFails
  <1>7. CASE Crash
    <2>1. UNCHANGED <<passed, recvd, lost>>
      BY <1>7 DEF Crash
    <2>2. CASE InStep
      BY <1>7, <2>1, <2>2, CrashLoses DEF Abstract!Lose, InStep
    <2>3. CASE ~InStep
      BY <1>1, <2>1, <2>3 DEF InStep
    <2> QED BY <2>2, <2>3
  <1>8. CASE OpenRead
    BY <1>8 DEF OpenRead, Abstract!Reopen, InStep
  <1>9. ASSUME NEW n \in Buflens, Recv(n)
        PROVE  Abstract!Next \/ UNCHANGED Abstract!vars
    <2>1. CASE RecvNoHeader
      <3>1. CASE cursor' = cursor
        BY <1>2, <2>1, <3>1 DEF RecvNoHeader
      <3>2. CASE cursor' # cursor
        BY <1>1, <2>1, <3>2 DEF RecvNoHeader, Now, InStep
      <3> QED BY <3>1, <3>2
    <2>2. CASE RecvTooSmall(n)
      BY <1>1, <2>2 DEF RecvTooSmall, Now, InStep
    <2>3. CASE RecvNoBody(n)
      BY <1>1, <2>3 DEF RecvNoBody, Now, InStep
    <2>4. CASE (RecvEmpty \/ RecvPacket(n)) /\ (AtTear \/ ~InStep)
      BY <1>1, <2>4 DEF RecvEmpty, RecvPacket, Now, InStep
    <2>5. CASE RecvEmpty /\ InStep /\ ~AtTear
      <3>1. Shape
        BY DEF IInv
      <3>2. cursor + 2 + OriginalLen <= Len(disk) /\ HeaderHere /\ OriginalLen = 0
        BY <2>5, <3>1 DEF RecvEmpty, HeaderHere, CanRead, Shape
      <3>3. passed + 1 \in 1 .. Len(log) /\ Len(log[passed + 1]) = 0
        BY <2>5, <3>2, AtRecord
      <3>4. log[passed + 1] = <<>> /\ passed < Len(log)
        BY <3>1, <3>3, Elements, PcapAssumption DEF Shape
      <3>5. passed' = passed + 1 /\ lost' = "no" /\ log' = log /\ recvd' = recvd
        BY <2>5 DEF RecvEmpty, Passing, Now
      <3> QED BY <2>5, <3>4, <3>5 DEF Abstract!Pass, InStep
    <2>6. CASE RecvPacket(n) /\ InStep /\ ~AtTear
      <3>1. Shape
        BY DEF IInv
      <3>2. /\ passed + 1 \in 1 .. Len(log) /\ passed' = passed + 1
            /\ recvd' = Append(recvd, [rec |-> passed + 1, data |-> log[passed + 1]])
        BY <2>6, GotPacket
      <3>3. lost' = "no" /\ log' = log
        BY <2>6 DEF RecvPacket, Now
      <3>4. PICK q \in Seq(Cell) : q = log[passed + 1]
        BY <3>1, <3>2, Elements, PcapAssumption
      <3>5. SubSeq(q, 1, Len(q)) = q /\ Len(q) \in 0 .. Len(q)
        OBVIOUS
      <3>6. passed < Len(log)
        BY <3>1, <3>2 DEF Shape
      <3> QED BY <2>6, <3>2, <3>3, <3>4, <3>5, <3>6 DEF Abstract!Take, InStep
    <2> QED BY <1>9, <2>1, <2>2, <2>3, <2>4, <2>5, <2>6 DEF Recv
  <1> QED BY <1>3, <1>4, <1>5, <1>6, <1>7, <1>8, <1>9 DEF Next

(* The stream is a PacketLog: what is read is what was sent, in order and  *)
(* with nothing skipped, for as long as the reader keeps in step.          *)
THEOREM Implements == Spec => KeepsLog
  <1>1. Init => Abstract!Init
    BY DEF Init, Abstract!Init, InStep
  <1>2. IInv /\ [Next]_vars => [Abstract!Next]_(Abstract!vars)
    <2> SUFFICES ASSUME IInv, [Next]_vars PROVE [Abstract!Next]_(Abstract!vars)
      OBVIOUS
    <2>1. CASE Next
      BY <2>1, StepMaps
    <2>2. CASE UNCHANGED vars
      BY <2>2 DEF vars, InStep, Abstract!vars
    <2> QED BY <2>1, <2>2
  <1> QED BY <1>1, <1>2, Inductive, PTL DEF Spec, KeepsLog, Abstract!Spec

(* What recv() returns was sent, whole and in the order of send().         *)
THEOREM SentOnly == Spec => []NothingInvented
  <1>1. IInv => NothingInvented
    <2> SUFFICES ASSUME IInv, Trusted, NEW j \in DOMAIN recvd
                 PROVE  /\ recvd[j].rec \in DOMAIN log
                        /\ recvd[j].data = log[recvd[j].rec]
                        /\ j > 1 => recvd[j - 1].rec < recvd[j].rec
      BY DEF NothingInvented, Trusted
    <2>1. Shape /\ Place
      BY DEF IInv
    <2>2. Received /\ passed <= Len(log) /\ passed \in Nat
      BY <2>1 DEF Place, Shape
    <2>3. j \in 1 .. Len(recvd) /\ DOMAIN log = 1 .. Len(log) /\ Len(log) \in Nat
      BY <2>1 DEF Shape
    <2>4. recvd[j].rec \in 1 .. passed
      BY <2>2, <2>3 DEF Received
    <2>5. recvd[j].rec \in DOMAIN log
      BY <2>2, <2>3, <2>4
    <2> QED BY <2>2, <2>3, <2>5 DEF Received
  <1> QED BY <1>1, Inductive, PTL
-------------------------------------------------------------------------------
(* The end of the file.  A reader in step that finds no further cell in a  *)
(* file nobody writes has gone by all of its packets.                      *)
LEMMA AllPassed ==
  ASSUME IInv, writer = "closed", lost = "no", ~(sticky /\ atEof), ~CanRead(cursor, 1)
  PROVE  passed = Len(log)
  <1> DEFINE n == Len(log)
             p == passed
  <1>1. Shape /\ Layout /\ Place
    BY DEF IInv
  <1>2. /\ n \in Nat /\ p \in Nat /\ cursor \in Nat /\ Len(disk) \in Nat
        /\ \A i \in 1 .. n : Len(log[i]) \in Nat
        /\ \A i \in 1 .. n + 1 : ends[i] \in Nat
    BY <1>1, Elements DEF Shape
  <1>3. Cells = Len(disk)
    BY <1>1 DEF Shape, Cells
  <1>4. Len(disk) <= cursor
    <2>1. ~(cursor + 1 <= Len(disk))
      BY DEF CanRead
    <2> QED BY <1>2, <2>1
  <1>5. cursor = ends[p + 1] /\ p <= n
    BY <1>1 DEF Place, Trusted
  <1>6. /\ \A i \in 1 .. n : ends[i + 1] = ends[i] + 2 + Len(log[i])
        /\ \A i, j \in 1 .. n + 1 : i <= j => ends[i] <= ends[j]
        /\ ends[n + 1] <= Len(disk)
    BY <1>1, <1>3 DEF Layout
  <1>7. CASE p < n
    <2> DEFINE i == p + 1
    <2>1. i \in 1 .. n /\ i \in 1 .. n + 1 /\ i + 1 \in 1 .. n + 1 /\ n + 1 \in 1 .. n + 1
          /\ i + 1 <= n + 1
      BY <1>2, <1>7
    <2> HIDE DEF i
    <2>2. ends[i + 1] = ends[i] + 2 + Len(log[i]) /\ ends[i + 1] <= ends[n + 1]
      BY <1>6, <2>1
    <2>3. ends[i] = cursor
      BY <1>5 DEF i
    <2>4. Len(log[i]) \in Nat /\ ends[n + 1] \in Nat /\ ends[i + 1] \in Nat
      BY <1>2, <2>1
    <2>5. ends[n + 1] <= Len(disk) /\ cursor \in Nat /\ Len(disk) \in Nat
      BY <1>2, <1>6
    <2> DEFINE end == ends[i + 1]
               len == Len(log[i])
    <2>6. end = cursor + 2 + len /\ end \in Nat /\ len \in Nat
      BY <2>2, <2>3, <2>4
    <2>7. end <= cursor
      BY <1>4, <2>2, <2>4, <2>5
    <2> HIDE DEF end, len
    <2> QED BY <2>5, <2>6, <2>7
  <1> HIDE DEF n, p
  <1>8. p < n \/ p = n
    BY <1>2, <1>5
  <1> QED BY <1>7, <1>8 DEF n, p

(* Whatever a crash, a write() that threw or a close() left of a file that *)
(* nobody writes any more, a reader in step is told the end of it only     *)
(* behind its last packet, unless its indicator is sticky and was set      *)
(* before.                                                                 *)
THEOREM EndsLast == Spec => []EndAfterAll
  <1>1. IInv => EndAfterAll
    <2> SUFFICES ASSUME IInv, writer = "closed", InStep, ~CanRead(cursor, 1),
                        ~(sticky /\ atEof)
                 PROVE  passed = Len(log)
      BY Zenon DEF EndAfterAll
    <2> QED BY AllPassed DEF InStep
  <1> QED BY <1>1, Inductive, PTL
=============================================================================
