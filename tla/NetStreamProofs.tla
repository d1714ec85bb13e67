--------------------------- MODULE NetStreamProofs ---------------------------
(***************************************************************************)
(* Proofs about NetStream: its types, and that recv() returns each frame   *)
(* at most once, in order, none from before open(), and skips none, for    *)
(* every header size and alignment, every set of frame lengths and buffers *)
(* and a kernel that keeps any number of frames.                           *)
(***************************************************************************)
EXTENDS NetStream, WellFoundedInduction, TLAPS

(* The order of the natural numbers, for induction over sets of them.      *)
Below == {ss \in Nat \X Nat : ss[1] < ss[2]}

LEMMA Smallest ==
  ASSUME NEW S \in SUBSET Nat, S # {}
  PROVE  \E n \in S : \A m \in S : n <= m
<1>1. IsWellFoundedOn(Below, Nat)
  <2>1. Below = OpToRel(<, Nat)
    BY DEF Below, OpToRel
  <2> QED BY <2>1, NatLessThanWellFounded, Zenon
<1>2. PICK n \in S : \A m \in S : ~ (<<m, n>> \in Below)
  BY <1>1, WFMin
<1>3. \A m \in S : <<m, n>> \in Below <=> m < n
  BY DEF Below
<1>4. \A m \in S : ~ (m < n) /\ m \in Nat /\ n \in Nat
  BY <1>2, <1>3
<1>5. \A m \in S : n <= m
  BY <1>4
<1> QED BY <1>5

LEMMA SetInduction ==
  ASSUME NEW S, 0 \in S, \A n \in Nat : n \in S => n + 1 \in S
  PROVE  Nat \subseteq S
<1> SUFFICES ASSUME Nat \ S # {} PROVE FALSE
  OBVIOUS
<1>1. PICK n \in Nat \ S : \A m \in Nat \ S : n <= m
  BY Smallest
<1>2. n # 0 /\ n - 1 \in Nat
  BY <1>1
<1>3. n - 1 \in S
  BY <1>1, <1>2
<1> QED BY <1>1, <1>2, <1>3

-------------------------------------------------------------------------------
(* Where a bpf device lays the frames of a buffer.                         *)
LEMMA AlignedUp ==
  ASSUME NEW k \in Nat
  PROVE  Aligned(k) \in Nat /\ Aligned(k) >= k
<1>1. Align \in Nat \ {0}
  BY NetAssumption
<1> DEFINE q == (k + Align - 1) \div Align
           r == (k + Align - 1) % Align
<1>2. q \in Nat /\ r \in 0 .. Align - 1 /\ k + Align - 1 = Align * q + r
  BY <1>1, SMTT(30)
<1>3. Aligned(k) = q * Align
  BY DEF Aligned
<1> HIDE DEF q, r
<1>4. q * Align = Align * q /\ Align * q \in Nat
  BY <1>1, <1>2, SMTT(30)
<1> QED BY <1>1, <1>2, <1>3, <1>4

(* What Start() is defined by.                                             *)
Chain(fs, at, n) ==
  at = [i \in 1 .. n |-> IF i = 1 THEN 0 ELSE Aligned(at[i - 1] + Size(fs[i - 1]))]

LEMMA ChainExists ==
  ASSUME NEW fs, NEW n \in Nat
  PROVE  \E at : Chain(fs, at, n)
<1> DEFINE S == {m \in Nat : \E at : Chain(fs, at, m)}
<1>1. 0 \in S
  <2>1. Chain(fs, [i \in 1 .. 0 |-> 0], 0)
    BY DEF Chain
  <2> QED BY <2>1
<1>2. ASSUME NEW m \in Nat, m \in S PROVE m + 1 \in S
  <2>1. PICK at : Chain(fs, at, m)
    BY <1>2
  <2> DEFINE new == [i \in 1 .. m + 1 |->
                       IF i = 1 THEN 0 ELSE Aligned(at[i - 1] + Size(fs[i - 1]))]
  <2>2. \A i \in 1 .. m : new[i] = at[i]
    BY <2>1 DEF Chain
  <2>3. \A i \in 1 .. m + 1 : i # 1 => new[i - 1] = at[i - 1]
    BY <2>2
  <2>4. Chain(fs, new, m + 1)
    BY <2>3 DEF Chain
  <2> QED BY <2>4
<1>3. Nat \subseteq S
  <2> HIDE DEF S
  <2> QED BY <1>1, <1>2, SetInduction
<1> QED BY <1>3

LEMMA StartChain ==
  ASSUME NEW fs \in Seq(Frame)
  PROVE  Chain(fs, Start(fs), Len(fs))
<1>1. \E at : Chain(fs, at, Len(fs))
  BY ChainExists
<1> QED BY <1>1 DEF Start, Chain

LEMMA SizePositive ==
  ASSUME NEW f \in Frame
  PROVE  Size(f) \in Nat \ {0}
BY NetAssumption DEF Size, Frame

LEMMA StartFacts ==
  ASSUME NEW fs \in Seq(Frame)
  PROVE  /\ \A i \in 1 .. Len(fs) : Start(fs)[i] \in Nat
         /\ Len(fs) > 0 => Start(fs)[1] = 0
         /\ \A i \in 1 .. Len(fs) - 1 : Start(fs)[i + 1] >= Start(fs)[i] + Size(fs[i])
<1> DEFINE at == Start(fs)
           len == Len(fs)
           S == {n \in Nat : n + 1 \in 1 .. len => at[n + 1] \in Nat}
<1>1. /\ len \in Nat
      /\ \A i \in 1 .. len : at[i] = IF i = 1 THEN 0 ELSE Aligned(at[i - 1] + Size(fs[i - 1]))
  <2> HIDE DEF at
  <2> QED BY StartChain DEF Chain, at
<1> HIDE DEF at
<1>2. \A i \in 1 .. len : Size(fs[i]) \in Nat
  BY SizePositive
<1> HIDE DEF len
<1>3. len > 0 => at[1] = 0
  BY <1>1
<1>4. 0 \in S
  <2>1. 0 + 1 \in 1 .. len => at[0 + 1] \in Nat
    BY <1>1
  <2> QED BY <2>1
<1>5. ASSUME NEW n \in Nat, n \in S PROVE n + 1 \in S
  <2> SUFFICES ASSUME n + 2 \in 1 .. len PROVE at[n + 2] \in Nat
    BY <1>1
  <2>1. n + 1 \in 1 .. len /\ n + 2 # 1 /\ (n + 2) - 1 = n + 1
    BY <1>1
  <2>2. at[n + 1] \in Nat /\ Size(fs[n + 1]) \in Nat
    BY <1>2, <1>5, <2>1
  <2>3. at[n + 2] = Aligned(at[n + 1] + Size(fs[n + 1]))
    BY <1>1, <2>1
  <2>4. at[n + 1] + Size(fs[n + 1]) \in Nat
    BY <2>2
  <2> QED BY <2>3, <2>4, AlignedUp
<1>6. Nat \subseteq S
  <2> HIDE DEF S
  <2> QED BY <1>4, <1>5, SetInduction
<1>7. ASSUME NEW i \in 1 .. len PROVE at[i] \in Nat
  <2>1. i - 1 \in Nat /\ (i - 1) + 1 = i
    BY <1>1
  <2>2. i - 1 \in S
    BY <1>6, <2>1
  <2> QED BY <2>1, <2>2
<1>8. ASSUME NEW i \in 1 .. len - 1 PROVE at[i + 1] >= at[i] + Size(fs[i])
  <2>1. i \in 1 .. len /\ i + 1 \in 1 .. len /\ i + 1 # 1 /\ (i + 1) - 1 = i
    BY <1>1
  <2>2. at[i + 1] = Aligned(at[i] + Size(fs[i]))
    BY <1>1, <2>1
  <2>3. at[i] + Size(fs[i]) \in Nat
    BY <1>2, <1>7, <2>1
  <2> QED BY <2>2, <2>3, AlignedUp
<1> QED BY <1>3, <1>7, <1>8 DEF at, len

(* A frame ends before any later one begins.                               *)
LEMMA Disjoint ==
  ASSUME NEW fs \in Seq(Frame), NEW i \in 1 .. Len(fs), NEW j \in 1 .. Len(fs), i < j
  PROVE  Start(fs)[j] >= Start(fs)[i] + Size(fs[i])
<1> DEFINE at == Start(fs)
           len == Len(fs)
           S == {n \in Nat : i + n + 1 \in 1 .. len => at[i + n + 1] >= at[i] + Size(fs[i])}
<1>1. /\ len \in Nat /\ \A k \in 1 .. len : at[k] \in Nat /\ Size(fs[k]) \in Nat
      /\ \A k \in 1 .. len - 1 : at[k + 1] >= at[k] + Size(fs[k])
  BY StartFacts, SizePositive
<1> HIDE DEF at, len
<1>2. i \in 1 .. len /\ j \in 1 .. len
  BY DEF len
<1>3. 0 \in S
  <2> SUFFICES ASSUME i + 1 \in 1 .. len PROVE at[i + 1] >= at[i] + Size(fs[i])
    BY <1>2
  <2>1. i \in 1 .. len - 1
    BY <1>1, <1>2
  <2> QED BY <1>1, <2>1
<1>4. ASSUME NEW n \in Nat, n \in S PROVE n + 1 \in S
  <2> DEFINE k == i + n + 1
  <2>0. k \in Nat /\ i + (n + 1) + 1 = k + 1
    BY <1>1, <1>2
  <2> SUFFICES ASSUME k + 1 \in 1 .. len PROVE at[k + 1] >= at[i] + Size(fs[i])
    BY <2>0
  <2>1. k \in 1 .. len - 1 /\ k \in 1 .. len
    BY <1>1, <1>2
  <2>2. at[k] >= at[i] + Size(fs[i])
    BY <1>4, <2>1
  <2> HIDE DEF k
  <2>3. at[k + 1] >= at[k] + Size(fs[k])
    BY <1>1, <2>1
  <2>4. at[k + 1] \in Nat /\ at[k] \in Nat /\ Size(fs[k]) \in Nat
    BY <1>1, <2>1
  <2>5. at[i] \in Nat /\ Size(fs[i]) \in Nat
    BY <1>1, <1>2
  <2> QED BY <2>2, <2>3, <2>4, <2>5
<1>5. Nat \subseteq S
  <2> HIDE DEF S
  <2> QED BY <1>3, <1>4, SetInduction
<1>6. j - i - 1 \in Nat /\ i + (j - i - 1) + 1 = j
  BY <1>1, <1>2
<1>7. j - i - 1 \in S
  BY <1>5, <1>6
<1> QED BY <1>2, <1>6, <1>7 DEF at

(* Every frame lies within what read() returned.                           *)
LEMMA WithinRead ==
  ASSUME NEW fs \in Seq(Frame)
  PROVE  /\ BytesRead(fs) \in Nat
         /\ \A i \in 1 .. Len(fs) : Start(fs)[i] + Size(fs[i]) <= BytesRead(fs)
<1>1. CASE fs = <<>>
  BY <1>1 DEF BytesRead
<1>2. CASE fs # <<>>
  <2> DEFINE len == Len(fs)
  <2>1. len \in Nat /\ len \in 1 .. len
    BY <1>2
  <2>2. BytesRead(fs) = Start(fs)[len] + Size(fs[len])
    BY <1>2 DEF BytesRead
  <2>3. \A i \in 1 .. len : Start(fs)[i] \in Nat /\ Size(fs[i]) \in Nat
    BY StartFacts, SizePositive
  <2>4. \A i \in 1 .. len : i < len => Start(fs)[len] >= Start(fs)[i] + Size(fs[i])
    BY <2>1, Disjoint
  <2> HIDE DEF len
  <2>5. ASSUME NEW i \in 1 .. len PROVE Start(fs)[i] + Size(fs[i]) <= BytesRead(fs)
    <3>1. CASE i = len
      BY <2>1, <2>2, <2>3, <3>1
    <3>2. CASE i < len
      BY <2>1, <2>2, <2>3, <2>4, <3>2
    <3> QED BY <2>1, <3>1, <3>2
  <2> QED BY <2>1, <2>2, <2>3, <2>5 DEF len
<1> QED BY <1>1, <1>2

-------------------------------------------------------------------------------
(* The inductive invariant.                                                *)
Shape ==
  /\ platform \in Platforms
  /\ fd \in {"none", "unbound", "bound"}
  /\ lost \in {"no", "unset", "unaligned"}
  /\ queue \in Seq(Frame) /\ buffer \in Seq(Frame) /\ Len(queue) <= QueueMax
  /\ point \in {Null, Unset} \cup 0 .. BytesRead(buffer) - 1
  /\ want \in Buflens \cup {0}
  /\ arrived \in 0 .. MaxFrames /\ mark \in 0 .. MaxFrames
  /\ recvd \in Seq([n : 1 .. MaxFrames, len : Nat])
  /\ taken \subseteq 1 .. MaxFrames /\ swallowed \subseteq 1 .. MaxFrames

Flags == opening \in BOOLEAN /\ opened \in BOOLEAN

(* The frames of _buffer that are still to be returned.                    *)
Left == {i \in 1 .. Len(buffer) : point >= 0 /\ Start(buffer)[i] >= point}

(* What is behind arrived later.                                           *)
Increasing(fs) == \A i, j \in 1 .. Len(fs) : i < j => fs[i].n < fs[j].n

Numbers ==
  /\ Increasing(queue) /\ Increasing(buffer)
  /\ \A i \in 1 .. Len(queue) : queue[i].n <= arrived
  /\ \A i \in 1 .. Len(buffer) : buffer[i].n <= arrived
  /\ \A i \in 1 .. Len(buffer), j \in 1 .. Len(queue) : buffer[i].n < queue[j].n

Returned ==
  /\ InOrderOnce
  /\ \A k \in 1 .. Len(recvd) :
       /\ recvd[k].n <= arrived
       /\ \A j \in 1 .. Len(queue) : recvd[k].n < queue[j].n
       /\ \A i \in Left : recvd[k].n < buffer[i].n

(* What is left from before the last open() is not in the way.             *)
Fresh ==
  /\ mark <= arrived
  /\ \A j \in 1 .. Len(queue) : queue[j].n > mark
  /\ opened => \A i \in Left : buffer[i].n > mark
  /\ platform = "linux" => point < 0

Kept ==
  lost = "no" /\ (opened \/ platform = "linux") =>
    taken \subseteq {recvd[j].n : j \in 1 .. Len(recvd)} \cup Pending \cup swallowed

IInv == Shape /\ Flags /\ Numbers /\ Returned /\ Fresh /\ Kept

-------------------------------------------------------------------------------
(* What the lemmas below use of sequences.                                 *)
LEMMA AppendParts ==
  ASSUME NEW S, NEW s \in Seq(S), NEW x \in S
  PROVE  /\ Append(s, x) \in Seq(S) /\ Len(Append(s, x)) = Len(s) + 1
         /\ \A i \in 1 .. Len(s) : Append(s, x)[i] = s[i]
         /\ Append(s, x)[Len(s) + 1] = x
  OBVIOUS

LEMMA SubSeqParts ==
  ASSUME NEW S, NEW s \in Seq(S), NEW a \in 1 .. Len(s) + 1, NEW b \in 0 .. Len(s), a <= b + 1
  PROVE  /\ SubSeq(s, a, b) \in Seq(S) /\ Len(SubSeq(s, a, b)) = b - a + 1
         /\ \A i \in 1 .. b - a + 1 : SubSeq(s, a, b)[i] = s[a + i - 1]
  OBVIOUS

LEMMA TailParts ==
  ASSUME NEW S, NEW s \in Seq(S), s # <<>>
  PROVE  /\ Tail(s) \in Seq(S) /\ Len(Tail(s)) = Len(s) - 1 /\ Len(s) \in Nat \ {0}
         /\ \A i \in 1 .. Len(s) - 1 : Tail(s)[i] = s[i + 1]
         /\ Head(s) = s[1] /\ Head(s) \in S
  OBVIOUS

LEMMA Lens ==
  ASSUME Shape
  PROVE  /\ Len(queue) \in Nat /\ Len(buffer) \in Nat /\ Len(recvd) \in Nat
         /\ \A i \in 1 .. Len(queue) : queue[i] \in Frame /\ queue[i].n \in 1 .. MaxFrames
         /\ \A i \in 1 .. Len(buffer) : buffer[i] \in Frame /\ buffer[i].n \in 1 .. MaxFrames
         /\ \A i \in 1 .. Len(recvd) : recvd[i].n \in 1 .. MaxFrames
         /\ MaxFrames \in Nat /\ QueueMax \in Nat
         /\ arrived \in Nat /\ mark \in Nat /\ arrived <= MaxFrames
<1> USE DEF Shape
<1>1. Len(queue) \in Nat /\ \A i \in 1 .. Len(queue) : queue[i] \in Frame
  OBVIOUS
<1>2. Len(buffer) \in Nat /\ \A i \in 1 .. Len(buffer) : buffer[i] \in Frame
  OBVIOUS
<1>3. Len(recvd) \in Nat /\ \A i \in 1 .. Len(recvd) : recvd[i].n \in 1 .. MaxFrames
  <2> DEFINE R == [n : 1 .. MaxFrames, len : Nat]
  <2>1. \A r \in R : r.n \in 1 .. MaxFrames
    OBVIOUS
  <2>2. recvd \in Seq(R)
    OBVIOUS
  <2> HIDE DEF R
  <2>3. Len(recvd) \in Nat /\ \A i \in 1 .. Len(recvd) : recvd[i] \in R
    BY <2>2
  <2> QED BY <2>1, <2>3
<1>4. MaxFrames \in Nat /\ QueueMax \in Nat
  BY NetAssumption
<1>5. arrived \in Nat /\ mark \in Nat /\ arrived <= MaxFrames
  BY <1>4
<1>6. \A f \in Frame : f.n \in 1 .. MaxFrames
  BY DEF Frame
<1> QED BY <1>1, <1>2, <1>3, <1>4, <1>5, <1>6

LEMMA PendingParts ==
  Pending = {queue[i].n : i \in 1 .. Len(queue)} \cup {buffer[i].n : i \in Left}
  BY DEF Pending, Left

-------------------------------------------------------------------------------
LEMMA InitInv == Init => IInv
<1> SUFFICES ASSUME Init PROVE IInv
  OBVIOUS
<1> USE DEF Init
<1>1. Shape /\ Flags
  <2>1. MaxFrames \in Nat /\ QueueMax \in Nat
    BY NetAssumption
  <2>2. \A S : <<>> \in Seq(S)
    OBVIOUS
  <2>3. queue \in Seq(Frame) /\ buffer \in Seq(Frame) /\ Len(queue) = 0
    BY <2>2
  <2>4. recvd \in Seq([n : 1 .. MaxFrames, len : Nat])
    BY <2>2
  <2>5. /\ point \in {Null, Unset} \cup 0 .. BytesRead(buffer) - 1
        /\ want \in Buflens \cup {0}
    BY Zenon
  <2>6. arrived \in 0 .. MaxFrames /\ mark \in 0 .. MaxFrames /\ Len(queue) <= QueueMax
    BY <2>1, <2>3
  <2>7. /\ platform \in Platforms /\ fd \in {"none", "unbound", "bound"}
        /\ lost \in {"no", "unset", "unaligned"}
        /\ taken \subseteq 1 .. MaxFrames /\ swallowed \subseteq 1 .. MaxFrames
    OBVIOUS
  <2>8. Flags
    BY DEF Flags
  <2> QED BY <2>3, <2>4, <2>5, <2>6, <2>7, <2>8, Zenon DEF Shape
<1>2. Numbers
  BY DEF Numbers, Increasing
<1>3. Returned /\ Fresh
  BY DEF Returned, Fresh, InOrderOnce, Left, Null, Unset
<1>4. Kept
  BY DEF Kept
<1> QED BY <1>1, <1>2, <1>3, <1>4 DEF IInv

(* A frame that arrives is newer than any other.                           *)
LEMMA ArriveInv == ASSUME IInv, NEW len \in Lengths, Arrive(len) PROVE IInv'
<1>1. Shape /\ Flags /\ Numbers /\ Returned /\ Fresh /\ Kept
  BY DEF IInv
<1>2. /\ arrived < MaxFrames /\ arrived' = arrived + 1
      /\ platform' = platform /\ fd' = fd /\ opening' = opening /\ mark' = mark
      /\ opened' = opened /\ buffer' = buffer /\ point' = point /\ want' = want
      /\ recvd' = recvd /\ swallowed' = swallowed /\ lost' = lost
  BY DEF Arrive, calls
<1>3. /\ Left' = Left /\ (InOrderOnce' <=> InOrderOnce)
      /\ arrived + 1 \in 1 .. MaxFrames /\ arrived \in Nat /\ mark \in Nat
  BY <1>1, <1>2, Lens DEF Left, InOrderOnce
<1>4. CASE UNCHANGED <<queue, taken>>
  <2> USE <1>1, <1>2, <1>3, <1>4
  <2>1. Shape' /\ Flags'
    BY DEF Shape, Flags
  <2>2. Numbers'
    BY Lens DEF Numbers, Increasing
  <2>3. Returned'
    BY Lens DEF Returned
  <2>4. Fresh'
    BY Lens DEF Fresh
  <2>5. Pending' = Pending
    BY PendingParts DEF Pending
  <2>6. Kept'
    BY <2>5 DEF Kept
  <2> QED BY <2>1, <2>2, <2>3, <2>4, <2>6 DEF IInv
<1>5. CASE ~ UNCHANGED <<queue, taken>>
  <2> DEFINE q == Len(queue)
             f == [n |-> arrived + 1, len |-> len]
  <2>1. /\ q < QueueMax /\ queue' = Append(queue, f)
        /\ taken' = taken \cup {arrived + 1}
    BY <1>2, <1>5 DEF Arrive
  <2>2. f \in Frame /\ f.n = arrived + 1
    BY <1>3 DEF Frame
  <2>3. q \in Nat /\ queue \in Seq(Frame)
    BY <1>1 DEF Shape
  <2> HIDE DEF f
  <2>4. /\ queue' \in Seq(Frame) /\ Len(queue') = q + 1
        /\ \A i \in 1 .. q : queue'[i] = queue[i]
        /\ queue'[q + 1] = f
    BY <2>1, <2>2, <2>3, AppendParts
  <2> HIDE DEF q
  <2>5. Shape' /\ Flags'
    BY <1>1, <1>2, <1>3, <2>1, <2>3, <2>4, Lens DEF Shape, Flags, q
  <2>6. \A i \in 1 .. q + 1 : \/ i \in 1 .. q /\ queue'[i].n = queue[i].n /\ queue[i].n \in Nat
                              \/ i = q + 1 /\ queue'[i].n = arrived + 1
    <3> SUFFICES ASSUME NEW i \in 1 .. q + 1, i # q + 1
                 PROVE  i \in 1 .. q /\ queue'[i].n = queue[i].n /\ queue[i].n \in Nat
      BY <2>2, <2>4
    <3>1. i \in 1 .. q
      BY <2>3
    <3> QED BY <1>1, <2>4, <3>1, Lens DEF q
  <2>7. \A i \in 1 .. q : queue[i].n <= arrived
    BY <1>1 DEF Numbers, q
  <2>8. Numbers'
    <3>1. Increasing(queue')
      <4> SUFFICES ASSUME NEW i \in 1 .. q + 1, NEW j \in 1 .. q + 1, i < j
                   PROVE  queue'[i].n < queue'[j].n
        BY <2>4 DEF Increasing
      <4>1. i \in 1 .. q /\ queue'[i].n = queue[i].n /\ queue[i].n \in Nat
        BY <2>3, <2>6
      <4>2. CASE j \in 1 .. q
        BY <1>1, <2>6, <4>1, <4>2, <2>4 DEF Numbers, Increasing, q
      <4>3. CASE j = q + 1
        BY <1>3, <2>2, <2>4, <2>7, <4>1, <4>3
      <4> QED BY <2>6, <4>2, <4>3
    <3>2. \A i \in 1 .. q + 1 : queue'[i].n <= arrived + 1
      BY <1>3, <2>6, <2>7
    <3>3. \A i \in 1 .. Len(buffer) : buffer[i].n <= arrived + 1
      BY <1>1, <1>3, Lens DEF Numbers
    <3>4. ASSUME NEW i \in 1 .. Len(buffer), NEW j \in 1 .. q + 1
          PROVE  buffer[i].n < queue'[j].n
      <4>1. /\ buffer[i].n \in Nat /\ buffer[i].n <= arrived
            /\ \A k \in 1 .. q : buffer[i].n < queue[k].n
        BY <1>1, Lens DEF Numbers, q
      <4> QED BY <1>3, <2>6, <4>1
    <3> QED BY <1>1, <1>2, <2>4, <3>1, <3>2, <3>3, <3>4 DEF Numbers
  <2>9. Returned'
    <3>1. ASSUME NEW k \in 1 .. Len(recvd)
          PROVE  /\ recvd[k].n <= arrived + 1
                 /\ \A j \in 1 .. q + 1 : recvd[k].n < queue'[j].n
      <4>1. /\ recvd[k].n \in Nat /\ recvd[k].n <= arrived
            /\ \A j \in 1 .. q : recvd[k].n < queue[j].n
        BY <1>1, Lens DEF Returned, q
      <4> QED BY <1>3, <2>6, <4>1
    <3> QED BY <1>1, <1>2, <1>3, <2>4, <3>1 DEF Returned
  <2>10. Fresh'
    <3>1. mark <= arrived /\ \A j \in 1 .. q : queue[j].n > mark
      BY <1>1 DEF Fresh, q
    <3>2. mark <= arrived + 1 /\ \A j \in 1 .. q + 1 : queue'[j].n > mark
      BY <1>3, <2>6, <3>1
    <3> QED BY <1>1, <1>2, <1>3, <2>4, <3>2 DEF Fresh
  <2>11. Pending \cup {arrived + 1} \subseteq Pending'
    <3>1. ASSUME NEW i \in 1 .. q PROVE queue[i].n \in {queue'[k].n : k \in 1 .. q + 1}
      <4>1. i \in 1 .. q + 1 /\ queue'[i] = queue[i]
        BY <2>3, <2>4
      <4> QED BY <4>1
    <3>2. arrived + 1 \in {queue'[k].n : k \in 1 .. q + 1}
      <4>1. q + 1 \in 1 .. q + 1 /\ queue'[q + 1].n = arrived + 1
        BY <2>2, <2>3, <2>4
      <4> QED BY <4>1
    <3>3. Pending' = {queue'[k].n : k \in 1 .. q + 1} \cup {buffer[k].n : k \in Left}
      BY <1>2, <1>3, <2>4 DEF Pending, Left
    <3> QED BY <3>1, <3>2, <3>3, PendingParts DEF q
  <2>12. Kept'
    BY <1>1, <1>2, <2>1, <2>11 DEF Kept
  <2> QED BY <2>5, <2>8, <2>9, <2>10, <2>12 DEF IInv
<1> QED BY <1>4, <1>5

(* A call that gives the descriptor up, or gets another one: what the      *)
(* kernel kept is gone, what is in _buffer stays.                          *)
LEMMA EmptiedInv ==
  ASSUME IInv, queue' = <<>>, taken' = {}, opened' = FALSE, opening' \in BOOLEAN,
         fd' \in {"none", "unbound", "bound"}, mark' \in {mark, arrived},
         UNCHANGED <<user, point>>
  PROVE  IInv'
<1>1. Shape /\ Flags /\ Numbers /\ Returned /\ Fresh /\ Kept
  BY DEF IInv
<1>2. /\ platform' = platform /\ buffer' = buffer /\ want' = want /\ arrived' = arrived
      /\ recvd' = recvd /\ swallowed' = swallowed /\ lost' = lost /\ point' = point
  BY DEF user
<1>3. /\ Left' = Left /\ (InOrderOnce' <=> InOrderOnce)
      /\ queue' \in Seq(Frame) /\ Len(queue') = 0
  BY <1>2 DEF Left, InOrderOnce
<1>4. Shape'
  BY <1>1, <1>2, <1>3, Lens DEF Shape
<1>5. Flags'
  BY DEF Flags
<1>6. Numbers'
  BY <1>1, <1>2, <1>3 DEF Numbers, Increasing
<1>7. Returned'
  BY <1>1, <1>2, <1>3 DEF Returned
<1>8. Fresh'
  BY <1>1, <1>2, <1>3, Lens DEF Fresh
<1>9. Kept'
  BY DEF Kept
<1> QED BY <1>4, <1>5, <1>6, <1>7, <1>8, <1>9 DEF IInv

(* A step that touches neither frames nor pointer.                         *)
LEMMA QuietInv ==
  ASSUME IInv, opening' \in BOOLEAN, fd' \in {"none", "unbound", "bound"},
         want' \in Buflens \cup {0}, lost' \in {lost, "unset", "unaligned"},
         UNCHANGED <<platform, mark, opened, queue, buffer, point, arrived, recvd,
                     taken, swallowed>>
  PROVE  IInv'
<1>1. Shape /\ Flags /\ Numbers /\ Returned /\ Fresh /\ Kept
  BY DEF IInv
<1>2. Left' = Left /\ Pending' = Pending /\ (InOrderOnce' <=> InOrderOnce)
  BY DEF Left, Pending, InOrderOnce
<1>3. Shape'
  BY <1>1 DEF Shape
<1>4. Flags'
  BY <1>1 DEF Flags
<1>5. Numbers' /\ Returned' /\ Fresh'
  BY <1>1, <1>2 DEF Numbers, Increasing, Returned, Fresh
<1>6. Kept'
  BY <1>1, <1>2 DEF Kept, Shape
<1> QED BY <1>3, <1>4, <1>5, <1>6 DEF IInv

LEMMA OpenDoneInv == IInv /\ OpenDone => IInv'
<1> SUFFICES ASSUME IInv, OpenDone PROVE IInv'
  OBVIOUS
<1>1. Shape /\ Flags /\ Numbers /\ Returned /\ Fresh /\ Kept
  BY DEF IInv
<1>2. /\ fd' = fd /\ mark' = mark /\ opening' = FALSE /\ opened' = TRUE
      /\ platform' = platform /\ buffer' = buffer /\ want' = want /\ arrived' = arrived
      /\ recvd' = recvd /\ swallowed' = swallowed /\ lost' = lost
  BY DEF OpenDone, user
<1>3. Flags' /\ (InOrderOnce' <=> InOrderOnce)
  BY <1>2 DEF Flags, InOrderOnce
<1>4. CASE platform = "bpf"
  <2>1. queue' = <<>> /\ taken' = {} /\ point' = Null
    BY <1>4 DEF OpenDone
  <2>2. queue' \in Seq(Frame) /\ Len(queue') = 0 /\ Left' = {}
    BY <2>1 DEF Left, Null
  <2>3. point' \in {Null, Unset} \cup 0 .. BytesRead(buffer) - 1
    BY <2>1, Zenon
  <2>4. Shape'
    BY <1>1, <1>2, <2>1, <2>2, <2>3, Lens DEF Shape
  <2>5. Numbers'
    BY <1>1, <1>2, <2>2 DEF Numbers, Increasing
  <2>6. Returned' /\ Fresh'
    BY <1>1, <1>2, <1>3, <1>4, <2>2 DEF Returned, Fresh
  <2>7. Kept'
    BY <2>1 DEF Kept
  <2> QED BY <1>3, <2>4, <2>5, <2>6, <2>7 DEF IInv
<1>5. CASE platform # "bpf"
  <2>1. queue' = queue /\ taken' = taken /\ point' = point
    BY <1>5 DEF OpenDone
  <2>2. platform = "linux"
    BY <1>1, <1>5, NetAssumption DEF Shape
  <2>3. Left' = {} /\ Left = {} /\ Pending' = Pending
    <3>1. point < 0 /\ point \in Int
      BY <1>1, <2>2, WithinRead DEF Fresh, Shape, Null, Unset
    <3> QED BY <1>2, <2>1, <3>1 DEF Left, Pending
  <2>4. Shape'
    BY <1>1, <1>2, <2>1 DEF Shape
  <2>5. Numbers' /\ Returned' /\ Fresh'
    BY <1>1, <1>2, <1>3, <2>1, <2>3 DEF Numbers, Increasing, Returned, Fresh
  <2>6. Kept'
    BY <1>1, <1>2, <2>1, <2>2, <2>3 DEF Kept
  <2> QED BY <1>3, <2>4, <2>5, <2>6 DEF IInv
<1> QED BY <1>4, <1>5

LEMMA OpenCloseInv ==
  ASSUME IInv,
         OpenDescriptor \/ OpenNoDescriptor \/ Bind \/ OpenFails \/ OpenDone \/ Close
  PROVE  IInv'
<1>1. Shape /\ Flags
  BY DEF IInv
<1>2. CASE OpenDescriptor
  BY <1>2, EmptiedInv, Zenon DEF OpenDescriptor
<1>3. CASE OpenNoDescriptor
  <2>1. opening' \in BOOLEAN /\ mark' \in {mark, arrived} /\ fd' \in {"none", "unbound", "bound"}
    BY <1>1, <1>3, Zenon DEF OpenNoDescriptor, Flags
  <2> QED BY <1>3, <2>1, EmptiedInv, Zenon DEF OpenNoDescriptor
<1>4. CASE Close
  <2>1. opening' \in BOOLEAN /\ mark' \in {mark, arrived} /\ fd' \in {"none", "unbound", "bound"}
    BY <1>1, <1>4, Zenon DEF Close, Flags
  <2> QED BY <1>4, <2>1, EmptiedInv, Zenon DEF Close
<1>5. CASE Bind \/ OpenFails
  <2>1. /\ opening' \in BOOLEAN
        /\ UNCHANGED <<platform, mark, opened, queue, buffer, point, arrived, recvd,
                       taken, swallowed, want, lost>>
    BY <1>1, <1>5, Zenon DEF Bind, OpenFails, user, Flags
  <2>2. fd' \in {"none", "unbound", "bound"}
    BY <1>1, <1>5 DEF Bind, OpenFails, Shape
  <2>3. want' \in Buflens \cup {0} /\ lost' \in {lost, "unset", "unaligned"}
    BY <1>1, <2>1 DEF Shape
  <2> QED BY <2>1, <2>2, <2>3, QuietInv, Zenon
<1>6. CASE OpenDone
  BY <1>6, OpenDoneInv
<1> QED BY <1>2, <1>3, <1>4, <1>5, <1>6

-------------------------------------------------------------------------------
(* The calls and steps of recv() that return nothing.                      *)
LEMMA RecvQuietInv ==
  ASSUME IInv,
         \/ \E buflen \in Buflens : RecvCall(buflen)
         \/ Interrupted \/ Misread
  PROVE  IInv'
<1>1. Shape /\ Flags
  BY DEF IInv
<1>2. /\ UNCHANGED <<platform, mark, opened, queue, buffer, point, arrived, recvd,
                     taken, swallowed, opening, fd>>
      /\ want' \in Buflens \cup {0} /\ lost' \in {lost, "unset", "unaligned"}
  <2>1. CASE \E buflen \in Buflens : RecvCall(buflen)
    BY <2>1, Zenon DEF RecvCall, calls
  <2>2. CASE Interrupted
    BY <2>2, Zenon DEF Interrupted, calls
  <2>3. CASE Misread
    <3>1. lost' \in {lost, "unset", "unaligned"}
      BY <2>3 DEF Misread
    <3> QED BY <2>3, <3>1, Zenon DEF Misread, calls
  <2> QED BY <2>1, <2>2, <2>3
<1>3. opening' \in BOOLEAN /\ fd' \in {"none", "unbound", "bound"}
  BY <1>1, <1>2 DEF Shape, Flags
<1> QED BY <1>2, <1>3, QuietInv, Zenon

(* A block of the kernel's frames moves into _buffer: all of it is left.   *)
LEMMA ReadBlockInv == IInv /\ ReadBlock => IInv'
<1> SUFFICES ASSUME IInv, ReadBlock PROVE IInv'
  OBVIOUS
<1> DEFINE q == Len(queue)
<1>1. Shape /\ Flags /\ Numbers /\ Returned /\ Fresh /\ Kept
  BY DEF IInv
<1>2. /\ platform' = platform /\ fd' = fd /\ opening' = opening /\ mark' = mark
      /\ opened' = opened /\ want' = want /\ arrived' = arrived /\ recvd' = recvd
      /\ taken' = taken /\ swallowed' = swallowed /\ lost' = lost
      /\ platform = "bpf" /\ point = Null /\ point' = 0 /\ queue # <<>>
  BY DEF ReadBlock, Asks, calls
<1>3. PICK k \in 1 .. q : /\ buffer' = SubSeq(queue, 1, k)
                          /\ queue' = SubSeq(queue, k + 1, q)
  BY DEF ReadBlock
<1>4. q \in Nat /\ queue \in Seq(Frame) /\ k \in 0 .. q /\ 1 \in 1 .. q + 1
      /\ k + 1 \in 1 .. q + 1 /\ q \in 0 .. q /\ k + 1 <= q + 1
  BY <1>1, Lens DEF Shape
<1>5. /\ buffer' \in Seq(Frame) /\ Len(buffer') = k
      /\ \A i \in 1 .. k : i \in 1 .. q /\ buffer'[i] = queue[i]
  <2>1. k - 1 + 1 = k /\ \A i \in 1 .. k : 1 + i - 1 = i
    BY <1>4
  <2> QED BY <1>3, <1>4, <2>1, SubSeqParts
<1>6. /\ queue' \in Seq(Frame) /\ Len(queue') = q - k
      /\ \A i \in 1 .. q - k : k + i \in 1 .. q /\ queue'[i] = queue[k + i]
  <2>1. q - (k + 1) + 1 = q - k /\ \A i \in 1 .. q - k : (k + 1) + i - 1 = k + i
    BY <1>4
  <2>2. \A i \in 1 .. q - k : k + i \in 1 .. q
    BY <1>4
  <2>3. /\ SubSeq(queue, k + 1, q) \in Seq(Frame)
        /\ Len(SubSeq(queue, k + 1, q)) = q - (k + 1) + 1
        /\ \A i \in 1 .. q - (k + 1) + 1 : SubSeq(queue, k + 1, q)[i] = queue[(k + 1) + i - 1]
    BY <1>4, SubSeqParts, Zenon
  <2>4. /\ queue' \in Seq(Frame) /\ Len(queue') = q - k
        /\ \A i \in 1 .. q - k : queue'[i] = queue[(k + 1) + i - 1]
    BY <1>3, <2>1, <2>3, Zenon
  <2>5. \A i \in 1 .. q - k : queue'[i] = queue[k + i]
    BY <2>1, <2>4, Zenon
  <2> QED BY <2>2, <2>4, <2>5
<1> HIDE DEF q
<1>7. Shape' /\ Flags'
  <2>1. q - k <= QueueMax
    BY <1>1, <1>4, Lens DEF Shape, q
  <2>2. 0 \in 0 .. BytesRead(buffer') - 1
    <3>1. /\ BytesRead(buffer') \in Nat
          /\ Start(buffer')[1] + Size(buffer'[1]) <= BytesRead(buffer')
          /\ Start(buffer')[1] \in Nat /\ Size(buffer'[1]) \in Nat \ {0}
      <4>1. 1 \in 1 .. Len(buffer') /\ buffer'[1] \in Frame
        BY <1>5
      <4> QED BY <1>5, <4>1, WithinRead, StartFacts, SizePositive
    <3> QED BY <3>1
  <2> QED BY <1>1, <1>2, <1>5, <1>6, <2>1, <2>2 DEF Shape, Flags
<1>8. Left' = 1 .. k
  <2>1. \A i \in 1 .. k : Start(buffer')[i] >= 0
    BY <1>5, StartFacts
  <2> QED BY <1>2, <1>5, <2>1 DEF Left
<1>9. \A i \in 1 .. q : queue[i].n \in Nat
  BY <1>1, Lens DEF q
<1>10. Numbers'
  <2>1. /\ \A i, j \in 1 .. q : i < j => queue[i].n < queue[j].n
        /\ \A i \in 1 .. q : queue[i].n <= arrived
    BY <1>1 DEF Numbers, Increasing, q
  <2>2. Increasing(queue')
    <3>1. \A i, j \in 1 .. q - k : i < j => k + i < k + j
      BY <1>4
    <3> QED BY <1>6, <2>1, <3>1 DEF Increasing
  <2>3. Increasing(buffer')
    BY <1>5, <2>1 DEF Increasing
  <2>4. \A i \in 1 .. q - k : queue'[i].n <= arrived
    BY <1>6, <2>1
  <2>5. \A i \in 1 .. k : buffer'[i].n <= arrived
    BY <1>5, <2>1
  <2>6. ASSUME NEW i \in 1 .. k, NEW j \in 1 .. q - k PROVE buffer'[i].n < queue'[j].n
    <3>1. i < k + j
      BY <1>4
    <3> QED BY <1>5, <1>6, <2>1, <3>1
  <2> QED BY <1>2, <1>5, <1>6, <2>2, <2>3, <2>4, <2>5, <2>6 DEF Numbers
<1>11. Returned'
  <2>1. \A m \in 1 .. Len(recvd) : /\ recvd[m].n <= arrived
                                   /\ \A j \in 1 .. q : recvd[m].n < queue[j].n
    BY <1>1 DEF Returned, q
  <2>2. InOrderOnce'
    BY <1>1, <1>2 DEF Returned, InOrderOnce
  <2> QED BY <1>2, <1>5, <1>6, <1>8, <2>1, <2>2 DEF Returned
<1>12. Fresh'
  <2>1. mark <= arrived /\ \A j \in 1 .. q : queue[j].n > mark
    BY <1>1 DEF Fresh, q
  <2> QED BY <1>2, <1>5, <1>6, <1>8, <2>1 DEF Fresh
<1>13. Pending \subseteq Pending'
  <2>1. Left = {}
    BY <1>2 DEF Left, Null
  <2>2. Pending = {queue[i].n : i \in 1 .. q}
    BY <2>1, PendingParts DEF q
  <2>3. Pending' = {queue'[i].n : i \in 1 .. q - k} \cup {buffer'[i].n : i \in 1 .. k}
    BY <1>6, <1>8 DEF Pending, Left
  <2>4. ASSUME NEW i \in 1 .. q PROVE queue[i].n \in Pending'
    <3>1. CASE i \in 1 .. k
      BY <1>5, <2>3, <3>1
    <3>2. CASE i \notin 1 .. k
      <4>1. i - k \in 1 .. q - k /\ k + (i - k) = i
        BY <1>4, <3>2
      <4>2. queue'[i - k] = queue[i]
        BY <1>6, <4>1
      <4> QED BY <2>3, <4>1, <4>2
    <3> QED BY <3>1, <3>2
  <2> QED BY <2>2, <2>4
<1>14. Kept'
  BY <1>1, <1>2, <1>13 DEF Kept
<1> QED BY <1>7, <1>10, <1>11, <1>12, <1>14 DEF IInv

(* What recv() returned, when it returns one more.                         *)
Numbered == {recvd[j].n : j \in 1 .. Len(recvd)}

LEMMA ReturnParts ==
  ASSUME Shape, InOrderOnce, NEW f \in Frame, Return(f),
         \A k \in 1 .. Len(recvd) : recvd[k].n < f.n
  PROVE  /\ recvd' \in Seq([n : 1 .. MaxFrames, len : Nat])
         /\ Len(recvd') = Len(recvd) + 1
         /\ \A k \in 1 .. Len(recvd) : recvd'[k] = recvd[k]
         /\ recvd'[Len(recvd) + 1].n = f.n
         /\ InOrderOnce'
         /\ Numbered' = Numbered \cup {f.n}
<1> DEFINE R == [n : 1 .. MaxFrames, len : Nat]
           r == [n |-> f.n, len |-> Copied(f)]
           l == Len(recvd)
<1>1. r \in R
  <2>1. want \in Nat /\ f.len \in Nat /\ f.n \in 1 .. MaxFrames
    BY NetAssumption DEF Shape, Frame
  <2>2. Copied(f) \in Nat
    BY <2>1 DEF Copied
  <2> QED BY <2>1, <2>2
<1>2. recvd \in Seq(R) /\ l \in Nat /\ recvd' = Append(recvd, r) /\ r.n = f.n
  BY DEF Shape, Return
<1> HIDE DEF R, r
<1>3. /\ recvd' \in Seq(R) /\ Len(recvd') = l + 1
      /\ \A k \in 1 .. l : recvd'[k] = recvd[k]
      /\ recvd'[l + 1] = r
  BY <1>1, <1>2, AppendParts
<1> HIDE DEF l
<1>4. InOrderOnce'
  <2> SUFFICES ASSUME NEW j \in 2 .. l + 1 PROVE recvd'[j - 1].n < recvd'[j].n
    BY <1>3 DEF InOrderOnce
  <2>1. j - 1 \in 1 .. l /\ recvd'[j - 1] = recvd[j - 1]
    BY <1>2, <1>3
  <2>2. CASE j = l + 1
    <3>1. recvd'[j].n = f.n
      BY <1>2, <1>3, <2>2
    <3> QED BY <2>1, <3>1 DEF l
  <2>3. CASE j # l + 1
    <3>1. j \in 2 .. l /\ j \in 1 .. l
      BY <1>2, <2>3
    <3> QED BY <1>3, <2>1, <3>1 DEF InOrderOnce, l
  <2> QED BY <2>2, <2>3
<1>5. Numbered' = Numbered \cup {f.n}
  <2>1. \A k \in 1 .. l + 1 : k \in 1 .. l \/ k = l + 1
    BY <1>2
  <2>2. \A k \in 1 .. l : k \in 1 .. l + 1
    BY <1>2
  <2>3. l + 1 \in 1 .. l + 1
    BY <1>2
  <2>4. Numbered' = {recvd'[k].n : k \in 1 .. l + 1} /\ Numbered = {recvd[k].n : k \in 1 .. l}
    BY <1>3 DEF Numbered, l
  <2> QED BY <1>2, <1>3, <2>1, <2>2, <2>3, <2>4
<1> QED BY <1>2, <1>3, <1>4, <1>5 DEF R, l

(* A frame out of _buffer.                                                 *)
LEMMA TakeFrameInv == IInv /\ TakeFrame => IInv'
<1> SUFFICES ASSUME IInv, TakeFrame PROVE IInv'
  OBVIOUS
<1>1. Shape /\ Flags /\ Numbers /\ Returned /\ Fresh /\ Kept
  BY DEF IInv
<1>2. /\ platform' = platform /\ fd' = fd /\ opening' = opening /\ mark' = mark
      /\ opened' = opened /\ arrived' = arrived /\ queue' = queue /\ buffer' = buffer
      /\ taken' = taken /\ swallowed' = swallowed /\ lost' = lost
      /\ platform = "bpf"
  BY DEF TakeFrame, calls
<1>3. PICK i \in 1 .. Len(buffer) : /\ Start(buffer)[i] = point
                                    /\ Return(buffer[i]) /\ point' = NextPoint(i)
  BY DEF TakeFrame, At
<1> DEFINE len == Len(buffer)
           at == Start(buffer)
           k == point + Size(buffer[i])
<1>4. /\ len \in Nat /\ \A j \in 1 .. len : at[j] \in Nat /\ Size(buffer[j]) \in Nat \ {0}
      /\ \A j, m \in 1 .. len : j < m => at[m] >= at[j] + Size(buffer[j])
      /\ BytesRead(buffer) \in Nat
      /\ \A j \in 1 .. len : at[j] + Size(buffer[j]) <= BytesRead(buffer)
  <2>1. buffer \in Seq(Frame) /\ \A j \in 1 .. len : buffer[j] \in Frame
    BY <1>1, Lens DEF Shape
  <2> QED BY <2>1, StartFacts, SizePositive, Disjoint, WithinRead
<1>5. /\ point \in Nat /\ k \in Nat /\ k > point /\ at[i] = point
      /\ point' = IF k >= BytesRead(buffer) THEN Null ELSE k
  BY <1>3, <1>4 DEF NextPoint
<1>6. i \in Left
  BY <1>3, <1>5 DEF Left
<1>7. \A j \in 1 .. len : at[j] >= k <=> j > i
  <2> HIDE DEF at
  <2> SUFFICES ASSUME NEW j \in 1 .. len PROVE at[j] >= k <=> j > i
    OBVIOUS
  <2>1. CASE j > i
    BY <1>4, <1>5, <2>1
  <2>2. CASE j = i
    BY <1>4, <1>5, <2>2
  <2>3. CASE j < i
    <3>1. at[i] >= at[j] + Size(buffer[j]) /\ at[j] \in Nat /\ Size(buffer[j]) \in Nat \ {0}
      BY <1>4, <2>3
    <3>2. ~ (at[j] >= k)
      BY <1>5, <3>1
    <3> QED BY <1>4, <2>3, <3>2
  <2> QED BY <1>4, <2>1, <2>2, <2>3
<1>8. Left' = {j \in 1 .. len : j > i}
  <2>1. CASE k >= BytesRead(buffer)
    <3>1. Left' = {}
      BY <1>2, <1>5, <2>1 DEF Left, Null
    <3>2. ASSUME NEW j \in 1 .. len, j > i PROVE FALSE
      <4>1. at[j] >= k /\ at[j] + Size(buffer[j]) <= BytesRead(buffer)
            /\ at[j] \in Nat /\ Size(buffer[j]) \in Nat \ {0}
        BY <1>4, <1>7, <3>2
      <4> HIDE DEF at, k
      <4> QED BY <1>4, <1>5, <2>1, <4>1
    <3> QED BY <3>1, <3>2
  <2>2. CASE ~ (k >= BytesRead(buffer))
    <3>1. point' = k /\ k >= 0
      BY <1>5, <2>2
    <3>2. Left' = {j \in 1 .. len : at[j] >= k}
      BY <1>2, <3>1 DEF Left
    <3> QED BY <1>7, <3>2
  <2> QED BY <2>1, <2>2
<1>9. Left = {j \in 1 .. len : j > i} \cup {i}
  <2>1. ASSUME NEW j \in 1 .. len PROVE at[j] >= point <=> j > i \/ j = i
    <3>1. CASE j < i
      <4>1. at[i] >= at[j] + Size(buffer[j]) /\ at[j] \in Nat /\ Size(buffer[j]) \in Nat \ {0}
        BY <1>4, <3>1
      <4> HIDE DEF at
      <4> QED BY <1>4, <1>5, <3>1, <4>1
    <3>2. CASE j > i
      <4>1. at[j] >= k /\ at[j] \in Nat
        BY <1>4, <1>7, <3>2
      <4> HIDE DEF at, k
      <4> QED BY <1>5, <3>2, <4>1
    <3>3. CASE j = i
      BY <1>5, <3>3
    <3> QED BY <1>4, <3>1, <3>2, <3>3
  <2> QED BY <1>5, <2>1 DEF Left
<1> HIDE DEF k, at, len
<1>10. buffer[i] \in Frame /\ buffer[i].n \in Nat /\ i \in 1 .. len
  BY <1>1, Lens DEF len
<1>11. \A j \in 1 .. Len(recvd) : recvd[j].n < buffer[i].n
  BY <1>1, <1>6 DEF Returned
<1>12. /\ recvd' \in Seq([n : 1 .. MaxFrames, len : Nat])
       /\ Len(recvd') = Len(recvd) + 1
       /\ \A j \in 1 .. Len(recvd) : recvd'[j] = recvd[j]
       /\ recvd'[Len(recvd) + 1].n = buffer[i].n
       /\ InOrderOnce'
       /\ Numbered' = Numbered \cup {buffer[i].n}
  BY <1>1, <1>3, <1>10, <1>11, ReturnParts DEF Returned
<1>13. Shape' /\ Flags'
  <2>1. want' \in Buflens \cup {0}
    BY <1>3 DEF Return
  <2>2. point' \in {Null, Unset} \cup 0 .. BytesRead(buffer) - 1
    BY <1>4, <1>5
  <2> QED BY <1>1, <1>2, <1>12, <2>1, <2>2 DEF Shape, Flags
<1>14. Numbers'
  BY <1>1, <1>2 DEF Numbers, Increasing
<1>15. Returned'
  <2> SUFFICES ASSUME NEW m \in 1 .. Len(recvd) + 1
               PROVE  /\ recvd'[m].n <= arrived
                      /\ \A j \in 1 .. Len(queue) : recvd'[m].n < queue[j].n
                      /\ \A j \in Left' : recvd'[m].n < buffer[j].n
    BY <1>2, <1>12 DEF Returned
  <2>1. CASE m \in 1 .. Len(recvd)
    <3>1. \A j \in Left' : j \in Left
      BY <1>8, <1>9
    <3> QED BY <1>1, <1>12, <2>1, <3>1 DEF Returned
  <2>2. CASE m = Len(recvd) + 1
    <3>1. \A j \in Left' : j \in 1 .. Len(buffer) /\ i < j
      BY <1>8, <1>10 DEF len
    <3> QED BY <1>1, <1>10, <1>12, <2>2, <3>1 DEF Numbers, Increasing, len
  <2> QED BY <1>1, <2>1, <2>2, Lens
<1>16. Fresh'
  <2>1. \A j \in Left' : j \in Left
    BY <1>8, <1>9
  <2>2. mark <= arrived /\ platform # "linux"
    BY <1>1, <1>2 DEF Fresh
  <2> QED BY <1>1, <1>2, <2>1, <2>2 DEF Fresh
<1>17. Numbered \cup Pending \subseteq Numbered' \cup Pending'
  <2>1. Pending' = {queue[j].n : j \in 1 .. Len(queue)} \cup {buffer[j].n : j \in Left'}
    BY <1>2 DEF Pending, Left
  <2>2. \A j \in Left : j = i \/ j \in Left'
    BY <1>8, <1>9
  <2> QED BY <1>12, <2>1, <2>2, PendingParts
<1>18. Kept'
  BY <1>1, <1>2, <1>17 DEF Kept, Numbered
<1> QED BY <1>13, <1>14, <1>15, <1>16, <1>18 DEF IInv

(* A frame out of a packet socket.                                         *)
LEMMA ReadFrameInv == IInv /\ ReadFrame => IInv'
<1> SUFFICES ASSUME IInv, ReadFrame PROVE IInv'
  OBVIOUS
<1> DEFINE q == Len(queue)
           h == queue[1]
<1>1. Shape /\ Flags /\ Numbers /\ Returned /\ Fresh /\ Kept
  BY DEF IInv
<1>2. /\ platform' = platform /\ fd' = fd /\ opening' = opening /\ mark' = mark
      /\ opened' = opened /\ arrived' = arrived /\ buffer' = buffer /\ point' = point
      /\ taken' = taken /\ lost' = lost
      /\ platform = "linux" /\ queue # <<>> /\ queue' = Tail(queue)
  BY DEF ReadFrame, calls
<1>3. /\ q \in Nat \ {0} /\ Head(queue) = h /\ h \in Frame /\ h.n \in 1 .. MaxFrames
      /\ queue' \in Seq(Frame) /\ Len(queue') = q - 1
      /\ \A j \in 1 .. q - 1 : j + 1 \in 2 .. q /\ queue'[j] = queue[j + 1]
  <2>1. queue \in Seq(Frame)
    BY <1>1 DEF Shape
  <2>2. /\ queue' \in Seq(Frame) /\ Len(queue') = q - 1 /\ q \in Nat \ {0}
        /\ \A j \in 1 .. q - 1 : queue'[j] = queue[j + 1]
        /\ Head(queue) = h /\ h \in Frame
    BY <1>2, <2>1, TailParts
  <2>3. h.n \in 1 .. MaxFrames
    BY <2>2 DEF Frame
  <2> HIDE DEF q, h
  <2>4. \A j \in 1 .. q - 1 : j + 1 \in 2 .. q
    BY <2>2
  <2> QED BY <2>2, <2>3, <2>4
<1>4. Left = {} /\ Left' = {}
  <2>1. point < 0 /\ point \in Int
    BY <1>1, <1>2, WithinRead DEF Fresh, Shape, Null, Unset
  <2> QED BY <1>2, <2>1 DEF Left
<1>5. \A i, j \in 1 .. q : i < j => queue[i].n < queue[j].n
  BY <1>1 DEF Numbers, Increasing
<1>6. Pending' = {queue'[j].n : j \in 1 .. q - 1} /\ Pending = {queue[j].n : j \in 1 .. q}
  BY <1>3, <1>4, PendingParts DEF Pending, Left
<1> HIDE DEF q
<1>7. /\ recvd' \in Seq([n : 1 .. MaxFrames, len : Nat])
      /\ want' \in Buflens \cup {0}
      /\ swallowed' \subseteq 1 .. MaxFrames
      /\ InOrderOnce'
      /\ \/ recvd' = recvd /\ swallowed' = swallowed \cup {h.n}
         \/ /\ Len(recvd') = Len(recvd) + 1
            /\ \A k \in 1 .. Len(recvd) : recvd'[k] = recvd[k]
            /\ recvd'[Len(recvd) + 1].n = h.n
            /\ Numbered' = Numbered \cup {h.n}
            /\ swallowed' = swallowed
  <2>1. CASE Mistaken(Copied(Head(queue)))
    <3>1. swallowed' = swallowed \cup {h.n} /\ recvd' = recvd /\ want' = want
      BY <1>3, <2>1 DEF ReadFrame
    <3> QED BY <1>1, <1>3, <3>1 DEF Shape, Returned, InOrderOnce
  <2>2. CASE ~ Mistaken(Copied(Head(queue)))
    <3>1. Return(h) /\ swallowed' = swallowed
      BY <1>3, <2>2 DEF ReadFrame
    <3>2. \A k \in 1 .. Len(recvd) : recvd[k].n < h.n
      <4>1. 1 \in 1 .. q
        BY <1>3
      <4> QED BY <1>1, <4>1 DEF Returned, q
    <3>3. /\ recvd' \in Seq([n : 1 .. MaxFrames, len : Nat])
          /\ Len(recvd') = Len(recvd) + 1
          /\ \A k \in 1 .. Len(recvd) : recvd'[k] = recvd[k]
          /\ recvd'[Len(recvd) + 1].n = h.n
          /\ InOrderOnce'
          /\ Numbered' = Numbered \cup {h.n}
      BY <1>1, <1>3, <3>1, <3>2, ReturnParts DEF Returned
    <3>4. want' \in Buflens \cup {0} /\ swallowed' \subseteq 1 .. MaxFrames
      BY <1>1, <3>1 DEF Return, Shape
    <3> QED BY <3>1, <3>3, <3>4
  <2> QED BY <2>1, <2>2
<1>8. Shape' /\ Flags'
  <2>1. q - 1 <= QueueMax
    BY <1>1, <1>3, Lens DEF Shape, q
  <2> QED BY <1>1, <1>2, <1>3, <1>7, <2>1 DEF Shape, Flags
<1>9. Numbers'
  <2>1. /\ \A j \in 1 .. q : queue[j].n <= arrived
        /\ \A i \in 1 .. Len(buffer), j \in 1 .. q : buffer[i].n < queue[j].n
        /\ \A i \in 1 .. Len(buffer) : buffer[i].n <= arrived
        /\ Increasing(buffer)
    BY <1>1 DEF Numbers, q
  <2>2. \A j \in 1 .. q - 1 : j + 1 \in 1 .. q /\ queue'[j] = queue[j + 1]
    BY <1>3
  <2>3. Increasing(queue')
    <3> SUFFICES ASSUME NEW i \in 1 .. q - 1, NEW j \in 1 .. q - 1, i < j
                 PROVE  queue'[i].n < queue'[j].n
      BY <1>3 DEF Increasing
    <3>1. i + 1 < j + 1
      BY <1>3
    <3> QED BY <1>5, <2>2, <3>1
  <2>4. Increasing(buffer')
    BY <1>2, <2>1
  <2> QED BY <1>2, <1>3, <2>1, <2>2, <2>3, <2>4 DEF Numbers
<1>10. Returned'
  <2>1. \A k \in 1 .. Len(recvd) : /\ recvd[k].n <= arrived
                                   /\ \A j \in 1 .. q - 1 : recvd[k].n < queue'[j].n
    <3>1. \A j \in 1 .. q - 1 : j + 1 \in 1 .. q /\ queue'[j] = queue[j + 1]
      BY <1>3
    <3> QED BY <1>1, <3>1 DEF Returned, q
  <2>2. h.n <= arrived /\ \A j \in 1 .. q - 1 : h.n < queue'[j].n
    <3>1. 1 \in 1 .. q
      BY <1>3
    <3>2. h.n <= arrived
      BY <1>1, <3>1 DEF Numbers, q
    <3>3. \A j \in 1 .. q - 1 : j + 1 \in 1 .. q /\ 1 < j + 1
      BY <1>3
    <3> QED BY <1>3, <1>5, <3>1, <3>2, <3>3
  <2>3. \A k \in 1 .. Len(recvd') :
          \/ k \in 1 .. Len(recvd) /\ recvd'[k] = recvd[k]
          \/ recvd'[k].n = h.n
    <3>1. Len(recvd) \in Nat
      BY <1>1, Lens
    <3>2. CASE recvd' = recvd
      BY <3>2
    <3>3. CASE recvd' # recvd
      <4>1. /\ Len(recvd') = Len(recvd) + 1
            /\ \A k \in 1 .. Len(recvd) : recvd'[k] = recvd[k]
            /\ recvd'[Len(recvd) + 1].n = h.n
        BY <1>7, <3>3
      <4>2. \A k \in 1 .. Len(recvd) + 1 : k \in 1 .. Len(recvd) \/ k = Len(recvd) + 1
        BY <3>1
      <4> QED BY <4>1, <4>2
    <3> QED BY <3>2, <3>3
  <2>4. \A k \in 1 .. Len(recvd') : /\ recvd'[k].n <= arrived
                                    /\ \A j \in 1 .. q - 1 : recvd'[k].n < queue'[j].n
    BY <2>1, <2>2, <2>3
  <2> QED BY <1>2, <1>3, <1>4, <1>7, <2>4 DEF Returned
<1>11. Fresh'
  <2>1. \A j \in 1 .. q - 1 : j + 1 \in 1 .. q /\ queue'[j] = queue[j + 1]
    BY <1>3
  <2> QED BY <1>1, <1>2, <1>3, <1>4, <2>1 DEF Fresh, q
<1>12. Pending \subseteq Pending' \cup {h.n}
  <2> SUFFICES ASSUME NEW j \in 1 .. q PROVE queue[j].n \in Pending' \cup {h.n}
    BY <1>6
  <2>1. CASE j # 1
    <3>1. j - 1 \in 1 .. q - 1 /\ (j - 1) + 1 = j
      BY <1>3, <2>1
    <3>2. queue'[j - 1] = queue[j]
      BY <1>3, <3>1
    <3> QED BY <1>6, <3>1, <3>2
  <2> QED BY <2>1
<1>13. Kept'
  <2>1. Numbered \cup swallowed \cup {h.n} \subseteq Numbered' \cup swallowed'
    BY <1>7 DEF Numbered
  <2> QED BY <1>1, <1>2, <1>12, <2>1 DEF Kept, Numbered
<1> QED BY <1>8, <1>9, <1>10, <1>11, <1>13 DEF IInv

-------------------------------------------------------------------------------
LEMMA NextInv == IInv /\ [Next]_vars => IInv'
<1> SUFFICES ASSUME IInv, [Next]_vars PROVE IInv'
  OBVIOUS
<1>1. CASE \E n \in Lengths : Arrive(n) \/ Send(n)
  BY <1>1, ArriveInv DEF Send
<1>2. CASE OpenDescriptor \/ OpenNoDescriptor \/ Bind \/ OpenFails \/ OpenDone \/ Close
  BY <1>2, OpenCloseInv
<1>3. CASE (\E n \in Buflens : RecvCall(n)) \/ Interrupted \/ ReadFails \/ Misread
  BY <1>3, RecvQuietInv DEF ReadFails
<1>4. CASE ReadBlock
  BY <1>4, ReadBlockInv
<1>5. CASE TakeFrame
  BY <1>5, TakeFrameInv
<1>6. CASE ReadFrame
  BY <1>6, ReadFrameInv
<1>7. CASE UNCHANGED vars
  <2>1. /\ UNCHANGED <<platform, mark, opened, queue, buffer, point, arrived, recvd,
                       taken, swallowed>>
        /\ opening' = opening /\ fd' = fd /\ want' = want /\ lost' = lost
    BY <1>7, Zenon DEF vars, calls, user
  <2>2. Shape /\ Flags
    BY DEF IInv
  <2>3. opening' \in BOOLEAN
    BY <2>1, <2>2, Zenon DEF Flags
  <2>4. fd' \in {"none", "unbound", "bound"} /\ want' \in Buflens \cup {0}
        /\ lost' \in {lost, "unset", "unaligned"}
    BY <2>1, <2>2 DEF Shape
  <2> QED BY <2>1, <2>3, <2>4, QuietInv, Zenon
<1> QED BY <1>1, <1>2, <1>3, <1>4, <1>5, <1>6, <1>7 DEF Next, Step

(* The inductive invariant holds in every state of a stream: the frames of *)
(* queue, _buffer and recvd are numbered in the order they arrived, the    *)
(* pointer leaves behind it what recv() returned, and nothing taken from   *)
(* the interface is in none of the three.                                  *)
THEOREM Inductive == Spec => []IInv
<1> QED BY InitInv, NextInv, PTL DEF Spec

(* The variables of a network stream keep their types: a pointer into      *)
(* _buffer is always within what the last read() put there.                *)
THEOREM Typing == Spec => []TypeOK
<1>1. IInv => TypeOK
  <2> SUFFICES ASSUME IInv PROVE TypeOK
    OBVIOUS
  <2>1. Shape /\ Flags
    BY DEF IInv
  <2>2. {opening, opened} \subseteq BOOLEAN
    BY <2>1, Zenon DEF Flags
  <2> QED BY <2>1, <2>2, Zenon DEF Shape, TypeOK
<1> QED BY <1>1, Inductive, PTL

(* recv() returns no frame twice and none out of order, whatever is opened *)
(* again, fails or is closed in between.                                   *)
THEOREM NeverTwice == Spec => []InOrderOnce
<1>1. IInv => InOrderOnce
  BY DEF IInv, Returned
<1> QED BY <1>1, Inductive, PTL

(* What the kernel took for an open stream is returned, still to come, or  *)
(* was mistaken for an interrupted read().                                 *)
THEOREM NoneSkipped == Spec => []NothingSkipped
<1>1. IInv => NothingSkipped
  BY DEF IInv, Kept, NothingSkipped
<1> QED BY <1>1, Inductive, PTL

(* A step of recv() on an opened stream returns no frame from before open().*)
LEMMA FreshStep ==
  ASSUME IInv, [Next]_vars, Len(recvd') > Len(recvd), opened
  PROVE  recvd'[Len(recvd')].n > mark
<1>1. Shape /\ Returned /\ Fresh /\ Len(recvd) \in Nat
  BY Lens DEF IInv
<1>2. TakeFrame \/ ReadFrame
  <2>1. ~ UNCHANGED recvd
    BY <1>1
  <2> QED BY <2>1 DEF Next, Step, Arrive, Send, OpenDescriptor, OpenNoDescriptor, Bind,
                      OpenFails, OpenDone, Close, RecvCall, Interrupted, ReadFails,
                      ReadBlock, Misread, user, vars
<1>3. CASE TakeFrame
  <2>1. PICK i \in 1 .. Len(buffer) : Start(buffer)[i] = point /\ Return(buffer[i])
    BY <1>3 DEF TakeFrame, At
  <2>2. buffer[i] \in Frame /\ Start(buffer)[i] \in Nat
    BY <1>1, Lens, StartFacts DEF Shape
  <2>3. i \in Left
    BY <2>1, <2>2 DEF Left
  <2>4. /\ Len(recvd') = Len(recvd) + 1 /\ recvd'[Len(recvd) + 1].n = buffer[i].n
    BY <1>1, <2>1, <2>2, <2>3, ReturnParts DEF Returned
  <2> QED BY <1>1, <2>3, <2>4 DEF Fresh
<1>4. CASE ReadFrame
  <2>1. queue # <<>> /\ queue \in Seq(Frame)
    BY <1>1, <1>4 DEF ReadFrame, Shape
  <2>2. Head(queue) = queue[1] /\ queue[1] \in Frame /\ 1 \in 1 .. Len(queue)
    BY <2>1, TailParts
  <2>3. Return(queue[1])
    <3>1. recvd' # recvd
      BY <1>1
    <3> QED BY <1>4, <2>2, <3>1 DEF ReadFrame
  <2>4. \A k \in 1 .. Len(recvd) : recvd[k].n < queue[1].n
    BY <1>1, <2>2 DEF Returned
  <2>5. /\ Len(recvd') = Len(recvd) + 1 /\ recvd'[Len(recvd) + 1].n = queue[1].n
    BY <1>1, <2>2, <2>3, <2>4, ReturnParts DEF Returned
  <2> QED BY <1>1, <2>2, <2>5 DEF Fresh
<1> QED BY <1>2, <1>3, <1>4

(* A stream that was opened returns no frame from before.                  *)
THEOREM FreshOnly == Spec => OnlyFresh
<1>1. IInv /\ [Next]_vars
        => [Len(recvd') > Len(recvd) /\ opened => recvd'[Len(recvd')].n > mark]_vars
  BY FreshStep
<1> QED BY <1>1, Inductive, PTL DEF Spec, OnlyFresh
=============================================================================
