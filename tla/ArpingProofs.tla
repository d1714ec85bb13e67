----------------------------- MODULE ArpingProofs -----------------------------
(***************************************************************************)
(* Proofs about Arping, on the invariant of NetStream: the programs count  *)
(* a reply once and nothing else, and do not run ahead of the network, for *)
(* any number of replies and frames, both platforms and all kernels.       *)
(***************************************************************************)
EXTENDS Arping, NetStreamProofs, FiniteSetTheorems

(* The frames a program has looked at, and those of them that it counted.  *)
Looked == IF pc = "look" THEN Len(recvd) - 1 ELSE Len(recvd)

Ticked == {n \in 1 .. Len(kinds) : kinds[n] \in ReplyKind /\ \E j \in 1 .. Looked : recvd[j].n = n}

ToolShape ==
  /\ tool \in Tools
  /\ pc \in {"open", "send", "recv", "look", "done", "threw"}
  /\ count \in 0 .. Goal
  /\ kinds \in Seq(Kind) /\ Len(kinds) = arrived
  /\ requests \in Nat

(* What holds where the program is.                                        *)
Where ==
  /\ pc # "done" => count < Goal
  /\ pc = "open" => recvd = <<>> /\ count = 0 /\ requests = 0
  /\ pc = "look" => Len(recvd) > 0

Open == pc \in {"send", "recv", "look"} => opened

(* What the program received came since its open().                        *)
Recent == \A j \in 1 .. Len(recvd) : recvd[j].n > mark

Asked ==
  IF tool = "arping"
  THEN requests <= 1 /\ (pc \in {"open", "send"} => requests = 0)
  ELSE requests <= Len(recvd) + 1 /\ (pc \in {"open", "send", "look"} => requests <= Len(recvd))

CountTicked == count <= Cardinality(Ticked)

ToolInv == ToolShape /\ Where /\ Open /\ Recent /\ Asked /\ CountTicked

-------------------------------------------------------------------------------
(* What recv() returned before, it returned before the last one, too.      *)
LEMMA Transitive ==
  ASSUME Shape, InOrderOnce, NEW i \in 1 .. Len(recvd), NEW j \in 1 .. Len(recvd), i < j
  PROVE  recvd[i].n < recvd[j].n
<1> DEFINE len == Len(recvd)
           S == {n \in Nat : i + n + 1 \in 1 .. len => recvd[i].n < recvd[i + n + 1].n}
<1>1. len \in Nat /\ \A k \in 1 .. len : recvd[k].n \in Nat
  <2>1. len \in Nat /\ \A k \in 1 .. len : recvd[k].n \in 1 .. MaxFrames
    BY Lens
  <2> QED BY <2>1
<1>2. \A k \in 2 .. len : recvd[k - 1].n < recvd[k].n
  BY DEF InOrderOnce
<1> HIDE DEF len
<1>3. i \in 1 .. len /\ j \in 1 .. len
  BY DEF len
<1>4. 0 \in S
  <2> SUFFICES ASSUME i + 1 \in 1 .. len PROVE recvd[i].n < recvd[i + 1].n
    BY <1>3
  <2>1. i + 1 \in 2 .. len /\ (i + 1) - 1 = i
    BY <1>1, <1>3
  <2> QED BY <1>2, <2>1
<1>5. ASSUME NEW n \in Nat, n \in S PROVE n + 1 \in S
  <2> DEFINE k == i + n + 1
  <2>0. k \in Nat /\ i + (n + 1) + 1 = k + 1
    BY <1>1, <1>3
  <2> SUFFICES ASSUME k + 1 \in 1 .. len PROVE recvd[i].n < recvd[k + 1].n
    BY <2>0
  <2>1. k + 1 \in 2 .. len /\ (k + 1) - 1 = k /\ k \in 1 .. len
    BY <1>1, <1>3
  <2>2. recvd[i].n < recvd[k].n
    BY <1>5, <2>1
  <2> HIDE DEF k
  <2>3. recvd[k].n < recvd[k + 1].n
    BY <1>2, <2>1
  <2>4. recvd[i].n \in Nat /\ recvd[k].n \in Nat /\ recvd[k + 1].n \in Nat
    BY <1>1, <1>3, <2>1
  <2> QED BY <2>2, <2>3, <2>4
<1>6. Nat \subseteq S
  <2> HIDE DEF S
  <2> QED BY <1>4, <1>5, SetInduction
<1>7. j - i - 1 \in Nat /\ i + (j - i - 1) + 1 = j
  BY <1>1, <1>3
<1>8. j - i - 1 \in S
  BY <1>6, <1>7
<1> QED BY <1>3, <1>7, <1>8

(* A step of the stream returns a frame or none.                           *)
LEMMA RecvdGrows ==
  ASSUME [Next]_vars
  PROVE  recvd' = recvd \/ \E r : recvd' = Append(recvd, r)
<1>1. CASE TakeFrame \/ ReadFrame
  BY <1>1 DEF TakeFrame, ReadFrame, Return
<1>2. CASE ~ (TakeFrame \/ ReadFrame)
  BY <1>2 DEF Next, Step, Arrive, Send, OpenDescriptor, OpenNoDescriptor, Bind,
              OpenFails, OpenDone, Close, RecvCall, Interrupted, ReadFails,
              ReadBlock, Misread, user, vars
<1> QED BY <1>1, <1>2

(* What the invariant of the stream says of it.                            *)
LEMMA StreamParts ==
  ASSUME IInv
  PROVE  /\ Shape /\ InOrderOnce /\ Len(recvd) \in Nat /\ arrived \in Nat /\ mark \in Nat
         /\ recvd \in Seq([n : 1 .. MaxFrames, len : Nat])
         /\ \A j \in 1 .. Len(recvd) : recvd[j].n \in Nat \ {0} /\ recvd[j].n <= arrived
<1>1. Shape /\ Returned
  BY DEF IInv
<1>2. recvd \in Seq([n : 1 .. MaxFrames, len : Nat])
  BY <1>1 DEF Shape
<1>3. /\ Len(recvd) \in Nat /\ arrived \in Nat /\ mark \in Nat
      /\ \A j \in 1 .. Len(recvd) : recvd[j].n \in 1 .. MaxFrames
  BY <1>1, Lens
<1>4. \A j \in 1 .. Len(recvd) : recvd[j].n <= arrived
  BY <1>1 DEF Returned
<1>5. \A j \in 1 .. Len(recvd) : recvd[j].n \in Nat \ {0}
  BY <1>3
<1> QED BY <1>1, <1>2, <1>3, <1>4, <1>5 DEF Returned

LEMMA Grown ==
  ASSUME IInv, IInv', [Next]_vars
  PROVE  \/ recvd' = recvd
         \/ /\ Len(recvd') = Len(recvd) + 1
            /\ \A j \in 1 .. Len(recvd) : recvd'[j] = recvd[j]
<1> DEFINE R == [n : 1 .. MaxFrames, len : Nat]
<1>1. recvd \in Seq(R) /\ recvd' \in Seq(R) /\ Len(recvd) \in Nat
  BY StreamParts DEF IInv, Shape
<1>2. CASE recvd' # recvd
  <2>1. PICK r : recvd' = Append(recvd, r)
    BY <1>2, RecvdGrows
  <2>2. Len(recvd') = Len(recvd) + 1 /\ \A j \in 1 .. Len(recvd) : recvd'[j] = recvd[j]
    BY <1>1, <2>1
  <2> QED BY <2>2
<1> QED BY <1>2

-------------------------------------------------------------------------------
(* The set of what was counted is finite, and in the set of all replies.   *)
LEMMA TickedFinite ==
  ASSUME ToolShape, arrived \in Nat
  PROVE  IsFiniteSet(Ticked) /\ Cardinality(Ticked) \in Nat
<1>1. IsFiniteSet(1 .. Len(kinds))
  <2>1. Len(kinds) \in Int /\ 1 \in Int
    BY DEF ToolShape
  <2> QED BY <2>1, FS_Interval
<1>2. Ticked \in SUBSET (1 .. Len(kinds))
  BY DEF Ticked
<1>3. IsFiniteSet(Ticked)
  BY <1>1, <1>2, FS_Subset
<1> QED BY <1>3, FS_CardinalityType

(* More traffic, and what the program did not look at, leave it as it is.  *)
LEMMA TickedSame ==
  ASSUME IInv, ToolShape, Looked' = Looked, Looked \in Nat, Looked <= Len(recvd),
         \A j \in 1 .. Looked : recvd'[j] = recvd[j],
         Len(kinds') \in Nat, Len(kinds) <= Len(kinds'),
         \A n \in 1 .. Len(kinds) : kinds'[n] = kinds[n]
  PROVE  Ticked' = Ticked
<1> DEFINE l == Looked
<1>1. \A j \in 1 .. l : recvd[j].n \in Nat \ {0} /\ recvd[j].n <= Len(kinds)
  <2>1. \A j \in 1 .. Len(recvd) : recvd[j].n \in Nat \ {0} /\ recvd[j].n <= arrived
    BY StreamParts
  <2>2. Len(recvd) \in Nat /\ Len(kinds) = arrived
    BY StreamParts DEF ToolShape
  <2> QED BY <2>1, <2>2
<1>2. Len(kinds) \in Nat
  BY StreamParts DEF ToolShape
<1>3. Ticked' = {n \in 1 .. Len(kinds') : kinds'[n] \in ReplyKind /\ \E j \in 1 .. l : recvd[j].n = n}
  BY DEF Ticked
<1>4. Ticked = {n \in 1 .. Len(kinds) : kinds[n] \in ReplyKind /\ \E j \in 1 .. l : recvd[j].n = n}
  BY DEF Ticked
<1> HIDE DEF l
<1>5. ASSUME NEW n \in 1 .. Len(kinds'), \E j \in 1 .. l : recvd[j].n = n
      PROVE  n \in 1 .. Len(kinds)
  BY <1>1, <1>2, <1>5
<1>6. \A n \in 1 .. Len(kinds) : n \in 1 .. Len(kinds')
  BY <1>2
<1> QED BY <1>3, <1>4, <1>5, <1>6

(* Steps at which the program neither receives a frame nor looks at one.   *)
LEMMA Quiet ==
  ASSUME IInv, ToolInv, IInv', recvd' = recvd, mark' = mark, tool' = tool, count' = count,
         pc # "look", pc' # "look",
         kinds' \in Seq(Kind), Len(kinds') = arrived', Len(kinds) <= Len(kinds'),
         \A n \in 1 .. Len(kinds) : kinds'[n] = kinds[n],
         pc' \in {"open", "send", "recv", "done", "threw"}, requests' \in Nat
  PROVE  ToolShape' /\ Recent' /\ CountTicked'
<1>1. ToolShape /\ Recent /\ CountTicked
  BY DEF ToolInv
<1>2. ToolShape'
  BY <1>1 DEF ToolShape, Goal
<1>3. Recent'
  BY <1>1 DEF Recent
<1>4. CountTicked'
  <2>1. Looked' = Looked /\ Looked \in Nat /\ Looked <= Len(recvd)
    BY StreamParts DEF Looked
  <2>2. Len(kinds') \in Nat
    OBVIOUS
  <2>3. Ticked' = Ticked
    BY <1>1, <2>1, <2>2, TickedSame
  <2> QED BY <1>1, <2>3 DEF CountTicked
<1> QED BY <1>2, <1>3, <1>4

LEMMA TrafficInv ==
  ASSUME IInv, ToolInv, NEW kind \in Kind, Traffic(kind)
  PROVE  IInv' /\ ToolInv'
<1>1. /\ Arrive(KindLen[kind]) /\ kinds' = Append(kinds, kind)
      /\ tool' = tool /\ pc' = pc /\ count' = count /\ requests' = requests
  BY DEF Traffic
<1>2. KindLen[kind] \in Lengths
  BY ArpingAssumption
<1>3. IInv'
  BY <1>1, <1>2, ArriveInv
<1>4. /\ arrived' = arrived + 1 /\ recvd' = recvd /\ mark' = mark
  BY <1>1 DEF Arrive, calls
<1>5. ToolShape /\ Where /\ Open /\ Recent /\ Asked /\ CountTicked
  BY DEF ToolInv
<1>6. /\ kinds' \in Seq(Kind) /\ Len(kinds') = Len(kinds) + 1 /\ Len(kinds) \in Nat
      /\ \A n \in 1 .. Len(kinds) : kinds'[n] = kinds[n]
  BY <1>1, <1>5, AppendParts DEF ToolShape
<1>7. ToolShape'
  BY <1>1, <1>4, <1>5, <1>6 DEF ToolShape, Goal
<1>8. CountTicked'
  <2>1. Looked' = Looked /\ Looked \in Nat /\ Looked <= Len(recvd)
    BY <1>1, <1>4, <1>5, StreamParts DEF Looked, Where
  <2>2. Len(kinds') \in Nat /\ Len(kinds) <= Len(kinds')
    BY <1>6
  <2>3. Ticked' = Ticked
    BY <1>4, <1>5, <1>6, <2>1, <2>2, TickedSame
  <2> QED BY <1>1, <1>5, <2>3 DEF CountTicked
<1>9. Where' /\ Recent' /\ Asked'
  BY <1>1, <1>4, <1>5 DEF Where, Goal, Recent, Asked
<1>10. Open'
  <2>1. opened' = opened
    BY <1>1, Zenon DEF Arrive, calls
  <2> QED BY <1>1, <1>5, <2>1, Zenon DEF Open
<1> QED BY <1>3, <1>7, <1>8, <1>9, <1>10 DEF ToolInv

(* Nothing was received yet, so nothing was counted.                       *)
LEMMA OpensInv ==
  ASSUME IInv, ToolInv, IInv', recvd' = recvd, arrived' = arrived, pc = "open",
         pc' \in {"open", "send", "threw"}, pc' = "send" => opened',
         UNCHANGED <<tool, count, kinds, requests>>
  PROVE  ToolInv'
<1>1. ToolShape /\ Where /\ Asked /\ recvd = <<>> /\ count = 0 /\ requests = 0
  BY DEF ToolInv, Where
<1>2. ToolShape'
  BY <1>1 DEF ToolShape, Goal
<1>3. Where' /\ Recent' /\ Asked'
  BY <1>1, ArpingAssumption DEF Where, Recent, Asked, Goal
<1>4. Open'
  BY Zenon DEF Open
<1>5. CountTicked'
  <2>1. IsFiniteSet(Ticked) /\ Cardinality(Ticked) \in Nat
    BY <1>1, TickedFinite, StreamParts
  <2>2. Ticked' = Ticked
    BY <1>1 DEF Ticked, Looked
  <2>3. count' = 0
    BY <1>1
  <2> QED BY <2>1, <2>2, <2>3 DEF CountTicked
<1> QED BY <1>2, <1>3, <1>4, <1>5 DEF ToolInv

LEMMA OpeningInv ==
  ASSUME IInv, ToolInv, ToolOpens \/ ToolOpened \/ ToolCannotOpen
  PROVE  IInv' /\ ToolInv'
<1>1. OpenDescriptor \/ Bind \/ OpenDone \/ OpenFails \/ OpenNoDescriptor
  BY DEF ToolOpens, ToolOpened, ToolCannotOpen
<1>2. IInv'
  BY <1>1, OpenCloseInv
<1>3. recvd' = recvd /\ arrived' = arrived
  BY <1>1 DEF OpenDescriptor, Bind, OpenDone, OpenFails, OpenNoDescriptor, user
<1>4. /\ pc = "open" /\ pc' \in {"open", "send", "threw"}
      /\ UNCHANGED <<tool, count, kinds, requests>>
  BY DEF ToolOpens, ToolOpened, ToolCannotOpen, toolVars
<1>5. pc' = "send" => opened'
  <2>1. pc' = "send" => ToolOpened
    BY DEF ToolOpens, ToolCannotOpen, toolVars
  <2>2. ToolOpened => opened' = TRUE
    BY DEF ToolOpened, OpenDone
  <2> QED BY <2>1, <2>2
<1>6. ToolInv'
  BY <1>2, <1>3, <1>4, <1>5, OpensInv
<1> QED BY <1>2, <1>6

LEMMA SendsInv ==
  ASSUME IInv, ToolInv, ToolSends
  PROVE  IInv' /\ ToolInv'
<1>1. /\ pc = "send" /\ pc' = "recv" /\ requests' = requests + 1
      /\ tool' = tool /\ count' = count
  BY DEF ToolSends
<1>2. ToolShape /\ Where /\ Open /\ Asked
  BY DEF ToolInv
<1>3. /\ IInv' /\ recvd' = recvd /\ mark' = mark /\ opened' = opened
      /\ kinds' \in Seq(Kind) /\ Len(kinds') = arrived' /\ Len(kinds) <= Len(kinds')
      /\ \A n \in 1 .. Len(kinds) : kinds'[n] = kinds[n]
  <2>1. CASE platform = "bpf"
    <3>1. Arrive(KindLen["request"]) /\ kinds' = Append(kinds, "request")
      BY <2>1 DEF ToolSends, Send
    <3>2. KindLen["request"] \in Lengths /\ "request" \in Kind
      BY ArpingAssumption DEF Kind
    <3>3. IInv'
      BY <3>1, <3>2, ArriveInv
    <3>4. arrived' = arrived + 1 /\ recvd' = recvd /\ mark' = mark
      BY <3>1 DEF Arrive, calls
    <3>5. opened' = opened
      BY <3>1, Zenon DEF Arrive, calls
    <3>6. /\ kinds' \in Seq(Kind) /\ Len(kinds') = Len(kinds) + 1 /\ Len(kinds) \in Nat
          /\ \A n \in 1 .. Len(kinds) : kinds'[n] = kinds[n]
      BY <1>2, <3>1, <3>2, AppendParts DEF ToolShape
    <3>7. Len(kinds') = arrived' /\ Len(kinds) <= Len(kinds')
      BY <1>2, <3>4, <3>6 DEF ToolShape
    <3> QED BY <3>3, <3>4, <3>5, <3>6, <3>7, Zenon
  <2>2. CASE platform # "bpf"
    <3>1. UNCHANGED <<vars, kinds>>
      BY <2>2 DEF ToolSends
    <3>2. IInv'
      BY <3>1, NextInv
    <3>3. arrived' = arrived /\ recvd' = recvd /\ mark' = mark /\ kinds' = kinds
      BY <3>1 DEF vars, calls, user
    <3>4. opened' = opened
      BY <3>1, Zenon DEF vars, calls
    <3>5. Len(kinds') = arrived' /\ Len(kinds) <= Len(kinds') /\ kinds' \in Seq(Kind)
      BY <1>2, <3>3 DEF ToolShape
    <3>6. \A n \in 1 .. Len(kinds) : kinds'[n] = kinds[n]
      BY <3>3
    <3> QED BY <3>2, <3>3, <3>4, <3>5, <3>6, Zenon
  <2> QED BY <2>1, <2>2
<1>4. requests' \in Nat
  BY <1>1, <1>2 DEF ToolShape
<1>5. ToolShape' /\ Recent' /\ CountTicked'
  BY <1>1, <1>3, <1>4, Quiet
<1>6. Where'
  BY <1>1, <1>2 DEF Where, Goal
<1>7. Asked'
  BY <1>1, <1>2, <1>3 DEF Asked, ToolShape
<1>8. Open'
  BY <1>1, <1>2, <1>3, Zenon DEF Open
<1> QED BY <1>3, <1>5, <1>6, <1>7, <1>8 DEF ToolInv

(* A call that throws or begins, and what is no step at all.               *)
LEMMA StillInv ==
  ASSUME IInv, ToolInv, [Next]_vars, IInv', recvd' = recvd, mark' = mark, arrived' = arrived,
         opened' = opened, pc \in {"send", "recv"},
         pc' = pc \/ pc' = "threw", UNCHANGED <<tool, count, kinds, requests>>
  PROVE  ToolInv'
<1>1. ToolShape /\ Where /\ Open /\ Asked
  BY DEF ToolInv
<1>2. /\ kinds' \in Seq(Kind) /\ Len(kinds') = arrived' /\ Len(kinds) <= Len(kinds')
      /\ requests' \in Nat /\ \A n \in 1 .. Len(kinds) : kinds'[n] = kinds[n]
  BY <1>1 DEF ToolShape
<1>3. pc # "look" /\ pc' # "look" /\ pc' \in {"open", "send", "recv", "done", "threw"}
  OBVIOUS
<1>4. ToolShape' /\ Recent' /\ CountTicked'
  BY <1>2, <1>3, Quiet
<1>5. Where'
  BY <1>1 DEF Where, Goal
<1>6. Asked'
  BY <1>1 DEF Asked, ToolShape
<1>7. Open'
  BY <1>1, Zenon DEF Open
<1> QED BY <1>4, <1>5, <1>6, <1>7 DEF ToolInv

LEMMA CallsInv ==
  ASSUME IInv, ToolInv, ToolCannotSend \/ ToolRecvs \/ ToolInterrupted
  PROVE  IInv' /\ ToolInv'
<1>1. (\E n \in Buflens : RecvCall(n)) \/ Interrupted \/ UNCHANGED vars
  BY ArpingAssumption DEF ToolCannotSend, ToolRecvs, ToolInterrupted
<1>2. [Next]_vars
  BY <1>1 DEF Next
<1>3. IInv'
  BY <1>2, NextInv
<1>4. recvd' = recvd /\ mark' = mark /\ arrived' = arrived
  BY <1>1 DEF RecvCall, Interrupted, vars, calls, user
<1>5. opened' = opened
  BY <1>1, Zenon DEF RecvCall, Interrupted, vars, calls
<1>6. /\ pc \in {"send", "recv"}
      /\ pc' = pc \/ pc' = "threw"
      /\ UNCHANGED <<tool, count, kinds, requests>>
  BY DEF ToolCannotSend, ToolRecvs, ToolInterrupted, toolVars
<1>7. ToolInv'
  BY <1>2, <1>3, <1>4, <1>5, <1>6, StillInv
<1> QED BY <1>3, <1>7

(* recv() goes on; when it returns a frame, that came since open().        *)
LEMMA InRecvInv ==
  ASSUME IInv, ToolInv, ToolInRecv
  PROVE  IInv' /\ ToolInv'
<1>1. /\ pc = "recv" /\ Step /\ UNCHANGED <<tool, count, kinds, requests>>
      /\ pc' = IF Len(recvd') > Len(recvd) THEN "look"
               ELSE IF want' = 0 THEN "threw" ELSE "recv"
  BY DEF ToolInRecv
<1>2. [Next]_vars
  BY <1>1 DEF Next
<1>3. IInv'
  BY <1>2, NextInv
<1>4. mark' = mark /\ arrived' = arrived
  BY <1>1 DEF Step, ReadFails, Interrupted, ReadBlock, TakeFrame, Misread, ReadFrame, calls
<1>5. opened' = opened
  BY <1>1, Zenon
  DEF Step, ReadFails, Interrupted, ReadBlock, TakeFrame, Misread, ReadFrame, calls
<1>6. CASE recvd' = recvd
  <2>1. pc' = pc \/ pc' = "threw"
    BY <1>1, <1>6
  <2>2. ToolInv'
    BY <1>1, <1>2, <1>3, <1>4, <1>5, <1>6, <2>1, StillInv
  <2> QED BY <1>3, <2>2
<1>7. CASE recvd' # recvd
  <2>1. Len(recvd') = Len(recvd) + 1 /\ \A j \in 1 .. Len(recvd) : recvd'[j] = recvd[j]
    BY <1>2, <1>3, <1>7, Grown
  <2>2. ToolShape /\ Where /\ Open /\ Recent /\ Asked /\ CountTicked
    BY DEF ToolInv
  <2>3. Len(recvd) \in Nat
    BY StreamParts
  <2>4. pc' = "look"
    BY <1>1, <2>1, <2>3
  <2>5. ToolShape'
    BY <1>1, <1>4, <2>2, <2>4 DEF ToolShape, Goal
  <2>6. Where'
    BY <1>1, <2>1, <2>2, <2>3, <2>4 DEF Where, Goal
  <2>7. Asked'
    BY <1>1, <2>1, <2>2, <2>3, <2>4 DEF Asked, ToolShape
  <2>8. opened
    BY <1>1, <2>2 DEF Open
  <2>9. Open'
    BY <1>5, <2>8, Zenon DEF Open
  <2>10. Recent'
    <3>1. Len(recvd') > Len(recvd)
      BY <2>1, <2>3
    <3>2. recvd'[Len(recvd')].n > mark
      BY <1>2, <2>8, <3>1, FreshStep
    <3>3. ASSUME NEW j \in 1 .. Len(recvd') PROVE recvd'[j].n > mark
      <4>1. CASE j = Len(recvd) + 1
        BY <2>1, <3>2, <4>1
      <4>2. CASE j # Len(recvd) + 1
        <5>1. j \in 1 .. Len(recvd)
          BY <2>1, <2>3, <4>2
        <5> QED BY <2>1, <2>2, <5>1 DEF Recent
      <4> QED BY <4>1, <4>2
    <3> QED BY <1>4, <3>3 DEF Recent
  <2>11. CountTicked'
    <3>1. Looked' = Looked /\ Looked \in Nat /\ Looked <= Len(recvd)
      BY <1>1, <2>1, <2>3, <2>4 DEF Looked
    <3>2. \A j \in 1 .. Looked : recvd'[j] = recvd[j]
      BY <2>1, <2>3, <3>1
    <3>3. Len(kinds') \in Nat /\ Len(kinds) <= Len(kinds')
          /\ \A n \in 1 .. Len(kinds) : kinds'[n] = kinds[n]
      BY <1>1, <2>2 DEF ToolShape
    <3>4. Ticked' = Ticked
      BY <2>2, <3>1, <3>2, <3>3, TickedSame
    <3> QED BY <1>1, <2>2, <3>4 DEF CountTicked
  <2> QED BY <1>3, <2>5, <2>6, <2>7, <2>9, <2>10, <2>11 DEF ToolInv
<1> QED BY <1>6, <1>7

(* A frame that came since open() is looked at: a reply is counted, and it *)
(* was not counted before, since recv() returned the others before it.     *)
LEMMA TickedMore ==
  ASSUME IInv, ToolInv, pc = "look", pc' # "look", recvd' = recvd, kinds' = kinds
  PROVE  /\ Ticked \subseteq Ticked'
         /\ Received \in ReplyKind => Cardinality(Ticked') >= Cardinality(Ticked) + 1
<1> DEFINE len == Len(recvd)
           n == recvd[len].n
<1>1. ToolShape /\ len \in Nat /\ len > 0
  BY StreamParts DEF ToolInv, Where
<1>2. Looked = len - 1 /\ Looked' = len
  BY DEF Looked
<1>3. n \in Nat \ {0} /\ n <= Len(kinds) /\ Len(kinds) \in Nat
  BY <1>1, StreamParts DEF ToolShape
<1>4. Ticked = {m \in 1 .. Len(kinds) : kinds[m] \in ReplyKind /\ \E j \in 1 .. len - 1 : recvd[j].n = m}
  BY <1>2 DEF Ticked
<1>5. Ticked' = {m \in 1 .. Len(kinds) : kinds[m] \in ReplyKind /\ \E j \in 1 .. len : recvd[j].n = m}
  BY <1>2 DEF Ticked
<1>6. \A j \in 1 .. len - 1 : recvd[j].n # n
  <2> SUFFICES ASSUME NEW j \in 1 .. len - 1 PROVE recvd[j].n # n
    OBVIOUS
  <2>1. j \in 1 .. len /\ len \in 1 .. len /\ j < len
    BY <1>1
  <2>2. Shape /\ InOrderOnce /\ recvd[j].n \in Nat
    BY <2>1, StreamParts
  <2>3. recvd[j].n < n
    BY <2>1, <2>2, Transitive
  <2> QED BY <1>3, <2>2, <2>3
<1>7. Received = kinds[n]
  BY DEF Received
<1>8. Ticked \subseteq Ticked'
  <2>1. \A j \in 1 .. len - 1 : j \in 1 .. len
    BY <1>1
  <2> HIDE DEF len, n
  <2> QED BY <1>4, <1>5, <2>1
<1>9. ASSUME Received \in ReplyKind PROVE Cardinality(Ticked') >= Cardinality(Ticked) + 1
  <2>1. n \in 1 .. Len(kinds) /\ len \in 1 .. len
    BY <1>1, <1>3
  <2>2. n \notin Ticked
    BY <1>4, <1>6
  <2>3. n \in Ticked'
    BY <1>5, <1>7, <1>9, <2>1
  <2> HIDE DEF len, n
  <2>4. IsFiniteSet(Ticked) /\ Cardinality(Ticked) \in Nat
    BY <1>1, StreamParts, TickedFinite
  <2>5. IsFiniteSet(Ticked \cup {n}) /\ Cardinality(Ticked \cup {n}) = Cardinality(Ticked) + 1
    BY <2>2, <2>4, FS_AddElement
  <2>6. IsFiniteSet(Ticked')
    <3>1. IsFiniteSet(1 .. Len(kinds))
      <4>1. Len(kinds) \in Int /\ 1 \in Int
        BY <1>3
      <4> QED BY <4>1, FS_Interval
    <3>2. Ticked' \in SUBSET (1 .. Len(kinds))
      BY <1>5
    <3> QED BY <3>1, <3>2, FS_Subset
  <2>7. Ticked \cup {n} \subseteq Ticked'
    BY <1>8, <2>3
  <2>8. Cardinality(Ticked \cup {n}) <= Cardinality(Ticked')
    BY <2>6, <2>7, FS_Subset
  <2>9. Cardinality(Ticked') \in Nat
    BY <2>6, FS_CardinalityType
  <2> QED BY <2>4, <2>5, <2>8, <2>9
<1> QED BY <1>8, <1>9

LEMMA LooksInv ==
  ASSUME IInv, ToolInv, ToolLooks
  PROVE  IInv' /\ ToolInv'
<1>1. /\ pc = "look" /\ UNCHANGED vars
      /\ tool' = tool /\ kinds' = kinds /\ requests' = requests
  BY DEF ToolLooks
<1>2. IInv'
  BY <1>1, NextInv
<1>3. recvd' = recvd /\ mark' = mark /\ arrived' = arrived
  BY <1>1 DEF vars, calls, user
<1>4. opened' = opened
  BY <1>1, Zenon DEF vars, calls
<1>5. ToolShape /\ Where /\ Open /\ Recent /\ Asked /\ CountTicked
  BY DEF ToolInv
<1>6. count \in Nat /\ count < Goal /\ Goal \in Nat
  BY <1>1, <1>5, ArpingAssumption DEF ToolShape, Where, Goal
<1>7. Goal' = Goal
  BY <1>1 DEF Goal
<1>8. Len(recvd) \in Nat /\ Len(recvd) > 0
  BY <1>1, <1>5, StreamParts DEF Where
<1>9. /\ pc' \in {"threw", "done", "recv", "send"}
      /\ count' \in 0 .. Goal /\ (pc' # "done" => count' < Goal)
      /\ tool = "arping" => pc' # "send"
      /\ count' = count \/ (Received \in ReplyKind /\ count' = count + 1)
  <2>1. CASE Received = "runt"
    BY <1>6, <2>1 DEF ToolLooks
  <2>2. CASE Received # "runt"
    <3>1. count' = Counted(Received) /\ pc' = After(Counted(Received))
      BY <2>2 DEF ToolLooks
    <3>2. Counted(Received) = count \/ (Received \in ReplyKind /\ Counted(Received) = count + 1)
      BY DEF Counted
    <3>3. Counted(Received) \in 0 .. Goal
      BY <1>6, <3>2
    <3> QED BY <1>6, <3>1, <3>2, <3>3 DEF After
  <2> QED BY <2>1, <2>2
<1>10. ToolShape'
  BY <1>1, <1>3, <1>5, <1>7, <1>9 DEF ToolShape
<1>11. Where'
  BY <1>7, <1>9 DEF Where
<1>12. Open'
  <2>1. opened
    BY <1>1, <1>5 DEF Open
  <2> QED BY <1>4, <2>1, Zenon DEF Open
<1>13. Recent'
  BY <1>3, <1>5 DEF Recent
<1>14. Asked'
  BY <1>1, <1>3, <1>5, <1>8, <1>9 DEF Asked, ToolShape
<1>15. CountTicked'
  <2>1. Ticked \subseteq Ticked' /\ (Received \in ReplyKind => Cardinality(Ticked') >= Cardinality(Ticked) + 1)
    BY <1>1, <1>3, <1>9, TickedMore
  <2>2. arrived' \in Nat
    BY <1>3, StreamParts
  <2>3. IsFiniteSet(Ticked) /\ Cardinality(Ticked) \in Nat
    BY <1>5, StreamParts, TickedFinite
  <2>4. ToolShape' => IsFiniteSet(Ticked') /\ Cardinality(Ticked') \in Nat
    <3>1. IInv' => arrived' \in Nat
      BY <2>2
    <3>2. Ticked' \in SUBSET (1 .. Len(kinds))
      BY <1>1 DEF Ticked
    <3>3. Len(kinds) \in Int /\ 1 \in Int
      BY <1>5, StreamParts DEF ToolShape
    <3>4. IsFiniteSet(1 .. Len(kinds))
      BY <3>3, FS_Interval
    <3>5. IsFiniteSet(Ticked')
      BY <3>2, <3>4, FS_Subset
    <3> QED BY <3>5, FS_CardinalityType
  <2>5. Cardinality(Ticked) <= Cardinality(Ticked')
    BY <1>10, <2>1, <2>4, FS_Subset
  <2>6. count <= Cardinality(Ticked)
    BY <1>5 DEF CountTicked
  <2>7. count' <= Cardinality(Ticked')
    BY <1>6, <1>9, <1>10, <2>1, <2>3, <2>4, <2>5, <2>6
  <2> QED BY <2>7 DEF CountTicked
<1> QED BY <1>2, <1>10, <1>11, <1>12, <1>13, <1>14, <1>15 DEF ToolInv

-------------------------------------------------------------------------------
LEMMA ToolInitInv ==
  ASSUME ToolInit
  PROVE  IInv /\ ToolInv
<1>1. Init /\ tool \in Tools /\ pc = "open" /\ count = 0 /\ kinds = <<>> /\ requests = 0
  BY DEF ToolInit
<1>2. IInv
  BY <1>1, InitInv
<1>3. recvd = <<>> /\ arrived = 0
  BY <1>1 DEF Init
<1>4. Goal \in Nat \ {0}
  BY <1>1, ArpingAssumption DEF Goal
<1>5. ToolShape
  BY <1>1, <1>3, <1>4 DEF ToolShape
<1>6. Where /\ Open /\ Recent /\ Asked
  BY <1>1, <1>3, <1>4 DEF Where, Open, Recent, Asked
<1>7. CountTicked
  <2>1. Cardinality(Ticked) \in Nat
    BY <1>2, <1>5, StreamParts, TickedFinite
  <2> QED BY <1>1, <2>1 DEF CountTicked
<1> QED BY <1>2, <1>5, <1>6, <1>7 DEF ToolInv

LEMMA ToolStutter ==
  ASSUME IInv, ToolInv, UNCHANGED <<vars, toolVars>>
  PROVE  IInv' /\ ToolInv'
<1>1. IInv'
  BY NextInv
<1>2. recvd' = recvd /\ mark' = mark /\ arrived' = arrived
  BY DEF vars, calls, user
<1>3. opened' = opened
  BY Zenon DEF vars, calls
<1>4. UNCHANGED <<tool, pc, count, kinds, requests>>
  BY DEF toolVars
<1>5. ToolShape /\ Where /\ Open /\ Recent /\ Asked /\ CountTicked
  BY DEF ToolInv
<1>6. ToolShape' /\ Where' /\ Recent' /\ Asked'
  BY <1>2, <1>4, <1>5 DEF ToolShape, Where, Recent, Asked, Goal
<1>7. Open'
  BY <1>3, <1>4, <1>5, Zenon DEF Open
<1>8. CountTicked'
  BY <1>2, <1>4, <1>5 DEF CountTicked, Ticked, Looked
<1> QED BY <1>1, <1>6, <1>7, <1>8 DEF ToolInv

LEMMA ToolNextInv ==
  ASSUME IInv, ToolInv, [ToolNext]_<<vars, toolVars>>
  PROVE  IInv' /\ ToolInv'
<1>1. CASE HostAnswers \/ OtherTraffic
  <2>1. \E kind \in Kind : Traffic(kind)
    BY <1>1 DEF HostAnswers, OtherTraffic, OtherKind, Kind
  <2> QED BY <2>1, TrafficInv
<1>2. CASE ToolOpens \/ ToolOpened \/ ToolCannotOpen
  BY <1>2, OpeningInv
<1>3. CASE ToolSends
  BY <1>3, SendsInv
<1>4. CASE ToolCannotSend \/ ToolRecvs \/ ToolInterrupted
  BY <1>4, CallsInv
<1>5. CASE ToolInRecv
  BY <1>5, InRecvInv
<1>6. CASE ToolLooks
  BY <1>6, LooksInv
<1>7. CASE UNCHANGED <<vars, toolVars>>
  BY <1>7, ToolStutter
<1> QED BY <1>1, <1>2, <1>3, <1>4, <1>5, <1>6, <1>7 DEF ToolNext, ToolStep

(* The invariant of the stream holds under the programs, and theirs too.   *)
THEOREM ToolInductive == ToolSpec => [](IInv /\ ToolInv)
<1>1. ToolInit => IInv /\ ToolInv
  BY ToolInitInv
<1>2. IInv /\ ToolInv /\ [ToolNext]_<<vars, toolVars>> => (IInv /\ ToolInv)'
  BY ToolNextInv
<1> QED BY <1>1, <1>2, PTL DEF ToolSpec

(* The types of the variables: the programs stop at their goal.            *)
THEOREM ToolTyping == ToolSpec => []ToolTypeOK
<1>1. IInv /\ ToolInv => ToolTypeOK
  BY DEF ToolInv, ToolShape, ToolTypeOK
<1> QED BY <1>1, ToolInductive, PTL

(* A reply is counted once: the count is never above the replies that came *)
(* since open() began (the comparison of the operation in main.cc).        *)
THEOREM RepliesEarned == ToolSpec => []CountEarned
<1>1. ASSUME IInv, ToolInv PROVE CountEarned
  <2>1. ToolShape /\ Recent /\ CountTicked /\ mark \in Nat /\ arrived \in Nat
    BY <1>1, StreamParts DEF ToolInv
  <2>2. Cardinality(Ticked) \in Nat
    BY <2>1, TickedFinite
  <2>3. Ticked \subseteq Since(ReplyKind)
    <3> SUFFICES ASSUME NEW n \in Ticked PROVE n \in Since(ReplyKind)
      OBVIOUS
    <3>1. /\ n \in 1 .. Len(kinds) /\ kinds[n] \in ReplyKind
          /\ \E j \in 1 .. Looked : recvd[j].n = n
      BY DEF Ticked
    <3>2. Looked \in Int /\ Looked <= Len(recvd) /\ Len(recvd) \in Nat
      BY <1>1, StreamParts DEF Looked
    <3>3. \A j \in 1 .. Len(recvd) : recvd[j].n > mark
      BY <2>1 DEF Recent
    <3>4. n > mark
      BY <3>1, <3>2, <3>3
    <3>5. n \in mark + 1 .. Len(kinds)
      BY <2>1, <3>1, <3>4 DEF ToolShape
    <3> QED BY <3>1, <3>5 DEF Since
  <2>4. IsFiniteSet(Since(ReplyKind))
    <3>1. mark + 1 \in Int /\ Len(kinds) \in Int
      BY <2>1 DEF ToolShape
    <3>2. IsFiniteSet((mark + 1) .. Len(kinds))
      BY <3>1, FS_Interval
    <3>3. Since(ReplyKind) \in SUBSET ((mark + 1) .. Len(kinds))
      BY DEF Since
    <3> QED BY <3>2, <3>3, FS_Subset
  <2>5. /\ Cardinality(Ticked) <= Cardinality(Since(ReplyKind))
        /\ Cardinality(Since(ReplyKind)) \in Nat
    BY <2>3, <2>4, FS_Subset, FS_CardinalityType
  <2>6. count \in Nat /\ count <= Cardinality(Ticked)
    BY <2>1, ArpingAssumption DEF ToolShape, CountTicked, Goal
  <2> QED BY <2>2, <2>5, <2>6 DEF CountEarned
<1>2. IInv /\ ToolInv => CountEarned
  BY <1>1
<1> QED BY <1>2, ToolInductive, PTL

(* A program does not run ahead of the network: arping asks once, arping2  *)
(* once more than it has received frames (the loops in main.cc).           *)
THEOREM KeepsPace == ToolSpec => []Paced
<1>1. IInv /\ ToolInv => Paced
  BY DEF ToolInv, Asked, Paced
<1> QED BY <1>1, ToolInductive, PTL

-------------------------------------------------------------------------------
(* What the programs and the network do to the stream is what its callers  *)
(* and its network may do: a run of a tool is a run of a NetStream.        *)
THEOREM RunsStream == ToolSpec => Spec
<1>1. ToolInit => Init
  BY DEF ToolInit
<1>2. [ToolNext]_<<vars, toolVars>> => [Next]_vars
  <2> SUFFICES ASSUME [ToolNext]_<<vars, toolVars>> PROVE Next \/ UNCHANGED vars
    OBVIOUS
  <2>1. ASSUME NEW kind \in Kind, Traffic(kind) PROVE Next
    <3>1. KindLen[kind] \in Lengths
      BY ArpingAssumption
    <3> QED BY <2>1, <3>1 DEF Traffic, Next
  <2>2. CASE HostAnswers \/ OtherTraffic
    BY <2>1, <2>2 DEF HostAnswers, OtherTraffic, OtherKind, Kind
  <2>3. CASE ToolOpens \/ ToolOpened \/ ToolCannotOpen
    BY <2>3 DEF ToolOpens, ToolOpened, ToolCannotOpen, Next
  <2>4. CASE ToolSends
    <3>1. KindLen["request"] \in Lengths
      BY ArpingAssumption DEF Kind
    <3> QED BY <2>4, <3>1 DEF ToolSends, Next
  <2>5. CASE ToolRecvs
    BY <2>5, ArpingAssumption DEF ToolRecvs, Next
  <2>6. CASE ToolInRecv \/ ToolInterrupted
    BY <2>6 DEF ToolInRecv, ToolInterrupted, Next
  <2>7. CASE ToolCannotSend \/ ToolLooks \/ UNCHANGED <<vars, toolVars>>
    BY <2>7 DEF ToolCannotSend, ToolLooks
  <2> QED BY <2>2, <2>3, <2>4, <2>5, <2>6, <2>7 DEF ToolNext, ToolStep
<1> QED BY <1>1, <1>2, PTL DEF ToolSpec, Spec

(* The programs get the frames of the network once, in order and none of   *)
(* them from before their open(), although they send in between and the    *)
(* network does not wait for them.                                         *)
THEOREM FramesInOrder == ToolSpec => [](InOrderOnce /\ NothingSkipped) /\ OnlyFresh
BY RunsStream, NeverTwice, NoneSkipped, FreshOnly, PTL
=============================================================================
