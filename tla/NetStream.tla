------------------------------ MODULE NetStream ------------------------------
(***************************************************************************)
(* pgen/io/net_stream.h: raw frames of a network interface, over a bpf     *)
(* device (BSD) or a packet socket (Linux).                                *)
(*   platform  "bpf" or "linux", as the library was compiled;              *)
(*   fd        the descriptor the object holds: none, one that is not yet  *)
(*             bound to the interface, or one that is;                     *)
(*   opening   open() is under way;                                        *)
(*   queue     the frames the kernel keeps for this descriptor;            *)
(*   buffer    _buffer: the frames the last read() of a bpf device gave;   *)
(*   point     _buffer_point, an offset into it, Null, or Unset;           *)
(*   want      the buffer length of the recv() under way, 0 for none.      *)
(* A frame is its number, in the order the frames arrive, and its length.  *)
(* The rest is a history: the frames recv() returned; the ones the kernel  *)
(* took for a stream that is open; those read() threw away; the number of  *)
(* frames before the last open(); whether that open() succeeded; and       *)
(* whether recv() followed a pointer that was unset or at no bpf_header.   *)
(***************************************************************************)
EXTENDS Integers, Sequences

CONSTANTS
  Platforms,
  Header,     \* sizeof of the bpf header in front of a frame (hdrlen)
  Align,      \* the kernel aligns each header but the first to this
  EINTR,
  Lengths,    \* the lengths of frames
  Buflens,    \* the buffer lengths given to recv()
  QueueMax,   \* frames beyond this are dropped by the kernel
  MaxFrames   \* bounds the frames that arrive

ASSUME NetAssumption ==
  /\ Platforms \subseteq {"bpf", "linux"}
  /\ {Header, Align, EINTR} \subseteq Nat \ {0}
  /\ Lengths \cup Buflens \subseteq Nat \ {0}
  /\ {QueueMax, MaxFrames} \subseteq Nat
  /\ \A n \in Lengths : EINTR # Header + n

VARIABLES platform, fd, opening, queue, buffer, point, want,
          arrived, recvd, taken, swallowed, mark, opened, lost

calls == <<fd, opening, mark, opened>>
user  == <<platform, buffer, want, arrived, recvd, swallowed, lost>>
vars  == <<calls, user, queue, point, taken>>

Null == -1
Unset == -2
Frame == [n : 1 .. MaxFrames, len : Lengths]

(* The constructor leaves _buffer_point as it finds it.                    *)
Init ==
  /\ platform \in Platforms
  /\ fd = "none" /\ opening = FALSE
  /\ queue = <<>> /\ buffer = <<>> /\ point \in {Null, Unset} /\ want = 0
  /\ arrived = 0 /\ recvd = <<>> /\ taken = {} /\ swallowed = {}
  /\ mark = 0 /\ opened = FALSE /\ lost = "no"

-------------------------------------------------------------------------------
(* What a bpf device lays into the buffer: frame i's header starts at the  *)
(* next aligned offset behind frame i - 1.                                 *)
Size(f) == Header + f.len

Aligned(k) == ((k + Align - 1) \div Align) * Align

Start(fs) ==
  LET at[i \in 1 .. Len(fs)] == IF i = 1 THEN 0 ELSE Aligned(at[i - 1] + Size(fs[i - 1]))
  IN  at

(* What read() returns, _buffer_size_readed.                               *)
BytesRead(fs) == IF fs = <<>> THEN 0 ELSE Start(fs)[Len(fs)] + Size(fs[Len(fs)])

(* The frame whose header is at offset k, if there is one.                 *)
At(fs, k) == {i \in 1 .. Len(fs) : Start(fs)[i] = k}

-------------------------------------------------------------------------------
(* The network and the kernel.                                             *)
Listening == fd = "bound" \/ (fd = "unbound" /\ platform = "linux")

(* An unbound packet socket gets the frames of every interface.            *)
Arrive(len) ==
  /\ arrived < MaxFrames
  /\ arrived' = arrived + 1
  /\ IF Listening /\ Len(queue) < QueueMax
     THEN /\ queue' = Append(queue, [n |-> arrived', len |-> len])
          /\ taken' = taken \cup {arrived'}
     ELSE UNCHANGED <<queue, taken>>
  /\ UNCHANGED <<platform, calls, buffer, point, want, recvd, swallowed, lost>>

(* send(): a bpf device hands the sender its own frame (BIOCSSEESENT).     *)
Send(len) ==
  /\ want = 0 /\ ~opening
  /\ fd = "bound" /\ platform = "bpf"
  /\ Arrive(len)

-------------------------------------------------------------------------------
(* open_netif(), in steps between which frames arrive.  The descriptor the *)
(* object held before is forgotten, not closed.                            *)
OpenDescriptor ==
  /\ want = 0 /\ ~opening
  /\ fd' = "unbound"
  /\ opening' = TRUE
  /\ queue' = <<>> /\ taken' = {}
  /\ mark' = arrived
  /\ opened' = FALSE
  /\ UNCHANGED <<user, point>>

OpenNoDescriptor ==
  /\ want = 0 /\ ~opening
  /\ fd' = "none"
  /\ queue' = <<>> /\ taken' = {}
  /\ opened' = FALSE
  /\ UNCHANGED <<opening, mark, user, point>>

Bind ==
  /\ opening
  /\ fd = "unbound"
  /\ fd' = "bound"
  /\ UNCHANGED <<opening, mark, opened, user, queue, point, taken>>

(* An ioctl() or bind() throws; the object keeps the descriptor.           *)
OpenFails ==
  /\ opening
  /\ opening' = FALSE
  /\ UNCHANGED <<fd, mark, opened, user, queue, point, taken>>

(* Mutant: _buffer_point is not reset.                                     *)
OpenKeepsPoint ==
  /\ opening
  /\ fd = "bound"
  /\ opening' = FALSE
  /\ opened' = TRUE
  /\ IF platform = "bpf" THEN queue' = <<>> /\ taken' = {} ELSE UNCHANGED <<queue, taken>>
  /\ UNCHANGED <<fd, mark, user, point>>

(* BIOCFLUSH empties the queue of a bpf device, and _buffer is given up.   *)
OpenDone ==
  /\ opening
  /\ fd = "bound"
  /\ opening' = FALSE
  /\ opened' = TRUE
  /\ IF platform = "bpf"
     THEN queue' = <<>> /\ taken' = {} /\ point' = Null
     ELSE UNCHANGED <<queue, taken, point>>
  /\ UNCHANGED <<fd, mark, user>>

(* close() leaves _buffer and _buffer_point as they are.                   *)
Close ==
  /\ want = 0 /\ ~opening
  /\ fd # "none"
  /\ fd' = "none"
  /\ queue' = <<>> /\ taken' = {}
  /\ opened' = FALSE
  /\ UNCHANGED <<opening, mark, user, point>>

-------------------------------------------------------------------------------
(* recv().                                                                 *)
RecvCall(buflen) ==
  /\ want = 0 /\ ~opening /\ lost = "no"
  /\ want' = buflen
  /\ UNCHANGED <<platform, calls, queue, buffer, point, arrived, recvd, taken, swallowed, lost>>

Copied(f) == IF want < f.len THEN want ELSE f.len

Return(f) ==
  /\ recvd' = Append(recvd, [n |-> f.n, len |-> Copied(f)])
  /\ want' = 0

(* recv() has to ask the kernel.                                           *)
Asks == want > 0 /\ (platform = "linux" \/ point = Null)

(* A signal interrupts read(), which returns -1: recv() throws.            *)
Interrupted ==
  /\ Asks
  /\ want' = 0
  /\ UNCHANGED <<platform, calls, queue, buffer, point, arrived, recvd, taken, swallowed, lost>>

(* So does a descriptor that is closed or not bound.                       *)
ReadFails == ~Listening /\ Interrupted

(* Mutant: read() whether or not frames are left in _buffer.               *)
ReadAgain ==
  /\ want > 0
  /\ platform = "bpf" /\ fd = "bound"
  /\ queue # <<>>
  /\ \E k \in 1 .. Len(queue) : /\ buffer' = SubSeq(queue, 1, k)
                                /\ queue' = SubSeq(queue, k + 1, Len(queue))
  /\ point' = 0
  /\ UNCHANGED <<platform, calls, want, arrived, recvd, taken, swallowed, lost>>

(* bpf: one read() takes the frames of a kernel buffer.                    *)
ReadBlock ==
  /\ Asks
  /\ platform = "bpf" /\ fd = "bound"
  /\ queue # <<>>
  /\ \E k \in 1 .. Len(queue) : /\ buffer' = SubSeq(queue, 1, k)
                                /\ queue' = SubSeq(queue, k + 1, Len(queue))
  /\ point' = 0
  /\ UNCHANGED <<platform, calls, want, arrived, recvd, taken, swallowed, lost>>

(* Mutants: the pointer is never reset, and is never moved.                *)
NextPointBeyond(i) == point + Size(buffer[i])
NextPointSame(i)   == point

(* The pointer after a frame: not aligned, as the kernel's headers are.    *)
NextPoint(i) ==
  LET k == point + Size(buffer[i]) IN IF k >= BytesRead(buffer) THEN Null ELSE k

TakeFrame ==
  /\ want > 0
  /\ platform = "bpf" /\ point # Null
  /\ \E i \in At(buffer, point) :
       /\ Return(buffer[i])
       /\ point' = NextPoint(i)
  /\ UNCHANGED <<platform, calls, queue, buffer, arrived, taken, swallowed, lost>>

(* The pointer is unset or at no header: what recv() makes of the bytes it *)
(* finds there is not defined, and the model ends there.                   *)
Misread ==
  /\ want > 0
  /\ platform = "bpf" /\ point # Null
  /\ At(buffer, point) = {}
  /\ lost' = IF point = Unset THEN "unset" ELSE "unaligned"
  /\ want' = 0
  /\ UNCHANGED <<platform, calls, queue, buffer, point, arrived, recvd, taken, swallowed>>

(* Mutant: every small result of read() is taken for EINTR.                *)
MistakenUpTo(k) == k <= EINTR

(* read() compares the number of bytes with EINTR, and asks again.         *)
Mistaken(k) == k = EINTR

ReadFrame ==
  /\ Asks
  /\ platform = "linux" /\ fd # "none"
  /\ queue # <<>>
  /\ queue' = Tail(queue)
  /\ IF Mistaken(Copied(Head(queue)))
     THEN swallowed' = swallowed \cup {Head(queue).n} /\ UNCHANGED <<recvd, want>>
     ELSE Return(Head(queue)) /\ UNCHANGED swallowed
  /\ UNCHANGED <<platform, calls, buffer, point, arrived, taken, lost>>

Step == ReadFails \/ ReadBlock \/ TakeFrame \/ Misread \/ ReadFrame

Next ==
  \/ \E n \in Lengths : Arrive(n) \/ Send(n)
  \/ OpenDescriptor \/ OpenNoDescriptor \/ Bind \/ OpenFails \/ OpenDone \/ Close
  \/ \E n \in Buflens : RecvCall(n)
  \/ Interrupted
  \/ Step

Spec == Init /\ [][Next]_vars

(* A recv() that has been called runs.                                     *)
FairSpec == Spec /\ WF_vars(Step)
-------------------------------------------------------------------------------
(* The types of the variables, and _buffer_point within what read() gave.  *)
TypeOK ==
  /\ platform \in Platforms
  /\ fd \in {"none", "unbound", "bound"}
  /\ {opening, opened} \subseteq BOOLEAN /\ lost \in {"no", "unset", "unaligned"}
  /\ {queue, buffer} \subseteq Seq(Frame) /\ Len(queue) <= QueueMax
  /\ point \in {Null, Unset} \cup 0 .. BytesRead(buffer) - 1
  /\ want \in Buflens \cup {0}
  /\ {arrived, mark} \subseteq 0 .. MaxFrames
  /\ recvd \in Seq([n : 1 .. MaxFrames, len : Nat])
  /\ taken \cup swallowed \subseteq 1 .. MaxFrames

(* The frames that recv() will return before it loses its way.             *)
Pending == {queue[i].n : i \in 1 .. Len(queue)}
             \cup {buffer[i].n : i \in {j \in 1 .. Len(buffer) :
                                          point >= 0 /\ Start(buffer)[j] >= point}}

(* No frame is returned twice, and none before one that arrived earlier:   *)
(* also when the stream is opened again, when that fails, and when it is   *)
(* closed with frames in _buffer.                                          *)
InOrderOnce == \A j \in 2 .. Len(recvd) : recvd[j - 1].n < recvd[j].n

(* What the kernel took for an open stream is returned or still to come;   *)
(* only a result of EINTR bytes is thrown away by read().                  *)
NothingSkipped ==
  opened /\ lost = "no" =>
    taken \subseteq {recvd[j].n : j \in 1 .. Len(recvd)} \cup Pending \cup swallowed

(* A stream that was opened returns no frame from before: what an earlier  *)
(* open() left in _buffer and in the kernel is gone.                       *)
OnlyFresh ==
  [][Len(recvd') > Len(recvd) /\ opened => recvd'[Len(recvd')].n > mark]_vars

(* A recv() returns when there is a frame for it, but for the frames it    *)
(* mistakes for an interrupted read().                                     *)
RecvReturns ==
  (want > 0 /\ want # EINTR /\ \E i \in 1 .. Len(queue) : queue[i].len # EINTR)
    ~> want = 0

(* "Recieve data from stream" (stream.h:59): a stream that was opened      *)
(* finds the header of every frame the kernel put into its buffer.         *)
FindsHeader == lost # "unaligned"
=============================================================================
