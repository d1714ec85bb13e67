-------------------------------- MODULE Arping --------------------------------
(***************************************************************************)
(* example/tools/arping and arping2 over a NetStream, on a network with    *)
(* the host they ask for and with other traffic.                           *)
(*   tool      the program that runs: arping sends one request and waits   *)
(*             for a reply; arping2 sends one for every frame it receives, *)
(*             until it has counted Replies of them;                       *)
(*   pc        where the program is: in open(), before a send(), in a      *)
(*             recv(), at a frame it received, at its end, or after a      *)
(*             throw;                                                      *)
(*   count     arping2's count; arping counts its one reply here too;      *)
(*   kinds     a history: what each frame that arrived was;                *)
(*   requests  a history: the requests that went out.                      *)
(***************************************************************************)
EXTENDS NetStream, FiniteSets

CONSTANTS
  Tools,
  Replies,    \* the replies arping2 counts (5)
  Buflen,     \* the length of the buffer for a frame
  KindLen,    \* [Kind -> Lengths]: the length of a frame of each kind
  MaxOthers   \* bounds the frames of the other hosts

VARIABLES tool, pc, count, kinds, requests

toolVars == <<tool, pc, count, kinds, requests>>

(* "foreign" is an ARP reply nobody asked for, and "runt" a frame with the *)
(* type of ARP that is too short for it.                                   *)
Kind == {"request", "reply", "foreign", "runt", "other"}

ReplyKind == {"reply", "foreign"}

OtherKind == {"foreign", "runt", "other"}

ASSUME ArpingAssumption ==
  /\ Tools \subseteq {"arping", "arping2"}
  /\ Replies \in Nat \ {0}
  /\ Buflen \in Buflens
  /\ KindLen \in [Kind -> Lengths]
  /\ \A k \in ReplyKind : KindLen[k] # EINTR /\ KindLen[k] <= Buflen
  /\ MaxOthers \in Nat

ToolInit ==
  /\ Init
  /\ tool \in Tools
  /\ pc = "open" /\ count = 0
  /\ kinds = <<>> /\ requests = 0

Goal == IF tool = "arping" THEN 1 ELSE Replies

(* The frames of the given kinds that have arrived since open() began.     *)
Since(ks) == {n \in mark + 1 .. Len(kinds) : kinds[n] \in ks}

-------------------------------------------------------------------------------
(* The network.  The host answers a request at most once.                  *)
Traffic(kind) ==
  /\ Arrive(KindLen[kind])
  /\ kinds' = Append(kinds, kind)
  /\ UNCHANGED <<tool, pc, count, requests>>

HostAnswers == Cardinality(Since({"reply"})) < requests /\ Traffic("reply")

OtherTraffic ==
  /\ Cardinality({n \in DOMAIN kinds : kinds[n] \in OtherKind}) < MaxOthers
  /\ \E kind \in OtherKind : Traffic(kind)

-------------------------------------------------------------------------------
(* The programs open the stream once; a throw ends them.                   *)
ToolOpens ==
  /\ pc = "open"
  /\ ~opened
  /\ \/ ~opening /\ fd = "none" /\ OpenDescriptor
     \/ Bind
  /\ UNCHANGED toolVars

ToolOpened ==
  /\ pc = "open"
  /\ OpenDone
  /\ pc' = "send"
  /\ UNCHANGED <<tool, count, kinds, requests>>

(* Also when there is no descriptor at all.                                *)
ToolCannotOpen ==
  /\ pc = "open"
  /\ OpenFails \/ OpenNoDescriptor
  /\ pc' = "threw"
  /\ UNCHANGED <<tool, count, kinds, requests>>

(* net << pack.  A bpf device gives the program its own request back.      *)
ToolSends ==
  /\ pc = "send"
  /\ pc' = "recv"
  /\ requests' = requests + 1
  /\ IF platform = "bpf"
     THEN Send(KindLen["request"]) /\ kinds' = Append(kinds, "request")
     ELSE UNCHANGED <<vars, kinds>>
  /\ UNCHANGED <<tool, count>>

ToolCannotSend ==
  /\ pc = "send"
  /\ pc' = "threw"
  /\ UNCHANGED <<vars, tool, count, kinds, requests>>

ToolRecvs ==
  /\ pc = "recv" /\ want = 0
  /\ RecvCall(Buflen)
  /\ UNCHANGED toolVars

(* recv() goes on, returns a frame, or throws.                             *)
ToolInRecv ==
  /\ pc = "recv"
  /\ Step
  /\ pc' = IF Len(recvd') > Len(recvd) THEN "look"
           ELSE IF want' = 0 THEN "threw" ELSE "recv"
  /\ UNCHANGED <<tool, count, kinds, requests>>

ToolInterrupted ==
  /\ pc = "recv"
  /\ Interrupted
  /\ pc' = "threw"
  /\ UNCHANGED <<tool, count, kinds, requests>>

-------------------------------------------------------------------------------
(* What the frame is that recv() returned: its type, and the operation of  *)
(* an ARP packet.  arping2 leaves this to pgen::module::detect(), whose    *)
(* definition is commented out (module.h:168-205); it is modelled as       *)
(* telling apart what arping does.                                         *)
Received == kinds[recvd[Len(recvd)].n]

(* Mutant: the operation of an ARP packet is not looked at.                *)
CountedAny(kind) == IF kind \in ReplyKind \cup {"request"} THEN count + 1 ELSE count

Counted(kind) == IF kind \in ReplyKind THEN count + 1 ELSE count

(* Mutants: the loop runs once too often; the programs ask again; arping2  *)
(* asks once, as arping does.                                              *)
AfterOneMore(k) ==
  IF k > Goal THEN "done" ELSE IF tool = "arping" THEN "recv" ELSE "send"
AfterAskAgain(k) == IF k = Goal THEN "done" ELSE "send"
AfterAskOnce(k)  == IF k = Goal THEN "done" ELSE "recv"

(* Where the program goes on with a count of k.                            *)
After(k) == IF k = Goal THEN "done" ELSE IF tool = "arping" THEN "recv" ELSE "send"

(* The constructor of pgen::arp throws when the frame is too short.        *)
ToolLooks ==
  /\ pc = "look"
  /\ IF Received = "runt"
     THEN pc' = "threw" /\ UNCHANGED count
     ELSE count' = Counted(Received) /\ pc' = After(Counted(Received))
  /\ UNCHANGED <<vars, tool, kinds, requests>>

ToolStep == ToolSends \/ ToolCannotSend \/ ToolRecvs \/ ToolInRecv \/ ToolLooks

ToolNext ==
  \/ HostAnswers \/ OtherTraffic
  \/ ToolOpens \/ ToolOpened \/ ToolCannotOpen
  \/ ToolStep \/ ToolInterrupted

ToolSpec == ToolInit /\ [][ToolNext]_<<vars, toolVars>>

(* A program runs, and the host answers.                                   *)
FairToolSpec ==
  /\ ToolSpec
  /\ WF_<<vars, toolVars>>(ToolStep)
  /\ WF_<<vars, toolVars>>(HostAnswers)
-------------------------------------------------------------------------------
(* The types of the variables: the programs stop at their goal.            *)
ToolTypeOK ==
  /\ tool \in Tools
  /\ pc \in {"open", "send", "recv", "look", "done", "threw"}
  /\ count \in 0 .. Goal
  /\ kinds \in Seq(Kind) /\ Len(kinds) = arrived
  /\ requests \in Nat

(* A reply is counted once: the count is never above the replies that came *)
(* since open() began, although recv() hands the program its own requests, *)
(* several frames of one read() and whatever else is on the network.       *)
CountEarned == lost = "no" => count <= Cardinality(Since(ReplyKind))

(* A program does not run ahead of the network: arping asks once, arping2  *)
(* once more than it has received frames.                                  *)
Paced == requests <= (IF tool = "arping" THEN 1 ELSE Len(recvd) + 1)

(* The kernel had no room for a reply.                                     *)
ReplyDropped == Since({"reply"}) \ taken # {}

(* A program that asks a host that answers comes to its end, unless a      *)
(* reply is dropped or recv() loses its way.  arrived = MaxFrames is where *)
(* the model ends.                                                         *)
Finishes ==
  pc = "recv" ~> (pc \in {"done", "threw"} \/ ReplyDropped \/ lost # "no" \/ arrived = MaxFrames)
=============================================================================
