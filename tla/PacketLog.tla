------------------------------ MODULE PacketLog ------------------------------
(***************************************************************************)
(* What a capture file promises to one writer and one reader: packets come *)
(* out in the order they went in, none is skipped and none invented.       *)
(*   log     the packets of the file, in the order of send();              *)
(*   passed  how many of them the reader has gone by since it opened it;   *)
(*   recvd   what recv() returned: the packet's number and its bytes;      *)
(*   ok      the reader stands between two packets.  Once it does not, the *)
(*           file promises nothing until it is opened again.               *)
(* Whole says whether recv() returns whole packets only, or may cut one to *)
(* the size of the buffer.                                                 *)
(***************************************************************************)
EXTENDS Naturals, Sequences

CONSTANTS Payloads, Whole

VARIABLES log, passed, recvd, ok

vars == <<log, passed, recvd, ok>>

Init == log \in Seq(Payloads) /\ passed = 0 /\ recvd = <<>> /\ ok = TRUE

Put == /\ \E p \in Payloads : log' = Append(log, p)
       /\ UNCHANGED <<passed, recvd, ok>>

(* A crash of the writer loses packets nobody has received.                *)
Lose == /\ ok
        /\ \E n \in passed .. Len(log) : log' = SubSeq(log, 1, n)
        /\ UNCHANGED <<passed, recvd, ok>>

Take == /\ ok
        /\ passed < Len(log)
        /\ \E n \in 0 .. Len(log[passed + 1]) :
             /\ Whole => n = Len(log[passed + 1])
             /\ recvd' = Append(recvd, [rec  |-> passed + 1,
                                        data |-> SubSeq(log[passed + 1], 1, n)])
        /\ passed' = passed + 1
        /\ UNCHANGED <<log, ok>>

(* An empty packet may be gone by without being returned.                  *)
Pass == /\ ok
        /\ passed < Len(log)
        /\ log[passed + 1] = <<>>
        /\ passed' = passed + 1
        /\ UNCHANGED <<log, recvd, ok>>

Reopen == passed' = 0 /\ recvd' = <<>> /\ ok' = TRUE /\ UNCHANGED log

Derail == ok' = FALSE

Next == Put \/ Lose \/ Take \/ Pass \/ Reopen \/ Derail

Spec == Init /\ [][Next]_vars
=============================================================================
