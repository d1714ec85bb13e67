------------------------------- MODULE Zundoko -------------------------------
(***************************************************************************)
(* example/zundoko: clients send ZUN and DOKO in UDP datagrams, a server   *)
(* sends each datagram back, and the DOKO that ends a "zun zun zun zun     *)
(* doko" as KIYOSHI.  The server keeps one state for all of its clients;   *)
(* neither side has a timeout.                                             *)
(*   state     how many ZUN the server counts (zd_state);                  *)
(*   requests  datagrams on their way to the server;                       *)
(*   replies   datagrams on their way to a client, or in its socket;       *)
(*   waiting   the clients that are blocked in recvfrom();                 *)
(*   faults    what went wrong so far, each at most once but for losses.   *)
(* The rest is a history: what each client sent and got, what the server   *)
(* heard and answered since it was started, the clients of whose datagrams *)
(* one was lost since they last got one (dropped), and those of whose      *)
(* datagrams one was duplicated (doubled).                                 *)
(***************************************************************************)
EXTENDS Naturals, Sequences, FiniteSetsExt

CONSTANTS
  Clients,
  Faults,     \* the combinations of faults to consider
  MaxSent     \* [Clients -> Nat]: bounds the datagrams of each client

ASSUME ZundokoAssumption ==
  /\ Faults \subseteq SUBSET {"lose", "duplicate", "restart"}
  /\ MaxSent \in [Clients -> Nat]

VARIABLES state, requests, replies, waiting, faults, sent, got, heard, answered, dropped, doubled

vars == <<state, requests, replies, waiting, faults, sent, got, heard, answered, dropped, doubled>>

Sendable == {"ZUN", "DOKO"}
Type == Sendable \cup {"KIYOSHI"}

(* A datagram: whose it is, which of its sender's, and which copy of it.   *)
Datagram(types) == [client : Clients, n : Nat, copy : 1 .. 2, type : types]

Init ==
  /\ state = 0
  /\ requests = {} /\ replies = {}
  /\ waiting = {}
  /\ faults = {}
  /\ sent = [c \in Clients |-> <<>>]
  /\ got = [c \in Clients |-> <<>>]
  /\ heard = <<>> /\ answered = <<>>
  /\ dropped = {} /\ doubled = {}

-------------------------------------------------------------------------------
(* send_zundoko(), up to its recvfrom().                                   *)
SendZundoko(c, type) ==
  /\ c \notin waiting
  /\ Len(sent[c]) < MaxSent[c]
  /\ sent' = [sent EXCEPT ![c] = Append(@, type)]
  /\ requests' = requests \cup
       {[client |-> c, n |-> Len(sent'[c]), copy |-> 1, type |-> type]}
  /\ waiting' = waiting \cup {c}
  /\ UNCHANGED <<state, replies, faults, got, heard, answered, dropped, doubled>>

(* recvfrom() returns whatever datagram comes first.                       *)
RecvReply(c) ==
  /\ c \in waiting
  /\ \E r \in replies :
       /\ r.client = c
       /\ replies' = replies \ {r}
       /\ got' = [got EXCEPT ![c] = Append(@, [n |-> r.n, type |-> r.type])]
  /\ waiting' = waiting \ {c}
  /\ dropped' = dropped \ {c}
  /\ UNCHANGED <<state, requests, faults, sent, heard, answered, doubled>>

(* Mutants: a fifth ZUN leaves the server in zzzz, or takes it beyond.     *)
CountStays(s, type) == IF type # "ZUN" THEN 0 ELSE IF s < 4 THEN s + 1 ELSE s
CountOn(s, type)    == IF type = "ZUN" THEN s + 1 ELSE 0

(* The state after a datagram: only ZUN counts, and not beyond zzzz.       *)
Count(s, type) == IF type = "ZUN" /\ s < 4 THEN s + 1 ELSE 0

(* Mutant: three ZUN are enough.                                           *)
AnswerEarly(s, type) == IF s >= 3 /\ type = "DOKO" THEN "KIYOSHI" ELSE type

(* What becomes of the type of a datagram.                                 *)
Answer(s, type) == IF s = 4 /\ type = "DOKO" THEN "KIYOSHI" ELSE type

(* Mutant: one client gets all the answers, whoever asked.                 *)
RepliesToFirst(r) ==
  {[r EXCEPT !.type = Answer(state, r.type), !.client = CHOOSE c \in Clients : TRUE]}

(* Mutant: only the datagram that wins is sent back.                       *)
RepliesIfWon(r) == IF Answer(state, r.type) = r.type THEN {}
                   ELSE {[r EXCEPT !.type = "KIYOSHI"]}

(* The buffer that came in goes out again, to where it came from.          *)
RepliesTo(r) == {[r EXCEPT !.type = Answer(state, r.type)]}

(* client_hanle().                                                         *)
ClientHanle ==
  \E r \in requests :
    /\ requests' = requests \ {r}
    /\ state' = Count(state, r.type)
    /\ replies' = replies \cup RepliesTo(r)
    /\ heard' = Append(heard, r.type)
    /\ answered' = Append(answered, Answer(state, r.type))
    /\ UNCHANGED <<waiting, faults, sent, got, dropped, doubled>>

-------------------------------------------------------------------------------
(* The network reorders at will; it may lose datagrams and duplicate one.  *)
Fault(kind) == /\ faults' = faults \cup {kind}
               /\ \E fs \in Faults : faults' \subseteq fs

Lose ==
  /\ Fault("lose")
  /\ \E d \in requests \cup replies :
       /\ requests' = requests \ {d}
       /\ replies' = replies \ {d}
       /\ dropped' = dropped \cup {d.client}
  /\ UNCHANGED <<state, waiting, sent, got, heard, answered, doubled>>

DuplicateRequest ==
  /\ "duplicate" \notin faults /\ Fault("duplicate")
  /\ \E r \in requests : /\ requests' = requests \cup {[r EXCEPT !.copy = 2]}
                        /\ doubled' = doubled \cup {r.client}
  /\ UNCHANGED <<state, replies, waiting, sent, got, heard, answered, dropped>>

DuplicateReply ==
  /\ "duplicate" \notin faults /\ Fault("duplicate")
  /\ \E r \in replies : /\ replies' = replies \cup {[r EXCEPT !.copy = 2]}
                       /\ doubled' = doubled \cup {r.client}
  /\ UNCHANGED <<state, requests, waiting, sent, got, heard, answered, dropped>>

(* The server is stopped and started again.  The datagrams in its socket,  *)
(* the one between its recvfrom() and its sendto() and those that come in  *)
(* before it is back are gone; the others are still on their way.          *)
Restart ==
  /\ "restart" \notin faults /\ Fault("restart")
  /\ state' = 0
  /\ heard' = <<>> /\ answered' = <<>>
  /\ \E gone \in SUBSET requests :
       /\ requests' = requests \ gone
       /\ dropped' = dropped \cup {r.client : r \in gone}
  /\ UNCHANGED <<replies, waiting, sent, got, doubled>>

Next ==
  \/ \E c \in Clients, type \in Sendable : SendZundoko(c, type)
  \/ \E c \in Clients : RecvReply(c)
  \/ ClientHanle
  \/ Lose \/ DuplicateRequest \/ DuplicateReply \/ Restart

Spec == Init /\ [][Next]_vars

(* The server calls client_hanle() for ever, and a client that is blocked  *)
(* in recvfrom() gets a datagram that is there.                            *)
FairSpec == Spec /\ WF_vars(ClientHanle) /\ \A c \in Clients : WF_vars(RecvReply(c))
-------------------------------------------------------------------------------
(* The types of the variables: state never reaches the default of          *)
(* client_hanle()'s switch, where the server exits (server.cc:80-85).      *)
TypeOK ==
  /\ state \in 0 .. 4
  /\ requests \subseteq Datagram(Sendable) /\ replies \subseteq Datagram(Type)
  /\ waiting \subseteq Clients
  /\ faults \subseteq UNION Faults
  /\ sent \in [Clients -> Seq(Sendable)]
  /\ got \in [Clients -> Seq([n : Nat, type : Type])]
  /\ heard \in Seq(Sendable) /\ answered \in Seq(Type) /\ Len(answered) = Len(heard)
  /\ dropped \cup doubled \subseteq Clients

(* The ZUN the server heard directly before its i-th datagram.             *)
Run(i) == Max({n \in 0 .. i - 1 : \A j \in i - n .. i - 1 : heard[j] = "ZUN"})

(* client_hanle() answers KIYOSHI to a DOKO after four ZUN and to nothing  *)
(* else, where every fifth ZUN of a run starts the count again, however    *)
(* the datagrams of the clients came to be in that order.                  *)
KiyoshiExactly ==
  \A i \in DOMAIN answered :
    answered[i] = "KIYOSHI" <=> heard[i] = "DOKO" /\ Run(i) % 5 = 4

(* A client that has the server for itself gets KIYOSHI only when its own  *)
(* last five datagrams were four ZUN and a DOKO: datagrams that get lost   *)
(* and a server that is restarted do not change that.                      *)
AloneEarned ==
  \A c \in Clients :
    c \notin doubled /\ (\A d \in Clients \ {c} : sent[d] = <<>>) =>
      \A k \in DOMAIN got[c] :
        got[c][k].type = "KIYOSHI" =>
          /\ k > 4
          /\ SubSeq(sent[c], k - 4, k) = <<"ZUN", "ZUN", "ZUN", "ZUN", "DOKO">>

(* A client takes no answer for that of another one of its datagrams, as   *)
(* long as the network duplicates none of its own: whatever else is lost,  *)
(* late or doubled, and whoever else talks to the server.                  *)
AnswersOwn ==
  \A c \in Clients \ doubled : \A k \in DOMAIN got[c] : got[c][k].n = k

(* Without a timeout a client is lost with its datagram, or the answer to  *)
(* it, if no copy of either is left.  Every other client goes on.          *)
Deserted(c) == c \in dropped /\ \A d \in requests \cup replies : d.client # c

Answered ==
  \A c \in Clients : c \in waiting ~> (c \notin waiting \/ Deserted(c))
=============================================================================
