------------------------------ MODULE MCZundoko ------------------------------
(***************************************************************************)
(* Zundoko with a network that loses datagrams and a server that is        *)
(* restarted, or with a network that duplicates one.  One client sends     *)
(* five datagrams, enough for a KIYOSHI of its own, and another one sends  *)
(* one in between, enough for a fifth ZUN.  A client whose datagram is     *)
(* lost waits for ever, so the system really may stop.                     *)
(***************************************************************************)
EXTENDS Zundoko

CONSTANTS a, b

MCMaxSent == [c \in Clients |-> IF c = a THEN 5 ELSE 1]
MCFaults == {{"lose", "restart"}, {"duplicate"}}
=============================================================================
