------------------------------- MODULE MCArping -------------------------------
(***************************************************************************)
(* Arping with two replies to count, ARP frames that keep the next header  *)
(* aligned and other frames that do not, and a kernel that keeps two.      *)
(* arping2 on a bpf device asks once more for each of its own requests     *)
(* that comes back, so that it needs six frames at least to come to its    *)
(* end; eight are enough with two of other hosts between them.             *)
(***************************************************************************)
EXTENDS Arping

MCKindLen == [k \in Kind |-> IF k = "other" THEN 1 ELSE 4]
=============================================================================
