----------------------------- MODULE MCNetStream -----------------------------
(***************************************************************************)
(* NetStream with frames that keep the next header aligned and frames that *)
(* do not, with results of EINTR bytes, and a kernel that keeps two frames.*)
(***************************************************************************)
EXTENDS NetStream
=============================================================================
