-------------------------------- MODULE MCPcap --------------------------------
(***************************************************************************)
(* PcapStream with packets of zero, one and two cells, and buffers that    *)
(* are too small for the longest one and larger than all of them.          *)
(***************************************************************************)
EXTENDS PcapStream

MCCell == 0 .. 3
MCPayloads == {<<>>, <<1>>, <<2, 1>>}
=============================================================================
