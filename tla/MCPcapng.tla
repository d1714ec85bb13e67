------------------------------- MODULE MCPcapng -------------------------------
(***************************************************************************)
(* PcapngStream with a padded packet, one that is cut by a small buffer,   *)
(* and files of other programs: one with blocks that recv() skips and      *)
(* refuses, an option and a packet that was cut to nothing when it was     *)
(* captured, and one each with a block that does not fit the buffer of     *)
(* recv(), a block without a body, and one whose length is below that of   *)
(* any block.  The end-of-file indicator is not sticky, so that the reader *)
(* goes on after a writer that was late; MCPcap has both kinds.            *)
(***************************************************************************)
EXTENDS PcapngStream

MCCell == 0 .. 16
MCSends == {<<8, 9>>}
MCFills == {<<7>>}
MCOptions == {<<5>>}

Unknown == <<11, 4, 0, 4>>
Simple == <<SPB, 6, 2, 8, 8, 6>>
WrongTail == <<EPB, 7, 2, 2, 8, 8, 6>>
LongOption == <<EPB, 9, 1, 1, 7, 0, 5, 5, 9>>
Cut == <<EPB, 5, 0, 1, 5>>
Large == <<EPB, 11, 6, 6, 7, 7, 7, 7, 7, 7, 11>>
NoBody == <<11, 3, 3>>
TooShort == <<11, 2>>

(* A file in which recv() gets to nothing after the third block.           *)
EndsWith(cells, packets) ==
  [disk |-> Preamble \o LongOption \o cells,
   log  |-> <<<<7>>>> \o packets,
   before |-> [c \in {0, 4, 8, 17} |-> IF c < 17 THEN 0 ELSE 1]]

MCFiles ==
  {[disk |-> Preamble \o Unknown \o WrongTail \o LongOption \o Simple \o Cut,
    log  |-> <<<<7>>, <<>>>>,
    before |-> [c \in {0, 4, 8, 12, 19, 28, 34, 39} |->
                  IF c < 28 THEN 0 ELSE IF c < 39 THEN 1 ELSE 2]],
   EndsWith(Large, <<[k \in 1 .. 6 |-> 7]>>),
   EndsWith(NoBody \o Cut, <<<<>>>>),
   EndsWith(TooShort, <<>>)}
=============================================================================
