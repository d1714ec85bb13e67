------------------------------ MODULE PcapStream ------------------------------
(***************************************************************************)
(* pgen/io/pcap_stream.h.  The file header is one cell; a record is the    *)
(* two cells include_len and original_len, then the bytes of the packet.   *)
(* The time stamps, which send() sets to zero, are left out.               *)
(*                                                                         *)
(* The variables after the file's are a history:                           *)
(*   log     the packets whose records the file holds;                     *)
(*   ends    where the file header and each of those records end;          *)
(*   passed  the records the reader has gone by since open();              *)
(*   recvd   what recv() returned, with the number of the record;          *)
(*   lost    why the reader no longer stands between two records;          *)
(*   torn    the records, not in log, from the first on of which a write() *)
(*           threw midway: the packets sent after it lie behind a part of  *)
(*           a record, where no reader finds them.                         *)
(***************************************************************************)
EXTENDS FileStream, SequencesExt

CONSTANTS
  Magic,      \* the file header
  Payloads,   \* the packets given to send()
  Buflens,    \* the buffer lengths given to recv()
  MaxLog      \* bounds the packets of one file

ASSUME PcapAssumption ==
  /\ Magic \in Cell
  /\ \A p \in Payloads : p \in Seq(Cell) /\ Len(p) \in Cell
  /\ Buflens \subseteq Nat
  /\ MaxLog \in Nat

VARIABLES log, ends, passed, recvd, lost, torn

vars == <<fileVars, log, ends, passed, recvd, lost, torn>>

Record(p) == <<Len(p), Len(p)>> \o p

Init ==
  /\ FileInit(<<>>)
  /\ log = <<>> /\ ends = <<0>>
  /\ passed = 0 /\ recvd = <<>> /\ lost = "no"
  /\ torn = 0

-------------------------------------------------------------------------------
(* A file that is truncated under a reader leaves it nowhere.              *)
OpenWrite ==
  /\ OpenWriting(<<Magic>>)
  /\ log' = <<>>
  /\ ends' = <<1>>
  /\ lost' = "truncated"
  /\ torn' = 0
  /\ UNCHANGED <<passed, recvd>>

Logged(p) ==
  IF torn = 0
  THEN /\ log' = Append(log, p)
       /\ ends' = Append(ends, Last(ends) + Len(Record(p)))
       /\ UNCHANGED torn
  ELSE torn' = torn + 1 /\ UNCHANGED <<log, ends>>

(* Mutant: original_len is one too large.                                  *)
SendLong(p) ==
  /\ Len(log) + torn < MaxLog
  /\ Fwrite(<<Len(p), Len(p) + 1>> \o p)
  /\ Logged(p)
  /\ UNCHANGED <<passed, recvd, lost>>

(* An empty packet throws in the second write(), after its header.         *)
Send(p) ==
  /\ Len(log) + torn < MaxLog
  /\ Fwrite(Record(p))
  /\ Logged(p)
  /\ UNCHANGED <<passed, recvd, lost>>

(* The header, or the packet after it, is written in part.                 *)
SendFails(p) ==
  /\ Len(log) + torn < MaxLog
  /\ \E n \in 1 .. Len(Record(p)) - 1 : FwriteFails(Record(p), n)
  /\ torn' = torn + 1
  /\ UNCHANGED <<log, ends, passed, recvd, lost>>

FlushSome == Flush /\ UNCHANGED <<log, ends, passed, recvd, lost, torn>>

CloseWrite == CloseWriting /\ UNCHANGED <<log, ends, passed, recvd, lost, torn>>

(* The records that reached the disk whole are the packets that are left;  *)
(* none, when not even the file header did.                                *)
Crash ==
  /\ CrashWriting
  /\ IF ends[1] > Len(disk)
     THEN log' = <<>> /\ ends' = <<0>> /\ torn' = 0
     ELSE \E n \in 0 .. Len(log) :
            /\ ends[n + 1] <= Len(disk)
            /\ n < Len(log) => ends[n + 2] > Len(disk)
            /\ log' = SubSeq(log, 1, n)
            /\ ends' = SubSeq(ends, 1, n + 1)
            /\ torn' = IF n < Len(log) THEN 0 ELSE torn
  /\ UNCHANGED <<passed, recvd, lost>>

(* open() throws when there is no file header yet.                         *)
OpenRead ==
  /\ Len(disk) >= 1
  /\ OpenReading(1)
  /\ passed' = 0 /\ recvd' = <<>> /\ lost' = "no"
  /\ UNCHANGED <<log, ends, torn>>

CloseRead == CloseReading /\ UNCHANGED <<log, ends, passed, recvd, lost, torn>>

PollEof == Eof /\ UNCHANGED <<log, ends, passed, recvd, lost, torn>>

-------------------------------------------------------------------------------
(* recv(), one action per outcome.  Both read()s of a recv() see the file  *)
(* of the second one: in between it can only have grown, or been truncated *)
(* under a reader that is lost by that.                                    *)
HeaderHere == reader = "open" /\ CanRead(cursor, 2)
OriginalLen == disk[cursor + 2]
InStep == lost = "no"
AtTear == torn > 0 /\ passed >= Len(log)
Now(cause) == IF ~InStep THEN lost ELSE IF AtTear THEN "torn" ELSE cause
Passing == IF InStep /\ ~AtTear THEN passed + 1 ELSE passed

RecvNoHeader ==
  /\ reader = "open"
  /\ ~HeaderHere
  /\ ReadShort
  /\ lost' = IF cursor' = cursor THEN lost ELSE Now("short")
  /\ UNCHANGED <<log, ends, passed, recvd, torn>>

(* "buffer length is too small": the header is gone, the packet is not.    *)
RecvTooSmall(buflen) ==
  /\ HeaderHere
  /\ buflen < OriginalLen
  /\ Consume(2)
  /\ lost' = Now("small")
  /\ UNCHANGED <<log, ends, passed, recvd, torn>>

RecvEmpty ==
  /\ HeaderHere
  /\ OriginalLen = 0
  /\ Consume(2)
  /\ passed' = Passing
  /\ lost' = Now("no")
  /\ UNCHANGED <<log, ends, recvd, torn>>

RecvNoBody(buflen) ==
  /\ HeaderHere
  /\ 0 < OriginalLen /\ OriginalLen <= buflen
  /\ ~CanRead(cursor + 2, OriginalLen)
  /\ ReadShort
  /\ lost' = Now("short")
  /\ UNCHANGED <<log, ends, passed, recvd, torn>>

(* Mutant: a short body is returned instead of thrown.                     *)
RecvAnyBody(buflen) ==
  /\ HeaderHere
  /\ 0 < OriginalLen /\ OriginalLen <= buflen
  /\ Consume(2 + OriginalLen)
  /\ passed' = Passing
  /\ lost' = Now("no")
  /\ recvd' = Append(recvd, [rec  |-> passed',
                             data |-> SubSeq(disk, cursor + 3,
                               IF cursor' <= Len(disk) THEN cursor' ELSE Len(disk))])
  /\ UNCHANGED <<log, ends, torn>>

RecvPacket(buflen) ==
  /\ HeaderHere
  /\ 0 < OriginalLen /\ OriginalLen <= buflen
  /\ CanRead(cursor + 2, OriginalLen)
  /\ Consume(2 + OriginalLen)
  /\ passed' = Passing
  /\ lost' = Now("no")
  /\ recvd' = Append(recvd, [rec  |-> passed',
                             data |-> SubSeq(disk, cursor + 3, cursor + 2 + OriginalLen)])
  /\ UNCHANGED <<log, ends, torn>>

Recv(buflen) == \/ RecvNoHeader
                \/ RecvTooSmall(buflen)
                \/ RecvEmpty
                \/ RecvNoBody(buflen)
                \/ RecvPacket(buflen)

Next ==
  \/ OpenWrite \/ FlushSome \/ CloseWrite \/ Crash
  \/ \E p \in Payloads : Send(p) \/ SendFails(p)
  \/ OpenRead \/ CloseRead \/ PollEof
  \/ \E n \in Buflens : Recv(n)

Spec == Init /\ [][Next]_vars

(* A reader that has not seen the end of the file calls recv() again, as   *)
(* the loop of module::check() does (module.h:216-221).                    *)
FairSpec == Spec /\ WF_vars(~atEof /\ \E n \in Buflens : Recv(n))
-------------------------------------------------------------------------------
(* The types of the variables, and the ends of the records in rising order *)
(* within what was written.                                                *)
TypeOK ==
  /\ FileTypeOK
  /\ log \in Seq(Payloads) /\ torn \in 0 .. MaxLog - Len(log)
  /\ ends \in Seq(Nat) /\ Len(ends) = Len(log) + 1
  /\ Last(ends) <= Len(disk) + Len(wbuf)
  /\ passed \in Nat
  /\ recvd \in Seq([rec : Nat, data : Seq(Cell)])
  /\ lost \in {"no", "short", "small", "torn", "truncated"}

(* What recv() returns is a packet that was sent, whole, and in the order  *)
(* of send(): also while the writer is between two writes, after it died,  *)
(* up to the place where a write() of it threw midway, and after a read()  *)
(* that came up short on a FILE whose end-of-file indicator is sticky.     *)
NothingInvented ==
  lost = "no" \/ (lost = "short" /\ sticky) =>
    \A j \in DOMAIN recvd :
      /\ recvd[j].rec \in DOMAIN log
      /\ recvd[j].data = log[recvd[j].rec]
      /\ j > 1 => recvd[j - 1].rec < recvd[j].rec

(* Whenever the reader would be told the end of a file that is written no  *)
(* more, at which the loops of the library stop, every packet was passed:  *)
(* what close() left in a buffer, what a crash tore off and the end of the *)
(* file that was seen while the writer was late make no reader stop early. *)
(* The one exception is a FILE whose indicator is sticky: once set, every  *)
(* later eof() says "end", whatever the file grew to since then.           *)
EndAfterAll ==
  writer = "closed" /\ reader = "open" /\ InStep /\ ~CanRead(cursor, 1)
    => passed = Len(log) \/ (sticky /\ atEof)

(* The stream is a PacketLog as long as its reader keeps in step.          *)
Abstract == INSTANCE PacketLog WITH ok <- InStep, Whole <- TRUE

KeepsLog == Abstract!Spec

(* Once the writer has closed the file, a reader that has not yet seen the *)
(* end of it gets everything that was sent until a write() threw, unless   *)
(* it gives up, its buffer is too small or the file is opened for writing  *)
(* again.                                                                  *)
Drained ==
  (writer = "closed" /\ reader = "open" /\ InStep /\ ~atEof)
    ~> (passed = Len(log) \/ ~InStep \/ reader = "closed" \/ writer = "open")
=============================================================================
