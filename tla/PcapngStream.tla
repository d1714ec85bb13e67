----------------------------- MODULE PcapngStream -----------------------------
(***************************************************************************)
(* pgen/io/pcapng_stream.h: the stream, which writes and reads blocks.     *)
(* epb is an EPB object the program gives an option, fills with            *)
(* set_packet() and writes with write_block(); want is the buffer length   *)
(* of the recv() that is under way, 0 for none.  The variables after these *)
(* are the history of PcapStream.  ends[1] is 0 as long as the file is one *)
(* that was there before, made by another program or by none.              *)
(***************************************************************************)
EXTENDS FileStream, PcapngBlock, SequencesExt

CONSTANTS
  TmpSize,         \* the buffer recv() reads a block into (1000)
  Sends, Fills,    \* the packets given to send(), and to set_packet()
  Options,         \* the options a program gives an EPB object
  Buflens,         \* the buffer lengths given to recv()
  Files,           \* the files of other programs: their cells, the packets in them, and
                   \* how many of those lie before each block that recv() gets to
  MaxLog,          \* bounds the packets of one file
  MaxTotal         \* bounds the total_length of a block

VARIABLES epb, want, log, ends, passed, recvd, lost

history == <<log, ends, passed, recvd, lost>>
vars == <<fileVars, epb, want, history>>

(* The packets a file may hold.  An EPB nobody filled holds an empty one.  *)
Payloads == Sends \cup Fills \cup {<<>>} \cup UNION {Range(f.log) : f \in Files}

ASSUME PcapngAssumption ==
  /\ {SHB, IDB, EPB} \subseteq Cell
  /\ \A p \in Payloads \cup Options : p \in Seq(Cell)
  /\ 0 .. MaxTotal \subseteq Cell
  /\ Buflens \subseteq Nat \ {0}
  /\ \A f \in Files : f.disk \in Seq(Cell) /\ f.log \in Seq(Payloads) /\ Len(f.log) <= MaxLog
  /\ {TmpSize, MaxLog, MaxTotal} \subseteq Nat
  /\ \A p \in Sends \cup {<<>>} : SetPacket(NewBlock(EPB), p).total <= MaxTotal

(* The packets of a file are those a walk over its blocks meets, up to one *)
(* that is not all there, has no body or is larger than the buffer, or to  *)
(* the end of the file.  A capture program that cuts a packet leaves its   *)
(* packet_length the larger of the two.                                    *)
Described(f) ==
  /\ DOMAIN f.before \subseteq 0 .. Len(f.disk) /\ 0 \in DOMAIN f.before /\ f.before[0] = 0
  /\ Len(f.disk) \in DOMAIN f.before => f.before[Len(f.disk)] = Len(f.log)
  /\ \A c \in DOMAIN f.before :
       LET total == f.disk[c + 2]
           block == SubSeq(f.disk, c + 1, c + total)
           k     == f.before[c]
       IN  c + 2 <= Len(f.disk) /\ total \in 4 .. TmpSize /\ c + total <= Len(f.disk) =>
             /\ c + total \in DOMAIN f.before
             /\ IF Readable(EPB, block)
                THEN /\ f.before[c + total] = k + 1
                     /\ k < Len(f.log) /\ BlockIn(EPB, block).data = f.log[k + 1]
                     /\ BlockIn(EPB, block).capture <= BlockIn(EPB, block).packet
                ELSE f.before[c + total] = k

ASSUME FilesAssumption == \A f \in Files : Described(f)

NoFile == [disk |-> <<>>, log |-> <<>>]

Init ==
  /\ \E f \in Files \cup {NoFile} :
       /\ FileInit(f.disk)
       /\ log = f.log
       /\ ends = [k \in 1 .. Len(f.log) + 1 |-> 0]
  /\ epb = NewBlock(EPB) /\ want = 0
  /\ passed = 0 /\ recvd = <<>> /\ lost = "no"

-------------------------------------------------------------------------------
(* The writer.                                                             *)
Preamble == Image(NewBlock(SHB)) \o Image(NewBlock(IDB))

OpenWrite ==
  /\ OpenWriting(Preamble)
  /\ log' = <<>>
  /\ ends' = <<Len(Preamble)>>
  /\ lost' = "truncated"
  /\ UNCHANGED <<epb, want, passed, recvd>>

(* write_block(): the block goes to the file when write() does not throw.  *)
WriteBlock(e) ==
  /\ Len(log) < MaxLog
  /\ Writable(e)
  /\ Fwrite(Image(e))
  /\ log' = Append(log, e.data)
  /\ ends' = Append(ends, Last(ends) + e.total)
  /\ UNCHANGED <<epb, want, passed, recvd, lost>>

Send(p) == WriteBlock(SetPacket(NewBlock(EPB), p))

NewEpb == epb' = NewBlock(EPB) /\ UNCHANGED <<fileVars, want, history>>

(* option is public, and nothing adds its size to total_length but the     *)
(* program, if it thinks of it.                                            *)
AddOption(o) ==
  /\ epb.option = <<>>
  /\ \E n \in {0, Len(o)} :
       /\ epb.total + n <= MaxTotal
       /\ epb' = [epb EXCEPT !.option = o, !.total = @ + n]
  /\ UNCHANGED <<fileVars, want, history>>

FillBlock(p) ==
  /\ SetPacket(epb, p).total <= MaxTotal
  /\ epb' = SetPacket(epb, p)
  /\ UNCHANGED <<fileVars, want, history>>

FlushSome == Flush /\ UNCHANGED <<epb, want, history>>

CloseWrite == CloseWriting /\ UNCHANGED <<epb, want, history>>

(* The packets whose blocks reached the disk are left; none, when not even *)
(* the first two blocks did.                                               *)
Crash ==
  /\ CrashWriting
  /\ IF ends[1] > Len(disk)
     THEN log' = <<>> /\ ends' = <<0>>
     ELSE \E n \in 0 .. Len(log) :
            /\ ends[n + 1] <= Len(disk)
            /\ n < Len(log) => ends[n + 2] > Len(disk)
            /\ log' = SubSeq(log, 1, n)
            /\ ends' = SubSeq(ends, 1, n + 1)
  /\ UNCHANGED <<epb, want, passed, recvd, lost>>

-------------------------------------------------------------------------------
(* The reader.  open() reads nothing.                                      *)
InStep == lost = "no"

OpenRead ==
  /\ OpenReading(0)
  /\ passed' = 0 /\ recvd' = <<>> /\ lost' = "no"
  /\ UNCHANGED <<epb, want, log, ends>>

CloseRead ==
  /\ want = 0
  /\ CloseReading
  /\ UNCHANGED <<epb, want, history>>

PollEof == want = 0 /\ Eof /\ UNCHANGED <<epb, want, history>>

RecvCall(buflen) ==
  /\ reader = "open" /\ want = 0
  /\ want' = buflen
  /\ UNCHANGED <<fileVars, epb, history>>

(* One turn of recv()'s loop, one action per outcome.  What a reader that  *)
(* is out of step finds in a length is not defined, and so not modelled.   *)
(* A block is three read()s: head, body and tail.  A body of no length is  *)
(* one that read() throws on; a total_length below that of a head and a    *)
(* tail wraps, and stands for all that the file has.                       *)
Turn == want > 0 /\ reader = "open" /\ InStep

HeadHere == Turn /\ CanRead(cursor, 2)

Total == disk[cursor + 2]

(* read_block() does not look at the size of its buffer, only the end of   *)
(* the file stops it.                                                      *)
Overruns == Total \notin 3 .. TmpSize /\ Len(disk) - cursor > TmpSize

(* The feof() before the block cleared the indicator with its ungetc().    *)
Advance(n) ==
  /\ cursor' = cursor + n
  /\ atEof' = FALSE
  /\ UNCHANGED <<disk, wbuf, writer, reader, sticky>>

RecvEof ==
  /\ want > 0
  /\ ~CanRead(cursor, 1)
  /\ atEof' = TRUE
  /\ want' = 0
  /\ UNCHANGED <<disk, wbuf, writer, reader, cursor, sticky, epb, history>>

RecvShort ==
  /\ Turn
  /\ CanRead(cursor, 1)
  /\ CanRead(cursor, 2) =>
       ~Overruns /\ Total # 3 /\ (Total > 3 => ~CanRead(cursor, Total))
  /\ ReadShort
  /\ want' = 0
  /\ lost' = "short"
  /\ UNCHANGED <<epb, log, ends, passed, recvd>>

RecvOverrun ==
  /\ HeadHere
  /\ Overruns
  /\ want' = 0
  /\ lost' = "overrun"
  /\ UNCHANGED <<fileVars, epb, log, ends, passed, recvd>>

(* The reader is left at the tail.                                         *)
RecvNoBody ==
  /\ HeadHere
  /\ Total = 3
  /\ Advance(2)
  /\ want' = 0
  /\ lost' = "bodyless"
  /\ UNCHANGED <<epb, log, ends, passed, recvd>>

BlockHere == HeadHere /\ Total \in 4 .. TmpSize /\ CanRead(cursor, Total)

(* The block as it lies in tmp_buffer.                                     *)
Here == SubSeq(disk, cursor + 1, cursor + Total)

(* Mutant: every block ends the call.                                      *)
RecvFirst ==
  /\ BlockHere
  /\ Here[1] \notin {EPB, SPB}
  /\ Advance(Total)
  /\ want' = 0
  /\ passed' = passed + 1
  /\ UNCHANGED <<epb, log, ends, recvd, lost>>

RecvSkip ==
  /\ BlockHere
  /\ Here[1] \notin {EPB, SPB}
  /\ Advance(Total)
  /\ UNCHANGED <<epb, want, history>>

(* recv() throws on an SPB ("not implement") and on an EPB that read()     *)
(* throws on, and stands behind it.  read_block() makes an exception of a  *)
(* tail that differs, but does not throw it.                               *)
RecvRefuse ==
  /\ BlockHere
  /\ Here[1] = SPB \/ (Here[1] = EPB /\ ~Readable(EPB, Here))
  /\ Advance(Total)
  /\ want' = 0
  /\ UNCHANGED <<epb, history>>

(* Mutant: the whole packet is copied into whatever buffer was given.      *)
CopiedWhole(b) == b.packet

(* packet_length, which is more than the block holds of a packet that was  *)
(* cut when it was captured.                                               *)
Copied(b) == IF want < b.packet THEN want ELSE b.packet

(* recvd keeps what comes from the packet, and how many cells from behind  *)
(* it: those are padding, the tail, or what was left in tmp_buffer.        *)
RecvPacket ==
  /\ BlockHere
  /\ Here[1] = EPB /\ Readable(EPB, Here)
  /\ Advance(Total)
  /\ want' = 0
  /\ passed' = passed + 1
  /\ LET b == BlockIn(EPB, Here)
         n == IF Copied(b) < b.capture THEN Copied(b) ELSE b.capture
     IN  recvd' = Append(recvd, [rec  |-> passed', data |-> SubSeq(b.data, 1, n),
                                 over |-> Copied(b) - n])
  /\ UNCHANGED <<epb, log, ends, lost>>

Step ==
  RecvEof \/ RecvShort \/ RecvOverrun \/ RecvNoBody \/ RecvSkip \/ RecvRefuse \/ RecvPacket

Next ==
  \/ OpenWrite \/ NewEpb \/ WriteBlock(epb) \/ FlushSome \/ CloseWrite \/ Crash
  \/ \E p \in Sends : Send(p)
  \/ \E p \in Fills : FillBlock(p)
  \/ \E o \in Options : AddOption(o)
  \/ OpenRead \/ CloseRead \/ PollEof
  \/ \E n \in Buflens : RecvCall(n)
  \/ Step

Spec == Init /\ [][Next]_vars

(* A recv() runs its loop to the end, and a program that has not seen the  *)
(* end of the file calls it again.                                         *)
FairSpec ==
  Spec /\ WF_vars(Step) /\ WF_vars(~atEof /\ InStep /\ \E n \in Buflens : RecvCall(n))
-------------------------------------------------------------------------------
(* The types of the variables, and the last block within what was written. *)
TypeOK ==
  /\ FileTypeOK
  /\ epb.total <= MaxTotal /\ epb.data \in Payloads /\ epb.option \in Options \cup {<<>>}
  /\ want \in Buflens \cup {0}
  /\ log \in Seq(Payloads) /\ Len(log) <= MaxLog
  /\ ends \in Seq(Nat) /\ Len(ends) = Len(log) + 1
  /\ Last(ends) <= Len(disk) + Len(wbuf)
  /\ passed \in Nat
  /\ recvd \in Seq([rec : Nat, data : Seq(Cell), over : Nat])
  /\ lost \in {"no", "short", "overrun", "bodyless", "truncated"}

(* Every block of the file, in whatever order an EPB object was given an   *)
(* option, filled, filled again and written, lies where the one before it  *)
(* ends, and read() makes of it the block that write() was given: the      *)
(* packet, and a block that write() would write the same way.              *)
ReadsBack ==
  LET image == disk \o wbuf IN
  writer = "open" =>
    /\ \A b \in {NewBlock(SHB), NewBlock(IDB)} :
         Readable(b.kind, Image(b)) /\ BlockIn(b.kind, Image(b)) = b
    /\ SubSeq(image, 1, ends[1]) = Preamble
    /\ \A i \in DOMAIN log :
         LET c == SubSeq(image, ends[i] + 1, ends[i + 1]) IN
         /\ Readable(EPB, c)
         /\ BlockIn(EPB, c).data = log[i]
         /\ Writable(BlockIn(EPB, c)) /\ Image(BlockIn(EPB, c)) = c

(* recv() returns as much of the packet it stands before as its buffer     *)
(* takes, and no other packet: whatever other blocks lie between, with or  *)
(* without options.  It returns more only of a packet that another program *)
(* cut, with cells that are not the packet's.                              *)
RecvFillsBuffer ==
  [][Len(recvd') > Len(recvd) =>
       LET got == Last(recvd')
           p   == log[got.rec]
       IN  /\ got.data = SubSeq(p, 1, IF want < Len(p) THEN want ELSE Len(p))
           /\ ends[1] > 0 => got.over = 0]_vars

(* Whenever the reader would be told the end of a file that is written no  *)
(* more, at which the loops of the library stop, every packet was passed:  *)
(* what close() left in a buffer, what a crash tore off and the end of the *)
(* file that was seen while the writer was late make no reader stop early. *)
(* The one exception is a FILE whose indicator is sticky: once set, every  *)
(* later eof() says "end", whatever the file grew to since then.           *)
EndAfterAll ==
  writer = "closed" /\ reader = "open" /\ InStep /\ ~CanRead(cursor, 1)
    => passed = Len(log) \/ (sticky /\ atEof)

(* The stream is a PacketLog as long as its reader keeps in step, although *)
(* the writer may add blocks between two turns of one recv().              *)
Abstract ==
  INSTANCE PacketLog WITH
    ok <- InStep, Whole <- FALSE,
    recvd <- [j \in DOMAIN recvd |-> [rec |-> recvd[j].rec, data |-> recvd[j].data]]

KeepsLog == Abstract!Spec

(* Once the writer has closed the file, a reader that has not yet seen the *)
(* end of it gets every packet, unless it gives up, a block is larger than *)
(* the buffer of recv() or has no body, or the file is opened for writing  *)
(* again.                                                                  *)
Drained ==
  (writer = "closed" /\ reader = "open" /\ InStep /\ ~atEof)
    ~> (passed = Len(log) \/ ~InStep \/ reader = "closed" \/ writer = "open")
=============================================================================
