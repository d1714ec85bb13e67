------------------------------ MODULE FileStream ------------------------------
(***************************************************************************)
(* pgen/io/file_stream.h over the stdio file it wraps: one file, one       *)
(* stream that writes it and one that reads it, in one program or in two.  *)
(*   disk    the cells of the file;                                        *)
(*   wbuf    what the writer's fwrite() calls left in the stdio buffer;    *)
(*   cursor  the reader's position;                                        *)
(*   atEof   the end-of-file indicator of the reader's FILE;               *)
(*   sticky  whether fread() fails at once while the indicator is set, as  *)
(*           C libraries differ (glibc does since 2.28).                   *)
(***************************************************************************)
EXTENDS Naturals, Sequences

CONSTANTS
  Cell, Sticky,
  Chunk   \* bounds the states: a part of the stdio buffer fills whole chunks of the file

ASSUME FileAssumption == Cell \subseteq Nat /\ Sticky \subseteq BOOLEAN /\ Chunk \in Nat \ {0}

VARIABLES disk, wbuf, writer, reader, cursor, atEof, sticky

fileVars == <<disk, wbuf, writer, reader, cursor, atEof, sticky>>
readVars == <<reader, cursor, atEof>>

(* The file may hold something already.                                    *)
FileInit(cells) ==
  /\ disk = cells /\ wbuf = <<>>
  /\ writer = "closed" /\ reader = "closed"
  /\ cursor = 0
  /\ atEof = FALSE
  /\ sticky \in Sticky

FileTypeOK ==
  /\ disk \in Seq(Cell) /\ wbuf \in Seq(Cell)
  /\ {writer, reader} \subseteq {"closed", "open"}
  /\ cursor \in Nat
  /\ {atEof, sticky} \subseteq BOOLEAN

-------------------------------------------------------------------------------
(* The writer.  fopen(name, "wb") empties the file; the given cells are    *)
(* what open() writes at once.                                             *)
OpenWriting(cells) ==
  /\ writer = "closed"
  /\ writer' = "open"
  /\ disk' = <<>>
  /\ wbuf' = cells
  /\ UNCHANGED <<readVars, sticky>>

Fwrite(cells) ==
  /\ writer = "open"
  /\ wbuf' = wbuf \o cells
  /\ UNCHANGED <<disk, writer, readVars, sticky>>

(* A write() that throws, as on a full disk: stdio took a part of it.      *)
FwriteFails(cells, n) ==
  /\ writer = "open"
  /\ wbuf' = wbuf \o SubSeq(cells, 1, n)
  /\ UNCHANGED <<disk, writer, readVars, sticky>>

(* stdio hands any front part of its buffer to the file when it likes, and *)
(* in fflush(): all of it, or less when that fails, which does not throw.  *)
Flush ==
  /\ writer = "open"
  /\ \E n \in 1 .. Len(wbuf) :
       /\ n = Len(wbuf) \/ (Len(disk) + n) % Chunk = 0
       /\ disk' = disk \o SubSeq(wbuf, 1, n)
       /\ wbuf' = SubSeq(wbuf, n + 1, Len(wbuf))
  /\ UNCHANGED <<writer, readVars, sticky>>

(* Mutant: fclose() without flushing.                                      *)
CloseWithoutFlush ==
  /\ writer = "open"
  /\ writer' = "closed"
  /\ wbuf' = <<>>
  /\ UNCHANGED <<disk, readVars, sticky>>

(* close() and the destructor, when fclose() does not fail.                *)
CloseWriting ==
  /\ writer = "open"
  /\ writer' = "closed"
  /\ disk' = disk \o wbuf
  /\ wbuf' = <<>>
  /\ UNCHANGED <<readVars, sticky>>

(* The writing program dies with its buffer, or an fclose() that fails     *)
(* gives it up, which close() does not tell.                               *)
CrashWriting ==
  /\ writer = "open"
  /\ writer' = "closed"
  /\ wbuf' = <<>>
  /\ UNCHANGED <<disk, readVars, sticky>>

-------------------------------------------------------------------------------
(* The reader.                                                             *)
OpenReading(n) ==
  /\ reader = "closed"
  /\ reader' = "open"
  /\ cursor' = n
  /\ atEof' = FALSE
  /\ UNCHANGED <<disk, wbuf, writer, sticky>>

CloseReading ==
  /\ reader = "open"
  /\ reader' = "closed"
  /\ UNCHANGED <<disk, wbuf, writer, cursor, atEof, sticky>>

(* fread() of nothing returns 0, which read() takes for a failure.         *)
CanRead(from, n) == n > 0 /\ ~(sticky /\ atEof) /\ from + n <= Len(disk)

Consume(n) ==
  /\ cursor' = cursor + n
  /\ UNCHANGED <<disk, wbuf, writer, reader, atEof, sticky>>

(* A read() that comes up short takes what there is.                       *)
ReadShort ==
  /\ cursor' = IF (sticky /\ atEof) \/ cursor > Len(disk) THEN cursor ELSE Len(disk)
  /\ atEof' = TRUE
  /\ UNCHANGED <<disk, wbuf, writer, reader, sticky>>

(* feof(): reads a byte and puts it back; ungetc() clears the indicator.   *)
Eof ==
  /\ reader = "open"
  /\ atEof' = ~CanRead(cursor, 1)
  /\ UNCHANGED <<disk, wbuf, writer, reader, cursor, sticky>>
=============================================================================
