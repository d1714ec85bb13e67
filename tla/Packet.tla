-------------------------------- MODULE Packet --------------------------------
(***************************************************************************)
(* The packet objects of pgen/core/packet.h and their five concrete        *)
(* classes.  A program holds several packet objects; each keeps            *)
(*   - its protocol members (ETH, IP, ...), hdr[o];                        *)
(*   - the header vector, pointers to header members, headers[o];          *)
(*   - a data_container, raw[o]: Pivot cells that headers are written into *)
(*     backwards, followed by the contents;                                *)
(*   - a type tag, tag[o].                                                 *)
(* Every call of the public interface is one action.  result is what the   *)
(* last call reported, compiled[o] remembers the members at the time of    *)
(* the last compile() whose bytes raw[o] still holds (at most one).        *)
(***************************************************************************)
EXTENDS Headers

CONSTANTS
  Obj,        \* the packet objects of the program
  Programs,   \* SUBSET [Obj -> Class]: the classes a program declares them with
  Pivot,      \* max_header_len: the header area of a data_container
  Cleared,    \* [Class -> Members]: what clear() assigns
  Frames,     \* [Class -> SUBSET Seq(Octet)]: the buffers given to analyze()
  Payloads,   \* the buffers given to set_contents()
  Options,    \* the buffers given to set_option()
  Edits,      \* the <<slot, value>> pairs the program assigns to members
  Garbage     \* what an uninitialised packet_type may read as

ASSUME PacketAssumption ==
  /\ Programs \subseteq [Obj -> Class]
  /\ Pivot \in Nat
  /\ Fixed["ETH"] + Fixed["IP"] + OptLen + Fixed["UDP"] <= Pivot
  /\ Fixed["ETH"] + Fixed["ARP"] <= Pivot
  /\ Fixed["ETH"] + Fixed["IPV6"] <= Pivot
  /\ \A c \in Class : Cleared[c] \in Members
  /\ \A c \in Class : \A f \in Frames[c] : f \in Seq(Octet) /\ LegalFrame(c, f)
  /\ \A p \in Payloads \cup Options : p \in Seq(Octet)
  /\ \A e \in Edits : /\ e[1] \in Slot /\ e[1][1] # "OPT" /\ e[2] \in Octet
                      /\ e[1] = HlenSlot => e[2] \in LegalHlen
  /\ Garbage # {}

VARIABLES
  classOf,    \* [Obj -> Class]: the class of each object, never changed
  alive,      \* the objects that are constructed and not yet destroyed
  hdr,        \* [Obj -> Members]
  headers,    \* [Obj -> Seq(Obj \X Layer)]: pointers into hdr
  raw,        \* [Obj -> Seq(Octet)]: the vector of the data_container
  tag,        \* [Obj -> Garbage]: _type
  result,     \* what the last call returned, printed or threw
  compiled    \* [Obj -> SUBSET Members], a history of the last compile()

vars == <<classOf, alive, hdr, headers, raw, tag, result, compiled>>

Own(o) == [i \in 1 .. Len(Vec(classOf[o])) |-> <<o, Vec(classOf[o])[i]>>]

Blanks == [k \in 1 .. Pivot |-> 0]

-------------------------------------------------------------------------------
(* The read-only interface.                                                *)

PtrLen(o, i) == IF i <= Len(headers[o])
                THEN HdrLen(hdr[headers[o][i][1]], headers[o][i][2]) ELSE 0

HeaderLength(o) == PtrLen(o, 1) + PtrLen(o, 2) + PtrLen(o, 3)

Length(o) == Len(raw[o]) - Pivot + HeaderLength(o)

Contents(o) == SubSeq(raw[o], Pivot + 1, Len(raw[o]))

(* raw() and length(): the bytes operator<< hands to a stream.             *)
Raw(o) == SubSeq(raw[o], Pivot - HeaderLength(o) + 1, Len(raw[o]))

-------------------------------------------------------------------------------
(* Mutant: the container is emptied instead of resized to the pivot.       *)
SetContentOnly(vec, buf) == buf

(* data_container::set_content: resize to the pivot, then append.          *)
SetContent(vec, buf) == SubSeq(vec, 1, Pivot) \o buf

(* Mutant: the last cell of a header is not written.                       *)
PutShort(vec, at, cells) ==
  [k \in 1 .. Len(vec) |->
     IF at < k /\ k < at + Len(cells) THEN cells[k - at] ELSE vec[k]]

(* Overwrite the cells after position at.                                  *)
Put(vec, at, cells) ==
  [k \in 1 .. Len(vec) |->
     IF at < k /\ k <= at + Len(cells) THEN cells[k - at] ELSE vec[k]]

(* compile(): from the last header to the first, each written just before  *)
(* the one after it.  s carries the vector and the moving pointer.         *)
WriteAt(s, ms, hs, i) ==
  IF i > Len(hs) THEN s
  ELSE LET cells == WriteHeader(ms[hs[i][1]], hs[i][2])
           to    == s.at - Len(cells)
       IN  [vec |-> Put(s.vec, to, cells), at |-> to]

(* Mutant: the header vector is walked from the first to the last.         *)
CompiledForward(vec, ms, hs) ==
  WriteAt(WriteAt(WriteAt([vec |-> vec, at |-> Pivot], ms, hs, 1), ms, hs, 2),
          ms, hs, 3).vec

Compiled(vec, ms, hs) ==
  WriteAt(WriteAt(WriteAt([vec |-> vec, at |-> Pivot], ms, hs, 3), ms, hs, 2),
          ms, hs, 1).vec

(* Mutant: the pointer is not moved past the header just read.             *)
ReadAtFront(s, hs, i) ==
  IF i > Len(hs) \/ ~s.ok THEN s
  ELSE LET got == ReadHeader(s.ms[hs[i][1]], hs[i][2], s.rest)
       IN  [ms   |-> [s.ms EXCEPT ![hs[i][1]] = got.m],
            rest |-> s.rest,
            ok   |-> got.ok]

(* analyze(): each header reads the front of what is left and is stepped   *)
(* over by its new length; the first read() that throws ends the walk.     *)
ReadAt(s, hs, i) ==
  IF i > Len(hs) \/ ~s.ok THEN s
  ELSE LET got == ReadHeader(s.ms[hs[i][1]], hs[i][2], s.rest)
           n   == HdrLen(got.m, hs[i][2])
       IN  [ms   |-> [s.ms EXCEPT ![hs[i][1]] = got.m],
            rest |-> IF got.ok THEN SubSeq(s.rest, n + 1, Len(s.rest)) ELSE s.rest,
            ok   |-> got.ok]

Analyzed(ms, hs, buf) ==
  ReadAt(ReadAt(ReadAt([ms |-> ms, rest |-> buf, ok |-> TRUE], hs, 1), hs, 2), hs, 3)

-------------------------------------------------------------------------------
Init ==
  /\ classOf \in Programs
  /\ alive = {}
  /\ hdr = [o \in Obj |-> Cleared[classOf[o]]]
  /\ headers = [o \in Obj |-> <<>>]
  /\ raw = [o \in Obj |-> Blanks]
  /\ tag \in [Obj -> Garbage]
  /\ result = "ok"
  /\ compiled = [o \in Obj |-> {}]

(* Default construction: clear() and init_headers() over a zeroed area.    *)
Construct(o) ==
  /\ o \notin alive
  /\ alive' = alive \cup {o}
  /\ hdr' = [hdr EXCEPT ![o] = Cleared[classOf[o]]]
  /\ headers' = [headers EXCEPT ![o] = Own(o)]
  /\ raw' = [raw EXCEPT ![o] = Blanks]
  /\ compiled' = [compiled EXCEPT ![o] = {}]
  /\ \E g \in Garbage : tag' = [tag EXCEPT ![o] = g]
  /\ result' = "ok"
  /\ UNCHANGED classOf

(* Construction from a buffer: default construction, then analyze().  When *)
(* analyze() throws there is no object.                                    *)
ConstructFrom(o, buf) ==
  LET got == Analyzed([hdr EXCEPT ![o] = Cleared[classOf[o]]], Own(o), buf)
  IN  /\ o \notin alive
      /\ UNCHANGED classOf
      /\ IF got.ok
         THEN /\ alive' = alive \cup {o}
              /\ hdr' = got.ms
              /\ headers' = [headers EXCEPT ![o] = Own(o)]
              /\ raw' = [raw EXCEPT ![o] = SetContent(Blanks, got.rest)]
              /\ compiled' = [compiled EXCEPT ![o] = {}]
              /\ \E g \in Garbage : tag' = [tag EXCEPT ![o] = g]
              /\ result' = "ok"
         ELSE /\ result' = "threw"
              /\ UNCHANGED <<alive, hdr, headers, raw, tag, compiled>>

(* Mutant: the implicit copy constructor, which copies the header vector.  *)
CopyPointers(o, r) ==
  /\ o \notin alive
  /\ r \in alive
  /\ classOf[o] = classOf[r]
  /\ alive' = alive \cup {o}
  /\ hdr' = [hdr EXCEPT ![o] = hdr[r]]
  /\ headers' = [headers EXCEPT ![o] = headers[r]]
  /\ raw' = [raw EXCEPT ![o] = raw[r]]
  /\ compiled' = [compiled EXCEPT ![o] = compiled[r]]
  /\ tag' = [tag EXCEPT ![o] = tag[r]]
  /\ result' = "ok"
  /\ UNCHANGED classOf

(* Copy construction.  The header vector is rebuilt, never copied.  arp's  *)
(* copy constructor delegates to arp() instead of packet(rhs), so the copy *)
(* of an arp packet starts with an empty data_container.                   *)
CopyConstruct(o, r) ==
  /\ o \notin alive
  /\ r \in alive
  /\ classOf[o] = classOf[r]
  /\ alive' = alive \cup {o}
  /\ hdr' = [hdr EXCEPT ![o] = hdr[r]]
  /\ headers' = [headers EXCEPT ![o] = Own(o)]
  /\ IF classOf[o] = "arp"
     THEN /\ raw' = [raw EXCEPT ![o] = Blanks]
          /\ compiled' = [compiled EXCEPT ![o] = {}]
          /\ \E g \in Garbage : tag' = [tag EXCEPT ![o] = g]
     ELSE /\ raw' = [raw EXCEPT ![o] = raw[r]]
          /\ compiled' = [compiled EXCEPT ![o] = compiled[r]]
          /\ tag' = [tag EXCEPT ![o] = tag[r]]
  /\ result' = "ok"
  /\ UNCHANGED classOf

(* o = r between two objects of one class: the implicit operator= calls    *)
(* packet::operator= and then assigns the header members.                  *)
Assign(o, r) ==
  /\ {o, r} \subseteq alive
  /\ classOf[o] = classOf[r]
  /\ headers' = [headers EXCEPT ![o] = Own(o)]
  /\ hdr' = [hdr EXCEPT ![o] = hdr[r]]
  /\ result' = "ok"
  /\ UNCHANGED <<classOf, alive, raw, tag, compiled>>

(* The same through two references to packet: packet::operator= compares   *)
(* the numbers of headers, and the header assignments it makes are those   *)
(* of the abstract class header, which has no members.                     *)
AssignBase(o, r) ==
  /\ {o, r} \subseteq alive
  /\ headers' = [headers EXCEPT ![o] = Own(o)]
  /\ result' = IF Len(headers'[r]) # Len(headers'[o]) THEN "threw" ELSE "ok"
  /\ UNCHANGED <<classOf, alive, hdr, raw, tag, compiled>>

(* The program assigns a public member of one of the object's headers.     *)
SetField(o, e) ==
  /\ o \in alive
  /\ HasLayer(classOf[o], e[1][1])
  /\ hdr' = [hdr EXCEPT ![o] = [@ EXCEPT ![e[1]] = e[2]]]
  /\ result' = "ok"
  /\ UNCHANGED <<classOf, alive, headers, raw, tag, compiled>>

SetOption(o, buf) ==
  /\ o \in alive
  /\ HasLayer(classOf[o], "IP")
  /\ IF Len(buf) > OptLen
     THEN result' = "threw" /\ UNCHANGED hdr
     ELSE result' = "ok" /\ hdr' = [hdr EXCEPT ![o] = PutOption(@, buf)]
  /\ UNCHANGED <<classOf, alive, headers, raw, tag, compiled>>

Clear(o) ==
  /\ o \in alive
  /\ hdr' = [hdr EXCEPT ![o] = Cleared[classOf[o]]]
  /\ result' = "ok"
  /\ UNCHANGED <<classOf, alive, headers, raw, tag, compiled>>

SetContents(o, buf) ==
  /\ o \in alive
  /\ raw' = [raw EXCEPT ![o] = SetContent(@, buf)]
  /\ result' = "ok"
  /\ UNCHANGED <<classOf, alive, hdr, headers, tag, compiled>>

Compile(o) ==
  /\ o \in alive
  /\ raw' = [raw EXCEPT ![o] = Compiled(@, hdr, headers[o])]
  /\ compiled' = [compiled EXCEPT ![o] = {hdr[o]}]
  /\ result' = "ok"
  /\ UNCHANGED <<classOf, alive, hdr, headers, tag>>

(* Mutant: the contents are replaced also when a read() threw.             *)
AnalyzeEager(o, buf) ==
  LET got == Analyzed(hdr, headers[o], buf)
  IN  /\ o \in alive
      /\ hdr' = got.ms
      /\ raw' = [raw EXCEPT ![o] = SetContent(@, got.rest)]
      /\ result' = IF got.ok THEN "ok" ELSE "threw"
      /\ UNCHANGED <<classOf, alive, headers, tag, compiled>>

(* The members read before a read() throws keep their new values; the      *)
(* contents are replaced only when every header was read.                  *)
Analyze(o, buf) ==
  LET got == Analyzed(hdr, headers[o], buf)
  IN  /\ o \in alive
      /\ hdr' = got.ms
      /\ raw' = IF got.ok THEN [raw EXCEPT ![o] = SetContent(@, got.rest)] ELSE raw
      /\ result' = IF got.ok THEN "ok" ELSE "threw"
      /\ UNCHANGED <<classOf, alive, headers, tag, compiled>>

(* What operator<< of one object sends, another one of its class analyzes. *)
Receive(o, r) ==
  /\ {o, r} \subseteq alive
  /\ o # r
  /\ classOf[o] = classOf[r]
  /\ LegalFrame(classOf[o], Raw(r))
  /\ Analyze(o, Raw(r))

(* One iteration of module::check(): analyze a received frame, compile it  *)
(* again and compare the two.                                              *)
Check(o, buf) ==
  LET got == Analyzed(hdr, headers[o], buf)
  IN  /\ o \in alive
      /\ hdr' = got.ms
      /\ UNCHANGED <<classOf, alive, headers, tag>>
      /\ IF got.ok
         THEN /\ raw' = [raw EXCEPT ![o] =
                           Compiled(SetContent(@, got.rest), got.ms, headers[o])]
              /\ compiled' = [compiled EXCEPT ![o] = {got.ms[o]}]
              /\ result' = IF Len(buf) # Length(o)' THEN "length error"
                           ELSE IF Raw(o)' = buf THEN "success" ELSE "binary error"
         ELSE result' = "threw" /\ UNCHANGED <<raw, compiled>>

Destroy(o) ==
  /\ o \in alive
  /\ alive' = alive \ {o}
  /\ hdr' = [hdr EXCEPT ![o] = Cleared[classOf[o]]]
  /\ headers' = [headers EXCEPT ![o] = <<>>]
  /\ raw' = [raw EXCEPT ![o] = Blanks]
  /\ compiled' = [compiled EXCEPT ![o] = {}]
  /\ result' = "ok"
  /\ UNCHANGED <<classOf, tag>>

Next ==
  \E o \in Obj :
    \/ Construct(o)
    \/ \E f \in Frames[classOf[o]] : ConstructFrom(o, f)
    \/ \E r \in Obj : CopyConstruct(o, r)
    \/ \E r \in Obj : Assign(o, r)
    \/ \E r \in Obj : AssignBase(o, r)
    \/ \E e \in Edits : SetField(o, e)
    \/ \E p \in Options : SetOption(o, p)
    \/ Clear(o)
    \/ \E p \in Payloads : SetContents(o, p)
    \/ Compile(o)
    \/ \E f \in Frames[classOf[o]] : Analyze(o, f)
    \/ \E r \in Obj : Receive(o, r)
    \/ \E f \in Frames[classOf[o]] : Check(o, f)
    \/ Destroy(o)

Spec == Init /\ [][Next]_vars
-------------------------------------------------------------------------------
(* The types of the variables; in particular every hlen a program sets or  *)
(* reads stays within the lengths ip.h:19-20 declares.                     *)
TypeOK ==
  /\ classOf \in [Obj -> Class]
  /\ alive \subseteq Obj
  /\ hdr \in [Obj -> Members]
  /\ headers \in [Obj -> Seq(Obj \X Layer)]
  /\ raw \in [Obj -> Seq(Octet)]
  /\ tag \in [Obj -> Garbage]
  /\ result \in {"ok", "threw", "length error", "binary error", "success"}
  /\ compiled \in [Obj -> SUBSET Members]

(* A live object's header vector points at its own headers, in the order   *)
(* init_headers() gives, whatever was copied, assigned or destroyed: the   *)
(* pointers of a copied-from or dead object are never followed.            *)
HeadersOwned == \A o \in alive : headers[o] = Own(o)

(* The assertions of contents(), raw() and length() (packet.h:185, 192,    *)
(* 198) hold in every reachable state, so raw() points into the vector.    *)
AssertsHold == \A o \in alive : /\ Len(raw[o]) >= Pivot
                                /\ HeaderLength(o) <= Pivot

(* "A value returned by raw() depends on compile()" (packet.h:95) and on   *)
(* nothing else: the cells before the pivot are the images of the headers  *)
(* at the last compile(), one after the other, first to last, although     *)
(* compile() wrote them last to first, and whatever was assigned, copied,  *)
(* analyzed (a frame that was too short included) or set as contents       *)
(* since.                                                                  *)
RawIsWireImage ==
  \A o \in alive : \A m \in compiled[o] :
    \A i \in 1 .. Len(Vec(classOf[o])) :
      \A k \in 1 .. HdrLen(m, Vec(classOf[o])[i]) :
        raw[o][Pivot - VecLenFrom(m, classOf[o], i) + k]
          = WireCell(m, Vec(classOf[o])[i], k)

(* A call that throws leaves the bytes to be sent as they were: analyze()  *)
(* of a truncated frame may change members, never raw data.                *)
FailedCallKeepsRaw == [][result' = "threw" => UNCHANGED raw]_vars

(* A call on one object changes no other: the members an object's header   *)
(* vector reaches are its own.                                             *)
OthersUntouched ==
  [][\E o \in Obj : \A r \in Obj \ {o} :
        /\ hdr'[r] = hdr[r]
        /\ raw'[r] = raw[r]
        /\ r \in alive' <=> r \in alive]_vars

(* The frame holds zero where the ipv6 header writes zero.                 *)
ZeroBlanks(c, buf) ==
  \A s \in Zeroed : HasLayer(c, s[1]) /\ Len(buf) >= Fixed["ETH"] + s[2]
                     => buf[Fixed["ETH"] + s[2]] = 0

(* module::check() (module.h:223-233) prints neither of its error messages *)
(* for a frame whose ipv6 traffic class and flow label are zero, whatever  *)
(* packet the object held before: analyze() then compile() gives the frame *)
(* back, options, byte order and contents included.                        *)
CheckSucceeds ==
  [][result' \in {"length error", "binary error"} =>
       \A o \in Obj : \A f \in Frames[classOf[o]] :
         ZeroBlanks(classOf[o], f) => ~Check(o, f)]_vars

(* What one object compiles and sends, another one of its class reads: the *)
(* members on the wire and the contents arrive, and nothing throws.        *)
ReceiveRestoresMembers ==
  [][\A o, r \in Obj :
       compiled[r] = {hdr[r]} /\ Receive(o, r)
         => /\ result' = "ok"
            /\ \A s \in Visible(hdr[r], classOf[r]) \ Zeroed :
                  hdr'[o][s] = hdr[r][s]
            /\ Contents(o)' = Contents(r)]_vars

-------------------------------------------------------------------------------
(* "This function doesn't update raw data" (packet.h:131): analyze() never *)
(* changes the data_container.                                             *)
AnalyzeKeepsRaw ==
  [][\A o \in Obj : \A f \in Frames[classOf[o]] : Analyze(o, f) => UNCHANGED raw]_vars

(* "pgen::packet::operator=: not same packet type" (packet.h:250): an      *)
(* assignment between packets of two types throws.                         *)
AssignChecksType ==
  [][\A o, r \in Obj : AssignBase(o, r) /\ classOf[o] # classOf[r]
                          => result' = "threw"]_vars

(* "Return packet type as pgen::packet_type" (packet.h:77): type() names   *)
(* the class of the object.                                                *)
TagOf(c) == IF c = "ipv4" THEN "ip" ELSE c

TypeNamesClass == \A o \in alive : tag[o] = TagOf(classOf[o])
=============================================================================
