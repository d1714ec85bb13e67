----------------------------- MODULE PacketProofs -----------------------------
(***************************************************************************)
(* Theorems about Packet, for every set of objects, every layout that      *)
(* satisfies the assumptions of Headers and Packet, and every set of       *)
(* frames, payloads, options and assignments.                              *)
(***************************************************************************)
EXTENDS Packet, SequenceTheorems, TLAPS

-------------------------------------------------------------------------------
(* Lengths.                                                                *)

(* length() of a header is at least its min_length, and an ipv4 header's   *)
(* options fit the private array (ip.h:211, ip.h:34).                      *)
LEMMA Lengths ==
  ASSUME NEW m \in Members, NEW l \in Layer
  PROVE  /\ HdrLen(m, l) \in Nat
         /\ Fixed[l] \in Nat /\ Fixed[l] > 0
         /\ HdrLen(m, l) >= Fixed[l]
         /\ l # "IP" => HdrLen(m, l) = Fixed[l]
         /\ l = "IP" => /\ HdrLen(m, l) <= Fixed[l] + OptLen
                        /\ HdrLen(m, l) - Fixed[l] <= OptLen
  <1> DEFINE h == m[HlenSlot]
  <1>1. Fixed[l] \in Nat /\ Fixed[l] > 0
    BY SizeAssumption
  <1>2. CASE l # "IP"
    BY <1>1, <1>2 DEF HdrLen
  <1>3. CASE l = "IP"
    <2>1. h \in MinHlen .. MaxHlen
      BY DEF Members, LegalHlen
    <2>2. /\ Word \in Nat /\ MinHlen \in Nat /\ MaxHlen \in Nat /\ h \in Nat
          /\ MinHlen <= h /\ h <= MaxHlen
      BY <2>1, SizeAssumption
    <2>3. /\ 0 <= Word * (h - MinHlen)
          /\ Word * (h - MinHlen) <= Word * (MaxHlen - MinHlen)
          /\ Word * (h - MinHlen) \in Int /\ Word * (MaxHlen - MinHlen) \in Int
      BY <2>2, Z3
    <2>4. HdrLen(m, l) = Fixed[l] + Word * (h - MinHlen)
      BY <1>3 DEF HdrLen
    <2>. HIDE DEF h
    <2>5. QED
      BY <1>1, <1>3, <2>3, <2>4 DEF OptLen
  <1>4. QED
    BY <1>2, <1>3

-------------------------------------------------------------------------------
(* Slots and cells.                                                        *)

(* A slot is a pair of a layer, or of the option array, and an index.      *)
LEMMA Slots ==
  /\ \A l \in Layer : \A k \in 1 .. Fixed[l] : <<l, k>> \in Slot
  /\ \A k \in 1 .. OptLen : <<"OPT", k>> \in Slot
  /\ \A s \in Slot : /\ s = <<s[1], s[2]>>
                     /\ s[1] \in Layer => s[2] \in 1 .. Fixed[s[1]]
                     /\ s[1] = "OPT" => s[2] \in 1 .. OptLen
  /\ HlenSlot \in Slot
  <1>1. "OPT" \notin Layer
    BY DEF Layer
  <1>2. \A s : s \in Slot <=> \E l \in Layer \cup {"OPT"} : s \in SlotsOf(l)
    BY Zenon DEF Slot
  <1>3. \A l \in Layer : \A k \in 1 .. Fixed[l] : <<l, k>> \in Slot
    BY <1>1, <1>2 DEF SlotsOf
  <1>4. \A k \in 1 .. OptLen : <<"OPT", k>> \in Slot
    BY <1>2 DEF SlotsOf
  <1>5. ASSUME NEW s \in Slot
        PROVE  /\ s = <<s[1], s[2]>>
               /\ s[1] \in Layer => s[2] \in 1 .. Fixed[s[1]]
               /\ s[1] = "OPT" => s[2] \in 1 .. OptLen
    BY <1>1, <1>2 DEF SlotsOf
  <1>6. "IP" \in Layer /\ 1 \in 1 .. Fixed["IP"]
    BY SizeAssumption DEF Layer
  <1>7. QED
    BY <1>3, <1>4, <1>5, <1>6 DEF HlenSlot

(* Every cell of a header comes from one slot and holds an octet.          *)
LEMMA Cells ==
  ASSUME NEW m \in Members, NEW l \in Layer, NEW k \in 1 .. HdrLen(m, l)
  PROVE  CellSlot(l, k) \in Slot /\ WireCell(m, l, k) \in Octet
  <1>1. /\ HdrLen(m, l) \in Nat /\ Fixed[l] \in Nat
        /\ l # "IP" => HdrLen(m, l) = Fixed[l]
        /\ l = "IP" => HdrLen(m, l) - Fixed[l] <= OptLen
    BY Lengths
  <1>2. OptLen \in Int
    BY SizeAssumption DEF OptLen
  <1>3. ASSUME k <= Fixed[l] PROVE CellSlot(l, k) \in Slot
    <2>1. k \in 1 .. Fixed[l]
      BY <1>1, <1>3
    <2>2. CellSlot(l, k) = <<l, k>>
      BY <1>3 DEF CellSlot
    <2>3. QED
      BY <2>1, <2>2, Slots
  <1>4. ASSUME ~(k <= Fixed[l]) PROVE CellSlot(l, k) \in Slot
    <2>1. k - Fixed[l] \in 1 .. OptLen
      BY <1>1, <1>2, <1>4
    <2>2. CellSlot(l, k) = <<"OPT", k - Fixed[l]>>
      BY <1>4 DEF CellSlot
    <2>3. QED
      BY <2>1, <2>2, Slots
  <1>5. CellSlot(l, k) \in Slot
    BY <1>3, <1>4
  <1>6. m[CellSlot(l, k)] \in Octet
    BY <1>5 DEF Members
  <1>7. QED
    BY <1>5, <1>6, OctetAssumption, SlotAssumption DEF WireCell, Convert, Conversion

(* write() fills exactly length() cells.                                   *)
LEMMA HeaderWritten ==
  ASSUME NEW m \in Members, NEW l \in Layer
  PROVE  /\ WriteHeader(m, l) \in Seq(Octet)
         /\ Len(WriteHeader(m, l)) = HdrLen(m, l)
         /\ \A k \in 1 .. HdrLen(m, l) : WriteHeader(m, l)[k] = WireCell(m, l, k)
  <1>1. HdrLen(m, l) \in Nat
    BY Lengths
  <1>2. \A k \in 1 .. HdrLen(m, l) : WireCell(m, l, k) \in Octet
    BY Cells
  <1>3. QED
    BY <1>1, <1>2 DEF WriteHeader

(* Put changes the cells it is asked to, and no other.                     *)
LEMMA PutCells ==
  ASSUME NEW vec \in Seq(Octet), NEW cells \in Seq(Octet), NEW at \in Int
  PROVE  /\ Put(vec, at, cells) \in Seq(Octet)
         /\ Len(Put(vec, at, cells)) = Len(vec)
         /\ \A k \in 1 .. Len(vec) :
              Put(vec, at, cells)[k]
                = IF at < k /\ k <= at + Len(cells) THEN cells[k - at] ELSE vec[k]
  <1> DEFINE c(k) == IF at < k /\ k <= at + Len(cells) THEN cells[k - at] ELSE vec[k]
  <1>1. \A k \in 1 .. Len(vec) : c(k) \in Octet
    OBVIOUS
  <1>2. Len(vec) \in Nat
    OBVIOUS
  <1>. HIDE DEF c
  <1>3. /\ [k \in 1 .. Len(vec) |-> c(k)] \in Seq(Octet)
        /\ Len([k \in 1 .. Len(vec) |-> c(k)]) = Len(vec)
    BY <1>1, <1>2
  <1>4. QED
    BY <1>3 DEF Put, c

-------------------------------------------------------------------------------
(* Reading one header.                                                     *)

(* A conversion keeps octets, and read() copies hlen as it is.             *)
LEMMA Converted ==
  /\ \A h \in Conversion, v \in Octet : Convert(h, v) \in Octet
  /\ \A v : Convert(ReadAs[HlenSlot], v) = v
  BY OctetAssumption, SlotAssumption DEF Convert, Conversion

(* read() assigns the members of its own header and keeps hlen legal when  *)
(* the buffer's is; when it does not throw, the header fits the buffer.    *)
LEMMA ReadKeepsMembers ==
  ASSUME NEW m \in Members, NEW l \in Layer, NEW buf \in Seq(Octet),
         l = "IP" /\ Len(buf) >= Fixed[l] => buf[1] \in LegalHlen
  PROVE  LET r == ReadHeader(m, l, buf)
         IN  /\ r.m \in Members
             /\ r.ok \in BOOLEAN
             /\ r.ok => Len(buf) >= HdrLen(r.m, l)
  <1> DEFINE got == ReadFixed(m, l, buf)
             opt == ReadOption(got, l, buf)
  <1>1. /\ Len(buf) \in Nat /\ Fixed[l] \in Nat /\ Fixed[l] > 0 /\ HlenSlot \in Slot
        /\ HlenSlot[1] = "IP" /\ HlenSlot[2] = 1 /\ HlenSlot[1] # "OPT"
    BY Lengths, Slots DEF HlenSlot
  <1>2. CASE Len(buf) < Fixed[l]
    BY <1>2 DEF ReadHeader
  <1>3. CASE Len(buf) >= Fixed[l]
    <2>1. got \in Members
      <3>1. ASSUME NEW s \in Slot, s[1] = l
            PROVE  Convert(ReadAs[s], buf[s[2]]) \in Octet
        <4>1. s[2] \in 1 .. Len(buf)
          BY <1>1, <1>3, <3>1, Slots
        <4>2. QED
          BY <4>1, Converted, SlotAssumption
      <3>2. got \in [Slot -> Octet]
        BY <3>1 DEF ReadFixed, Members
      <3>3. got[HlenSlot] \in LegalHlen
        <4>1. CASE l = "IP"
          <5>1. buf[1] \in LegalHlen /\ buf[1] \in Octet
            BY <1>3, <4>1, SizeAssumption
          <5>2. got[HlenSlot] = Convert(ReadAs[HlenSlot], buf[1])
            BY <1>1, <4>1 DEF ReadFixed
          <5>3. QED
            BY <5>1, <5>2, Converted
        <4>2. CASE l # "IP"
          <5>1. got[HlenSlot] = m[HlenSlot]
            BY <1>1, <4>2 DEF ReadFixed
          <5>2. QED
            BY <5>1 DEF Members
        <4>3. QED
          BY <4>1, <4>2
      <3>4. QED
        BY <3>2, <3>3 DEF Members
    <2>. HIDE DEF got
    <2>2. CASE Len(buf) < HdrLen(got, l)
      <3>1. ReadHeader(m, l, buf) = [m |-> got, ok |-> FALSE]
        BY <1>1, <1>3, <2>2 DEF ReadHeader, got
      <3>2. QED
        BY <2>1, <3>1
    <2>3. CASE ~(Len(buf) < HdrLen(got, l))
      <3>1. HdrLen(got, l) \in Nat
        BY <2>1, Lengths
      <3>2. ASSUME NEW s \in Slot, s[1] = "OPT", s[2] <= HdrLen(got, l) - Fixed[l]
            PROVE  buf[Fixed[l] + s[2]] \in Octet
        <4>1. s[2] \in 1 .. OptLen
          BY <3>2, Slots
        <4>2. Fixed[l] + s[2] \in 1 .. Len(buf)
          BY <1>1, <2>3, <3>1, <3>2, <4>1
        <4>3. QED
          BY <4>2
      <3>3. opt \in [Slot -> Octet]
        BY <2>1, <3>2 DEF ReadOption, Members
      <3>4. opt[HlenSlot] = got[HlenSlot]
        BY <1>1 DEF ReadOption
      <3>5. opt \in Members /\ HdrLen(opt, l) = HdrLen(got, l)
        BY <2>1, <3>3, <3>4 DEF Members, HdrLen
      <3>6. ReadHeader(m, l, buf) = [m |-> opt, ok |-> TRUE]
        BY <1>1, <1>3, <2>3 DEF ReadHeader, got
      <3>. HIDE DEF opt
      <3>7. QED
        BY <1>1, <2>3, <3>1, <3>5, <3>6
    <2>4. QED
      BY <2>2, <2>3
  <1>4. QED
    BY <1>1, <1>2, <1>3

-------------------------------------------------------------------------------
(* Header vectors.                                                         *)

(* The vectors of init_headers(): one to three headers, ethernet's first,  *)
(* an ipv4 header only in second place.                                    *)
LEMMA Vectors ==
  ASSUME NEW c \in Class
  PROVE  /\ Vec(c) \in Seq(Layer)
         /\ Len(Vec(c)) \in 1 .. 3
         /\ \A i \in 1 .. Len(Vec(c)) : Vec(c)[i] \in Layer
         /\ Vec(c)[1] = "ETH"
         /\ \A i \in 1 .. Len(Vec(c)) : Vec(c)[i] = "IP" => i = 2
         /\ HasLayer(c, "IP") <=> Len(Vec(c)) >= 2 /\ Vec(c)[2] = "IP"
  <1>1. CASE c = "ethernet"
    BY <1>1 DEF Vec, Layer, HasLayer
  <1>2. CASE c = "arp"
    BY <1>2 DEF Vec, Layer, HasLayer
  <1>3. CASE c = "ipv4"
    BY <1>3 DEF Vec, Layer, HasLayer
  <1>4. CASE c = "ipv6"
    BY <1>4 DEF Vec, Layer, HasLayer
  <1>5. CASE c = "udp"
    BY <1>5 DEF Vec, Layer, HasLayer
  <1>6. QED
    BY <1>1, <1>2, <1>3, <1>4, <1>5 DEF Class

(* The same of the pointers of one object.                                 *)
LEMMA Pointers ==
  ASSUME NEW o \in Obj, classOf \in [Obj -> Class]
  PROVE  /\ Own(o) \in Seq(Obj \X Layer)
         /\ Len(Own(o)) = Len(Vec(classOf[o]))
         /\ \A i \in 1 .. Len(Own(o)) : /\ Own(o)[i][1] = o
                                        /\ Own(o)[i][2] = Vec(classOf[o])[i]
                                        /\ Own(o)[i][2] \in Layer
  <1> DEFINE c == classOf[o]
  <1>1. c \in Class
    OBVIOUS
  <1>. HIDE DEF c
  <1>2. /\ Len(Vec(c)) \in Nat
        /\ \A i \in 1 .. Len(Vec(c)) : Vec(c)[i] \in Layer
    BY <1>1, Vectors
  <1>3. Own(o) = [i \in 1 .. Len(Vec(c)) |-> <<o, Vec(c)[i]>>]
    BY DEF Own, c
  <1>4. QED
    BY <1>2, <1>3 DEF c

(* The headers of every class fit max_header_len (packet.h:58).            *)
LEMMA Fits ==
  ASSUME NEW m \in Members, NEW c \in Class
  PROVE  /\ \A i \in 1 .. 3 : VecLen(m, c, i) \in Nat
         /\ VecLenFrom(m, c, 3) = VecLen(m, c, 3)
         /\ VecLenFrom(m, c, 2) = VecLen(m, c, 2) + VecLen(m, c, 3)
         /\ VecLenFrom(m, c, 1) = VecLen(m, c, 1) + VecLen(m, c, 2) + VecLen(m, c, 3)
         /\ VecLenFrom(m, c, 1) <= Pivot
  <1>1. \A i \in 1 .. 3 : VecLen(m, c, i) \in Nat
    BY Vectors, Lengths DEF VecLen
  <1>2. /\ VecLenFrom(m, c, 3) = VecLen(m, c, 3)
        /\ VecLenFrom(m, c, 2) = VecLen(m, c, 2) + VecLen(m, c, 3)
        /\ VecLenFrom(m, c, 1) = VecLen(m, c, 1) + VecLen(m, c, 2) + VecLen(m, c, 3)
    BY <1>1 DEF VecLenFrom
  <1>3. /\ HdrLen(m, "IP") \in Nat /\ HdrLen(m, "IP") <= Fixed["IP"] + OptLen
        /\ HdrLen(m, "IP") >= Fixed["IP"]
        /\ \A l \in Layer : /\ Fixed[l] \in Nat
                            /\ l # "IP" => HdrLen(m, l) = Fixed[l]
        /\ {"ETH", "ARP", "IP", "IPV6", "UDP"} = Layer
    BY Lengths DEF Layer
  <1>4. Fixed["IP"] + OptLen \in Int /\ Pivot \in Nat
    BY <1>3, SizeAssumption, PacketAssumption DEF OptLen
  <1>. /\ Fixed["ETH"] \in Nat /\ Fixed["ARP"] \in Nat /\ Fixed["IP"] \in Nat
       /\ Fixed["IPV6"] \in Nat /\ Fixed["UDP"] \in Nat /\ OptLen \in Int
    BY <1>3, SizeAssumption DEF OptLen
  <1>5. VecLen(m, c, 1) + VecLen(m, c, 2) + VecLen(m, c, 3) <= Pivot
    <2>0. /\ Fixed["ETH"] + Fixed["IP"] + OptLen + Fixed["UDP"] <= Pivot
          /\ Fixed["ETH"] + Fixed["ARP"] <= Pivot
          /\ Fixed["ETH"] + Fixed["IPV6"] <= Pivot
      BY PacketAssumption
    <2>1. CASE c = "ethernet"
      <3>1. VecLen(m, c, 1) = Fixed["ETH"] /\ VecLen(m, c, 2) = 0 /\ VecLen(m, c, 3) = 0
        BY <1>3, <2>1 DEF VecLen, Vec
      <3>2. QED
        BY <1>3, <1>4, <2>0, <3>1
    <2>2. CASE c = "arp"
      <3>1. /\ VecLen(m, c, 1) = Fixed["ETH"] /\ VecLen(m, c, 2) = Fixed["ARP"]
            /\ VecLen(m, c, 3) = 0
        BY <1>3, <2>2 DEF VecLen, Vec
      <3>2. QED
        BY <1>3, <1>4, <2>0, <3>1
    <2>3. CASE c = "ipv4"
      <3>1. /\ VecLen(m, c, 1) = Fixed["ETH"] /\ VecLen(m, c, 2) = HdrLen(m, "IP")
            /\ VecLen(m, c, 3) = 0
        BY <1>3, <2>3 DEF VecLen, Vec
      <3>2. QED
        BY <1>3, <1>4, <2>0, <3>1
    <2>4. CASE c = "ipv6"
      <3>1. /\ VecLen(m, c, 1) = Fixed["ETH"] /\ VecLen(m, c, 2) = Fixed["IPV6"]
            /\ VecLen(m, c, 3) = 0
        BY <1>3, <2>4 DEF VecLen, Vec
      <3>2. QED
        BY <1>3, <1>4, <2>0, <3>1
    <2>5. CASE c = "udp"
      <3>1. /\ VecLen(m, c, 1) = Fixed["ETH"] /\ VecLen(m, c, 2) = HdrLen(m, "IP")
            /\ VecLen(m, c, 3) = Fixed["UDP"]
        BY <1>3, <2>5 DEF VecLen, Vec
      <3>2. QED
        BY <1>3, <1>4, <2>0, <3>1
    <2>6. QED
      BY <2>1, <2>2, <2>3, <2>4, <2>5 DEF Class
  <1>6. QED
    BY <1>1, <1>2, <1>5

-------------------------------------------------------------------------------
(* compile().                                                              *)

(* The bytes of vec before the pivot are the images of the headers of c.   *)
Image(vec, m, c) ==
  \A i \in 1 .. Len(Vec(c)) : \A k \in 1 .. HdrLen(m, Vec(c)[i]) :
    vec[Pivot - VecLenFrom(m, c, i) + k] = WireCell(m, Vec(c)[i], k)

(* Writing header i moves the pointer back by its length, fills the cells  *)
(* between the two pointers and leaves the others.                         *)
LEMMA WriteOne ==
  ASSUME NEW o \in Obj, classOf \in [Obj -> Class], NEW ms \in [Obj -> Members],
         NEW i \in 1 .. 3, NEW vec \in Seq(Octet), NEW at \in Int
  PROVE  LET c == classOf[o]
             m == ms[o]
             w == WriteAt([vec |-> vec, at |-> at], ms, Own(o), i)
         IN  /\ w = [vec |-> w.vec, at |-> at - VecLen(m, c, i)]
             /\ w.vec \in Seq(Octet)
             /\ Len(w.vec) = Len(vec)
             /\ \A k \in 1 .. Len(vec) :
                  k <= at - VecLen(m, c, i) \/ k > at => w.vec[k] = vec[k]
             /\ i <= Len(Vec(c)) =>
                  \A k \in 1 .. VecLen(m, c, i) :
                    at - VecLen(m, c, i) + k \in 1 .. Len(vec)
                      => w.vec[at - VecLen(m, c, i) + k] = WireCell(m, Vec(c)[i], k)
  <1> DEFINE c == classOf[o]
             m == ms[o]
             hs == Own(o)
             w == WriteAt([vec |-> vec, at |-> at], ms, hs, i)
  <1>1. c \in Class /\ m \in Members
    OBVIOUS
  <1>2. Len(hs) = Len(Vec(c)) /\ Len(Vec(c)) \in 1 .. 3
    BY <1>1, Pointers, Vectors
  <1>3. CASE i > Len(hs)
    <2>1. w = [vec |-> vec, at |-> at] /\ VecLen(m, c, i) = 0
      BY <1>2, <1>3 DEF WriteAt, VecLen
    <2>2. QED
      BY <1>2, <1>3, <2>1
  <1>4. CASE ~(i > Len(hs))
    <2> DEFINE l == Vec(c)[i]
               cells == WriteHeader(m, l)
               to == at - Len(cells)
    <2>1. hs[i][1] = o /\ hs[i][2] = l /\ l \in Layer
      BY <1>2, <1>4, Pointers
    <2>2. w = [vec |-> Put(vec, to, cells), at |-> to]
      BY <1>4, <2>1 DEF WriteAt
    <2>3. /\ cells \in Seq(Octet) /\ Len(cells) = HdrLen(m, l) /\ HdrLen(m, l) \in Nat
          /\ \A k \in 1 .. HdrLen(m, l) : cells[k] = WireCell(m, l, k)
      BY <1>1, <2>1, HeaderWritten, Lengths
    <2>4. VecLen(m, c, i) = HdrLen(m, l)
      BY <1>2, <1>4 DEF VecLen
    <2>5. to \in Int /\ to = at - VecLen(m, c, i) /\ to + Len(cells) = at
      BY <2>3, <2>4
    <2>. HIDE DEF cells, to, l, w, hs, m, c
    <2>6. /\ Put(vec, to, cells) \in Seq(Octet)
          /\ Len(Put(vec, to, cells)) = Len(vec)
          /\ \A k \in 1 .. Len(vec) :
               Put(vec, to, cells)[k]
                 = IF to < k /\ k <= to + Len(cells) THEN cells[k - to] ELSE vec[k]
      BY <2>3, <2>5, PutCells
    <2>7. w.vec = Put(vec, to, cells) /\ w.at = to
      BY <2>2
    <2>8. \A k \in 1 .. Len(vec) : k <= to \/ k > at => w.vec[k] = vec[k]
      BY <2>5, <2>6, <2>7
    <2>9. ASSUME NEW k \in 1 .. VecLen(m, c, i), to + k \in 1 .. Len(vec)
          PROVE  w.vec[to + k] = WireCell(m, l, k)
      <3>0. k \in Int /\ 1 <= k /\ k <= Len(cells) /\ Len(cells) \in Int /\ to \in Int
        BY <2>3, <2>4, <2>5
      <3>1. to < to + k /\ to + k <= to + Len(cells) /\ (to + k) - to = k
        BY <3>0
      <3>2. w.vec[to + k] = cells[k]
        BY <2>6, <2>7, <2>9, <3>1
      <3>3. QED
        BY <2>3, <2>4, <3>2
    <2>10. QED
      BY <2>2, <2>5, <2>6, <2>7, <2>8, <2>9 DEF w, hs, m, c, l
  <1>5. QED
    BY <1>3, <1>4

(* compile() produces the images of all headers, and leaves the contents.  *)
LEMMA CompiledImage ==
  ASSUME NEW o \in Obj, classOf \in [Obj -> Class], NEW ms \in [Obj -> Members],
         NEW vec \in Seq(Octet), Len(vec) >= Pivot
  PROVE  LET out == Compiled(vec, ms, Own(o))
         IN  /\ out \in Seq(Octet)
             /\ Len(out) = Len(vec)
             /\ Image(out, ms[o], classOf[o])
             /\ \A k \in 1 .. Len(vec) : k > Pivot => out[k] = vec[k]
  <1> DEFINE c == classOf[o]
             m == ms[o]
             v1 == VecLen(m, c, 1)
             v2 == VecLen(m, c, 2)
             v3 == VecLen(m, c, 3)
             w3 == WriteAt([vec |-> vec, at |-> Pivot], ms, Own(o), 3)
             w2 == WriteAt(w3, ms, Own(o), 2)
             w1 == WriteAt(w2, ms, Own(o), 1)
  <1>1. c \in Class /\ m \in Members /\ Pivot \in Nat /\ Len(vec) \in Nat
    BY PacketAssumption
  <1>2. /\ v1 \in Nat /\ v2 \in Nat /\ v3 \in Nat
        /\ VecLenFrom(m, c, 3) = v3
        /\ VecLenFrom(m, c, 2) = v2 + v3
        /\ VecLenFrom(m, c, 1) = v1 + v2 + v3
        /\ v1 + v2 + v3 <= Pivot
    BY <1>1, Fits
  <1>. HIDE DEF v1, v2, v3
  <1> DEFINE a3 == Pivot - v3
             a2 == a3 - v2
             a1 == a2 - v1
  <1>3. /\ w3 = [vec |-> w3.vec, at |-> a3]
        /\ w3.vec \in Seq(Octet)
        /\ Len(w3.vec) = Len(vec)
        /\ \A k \in 1 .. Len(vec) : k > Pivot => w3.vec[k] = vec[k]
        /\ 3 <= Len(Vec(c)) =>
             \A k \in 1 .. v3 : a3 + k \in 1 .. Len(vec)
                => w3.vec[a3 + k] = WireCell(m, Vec(c)[3], k)
    BY <1>1, WriteOne, SMTT(30) DEF v3
  <1>4. a3 \in Int /\ a2 \in Int /\ a1 \in Int /\ 0 <= a1 /\ a1 <= a2 /\ a2 <= a3 /\ a3 <= Pivot
    BY <1>1, <1>2
  <1>. HIDE DEF w3, a3
  <1>5. /\ w2 = [vec |-> w2.vec, at |-> a2]
        /\ w2.vec \in Seq(Octet)
        /\ Len(w2.vec) = Len(vec)
        /\ \A k \in 1 .. Len(vec) : k > a3 => w2.vec[k] = w3.vec[k]
        /\ 2 <= Len(Vec(c)) =>
             \A k \in 1 .. v2 : a2 + k \in 1 .. Len(vec)
                => w2.vec[a2 + k] = WireCell(m, Vec(c)[2], k)
    <2> DEFINE u == w3.vec
    <2>. HIDE DEF u
    <2>1. u \in Seq(Octet) /\ Len(u) = Len(vec) /\ w3 = [vec |-> u, at |-> a3]
      BY <1>3 DEF u
    <2>2. w2 = WriteAt([vec |-> u, at |-> a3], ms, Own(o), 2)
      BY <2>1
    <2> DEFINE w == WriteAt([vec |-> u, at |-> a3], ms, Own(o), 2)
    <2>3. /\ w = [vec |-> w.vec, at |-> a3 - VecLen(m, c, 2)]
          /\ w.vec \in Seq(Octet)
          /\ Len(w.vec) = Len(u)
          /\ \A k \in 1 .. Len(u) : k > a3 => w.vec[k] = u[k]
          /\ 2 <= Len(Vec(c)) =>
               \A k \in 1 .. VecLen(m, c, 2) :
                 a3 - VecLen(m, c, 2) + k \in 1 .. Len(u)
                   => w.vec[a3 - VecLen(m, c, 2) + k] = WireCell(m, Vec(c)[2], k)
      <3>1. a3 \in Int /\ 2 \in 1 .. 3 /\ u \in Seq(Octet)
        BY <1>4, <2>1
      <3>. HIDE DEF a3
      <3>2. QED
        BY <3>1, WriteOne, SMTT(30)
    <2>. HIDE DEF w
    <2>4. QED
      BY <2>1, <2>2, <2>3 DEF v2, u, w
  <1>. HIDE DEF w2, a2
  <1>6. /\ w1.vec \in Seq(Octet)
        /\ Len(w1.vec) = Len(vec)
        /\ \A k \in 1 .. Len(vec) : k > a2 => w1.vec[k] = w2.vec[k]
        /\ 1 <= Len(Vec(c)) =>
             \A k \in 1 .. v1 : a1 + k \in 1 .. Len(vec)
                => w1.vec[a1 + k] = WireCell(m, Vec(c)[1], k)
    <2> DEFINE u == w2.vec
    <2>. HIDE DEF u
    <2>1. u \in Seq(Octet) /\ Len(u) = Len(vec) /\ w2 = [vec |-> u, at |-> a2]
      BY <1>5 DEF u
    <2>2. w1 = WriteAt([vec |-> u, at |-> a2], ms, Own(o), 1)
      BY <2>1
    <2> DEFINE w == WriteAt([vec |-> u, at |-> a2], ms, Own(o), 1)
    <2>3. /\ w = [vec |-> w.vec, at |-> a2 - VecLen(m, c, 1)]
          /\ w.vec \in Seq(Octet)
          /\ Len(w.vec) = Len(u)
          /\ \A k \in 1 .. Len(u) : k > a2 => w.vec[k] = u[k]
          /\ 1 <= Len(Vec(c)) =>
               \A k \in 1 .. VecLen(m, c, 1) :
                 a2 - VecLen(m, c, 1) + k \in 1 .. Len(u)
                   => w.vec[a2 - VecLen(m, c, 1) + k] = WireCell(m, Vec(c)[1], k)
      <3>1. a2 \in Int /\ 1 \in 1 .. 3 /\ u \in Seq(Octet)
        BY <1>4, <2>1
      <3>. HIDE DEF a2, c, m, a1
      <3>2. QED
        BY <3>1, WriteOne, SMTT(60) DEF c, m
    <2>. HIDE DEF w
    <2>4. QED
      BY <2>1, <2>2, <2>3 DEF v1, u, w
  <1> DEFINE out == w1.vec
  <1>. HIDE DEF w1, a1
  <1>7. Compiled(vec, ms, Own(o)) = out
    BY DEF Compiled, w1, w2, w3
  <1>8. \A k \in 1 .. Len(vec) : k > Pivot => out[k] = vec[k]
    BY <1>1, <1>3, <1>4, <1>5, <1>6
  <1>9. ASSUME NEW i \in 1 .. Len(Vec(c)), NEW k \in 1 .. HdrLen(m, Vec(c)[i])
        PROVE  out[Pivot - VecLenFrom(m, c, i) + k] = WireCell(m, Vec(c)[i], k)
    <2>0. Len(Vec(c)) \in 1 .. 3 /\ VecLen(m, c, i) = HdrLen(m, Vec(c)[i])
      BY <1>1, Vectors DEF VecLen
    <2>1. CASE i = 3
      <3>1. k \in 1 .. v3 /\ Pivot - VecLenFrom(m, c, i) + k = a3 + k
        BY <1>2, <2>0, <2>1 DEF v3, a3
      <3>2. a3 + k \in 1 .. Len(vec) /\ a3 + k > a3 /\ a3 + k > a2
        BY <1>1, <1>2, <1>4, <3>1 DEF a3
      <3>3. out[a3 + k] = w3.vec[a3 + k]
        BY <1>5, <1>6, <3>2
      <3>4. QED
        BY <1>3, <2>0, <2>1, <3>1, <3>2, <3>3
    <2>2. CASE i = 2
      <3>1. k \in 1 .. v2 /\ Pivot - VecLenFrom(m, c, i) + k = a2 + k
        BY <1>1, <1>2, <2>0, <2>2 DEF v2, a2, a3
      <3>2. a2 + k \in 1 .. Len(vec) /\ a2 + k > a2
        BY <1>1, <1>2, <1>4, <3>1 DEF a2, a3
      <3>3. out[a2 + k] = w2.vec[a2 + k]
        BY <1>6, <3>2
      <3>4. QED
        BY <1>5, <2>0, <2>2, <3>1, <3>2, <3>3
    <2>3. CASE i = 1
      <3>1. k \in 1 .. v1 /\ Pivot - VecLenFrom(m, c, i) + k = a1 + k
        BY <1>1, <1>2, <2>0, <2>3 DEF v1, a1, a2, a3
      <3>2. a1 + k \in 1 .. Len(vec)
        BY <1>1, <1>2, <1>4, <3>1 DEF a1, a2, a3
      <3>3. QED
        BY <1>6, <2>0, <2>3, <3>1, <3>2
    <2>4. QED
      BY <2>0, <2>1, <2>2, <2>3
  <1>10. Image(out, m, c)
    BY <1>9 DEF Image
  <1>11. QED
    BY <1>6, <1>7, <1>8, <1>10

-------------------------------------------------------------------------------
(* set_contents() and analyze().                                           *)

(* The header area survives a change of contents.                          *)
LEMMA ContentSet ==
  ASSUME NEW vec \in Seq(Octet), NEW buf \in Seq(Octet), Len(vec) >= Pivot
  PROVE  /\ SetContent(vec, buf) \in Seq(Octet)
         /\ Len(SetContent(vec, buf)) = Pivot + Len(buf)
         /\ \A k \in 1 .. Pivot : SetContent(vec, buf)[k] = vec[k]
  <1> DEFINE front == SubSeq(vec, 1, Pivot)
  <1>1. Pivot \in Nat /\ Len(vec) \in Nat
    BY PacketAssumption
  <1>2. /\ front \in Seq(Octet)
        /\ Len(front) = Pivot
        /\ \A k \in 1 .. Pivot : front[k] = vec[k]
    BY <1>1
  <1>. HIDE DEF front
  <1>3. /\ front \o buf \in Seq(Octet)
        /\ Len(front \o buf) = Len(front) + Len(buf)
        /\ \A k \in 1 .. Len(front) : (front \o buf)[k] = front[k]
    <2>1. /\ front \o buf \in Seq(Octet)
          /\ Len(front \o buf) = Len(front) + Len(buf)
          /\ \A k \in 1 .. Len(front) + Len(buf) :
               (front \o buf)[k] = IF k <= Len(front) THEN front[k] ELSE buf[k - Len(front)]
      BY <1>2, ConcatProperties, Zenon
    <2>2. Len(front) \in Nat /\ Len(buf) \in Nat
      BY <1>2
    <2>3. QED
      BY <2>1, <2>2
  <1>4. QED
    BY <1>2, <1>3 DEF SetContent, front

(* The tail of a sequence after its first n elements.                      *)
LEMMA Tails ==
  ASSUME NEW S, NEW q \in Seq(S), NEW n \in Nat, n <= Len(q)
  PROVE  /\ Len(SubSeq(q, n + 1, Len(q))) = Len(q) - n
         /\ \A k \in 1 .. Len(q) - n : SubSeq(q, n + 1, Len(q))[k] = q[n + k]
  <1>1. Len(SubSeq(q, n + 1, Len(q))) = Len(q) - n
    OBVIOUS
  <1>2. ASSUME NEW k \in 1 .. Len(q) - n
        PROVE  SubSeq(q, n + 1, Len(q))[k] = q[n + k]
    OBVIOUS
  <1>3. QED
    BY <1>1, <1>2

(* What the walk of analyze() carries from header to header.               *)
Walks == [ms : [Obj -> Members], rest : Seq(Octet), ok : BOOLEAN]

(* If header i of the walk is ipv4's and its fixed part is in what is left *)
(* of the buffer, the hlen found there is legal.                           *)
LegalNext(s, c, i) ==
  (/\ i <= Len(Vec(c))
   /\ Vec(c)[i] = "IP"
   /\ s.ok
   /\ Len(s.rest) >= Fixed["IP"])
     => s.rest[1] \in LegalHlen

(* One header of the walk: only the object's own members change.           *)
LEMMA ReadOne ==
  ASSUME NEW o \in Obj, classOf \in [Obj -> Class], NEW s \in Walks, NEW i \in 1 .. 3,
         LegalNext(s, classOf[o], i)
  PROVE  /\ ReadAt(s, Own(o), i) \in Walks
         /\ \A r \in Obj \ {o} : ReadAt(s, Own(o), i).ms[r] = s.ms[r]
         /\ ReadAt(s, Own(o), i).ok => s.ok
  <1> DEFINE c == classOf[o]
             hs == Own(o)
             l == Vec(c)[i]
             got == ReadHeader(s.ms[o], l, s.rest)
             n == HdrLen(got.m, l)
             left == IF got.ok THEN SubSeq(s.rest, n + 1, Len(s.rest)) ELSE s.rest
             w == ReadAt(s, hs, i)
  <1>1. /\ c \in Class /\ Len(hs) = Len(Vec(c)) /\ Len(Vec(c)) \in 1 .. 3
        /\ s.ms \in [Obj -> Members] /\ s.rest \in Seq(Octet) /\ s.ok \in BOOLEAN
    BY Pointers, Vectors DEF Walks
  <1>2. CASE i > Len(hs) \/ ~s.ok
    <2>1. w = s
      BY <1>2 DEF ReadAt
    <2>2. QED
      BY <2>1
  <1>3. CASE ~(i > Len(hs) \/ ~s.ok)
    <2>1. hs[i][1] = o /\ hs[i][2] = l /\ l \in Layer /\ s.ms[o] \in Members
      BY <1>1, <1>3, Pointers
    <2>2. l = "IP" /\ Len(s.rest) >= Fixed[l] => s.rest[1] \in LegalHlen
      BY <1>1, <1>3 DEF LegalNext
    <2>3. got.m \in Members /\ got.ok \in BOOLEAN
      BY <1>1, <2>1, <2>2, ReadKeepsMembers
    <2>4. w = [ms |-> [s.ms EXCEPT ![o] = got.m], rest |-> left, ok |-> got.ok]
      BY <1>3, <2>1 DEF ReadAt
    <2>5. n \in Nat
      BY <2>1, <2>3, Lengths
    <2>6. left \in Seq(Octet)
      BY <1>1, <2>5
    <2>. HIDE DEF got, left, w
    <2>7. w \in Walks /\ w.ms = [s.ms EXCEPT ![o] = got.m]
      BY <1>1, <2>3, <2>4, <2>6 DEF Walks
    <2>8. QED
      BY <1>1, <1>3, <2>7 DEF w
  <1>4. QED
    BY <1>2, <1>3

(* The ethernet header is stepped over by its fixed length.                *)
LEMMA ReadEthernet ==
  ASSUME NEW o \in Obj, classOf \in [Obj -> Class], NEW s \in Walks, s.ok,
         ReadAt(s, Own(o), 1).ok
  PROVE  LET rest == ReadAt(s, Own(o), 1).rest
         IN  /\ Len(s.rest) >= Fixed["ETH"]
             /\ Len(rest) = Len(s.rest) - Fixed["ETH"]
             /\ \A k \in 1 .. Len(rest) : rest[k] = s.rest[Fixed["ETH"] + k]
  <1> DEFINE hs == Own(o)
             got == ReadHeader(s.ms[o], "ETH", s.rest)
  <1>0. classOf[o] \in Class
    OBVIOUS
  <1>1. /\ Len(hs) >= 1 /\ 1 \in 1 .. Len(hs) /\ hs[1][1] = o /\ hs[1][2] = "ETH"
        /\ s.ms \in [Obj -> Members] /\ s.rest \in Seq(Octet)
    <2>1. Len(hs) = Len(Vec(classOf[o])) /\ Len(Vec(classOf[o])) \in 1 .. 3
      BY <1>0, Pointers, Vectors
    <2>2. hs[1][1] = o /\ hs[1][2] = Vec(classOf[o])[1]
      BY <2>1, Pointers
    <2>3. QED
      BY <1>0, <2>1, <2>2, Vectors DEF Walks
  <1>2. /\ "ETH" \in Layer /\ s.ms[o] \in Members /\ Fixed["ETH"] \in Nat
    BY <1>1, SizeAssumption DEF Layer
  <1>3. got.m \in Members /\ (got.ok => Len(s.rest) >= HdrLen(got.m, "ETH"))
    BY <1>1, <1>2, ReadKeepsMembers
  <1>4. HdrLen(got.m, "ETH") = Fixed["ETH"]
    BY <1>2, <1>3 DEF HdrLen
  <1>5. ReadAt(s, hs, 1) =
          [ms   |-> [s.ms EXCEPT ![o] = got.m],
           rest |-> IF got.ok THEN SubSeq(s.rest, Fixed["ETH"] + 1, Len(s.rest)) ELSE s.rest,
           ok   |-> got.ok]
    <2>. HIDE DEF hs
    <2>1. ~(1 > Len(hs) \/ ~s.ok)
      BY <1>1
    <2>2. QED
      BY <1>1, <1>4, <2>1, Zenon DEF ReadAt, got
  <1>. HIDE DEF got
  <1>6. got.ok /\ ReadAt(s, hs, 1).rest = SubSeq(s.rest, Fixed["ETH"] + 1, Len(s.rest))
    BY <1>5
  <1>7. Len(s.rest) >= Fixed["ETH"]
    BY <1>3, <1>4, <1>6
  <1>8. QED
    <2> DEFINE n == Fixed["ETH"]
               rest == SubSeq(s.rest, n + 1, Len(s.rest))
    <2>1. n \in Nat /\ Len(s.rest) \in Nat /\ Len(s.rest) >= n
      BY <1>1, <1>2, <1>7
    <2>2. /\ Len(rest) = Len(s.rest) - n
          /\ \A k \in 1 .. Len(s.rest) - n : rest[k] = s.rest[n + k]
      BY <1>1, <2>1, Tails
    <2>3. QED
      BY <1>6, <1>7, <2>2

(* The whole walk.                                                         *)
LEMMA AnalyzedMembers ==
  ASSUME NEW o \in Obj, classOf \in [Obj -> Class], NEW ms \in [Obj -> Members],
         NEW buf \in Seq(Octet), LegalFrame(classOf[o], buf)
  PROVE  /\ Analyzed(ms, Own(o), buf) \in Walks
         /\ \A r \in Obj \ {o} : Analyzed(ms, Own(o), buf).ms[r] = ms[r]
  <1> DEFINE c == classOf[o]
             s0 == [ms |-> ms, rest |-> buf, ok |-> TRUE]
             s1 == ReadAt(s0, Own(o), 1)
             s2 == ReadAt(s1, Own(o), 2)
             s3 == ReadAt(s2, Own(o), 3)
  <1>1. c \in Class /\ s0 \in Walks
    BY DEF Walks
  <1>2. Vec(c)[1] # "IP" /\ (3 <= Len(Vec(c)) => Vec(c)[3] # "IP") /\ Len(Vec(c)) \in 1 .. 3
    BY <1>1, Vectors
  <1>3. s1 \in Walks /\ \A r \in Obj \ {o} : s1.ms[r] = ms[r]
    <2>1. s0.ms = ms
      OBVIOUS
    <2>. HIDE DEF s0
    <2>2. LegalNext(s0, classOf[o], 1)
      BY <1>2 DEF LegalNext
    <2>3. QED
      BY <1>1, <2>1, <2>2, ReadOne
  <1>4. ASSUME 2 <= Len(Vec(c)), Vec(c)[2] = "IP", s1.ok, Len(s1.rest) >= Fixed["IP"]
        PROVE  s1.rest[1] \in LegalHlen
    <2>1. /\ Len(buf) >= Fixed["ETH"]
          /\ Len(s1.rest) = Len(buf) - Fixed["ETH"]
          /\ \A k \in 1 .. Len(s1.rest) : s1.rest[k] = buf[Fixed["ETH"] + k]
      <3>1. s0.rest = buf /\ s0.ok
        OBVIOUS
      <3>. HIDE DEF s0
      <3>2. QED
        BY <1>1, <1>4, <3>1, ReadEthernet
    <2>2. /\ Fixed["ETH"] \in Nat /\ Fixed["IP"] \in Nat /\ Fixed["IP"] > 0
          /\ Len(buf) \in Nat
      BY SizeAssumption DEF Layer
    <2>. HIDE DEF s1
    <2>3. HasLayer(c, "IP") /\ Len(buf) >= Fixed["ETH"] + Fixed["IP"]
      BY <1>1, <1>4, <2>1, <2>2, Vectors
    <2>4. buf[Fixed["ETH"] + 1] \in LegalHlen
      BY <2>3 DEF LegalFrame
    <2>5. 1 \in 1 .. Len(s1.rest)
      BY <1>4, <2>1, <2>2
    <2>6. QED
      BY <2>1, <2>4, <2>5
  <1>. HIDE DEF s1
  <1>5. s2 \in Walks /\ \A r \in Obj \ {o} : s2.ms[r] = s1.ms[r]
    <2>1. LegalNext(s1, classOf[o], 2)
      BY <1>4 DEF LegalNext
    <2>2. s1 \in Walks
      BY <1>3
    <2>3. QED
      BY <2>1, <2>2, ReadOne
  <1>. HIDE DEF s2
  <1>6. s3 \in Walks /\ \A r \in Obj \ {o} : s3.ms[r] = s2.ms[r]
    <2>1. LegalNext(s2, classOf[o], 3)
      BY <1>2 DEF LegalNext
    <2>2. s2 \in Walks
      BY <1>5
    <2>3. QED
      BY <2>1, <2>2, ReadOne
  <1>7. Analyzed(ms, Own(o), buf) = s3
    BY DEF Analyzed, s1, s2
  <1>8. QED
    BY <1>3, <1>5, <1>6, <1>7

-------------------------------------------------------------------------------
(* The inductive invariant.  TypeOK needs HeadersOwned, since analyze() is *)
(* only sure to find hlen where it looks for it when the vector is the     *)
(* object's own; RawIsWireImage needs the size of the vector.              *)

(* delete_content() never shrinks the vector below the pivot.              *)
BigEnough == \A o \in Obj : Len(raw[o]) >= Pivot

IInv == TypeOK /\ BigEnough /\ HeadersOwned /\ RawIsWireImage

(* What a step establishes for the one object it works on.                 *)
Kept(o) ==
  o \in alive => /\ headers[o] = Own(o)
                 /\ \A m \in compiled[o] : Image(raw[o], m, classOf[o])

(* Two states agree on object r.                                           *)
Same(r) ==
  /\ r \in alive' <=> r \in alive
  /\ hdr'[r] = hdr[r]
  /\ headers'[r] = headers[r]
  /\ raw'[r] = raw[r]
  /\ compiled'[r] = compiled[r]

LEMMA PerObject ==
  ASSUME TypeOK
  PROVE  HeadersOwned /\ RawIsWireImage <=> \A o \in Obj : Kept(o)
  BY DEF TypeOK, HeadersOwned, RawIsWireImage, Kept, Image

(* A step that leaves every other object alone and keeps one keeps all.    *)
LEMMA Local ==
  ASSUME IInv, NEW o \in Obj, classOf' = classOf, TypeOK', Len(raw'[o]) >= Pivot,
         \A r \in Obj \ {o} : Same(r),
         Kept(o)'
  PROVE  IInv'
  <1>1. \A r \in Obj : Kept(r)
    BY PerObject DEF IInv
  <1>2. ASSUME NEW r \in Obj \ {o} PROVE Kept(r)'
    <2>1. Own(r)' = Own(r)
      BY DEF Own
    <2>2. Kept(r) /\ Same(r)
      BY <1>1
    <2>3. CASE r \notin alive'
      BY <2>3 DEF Kept
    <2>4. CASE r \in alive'
      <3>1. headers[r] = Own(r) /\ \A m \in compiled[r] : Image(raw[r], m, classOf[r])
        BY <2>2, <2>4 DEF Kept, Same
      <3>2. headers'[r] = Own(r)'
        BY <2>1, <2>2, <3>1 DEF Same
      <3>3. \A m \in compiled'[r] : Image(raw'[r], m, classOf'[r])
        BY <2>2, <3>1 DEF Same
      <3>4. QED
        BY <3>2, <3>3 DEF Kept, Image
    <2>5. QED
      BY <2>3, <2>4
  <1>3. \A r \in Obj : Kept(r)'
    BY <1>2
  <1>4. (HeadersOwned /\ RawIsWireImage)'
    BY <1>3 DEF TypeOK, HeadersOwned, RawIsWireImage, Kept, Image
  <1>5. \A r \in Obj : Len(raw'[r]) >= Pivot
    BY DEF IInv, BigEnough, Same
  <1>6. QED
    BY <1>4, <1>5 DEF IInv, BigEnough

(* A step that leaves the objects alone keeps the invariant.               *)
LEMMA Idle ==
  ASSUME IInv, UNCHANGED <<classOf, alive, hdr, headers, raw, tag, compiled>>,
         result' \in {"ok", "threw", "length error", "binary error", "success"}
  PROVE  IInv'
  <1>1. TypeOK'
    BY DEF IInv, TypeOK
  <1>2. BigEnough'
    BY DEF IInv, BigEnough
  <1>3. ASSUME NEW o \in Obj PROVE Kept(o)'
    <2>1. /\ alive' = alive /\ headers'[o] = headers[o] /\ raw'[o] = raw[o]
          /\ compiled'[o] = compiled[o] /\ classOf'[o] = classOf[o]
          /\ Own(o)' = Own(o)
      BY DEF Own
    <2>2. Kept(o)
      BY PerObject DEF IInv
    <2>3. o \in alive' => \A m \in compiled'[o] : Image(raw'[o], m, classOf'[o])
      BY <2>1, <2>2 DEF Kept
    <2>4. QED
      BY <2>1, <2>2, <2>3 DEF Kept, Image
  <1>4. (HeadersOwned /\ RawIsWireImage)'
    BY <1>1, <1>3 DEF TypeOK, HeadersOwned, RawIsWireImage, Kept, Image
  <1>5. QED
    BY <1>1, <1>2, <1>4 DEF IInv

LEMMA InitInv == Init => IInv
  <1> SUFFICES ASSUME Init PROVE IInv
    OBVIOUS
  <1>1. Blanks \in Seq(Octet) /\ Len(Blanks) = Pivot
    BY OctetAssumption, PacketAssumption DEF Blanks
  <1>2. classOf \in [Obj -> Class]
    BY PacketAssumption DEF Init
  <1>3. hdr \in [Obj -> Members]
    <2>1. \A c \in Class : Cleared[c] \in Members
      BY PacketAssumption
    <2>2. QED
      BY <1>2, <2>1 DEF Init
  <1>4. TypeOK
    BY <1>1, <1>2, <1>3 DEF Init, TypeOK
  <1>5. BigEnough
    BY <1>1, PacketAssumption DEF Init, BigEnough
  <1>6. HeadersOwned /\ RawIsWireImage
    BY DEF Init, HeadersOwned, RawIsWireImage
  <1>7. QED
    BY <1>4, <1>5, <1>6 DEF IInv

(* What the actions have in common: the values they store are of the right *)
(* types.                                                                  *)
LEMMA Values ==
  ASSUME IInv, NEW o \in Obj
  PROVE  /\ classOf[o] \in Class
         /\ hdr[o] \in Members /\ raw[o] \in Seq(Octet) /\ Len(raw[o]) >= Pivot
         /\ Cleared[classOf[o]] \in Members
         /\ Own(o) \in Seq(Obj \X Layer)
         /\ Blanks \in Seq(Octet) /\ Len(Blanks) = Pivot /\ Pivot \in Nat
         /\ \A f \in Frames[classOf[o]] : f \in Seq(Octet) /\ LegalFrame(classOf[o], f)
         /\ o \in alive => headers[o] = Own(o)
  <1>1. classOf \in [Obj -> Class] /\ classOf[o] \in Class
    BY DEF IInv, TypeOK
  <1>2. hdr[o] \in Members /\ raw[o] \in Seq(Octet) /\ Len(raw[o]) >= Pivot
    BY DEF IInv, TypeOK, BigEnough
  <1>3. /\ Cleared[classOf[o]] \in Members /\ Pivot \in Nat
        /\ \A f \in Frames[classOf[o]] : f \in Seq(Octet) /\ LegalFrame(classOf[o], f)
    BY <1>1, PacketAssumption
  <1>4. Own(o) \in Seq(Obj \X Layer)
    BY <1>1, Pointers
  <1>5. Blanks \in Seq(Octet) /\ Len(Blanks) = Pivot
    BY <1>3, OctetAssumption DEF Blanks
  <1>6. o \in alive => headers[o] = Own(o)
    BY DEF IInv, HeadersOwned
  <1>7. QED
    BY <1>1, <1>2, <1>3, <1>4, <1>5, <1>6

(* Own(o) depends on the classes only.                                     *)
LEMMA OwnSame ==
  ASSUME classOf' = classOf, NEW o \in Obj
  PROVE  Own(o)' = Own(o)
  BY DEF Own

(* The image depends on the header area only.                              *)
LEMMA StillImage ==
  ASSUME NEW v \in Seq(Octet), NEW w \in Seq(Octet), NEW m \in Members, NEW c \in Class,
         Image(v, m, c), \A k \in 1 .. Pivot : w[k] = v[k]
  PROVE  Image(w, m, c)
  <1>1. ASSUME NEW i \in 1 .. Len(Vec(c)), NEW k \in 1 .. HdrLen(m, Vec(c)[i])
        PROVE  Pivot - VecLenFrom(m, c, i) + k \in 1 .. Pivot
    <2>1. /\ i \in 1 .. 3 /\ VecLen(m, c, i) = HdrLen(m, Vec(c)[i]) /\ Pivot \in Nat
          /\ VecLen(m, c, i) \in Nat
      <3>1. Len(Vec(c)) \in 1 .. 3
        BY Vectors
      <3>2. i \in 1 .. 3 /\ VecLen(m, c, i) = HdrLen(m, Vec(c)[i])
        BY <3>1 DEF VecLen
      <3>3. QED
        BY <3>2, Fits, PacketAssumption
    <2>2. /\ VecLenFrom(m, c, i) \in Nat
          /\ VecLenFrom(m, c, i) <= Pivot
          /\ VecLen(m, c, i) <= VecLenFrom(m, c, i)
      <3>1. /\ \A j \in 1 .. 3 : VecLen(m, c, j) \in Nat
            /\ VecLenFrom(m, c, 3) = VecLen(m, c, 3)
            /\ VecLenFrom(m, c, 2) = VecLen(m, c, 2) + VecLen(m, c, 3)
            /\ VecLenFrom(m, c, 1) = VecLen(m, c, 1) + VecLen(m, c, 2) + VecLen(m, c, 3)
            /\ VecLenFrom(m, c, 1) <= Pivot
        BY Fits
      <3>2. CASE i = 1
        BY <2>1, <3>1, <3>2, SMTT(30)
      <3>3. CASE i = 2
        BY <2>1, <3>1, <3>3
      <3>4. CASE i = 3
        BY <2>1, <3>1, <3>4
      <3>5. QED
        BY <2>1, <3>2, <3>3, <3>4
    <2>3. QED
      BY <2>1, <2>2
  <1>2. QED
    BY <1>1 DEF Image

-------------------------------------------------------------------------------
(* One lemma per action: it preserves the inductive invariant.             *)

LEMMA ConstructStep ==
  ASSUME IInv, classOf' = classOf, NEW o \in Obj, Construct(o)
  PROVE  IInv'
  <1>1. TypeOK'
    BY Values DEF IInv, TypeOK, Construct
  <1>2. Len(raw'[o]) >= Pivot
    <2>1. raw'[o] = Blanks
      BY DEF IInv, TypeOK, Construct
    <2>2. QED
      BY <2>1, Values
  <1>3. \A r \in Obj \ {o} : Same(r)
    BY DEF Same, Construct, IInv, TypeOK
  <1>4. Kept(o)'
    BY OwnSame DEF Kept, Construct, IInv, TypeOK
  <1>5. QED
    BY <1>1, <1>2, <1>3, <1>4, Local

LEMMA ConstructFromStep ==
  ASSUME IInv, classOf' = classOf, NEW o \in Obj, NEW f \in Frames[classOf[o]],
         ConstructFrom(o, f)
  PROVE  IInv'
  <1> DEFINE start == [hdr EXCEPT ![o] = Cleared[classOf[o]]]
             got == Analyzed(start, Own(o), f)
  <1>1. start \in [Obj -> Members] /\ \A r \in Obj \ {o} : start[r] = hdr[r]
    BY Values DEF IInv, TypeOK
  <1>. HIDE DEF start
  <1>2. got \in Walks /\ \A r \in Obj \ {o} : got.ms[r] = hdr[r]
    <2>1. f \in Seq(Octet) /\ LegalFrame(classOf[o], f) /\ classOf \in [Obj -> Class]
      BY Values DEF IInv, TypeOK
    <2>2. /\ got \in Walks
          /\ \A r \in Obj \ {o} : got.ms[r] = start[r]
      BY <1>1, <2>1, AnalyzedMembers
    <2>3. QED
      BY <1>1, <2>2
  <1>3. /\ got.ms \in [Obj -> Members] /\ got.rest \in Seq(Octet)
        /\ Len(got.rest) \in Nat
    BY <1>2 DEF Walks
  <1>. HIDE DEF got
  <1>4. CASE got.ok
    <2>1. /\ SetContent(Blanks, got.rest) \in Seq(Octet)
          /\ Len(SetContent(Blanks, got.rest)) >= Pivot
      <3>1. Blanks \in Seq(Octet) /\ Len(Blanks) >= Pivot /\ Pivot \in Nat
        BY Values
      <3>2. /\ SetContent(Blanks, got.rest) \in Seq(Octet)
            /\ Len(SetContent(Blanks, got.rest)) = Pivot + Len(got.rest)
        BY <1>3, <3>1, ContentSet
      <3>3. QED
        BY <1>3, <3>1, <3>2
    <2>2. /\ alive' = alive \cup {o}
          /\ hdr' = got.ms
          /\ headers' = [headers EXCEPT ![o] = Own(o)]
          /\ raw' = [raw EXCEPT ![o] = SetContent(Blanks, got.rest)]
          /\ compiled' = [compiled EXCEPT ![o] = {}]
          /\ \E g \in Garbage : tag' = [tag EXCEPT ![o] = g]
          /\ result' = "ok"
      BY <1>4 DEF ConstructFrom, got, start
    <2>3. TypeOK'
      BY <1>3, <2>1, <2>2, Values DEF IInv, TypeOK
    <2>4. Len(raw'[o]) >= Pivot
      BY <2>1, <2>2 DEF IInv, TypeOK
    <2>5. \A r \in Obj \ {o} : Same(r)
      BY <1>2, <2>2 DEF Same, IInv, TypeOK
    <2>6. Kept(o)'
      BY <2>2, OwnSame DEF Kept, IInv, TypeOK
    <2>7. QED
      BY <2>3, <2>4, <2>5, <2>6, Local
  <1>5. CASE ~got.ok
    <2>1. UNCHANGED <<alive, hdr, headers, raw, tag, compiled>> /\ result' = "threw"
      BY <1>5 DEF ConstructFrom, got, start
    <2>2. QED
      BY <2>1, Idle
  <1>6. QED
    BY <1>4, <1>5

LEMMA CopyConstructStep ==
  ASSUME IInv, classOf' = classOf, NEW o \in Obj, NEW r \in Obj, CopyConstruct(o, r)
  PROVE  IInv'
  <1>1. /\ hdr[r] \in Members /\ raw[r] \in Seq(Octet) /\ Len(raw[r]) >= Pivot
        /\ compiled[r] \in SUBSET Members /\ tag[r] \in Garbage
    BY Values DEF IInv, TypeOK
  <1>2. TypeOK'
    <2>1. CASE classOf[o] = "arp"
      BY <1>1, <2>1, Values, ZenonT(60) DEF IInv, TypeOK, CopyConstruct
    <2>2. CASE classOf[o] # "arp"
      BY <1>1, <2>2, Values DEF IInv, TypeOK, CopyConstruct
    <2>3. QED
      BY <2>1, <2>2
  <1>3. Len(raw'[o]) >= Pivot
    <2>1. raw'[o] = Blanks \/ raw'[o] = raw[r]
      BY DEF IInv, TypeOK, CopyConstruct
    <2>2. QED
      BY <1>1, <2>1, Values
  <1>4. \A x \in Obj \ {o} : Same(x)
    BY DEF Same, CopyConstruct, IInv, TypeOK
  <1>5. Kept(o)'
    <2>1. headers'[o] = Own(o)'
      BY OwnSame DEF CopyConstruct, IInv, TypeOK
    <2>2. CASE classOf[o] = "arp"
      BY <2>1, <2>2 DEF Kept, CopyConstruct, IInv, TypeOK
    <2>3. CASE classOf[o] # "arp"
      <3>1. raw'[o] = raw[r] /\ compiled'[o] = compiled[r] /\ classOf'[o] = classOf[r]
        BY <2>3 DEF CopyConstruct, IInv, TypeOK
      <3>2. \A m \in compiled[r] : Image(raw[r], m, classOf[r])
        BY PerObject DEF Kept, IInv, CopyConstruct
      <3>3. \A m \in compiled'[o] : Image(raw'[o], m, classOf'[o])
        BY <3>1, <3>2
      <3>4. QED
        BY <2>1, <3>3 DEF Kept, Image
    <2>4. QED
      BY <2>2, <2>3
  <1>6. QED
    BY <1>2, <1>3, <1>4, <1>5, Local

(* Assign, SetField, SetOption and Clear store new members in one object;  *)
(* AssignBase rebuilds its header vector.                                  *)
LEMMA MembersStep ==
  ASSUME IInv, classOf' = classOf, NEW o \in alive, NEW m \in Members,
         hdr' = [hdr EXCEPT ![o] = m],
         headers' = headers \/ headers' = [headers EXCEPT ![o] = Own(o)],
         UNCHANGED <<alive, raw, tag, compiled>>,
         result' \in {"ok", "threw"}
  PROVE  IInv'
  <1>1. o \in Obj
    BY DEF IInv, TypeOK
  <1>2. TypeOK'
    BY <1>1, Values DEF IInv, TypeOK
  <1>3. Len(raw'[o]) >= Pivot
    BY <1>1, Values
  <1>4. \A r \in Obj \ {o} : Same(r)
    BY DEF Same, IInv, TypeOK
  <1>5. Kept(o)'
    <2>1. headers[o] = Own(o) /\ \A x \in compiled[o] : Image(raw[o], x, classOf[o])
      BY <1>1, PerObject DEF Kept, IInv
    <2>2. headers'[o] = Own(o)'
      BY <1>1, <2>1, OwnSame DEF IInv, TypeOK
    <2>3. \A x \in compiled'[o] : Image(raw'[o], x, classOf'[o])
      BY <2>1
    <2>4. QED
      BY <2>2, <2>3 DEF Kept, Image
  <1>6. QED
    BY <1>1, <1>2, <1>3, <1>4, <1>5, Local

LEMMA AssignStep ==
  ASSUME IInv, classOf' = classOf, NEW o \in Obj, NEW r \in Obj, Assign(o, r)
  PROVE  IInv'
  BY Values, MembersStep DEF Assign

LEMMA AssignBaseStep ==
  ASSUME IInv, classOf' = classOf, NEW o \in Obj, NEW r \in Obj, AssignBase(o, r)
  PROVE  IInv'
  <1>1. hdr' = [hdr EXCEPT ![o] = hdr[o]]
    BY DEF AssignBase, IInv, TypeOK
  <1>2. result' \in {"ok", "threw"} /\ o \in alive
    BY DEF AssignBase
  <1>3. /\ headers' = [headers EXCEPT ![o] = Own(o)]
        /\ UNCHANGED <<alive, raw, tag, compiled>>
    BY DEF AssignBase
  <1>4. QED
    BY <1>1, <1>2, <1>3, Values, MembersStep

LEMMA SetFieldStep ==
  ASSUME IInv, classOf' = classOf, NEW o \in Obj, NEW e \in Edits, SetField(o, e)
  PROVE  IInv'
  <1> DEFINE m == [hdr[o] EXCEPT ![e[1]] = e[2]]
  <1>1. /\ e[1] \in Slot /\ e[2] \in Octet
        /\ e[1] = HlenSlot => e[2] \in LegalHlen
    BY PacketAssumption
  <1>2. hdr[o] \in [Slot -> Octet] /\ hdr[o][HlenSlot] \in LegalHlen /\ HlenSlot \in Slot
    BY Values, Slots DEF Members
  <1>3. m \in Members
    <2>1. m \in [Slot -> Octet]
      BY <1>1, <1>2
    <2>2. m[HlenSlot] \in LegalHlen
      BY <1>1, <1>2
    <2>3. QED
      BY <2>1, <2>2 DEF Members
  <1>4. hdr' = [hdr EXCEPT ![o] = m]
    BY DEF SetField, IInv, TypeOK
  <1>. HIDE DEF m
  <1>5. QED
    BY <1>3, <1>4, MembersStep DEF SetField

LEMMA SetOptionStep ==
  ASSUME IInv, classOf' = classOf, NEW o \in Obj, NEW p \in Options, SetOption(o, p)
  PROVE  IInv'
  <1> DEFINE m == PutOption(hdr[o], p)
  <1>1. p \in Seq(Octet)
    BY PacketAssumption
  <1>2. CASE Len(p) > OptLen
    BY <1>2, Idle DEF SetOption
  <1>3. CASE ~(Len(p) > OptLen)
    <2>1. hdr[o] \in [Slot -> Octet] /\ hdr[o][HlenSlot] \in LegalHlen
      BY Values DEF Members
    <2>2. \A s \in Slot : s[1] = "OPT" /\ s[2] <= Len(p) => p[s[2]] \in Octet
      <3>1. ASSUME NEW s \in Slot, s[1] = "OPT", s[2] <= Len(p)
            PROVE  s[2] \in 1 .. Len(p)
        BY <1>1, <3>1, Slots
      <3>2. QED
        BY <1>1, <3>1
    <2>3. m \in [Slot -> Octet]
      BY <2>1, <2>2 DEF PutOption
    <2>4. m[HlenSlot] = hdr[o][HlenSlot]
      <3>1. HlenSlot \in Slot /\ HlenSlot[1] # "OPT"
        BY Slots DEF HlenSlot
      <3>2. QED
        BY <3>1 DEF PutOption
    <2>5. m \in Members
      BY <2>1, <2>3, <2>4 DEF Members
    <2>6. hdr' = [hdr EXCEPT ![o] = m] /\ result' = "ok"
      BY <1>3 DEF SetOption
    <2>. HIDE DEF m
    <2>7. QED
      BY <2>5, <2>6, MembersStep DEF SetOption
  <1>4. QED
    BY <1>2, <1>3

LEMMA ClearStep ==
  ASSUME IInv, classOf' = classOf, NEW o \in Obj, Clear(o)
  PROVE  IInv'
  BY Values, MembersStep DEF Clear

LEMMA SetContentsStep ==
  ASSUME IInv, classOf' = classOf, NEW o \in Obj, NEW p \in Payloads, SetContents(o, p)
  PROVE  IInv'
  <1> DEFINE w == SetContent(raw[o], p)
  <1>1. o \in alive /\ p \in Seq(Octet)
    BY PacketAssumption DEF SetContents
  <1>2. /\ w \in Seq(Octet) /\ Len(w) = Pivot + Len(p)
        /\ \A k \in 1 .. Pivot : w[k] = raw[o][k]
    BY <1>1, Values, ContentSet
  <1>. HIDE DEF w
  <1>3. raw' = [raw EXCEPT ![o] = w] /\ raw'[o] = w /\ Len(w) >= Pivot
    <2>1. Len(p) \in Nat /\ Pivot \in Nat
      BY <1>1, Values
    <2>2. raw' = [raw EXCEPT ![o] = w]
      BY DEF SetContents, w
    <2>3. Len(w) >= Pivot
      BY <1>2, <2>1
    <2>4. raw'[o] = w
      BY <2>2 DEF IInv, TypeOK
    <2>5. QED
      BY <2>2, <2>3, <2>4
  <1>4. TypeOK'
    BY <1>2, <1>3 DEF IInv, TypeOK, SetContents
  <1>5. \A r \in Obj \ {o} : Same(r)
    BY <1>3 DEF Same, SetContents, IInv, TypeOK
  <1>6. Kept(o)'
    <2>1. headers[o] = Own(o) /\ \A x \in compiled[o] : Image(raw[o], x, classOf[o])
      BY <1>1, PerObject DEF Kept, IInv
    <2>2. headers'[o] = Own(o)' /\ compiled'[o] = compiled[o]
      BY <2>1, OwnSame DEF SetContents
    <2>3. ASSUME NEW x \in compiled[o] PROVE Image(w, x, classOf[o])
      <3>1. x \in Members
        BY DEF IInv, TypeOK
      <3>2. QED
        BY <1>2, <2>1, <3>1, Values, StillImage
    <2>4. \A x \in compiled'[o] : Image(raw'[o], x, classOf'[o])
      BY <1>3, <2>2, <2>3
    <2>5. QED
      BY <2>2, <2>4 DEF Kept, Image
  <1>7. QED
    BY <1>3, <1>4, <1>5, <1>6, Local

LEMMA CompileStep ==
  ASSUME IInv, classOf' = classOf, NEW o \in Obj, Compile(o)
  PROVE  IInv'
  <1> DEFINE w == Compiled(raw[o], hdr, Own(o))
  <1>1. o \in alive /\ headers[o] = Own(o)
    BY Values DEF Compile
  <1>2. /\ w \in Seq(Octet) /\ Len(w) = Len(raw[o])
        /\ Image(w, hdr[o], classOf[o])
    BY Values, CompiledImage DEF IInv, TypeOK
  <1>. HIDE DEF w
  <1>3. raw' = [raw EXCEPT ![o] = w] /\ raw'[o] = w /\ Len(w) >= Pivot
    BY <1>1, <1>2, Values DEF Compile, IInv, TypeOK, w
  <1>4. TypeOK'
    BY <1>2, <1>3, Values, ZenonT(60) DEF IInv, TypeOK, Compile
  <1>5. \A r \in Obj \ {o} : Same(r)
    BY <1>3 DEF Same, Compile, IInv, TypeOK
  <1>6. Kept(o)'
    <2>1. headers'[o] = Own(o)'
      BY <1>1, OwnSame DEF Compile
    <2>2. compiled'[o] = {hdr[o]}
      BY DEF Compile, IInv, TypeOK
    <2>3. \A x \in compiled'[o] : Image(raw'[o], x, classOf'[o])
      BY <1>2, <1>3, <2>2
    <2>4. QED
      BY <2>1, <2>3 DEF Kept, Image
  <1>7. QED
    BY <1>3, <1>4, <1>5, <1>6, Local

(* What both Analyze and Check know of the walk.                           *)
LEMMA WalkValues ==
  ASSUME IInv, NEW o \in alive, NEW f \in Seq(Octet), LegalFrame(classOf[o], f)
  PROVE  LET got == Analyzed(hdr, headers[o], f)
         IN  /\ got.ms \in [Obj -> Members] /\ got.ok \in BOOLEAN
             /\ \A r \in Obj \ {o} : got.ms[r] = hdr[r]
             /\ SetContent(raw[o], got.rest) \in Seq(Octet)
             /\ Len(SetContent(raw[o], got.rest)) >= Pivot
             /\ \A k \in 1 .. Pivot : SetContent(raw[o], got.rest)[k] = raw[o][k]
  <1> DEFINE got == Analyzed(hdr, Own(o), f)
  <1>1. o \in Obj /\ classOf \in [Obj -> Class] /\ hdr \in [Obj -> Members]
    BY DEF IInv, TypeOK
  <1>2. headers[o] = Own(o) /\ raw[o] \in Seq(Octet) /\ Len(raw[o]) >= Pivot /\ Pivot \in Nat
    BY <1>1, Values
  <1>3. got \in Walks /\ \A r \in Obj \ {o} : got.ms[r] = hdr[r]
    BY <1>1, AnalyzedMembers
  <1>. HIDE DEF got
  <1>4. got.ms \in [Obj -> Members] /\ got.ok \in BOOLEAN /\ got.rest \in Seq(Octet)
    BY <1>3 DEF Walks
  <1> DEFINE w == SetContent(raw[o], got.rest)
  <1>5. /\ w \in Seq(Octet) /\ Len(w) = Pivot + Len(got.rest)
        /\ \A k \in 1 .. Pivot : w[k] = raw[o][k]
    BY <1>2, <1>4, ContentSet
  <1>. HIDE DEF w
  <1>6. Len(w) >= Pivot
    BY <1>2, <1>4, <1>5
  <1>7. QED
    BY <1>2, <1>3, <1>4, <1>5, <1>6 DEF got, w

LEMMA AnalyzeStep ==
  ASSUME IInv, classOf' = classOf, NEW o \in Obj, NEW f \in Seq(Octet),
         LegalFrame(classOf[o], f), Analyze(o, f)
  PROVE  IInv'
  <1> DEFINE got == Analyzed(hdr, headers[o], f)
             w == SetContent(raw[o], got.rest)
  <1>1. o \in alive /\ headers[o] = Own(o)
    BY Values DEF Analyze
  <1>2. /\ got.ms \in [Obj -> Members] /\ got.ok \in BOOLEAN
        /\ \A r \in Obj \ {o} : got.ms[r] = hdr[r]
        /\ w \in Seq(Octet) /\ Len(w) >= Pivot
        /\ \A k \in 1 .. Pivot : w[k] = raw[o][k]
    BY <1>1, WalkValues
  <1>3. /\ hdr' = got.ms
        /\ raw' = IF got.ok THEN [raw EXCEPT ![o] = w] ELSE raw
        /\ result' \in {"ok", "threw"}
        /\ UNCHANGED <<alive, headers, tag, compiled>>
    BY DEF Analyze
  <1>. HIDE DEF got, w
  <1>4. raw'[o] = w \/ raw'[o] = raw[o]
    BY <1>3 DEF IInv, TypeOK
  <1>5. TypeOK'
    <2>1. raw' \in [Obj -> Seq(Octet)]
      BY <1>2, <1>3 DEF IInv, TypeOK
    <2>2. QED
      BY <1>2, <1>3, <2>1 DEF IInv, TypeOK
  <1>6. Len(raw'[o]) >= Pivot
    BY <1>2, <1>4, Values
  <1>7. \A r \in Obj \ {o} : Same(r)
    BY <1>2, <1>3 DEF Same, IInv, TypeOK
  <1>8. Kept(o)'
    <2>1. \A x \in compiled[o] : Image(raw[o], x, classOf[o])
      BY <1>1, PerObject DEF Kept, IInv
    <2>2. headers'[o] = Own(o)' /\ compiled'[o] = compiled[o]
      BY <1>1, <1>3, OwnSame
    <2>3. ASSUME NEW x \in compiled[o] PROVE Image(raw'[o], x, classOf[o])
      <3>1. x \in Members /\ Image(raw[o], x, classOf[o])
        BY <2>1 DEF IInv, TypeOK
      <3>2. Image(w, x, classOf[o])
        BY <1>2, <3>1, Values, StillImage
      <3>3. QED
        BY <1>4, <3>1, <3>2
    <2>4. \A x \in compiled'[o] : Image(raw'[o], x, classOf'[o])
      BY <2>2, <2>3
    <2>5. QED
      BY <2>2, <2>4 DEF Kept, Image
  <1>9. QED
    BY <1>5, <1>6, <1>7, <1>8, Local

(* The pointers of a live object give the lengths of its class's headers,  *)
(* which fit the header area.                                              *)
LEMMA HeaderFits ==
  ASSUME IInv, NEW o \in alive
  PROVE  /\ HeaderLength(o) = VecLenFrom(hdr[o], classOf[o], 1)
         /\ HeaderLength(o) \in Nat
         /\ HeaderLength(o) <= Pivot
  <1> DEFINE c == classOf[o]
             m == hdr[o]
  <1>1. o \in Obj /\ classOf \in [Obj -> Class] /\ c \in Class /\ m \in Members
    BY DEF IInv, TypeOK
  <1>2. headers[o] = Own(o)
    BY <1>1, Values
  <1>3. ASSUME NEW i \in 1 .. 3 PROVE PtrLen(o, i) = VecLen(m, c, i)
    <2>1. /\ Len(Own(o)) = Len(Vec(c)) /\ Len(Vec(c)) \in 1 .. 3
          /\ \A j \in 1 .. Len(Own(o)) : Own(o)[j][1] = o /\ Own(o)[j][2] = Vec(c)[j]
      BY <1>1, Pointers, Vectors
    <2>2. CASE i <= Len(Vec(c))
      BY <1>2, <2>1, <2>2 DEF PtrLen, VecLen
    <2>3. CASE ~(i <= Len(Vec(c)))
      BY <1>2, <2>1, <2>3 DEF PtrLen, VecLen
    <2>4. QED
      BY <2>2, <2>3
  <1>4. /\ \A i \in 1 .. 3 : VecLen(m, c, i) \in Nat
        /\ VecLenFrom(m, c, 1) = VecLen(m, c, 1) + VecLen(m, c, 2) + VecLen(m, c, 3)
        /\ VecLenFrom(m, c, 1) <= Pivot
    BY <1>1, Fits
  <1>5. HeaderLength(o) = VecLen(m, c, 1) + VecLen(m, c, 2) + VecLen(m, c, 3)
    BY <1>3 DEF HeaderLength
  <1>6. QED
    BY <1>4, <1>5

LEMMA ReceiveStep ==
  ASSUME IInv, classOf' = classOf, NEW o \in Obj, NEW r \in Obj, Receive(o, r)
  PROVE  IInv'
  <1> DEFINE n == HeaderLength(r)
             f == Raw(r)
  <1>1. r \in alive /\ LegalFrame(classOf[o], f) /\ Analyze(o, f)
    BY DEF Receive
  <1>2. n \in Nat /\ n <= Pivot
    BY <1>1, HeaderFits
  <1>3. raw[r] \in Seq(Octet) /\ Len(raw[r]) >= Pivot /\ Pivot \in Nat
    BY Values
  <1>4. f \in Seq(Octet)
    <2>. HIDE DEF n
    <2>1. f = SubSeq(raw[r], Pivot - n + 1, Len(raw[r]))
      BY DEF Raw, n
    <2>2. Pivot - n + 1 \in Int /\ Pivot - n + 1 >= 1
      BY <1>2, <1>3
    <2>3. QED
      BY <1>3, <2>1, <2>2
  <1>. HIDE DEF f
  <1>5. QED
    BY <1>1, <1>4, AnalyzeStep

LEMMA CheckStep ==
  ASSUME IInv, classOf' = classOf, NEW o \in Obj, NEW f \in Frames[classOf[o]],
         Check(o, f)
  PROVE  IInv'
  <1> DEFINE got == Analyzed(hdr, headers[o], f)
             v == SetContent(raw[o], got.rest)
             w == Compiled(v, got.ms, headers[o])
  <1>1. o \in alive /\ headers[o] = Own(o) /\ f \in Seq(Octet) /\ LegalFrame(classOf[o], f)
    BY Values DEF Check
  <1>2. /\ got.ms \in [Obj -> Members] /\ got.ok \in BOOLEAN
        /\ \A r \in Obj \ {o} : got.ms[r] = hdr[r]
        /\ v \in Seq(Octet) /\ Len(v) >= Pivot
    BY <1>1, WalkValues
  <1>3. /\ hdr' = got.ms
        /\ UNCHANGED <<alive, headers, tag>>
        /\ got.ok => /\ raw' = [raw EXCEPT ![o] = w]
                     /\ compiled' = [compiled EXCEPT ![o] = {got.ms[o]}]
                     /\ result' \in {"length error", "success", "binary error"}
        /\ ~got.ok => result' = "threw" /\ UNCHANGED <<raw, compiled>>
    BY DEF Check
  <1>4. CASE ~got.ok
    <2>1. Analyze(o, f)
      BY <1>1, <1>3, <1>4 DEF Analyze
    <2>2. QED
      BY <1>1, <2>1, AnalyzeStep
  <1>5. CASE got.ok
    <2>. HIDE DEF got, v
    <2>1. /\ w \in Seq(Octet) /\ Len(w) = Len(v)
          /\ Image(w, got.ms[o], classOf[o])
      <3> DEFINE ms == got.ms
      <3>1. ms \in [Obj -> Members] /\ v \in Seq(Octet) /\ Len(v) >= Pivot
        BY <1>2
      <3>2. w = Compiled(v, ms, Own(o)) /\ classOf \in [Obj -> Class]
        BY <1>1 DEF IInv, TypeOK
      <3>. HIDE DEF ms, w
      <3>3. /\ w \in Seq(Octet) /\ Len(w) = Len(v)
            /\ Image(w, ms[o], classOf[o])
        BY <3>1, <3>2, CompiledImage
      <3>4. QED
        BY <3>3 DEF ms
    <2>. HIDE DEF w
    <2>2. raw'[o] = w /\ Len(raw'[o]) >= Pivot
      BY <1>2, <1>3, <1>5, <2>1 DEF IInv, TypeOK
    <2>3. TypeOK'
      <3>1. raw' \in [Obj -> Seq(Octet)]
        BY <1>3, <1>5, <2>1 DEF IInv, TypeOK
      <3>2. compiled' \in [Obj -> SUBSET Members]
        <4>1. {got.ms[o]} \in SUBSET Members
          BY <1>2
        <4>2. QED
          BY <1>3, <1>5, <4>1 DEF IInv, TypeOK
      <3>3. QED
        BY <1>2, <1>3, <1>5, <3>1, <3>2 DEF IInv, TypeOK
    <2>4. \A r \in Obj \ {o} : Same(r)
      BY <1>2, <1>3, <1>5 DEF Same, IInv, TypeOK
    <2>5. Kept(o)'
      <3>1. headers'[o] = Own(o)'
        BY <1>1, <1>3, OwnSame
      <3>2. compiled'[o] = {got.ms[o]}
        BY <1>3, <1>5 DEF IInv, TypeOK
      <3>3. \A x \in compiled'[o] : Image(raw'[o], x, classOf'[o])
        BY <2>1, <2>2, <3>2
      <3>4. QED
        BY <3>1, <3>3 DEF Kept, Image
    <2>6. QED
      BY <2>2, <2>3, <2>4, <2>5, Local
  <1>6. QED
    BY <1>4, <1>5

LEMMA DestroyStep ==
  ASSUME IInv, classOf' = classOf, NEW o \in Obj, Destroy(o)
  PROVE  IInv'
  <1>1. <<>> \in Seq(Obj \X Layer)
    OBVIOUS
  <1>2. TypeOK'
    BY <1>1, Values DEF IInv, TypeOK, Destroy
  <1>3. Len(raw'[o]) >= Pivot
    <2>1. raw'[o] = Blanks
      BY DEF Destroy, IInv, TypeOK
    <2>2. QED
      BY <2>1, Values
  <1>4. \A r \in Obj \ {o} : Same(r)
    BY DEF Same, Destroy, IInv, TypeOK
  <1>5. Kept(o)'
    BY DEF Kept, Destroy
  <1>6. QED
    BY <1>2, <1>3, <1>4, <1>5, Local

LEMMA NextInv == IInv /\ [Next]_vars => IInv'
  <1> SUFFICES ASSUME IInv, [Next]_vars PROVE IInv'
    OBVIOUS
  <1>1. CASE UNCHANGED vars
    <2>1. UNCHANGED <<classOf, alive, hdr, headers, raw, tag, compiled>> /\ result' = result
      BY <1>1 DEF vars
    <2>2. QED
      BY <2>1, Idle DEF IInv, TypeOK
  <1>2. CASE Next
    <2>1. classOf' = classOf
      BY <1>2, ZenonT(60) DEF Next, Construct, ConstructFrom, CopyConstruct, Assign, AssignBase, SetField,
                  SetOption, Clear, SetContents, Compile, Analyze, Receive, Check, Destroy
    <2>2. ASSUME NEW o \in Obj, Construct(o) PROVE IInv'
      BY <2>1, <2>2, ConstructStep
    <2>3. ASSUME NEW o \in Obj, NEW f \in Frames[classOf[o]], ConstructFrom(o, f) PROVE IInv'
      BY <2>1, <2>3, ConstructFromStep
    <2>4. ASSUME NEW o \in Obj, NEW r \in Obj, CopyConstruct(o, r) PROVE IInv'
      BY <2>1, <2>4, CopyConstructStep
    <2>5. ASSUME NEW o \in Obj, NEW r \in Obj, Assign(o, r) PROVE IInv'
      BY <2>1, <2>5, AssignStep
    <2>6. ASSUME NEW o \in Obj, NEW r \in Obj, AssignBase(o, r) PROVE IInv'
      BY <2>1, <2>6, AssignBaseStep
    <2>7. ASSUME NEW o \in Obj, NEW e \in Edits, SetField(o, e) PROVE IInv'
      BY <2>1, <2>7, SetFieldStep
    <2>8. ASSUME NEW o \in Obj, NEW p \in Options, SetOption(o, p) PROVE IInv'
      BY <2>1, <2>8, SetOptionStep
    <2>9. ASSUME NEW o \in Obj, Clear(o) PROVE IInv'
      BY <2>1, <2>9, ClearStep
    <2>10. ASSUME NEW o \in Obj, NEW p \in Payloads, SetContents(o, p) PROVE IInv'
      BY <2>1, <2>10, SetContentsStep
    <2>11. ASSUME NEW o \in Obj, Compile(o) PROVE IInv'
      BY <2>1, <2>11, CompileStep
    <2>12. ASSUME NEW o \in Obj, NEW f \in Frames[classOf[o]], Analyze(o, f) PROVE IInv'
      BY <2>1, <2>12, Values, AnalyzeStep
    <2>13. ASSUME NEW o \in Obj, NEW r \in Obj, Receive(o, r) PROVE IInv'
      BY <2>1, <2>13, ReceiveStep
    <2>14. ASSUME NEW o \in Obj, NEW f \in Frames[classOf[o]], Check(o, f) PROVE IInv'
      BY <2>1, <2>14, CheckStep
    <2>15. ASSUME NEW o \in Obj, Destroy(o) PROVE IInv'
      BY <2>1, <2>15, DestroyStep
    <2>16. QED
      BY <1>2, <2>2, <2>3, <2>4, <2>5, <2>6, <2>7, <2>8, <2>9, <2>10, <2>11, <2>12,
         <2>13, <2>14, <2>15 DEF Next
  <1>3. QED
    BY <1>1, <1>2

THEOREM Invariance == Spec => []IInv
  BY InitInv, NextInv, PTL DEF Spec

-------------------------------------------------------------------------------
(* The properties of Packet.                                               *)

(* No sequence of calls leaves the types: in particular hlen stays legal   *)
(* through analyze() of any mix of whole and truncated frames.             *)
THEOREM TypeCorrect == Spec => []TypeOK
  BY Invariance, PTL DEF IInv

(* packet's copy constructor and operator= never leave a header vector     *)
(* pointing at another object's headers (packet.h:175-178, 247-256).       *)
THEOREM PointersAreOwned == Spec => []HeadersOwned
  BY Invariance, PTL DEF IInv

(* The assertions of contents(), raw() and length() never fire.            *)
THEOREM NoAssertionFails == Spec => []AssertsHold
  <1>1. IInv => AssertsHold
    <2> SUFFICES ASSUME IInv, NEW o \in alive
                 PROVE  Len(raw[o]) >= Pivot /\ HeaderLength(o) <= Pivot
      BY DEF AssertsHold
    <2>1. o \in Obj
      BY DEF IInv, TypeOK
    <2>2. QED
      BY <2>1, Values, HeaderFits
  <1>2. QED
    BY <1>1, Invariance, PTL

(* The header area holds the wire image of the last compile(), for every   *)
(* header layout and every sequence of calls.                              *)
THEOREM CompiledImageLasts == Spec => []RawIsWireImage
  BY Invariance, PTL DEF IInv

(* A call that throws leaves every object's bytes alone.                   *)
THEOREM FailuresKeepRaw == Spec => FailedCallKeepsRaw
  <1>1. [Next]_vars => [result' = "threw" => UNCHANGED raw]_vars
    <2> SUFFICES ASSUME Next, result' = "threw" PROVE UNCHANGED raw
      BY DEF vars
    <2>1. ASSUME NEW o \in Obj, NEW f \in Seq(Octet) \cup Frames[classOf[o]],
                 \/ ConstructFrom(o, f)
                 \/ Analyze(o, f)
                 \/ Check(o, f)
          PROVE  UNCHANGED raw
      BY <2>1 DEF ConstructFrom, Analyze, Check
    <2>2. ASSUME NEW o \in Obj, NEW r \in Obj,
                 CopyConstruct(o, r) \/ Assign(o, r) \/ AssignBase(o, r) \/ Receive(o, r)
          PROVE  UNCHANGED raw
      BY <2>2 DEF CopyConstruct, Assign, AssignBase, Receive, Analyze
    <2>3. ASSUME NEW o \in Obj,
                 \/ Construct(o) \/ Clear(o) \/ Compile(o) \/ Destroy(o)
                 \/ \E e \in Edits : SetField(o, e)
                 \/ \E p \in Options : SetOption(o, p)
                 \/ \E p \in Payloads : SetContents(o, p)
          PROVE  UNCHANGED raw
      BY <2>3 DEF Construct, Clear, Compile, Destroy, SetField, SetOption, SetContents
    <2>4. QED
      BY <2>1, <2>2, <2>3 DEF Next
  <1>2. QED
    BY <1>1, PTL DEF Spec, FailedCallKeepsRaw

(* What one call leaves alone: everything of the other objects.            *)
Apart(o, r) == hdr'[r] = hdr[r] /\ raw'[r] = raw[r] /\ (r \in alive' <=> r \in alive)

(* analyze() follows the header vector, which is the object's own, so the  *)
(* members it assigns are too; Receive and Check are made of it.           *)
LEMMA AnalysisApart ==
  ASSUME IInv, NEW o \in Obj, NEW f \in Seq(Octet), LegalFrame(classOf[o], f),
         Analyze(o, f) \/ Check(o, f), NEW r \in Obj \ {o}
  PROVE  Apart(o, r)
  <1> DEFINE got == Analyzed(hdr, headers[o], f)
  <1>1. o \in alive
    BY DEF Analyze, Check
  <1>2. got.ms[r] = hdr[r]
    BY <1>1, WalkValues
  <1>3. hdr' = got.ms /\ alive' = alive
    BY DEF Analyze, Check
  <1>4. raw' = raw \/ \E v : raw' = [raw EXCEPT ![o] = v]
    BY DEF Analyze, Check
  <1>5. raw'[r] = raw[r]
    BY <1>4 DEF IInv, TypeOK
  <1> HIDE DEF got
  <1> QED BY <1>2, <1>3, <1>5 DEF Apart

(* An object that is constructed from a buffer: the others keep theirs.    *)
LEMMA ConstructionApart ==
  ASSUME IInv, NEW o \in Obj, NEW f \in Frames[classOf[o]], ConstructFrom(o, f),
         NEW r \in Obj \ {o}
  PROVE  Apart(o, r)
  <1> DEFINE ms == [hdr EXCEPT ![o] = Cleared[classOf[o]]]
             got == Analyzed(ms, Own(o), f)
  <1>1. ms \in [Obj -> Members] /\ ms[r] = hdr[r] /\ classOf \in [Obj -> Class]
    BY Values DEF IInv, TypeOK
  <1>2. f \in Seq(Octet) /\ LegalFrame(classOf[o], f)
    BY Values
  <1> HIDE DEF ms
  <1>3. got.ms[r] = ms[r]
    BY <1>1, <1>2, AnalyzedMembers
  <1>4. \/ hdr' = got.ms /\ alive' = alive \cup {o} /\ \E v : raw' = [raw EXCEPT ![o] = v]
        \/ UNCHANGED <<alive, hdr, raw>>
    BY DEF ConstructFrom, ms
  <1> HIDE DEF got
  <1>5. raw'[r] = raw[r]
    BY <1>4 DEF IInv, TypeOK
  <1> QED BY <1>1, <1>3, <1>4, <1>5 DEF Apart

(* No call on one packet reaches the members, the bytes or the lifetime of *)
(* another, for any number of objects.                                     *)
THEOREM CallsStayApart == Spec => OthersUntouched
  <1> DEFINE Untouched ==
               \E o \in Obj : \A r \in Obj \ {o} :
                 /\ hdr'[r] = hdr[r]
                 /\ raw'[r] = raw[r]
                 /\ r \in alive' <=> r \in alive
  <1>1. ASSUME IInv, Next PROVE Untouched
    <2>1. ASSUME NEW o \in Obj, \A r \in Obj \ {o} : Apart(o, r) PROVE Untouched
      BY <2>1 DEF Apart
    <2> HIDE DEF Untouched
    <2>2. hdr \in [Obj -> Members] /\ raw \in [Obj -> Seq(Octet)] /\ alive \subseteq Obj
      BY <1>1 DEF IInv, TypeOK
    <2>3. ASSUME NEW o \in Obj,
                 \/ Construct(o) \/ Clear(o) \/ Compile(o) \/ Destroy(o)
                 \/ \E e \in Edits : SetField(o, e)
                 \/ \E p \in Options : SetOption(o, p)
                 \/ \E p \in Payloads : SetContents(o, p)
                 \/ \E r \in Obj : CopyConstruct(o, r) \/ Assign(o, r) \/ AssignBase(o, r)
          PROVE  Untouched
      <3>1. ASSUME NEW r \in Obj \ {o} PROVE Apart(o, r)
        <4>1. CASE Construct(o) \/ Clear(o) \/ Compile(o) \/ Destroy(o)
          BY <2>2, <4>1 DEF Apart, Construct, Clear, Compile, Destroy
        <4>2. CASE \/ \E e \in Edits : SetField(o, e)
                   \/ \E p \in Options : SetOption(o, p)
                   \/ \E p \in Payloads : SetContents(o, p)
          BY <2>2, <4>2 DEF Apart, SetField, SetOption, SetContents
        <4>3. CASE \E x \in Obj : CopyConstruct(o, x) \/ Assign(o, x) \/ AssignBase(o, x)
          BY <2>2, <4>3 DEF Apart, CopyConstruct, Assign, AssignBase
        <4> QED BY <2>3, <4>1, <4>2, <4>3
      <3> QED BY <2>1, <3>1
    <2>4. ASSUME NEW o \in Obj, NEW f \in Frames[classOf[o]], ConstructFrom(o, f)
          PROVE  Untouched
      BY <1>1, <2>1, <2>4, ConstructionApart
    <2>5. ASSUME NEW o \in Obj, NEW f \in Frames[classOf[o]], Analyze(o, f) \/ Check(o, f)
          PROVE  Untouched
      BY <1>1, <2>1, <2>5, Values, AnalysisApart
    <2>6. ASSUME NEW o \in Obj, NEW r \in Obj, Receive(o, r) PROVE Untouched
      <3>1. r \in alive /\ LegalFrame(classOf[o], Raw(r)) /\ Analyze(o, Raw(r))
        BY <2>6 DEF Receive
      <3>2. Raw(r) \in Seq(Octet)
        <4> DEFINE n == HeaderLength(r)
        <4>1. n \in Nat /\ n <= Pivot /\ raw[r] \in Seq(Octet) /\ Len(raw[r]) >= Pivot /\ Pivot \in Nat
          BY <1>1, <3>1, HeaderFits, Values
        <4>2. Raw(r) = SubSeq(raw[r], Pivot - n + 1, Len(raw[r]))
          BY DEF Raw
        <4> HIDE DEF n
        <4>3. Pivot - n + 1 \in Int /\ Pivot - n + 1 >= 1
          BY <4>1
        <4> QED BY <4>1, <4>2, <4>3
      <3> QED BY <1>1, <2>1, <3>1, <3>2, AnalysisApart
    <2> QED BY <1>1, <2>3, <2>4, <2>5, <2>6 DEF Next
  <1>2. IInv /\ [Next]_vars => [Untouched]_vars
    BY <1>1
  <1> QED BY <1>2, Invariance, PTL DEF Spec, OthersUntouched
=============================================================================
