------------------------------- MODULE Headers -------------------------------
(***************************************************************************)
(* The protocol headers of pgen/core/protocol: ethernet, arp, ipv4, ipv6   *)
(* and udp, as constant-level operators.  A header is laid out in cells; a *)
(* cell stands for one field (a byte, a 16-bit word or an address), and    *)
(* the lengths below count cells.  The members of a packet object are one  *)
(* function from slots to values, and each header's write() and read() is  *)
(* a translation between slots and the cells of a buffer.                  *)
(***************************************************************************)
EXTENDS Integers, Sequences

CONSTANTS
  Octet,     \* the values of a cell
  Hton,      \* htons() and ntohs(): one permutation of Octet
  Fixed,     \* [Layer -> Nat]: min_length of each header, in cells
  Word,      \* the cells of options one unit of ipv4 hlen stands for
  MinHlen,   \* the hlen of a header without options (5)
  MaxHlen,   \* the largest hlen of the 4-bit field (15)
  WriteAs,   \* [Slot -> Conversion]: what write() does to a member
  ReadAs     \* [Slot -> Conversion]: what read() does to a cell

Layer == {"ETH", "ARP", "IP", "IPV6", "UDP"}

(* The private option array of ipv4_header holds the cells after the fixed *)
(* part of the largest header.                                             *)
OptLen == Word * (MaxHlen - MinHlen)

(* A slot is a public member of a header, or a cell of the option array.   *)
SlotsOf(l) == {l} \X (1 .. IF l = "OPT" THEN OptLen ELSE Fixed[l])

Slot == UNION {SlotsOf(l) : l \in Layer \cup {"OPT"}}

HlenSlot == <<"IP", 1>>

LegalHlen == MinHlen .. MaxHlen

(* A plain copy, htons()/ntohs(), or a constant zero.                      *)
Conversion == {"copy", "swap", "zero"}

ASSUME OctetAssumption ==
  /\ Octet \subseteq Nat
  /\ 0 \in Octet
  /\ Hton \in [Octet -> Octet]
  /\ \A v \in Octet : Hton[Hton[v]] = v

ASSUME SizeAssumption ==
  /\ Fixed \in [Layer -> Nat \ {0}]
  /\ Word \in Nat \ {0}
  /\ MinHlen \in Nat \ {0}
  /\ MaxHlen \in Nat
  /\ MinHlen <= MaxHlen
  /\ LegalHlen \subseteq Octet

ASSUME SlotAssumption ==
  /\ WriteAs \in [Slot -> Conversion]
  /\ ReadAs \in [Slot -> Conversion]
  /\ ReadAs[HlenSlot] = "copy"

(***************************************************************************)
(* The member values of a packet object.  hlen is kept between its legal   *)
(* bounds: write() and read() copy hlen * 4 - 20 option bytes and have no  *)
(* defined behaviour below five words.                                     *)
(***************************************************************************)
Members == {m \in [Slot -> Octet] : m[HlenSlot] \in LegalHlen}

(* The classes of packet and the header vector each init_headers() builds. *)
Class == {"ethernet", "arp", "ipv4", "ipv6", "udp"}

Vec(c) == CASE c = "ethernet" -> <<"ETH">>
            [] c = "arp"      -> <<"ETH", "ARP">>
            [] c = "ipv4"     -> <<"ETH", "IP">>
            [] c = "ipv6"     -> <<"ETH", "IPV6">>
            [] c = "udp"      -> <<"ETH", "IP", "UDP">>

HasLayer(c, l) == \E i \in 1 .. Len(Vec(c)) : Vec(c)[i] = l

(* length() of a header: only ipv4's depends on a member.  hlen counts     *)
(* words of four bytes; the first MinHlen of them hold the fixed fields.   *)
HdrLen(m, l) ==
  Fixed[l] + (IF l = "IP" THEN Word * (m[HlenSlot] - MinHlen) ELSE 0)

(* The slot the k-th cell of header l is copied from or to.                *)
CellSlot(l, k) == IF k <= Fixed[l] THEN <<l, k>> ELSE <<"OPT", k - Fixed[l]>>

Convert(how, v) == CASE how = "copy" -> v
                     [] how = "swap" -> Hton[v]
                     [] how = "zero" -> 0

WireCell(m, l, k) == Convert(WriteAs[CellSlot(l, k)], m[CellSlot(l, k)])

(* write() with a buffer of length(), which is what compile() passes.      *)
WriteHeader(m, l) == [k \in 1 .. HdrLen(m, l) |-> WireCell(m, l, k)]

ReadFixed(m, l, buf) ==
  [s \in Slot |-> IF s[1] = l THEN Convert(ReadAs[s], buf[s[2]]) ELSE m[s]]

(* Mutant: the option copy stops one cell early.                           *)
ReadOptionShort(m, l, buf) ==
  [s \in Slot |-> IF s[1] = "OPT" /\ s[2] < HdrLen(m, l) - Fixed[l]
                  THEN buf[Fixed[l] + s[2]] ELSE m[s]]

ReadOption(m, l, buf) ==
  [s \in Slot |-> IF s[1] = "OPT" /\ s[2] <= HdrLen(m, l) - Fixed[l]
                  THEN buf[Fixed[l] + s[2]] ELSE m[s]]

(***************************************************************************)
(* read(): throws on a buffer shorter than the fixed part and leaves the   *)
(* members alone; ipv4 assigns its members first and throws afterwards     *)
(* when the buffer is shorter than the hlen it has just read.              *)
(***************************************************************************)
ReadHeader(m, l, buf) ==
  LET got == ReadFixed(m, l, buf)
  IN  IF Len(buf) < Fixed[l] THEN [m |-> m, ok |-> FALSE]
      ELSE IF Len(buf) < HdrLen(got, l) THEN [m |-> got, ok |-> FALSE]
      ELSE [m |-> ReadOption(got, l, buf), ok |-> TRUE]

(* The hlen a frame of class c carries, if it carries one, is legal.       *)
LegalFrame(c, buf) ==
  HasLayer(c, "IP") /\ Len(buf) >= Fixed["ETH"] + Fixed["IP"]
    => buf[Fixed["ETH"] + 1] \in LegalHlen

(* set_option(): copies the given cells over the first ones of the array   *)
(* and does not touch hlen.                                                *)
PutOption(m, buf) ==
  [s \in Slot |-> IF s[1] = "OPT" /\ s[2] <= Len(buf) THEN buf[s[2]] ELSE m[s]]

(* Where header i of class c starts, counted from the end of the header    *)
(* area: the lengths of headers i and above.  No packet has more than      *)
(* three headers.                                                          *)
VecLen(m, c, i) == IF i <= Len(Vec(c)) THEN HdrLen(m, Vec(c)[i]) ELSE 0

VecLenFrom(m, c, i) == VecLen(m, c, i)
                       + (IF i <= 2 THEN VecLen(m, c, i + 1) ELSE 0)
                       + (IF i <= 1 THEN VecLen(m, c, i + 2) ELSE 0)

(* The members write() replaces by zero.                                   *)
Zeroed == {s \in Slot : WriteAs[s] = "zero"}

(* The members a packet of class c puts on the wire: the slots of its own  *)
(* headers, and the options up to hlen.                                    *)
Visible(m, c) == {s \in Slot : \/ HasLayer(c, s[1])
                               \/ /\ s[1] = "OPT"
                                  /\ HasLayer(c, "IP")
                                  /\ s[2] <= HdrLen(m, "IP") - Fixed["IP"]}
=============================================================================
