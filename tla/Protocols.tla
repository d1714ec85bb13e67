------------------------------ MODULE Protocols ------------------------------
(***************************************************************************)
(* The header layouts of pgen/core/protocol, field by field: the order of  *)
(* the fields on the wire, what write() and read() do to each, and what    *)
(* clear() assigns.  A field is one cell, whatever its width; the values   *)
(* of integer fields are those of the code, an address is any number.      *)
(***************************************************************************)
EXTENDS Headers

EthStruct  == <<"dst", "src", "type">>
ArpStruct  == <<"hwtype", "ptype", "hwlen", "plen", "operation",
                "hwsrc", "psrc", "hwdst", "pdst">>
IpStruct   == <<"hlen", "version", "tos", "tot_len", "id", "frag_off",
                "ttl", "protocol", "check", "src", "dst">>
Ipv6Struct == <<"trafic_class", "version", "flow_level", "payload_len",
                "next_header", "hop_limit", "src", "dst">>
UdpStruct  == <<"src", "dst", "len", "check">>

StructOf(l) == CASE l = "ETH"  -> EthStruct
                 [] l = "ARP"  -> ArpStruct
                 [] l = "IP"   -> IpStruct
                 [] l = "IPV6" -> Ipv6Struct
                 [] l = "UDP"  -> UdpStruct

(* The slot of the field called n in header l.                             *)
At(l, n) == <<l, CHOOSE k \in DOMAIN StructOf(l) : StructOf(l)[k] = n>>

Swap(n, names) == IF n \in names THEN "swap" ELSE "copy"

(* htons() on a little-endian host.                                        *)
Swap16 == [v \in 0 .. 65535 |-> 256 * (v % 256) + v \div 256]

-------------------------------------------------------------------------------
(* write().                                                                *)
EthWrite(n)  == Swap(n, {"type"})
ArpWrite(n)  == Swap(n, {"hwtype", "ptype", "operation"})
IpWrite(n)   == Swap(n, {"tot_len", "id", "frag_off", "check"})
Ipv6Write(n) == IF n \in {"trafic_class", "flow_level"} THEN "zero"
                ELSE Swap(n, {"payload_len"})
UdpWrite(n)  == Swap(n, {"src", "dst", "len", "check"})

WriteField(l, n) == CASE l = "ETH"  -> EthWrite(n)
                      [] l = "ARP"  -> ArpWrite(n)
                      [] l = "IP"   -> IpWrite(n)
                      [] l = "IPV6" -> Ipv6Write(n)
                      [] l = "UDP"  -> UdpWrite(n)

-------------------------------------------------------------------------------
(* read().                                                                 *)
EthRead(n)  == Swap(n, {"type"})

(* Mutant: read() forgets ntohs() on operation.                            *)
ArpReadPlain(n) == Swap(n, {"hwtype", "ptype"})
ArpRead(n)  == Swap(n, {"hwtype", "ptype", "operation"})

(* Mutant: read() forgets ntohs() on the checksum.                         *)
IpReadPlain(n) == Swap(n, {"tot_len", "id", "frag_off"})
IpRead(n)   == Swap(n, {"tot_len", "id", "frag_off", "check"})

Ipv6Read(n) == IF n \in {"trafic_class", "flow_level"} THEN "zero"
               ELSE Swap(n, {"payload_len"})
UdpRead(n)  == Swap(n, {"src", "dst", "len", "check"})

ReadField(l, n) == CASE l = "ETH"  -> EthRead(n)
                     [] l = "ARP"  -> ArpRead(n)
                     [] l = "IP"   -> IpRead(n)
                     [] l = "IPV6" -> Ipv6Read(n)
                     [] l = "UDP"  -> UdpRead(n)

-------------------------------------------------------------------------------
(* clear() of each header, and of each class of packet.                    *)
EthClear  == [dst |-> 0, src |-> 0, type |-> 0]
ArpClear  == [hwtype |-> 1, ptype |-> 2048, hwlen |-> 6, plen |-> 4,
              operation |-> 1, hwsrc |-> 0, psrc |-> 0, hwdst |-> 65535, pdst |-> 0]
IpClear   == [version |-> 4, hlen |-> 5, tos |-> 0, tot_len |-> 20, id |-> 0,
              frag_off |-> 0, ttl |-> 64, protocol |-> 0, check |-> 0,
              src |-> 0, dst |-> 0]
Ipv6Clear == [version |-> 6, trafic_class |-> 0, flow_level |-> 0,
              payload_len |-> 0, next_header |-> 6, hop_limit |-> 64,
              src |-> 0, dst |-> 0]
UdpClear  == [src |-> 53, dst |-> 53, len |-> 8, check |-> 0]

ClearField(l, n) == CASE l = "ETH"  -> EthClear[n]
                      [] l = "ARP"  -> ArpClear[n]
                      [] l = "IP"   -> IpClear[n]
                      [] l = "IPV6" -> Ipv6Clear[n]
                      [] l = "UDP"  -> UdpClear[n]

(* Each class sets the EtherType after ETH.clear(); udp also the protocol  *)
(* and the total length of its ipv4 header.                                *)
EtherType(c) == CASE c = "ethernet" -> 0
                  [] c = "arp"      -> 2054
                  [] c = "ipv6"     -> 34525
                  [] OTHER          -> 2048

ClearSlot(c, s) == CASE s = At("ETH", "type") -> EtherType(c)
                     [] c = "udp" /\ s = At("IP", "protocol") -> 17
                     [] c = "udp" /\ s = At("IP", "tot_len")  -> 28
                     [] s[1] = "OPT" -> 0
                     [] OTHER -> ClearField(s[1], StructOf(s[1])[s[2]])

-------------------------------------------------------------------------------
(* The tables Headers and Packet are parameterised by.                     *)
MinLength == [l \in Layer |-> Len(StructOf(l))]

Written == [s \in Slot |-> IF s[1] = "OPT" THEN "copy"
                           ELSE WriteField(s[1], StructOf(s[1])[s[2]])]

ReadBack == [s \in Slot |-> IF s[1] = "OPT" THEN "copy"
                            ELSE ReadField(s[1], StructOf(s[1])[s[2]])]

ClearedMembers == [c \in Class |-> [s \in Slot |-> ClearSlot(c, s)]]
=============================================================================
