------------------------------- MODULE MCPacket -------------------------------
(***************************************************************************)
(* Packet with the layouts of Protocols.  An hlen unit of options is one   *)
(* cell and hlen is bounded by 7 instead of 15, so the option array has    *)
(* two cells; with 8 and above legal, the EtherType of a frame that is     *)
(* sent one cell too long would read as an hlen and multiply the states.   *)
(* The header area is one cell larger than the largest header vector.      *)
(***************************************************************************)
EXTENDS Packet, Protocols

CONSTANTS a, b

MCOctet == 0 .. 65535

(* The cells of a header with the given fields, all others zero.           *)
Wire(l, r) == [k \in 1 .. MinLength[l] |->
                 IF StructOf(l)[k] \in DOMAIN r THEN r[StructOf(l)[k]] ELSE 0]

EthOf(type) == Wire("ETH", [dst |-> 99, type |-> type])
IpOf(hlen)  == Wire("IP", [hlen |-> hlen, version |-> 4, tot_len |-> 7168,
                           check |-> 259, src |-> 77, dst |-> 88])
UdpHeader   == Wire("UDP", [src |-> 13568, dst |-> 258])

(* Whole frames, and frames cut inside each header.  The ipv4 ones carry   *)
(* hlen 5 and 6; the last one is cut in its options.                       *)
MCFrames ==
  [c \in Class |->
    CASE c = "ethernet" -> {<<99, 0>>, EthOf(8), EthOf(8) \o <<1>>}
      [] c = "arp"      -> {EthOf(1544) \o <<256>>,
                            EthOf(1544) \o Wire("ARP", [operation |-> 512]) \o <<1>>}
      [] c = "ipv6"     -> {EthOf(56710) \o Wire("IPV6", [version |-> 6])}
      [] OTHER          -> {EthOf(8) \o IpOf(5) \o UdpHeader,
                            EthOf(8) \o IpOf(5) \o <<1>>,
                            EthOf(8) \o IpOf(6) \o <<3>> \o UdpHeader \o <<1>>,
                            EthOf(8) \o IpOf(6)}]

MCPayloads == {<<>>, <<1, 2>>}
TooLong    == [k \in 1 .. OptLen + 1 |-> 7]
MCOptions  == {<<3>>, TooLong}
MCEdits    == {<<HlenSlot, 5>>, <<HlenSlot, 6>>, <<At("ARP", "operation"), 2>>,
               <<At("IPV6", "trafic_class"), 3>>, <<At("UDP", "src"), 80>>}

UdpOnly == {[o \in Obj |-> "udp"]}

(* Two objects: copies, assignments and receptions between objects of one  *)
(* class, and assignments between classes with as many and with fewer      *)
(* headers.                                                                *)
Pairs == {[o \in Obj |-> IF o = a THEN x[1] ELSE x[2]] :
            x \in {<<"ipv4", "ipv4">>, <<"arp", "arp">>, <<"arp", "ipv6">>,
                   <<"ethernet", "ipv6">>}}
ArpIpv4 == {[o \in Obj |-> IF o = a THEN "arp" ELSE "ipv4"]}

PairFrames ==
  [c \in Class |->
    CASE c = "ethernet" -> {EthOf(8)}
      [] c = "arp"  -> {EthOf(1544) \o Wire("ARP", [operation |-> 512]) \o <<1>>}
      [] c = "ipv4" -> {EthOf(8) \o IpOf(6) \o <<3>> \o <<1>>}
      [] c = "ipv6" -> {EthOf(56710) \o Wire("IPV6", [version |-> 6]),
                        EthOf(56710) \o Wire("IPV6", [trafic_class |-> 1]) \o <<2>>}
      [] OTHER      -> {}]
PairPayloads == {<<>>}
PairOptions  == {TooLong}
PairEdits    == {<<HlenSlot, 6>>, <<At("ARP", "operation"), 2>>}
=============================================================================
