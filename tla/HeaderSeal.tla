------------------------------ MODULE HeaderSeal ------------------------------
(***************************************************************************)
(* A header with its two addresses and its check, and the buffer that      *)
(* carries it from one program to the next: ethernet, ipv4, ipv6, and udp  *)
(* over ipv4, whose checksum covers the addresses below it.                *)
(*   kind   the class of the header;                                       *)
(*   h      the header object: src, dst and check, and in rest the sum of  *)
(*          all other words that calc_checksum() adds up;                  *)
(*   seal   a history: "sealed" when check was set by calc_checksum() and  *)
(*          the header, or the buffer it was read from, is unchanged since *)
(*          then; "broken" when an octet of that buffer was changed;       *)
(*   buf    the buffer, or None; buf.seal is the seal that went into it.   *)
(* Words are those of a little-endian machine.                             *)
(***************************************************************************)
EXTENDS Addresses

CONSTANTS
  Kinds,
  UdpLength,   \* the length of a udp header (8)
  IpWords,     \* the sums of the ipv4 fields that are no address or check
  UdpWords,    \* the sum of the pseudo header's and udp's fields of no length
  Datas,       \* the payloads of udp
  Garbage,     \* what the uninitialised sum of checksum() starts from
  None

HeaderKind == {"ethernet", "ipv4", "ipv6", "udp"}

FamilyOf == [ethernet |-> "mac", ipv4 |-> "ipv4", ipv6 |-> "ipv6", udp |-> "ipv4"]

RawOf(k) == CASE FamilyOf[k] = "mac"  -> MacRaw
              [] FamilyOf[k] = "ipv4" -> Ipv4Raw
              [] FamilyOf[k] = "ipv6" -> Ipv6Raw

Named(k, raw) == CASE FamilyOf[k] = "mac"  -> MacName(raw)
                   [] FamilyOf[k] = "ipv4" -> Ipv4Name(raw)
                   [] FamilyOf[k] = "ipv6" -> Ipv6Name(raw)

Calls(k, a, b) == CASE FamilyOf[k] = "mac"  -> MacCalls(a, b)
                    [] FamilyOf[k] = "ipv4" -> Ipv4Calls(a, b)
                    [] FamilyOf[k] = "ipv6" -> Ipv6Calls(a, b)

Clear(k) == CASE FamilyOf[k] = "mac"  -> MacClear
              [] FamilyOf[k] = "ipv4" -> Ipv4Clear
              [] FamilyOf[k] = "ipv6" -> Ipv6Clear

SetStr(k, a, text) == CASE FamilyOf[k] = "mac"  -> MacSetStr(a, text)
                        [] FamilyOf[k] = "ipv4" -> Ipv4SetStr(a, text)
                        [] FamilyOf[k] = "ipv6" -> Ipv6SetStr(a, text)

(* udp adds its length twice, once in the pseudo header.                   *)
UdpSum(data) == UdpWords + 2 * Ntohs[UdpLength + Len(data)] + LoopTotal(data)

Rests(k) == CASE k = "ipv4" -> IpWords
              [] k = "udp"  -> {UdpSum(d) : d \in Datas}
              [] OTHER      -> {0}

Sealable(k) == FamilyOf[k] = "ipv4"

(* A datagram of 65535 octets stays below 2^31.                            *)
ASSUME SealAssumption ==
  /\ Kinds \subseteq HeaderKind
  /\ \A d \in Datas : UdpLength + Len(d) \in WordVal
  /\ \A k \in Kinds : \A r \in Rests(k) : r \in Nat /\ r + 5 * Words < Words * Words
  /\ Garbage \subseteq Nat

VARIABLES kind, h, seal, buf

vars == <<kind, h, seal, buf>>

Init ==
  /\ kind \in Kinds
  /\ \E r \in Rests(kind) :
       h = [src |-> Clear(kind), dst |-> Clear(kind), check |-> 0, rest |-> r]
  /\ seal = "open"
  /\ buf = None

-------------------------------------------------------------------------------
(* What write() puts into a buffer, and what checksum() adds up there.     *)
Wire(hd) == [src |-> hd.src.raw, dst |-> hd.dst.raw, check |-> Ntohs[hd.check],
             rest |-> hd.rest]

(* Mutant: the first word is left out.                                     *)
AddressSumLate(raw) == Little(raw[3], raw[4])

AddressSum(raw) == Little(raw[1], raw[2]) + Little(raw[3], raw[4])

Total(b) == b.rest + b.check + AddressSum(b.src) + AddressSum(b.dst)

(* Mutant: the checksum is given back as it lies in memory.                *)
CalcChecksumRaw(hd, g) == Fold(g + Total(Wire(hd)))

(* calc_checksum() writes the header with the check it has, and sums that. *)
CalcChecksum(hd, g) == Ntohs[Fold(g + Total(Wire(hd)))]

-------------------------------------------------------------------------------
(* The program changes the header.                                         *)
Changed(hd) == h' = hd /\ seal' = (IF hd = h THEN seal ELSE "open") /\ UNCHANGED <<kind, buf>>

CallSrc == \E a \in Calls(kind, h.src, h.dst) : Changed([h EXCEPT !.src = a])

CallDst == \E a \in Calls(kind, h.dst, h.src) : Changed([h EXCEPT !.dst = a])

SetRest == \E r \in Rests(kind) : Changed([h EXCEPT !.rest = r])

ClearCheck == Changed([h EXCEPT !.check = 0])

(* check = calc_checksum().  The seal is good when check was zero before,  *)
(* the sum started from zero and its carry was not lost.                   *)
SetChecksum(g) ==
  /\ Sealable(kind)
  /\ h' = [h EXCEPT !.check = CalcChecksum(h, g)]
  /\ seal' = IF h.check = 0 /\ g = 0 /\ ~CarriesTwice(Total(Wire(h)))
             THEN "sealed" ELSE "open"
  /\ UNCHANGED <<kind, buf>>

-------------------------------------------------------------------------------
(* write() into a buffer, a buffer that is changed on its way, and read().  *)
Write ==
  /\ buf' = [b |-> Wire(h), seal |-> seal]
  /\ UNCHANGED <<kind, h, seal>>

Tampered(b) == {[b EXCEPT ![f] = [b[f] EXCEPT ![i] = n]] :
                  f \in {"src", "dst"}, i \in Indices \cap 1 .. 4, n \in Numbers[FamilyOf[kind]]}

Tamper ==
  /\ buf # None
  /\ buf.seal = "sealed"
  /\ \E b \in Tampered(buf.b) \ {buf.b} : buf' = [b |-> b, seal |-> "broken"]
  /\ UNCHANGED <<kind, h, seal>>

ReadHeader(b) == [src |-> Named(kind, b.src), dst |-> Named(kind, b.dst),
                  check |-> Ntohs[b.check], rest |-> b.rest]

Read ==
  /\ buf # None
  /\ h' = ReadHeader(buf.b)
  /\ seal' = buf.seal
  /\ UNCHANGED <<kind, buf>>

Next ==
  \/ CallSrc \/ CallDst \/ SetRest \/ ClearCheck
  \/ \E g \in Garbage : SetChecksum(g)
  \/ Write \/ Tamper \/ Read

Spec == Init /\ [][Next]_vars
-------------------------------------------------------------------------------
Seals == {"open", "sealed", "broken"}

Address(k) == [raw : RawOf(k), name : RawOf(k)]

(* The types of the variables.                                             *)
TypeOK ==
  /\ kind \in Kinds
  /\ h \in [src : Address(kind), dst : Address(kind), check : WordVal, rest : Rests(kind)]
  /\ seal \in Seals
  /\ \/ buf = None
     \/ buf \in [b : [src : RawOf(kind), dst : RawOf(kind), check : WordVal, rest : Rests(kind)],
                 seal : Seals]

(* An address that is assigned the text of another one is that address:    *)
(* the text is that of the octets it goes with, after any sequence of      *)
(* calls, also of calls that threw and of addresses read from a buffer.    *)
TextMakesEqual == SetStr(kind, h.src, h.dst.name) = h.dst

(* The receiver of a header that was sealed and is unchanged finds a       *)
(* checksum of zero.                                                       *)
Verifies == seal = "sealed" => CalcChecksum(h, 0) = 0

(* The receiver of a header that was sealed, and of whose addresses one    *)
(* octet was changed on the way, does not.                                 *)
TamperSeen == seal = "broken" => CalcChecksum(h, 0) # 0
=============================================================================
