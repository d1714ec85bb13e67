------------------------------ MODULE Addresses ------------------------------
(***************************************************************************)
(* pgen/core/macaddress.h and ipaddress.h.  An address object keeps its    *)
(* octets (ipv6: its 16-bit sections, as they lie in memory) in raw, and   *)
(* the text of them in name, which str() returns.  A text is modelled by   *)
(* the numbers it shows; anything else stands for one that is malformed.   *)
(*                                                                         *)
(* For each class, <class>Calls(a, b) is the set of values that one call   *)
(* on the object a may leave in it, where b is another object of its       *)
(* class.  A call that throws leaves a as it was.                          *)
(***************************************************************************)
EXTENDS Checksum

CONSTANTS
  Given,     \* [Family -> SUBSET Seq]: the arrays, texts and device
             \* addresses a program has, malformed texts among them
  Indices,   \* the indices given to set_octet() and set_section()
  Numbers    \* [Family -> SUBSET Nat]: the numbers given to them

Family == {"mac", "ipv4", "ipv6"}

MacRaw  == [1 .. 6 -> ByteVal]
Ipv4Raw == [1 .. 4 -> ByteVal]
Ipv6Raw == [1 .. 8 -> WordVal]

ASSUME AddressAssumption ==
  /\ Indices \subseteq Int
  /\ Numbers["mac"] \cup Numbers["ipv4"] \subseteq ByteVal
  /\ Numbers["ipv6"] \subseteq WordVal

-------------------------------------------------------------------------------
(* macaddress.                                                             *)
MacName(raw) == [raw |-> raw, name |-> raw]

MacClear == MacName([i \in 1 .. 6 |-> 0])

(* The text is scanned into a buffer, which is copied when it was whole.   *)
MacSetStr(a, text) == IF text \in MacRaw THEN MacName(text) ELSE a

(* Mutant: the name is not updated.                                        *)
MacSetOctetQuiet(a, i, n) ==
  IF i \in 1 .. 6 THEN [a EXCEPT !.raw = [a.raw EXCEPT ![i] = n]] ELSE a

MacSetOctet(a, i, n) ==
  IF i \in 1 .. 6 THEN MacName([a.raw EXCEPT ![i] = n]) ELSE a

(* getmacbydev() gives an array or throws before it has written any.       *)
MacSetByDev(a, found) == IF found \in MacRaw THEN MacName(found) ELSE a

MacSetByArray(array) == MacName(array)

MacBcast == MacSetStr(MacClear, [i \in 1 .. 6 |-> Base - 1])

MacCalls(a, b) ==
  {b, MacClear, MacBcast, MacSetStr(a, b.name), MacSetByArray(b.raw)}
    \cup {MacSetStr(a, g) : g \in Given["mac"]}
    \cup {MacSetByDev(a, g) : g \in Given["mac"]}
    \cup {MacSetByArray(g) : g \in Given["mac"] \cap MacRaw}
    \cup {MacSetOctet(a, i, n) : i \in Indices, n \in Numbers["mac"]}

-------------------------------------------------------------------------------
(* ipv4address.                                                            *)
Ipv4Name(raw) == [raw |-> raw, name |-> raw]

(* Mutant: the loop stops one octet early.                                 *)
Ipv4ClearShort == Ipv4Name([i \in 1 .. 3 |-> 0])

Ipv4Clear == Ipv4Name([i \in 1 .. 4 |-> 0])

(* inet_pton() writes raw when the text is an address.                     *)
Ipv4SetStr(a, text) == IF text \in Ipv4Raw THEN Ipv4Name(text) ELSE a

Ipv4SetOctet(a, i, n) ==
  IF i \in 1 .. 4 THEN Ipv4Name([a.raw EXCEPT ![i] = n]) ELSE a

Ipv4SetByDev(a, found) == IF found \in Ipv4Raw THEN Ipv4Name(found) ELSE a

Ipv4SetByArray(array) == Ipv4Name(array)

Ipv4Calls(a, b) ==
  {b, Ipv4Clear, Ipv4SetStr(a, b.name), Ipv4SetByArray(b.raw)}
    \cup {Ipv4SetStr(a, g) : g \in Given["ipv4"]}
    \cup {Ipv4SetByDev(a, g) : g \in Given["ipv4"]}
    \cup {Ipv4SetByArray(g) : g \in Given["ipv4"] \cap Ipv4Raw}
    \cup {Ipv4SetOctet(a, i, n) : i \in Indices, n \in Numbers["ipv4"]}

-------------------------------------------------------------------------------
(* ipv6address.  A section lies in network order; its text is ntohs() of   *)
(* it, and set_section() and get_section() do not convert.                 *)
Ipv6Name(raw) == [raw |-> raw, name |-> [i \in 1 .. 8 |-> Ntohs[raw[i]]]]

Ipv6Clear == Ipv6Name([i \in 1 .. 8 |-> 0])

Ipv6SetStr(a, text) ==
  IF text \in Ipv6Raw THEN Ipv6Name([i \in 1 .. 8 |-> Ntohs[text[i]]]) ELSE a

Ipv6SetSection(a, i, n) ==
  IF i \in 1 .. 8 THEN Ipv6Name([a.raw EXCEPT ![i] = n]) ELSE a

(* The first AF_INET6 address in the list of the device, or a throw.       *)
Ipv6SetByDev(a, found) == IF found \in Ipv6Raw THEN Ipv6Name(found) ELSE a

Ipv6SetByArray(array) == Ipv6Name(array)

Ipv6Calls(a, b) ==
  {b, Ipv6Clear, Ipv6SetStr(a, b.name), Ipv6SetByArray(b.raw)}
    \cup {Ipv6SetStr(a, g) : g \in Given["ipv6"]}
    \cup {Ipv6SetByDev(a, g) : g \in Given["ipv6"]}
    \cup {Ipv6SetByArray(g) : g \in Given["ipv6"] \cap Ipv6Raw}
    \cup {Ipv6SetSection(a, i, n) : i \in Indices, n \in Numbers["ipv6"]}
=============================================================================
