------------------------------ MODULE PcapngBlock ------------------------------
(***************************************************************************)
(* The blocks of pgen/io/pcapng_stream.h, as values: the class             *)
(* pcapng_block and its kinds pcapng_SHB, pcapng_IDB and pcapng_EPB.       *)
(* A cell is a 32-bit word, or a byte of a packet or an option.  A block   *)
(* lies in the file as type and total_length, its body, its option, and    *)
(* total_length again.  The body of an SHB or an IDB is one cell, word;    *)
(* that of an EPB is capture_length, packet_length and the padded packet.  *)
(* The interface and the time of an EPB, which send() sets to zero, are    *)
(* left out.                                                               *)
(***************************************************************************)
EXTENDS Integers, Sequences

CONSTANTS
  SHB, IDB, SPB, EPB,   \* block types
  Align                 \* packets are padded to a multiple of this (4)

ASSUME BlockAssumption ==
  /\ {SHB, IDB, SPB, EPB} \subseteq Nat
  /\ SHB # IDB /\ EPB \notin {SHB, IDB, SPB}
  /\ Align \in Nat \ {0} /\ 2 % Align = 0

Padded(n) == ((n + Align - 1) \div Align) * Align

(* The struct at the head of a body.                                       *)
StructLength(kind) == IF kind = EPB THEN 2 ELSE 1

NewBlock(kind) ==
  [kind |-> kind, type |-> kind, total |-> 3 + StructLength(kind), option |-> <<>>,
   word |-> 0, capture |-> 0, packet |-> 0, data |-> <<>>]

BodyLength(b) == IF b.kind = EPB THEN Padded(2 + b.capture) ELSE 1

(* set_packet() adds to the total_length it finds, and keeps the packet.   *)
SetPacket(b, p) ==
  [b EXCEPT !.data = p, !.capture = Len(p), !.packet = Len(p),
            !.total = @ + Padded(Len(p))]

-------------------------------------------------------------------------------
(* Mutant: write() without its last check.                                 *)
WritableAlways(b) == b.total >= 3 + BodyLength(b) + Len(b.option)

(* write() into a buffer of total_length throws "length error", or finds   *)
(* the buffer too small, when the pieces do not add up to it.              *)
Writable(b) == b.total = 3 + BodyLength(b) + Len(b.option)

Zeros(n) == [k \in 1 .. n |-> 0]

Struct(b) == IF b.kind = EPB THEN <<b.capture, b.packet>> ELSE <<b.word>>

(* What write() leaves of a block in a buffer that held zeros.             *)
Image(b) ==
  LET body == Struct(b) \o b.data IN
  <<b.type, b.total>> \o body \o Zeros(BodyLength(b) - Len(body)) \o b.option \o <<b.total>>

-------------------------------------------------------------------------------
(* read() of an object of a kind, from a buffer c.  The object's body      *)
(* after read_body(), and the option, whose size is the rest.              *)
BodyIn(kind, c) == IF kind = EPB THEN Padded(2 + c[3]) ELSE 1

OptionIn(kind, c) == c[2] - 3 - BodyIn(kind, c)

(* It throws unless the buffer holds every piece, the type is its own and  *)
(* the tail repeats total_length.  A negative option, in a size_t, is      *)
(* larger than any buffer.                                                 *)
Readable(kind, c) ==
  /\ Len(c) >= 2 + StructLength(kind)
  /\ c[1] = kind
  /\ Len(c) >= 2 + BodyIn(kind, c)
  /\ OptionIn(kind, c) \in 0 .. Len(c) - 3 - BodyIn(kind, c)
  /\ c[3 + BodyIn(kind, c) + OptionIn(kind, c)] = c[2]

(* Mutant: the option is taken from behind the packet, before its padding. *)
BlockInUnpadded(kind, c) ==
  [kind    |-> kind, type |-> c[1], total |-> c[2],
   word    |-> IF kind = EPB THEN 0 ELSE c[3],
   capture |-> IF kind = EPB THEN c[3] ELSE 0,
   packet  |-> IF kind = EPB THEN c[4] ELSE 0,
   data    |-> IF kind = EPB THEN SubSeq(c, 5, 4 + c[3]) ELSE <<>>,
   option  |-> IF kind = EPB THEN SubSeq(c, 5 + c[3], 4 + c[3] + OptionIn(kind, c)) ELSE <<>>]

(* The block that read() makes of it.                                      *)
BlockIn(kind, c) ==
  LET from == 2 + BodyIn(kind, c) IN
  [kind    |-> kind, type |-> c[1], total |-> c[2],
   word    |-> IF kind = EPB THEN 0 ELSE c[3],
   capture |-> IF kind = EPB THEN c[3] ELSE 0,
   packet  |-> IF kind = EPB THEN c[4] ELSE 0,
   data    |-> IF kind = EPB THEN SubSeq(c, 5, 4 + c[3]) ELSE <<>>,
   option  |-> SubSeq(c, from + 1, from + OptionIn(kind, c))]
=============================================================================
