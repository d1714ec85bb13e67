------------------------------- MODULE Checksum -------------------------------
(***************************************************************************)
(* pgen/util.h: read_as_little_endian() and checksum(), for words of two   *)
(* octets.  Base is the number of values of an octet (256), so that a sum  *)
(* is kept in four octets and folded into two.                             *)
(***************************************************************************)
EXTENDS Integers, Sequences

CONSTANTS
  Base,   \* the values of an octet are 0 .. Base - 1
  Ntohs   \* ntohs() and htons(): swaps the octets of a word

ByteVal == 0 .. Base - 1
Words == Base * Base            \* 2^16
WordVal == 0 .. Words - 1

ASSUME WordAssumption ==
  /\ Base \in Nat /\ Base > 1
  /\ Ntohs \in [WordVal -> WordVal]
  /\ Ntohs[0] = 0
  /\ \A w \in WordVal : Ntohs[Ntohs[w]] = w

(* read_as_little_endian().                                                *)
Little(lo, hi) == lo + Base * hi

(* What the loop of checksum() adds up: words, and the last octet of an    *)
(* odd number of them as it is.                                            *)
LoopTotal(octets) ==
  LET upTo[k \in 0 .. Len(octets)] ==
        IF k = 0 THEN 0
        ELSE upTo[k - 1] + (IF k % 2 = 0 THEN Base * octets[k] ELSE octets[k])
  IN  upTo[Len(octets)]

(* The 32-bit sum is cut into a high and a low word, which are added once. *)
Sum32(total) == total % (Words * Words)

Folded(total) == (Sum32(total) \div Words) + (Sum32(total) % Words)

(* uint16_t of ~sum.                                                       *)
Fold(total) == Words - 1 - (Folded(total) % Words)

(* The sum of the two words carries again; checksum() loses that carry.    *)
CarriesTwice(total) == Folded(total) >= Words
=============================================================================
