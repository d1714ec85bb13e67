----------------------------- MODULE MCHeaderSeal -----------------------------
(***************************************************************************)
(* HeaderSeal with octets of three values: words of nine, sums that carry *)
(* never, once and twice, and a payload of an odd number of octets.        *)
(***************************************************************************)
EXTENDS HeaderSeal

MCNtohs == [w \in WordVal |-> Base * (w % Base) + (w \div Base)]

MCGiven == [mac  |-> {<<>>, <<1, 0, 2, 0, 0, 0>>},
            ipv4 |-> {<<>>, <<2, 2, 2, 1>>},
            ipv6 |-> {<<>>, <<1, 0, 0, 0, 0, 0, 0, 5>>}]

MCNumbers == [mac |-> {0, 2}, ipv4 |-> {0, 2}, ipv6 |-> {0, 3}]

MCDatas == {<<1>>}
=============================================================================
