---------------------------- MODULE MCPacketPath ----------------------------
(* TLC instances of PacketPath. *)
EXTENDS PacketPath, TLC

CONSTANTS XX, YY, as1

\* Addresses of a prefix of each length.
Halving == [n \in 0 .. Width |-> 2 ^ (Width - n)]

Entry(a, b, c, n) == [start |-> a, end |-> b, country |-> c, asn |-> n]

\* Nested, overlapping, adjacent and separate ranges of XX, and all addresses.
Pairs == {<<0, 7, 2, 3>>, <<0, 3, 4, 6>>, <<1, 4, 3, 7>>, <<1, 1, 6, 7>>}

\* Two ranges of country XX, and one of YY that lies in the middle.
TwoRanges ==
  {{Entry(p[1], p[2], XX, Unset), Entry(p[3], p[4], XX, as1), Entry(3, 4, YY, as1)} : p \in Pairs}

OneRule == {{}, {Entry(2, 2, YY, Unset)}}

Requested == {[addr |-> 4, len |-> Width], [addr |-> 2, len |-> Width - 1]}
=============================================================================
