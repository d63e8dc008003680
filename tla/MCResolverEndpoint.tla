------------------------- MODULE MCResolverEndpoint -------------------------
(* Small instances of ResolverEndpoint for TLC. *)
EXTENDS ResolverEndpoint, TLC

CONSTANTS s1, s2, s3, ip1, ip2

at(s, i) == [subnet |-> s, ip |-> i]

\* A move from one subnet to another, from more addresses than AWS insists on,
\* with a changed address in the subnet that stays.
Moves == {{at(s1, ip1), at(s2, ip1), at(s2, ip2)},
          {at(s3, ip1), at(s2, ip2)}}

\* A list that AWS refuses for its length, and a subnet with two addresses.
Crowded == {{at(s1, ip1)}, {at(s1, ip1), at(s1, ip2)}}

\* The address in a subnet exchanged for another.
Exchange == {{at(s1, ip1), at(s2, ip1)}, {at(s1, ip2), at(s2, ip1)}}

Lists == Moves \cup Crowded
=============================================================================
