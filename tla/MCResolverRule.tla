--------------------------- MODULE MCResolverRule ---------------------------
(* Small instances of ResolverRule for TLC. *)
EXTENDS ResolverRule, TLC

CONSTANTS n1, n2

OneConfig == {[name |-> n1, port |-> 1]}

\* Two that can be sent, one with a port too large for MaxInt32 = 3,
\* which would become 0, and one without a name.
EverySort ==
  {[name |-> n1, port |-> 1], [name |-> n2, port |-> 2],
   [name |-> n1, port |-> 8], [name |-> NoName, port |-> 2]}

\* VPCs and tags are interchangeable (TLC's AnySpec has neither); used by the run
\* without liveness.
Symmetry == Permutations(Vpcs) \cup Permutations(TagKeys)
=============================================================================
