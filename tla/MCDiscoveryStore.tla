-------------------------- MODULE MCDiscoveryStore --------------------------
(***************************************************************************)
(* Instances of DiscoveryStore for TLC: every assignment of a few lists of *)
(* labels, that agree, differ and overlap, to services and handlers.       *)
(***************************************************************************)
EXTENDS DiscoveryStore, TLC

CONSTANTS s1, s2, h1, h2, h3, k1, k2, v1, v2

Must(k, v) == [key |-> k, value |-> v, optional |-> FALSE]
May(k, v) == [key |-> k, value |-> v, optional |-> TRUE]

MCLabelLists == {<<>>, <<Must(k1, v1)>>, <<Must(k1, v2)>>, <<May(k1, v1)>>, <<May(k2, v1)>>,
                 <<May(k1, v1), Must(k2, v1)>>}

Symmetry == Permutations(Service) \cup Permutations(Handler)
=============================================================================
