--------------------------- MODULE MCBoundedQueue ---------------------------
(* Instances of BoundedQueue for TLC. *)
EXTENDS BoundedQueue, TLC

CONSTANTS p1, p2, c1, c2, k1

TwoProducers == {p1, p2}
TwoConsumers == {c1, c2}
OneCloser    == {k1}

Symmetry == Permutations(TwoProducers) \cup Permutations(TwoConsumers)
=============================================================================
