--------------------------- MODULE MCLatencyBench ---------------------------
(* An instance of LatencyBench for TLC. *)
EXTENDS LatencyBench

CONSTANTS t1, sample, main1, s1, s2

\* --best-effort or not, one slot per subscriber.
EitherReliability == {command(1), sensor_data(1)}

Symmetry == Permutations({s1, s2})
=============================================================================
