---------------------------- MODULE MCRingBench ----------------------------
(* An instance of RingBench for TLC: a ring asked to hold 0 to 8 values, with *)
(* indices of four bits, which the numbers outrun.                            *)
EXTENDS RingBench, RoundUpPow2

Numbers == 0..(Count - 1)
Rounded == {round_up_pow2(v) : v \in 0..8}
Wrapped == 2^4
=============================================================================
