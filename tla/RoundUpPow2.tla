---------------------------- MODULE RoundUpPow2 ----------------------------
(***************************************************************************)
(* detail::round_up_pow2 (concurrency/spsc_ring.h) on words of Bits bits.  *)
(***************************************************************************)
EXTENDS Integers, Bitwise, Folds

CONSTANT Bits   \* the width of std::size_t, a power of two

\* The shifts 1, 2, 4, ... below Bits.
Shifts == {2^i : i \in {j \in 0..Bits : 2^j < Bits}}

\* v |= v >> shift, the smallest shift first: every bit below the highest is set.
Smear(v) ==
    MapThenFoldSet(LAMBDA shift, acc : acc | (acc \div 2^shift), v,
                   LAMBDA shift : shift,
                   LAMBDA S : CHOOSE x \in S : \A y \in S : x >= y, Shifts)

round_up_pow2(v) == IF v < 2 THEN 2 ELSE (Smear(v - 1) + 1) % 2^Bits

\* It is the least power of two from 2 on that is not below its argument, for
\* every argument up to half the range.
ASSUME RoundsUp ==
    \A v \in 0..2^(Bits - 1) :
        LET powers == {2^i : i \in 1..(Bits - 1)} IN
        round_up_pow2(v) = CHOOSE p \in powers : p >= v /\ \A r \in powers : r >= v => r >= p
=============================================================================
