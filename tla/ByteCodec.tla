----------------------------- MODULE ByteCodec -----------------------------
(***************************************************************************)
(* The little-endian integers of msg/header.h (put_u16, put_u32, put_u64   *)
(* and their inverses) and of the loops in transport/framing.h.  A byte    *)
(* has Bits bits, 8 in the code.                                           *)
(***************************************************************************)
EXTENDS Integers, Sequences, FiniteSetsExt, SequencesExt

CONSTANT Bits

ASSUME BitsAssumption == Bits \in Nat /\ Bits > 0

Byte == 0..(2^Bits - 1)

\* The n low bytes of v, least significant first.
put(v, n) == [i \in 1..n |-> (v \div 2^(Bits * (i - 1))) % 2^Bits]

\* The n-byte integer at `offset`, counted from 0.
get(bytes, offset, n) ==
    SumFunctionOnSet([i \in 0..(n - 1) |-> bytes[offset + i + 1] * 2^(Bits * i)], 0..(n - 1))
=============================================================================
