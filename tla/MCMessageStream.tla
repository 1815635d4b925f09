-------------------------- MODULE MCMessageStream --------------------------
(* An instance of MessageStream for TLC.  A byte has two bits, which keeps   *)
(* the 64-bit fields within TLC's integers; widths and offsets are those of  *)
(* the code.                                                                 *)
EXTENDS MessageStream, SchemaFingerprint

FrameMagic   == get(<<3, 1, 0, 2>>, 0, 4)
MessageMagic == get(<<2, 0, 1, 1>>, 0, 4)

\* Every field different from its neighbours and from 0, at both ends of its range.
Typical ==
    [magic |-> kMessageMagic, version |-> kMessageVersion, flags |-> 9, schema_id |-> 27,
     schema_hash |-> 228, seq |-> 2^(8 * Bits) - 1, stamp_ns |-> 2^(7 * Bits),
     publish_ns |-> 1 + 2^(5 * Bits), payload_size |-> 2^(4 * Bits) - 1, reserved |-> 2]

\* A header whose seq reads as the prefix of a frame of n bytes.
Misleading(n) == [Typical EXCEPT !.seq = kFrameMagic + n * 2^(4 * Bits)]
SmallHeaders ==
    {Typical, Misleading(24), Misleading(30), [Typical EXCEPT !.magic = kFrameMagic + 1],
     [Typical EXCEPT !.version = kMessageVersion + 1], [Typical EXCEPT !.version = 0]}
SmallPayloads == {Short, Long} \cup {encode_header(h) : h \in SmallHeaders}
=============================================================================
