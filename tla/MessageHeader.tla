--------------------------- MODULE MessageHeader ---------------------------
(***************************************************************************)
(* msg/header.h: the fixed-length header and its byte-by-byte codec.       *)
(***************************************************************************)
EXTENDS ByteCodec

CONSTANTS kMessageMagic, kMessageVersion

kHeaderSize == 48

\* The offset and the width in bytes of each field, as encode_header and
\* decode_header both spell them out.
Layout ==
    [magic        |-> [offset |-> 0,  width |-> 4],
     version      |-> [offset |-> 4,  width |-> 2],
     flags        |-> [offset |-> 6,  width |-> 2],
     schema_id    |-> [offset |-> 8,  width |-> 4],
     schema_hash  |-> [offset |-> 12, width |-> 4],
     seq          |-> [offset |-> 16, width |-> 8],
     stamp_ns     |-> [offset |-> 24, width |-> 8],
     publish_ns   |-> [offset |-> 32, width |-> 8],
     payload_size |-> [offset |-> 40, width |-> 4],
     reserved     |-> [offset |-> 44, width |-> 4]]

Fields == DOMAIN Layout

MessageHeader0 ==
    [f \in Fields |-> CASE f = "magic" -> kMessageMagic
                        [] f = "version" -> kMessageVersion
                        [] OTHER -> 0]

Covers(f, i) == Layout[f].offset <= i /\ i < Layout[f].offset + Layout[f].width

encode_header(h) ==
    [k \in 1..kHeaderSize |->
        LET f == CHOOSE f \in Fields : Covers(f, k - 1)
        IN  put(h[f], Layout[f].width)[k - Layout[f].offset]]

\* The fields of `in` in S are read into `out`, the others stay as they were.
ReadInto(in, out, S) ==
    [f \in Fields |-> IF f \in S THEN get(in, Layout[f].offset, Layout[f].width) ELSE out[f]]

\* Variant: one field is forgotten.
decode_but_reserved(in, out) ==
    LET all == ReadInto(in, out, Fields \ {"reserved"}) IN
    CASE Len(in) < kHeaderSize -> [ok |-> FALSE, out |-> out]
      [] Len(in) >= kHeaderSize /\ all.magic # kMessageMagic
           -> [ok |-> FALSE, out |-> ReadInto(in, out, {"magic"})]
      [] OTHER -> [ok |-> all.version \in 1..kMessageVersion, out |-> all]

\* What decode_header answers and what it leaves in `out`: each early return
\* leaves the fields that were read so far, and the old values of the rest.
decode_header(in, out) ==
    LET all == ReadInto(in, out, Fields) IN
    IF Len(in) < kHeaderSize
    THEN [ok |-> FALSE, out |-> out]
    ELSE IF all.magic # kMessageMagic
    THEN [ok |-> FALSE, out |-> ReadInto(in, out, {"magic"})]
    ELSE IF all.version = 0 \/ all.version > kMessageVersion
    THEN [ok |-> FALSE, out |-> ReadInto(in, out, {"magic", "version"})]
    ELSE [ok |-> TRUE, out |-> all]
=============================================================================
