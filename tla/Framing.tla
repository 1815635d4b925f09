------------------------------ MODULE Framing ------------------------------
(***************************************************************************)
(* transport/framing.h: encode_frame and FrameDecoder at the two ends of a *)
(* byte stream that is read in arbitrary pieces.  The reader feeds a piece *)
(* and calls next() until it returns false; between pieces it may reset()  *)
(* its decoder, also in the middle of a frame.                             *)
(***************************************************************************)
EXTENDS ByteCodec

CONSTANTS Payloads,         \* payloads that are sent
          kFrameMagic,
          max_frame_bytes,  \* the constructor's argument
          Pieces,           \* how many bytes a read asks for
          MaxSent,          \* bound: frames sent
          MaxReset          \* bound: reset() calls

kFramePrefixSize == 8

encode_frame(payload) == put(kFrameMagic, 4) \o put(Len(payload), 4) \o payload

\* The magic and the length of a payload are 32-bit words.
ASSUME FrameAssumption ==
    /\ kFrameMagic \in 0..(2^(4 * Bits) - 1) /\ max_frame_bytes \in Nat /\ Pieces \subseteq Nat
    /\ \A p \in Payloads : p \in Seq(Byte) /\ Len(p) < 2^(4 * Bits)

VARIABLES
    decoder,   \* FrameDecoder
    stream,    \* bytes sent
    fed,       \* how many of them have been read
    draining,  \* is the reader in its loop around next()
    \* history
    sent,      \* payloads sent
    decoded,   \* frames that next() returned, with their place in the stream
    at,        \* place in the stream of the decoder's first unread byte
    resets     \* reset() calls

framingVars == <<decoder, stream, fed, draining, sent, decoded, at, resets>>

FramingInit ==
    /\ decoder = [buffer |-> <<>>, head |-> 0, error |-> FALSE, frames |-> 0]
    /\ stream = <<>> /\ fed = 0 /\ draining = FALSE
    /\ sent = <<>> /\ decoded = <<>> /\ at = 0 /\ resets = 0

buffered(d) == Len(d.buffer) - d.head
Unread(d)   == SubSeq(d.buffer, d.head + 1, Len(d.buffer))

\* Variant: the position is not moved along with the bytes.
CompactKeepsHead(d) ==
    IF 2 * d.head < Len(d.buffer) THEN d ELSE [d EXCEPT !.buffer = Unread(d)]

\* The consumed part goes once it is half of the buffer.
compact(d) ==
    IF d.head = 0 \/ 2 * d.head < Len(d.buffer) THEN d
    ELSE [d EXCEPT !.buffer = Unread(d), !.head = 0]

-----------------------------------------------------------------------------
send(payload) ==
    /\ Len(sent) < MaxSent
    /\ sent' = Append(sent, payload)
    /\ stream' = stream \o encode_frame(payload)
    /\ UNCHANGED <<decoder, fed, draining, decoded, at, resets>>

\* A read returns up to n bytes, which an erroneous decoder throws away.
feed(n) ==
    LET end == Min({fed + n, Len(stream)}) IN
    /\ ~draining /\ fed < Len(stream)
    /\ decoder' = IF decoder.error THEN decoder
                  ELSE [decoder EXCEPT !.buffer = @ \o SubSeq(stream, fed + 1, end)]
    /\ fed' = end /\ draining' = TRUE
    /\ UNCHANGED <<stream, sent, decoded, at, resets>>

HasPrefix(d)   == buffered(d) >= kFramePrefixSize
FrameLength(d) == get(d.buffer, d.head + 4, 4)

\* Variants: the magic is not looked at; a frame at the limit is refused.
TrustingPrefix(d) == FrameLength(d) > max_frame_bytes
RefusesLimit(d) ==
    get(d.buffer, d.head, 4) # kFrameMagic \/ FrameLength(d) >= max_frame_bytes

\* next() must give up on what it sees.
BadPrefix(d) ==
    get(d.buffer, d.head, 4) # kFrameMagic \/ FrameLength(d) > max_frame_bytes

\* Variant: one byte of the next frame is waited for.
IsOverfull(d) == buffered(d) > kFramePrefixSize + FrameLength(d)

IsComplete(d) == buffered(d) >= kFramePrefixSize + FrameLength(d)

\* next() returns false: in error, or without a complete frame.
next_nothing ==
    /\ draining /\ draining' = FALSE
    /\ \/ decoder.error /\ UNCHANGED decoder
       \/ /\ ~decoder.error /\ HasPrefix(decoder) /\ BadPrefix(decoder)
          /\ decoder' = [decoder EXCEPT !.error = TRUE]
       \/ /\ ~decoder.error
          /\ HasPrefix(decoder) => ~BadPrefix(decoder) /\ ~IsComplete(decoder)
          /\ decoder' = compact(decoder)
    /\ UNCHANGED <<stream, fed, sent, decoded, at, resets>>

\* next() returns a complete frame, and will be called again.
next_frame ==
    LET total == kFramePrefixSize + FrameLength(decoder) IN
    /\ draining /\ ~decoder.error
    /\ HasPrefix(decoder) /\ ~BadPrefix(decoder) /\ IsComplete(decoder)
    /\ decoder' = compact([decoder EXCEPT !.head = @ + total, !.frames = @ + 1])
    /\ decoded' = Append(decoded,
                         [at |-> at, payload |-> SubSeq(Unread(decoder), kFramePrefixSize + 1, total)])
    /\ at' = at + total
    /\ UNCHANGED <<stream, fed, draining, sent, resets>>

\* reset() forgets the bytes it holds; the next ones come from where the reading
\* of the stream is.
reset ==
    /\ ~draining /\ resets < MaxReset
    /\ decoder' = [decoder EXCEPT !.buffer = <<>>, !.head = 0, !.error = FALSE]
    /\ at' = fed
    /\ resets' = resets + 1
    /\ UNCHANGED <<stream, fed, draining, sent, decoded>>
-----------------------------------------------------------------------------
(* Properties. *)

\* The stream position where the i-th frame starts.
Start(i) ==
    SumFunctionOnSet([k \in DOMAIN sent |-> kFramePrefixSize + Len(sent[k])], 1..(i - 1))

\* Nothing is lost or moved while frames arrive in pieces and the buffer is
\* compacted between them: what the decoder has not consumed is the stream from
\* there on, up to where it has been read or to where an error stopped it.  Consumed
\* bytes never make up half of the buffer: it takes less than twice the memory of
\* what is unread.
RestOfStream ==
    LET end == at + buffered(decoder) IN
    /\ Unread(decoder) = SubSeq(stream, at + 1, end)
    /\ IF decoder.error THEN end <= fed ELSE end = fed
    /\ decoder.head = 0 \/ 2 * decoder.head < Len(decoder.buffer)

\* The place behind the frame f.
End(f) == f.at + kFramePrefixSize + Len(f.payload)

\* The stream shows f at its place: magic, a length within the limit, payload.
InStream(f) ==
    /\ get(stream, f.at, 4) = kFrameMagic
    /\ get(stream, f.at + 4, 4) = Len(f.payload) /\ Len(f.payload) <= max_frame_bytes
    /\ f.payload = SubSeq(stream, f.at + kFramePrefixSize + 1, End(f))

\* What comes out stands in the stream, one frame behind the other, and was sent as a
\* frame: without a reset() none is skipped.  Only after a reset() may the decoder be out
\* of step, and take for a frame what lies inside one, if the bytes there show the magic:
\* nothing keeps a payload from doing so.  What it takes at the start of a frame is that
\* frame, so once back in step it stays so.
NoPhantomFrame ==
    /\ \A i \in DOMAIN decoded :
         LET f == decoded[i] IN
         /\ InStream(f)
         /\ i > 1 => End(decoded[i - 1]) <= f.at
         /\ \/ \E k \in DOMAIN sent : Start(k) = f.at /\ sent[k] = f.payload
            \/ resets > 0 /\ \A k \in DOMAIN sent : Start(k) # f.at
    /\ resets = 0 => [i \in DOMAIN decoded |-> decoded[i].payload] = SubSeq(sent, 1, Len(decoded))
    /\ decoder.frames = Len(decoded)

\* The decoder gives up for a reason: a frame over the limit, or a reset() in the
\* middle of a frame has put it out of step with the stream.
ErrorJustified ==
    decoder.error =>
        \A k \in DOMAIN sent : Start(k) = at => Len(sent[k]) > max_frame_bytes

\* Every frame sent is decoded, unless an error or a reset() comes first.
FramesArrive ==
    \A n \in 1..MaxSent :
        Len(sent) >= n ~> (Len(decoded) >= n \/ decoder.error \/ resets > 0)
=============================================================================
