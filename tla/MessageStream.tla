--------------------------- MODULE MessageStream ---------------------------
(***************************************************************************)
(* A sender that puts each message header into a frame, and a receiver     *)
(* that reads the stream in pieces, takes frames off the decoder and       *)
(* decodes their headers into one MessageHeader that it uses over and      *)
(* over.  The two ends are the users that framing.h and header.h expect.   *)
(***************************************************************************)
EXTENDS Framing, MessageHeader

CONSTANT Headers   \* headers that are sent, well-formed or not

VARIABLES
    header,     \* the receiver's MessageHeader
    messages,   \* history: headers sent, or NoHeader
    verdicts    \* history: what decode_header answered, frame by frame

vars == <<framingVars, header, messages, verdicts>>

\* Frames without a header: too short for one, and over the limit.
NoHeader == <<>>
Short    == <<>>
Long     == [i \in 1..(max_frame_bytes + 1) |-> 0]

\* Every field of a header fits its width.
ASSUME HeadersAssumption ==
    /\ {kMessageMagic, kMessageVersion} \subseteq Nat
    /\ \A h \in Headers : h \in [Fields -> Nat] /\ \A f \in Fields : h[f] < 2^(Bits * Layout[f].width)
    /\ Payloads = {Short, Long} \cup {encode_header(h) : h \in Headers}

Init ==
    /\ FramingInit
    /\ header = MessageHeader0 /\ messages = <<>> /\ verdicts = <<>>

SendMessage(h) ==
    /\ send(encode_header(h)) /\ messages' = Append(messages, h)
    /\ UNCHANGED <<header, verdicts>>

SendOther(payload) ==
    /\ send(payload) /\ messages' = Append(messages, NoHeader)
    /\ UNCHANGED <<header, verdicts>>

Read == \E n \in Pieces : feed(n) /\ UNCHANGED <<header, messages, verdicts>>

\* next(), and decode_header on the frame it returned.
TakeFrame ==
    \/ next_nothing /\ UNCHANGED <<header, messages, verdicts>>
    \/ /\ next_frame
       /\ LET answer == decode_header(Last(decoded').payload, header) IN
          /\ header' = answer.out
          /\ verdicts' = Append(verdicts, answer)
       /\ UNCHANGED messages

Reset == reset /\ UNCHANGED <<header, messages, verdicts>>

Next == (\E h \in Headers : SendMessage(h)) \/ (\E p \in {Short, Long} : SendOther(p)) \/ Read \/ TakeFrame \/ Reset

\* The receiver goes on reading and taking frames.
Spec == Init /\ [][Next]_vars /\ WF_vars(Read) /\ WF_vars(TakeFrame)
-----------------------------------------------------------------------------
(* Properties. *)

\* A header that decode_header accepts is, field by field, the one that was sent
\* in that frame, with nothing left of an earlier message in the object it is
\* decoded into; and it accepts exactly the headers of its own magic and of a
\* version it knows.
HeadersIntact ==
    \A i \in DOMAIN verdicts : \A k \in DOMAIN sent : Start(k) = decoded[i].at =>
        LET m == messages[k] IN
        /\ verdicts[i].ok <=>
             m # NoHeader /\ m.magic = kMessageMagic /\ m.version \in 1..kMessageVersion
        /\ verdicts[i].ok => verdicts[i].out = m
=============================================================================
