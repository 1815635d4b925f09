------------------------- MODULE SchemaFingerprint -------------------------
(***************************************************************************)
(* schema_fingerprint (msg/header.h): FNV-1a over the characters of a      *)
(* signature, on words of 2^HashBits with an offset basis and an odd prime *)
(* that fit them.                                                          *)
(***************************************************************************)
EXTENDS Integers, Sequences, Bitwise, SequencesExt

CONSTANTS HashBits, OffsetBasis, Prime,  \* 32, 2166136261, 16777619 in the code
          Chars, MaxSignature            \* signatures explored

schema_fingerprint(signature) ==
    FoldLeft(LAMBDA hash, c : ((hash ^^ c) * Prime) % 2^HashBits, OffsetBasis, signature)

\* The fingerprint tells signatures apart that differ in one character: each
\* round is a bijection, because the prime is odd.
ASSUME OneCharacterShows ==
    \A s \in BoundedSeq(Chars, MaxSignature) : \A i \in DOMAIN s : \A c \in Chars \ {s[i]} :
        schema_fingerprint([s EXCEPT ![i] = c]) # schema_fingerprint(s)
=============================================================================
