---------------------------- MODULE MCBufferPool ----------------------------
(* An instance of BufferPool for TLC. *)
EXTENDS BufferPool

CONSTANTS t1, t2, t3

ThreeThreads == {t1, t2, t3}
=============================================================================
