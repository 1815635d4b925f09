---------------------------- MODULE DrainingFifo ----------------------------
(***************************************************************************)
(* What a bounded queue promises to the components built on it, with no    *)
(* threads in sight: a FIFO buffer of at most cap values whose operations  *)
(* are atomic, which may be shut, which then only drains, and which tells  *)
(* a consumer that it has ended only when it is shut and drained.          *)
(***************************************************************************)
EXTENDS Integers, Sequences

CONSTANT Values

VARIABLES buf, cap, open, ended

fifoVars == <<buf, cap, open, ended>>

FifoInit == buf = <<>> /\ cap \in Nat \ {0} /\ open = TRUE /\ ended = FALSE

Put(v) ==
    /\ open /\ Len(buf) < cap
    /\ buf' = Append(buf, v)
    /\ UNCHANGED <<cap, open, ended>>

\* Only a queue that drops its oldest value does this.
Overwrite(v) ==
    /\ open /\ Len(buf) = cap
    /\ buf' = Append(Tail(buf), v)
    /\ UNCHANGED <<cap, open, ended>>

Get ==
    /\ buf # <<>>
    /\ buf' = Tail(buf)
    /\ UNCHANGED <<cap, open, ended>>

Wipe ==
    /\ buf' = <<>>
    /\ UNCHANGED <<cap, open, ended>>

Shut ==
    /\ open' = FALSE
    /\ UNCHANGED <<buf, cap, ended>>

End ==
    /\ ~open /\ buf = <<>>
    /\ ended' = TRUE
    /\ UNCHANGED <<buf, cap, open>>

FifoNext ==
    \/ \E v \in Values : Put(v) \/ Overwrite(v)
    \/ Get \/ Wipe \/ Shut \/ End

FifoSpec == FifoInit /\ [][FifoNext]_fifoVars
=============================================================================
