------------------------------ MODULE SpscRing ------------------------------
(***************************************************************************)
(* rdb::SpscRing (concurrency/spsc_ring.h): one producer, one consumer, no *)
(* lock.                                                                   *)
(*                                                                         *)
(* The indices run modulo 2^64 in the code and modulo Wrap here.  A step   *)
(* is one access to memory the other side also uses: an index or a slot.   *)
(* An acquire load may return any value the other side has stored since    *)
(* the last one this side has seen; it brings with it the slot accesses    *)
(* that precede the store.                                                 *)
(***************************************************************************)
EXTENDS Integers, Sequences

CONSTANTS Values,      \* what is pushed
          Capacities,  \* results of round_up_pow2 explored
          Wrap,        \* the indices are 0..Wrap-1
          None         \* a slot never filled, or moved from

\* Wrap is a power of two and so is each capacity, at most half of it.
ASSUME RingAssumption ==
    /\ Wrap \in Nat /\ None \notin Values
    /\ \A c \in Capacities :
         /\ c \in Nat /\ c >= 2
         /\ \E k \in 2..Wrap : Wrap = k * c

VARIABLES
    cap,          \* capacity(), that is mask_ + 1
    slots,        \* slots_
    write, read,  \* write_, read_
    read_cache,   \* read_cache_, used by the producer only
    write_cache,  \* write_cache_, used by the consumer only
    ppc, pval,    \* where push() is, and its argument
    cpc, out,     \* where pop() is, and what it took
    inflight      \* history: what was published and not yet released

vars == <<cap, slots, write, read, read_cache, write_cache, ppc, pval, cpc, out, inflight>>
producerVars == <<write, read_cache, ppc, pval>>
consumerVars == <<read, write_cache, cpc, out>>

Indices == 0..(Wrap - 1)

Init ==
    /\ cap \in Capacities
    /\ slots = [i \in 0..(cap - 1) |-> None]
    /\ write = 0 /\ read = 0 /\ read_cache = 0 /\ write_cache = 0
    /\ ppc = "idle" /\ cpc = "idle" /\ pval = None /\ out = None
    /\ inflight = <<>>

Minus(a, b) == (a - b) % Wrap
Slot(index) == index % cap   \* index & mask_

\* What an acquire load may return to a side that last saw the value `seen`.
Load(seen, current) == {(seen + d) % Wrap : d \in 0..Minus(current, seen)}

-----------------------------------------------------------------------------
(* push *)

\* Variant: one slot too many.
IsFullLate(r) == Minus(write, r) = cap + 1

IsFull(r) == Minus(write, r) = cap

push(v) ==
    /\ ppc = "idle"
    /\ pval' = v
    /\ ppc' = IF IsFull(read_cache) THEN "reload" ELSE "fill"
    /\ UNCHANGED <<cap, slots, write, read_cache, consumerVars, inflight>>

\* Variant: the ring is not looked at again with the new value of read_.
ReloadAndGo ==
    /\ ppc = "reload"
    /\ read_cache' \in Load(read_cache, read)
    /\ ppc' = "fill"
    /\ UNCHANGED <<cap, slots, write, pval, consumerVars, inflight>>

\* The cached copy says full: load read_; still full is `return false`.
push_reload ==
    /\ ppc = "reload"
    /\ read_cache' \in Load(read_cache, read)
    /\ IF IsFull(read_cache') THEN ppc' = "idle" /\ pval' = None
                              ELSE ppc' = "fill" /\ UNCHANGED pval
    /\ UNCHANGED <<cap, slots, write, consumerVars, inflight>>

\* Variant: the index is stored before the slot.
PublishBeforeFill ==
    /\ ppc = "fill"
    /\ write' = (write + 1) % Wrap
    /\ inflight' = Append(inflight, pval)
    /\ ppc' = "publish"
    /\ UNCHANGED <<cap, slots, read_cache, pval, consumerVars>>

push_fill ==
    /\ ppc = "fill"
    /\ slots' = [slots EXCEPT ![Slot(write)] = pval]
    /\ ppc' = "publish"
    /\ UNCHANGED <<cap, write, read_cache, pval, consumerVars, inflight>>

\* The release store of write_.
push_publish ==
    /\ ppc = "publish"
    /\ write' = (write + 1) % Wrap
    /\ inflight' = Append(inflight, pval)
    /\ ppc' = "idle" /\ pval' = None
    /\ UNCHANGED <<cap, slots, read_cache, consumerVars>>

-----------------------------------------------------------------------------
(* pop *)

pop ==
    /\ cpc = "idle"
    /\ cpc' = IF read = write_cache THEN "reload" ELSE "take"
    /\ UNCHANGED <<cap, slots, producerVars, read, write_cache, out, inflight>>

\* Variant: the ring is not looked at again with the new value of write_.
TakeAnyway ==
    /\ cpc = "reload"
    /\ write_cache' \in Load(write_cache, write)
    /\ cpc' = "take"
    /\ UNCHANGED <<cap, slots, producerVars, read, out, inflight>>

\* The cached copy says empty: load write_; still empty is `return false`.
pop_reload ==
    /\ cpc = "reload"
    /\ write_cache' \in Load(write_cache, write)
    /\ cpc' = IF read = write_cache' THEN "idle" ELSE "take"
    /\ UNCHANGED <<cap, slots, producerVars, read, out, inflight>>

\* The value is moved out of its slot.
pop_take ==
    /\ cpc = "take"
    /\ out' = slots[Slot(read)]
    /\ slots' = [slots EXCEPT ![Slot(read)] = None]
    /\ cpc' = "release"
    /\ UNCHANGED <<cap, producerVars, read, write_cache, inflight>>

\* The release store of read_.
pop_release ==
    /\ cpc = "release"
    /\ read' = (read + 1) % Wrap
    /\ inflight' = Tail(inflight)
    /\ cpc' = "idle" /\ out' = None
    /\ UNCHANGED <<cap, slots, producerVars, write_cache>>

Next ==
    \/ \E v \in Values : push(v)
    \/ push_reload \/ push_fill \/ push_publish
    \/ pop \/ pop_reload \/ pop_take \/ pop_release

Spec == Init /\ [][Next]_vars
-----------------------------------------------------------------------------
(* size(): two acquire loads.  The side that calls it knows its own index and *)
(* may see an old value of the other.                                         *)

size_for_producer == {Minus(write, r) : r \in Load(read_cache, read)}
size_for_consumer == {Minus(w, read) : w \in Load(write_cache, write)}

-----------------------------------------------------------------------------
(* Properties. *)

\* Types, and the indices in step around the wrap: what is in flight is the
\* distance from read_ to write_, never more than the capacity.
TypeOK ==
    /\ cap \in Capacities
    /\ slots \in [0..(cap - 1) -> Values \cup {None}]
    /\ {write, read, read_cache, write_cache} \subseteq Indices
    /\ ppc \in {"idle", "reload", "fill", "publish"} /\ pval \in Values \cup {None}
    /\ cpc \in {"idle", "reload", "take", "release"} /\ out \in Values \cup {None}
    /\ inflight \in Seq(Values)
    /\ Len(inflight) = Minus(write, read) /\ Len(inflight) <= cap

\* The ring holds what is in flight: slot by slot from read_ on, except that the
\* consumer may already have moved the oldest value out, and then has that value.
\* read_ and write_ stay that far apart around the wrap.
RingHoldsInFlight ==
    /\ TypeOK
    /\ \A i \in DOMAIN inflight :
         IF i = 1 /\ cpc = "release" THEN out = inflight[1]
         ELSE slots[Slot(read + i - 1)] = inflight[i]

\* size() is a size, however old the index it reads: the unsigned difference
\* neither wraps around nor exceeds the capacity for the two threads that own an
\* end of the ring; the producer never sees too few values, the consumer never
\* too many.
SizeInBounds ==
    /\ \A n \in size_for_producer : Len(inflight) <= n /\ n <= cap
    /\ \A n \in size_for_consumer : n <= Len(inflight)

\* Producer and consumer never touch one slot at the same time, although neither
\* holds a lock and each goes by a stale copy of the other's index.
SlotsExclusive == ~(ppc = "fill" /\ cpc = "take" /\ Slot(write) = Slot(read))

\* The ring implements the same atomic FIFO as the locked queue: a value is put
\* when write_ is stored and gone when read_ is.
Fifo == INSTANCE DrainingFifo
            WITH buf <- inflight, cap <- cap, open <- TRUE, ended <- FALSE
RingIsFifo == Fifo!FifoSpec
=============================================================================
