----------------------------- MODULE BufferPool -----------------------------
(***************************************************************************)
(* rdb::BufferPool with the shared handles it gives out: threads that own  *)
(* the pool, threads that hold, pass on and drop BufferPtr handles, and    *)
(* the deleter that the drop of a last handle runs, which goes through a   *)
(* weak_ptr because a handle may outlive the pool.                         *)
(***************************************************************************)
EXTENDS PoolOps, FiniteSetsExt, SequencesExt

CONSTANTS Threads,       \* each may own the pool and hold handles
          Counts,        \* arguments of create() explored
          MaxExhausted   \* bound: refused acquire() calls

ASSUME PoolAssumption == Counts \subseteq Nat /\ MaxExhausted \in Nat

VARIABLES
    pool,     \* the members under mutex_
    alive,    \* the pool object has not been destroyed
    owners,   \* threads that hold a shared_ptr to the pool
    holds,    \* thread -> the buffers it has a handle of
    full,     \* buffers with size_ > 0
    dpc,      \* thread -> where the deleter it runs is
    dbuf,     \* thread -> the buffer of that deleter
    deleted   \* buffer -> how often it was deleted

vars == <<pool, alive, owners, holds, full, dpc, dbuf, deleted>>

Buffers == 1..pool.total

Init ==
    /\ pool \in {NewPool(c) : c \in Counts}
    /\ alive = TRUE /\ owners \in (SUBSET Threads) \ {{}}
    /\ holds = [t \in Threads |-> {}] /\ full = {}
    /\ dpc = [t \in Threads |-> "idle"] /\ dbuf = [t \in Threads |-> 0]
    /\ deleted = [b \in Buffers |-> 0]

\* The shared_ptr that weak.lock() returned keeps the pool alive as well.
Pins == {t \in Threads : dpc[t] \in {"release", "unpin"}}

\* The last reference to the pool goes: its destructor deletes what is in free_.
Unreference(others) ==
    IF others # {} THEN UNCHANGED <<pool, alive, deleted>>
    ELSE /\ alive' = FALSE
         /\ pool' = [pool EXCEPT !.free = <<>>]
         /\ deleted' = [b \in Buffers |->
                          deleted[b] + Cardinality({i \in DOMAIN pool.free : pool.free[i] = b})]

-----------------------------------------------------------------------------
(* Calls. *)

acquire(t) ==
    LET b == Acquired(pool) IN
    /\ dpc[t] = "idle" /\ t \in owners
    /\ pool' = Acquire(pool)
    /\ IF pool.free = <<>>
       THEN pool.exhausted < MaxExhausted /\ UNCHANGED <<holds, full>>
       ELSE holds' = [holds EXCEPT ![t] = @ \cup {b}] /\ full' = full \ {b}
    /\ UNCHANGED <<alive, owners, dpc, dbuf, deleted>>

\* resize() to what fits, 0 or more; anything larger is refused.
resize(t, b, n) ==
    /\ dpc[t] = "idle" /\ b \in holds[t]
    /\ full' = IF n > 0 THEN full \cup {b} ELSE full \ {b}
    /\ UNCHANGED <<pool, alive, owners, holds, dpc, dbuf, deleted>>

\* A handle is copied to another thread.
share(t, u, b) ==
    /\ dpc[t] = "idle" /\ b \in holds[t] /\ b \notin holds[u]
    /\ holds' = [holds EXCEPT ![u] = @ \cup {b}]
    /\ UNCHANGED <<pool, alive, owners, full, dpc, dbuf, deleted>>

\* Variant: every handle that goes runs the deleter.
DropAlwaysReturns(t, b) ==
    /\ dpc[t] = "idle" /\ b \in holds[t]
    /\ holds' = [holds EXCEPT ![t] = @ \ {b}]
    /\ dpc' = [dpc EXCEPT ![t] = "lock"] /\ dbuf' = [dbuf EXCEPT ![t] = b]
    /\ UNCHANGED <<pool, alive, owners, full, deleted>>

\* A handle goes; the thread that drops the last one runs the deleter.
drop(t, b) ==
    /\ dpc[t] = "idle" /\ b \in holds[t]
    /\ holds' = [holds EXCEPT ![t] = @ \ {b}]
    /\ IF \E u \in Threads \ {t} : b \in holds[u]
       THEN UNCHANGED <<dpc, dbuf>>
       ELSE dpc' = [dpc EXCEPT ![t] = "lock"] /\ dbuf' = [dbuf EXCEPT ![t] = b]
    /\ UNCHANGED <<pool, alive, owners, full, deleted>>

drop_pool(t) ==
    /\ dpc[t] = "idle" /\ t \in owners
    /\ owners' = owners \ {t}
    /\ Unreference(owners' \cup Pins)
    /\ UNCHANGED <<holds, full, dpc, dbuf>>

-----------------------------------------------------------------------------
(* The deleter. *)

\* Variant: the deleter captures this instead of weak_from_this().
LockRawThis(t) ==
    /\ dpc[t] = "lock"
    /\ dpc' = [dpc EXCEPT ![t] = "release"]
    /\ UNCHANGED <<pool, alive, owners, holds, full, dbuf, deleted>>

\* weak.lock() succeeds while somebody else references the pool.
weak_lock(t) ==
    /\ dpc[t] = "lock"
    /\ dpc' = [dpc EXCEPT ![t] = IF owners \cup Pins # {} THEN "release" ELSE "delete"]
    /\ UNCHANGED <<pool, alive, owners, holds, full, dbuf, deleted>>

\* Variant: a buffer whose pool is gone is forgotten.
ForgetBuffer(t) ==
    /\ dpc[t] = "delete"
    /\ dpc' = [dpc EXCEPT ![t] = "idle"] /\ dbuf' = [dbuf EXCEPT ![t] = 0]
    /\ UNCHANGED <<pool, alive, owners, holds, full, deleted>>

delete(t) ==
    /\ dpc[t] = "delete"
    /\ deleted' = [deleted EXCEPT ![dbuf[t]] = @ + 1]
    /\ dpc' = [dpc EXCEPT ![t] = "idle"] /\ dbuf' = [dbuf EXCEPT ![t] = 0]
    /\ UNCHANGED <<pool, alive, owners, holds, full>>

release(t) ==
    /\ dpc[t] = "release"
    /\ pool' = Release(pool, dbuf[t]) /\ full' = full \ {dbuf[t]}
    /\ dpc' = [dpc EXCEPT ![t] = "unpin"] /\ dbuf' = [dbuf EXCEPT ![t] = 0]
    /\ UNCHANGED <<alive, owners, holds, deleted>>

\* The deleter's own reference goes, and the pool with it when it is the last.
unpin(t) ==
    /\ dpc[t] = "unpin"
    /\ dpc' = [dpc EXCEPT ![t] = "idle"]
    /\ Unreference(owners \cup (Pins \ {t}))
    /\ UNCHANGED <<owners, holds, full, dbuf>>

Deleting(t) == weak_lock(t) \/ delete(t) \/ release(t) \/ unpin(t)

Next ==
    \E t \in Threads :
        \/ acquire(t) \/ drop_pool(t) \/ Deleting(t)
        \/ \E b \in Buffers :
             \/ drop(t, b) \/ \E n \in {0, 1} : resize(t, b, n)
             \/ \E u \in Threads \ {t} : share(t, u, b)

Spec == Init /\ [][Next]_vars
-----------------------------------------------------------------------------
(* Properties. *)

Held(b) == \E t \in Threads : b \in holds[t]

\* Every member has its type.
TypeOK ==
    /\ pool.free \in Seq(Buffers) /\ pool.exhausted \in 0..MaxExhausted
    /\ alive \in BOOLEAN /\ owners \subseteq Threads
    /\ holds \in [Threads -> SUBSET Buffers] /\ full \subseteq Buffers
    /\ dpc \in [Threads -> {"idle", "lock", "release", "unpin", "delete"}]
    /\ dbuf \in [Threads -> Buffers \cup {0}] /\ deleted \in [Buffers -> Nat]

\* A buffer is in one place only: in the pool, and there once, behind handles,
\* in one deleter, or deleted, and that once.  No buffer is handed out while
\* somebody still uses it, none is returned twice; what waits in the pool is empty.
OnePlace ==
    /\ TypeOK
    /\ full \cap ToSet(pool.free) = {}
    /\ \A b \in Buffers :
        1 = Cardinality({i \in DOMAIN pool.free : pool.free[i] = b})
          + (IF Held(b) THEN 1 ELSE 0)
          + Cardinality({t \in Threads : dpc[t] \in {"lock", "release", "delete"} /\ dbuf[t] = b})
          + deleted[b]

\* The pool is used only while it exists: a deleter that returns a buffer finds
\* it alive, although owner and last handle may go at the same time.
NoUseAfterFree == (owners \cup Pins # {}) <=> alive

\* Nothing leaks: when the last owner, the last handle and the last deleter are
\* gone, in whatever order, so are the pool and every buffer.
NoLeak ==
    owners = {} /\ (\A t \in Threads : dpc[t] = "idle" /\ holds[t] = {}) =>
        ~alive /\ \A b \in Buffers : deleted[b] = 1
=============================================================================
