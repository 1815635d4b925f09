------------------------------ MODULE PoolOps ------------------------------
(***************************************************************************)
(* The members of rdb::BufferPool (msg/buffer_pool.h) that mutex_          *)
(* protects, as one record, and what its critical sections do to them.     *)
(* A buffer is a number; its bytes are left out.                           *)
(***************************************************************************)
EXTENDS Integers, Sequences

\* create(): the constructor turns a count of 0 into 1, preallocate fills free_.
NewPool(count) ==
    LET total == IF count = 0 THEN 1 ELSE count IN
    [free |-> [i \in 1..total |-> i], total |-> total, exhausted |-> 0]

\* acquire() takes the back of free_, or counts the refusal.
Acquire(pool) ==
    IF pool.free = <<>> THEN [pool EXCEPT !.exhausted = @ + 1]
    ELSE [pool EXCEPT !.free = SubSeq(@, 1, Len(@) - 1)]

Acquired(pool) == pool.free[Len(pool.free)]

Release(pool, b) == [pool EXCEPT !.free = Append(@, b)]

in_use(pool) == pool.total - Len(pool.free)
=============================================================================
