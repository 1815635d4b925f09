------------------------------ MODULE QueueOps ------------------------------
(***************************************************************************)
(* The members of rdb::BoundedQueue that mutex_ protects, as one record,   *)
(* and what each critical section of bounded_queue.h does to them.  The    *)
(* modules that own a queue (BoundedQueue itself, TopicBus) share it.      *)
(***************************************************************************)
EXTENDS Integers, Sequences

OverflowPolicy == {"Block", "DropNewest", "DropOldest"}

PushStatus == {"Ok", "Full", "DroppedNewest", "DroppedOldest", "Closed"}

\* The constructor: a capacity of 0 becomes 1.
NewQueue(capacity, policy) ==
    [items |-> <<>>, closed |-> FALSE, dropped |-> 0, highWater |-> 0,
     capacity |-> IF capacity = 0 THEN 1 ELSE capacity, policy |-> policy]

Queue(Values) ==
    [items: Seq(Values), closed: BOOLEAN, dropped: Nat, highWater: Nat,
     capacity: Nat \ {0}, policy: OverflowPolicy]

\* Variant: the boundary is off by one.
IsFullLate(q) == Len(q.items) > q.capacity

IsFull(q) == Len(q.items) >= q.capacity

\* The common tail of push_until: append and raise the high-water mark.
Enqueue(q, v) ==
    [q EXCEPT !.items = Append(q.items, v),
              !.highWater = IF Len(q.items) + 1 > q.highWater
                            THEN Len(q.items) + 1 ELSE q.highWater]

\* Variant: the eviction is not counted.
EvictUncounted(q, v) == [q EXCEPT !.items = Append(Tail(q.items), v)]

\* OverflowPolicy::DropOldest on a full queue: the front makes room.
EvictEnqueue(q, v) ==
    [q EXCEPT !.items = Append(Tail(q.items), v), !.dropped = q.dropped + 1]

\* OverflowPolicy::DropNewest on a full queue: only the count changes.
RejectNewest(q) == [q EXCEPT !.dropped = q.dropped + 1]

\* Variant: the back of the deque is taken.
DequeueLast(q) == [q EXCEPT !.items = SubSeq(q.items, 1, Len(q.items) - 1)]

\* pop_until with something to take.
Dequeue(q) == [q EXCEPT !.items = Tail(q.items)]

\* Variant: closed_ is never set.
CloseForgotten(q) == q

CloseQueue(q) == [q EXCEPT !.closed = TRUE]

ClearQueue(q) == [q EXCEPT !.items = <<>>]
=============================================================================
