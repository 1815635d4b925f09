---------------------------- MODULE BoundedQueue ----------------------------
(***************************************************************************)
(* rdb::BoundedQueue (concurrency/bounded_queue.h): producers, consumers   *)
(* and closing threads around one mutex and two condition variables.       *)
(*                                                                         *)
(* A critical section is one step: the code between taking mutex_ and      *)
(* either releasing it or waiting on a condition variable.  A thread that  *)
(* waits is in "wait" until it is notified, wakes spuriously ("woken") or  *)
(* reaches its deadline ("expired"); it then takes mutex_ again and        *)
(* re-evaluates its predicate, as the predicate overloads of               *)
(* condition_variable::wait and wait_until do.  close() notifies after it  *)
(* has released mutex_, so it is three steps.                              *)
(***************************************************************************)
EXTENDS QueueOps, FiniteSets

CONSTANTS Producers, Consumers, Closers,  \* the threads, by what they call
          Capacities, Policies,           \* constructor arguments explored
          MaxPush                         \* bound: push calls per behaviour

ASSUME ThreadsAssumption ==
    IsFiniteSet(Producers) /\ IsFiniteSet(Consumers) /\ IsFiniteSet(Closers)

ASSUME ArgsAssumption ==
    Capacities \subseteq Nat /\ Policies \subseteq OverflowPolicy /\ MaxPush \in Nat

PushModes == {"push", "push_for", "try_push"}
PopModes  == {"pop", "pop_for", "try_pop"}
Waiter    == {"idle", "wait", "woken", "expired"}
Ids       == 1..MaxPush   \* the n-th push call pushes the value n

VARIABLES
    q,         \* the members under mutex_
    ppc,       \* producer -> where it is in push_until
    pmode,     \* producer -> the entry point it called
    pval,      \* producer -> its argument while it is blocked, else 0
    cpc,       \* consumer -> where it is in pop_until
    cmode,     \* consumer -> the entry point it called
    kpc,       \* closer   -> where it is in close()
    \* history
    issued,    \* push calls so far
    outcome,   \* value -> what its push returned
    accepted,  \* values that entered items_, in order
    removed,   \* values that left the front of items_, in order
    popped,    \* how many of them a pop returned
    cleared,   \* how many of them clear() discarded
    ended      \* has an untimed pop() returned nullopt

vars == <<q, ppc, pmode, pval, cpc, cmode, kpc,
          issued, outcome, accepted, removed, popped, cleared, ended>>
history == <<issued, outcome, accepted, removed, popped, cleared, ended>>

Init ==
    /\ q \in {NewQueue(c, pol) : c \in Capacities, pol \in Policies}
    /\ ppc = [p \in Producers |-> "idle"]
    /\ pmode = [p \in Producers |-> "push"]
    /\ pval = [p \in Producers |-> 0]
    /\ cpc = [c \in Consumers |-> "idle"]
    /\ cmode = [c \in Consumers |-> "pop"]
    /\ kpc = [k \in Closers |-> "idle"]
    /\ issued = 0 /\ popped = 0 /\ cleared = 0 /\ ended = FALSE
    /\ outcome = [i \in Ids |-> "none"]
    /\ accepted = <<>> /\ removed = <<>>

-----------------------------------------------------------------------------
(* Condition variables. *)

Waiting(pc) == {t \in DOMAIN pc : pc[t] = "wait"}
Awake(pc)   == {t \in DOMAIN pc : pc[t] \in {"woken", "expired"}}

\* notify_one: every outcome it may have on the threads waiting in pc.
NotifyOne(pc) ==
    IF Waiting(pc) = {} THEN {pc}
    ELSE {[pc EXCEPT ![t] = "woken"] : t \in Waiting(pc)}

NotifyAll(pc) ==
    [t \in DOMAIN pc |-> IF pc[t] = "wait" THEN "woken" ELSE pc[t]]

-----------------------------------------------------------------------------
(* push, push_for and try_push. *)

PushReturns(p, v, status) ==
    /\ ppc' = [ppc EXCEPT ![p] = "idle"]
    /\ pval' = [pval EXCEPT ![p] = 0]
    /\ outcome' = [outcome EXCEPT ![v] = status]

\* Variant: not_empty_ is not notified.
InsertQuietly(p, v) ==
    /\ q' = Enqueue(q, v)
    /\ accepted' = Append(accepted, v)
    /\ PushReturns(p, v, "Ok")
    /\ UNCHANGED <<cpc, removed>>

Insert(p, v) ==
    /\ q' = Enqueue(q, v)
    /\ cpc' \in NotifyOne(cpc)
    /\ accepted' = Append(accepted, v)
    /\ PushReturns(p, v, "Ok")
    /\ UNCHANGED removed

DropNewest(p, v) ==
    /\ q' = RejectNewest(q)
    /\ PushReturns(p, v, "DroppedNewest")
    /\ UNCHANGED <<cpc, accepted, removed>>

DropOldest(p, v) ==
    /\ q' = EvictEnqueue(q, v)
    /\ cpc' \in NotifyOne(cpc)
    /\ accepted' = Append(accepted, v)
    /\ removed' = Append(removed, Head(q.items))
    /\ PushReturns(p, v, "DroppedOldest")

Refuse(p, v, status) ==
    /\ PushReturns(p, v, status)
    /\ UNCHANGED <<q, cpc, accepted, removed>>

WaitForSpace(p, v) ==
    /\ ppc' = [ppc EXCEPT ![p] = "wait"]
    /\ pval' = [pval EXCEPT ![p] = v]
    /\ UNCHANGED <<q, cpc, outcome, accepted, removed>>

push_until(p, mode) ==
    LET v == issued + 1 IN
    /\ ppc[p] = "idle" /\ issued < MaxPush
    /\ issued' = v
    /\ pmode' = [pmode EXCEPT ![p] = mode]
    /\ \/ q.closed /\ Refuse(p, v, "Closed")
       \/ ~q.closed /\ ~IsFull(q) /\ Insert(p, v)
       \/ ~q.closed /\ IsFull(q) /\ q.policy = "DropNewest" /\ DropNewest(p, v)
       \/ ~q.closed /\ IsFull(q) /\ q.policy = "DropOldest" /\ DropOldest(p, v)
       \/ /\ ~q.closed /\ IsFull(q) /\ q.policy = "Block"
          /\ IF mode = "try_push" THEN Refuse(p, v, "Full") ELSE WaitForSpace(p, v)
    /\ UNCHANGED <<cmode, kpc, popped, cleared, ended>>

\* Variant: closed_ is not looked at again after the wait.
StoreIgnoringClose == ~IsFull(q)

\* After wait_for_space: closed_ is looked at before the value is stored.
StoreAfterWait == ~q.closed /\ ~IsFull(q)

\* A producer that left the wait set takes mutex_ and re-evaluates `ready`.
wait_for_space(p) ==
    /\ ppc[p] \in {"woken", "expired"}
    /\ \/ StoreAfterWait /\ Insert(p, pval[p])
       \/ q.closed /\ ~StoreAfterWait /\ Refuse(p, pval[p], "Closed")
       \/ ~q.closed /\ IsFull(q) /\ ppc[p] = "expired" /\ Refuse(p, pval[p], "Full")
       \/ ~q.closed /\ IsFull(q) /\ ppc[p] = "woken" /\ WaitForSpace(p, pval[p])
    /\ UNCHANGED <<pmode, cmode, kpc, issued, popped, cleared, ended>>

-----------------------------------------------------------------------------
(* pop, pop_for and try_pop. *)

\* Variant: not_full_ is notified only when the queue was full.
TakeNotifiesAtFull(c) ==
    /\ q.items # <<>>
    /\ q' = Dequeue(q)
    /\ IF IsFull(q) THEN ppc' \in NotifyOne(ppc) ELSE UNCHANGED ppc
    /\ removed' = Append(removed, Head(q.items))
    /\ popped' = popped + 1
    /\ cpc' = [cpc EXCEPT ![c] = "idle"]
    /\ UNCHANGED ended

Take(c) ==
    /\ q.items # <<>>
    /\ q' = Dequeue(q)
    /\ ppc' \in NotifyOne(ppc)
    /\ removed' = Append(removed, Head(q.items))
    /\ popped' = popped + 1
    /\ cpc' = [cpc EXCEPT ![c] = "idle"]
    /\ UNCHANGED ended

PopNothing(c, mode) ==
    /\ cpc' = [cpc EXCEPT ![c] = "idle"]
    /\ ended' = (ended \/ mode = "pop")
    /\ UNCHANGED <<q, ppc, removed, popped>>

WaitForItem(c) ==
    /\ cpc' = [cpc EXCEPT ![c] = "wait"]
    /\ UNCHANGED <<q, ppc, removed, popped, ended>>

\* Variant: a closed queue is abandoned instead of drained.
PopAbandonsClosed(c, mode) ==
    /\ cpc[c] = "idle"
    /\ cmode' = [cmode EXCEPT ![c] = mode]
    /\ \/ q.closed /\ PopNothing(c, mode)
       \/ ~q.closed /\ Take(c)
       \/ q.items = <<>> /\ ~q.closed /\ mode # "try_pop" /\ WaitForItem(c)
    /\ UNCHANGED <<pmode, pval, kpc, issued, outcome, accepted, cleared>>

pop_until(c, mode) ==
    /\ cpc[c] = "idle"
    /\ cmode' = [cmode EXCEPT ![c] = mode]
    /\ \/ Take(c)
       \/ q.items = <<>> /\ (q.closed \/ mode = "try_pop") /\ PopNothing(c, mode)
       \/ q.items = <<>> /\ ~q.closed /\ mode # "try_pop" /\ WaitForItem(c)
    /\ UNCHANGED <<pmode, pval, kpc, issued, outcome, accepted, cleared>>

\* A consumer that left the wait set takes mutex_ and re-evaluates its predicate.
wait_for_item(c) ==
    /\ cpc[c] \in {"woken", "expired"}
    /\ \/ Take(c)
       \/ q.items = <<>> /\ (q.closed \/ cpc[c] = "expired") /\ PopNothing(c, cmode[c])
       \/ q.items = <<>> /\ ~q.closed /\ cpc[c] = "woken" /\ WaitForItem(c)
    /\ UNCHANGED <<pmode, pval, cmode, kpc, issued, outcome, accepted, cleared>>

-----------------------------------------------------------------------------
(* close and clear. *)

close(k) ==
    /\ kpc[k] = "idle"
    /\ q' = CloseQueue(q)
    /\ kpc' = [kpc EXCEPT ![k] = "notify_empty"]
    /\ UNCHANGED <<ppc, pmode, pval, cpc, cmode, history>>

close_notify_empty(k) ==
    /\ kpc[k] = "notify_empty"
    /\ cpc' = NotifyAll(cpc)
    /\ kpc' = [kpc EXCEPT ![k] = "notify_full"]
    /\ UNCHANGED <<q, ppc, pmode, pval, cmode, history>>

\* Variant: close() forgets the blocked producers.
CloseForgetsProducers(k) ==
    /\ kpc[k] = "notify_full"
    /\ kpc' = [kpc EXCEPT ![k] = "idle"]
    /\ UNCHANGED <<q, ppc, pmode, pval, cpc, cmode, history>>

close_notify_full(k) ==
    /\ kpc[k] = "notify_full"
    /\ ppc' = NotifyAll(ppc)
    /\ kpc' = [kpc EXCEPT ![k] = "idle"]
    /\ UNCHANGED <<q, pmode, pval, cpc, cmode, history>>

clear ==
    /\ q' = ClearQueue(q)
    /\ ppc' = NotifyAll(ppc)
    /\ removed' = removed \o q.items
    /\ cleared' = cleared + Len(q.items)
    /\ UNCHANGED <<pmode, pval, cpc, cmode, kpc, issued, outcome, accepted, popped, ended>>

-----------------------------------------------------------------------------
(* What the condition variables do by themselves. *)

\* A timed wait reaches its deadline.
Timeout ==
    \/ \E p \in Producers :
         /\ ppc[p] = "wait" /\ pmode[p] = "push_for"
         /\ ppc' = [ppc EXCEPT ![p] = "expired"]
         /\ UNCHANGED <<q, pmode, pval, cpc, cmode, kpc, history>>
    \/ \E c \in Consumers :
         /\ cpc[c] = "wait" /\ cmode[c] = "pop_for"
         /\ cpc' = [cpc EXCEPT ![c] = "expired"]
         /\ UNCHANGED <<q, ppc, pmode, pval, cmode, kpc, history>>

SpuriousWakeup ==
    \/ \E p \in Producers :
         /\ ppc[p] = "wait" /\ ppc' = [ppc EXCEPT ![p] = "woken"]
         /\ UNCHANGED <<q, pmode, pval, cpc, cmode, kpc, history>>
    \/ \E c \in Consumers :
         /\ cpc[c] = "wait" /\ cpc' = [cpc EXCEPT ![c] = "woken"]
         /\ UNCHANGED <<q, ppc, pmode, pval, cmode, kpc, history>>

Next ==
    \/ \E p \in Producers, mode \in PushModes : push_until(p, mode)
    \/ \E p \in Producers : wait_for_space(p)
    \/ \E c \in Consumers, mode \in PopModes : pop_until(c, mode)
    \/ \E c \in Consumers : wait_for_item(c)
    \/ \E k \in Closers : close(k) \/ close_notify_empty(k) \/ close_notify_full(k)
    \/ clear
    \/ Timeout
    \/ SpuriousWakeup

Spec == Init /\ [][Next]_vars
-----------------------------------------------------------------------------
(* Properties. *)

\* Every member has its type; items_ never exceeds capacity_ and high_water_
\* lies between the two (the last check of the multi-producer test).
TypeOK ==
    /\ q \in Queue(Ids)
    /\ Len(q.items) <= q.highWater /\ q.highWater <= q.capacity
    /\ ppc \in [Producers -> Waiter] /\ cpc \in [Consumers -> Waiter]
    /\ kpc \in [Closers -> {"idle", "notify_empty", "notify_full"}]
    /\ pmode \in [Producers -> PushModes] /\ cmode \in [Consumers -> PopModes]
    /\ pval \in [Producers -> Ids \cup {0}]
    /\ \A p \in Producers : ppc[p] # "idle" => pval[p] \in 1..issued
    /\ issued \in 0..MaxPush
    /\ outcome \in [Ids -> PushStatus \cup {"none"}]
    /\ accepted \in Seq(Ids) /\ removed \in Seq(Ids)
    /\ popped \in Nat /\ cleared \in Nat /\ ended \in BOOLEAN

\* No wakeup is lost.  While the queue is open, as many producers have been
\* woken as there are free slots whenever one still waits on not_full_, and as
\* many consumers as there are items whenever one still waits on not_empty_
\* (push_until and pop_until notify one thread per change).  Once it is closed,
\* a thread still waiting is one that close() has yet to notify.
NoLostWakeup ==
    /\ ~q.closed /\ Waiting(ppc) # {} =>
           Cardinality(Awake(ppc)) >= q.capacity - Len(q.items)
    /\ ~q.closed /\ Waiting(cpc) # {} => Cardinality(Awake(cpc)) >= Len(q.items)
    /\ q.closed /\ Waiting(cpc) # {} => \E k \in Closers : kpc[k] = "notify_empty"
    /\ q.closed /\ Waiting(ppc) # {} => \E k \in Closers : kpc[k] # "idle"

\* Values leave in the order in which they entered, none twice, none invented:
\* what entered is what left followed by what is still queued.
FifoOrder == accepted = removed \o q.items

\* Every value is accounted for, at both ends, and in order.  One that left was returned
\* by a pop, discarded by clear(), or counted in dropped_ by an overflow that evicted it;
\* and push_until told its caller the truth: a value entered, and once only, exactly
\* when its push returned Ok or DroppedOldest.
Accounting ==
    /\ FifoOrder
    /\ Len(removed) = popped + cleared + (IF q.policy = "DropOldest" THEN q.dropped ELSE 0)
    /\ \A v \in Ids : outcome[v] \in {"Ok", "DroppedOldest"} <=>
                         \E i \in DOMAIN accepted : accepted[i] = v
    /\ \A i, j \in DOMAIN accepted : accepted[i] = accepted[j] => i = j

\* "After close() the queued data can still be taken; nullopt only once it is
\* empty": the end a consumer sees is final, nothing is queued after it.
EndIsFinal == ended => q.closed /\ q.items = <<>>

\* The queue implements the atomic FIFO that its users rely on.
Fifo == INSTANCE DrainingFifo
            WITH Values <- Ids, buf <- q.items, cap <- q.capacity,
                 open <- ~q.closed, ended <- ended
ImplementsFifo == Fifo!FifoSpec

\* close() releases everybody: every producer and consumer blocked in the queue
\* returns, whatever the other threads do.
CloseReleasesAll ==
    /\ \A p \in Producers : q.closed ~> ppc[p] = "idle"
    /\ \A c \in Consumers : q.closed ~> cpc[c] = "idle"
=============================================================================
