------------------------------ MODULE TopicBus ------------------------------
(***************************************************************************)
(* rdb::TopicBus (bus/topic_bus.h): publishing threads, the threads that   *)
(* own a subscription handle, one delivery worker per subscription, a      *)
(* thread that calls shutdown() and one that calls wait_for_idle().        *)
(*                                                                         *)
(* A step is what a thread does under one lock: mutex_ of the bus, or the  *)
(* mutex of one subscriber's queue.  The queue is used through QueueOps:   *)
(* its calls are atomic here, which BoundedQueue shows they may be taken   *)
(* to be (ImplementsFifo).  A callback is user code: it starts in one step *)
(* and returns in another, or never.                                       *)
(***************************************************************************)
EXTENDS QueueOps, Qos, SequencesExt

CONSTANTS Topics, Types,            \* topic names, message types
          Publishers, Subscribers,  \* Publisher objects, subscribe() calls
          Offered, Requested,       \* the QoS values either side may use
          Handlers,                 \* what set_qos_mismatch_handler is given
          MaxPublish,               \* bound: publish calls per behaviour
          MaxTime,                  \* bound: readings of the clock are 1..MaxTime
          MaxStop, MaxIdle          \* bounds: shutdown and wait_for_idle calls

ASSUME QosAssumption ==
    Offered \subseteq QoS /\ Requested \subseteq QoS /\ Handlers \subseteq BOOLEAN
ASSUME SetsAssumption == IsFiniteSet(Topics) /\ IsFiniteSet(Subscribers)
ASSUME BoundsAssumption ==
    MaxPublish \in Nat /\ MaxTime \in Nat \ {0} /\ MaxStop \in Nat /\ MaxIdle \in Nat

VARIABLES
    topics,          \* topics_
    counts,          \* qos_mismatches_, type_mismatches_
    handler,         \* is a mismatch_handler_ installed
    pub,             \* Publisher objects and the publish_erased call of each
    sub,             \* detail::Subscription of each subscribe() call
    owner,           \* where the thread that owns the handle is
    stop,            \* the thread in shutdown()
    idler,           \* the thread in wait_for_idle()
    now,             \* now_ns()
    \* history
    published,       \* publish calls so far
    accepted,        \* subscriber -> envelopes that entered its queue, in order
    taken,           \* subscriber -> what its worker judged: envelope, time, fate
    receipts,        \* publishes that returned true, with their targets
    heard            \* subscribers the mismatch handler was called about

busVars == <<topics, counts, handler>>
historyVars == <<published, accepted, taken, receipts, heard>>
vars == <<busVars, pub, sub, owner, stop, idler, now, historyVars>>

NoType == "none"
Entry0 == [type |-> NoType, subs |-> <<>>, latched |-> <<>>, published |-> 0]
Env0   == [from |-> NoType, seq |-> 0, publish_ns |-> 0]
Qos0   == command(1)

Publisher0 ==
    [pc |-> "none", topic |-> NoType, type |-> NoType, qos |-> Qos0, env |-> Env0,
     targets |-> <<>>, mismatches |-> <<>>, handler |-> FALSE, ok |-> TRUE,
     aimed |-> {}]
Subscription0 ==
    [topic |-> NoType, type |-> NoType, qos |-> Qos0, queue |-> NewQueue(1, "Block"),
     worker |-> "none", join |-> "no", delivered |-> 0, expired |-> 0,
     deadline_missed |-> 0, qos_rejected |-> 0, last_delivery_ns |-> 0,
     mismatch_reported |-> FALSE, held |-> Env0]

Init ==
    /\ topics = [t \in Topics |-> Entry0]
    /\ counts = [qos |-> 0, type |-> 0]
    /\ handler = FALSE
    /\ pub = [p \in Publishers |-> Publisher0]
    /\ sub = [s \in Subscribers |-> Subscription0]
    /\ owner = [s \in Subscribers |-> [pc |-> "idle", backlog |-> <<>>]]
    /\ stop = [pc |-> "idle", all |-> <<>>, calls |-> 0, found |-> {}, ready |-> {}]
    /\ idler = [pc |-> "idle", todo |-> <<>>, calls |-> 0, before |-> [s \in Subscribers |-> 0]]
    /\ now = 1
    /\ published = 0 /\ receipts = {} /\ heard = {}
    /\ accepted = [s \in Subscribers |-> <<>>]
    /\ taken = [s \in Subscribers |-> <<>>]

-----------------------------------------------------------------------------
(* mutex_ is held for reading during the scan of wait_for_idle(); every     *)
(* other critical section is one step.                                      *)

ExclusiveLock == idler.pc # "scan"

\* ensure_topic: the first user of a name fixes its type.
ensure_topic(t, type) ==
    IF topics[t].type = NoType THEN [topics[t] EXCEPT !.type = type] ELSE topics[t]

\* Constructor of detail::Subscription: reliability picks the overflow policy.
NewSubscription(t, type, qos) ==
    [Subscription0 EXCEPT
        !.topic = t, !.type = type, !.qos = qos,
        !.queue = NewQueue(qos.depth,
                           IF qos.reliability = "Reliable" THEN "Block" ELSE "DropOldest")]

-----------------------------------------------------------------------------
(* Publishers. *)

advertise(p, t, type, qos) ==
    /\ ExclusiveLock /\ pub[p].pc = "none"
    /\ topics' = [topics EXCEPT ![t] = ensure_topic(t, type)]
    /\ pub' = [pub EXCEPT ![p] = [Publisher0 EXCEPT !.pc = "idle", !.topic = t,
                                                    !.type = type, !.qos = qos]]
    /\ UNCHANGED <<counts, handler, sub, owner, stop, idler, now, historyVars>>

\* publish_erased up to the lock: the time stamp is taken first.
publish(p) ==
    /\ pub[p].pc = "idle" /\ published < MaxPublish
    /\ published' = published + 1
    /\ pub' = [pub EXCEPT ![p].pc = "lock", ![p].ok = TRUE,
                          ![p].env = [from |-> p, seq |-> 0, publish_ns |-> now]]
    /\ UNCHANGED <<busVars, sub, owner, stop, idler, now, accepted, taken, receipts, heard>>

\* What publish_erased does next, and what it records when that is to return.
Continue(p, rec) ==
    LET returns == rec.targets = <<>> /\ rec.mismatches = <<>> IN
    /\ pub' = [pub EXCEPT ![p] =
                 [rec EXCEPT !.pc = IF rec.mismatches # <<>> THEN "report"
                                    ELSE IF returns THEN "idle" ELSE "push"]]
    /\ receipts' = IF returns /\ rec.ok
                   THEN receipts \cup {[topic |-> rec.topic, seq |-> rec.env.seq,
                                        aimed |-> rec.aimed]}
                   ELSE receipts

\* The latch keeps as many envelopes as this publisher's depth.
Latch(entry, env, qos) ==
    IF qos.durability = "Volatile" THEN entry.latched
    ELSE LET all == Append(entry.latched, env)
             n   == Len(all) - qos.depth
         IN IF n > 0 THEN SubSeq(all, n + 1, Len(all)) ELSE all

\* The subscriber's side of an incompatibility.
Refuse(r) == [r EXCEPT !.qos_rejected = @ + 1, !.mismatch_reported = TRUE]

\* The loop over a list of subscribers that keeps those in S, in order.  (SelectSeq
\* would do, but has no definition that a proof could use.)
Only(list, S) ==
    LET kept[i \in 0..Len(list)] ==
          IF i = 0 THEN <<>>
          ELSE IF list[i] \in S THEN Append(kept[i - 1], list[i]) ELSE kept[i - 1]
    IN kept[Len(list)]

\* Under mutex_: number the message, latch it, sort the subscribers into
\* targets and mismatches, copy the handler.
publish_erased(p) ==
    LET me    == pub[p]
        entry == topics[me.topic]
        env   == [me.env EXCEPT !.seq = entry.published + 1]
        rejected == {s \in ToSet(entry.subs) : check_compatible(me.qos, sub[s].qos) # "None"}
        targets  == Only(entry.subs, Subscribers \ rejected)
        fresh    == {s \in rejected : ~sub[s].mismatch_reported}
    IN
    /\ ExclusiveLock /\ me.pc = "lock" /\ entry.type = me.type
    /\ topics' = [topics EXCEPT ![me.topic].published = env.seq,
                                ![me.topic].latched = Latch(entry, env, me.qos)]
    /\ counts' = [counts EXCEPT !.qos = counts.qos + Cardinality(rejected)]
    /\ sub' = [s \in Subscribers |-> IF s \in rejected THEN Refuse(sub[s]) ELSE sub[s]]
    /\ Continue(p, [me EXCEPT !.env = env, !.targets = targets, !.aimed = ToSet(targets),
                              !.mismatches = Only(entry.subs, fresh),
                              !.handler = handler])
    /\ UNCHANGED <<handler, owner, stop, idler, now, published, accepted, taken, heard>>

\* The topic carries another type: publish returns false.
publish_wrong_type(p) ==
    /\ ExclusiveLock /\ pub[p].pc = "lock" /\ topics[pub[p].topic].type # pub[p].type
    /\ counts' = [counts EXCEPT !.type = counts.type + 1]
    /\ pub' = [pub EXCEPT ![p].pc = "idle"]
    /\ UNCHANGED <<topics, handler, sub, owner, stop, idler, now, historyVars>>

\* Outside the lock: the handler copied under the lock hears of each mismatch.
report_mismatches(p) ==
    /\ pub[p].pc = "report"
    /\ heard' = IF pub[p].handler THEN heard \cup ToSet(pub[p].mismatches) ELSE heard
    /\ Continue(p, [pub[p] EXCEPT !.mismatches = <<>>])
    /\ UNCHANGED <<busVars, sub, owner, stop, idler, now, published, accepted, taken>>

\* What try_push, push_for and push of bounded_queue.h do to the queue of s.
CannotStore(s) ==
    LET qu == sub[s].queue IN qu.closed \/ (IsFull(qu) /\ qu.policy = "Block")
Store(s, env) ==
    LET qu == sub[s].queue IN
    /\ ~CannotStore(s)
    /\ sub' = [sub EXCEPT ![s].queue = IF IsFull(qu) THEN EvictEnqueue(qu, env)
                                                     ELSE Enqueue(qu, env)]
    /\ accepted' = [accepted EXCEPT ![s] = Append(@, env)]

\* Outside the lock: one push per target, in the order of the copy.
push_target(p) ==
    LET s == Head(pub[p].targets) IN
    /\ pub[p].pc = "push"
    /\ Store(s, pub[p].env)
    /\ Continue(p, [pub[p] EXCEPT !.targets = Tail(@)])
    /\ UNCHANGED <<busVars, owner, stop, idler, now, published, taken, heard>>

\* Variants: the failure is not reported; a full queue is waited for without limit.
PushFailsSilently(p) ==
    LET s == Head(pub[p].targets) IN
    /\ pub[p].pc = "push" /\ CannotStore(s)
    /\ Continue(p, [pub[p] EXCEPT !.targets = Tail(@)])
    /\ UNCHANGED <<busVars, sub, owner, stop, idler, now, published, accepted, taken, heard>>
PushWaitsForever(p) ==
    LET s == Head(pub[p].targets) IN
    /\ pub[p].pc = "push" /\ sub[s].queue.closed
    /\ Continue(p, [pub[p] EXCEPT !.targets = Tail(@), !.ok = FALSE])
    /\ UNCHANGED <<busVars, sub, owner, stop, idler, now, published, accepted, taken, heard>>

\* The target's queue was closed, or a Reliable one stayed full for
\* reliable_timeout_; either way the remaining targets are still served.
push_fails(p) ==
    LET s == Head(pub[p].targets) IN
    /\ pub[p].pc = "push" /\ CannotStore(s)
    /\ Continue(p, [pub[p] EXCEPT !.targets = Tail(@), !.ok = FALSE])
    /\ UNCHANGED <<busVars, sub, owner, stop, idler, now, published, accepted, taken, heard>>

set_qos_mismatch_handler(h) ==
    /\ ExclusiveLock /\ handler' = h
    /\ UNCHANGED <<topics, counts, pub, sub, owner, stop, idler, now, historyVars>>

-----------------------------------------------------------------------------
(* Subscriptions. *)

subscribe(s, t, type, qos) ==
    LET entry == ensure_topic(t, type) IN
    /\ ExclusiveLock /\ owner[s].pc = "idle"
    /\ IF entry.type # type
       THEN /\ owner' = [owner EXCEPT ![s].pc = "refused"]
            /\ UNCHANGED <<topics, sub>>
       ELSE /\ topics' = [topics EXCEPT ![t] = [entry EXCEPT !.subs = Append(@, s)]]
            /\ sub' = [sub EXCEPT ![s] = NewSubscription(t, type, qos)]
            /\ owner' = [owner EXCEPT ![s] =
                           [pc |-> "replay",
                            backlog |-> IF qos.durability = "TransientLocal"
                                        THEN entry.latched ELSE <<>>]]
    /\ UNCHANGED <<counts, handler, pub, stop, idler, now, historyVars>>

\* Variant: the backlog is read from the latch again, not from the copy.
ReplayLiveLatch(s) ==
    /\ owner[s].pc = "replay" /\ owner[s].backlog # <<>>
    /\ owner' = [owner EXCEPT ![s].backlog = Tail(@)]
    /\ topics[sub[s].topic].latched # <<>>
    /\ Store(s, Last(topics[sub[s].topic].latched))
    /\ UNCHANGED <<busVars, pub, stop, idler, now, published, taken, receipts, heard>>

\* Outside the lock: the backlog is offered with try_push, whose answer is
\* ignored.
replay_backlog(s) ==
    /\ owner[s].pc = "replay" /\ owner[s].backlog # <<>>
    /\ owner' = [owner EXCEPT ![s].backlog = Tail(@)]
    /\ \/ Store(s, Head(owner[s].backlog))
       \/ CannotStore(s) /\ UNCHANGED <<sub, accepted>>
    /\ UNCHANGED <<busVars, pub, stop, idler, now, published, taken, receipts, heard>>

start_worker(s) ==
    /\ owner[s].pc = "replay" /\ owner[s].backlog = <<>>
    /\ sub' = [sub EXCEPT ![s].worker = "pop"]
    /\ owner' = [owner EXCEPT ![s].pc = "subscribed"]
    /\ UNCHANGED <<busVars, pub, stop, idler, now, historyVars>>

\* lifespan: the message is too old to be delivered.
IsExpired(me, env) ==
    /\ me.qos.lifespan > 0 /\ now > env.publish_ns
    /\ now - env.publish_ns > me.qos.lifespan

\* Variant: the first delivery is held against the start of the clock.
IsLateAtFirst(me) == me.qos.deadline > 0 /\ now - me.last_delivery_ns > me.qos.deadline

\* deadline: too long since the previous delivery.
IsLate(me) ==
    /\ me.qos.deadline > 0 /\ me.last_delivery_ns # 0
    /\ now - me.last_delivery_ns > me.qos.deadline

\* deliver_loop: take the front of the queue.
deliver_pop(s) ==
    /\ sub[s].worker = "pop" /\ sub[s].queue.items # <<>>
    /\ sub' = [sub EXCEPT ![s].queue = Dequeue(@), ![s].worker = "judge",
                          ![s].held = Head(sub[s].queue.items)]
    /\ UNCHANGED <<busVars, pub, owner, stop, idler, now, historyVars>>

\* Then read the clock: an expired message is skipped, any other is held against
\* the deadline and handed to the callback.
deliver_judge(s) ==
    LET me  == [sub[s] EXCEPT !.held = Env0]
        env == sub[s].held
        old == IsExpired(me, env)
    IN
    /\ me.worker = "judge"
    /\ sub' = [sub EXCEPT ![s] =
         IF old THEN [me EXCEPT !.worker = "pop", !.expired = @ + 1]
         ELSE [me EXCEPT !.worker = "callback", !.last_delivery_ns = now,
                         !.deadline_missed = IF IsLate(me) THEN @ + 1 ELSE @]]
    /\ taken' = [taken EXCEPT ![s] =
                   Append(@, [env |-> env, at |-> now,
                              fate |-> IF old THEN "expired" ELSE "callback"])]
    /\ UNCHANGED <<busVars, pub, owner, stop, idler, now, published, accepted, receipts, heard>>

callback_returns(s) ==
    /\ sub[s].worker = "callback"
    /\ sub' = [sub EXCEPT ![s].worker = "pop", ![s].delivered = @ + 1]
    /\ UNCHANGED <<busVars, pub, owner, stop, idler, now, historyVars>>

\* Variant: a closed queue is abandoned instead of drained.
ExitOnClose(s) ==
    /\ sub[s].worker = "pop" /\ sub[s].queue.closed
    /\ sub' = [sub EXCEPT ![s].worker = "exited"]
    /\ UNCHANGED <<busVars, pub, owner, stop, idler, now, historyVars>>

deliver_exit(s) ==
    /\ sub[s].worker = "pop" /\ sub[s].queue.items = <<>> /\ sub[s].queue.closed
    /\ sub' = [sub EXCEPT ![s].worker = "exited"]
    /\ UNCHANGED <<busVars, pub, owner, stop, idler, now, historyVars>>

-----------------------------------------------------------------------------
(* Stopping. *)

\* std::thread::joinable of sub.worker.
Joinable(s) == sub[s].worker # "none" /\ sub[s].join # "joined"

\* stop_subscription up to the wait in join().  Two threads in join() for one
\* worker is undefined; pthread_join refuses the second, std::thread::join throws.
Closed(s) ==
    [sub EXCEPT ![s].queue = CloseQueue(@),
                ![s].join = IF Joinable(s) THEN "claimed" ELSE @]
AfterClose(s, done) ==
    IF ~Joinable(s) THEN done ELSE IF sub[s].join = "claimed" THEN "threw" ELSE "join"

unsubscribe(s) ==
    /\ ExclusiveLock /\ owner[s].pc = "subscribed"
    /\ topics' = [topics EXCEPT ![sub[s].topic].subs = RemoveFirst(@, s)]
    /\ owner' = [owner EXCEPT ![s].pc = "close"]
    /\ UNCHANGED <<counts, handler, pub, sub, stop, idler, now, historyVars>>

unsubscribe_close(s) ==
    /\ owner[s].pc = "close"
    /\ sub' = Closed(s)
    /\ owner' = [owner EXCEPT ![s].pc = AfterClose(s, "done")]
    /\ UNCHANGED <<busVars, pub, stop, idler, now, historyVars>>

\* Variant: unsubscribe() does not wait for the worker.
UnsubscribeDetaches(s) ==
    /\ owner[s].pc = "join"
    /\ sub' = [sub EXCEPT ![s].join = "joined"]
    /\ owner' = [owner EXCEPT ![s].pc = "done"]
    /\ UNCHANGED <<busVars, pub, stop, idler, now, historyVars>>

unsubscribe_join(s) ==
    /\ owner[s].pc = "join" /\ sub[s].worker = "exited"
    /\ sub' = [sub EXCEPT ![s].join = "joined"]
    /\ owner' = [owner EXCEPT ![s].pc = "done"]
    /\ UNCHANGED <<busVars, pub, stop, idler, now, historyVars>>

\* shutdown(): take every subscriber off the lists, whatever order the map has.
shutdown ==
    /\ ExclusiveLock /\ stop.pc \notin {"close", "join"} /\ stop.calls < MaxStop
    /\ \E order \in SetToSeqs(Topics) :
         LET all == FlattenSeq([i \in DOMAIN order |-> topics[order[i]].subs]) IN
         stop' = [pc |-> IF all = <<>> THEN "returned" ELSE "close", all |-> all,
                  calls |-> stop.calls + 1,
                  found |-> ToSet(all),
                  ready |-> {s \in ToSet(all) : owner[s].pc = "subscribed"}]
    /\ topics' = [t \in Topics |-> [topics[t] EXCEPT !.subs = <<>>, !.latched = <<>>]]
    /\ UNCHANGED <<counts, handler, pub, sub, owner, idler, now, historyVars>>

NextToStop == IF Len(stop.all) = 1 THEN "returned" ELSE "close"

shutdown_close ==
    LET s    == Head(stop.all)
        pc   == AfterClose(s, NextToStop)
    IN
    /\ stop.pc = "close"
    /\ sub' = Closed(s)
    /\ stop' = [stop EXCEPT !.pc = pc, !.all = IF pc = "join" THEN @ ELSE Tail(@)]
    /\ UNCHANGED <<busVars, pub, owner, idler, now, historyVars>>

shutdown_join ==
    LET s == Head(stop.all) IN
    /\ stop.pc = "join" /\ sub[s].worker = "exited"
    /\ sub' = [sub EXCEPT ![s].join = "joined"]
    /\ stop' = [stop EXCEPT !.pc = NextToStop, !.all = Tail(@)]
    /\ UNCHANGED <<busVars, pub, owner, idler, now, historyVars>>

-----------------------------------------------------------------------------
(* wait_for_idle and time. *)

\* Take mutex_ shared and start a scan, on entry or after the 1 ms sleep.  (before is
\* history: how much each queue had accepted by then.)
wait_for_idle ==
    /\ idler.pc # "scan"
    /\ idler.pc = "busy" \/ idler.calls < MaxIdle
    /\ \E order \in SetToSeqs(Topics) :
         idler' = [pc |-> "scan",
                   todo |-> FlattenSeq([i \in DOMAIN order |-> topics[order[i]].subs]),
                   calls |-> IF idler.pc = "busy" THEN idler.calls ELSE idler.calls + 1,
                   before |-> [s \in Subscribers |-> Len(accepted[s])]]
    /\ UNCHANGED <<busVars, pub, sub, owner, stop, now, historyVars>>

\* Variants: one empty queue ends the scan; a worker that waits counts as an empty queue.
ScanStopsEarly ==
    /\ idler.pc = "scan"
    /\ idler' = IF idler.todo = <<>> \/ sub[Head(idler.todo)].queue.items = <<>>
                THEN [idler EXCEPT !.pc = "true", !.todo = <<>>]
                ELSE [idler EXCEPT !.pc = "busy", !.todo = <<>>]
    /\ UNCHANGED <<busVars, pub, sub, owner, stop, now, historyVars>>

ScanTrustsWorker ==
    /\ idler.pc = "scan"
    /\ idler' = IF idler.todo = <<>> THEN [idler EXCEPT !.pc = "true"]
                ELSE IF sub[Head(idler.todo)].worker = "pop"
                THEN [idler EXCEPT !.todo = Tail(@)]
                ELSE [idler EXCEPT !.pc = "busy", !.todo = <<>>]
    /\ UNCHANGED <<busVars, pub, sub, owner, stop, now, historyVars>>

\* Look at one queue; the lock is released when the scan is over.
idle_scan ==
    /\ idler.pc = "scan"
    /\ idler' = IF idler.todo = <<>> THEN [idler EXCEPT !.pc = "true"]
                ELSE IF sub[Head(idler.todo)].queue.items = <<>>
                THEN [idler EXCEPT !.todo = Tail(@)]
                ELSE [idler EXCEPT !.pc = "busy", !.todo = <<>>]
    /\ UNCHANGED <<busVars, pub, sub, owner, stop, now, historyVars>>

idle_timeout ==
    /\ idler.pc = "busy"
    /\ idler' = [idler EXCEPT !.pc = "false"]
    /\ UNCHANGED <<busVars, pub, sub, owner, stop, now, historyVars>>

Tick ==
    /\ now < MaxTime /\ now' = now + 1
    /\ UNCHANGED <<busVars, pub, sub, owner, stop, idler, historyVars>>

Publishing(p) ==
    \/ publish_erased(p) \/ publish_wrong_type(p) \/ report_mismatches(p)
    \/ push_target(p) \/ push_fails(p)
Subscribing(s)   == replay_backlog(s) \/ start_worker(s)
Delivering(s)    == deliver_pop(s) \/ deliver_judge(s) \/ deliver_exit(s)
Unsubscribing(s) == unsubscribe_close(s) \/ unsubscribe_join(s)
ShuttingDown     == shutdown_close \/ shutdown_join

Next ==
    \/ \E p \in Publishers, t \in Topics, type \in Types, qos \in Offered :
         advertise(p, t, type, qos)
    \/ \E p \in Publishers : publish(p) \/ Publishing(p)
    \/ \E s \in Subscribers, t \in Topics, type \in Types, qos \in Requested :
         subscribe(s, t, type, qos)
    \/ \E s \in Subscribers :
         \/ Subscribing(s) \/ Delivering(s) \/ callback_returns(s)
         \/ unsubscribe(s) \/ Unsubscribing(s)
    \/ \E h \in Handlers : set_qos_mismatch_handler(h)
    \/ shutdown \/ ShuttingDown
    \/ wait_for_idle \/ idle_scan \/ idle_timeout
    \/ Tick

Spec == Init /\ [][Next]_vars

\* Every thread inside a call of the library is scheduled, and the time limit of
\* wait_for_idle() is reached; nobody has to make a call, and a callback may stay
\* in user code for ever.
ThreadFairness ==
    /\ \A p \in Publishers : WF_vars(Publishing(p))
    /\ \A s \in Subscribers :
         WF_vars(Subscribing(s)) /\ WF_vars(Delivering(s)) /\ WF_vars(Unsubscribing(s))
    /\ WF_vars(ShuttingDown)
    /\ WF_vars(idle_scan) /\ SF_vars(idle_timeout)

FairSpec == Spec /\ ThreadFairness
=============================================================================
