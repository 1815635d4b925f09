------------------------ MODULE TopicBusProperties ------------------------
(***************************************************************************)
(* What TopicBus must guarantee, and, at the end, what comments of the     *)
(* repository say of it that the code does not do.                         *)
(***************************************************************************)
EXTENDS TopicBus

Envelope ==
    [from: Publishers \cup {NoType}, seq: 0..MaxPublish, publish_ns: 0..MaxTime]

\* The subscribers the topics list at the moment.
AllListed == UNION {ToSet(topics[t].subs) : t \in Topics}

\* Every member has its type, and no queue holds more than its capacity.
TypeOK ==
    /\ topics \in [Topics -> [type: Types \cup {NoType}, subs: Seq(Subscribers),
                              latched: Seq(Envelope), published: 0..MaxPublish]]
    /\ counts \in [qos: Nat, type: Nat] /\ handler \in BOOLEAN
    /\ pub \in [Publishers ->
         [pc: {"none", "idle", "lock", "report", "push"}, topic: Topics \cup {NoType},
          type: Types \cup {NoType}, qos: QoS, env: Envelope, targets: Seq(Subscribers),
          mismatches: Seq(Subscribers), handler: BOOLEAN, ok: BOOLEAN,
          aimed: SUBSET Subscribers]]
    /\ sub \in [Subscribers ->
         [topic: Topics \cup {NoType}, type: Types \cup {NoType}, qos: QoS,
          queue: Queue(Envelope), worker: {"none", "pop", "judge", "callback", "exited"},
          join: {"no", "claimed", "joined"}, delivered: Nat, expired: Nat,
          deadline_missed: Nat, qos_rejected: Nat, last_delivery_ns: 0..MaxTime,
          mismatch_reported: BOOLEAN, held: Envelope]]
    /\ \A s \in Subscribers : Len(sub[s].queue.items) <= sub[s].queue.capacity
    /\ owner \in [Subscribers ->
         [pc: {"idle", "refused", "replay", "subscribed", "close", "join", "done", "threw"},
          backlog: Seq(Envelope)]]
    /\ stop \in [pc: {"idle", "close", "join", "returned", "threw"}, all: Seq(Subscribers),
                 calls: 0..MaxStop, found: SUBSET Subscribers, ready: SUBSET Subscribers]
    /\ idler \in [pc: {"idle", "scan", "busy", "true", "false"}, todo: Seq(Subscribers),
                  calls: 0..MaxIdle, before: [Subscribers -> Nat]]
    /\ now \in 1..MaxTime /\ published \in 0..MaxPublish /\ heard \subseteq Subscribers
    /\ accepted \in [Subscribers -> Seq(Envelope)]
    /\ taken \in [Subscribers -> Seq([env: Envelope, at: 1..MaxTime,
                                      fate: {"expired", "callback"}])]
    /\ receipts \subseteq [topic: Topics, seq: 1..MaxPublish, aimed: SUBSET Subscribers]

\* A message reaches a subscriber neither twice nor not at all.  subscribe() copies
\* the latch and joins the list under one lock, so no message is both in its backlog
\* and aimed at it by a publisher; and a subscriber whose queue always takes a message has,
\* once subscribe() has returned, every latched message of the publishers it is
\* compatible with, but for those a publisher is still pushing to it.  The latch itself
\* gives up its oldest first: while it holds a message it holds every later one of a
\* TransientLocal publisher.
OnceAndNoGap ==
    /\ \A p \in Publishers : pub[p].pc # "none" /\ pub[p].qos.durability = "TransientLocal" =>
        \A e \in ToSet(topics[pub[p].topic].latched) :
            e.seq < pub[p].env.seq => pub[p].env \in ToSet(topics[pub[p].topic].latched)
    /\ \A s \in Subscribers :
        /\ \A i, j \in DOMAIN accepted[s] : accepted[s][i].seq = accepted[s][j].seq => i = j
        /\ /\ owner[s].pc = "subscribed" /\ s \in AllListed
           /\ sub[s].qos.durability = "TransientLocal"
           /\ sub[s].queue.capacity >= MaxPublish \/ sub[s].queue.policy = "DropOldest"
           => \A e \in ToSet(topics[sub[s].topic].latched) :
                 \/ check_compatible(pub[e.from].qos, sub[s].qos) # "None"
                 \/ e \in ToSet(accepted[s])
                 \/ pub[e.from].env = e /\ s \in ToSet(pub[e.from].targets)

\* Without a backlog, what one publisher sent is taken in the order it was sent,
\* although the pushes happen outside the lock and the queue may drop messages.
PublisherOrder ==
    \A s \in Subscribers : sub[s].qos.durability = "Volatile" =>
        \A i, j \in DOMAIN taken[s] :
            i < j /\ taken[s][i].env.from = taken[s][j].env.from =>
                taken[s][i].env.seq < taken[s][j].env.seq

\* The message of the receipt r, of a publish() that returned true, is queued or was taken by the
\* worker, at every Reliable subscriber it was aimed at.
Honoured(r) ==
    \A s \in r.aimed :
        sub[s].qos.reliability = "Reliable" =>
            \/ \E i \in DOMAIN taken[s] : taken[s][i].env.seq = r.seq
            \/ \E i \in DOMAIN sub[s].queue.items : sub[s].queue.items[i].seq = r.seq
            \/ sub[s].held.seq = r.seq

\* A publisher is done with a target when the message has entered its queue, or could not.
ServesEach ==
    \A p \in Publishers :
        \A s \in ToSet(pub[p].targets) \ ToSet(pub'[p].targets) :
            accepted'[s] = Append(accepted[s], pub[p].env) \/ CannotStore(s)

\* publish() that returned true keeps its word, through unsubscribe() and shutdown()
\* too; and whatever it returns, a queue that refuses the message costs no other
\* subscriber its own: no target is passed over.
PromiseKept == [](\A r \in receipts : Honoured(r)) /\ [][ServesEach]_vars

\* What enters a queue while the subscriber's own thread does not move was pushed by a
\* publisher; what its thread puts there is backlog.
OfferedEnough ==
    \A s \in Subscribers :
        accepted'[s] # accepted[s] =>
            LET offer == pub[Last(accepted'[s]).from].qos IN
            IF owner'[s] = owner[s] THEN OffersAtLeast(offer, sub[s].qos)
            ELSE offer.durability = "TransientLocal"

\* A subscriber is refused something only on a topic where somebody offers less, and
\* no refusal goes uncounted: the bus counts what its subscribers count, and the
\* handler is only ever told of subscribers that were refused something.
RefusalsTrue ==
    /\ \A s \in Subscribers :
         /\ sub[s].qos_rejected > 0 =>
              \E p \in Publishers :
                  /\ pub[p].pc # "none" /\ pub[p].topic = sub[s].topic
                  /\ ~OffersAtLeast(pub[p].qos, sub[s].qos)
         /\ sub[s].mismatch_reported <=> sub[s].qos_rejected > 0
    /\ counts.qos = MapThenSumSet(LAMBDA s : sub[s].qos_rejected, Subscribers)
    /\ \A s \in heard : sub[s].mismatch_reported

\* What a publisher pushes to a subscriber, Volatile or not, is no weaker, policy by
\* policy, than what the subscriber asked for; as backlog it may get what a publisher
\* it would refuse has latched, but nothing that was offered as Volatile.  And what it
\* is refused is refused with reason, and counted.
OffersRespected == [][OfferedEnough]_vars /\ []RefusalsTrue

\* When unsubscribe() has returned, or shutdown() for a subscriber it found fully
\* subscribed, the worker is gone and it left nothing behind: no callback runs.
StoppedMeansQuiet ==
    \A s \in Subscribers :
        owner[s].pc = "done" \/ (stop.pc = "returned" /\ s \in stop.ready) =>
            sub[s].worker = "exited" /\ sub[s].queue.items = <<>>

\* The statistics are what happened: a message is skipped exactly when it is older than
\* the lifespan, not when it is just as old; every message that entered a subscriber's queue
\* is delivered, in the worker's hands, expired, dropped by overflow or still queued;
\* and deadline_missed counts the pairs of successive deliveries further apart than
\* the deadline, where a message that expired in between is no delivery.
StatsTrue ==
    \A s \in Subscribers :
        LET calls == {i \in DOMAIN taken[s] : taken[s][i].fate = "callback"}
            gaps  == {i \in calls : \E j \in calls :
                        /\ j < i /\ \A k \in calls : k < i => k <= j
                        /\ taken[s][i].at - taken[s][j].at > sub[s].qos.deadline}
        IN
        /\ \A i \in DOMAIN taken[s] :
             LET age == taken[s][i].at - taken[s][i].env.publish_ns IN
             taken[s][i].fate = "expired" <=>
                 sub[s].qos.lifespan > 0 /\ age > sub[s].qos.lifespan
        /\ Len(accepted[s]) =
               sub[s].delivered + (IF sub[s].worker \in {"judge", "callback"} THEN 1 ELSE 0)
             + sub[s].expired + sub[s].queue.dropped + Len(sub[s].queue.items)
        /\ sub[s].deadline_missed =
               IF sub[s].qos.deadline = 0 THEN 0 ELSE Cardinality(gaps)

\* wait_for_idle() looks at one queue after the other while publishers go on pushing
\* to those it has passed.  When it answers true, all that a listed queue had accepted
\* before the scan began has left it; so with no push under way every queue is empty.
IdleIsIdle ==
    [][idler.pc = "scan" /\ idler'.pc = "true" =>
          \A s \in AllListed :
              Len(accepted[s]) - Len(sub[s].queue.items) >= idler.before[s]]_vars

\* publish() returns even when callbacks never do: the push to a full Reliable
\* queue gives up after reliable_timeout_.
PublishReturns ==
    \A p \in Publishers :
        pub[p].pc \in {"lock", "report", "push"} ~> pub[p].pc = "idle"

\* No callback keeps its worker for ever.
CallbacksReturn == \A s \in Subscribers : []<>(sub[s].worker # "callback")

\* unsubscribe() and shutdown() return, provided that callbacks do.
StopReturns ==
    CallbacksReturn =>
        /\ \A s \in Subscribers : owner[s].pc = "close" ~> owner[s].pc \in {"done", "threw"}
        /\ stop.pc = "close" ~> stop.pc \in {"returned", "threw"}

\* A queued message does not stay queued, closed queue or not, provided that
\* callbacks return.
DrainsEventually ==
    CallbacksReturn =>
        \A s \in Subscribers, n \in 1..MaxPublish :
            (\E i \in DOMAIN sub[s].queue.items : sub[s].queue.items[i].seq = n)
              ~> ~(\E i \in DOMAIN sub[s].queue.items : sub[s].queue.items[i].seq = n)

-----------------------------------------------------------------------------
(* What comments of the repository say, and the code does not do. *)

\* topic_bus.h: "a late joiner gets the history first, then its thread starts,
\* so the order is not disturbed".
LateJoinerInOrder ==
    \A s \in Subscribers : \A i, j \in DOMAIN taken[s] :
        i < j => taken[s][i].env.seq < taken[s][j].env.seq

\* topic_bus.h: shutdown() "closes all subscribers": none of those it found on
\* the lists delivers anything after it has returned.
ShutdownStopsAll ==
    stop.pc = "returned" =>
        \A s \in stop.found : sub[s].worker # "callback"
=============================================================================
