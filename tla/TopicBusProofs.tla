-------------------------- MODULE TopicBusProofs --------------------------
(***************************************************************************)
(* Theorems about TopicBus, for any topics, publishers and subscribers and *)
(* any QoS they use.                                                       *)
(***************************************************************************)
EXTENDS TopicBusProperties, DataLemmas

-----------------------------------------------------------------------------
(* check_compatible, for any two QoS values. *)

\* "Offers at least as much" is transitive.
LEMMA StrongerTransitive ==
    ASSUME NEW a \in QoS, NEW b \in QoS, NEW c \in QoS,
           OffersAtLeast(a, b), OffersAtLeast(b, c)
    PROVE  OffersAtLeast(a, c)
BY DEF QoS, Reliability, Durability, OffersAtLeast, Strength, TighterOrEqual

\* check_compatible is the RxO rule of the head of qos.h: it finds nothing wrong
\* exactly when what is offered is no weaker, policy by policy, than what is
\* requested.
THEOREM RxOCorrect ==
    ASSUME NEW o \in QoS, NEW r \in QoS
    PROVE  check_compatible(o, r) = "None" <=> OffersAtLeast(o, r)
BY DEF QoS, Reliability, Durability, check_compatible, OffersAtLeast, Strength,
       TighterOrEqual

\* The reason it reports to the mismatch handler is a policy that really falls
\* short.
THEOREM ReasonTrue ==
    ASSUME NEW o \in QoS, NEW r \in QoS
    PROVE  LET m == check_compatible(o, r) IN
           /\ m \in QosMismatch
           /\ m = "Reliability" => Strength(o.reliability) < Strength(r.reliability)
           /\ m = "Durability" => Strength(o.durability) < Strength(r.durability)
           /\ m = "Deadline" => ~TighterOrEqual(o.deadline, r.deadline)
<1>1. check_compatible(o, r) \in QosMismatch
  BY DEF check_compatible, QosMismatch
<1>2. check_compatible(o, r) = "Reliability" =>
          Strength(o.reliability) < Strength(r.reliability)
  BY DEF QoS, Reliability, check_compatible, Strength
<1>3. check_compatible(o, r) = "Durability" =>
          Strength(o.durability) < Strength(r.durability)
  BY DEF QoS, Durability, check_compatible, Strength
<1>4. check_compatible(o, r) = "Deadline" => ~TighterOrEqual(o.deadline, r.deadline)
  BY DEF QoS, check_compatible, TighterOrEqual
<1>5. QED
  BY <1>1, <1>2, <1>3, <1>4

\* A match survives when the publisher offers more and the subscriber asks for
\* less: check_compatible never turns against a stronger offer.
THEOREM MatchesSurvive ==
    ASSUME NEW o \in QoS, NEW r \in QoS, NEW o2 \in QoS, NEW r2 \in QoS,
           check_compatible(o, r) = "None", OffersAtLeast(o2, o), OffersAtLeast(r, r2)
    PROVE  check_compatible(o2, r2) = "None"
<1>1. OffersAtLeast(o, r)
  BY RxOCorrect
<1>2. OffersAtLeast(o2, r)
  BY <1>1, StrongerTransitive
<1>3. OffersAtLeast(o2, r2)
  BY <1>2, StrongerTransitive
<1>4. QED
  BY <1>3, RxOCorrect

-----------------------------------------------------------------------------
(* The operators of the model. *)

\* The loop of publish_erased over the subscribers of a topic keeps those in S, each
\* as often as the list has it.
LEMMA OnlyElements ==
    ASSUME NEW A, NEW list \in Seq(A), NEW S
    PROVE  /\ Only(list, S) \in Seq(A)
           /\ ToSet(Only(list, S)) = ToSet(list) \cap S
           /\ Distinct(list) => Distinct(Only(list, S))
<1> DEFINE n == Len(list)
<1>1. n \in Nat /\ \A i \in 1..n : list[i] \in A
  OBVIOUS
<1> DEFINE Next1(x, i) == IF list[i] \in S THEN Append(x, list[i]) ELSE x
           step == [i \in 1..n |-> [x \in Seq(A) |-> Next1(x, i)]]
           base == <<>>
<1>2. base \in Seq(A) /\ \A i \in 1..n : \A x \in Seq(A) : Next1(x, i) \in Seq(A)
  BY <1>1
<1>3. step \in [1..n -> [Seq(A) -> Seq(A)]]
  BY <1>2
<1>4. \A i \in 1..n : \A x \in Seq(A) : step[i][x] = Next1(x, i)
  OBVIOUS
<1>5. ToSet(base) = {}
  BY ToSetEmpty
<1>6. Distinct(base)
  BY DEF Distinct
<1> HIDE DEF step, base, n
<1>7. PICK f \in [0..n -> Seq(A)] : f[0] = base /\ \A i \in 1..n : f[i] = step[i][f[i - 1]]
  <2> DEFINE Q == Seq(A)
  <2>1. base \in Q /\ step \in [1..n -> [Q -> Q]]
    BY <1>2, <1>3
  <2> HIDE DEF Q
  <2>2. \E f \in [0..n -> Q] : Loop(f, n, base, step)
    BY <1>1, <2>1, LoopDefined
  <2>3. QED
    BY <2>2 DEF Q, Loop
<1>8. \A i \in 1..n : i - 1 \in 0..n
  BY <1>1
<1> HIDE DEF Next1
<1>9. \A i \in 1..n : f[i] = Next1(f[i - 1], i)
  BY <1>4, <1>7, <1>8
<1> DEFINE Rec(h) == h = [i \in 0..n |-> IF i = 0 THEN <<>>
                                         ELSE IF list[i] \in S THEN Append(h[i - 1], list[i])
                                         ELSE h[i - 1]]
           h == CHOOSE k : Rec(k)
<1>10. Rec(f)
  <2>1. \A i \in 0..n : i # 0 => i \in 1..n
    BY <1>1
  <2>2. \A i \in 0..n : f[i] = IF i = 0 THEN <<>>
                               ELSE IF list[i] \in S THEN Append(f[i - 1], list[i])
                               ELSE f[i - 1]
    BY <1>7, <1>9, <2>1 DEF Next1, base
  <2>3. f = [i \in 0..n |-> f[i]]
    BY <1>7
  <2>4. QED
    BY <2>2, <2>3
<1>11. Rec(h)
  BY <1>10
<1>12. Only(list, S) = h[n]
  BY DEF Only, n
<1> HIDE DEF h
<1>13. /\ h[0] = base
       /\ \A i \in 1..n : h[i] = Next1(h[i - 1], i)
  <2>1. 0 \in 0..n /\ \A i \in 1..n : i \in 0..n /\ i # 0
    BY <1>1
  <2>2. QED
    BY <1>11, <2>1 DEF Next1, base
<1> HIDE DEF Rec
<1> DEFINE Upto(i) == {list[j] : j \in 1..i}
           T == {i \in 0..n : /\ h[i] \in Seq(A)
                              /\ ToSet(h[i]) = Upto(i) \cap S
                              /\ Distinct(list) => Distinct(h[i])}
<1>14. \A i \in 0..n : i \in T
  <2>1. 0 \in T
    BY <1>1, <1>2, <1>5, <1>6, <1>13
  <2>2. ASSUME NEW i \in 0..(n - 1), i \in T
        PROVE  i + 1 \in T
    <3>1. i + 1 \in 1..n /\ i \in Nat /\ i + 1 \in 0..n /\ (i + 1) - 1 = i
      BY <1>1
    <3>2. h[i] \in Seq(A) /\ ToSet(h[i]) = Upto(i) \cap S /\ (Distinct(list) => Distinct(h[i]))
      BY <2>2
    <3>3. h[i + 1] = Next1(h[i], i + 1)
      BY <1>13, <3>1
    <3>4. list[i + 1] \in A
      BY <1>1, <3>1
    <3>5. Upto(i + 1) = Upto(i) \cup {list[i + 1]}
      <4>1. 1..(i + 1) = (1..i) \cup {i + 1}
        BY <3>1
      <4>2. QED
        BY <4>1
    <3>6. Distinct(list) => list[i + 1] \notin Upto(i)
      <4>1. DOMAIN list = 1..n
        BY DEF n
      <4>2. \A j \in 1..i : j \in 1..n /\ j # i + 1
        BY <1>1, <3>1
      <4>3. QED
        BY <3>1, <4>1, <4>2 DEF Distinct
    <3> HIDE DEF Upto
    <3>7. CASE list[i + 1] \in S
      <4>1. h[i + 1] = Append(h[i], list[i + 1])
        BY <3>3, <3>7 DEF Next1
      <4>2. h[i + 1] \in Seq(A)
        BY <3>2, <3>4, <4>1
      <4>3. ToSet(h[i + 1]) = ToSet(h[i]) \cup {list[i + 1]}
        BY <3>2, <3>4, <4>1, ToSetAppend
      <4>4. ToSet(h[i + 1]) = Upto(i + 1) \cap S
        BY <3>2, <3>5, <3>7, <4>3
      <4>5. Distinct(list) => Distinct(h[i + 1])
        <5>1. Distinct(list) => list[i + 1] \notin ToSet(h[i])
          BY <3>2, <3>6
        <5>2. QED
          BY <3>2, <3>4, <4>1, <5>1, DistinctAppend
      <4>6. QED
        BY <3>1, <4>2, <4>4, <4>5
    <3>8. CASE list[i + 1] \notin S
      <4>1. h[i + 1] = h[i]
        BY <3>3, <3>8 DEF Next1
      <4>2. ToSet(h[i]) = Upto(i + 1) \cap S
        BY <3>2, <3>5, <3>8
      <4>3. QED
        BY <3>1, <3>2, <4>1, <4>2
    <3>9. QED
      BY <3>7, <3>8
  <2> HIDE DEF T
  <2>3. QED
    BY <1>1, <2>1, <2>2, InductionUpTo
<1>15. n \in 0..n
  BY <1>1
<1>16. h[n] \in Seq(A) /\ ToSet(h[n]) = Upto(n) \cap S /\ (Distinct(list) => Distinct(h[n]))
  BY <1>14, <1>15
<1>17. Upto(n) = ToSet(list)
  BY DEF ToSet, n
<1>18. QED
  BY <1>12, <1>16, <1>17

\* l is what is left of a when it is cut at the front.
EndOf(l, a) == \E k \in Nat : k <= Len(a) /\ l = SubSeq(a, k + 1, Len(a))

\* The latch holds envelopes it held before, in their order, and perhaps the new one: it
\* does not change for a Volatile publisher, and ends with the new one, if it is not empty,
\* for any other.
LEMMA LatchProperties ==
    ASSUME NEW S, NEW entry, entry.latched \in Seq(S), NEW env \in S, NEW qos \in QoS
    PROVE  LET l == Latch(entry, env, qos)
               a == Append(entry.latched, env)
           IN  /\ l \in Seq(S)
               /\ ToSet(l) \subseteq ToSet(entry.latched) \cup {env}
               /\ l = entry.latched \/ EndOf(l, a)
               /\ qos.durability = "Volatile" => l = entry.latched
               /\ qos.durability # "Volatile" => EndOf(l, a) /\ (l = <<>> \/ env \in ToSet(l))
<1> DEFINE e == entry.latched
           a == Append(e, env)
           n == Len(a) - qos.depth
           l == Latch(entry, env, qos)
<1>1. e \in Seq(S) /\ qos.depth \in Nat
  BY DEF QoS
<1>2. l = IF qos.durability = "Volatile" THEN e
          ELSE IF n > 0 THEN SubSeq(a, n + 1, Len(a)) ELSE a
  BY DEF Latch
<1> HIDE DEF e, l
<1>3. /\ a \in Seq(S) /\ Len(a) \in Nat /\ Len(a) = Len(e) + 1
      /\ ToSet(a) = ToSet(e) \cup {env}
  BY <1>1, ToSetAppend
<1> HIDE DEF a
<1>4. n \in Int /\ n <= Len(a)
  BY <1>1, <1>3
<1> DEFINE k == IF n > 0 THEN n ELSE 0
<1>5. l = e \/ l = SubSeq(a, k + 1, Len(a))
  <2>1. SubSeq(a, 0 + 1, Len(a)) = a
    BY <1>3
  <2>2. QED
    BY <1>2, <2>1
<1>6. k \in Nat /\ k <= Len(a)
  BY <1>3, <1>4
<1> HIDE DEF k, n
<1>7. l = SubSeq(a, k + 1, Len(a)) => l \in Seq(S) /\ ToSet(l) \subseteq ToSet(a)
  <2> DEFINE b == SubSeq(a, k + 1, Len(a))
  <2>1. b \in Seq(S) /\ Len(b) = Len(a) - k
    BY <1>3, <1>6
  <2>2. \A i \in 1..Len(b) : b[i] = a[k + i] /\ k + i \in 1..Len(a)
    BY <1>3, <1>6, <2>1
  <2> HIDE DEF b
  <2>3. ToSet(b) \subseteq ToSet(a)
    BY <1>3, <2>1, <2>2, InToSet
  <2>4. QED
    BY <2>1, <2>3 DEF b
<1>8. l = e \/ EndOf(l, a)
  BY <1>5, <1>6 DEF EndOf
<1>9. qos.durability # "Volatile" => l = SubSeq(a, k + 1, Len(a))
  <2>1. SubSeq(a, 0 + 1, Len(a)) = a
    BY <1>3
  <2>2. QED
    BY <1>2, <2>1 DEF k
<1>10. a[Len(a)] = env
  BY <1>1, <1>3 DEF a
<1>11. l = SubSeq(a, k + 1, Len(a)) => l = <<>> \/ env \in ToSet(l)
  <2> DEFINE b == SubSeq(a, k + 1, Len(a))
  <2>1. b \in Seq(S) /\ Len(b) = Len(a) - k
    BY <1>3, <1>6
  <2>2. k < Len(a) => b[Len(a) - k] = a[Len(a)] /\ Len(a) - k \in 1..Len(b)
    BY <1>3, <1>6, <2>1
  <2>3. k = Len(a) => b = <<>>
    BY <2>1, <1>3
  <2> HIDE DEF b
  <2>4. k < Len(a) => env \in ToSet(b)
    BY <1>10, <2>1, <2>2, InToSet
  <2>5. QED
    BY <1>3, <1>6, <2>3, <2>4 DEF b
<1>12. qos.durability = "Volatile" => l = e
  BY <1>2
<1>13. qos.durability # "Volatile" => EndOf(l, a) /\ (l = <<>> \/ env \in ToSet(l))
  BY <1>6, <1>9, <1>11 DEF EndOf
<1>14. QED
  BY <1>1, <1>3, <1>5, <1>7, <1>8, <1>12, <1>13 DEF e, a, l

\* What Store makes of the queue.
Stored(qu, env) == IF IsFull(qu) THEN EvictEnqueue(qu, env) ELSE Enqueue(qu, env)

\* A push that succeeds: the envelope is the last one, and only a full queue that
\* drops its oldest loses one.
LEMMA StoredProperties ==
    ASSUME NEW S, NEW qu \in Queue(S), NEW env \in S, Len(qu.items) <= qu.capacity
    PROVE  LET q == Stored(qu, env) IN
           /\ q \in Queue(S)
           /\ q.items = Append(IF IsFull(qu) THEN Tail(qu.items) ELSE qu.items, env)
           /\ IsFull(qu) => qu.items # <<>>
           /\ q.dropped + Len(q.items) = qu.dropped + Len(qu.items) + 1
           /\ q.capacity = qu.capacity
           /\ q.closed = qu.closed
           /\ q.policy = qu.policy
           /\ Len(q.items) <= q.capacity
<1>1. /\ qu.items \in Seq(S) /\ qu.dropped \in Nat /\ qu.capacity \in Nat
      /\ Len(qu.items) \in Nat
  BY DEF Queue
<1>2. CASE IsFull(qu)
  <2>1. qu.items # <<>>
    BY <1>2, FullIsNotEmpty
  <2>2. Stored(qu, env) = EvictEnqueue(qu, env)
    BY <1>2 DEF Stored
  <2> DEFINE q == EvictEnqueue(qu, env)
  <2>3. /\ q \in Queue(S)
        /\ q.items = Append(Tail(qu.items), env)
        /\ Len(q.items) = Len(qu.items)
        /\ q.dropped = qu.dropped + 1
        /\ q.capacity = qu.capacity
        /\ q.closed = qu.closed
        /\ q.policy = qu.policy
    BY <2>1, EvictEnqueueProperties
  <2> HIDE DEF q
  <2>4. q.dropped + Len(q.items) = qu.dropped + Len(qu.items) + 1
    <3> DEFINE n == Len(qu.items)
               d == qu.dropped
    <3>1. n \in Nat /\ d \in Nat /\ Len(q.items) = n /\ q.dropped = d + 1
      BY <1>1, <2>3
    <3> HIDE DEF n, d
    <3>2. q.dropped + Len(q.items) = d + n + 1
      BY <3>1
    <3>3. QED
      BY <3>2 DEF n, d
  <2>5. Len(q.items) <= q.capacity
    BY <2>3
  <2>6. QED
    BY <1>2, <2>1, <2>2, <2>3, <2>4, <2>5 DEF q
<1>3. CASE ~IsFull(qu)
  <2>2. Stored(qu, env) = Enqueue(qu, env)
    BY <1>3 DEF Stored
  <2> DEFINE q == Enqueue(qu, env)
  <2>3. /\ q \in Queue(S)
        /\ q.items = Append(qu.items, env)
        /\ Len(q.items) = Len(qu.items) + 1
        /\ q.dropped = qu.dropped
        /\ q.capacity = qu.capacity
        /\ q.closed = qu.closed
        /\ q.policy = qu.policy
    BY EnqueueProperties
  <2> HIDE DEF q
  <2>4. q.dropped + Len(q.items) = qu.dropped + Len(qu.items) + 1
    BY <1>1, <2>3
  <2>5. Len(q.items) <= q.capacity
    BY <1>1, <1>3, <2>3 DEF IsFull
  <2>6. QED
    BY <1>3, <2>2, <2>3, <2>4, <2>5 DEF q
<1>4. QED
  BY <1>2, <1>3

-----------------------------------------------------------------------------
(* The records of the state. *)

EntryRec == [type: Types \cup {NoType}, subs: Seq(Subscribers),
             latched: Seq(Envelope), published: 0..MaxPublish]
PubRec   == [pc: {"none", "idle", "lock", "report", "push"}, topic: Topics \cup {NoType},
             type: Types \cup {NoType}, qos: QoS, env: Envelope, targets: Seq(Subscribers),
             mismatches: Seq(Subscribers), handler: BOOLEAN, ok: BOOLEAN,
             aimed: SUBSET Subscribers]
SubRec   == [topic: Topics \cup {NoType}, type: Types \cup {NoType}, qos: QoS,
             queue: Queue(Envelope), worker: {"none", "pop", "judge", "callback", "exited"},
             join: {"no", "claimed", "joined"}, delivered: Nat, expired: Nat,
             deadline_missed: Nat, qos_rejected: Nat, last_delivery_ns: 0..MaxTime,
             mismatch_reported: BOOLEAN, held: Envelope]
OwnerRec == [pc: {"idle", "refused", "replay", "subscribed", "close", "join", "done", "threw"},
             backlog: Seq(Envelope)]
StopRec  == [pc: {"idle", "close", "join", "returned", "threw"}, all: Seq(Subscribers),
             calls: 0..MaxStop, found: SUBSET Subscribers, ready: SUBSET Subscribers]
IdlerRec == [pc: {"idle", "scan", "busy", "true", "false"}, todo: Seq(Subscribers),
             calls: 0..MaxIdle, before: [Subscribers -> Nat]]
TakenRec == [env: Envelope, at: 1..MaxTime, fate: {"expired", "callback"}]
ReceiptRec == [topic: Topics, seq: 1..MaxPublish, aimed: SUBSET Subscribers]

\* No queue holds more than its capacity.
NoOverflow == \A s \in Subscribers : Len(sub[s].queue.items) <= sub[s].queue.capacity

\* TypeOK, with a name for the type of each record.
LEMMA TypeParts ==
    TypeOK <=> /\ topics \in [Topics -> EntryRec]
               /\ counts \in [qos: Nat, type: Nat]
               /\ handler \in BOOLEAN
               /\ pub \in [Publishers -> PubRec]
               /\ sub \in [Subscribers -> SubRec]
               /\ NoOverflow
               /\ owner \in [Subscribers -> OwnerRec]
               /\ stop \in StopRec
               /\ idler \in IdlerRec
               /\ now \in 1..MaxTime
               /\ published \in 0..MaxPublish
               /\ heard \subseteq Subscribers
               /\ accepted \in [Subscribers -> Seq(Envelope)]
               /\ taken \in [Subscribers -> Seq(TakenRec)]
               /\ receipts \subseteq ReceiptRec
BY Zenon DEF TypeOK, EntryRec, PubRec, SubRec, NoOverflow, OwnerRec, StopRec, IdlerRec, TakenRec,
       ReceiptRec

\* The parts of a subscription record that most operations leave alone.
SameSetup(n, r)  == n.topic = r.topic /\ n.type = r.type /\ n.qos = r.qos
SameCounts(n, r) == /\ n.delivered = r.delivered
                    /\ n.expired = r.expired
                    /\ n.deadline_missed = r.deadline_missed
                    /\ n.last_delivery_ns = r.last_delivery_ns
SameNotice(n, r) == /\ n.qos_rejected = r.qos_rejected
                    /\ n.mismatch_reported = r.mismatch_reported
SameWorker(n, r) == n.worker = r.worker /\ n.held = r.held
SameQueue(n, r)  == n.queue = r.queue

\* An incompatible publish: only the notice changes.
LEMMA RefuseFields ==
    ASSUME NEW r \in SubRec
    PROVE  LET n == Refuse(r) IN
           /\ n \in SubRec
           /\ SameSetup(n, r) /\ SameCounts(n, r) /\ SameWorker(n, r) /\ SameQueue(n, r)
           /\ n.join = r.join
           /\ n.qos_rejected = r.qos_rejected + 1
           /\ n.mismatch_reported = TRUE
<1>1. Refuse(r) \in SubRec
  <2>1. \A k \in Nat, b \in BOOLEAN :
            [r EXCEPT !.qos_rejected = k, !.mismatch_reported = b] \in SubRec
    BY DEF SubRec
  <2>2. r.qos_rejected + 1 \in Nat /\ TRUE \in BOOLEAN
    BY DEF SubRec
  <2>3. QED
    BY <2>1, <2>2, Zenon DEF Refuse
<1>2. Refuse(r).mismatch_reported = TRUE
  BY Zenon DEF Refuse, SubRec
<1>3. QED
  BY <1>1, <1>2 DEF Refuse, SubRec, SameSetup, SameCounts, SameWorker, SameQueue

\* A record before subscribe().
LEMMA Subscription0Type == Subscription0 \in SubRec /\ Env0 \in Envelope /\ Qos0 \in QoS
<1> DEFINE q == NewQueue(1, "Block")
           e == Env0
           o == Qos0
           b == FALSE
           t == NoType
<1>1. q \in Queue(Envelope)
  <2>1. 1 \in Nat /\ "Block" \in OverflowPolicy
    BY DEF OverflowPolicy
  <2>2. QED
    BY <2>1, NewQueueProperties
<1>2. e \in Envelope
  BY BoundsAssumption DEF Envelope, Env0
<1>3. o \in QoS
  BY DEF Qos0, command, sensor_data, QoS, Reliability, Durability
<1>4. 0 \in 0..MaxTime /\ b \in BOOLEAN /\ t \in Types \cup {NoType} /\ t \in Topics \cup {NoType}
  BY BoundsAssumption
<1>5. Subscription0 =
      [topic |-> t, type |-> t, qos |-> o, queue |-> q,
       worker |-> "none", join |-> "no", delivered |-> 0, expired |-> 0,
       deadline_missed |-> 0, qos_rejected |-> 0, last_delivery_ns |-> 0,
       mismatch_reported |-> b, held |-> e]
  BY Zenon DEF Subscription0
<1> HIDE DEF q, e, o, b, t
<1>6. QED
  BY <1>1, <1>2, <1>3, <1>4, <1>5 DEF SubRec, e, o

\* Another queue, all else as it was.
LEMMA SetQueueFields ==
    ASSUME NEW r \in SubRec, NEW q \in Queue(Envelope)
    PROVE  LET n == [r EXCEPT !.queue = q] IN
           /\ n \in SubRec
           /\ SameSetup(n, r) /\ SameCounts(n, r) /\ SameNotice(n, r) /\ SameWorker(n, r)
           /\ n.join = r.join
           /\ n.queue = q
BY DEF SubRec, SameSetup, SameCounts, SameNotice, SameWorker

\* The constructor of detail::Subscription.
LEMMA NewSubscriptionFields ==
    ASSUME NEW t \in Topics, NEW type \in Types, NEW qos \in QoS
    PROVE  LET n == NewSubscription(t, type, qos) IN
           /\ n \in SubRec
           /\ n.topic = t /\ n.type = type /\ n.qos = qos
           /\ SameCounts(n, Subscription0) /\ SameNotice(n, Subscription0)
           /\ SameWorker(n, Subscription0)
           /\ n.join = "no"
           /\ n.queue \in Queue(Envelope)
           /\ n.queue.items = <<>>
           /\ ~n.queue.closed
           /\ n.queue.dropped = 0
           /\ n.queue.capacity = IF qos.depth = 0 THEN 1 ELSE qos.depth
           /\ n.queue.policy = IF qos.reliability = "Reliable" THEN "Block" ELSE "DropOldest"
<1> DEFINE policy == IF qos.reliability = "Reliable" THEN "Block" ELSE "DropOldest"
           q == NewQueue(qos.depth, policy)
<1>1. qos.depth \in Nat /\ policy \in OverflowPolicy
  BY DEF QoS, OverflowPolicy
<1> HIDE DEF policy
<1>2. /\ q \in Queue(Envelope)
      /\ q.items = <<>>
      /\ ~q.closed
      /\ q.dropped = 0
      /\ q.capacity = IF qos.depth = 0 THEN 1 ELSE qos.depth
      /\ q.policy = policy
  BY <1>1, NewQueueProperties, ZenonT(60)
<1> HIDE DEF q
<1>3. Subscription0 \in SubRec
  BY Subscription0Type
<1>4. NewSubscription(t, type, qos) =
        [Subscription0 EXCEPT !.topic = t, !.type = type, !.qos = qos, !.queue = q]
  BY DEF NewSubscription, q, policy
<1>5. Subscription0.join = "no"
  BY DEF Subscription0
<1> DEFINE n == NewSubscription(t, type, qos)
<1>6. /\ n \in SubRec /\ n.queue = q
      /\ n.topic = t /\ n.type = type /\ n.qos = qos
      /\ SameCounts(n, Subscription0) /\ SameNotice(n, Subscription0)
      /\ SameWorker(n, Subscription0)
      /\ n.join = "no"
  BY <1>2, <1>3, <1>4, <1>5, ZenonT(60) DEF SubRec, SameCounts, SameNotice, SameWorker
<1> HIDE DEF n
<1>7. /\ n.queue \in Queue(Envelope)
      /\ n.queue.items = <<>>
      /\ ~n.queue.closed
      /\ n.queue.dropped = 0
      /\ n.queue.capacity = IF qos.depth = 0 THEN 1 ELSE qos.depth
      /\ n.queue.policy = IF qos.reliability = "Reliable" THEN "Block" ELSE "DropOldest"
  BY <1>2, <1>6 DEF policy
<1>8. QED
  BY <1>6, <1>7 DEF n

\* std::thread starts or leaves deliver_loop.
LEMMA SetWorkerFields ==
    ASSUME NEW r \in SubRec, NEW w \in {"none", "pop", "judge", "callback", "exited"}
    PROVE  LET n == [r EXCEPT !.worker = w] IN
           /\ n \in SubRec
           /\ SameSetup(n, r) /\ SameCounts(n, r) /\ SameNotice(n, r) /\ SameQueue(n, r)
           /\ n.join = r.join
           /\ n.worker = w /\ n.held = r.held
BY DEF SubRec, SameSetup, SameCounts, SameNotice, SameQueue

\* deliver_loop takes the front of the queue.
LEMMA PopFields ==
    ASSUME NEW r \in SubRec, r.queue.items # <<>>
    PROVE  LET n == [r EXCEPT !.queue = Dequeue(@), !.worker = "judge",
                              !.held = Head(r.queue.items)]
           IN  /\ n \in SubRec
               /\ SameSetup(n, r) /\ SameCounts(n, r) /\ SameNotice(n, r)
               /\ n.join = r.join
               /\ n.queue = Dequeue(r.queue)
               /\ n.worker = "judge"
               /\ n.held = Head(r.queue.items)
<1> DEFINE q == Dequeue(r.queue)
           h == Head(r.queue.items)
<1>1. r.queue \in Queue(Envelope)
  BY DEF SubRec
<1>2. q \in Queue(Envelope) /\ h \in Envelope
  BY <1>1, DequeueProperties
<1> HIDE DEF q, h
<1>3. LET n == [r EXCEPT !.queue = q, !.worker = "judge", !.held = h]
      IN  /\ n \in SubRec
          /\ SameSetup(n, r) /\ SameCounts(n, r) /\ SameNotice(n, r)
          /\ n.join = r.join
          /\ n.queue = q /\ n.worker = "judge" /\ n.held = h
  BY <1>2 DEF SubRec, SameSetup, SameCounts, SameNotice
<1>4. QED
  BY <1>3 DEF q, h

\* deliver_loop skips an expired message.
LEMMA ExpireFields ==
    ASSUME NEW r \in SubRec
    PROVE  LET n == [[r EXCEPT !.held = Env0] EXCEPT !.worker = "pop", !.expired = @ + 1]
           IN  /\ n \in SubRec
               /\ SameSetup(n, r) /\ SameNotice(n, r) /\ SameQueue(n, r)
               /\ n.join = r.join
               /\ n.worker = "pop" /\ n.held = Env0
               /\ n.expired = r.expired + 1
               /\ n.delivered = r.delivered
               /\ n.deadline_missed = r.deadline_missed
               /\ n.last_delivery_ns = r.last_delivery_ns
<1> DEFINE e == Env0
           k == r.expired + 1
<1>1. e \in Envelope /\ k \in Nat
  BY BoundsAssumption DEF Envelope, Env0, SubRec
<1>2. [[r EXCEPT !.held = Env0] EXCEPT !.worker = "pop", !.expired = @ + 1]
      = [r EXCEPT !.held = e, !.worker = "pop", !.expired = k]
  BY DEF SubRec
<1> HIDE DEF e, k
<1>3. LET n == [r EXCEPT !.held = e, !.worker = "pop", !.expired = k]
      IN  /\ n \in SubRec
          /\ SameSetup(n, r) /\ SameNotice(n, r) /\ SameQueue(n, r)
          /\ n.join = r.join
          /\ n.worker = "pop" /\ n.held = e
          /\ n.expired = k
          /\ n.delivered = r.delivered
          /\ n.deadline_missed = r.deadline_missed
          /\ n.last_delivery_ns = r.last_delivery_ns
  BY <1>1 DEF SubRec, SameSetup, SameNotice, SameQueue
<1>4. QED
  BY <1>2, <1>3 DEF e, k

\* deliver_loop hands a message to the callback.
LEMMA DeliverFields ==
    ASSUME NEW r \in SubRec, NEW time \in 0..MaxTime, NEW late \in BOOLEAN
    PROVE  LET n == [[r EXCEPT !.held = Env0] EXCEPT
                        !.worker = "callback", !.last_delivery_ns = time,
                        !.deadline_missed = IF late THEN @ + 1 ELSE @]
           IN  /\ n \in SubRec
               /\ SameSetup(n, r) /\ SameNotice(n, r) /\ SameQueue(n, r)
               /\ n.join = r.join
               /\ n.worker = "callback" /\ n.held = Env0
               /\ n.expired = r.expired
               /\ n.delivered = r.delivered
               /\ n.deadline_missed = IF late THEN r.deadline_missed + 1 ELSE r.deadline_missed
               /\ n.last_delivery_ns = time
<1> DEFINE e == Env0
           d == IF late THEN r.deadline_missed + 1 ELSE r.deadline_missed
<1>1. e \in Envelope
  BY BoundsAssumption DEF Envelope, Env0
<1>2. d \in Nat
  BY DEF SubRec
<1>3. [[r EXCEPT !.held = Env0] EXCEPT
          !.worker = "callback", !.last_delivery_ns = time,
          !.deadline_missed = IF late THEN @ + 1 ELSE @]
      = [r EXCEPT !.held = e, !.worker = "callback", !.last_delivery_ns = time,
                  !.deadline_missed = d]
  BY DEF SubRec
<1> HIDE DEF e, d
<1>4. LET n == [r EXCEPT !.held = e, !.worker = "callback", !.last_delivery_ns = time,
                         !.deadline_missed = d]
      IN  /\ n \in SubRec
          /\ SameSetup(n, r) /\ SameNotice(n, r) /\ SameQueue(n, r)
          /\ n.join = r.join
          /\ n.worker = "callback" /\ n.held = e
          /\ n.expired = r.expired
          /\ n.delivered = r.delivered
          /\ n.deadline_missed = d
          /\ n.last_delivery_ns = time
  BY <1>1, <1>2 DEF SubRec, SameSetup, SameNotice, SameQueue
<1>5. QED
  BY <1>3, <1>4 DEF e, d

\* The callback is back.
LEMMA ReturnFields ==
    ASSUME NEW r \in SubRec
    PROVE  LET n == [r EXCEPT !.worker = "pop", !.delivered = @ + 1]
           IN  /\ n \in SubRec
               /\ SameSetup(n, r) /\ SameNotice(n, r) /\ SameQueue(n, r)
               /\ n.join = r.join
               /\ n.worker = "pop" /\ n.held = r.held
               /\ n.delivered = r.delivered + 1
               /\ n.expired = r.expired
               /\ n.deadline_missed = r.deadline_missed
               /\ n.last_delivery_ns = r.last_delivery_ns
<1> DEFINE k == r.delivered + 1
<1>1. k \in Nat
  BY DEF SubRec
<1>2. [r EXCEPT !.worker = "pop", !.delivered = @ + 1] = [r EXCEPT !.worker = "pop", !.delivered = k]
  BY DEF SubRec
<1> HIDE DEF k
<1>3. LET n == [r EXCEPT !.worker = "pop", !.delivered = k]
      IN  /\ n \in SubRec
          /\ SameSetup(n, r) /\ SameNotice(n, r) /\ SameQueue(n, r)
          /\ n.join = r.join
          /\ n.worker = "pop" /\ n.held = r.held
          /\ n.delivered = k
          /\ n.expired = r.expired
          /\ n.deadline_missed = r.deadline_missed
          /\ n.last_delivery_ns = r.last_delivery_ns
  BY <1>1 DEF SubRec, SameSetup, SameNotice, SameQueue
<1>4. QED
  BY <1>2, <1>3 DEF k

\* stop_subscription closes the queue and goes to join().
LEMMA CloseFields ==
    ASSUME NEW r \in SubRec, NEW j \in {"no", "claimed", "joined"}
    PROVE  LET n == [r EXCEPT !.queue = CloseQueue(@), !.join = j]
           IN  /\ n \in SubRec
               /\ SameSetup(n, r) /\ SameCounts(n, r) /\ SameNotice(n, r) /\ SameWorker(n, r)
               /\ n.queue = CloseQueue(r.queue)
               /\ n.join = j
<1> DEFINE q == CloseQueue(r.queue)
<1>1. r.queue \in Queue(Envelope)
  BY DEF SubRec
<1>2. q \in Queue(Envelope)
  BY <1>1, CloseQueueProperties
<1> HIDE DEF q
<1>3. LET n == [r EXCEPT !.queue = q, !.join = j]
      IN  /\ n \in SubRec
          /\ SameSetup(n, r) /\ SameCounts(n, r) /\ SameNotice(n, r) /\ SameWorker(n, r)
          /\ n.queue = q
          /\ n.join = j
  BY <1>2 DEF SubRec, SameSetup, SameCounts, SameNotice, SameWorker
<1>4. QED
  BY <1>3 DEF q

\* join() returns.
LEMMA JoinFields ==
    ASSUME NEW r \in SubRec
    PROVE  LET n == [r EXCEPT !.join = "joined"]
           IN  /\ n \in SubRec
               /\ SameSetup(n, r) /\ SameCounts(n, r) /\ SameNotice(n, r) /\ SameWorker(n, r)
               /\ SameQueue(n, r)
               /\ n.join = "joined"
BY DEF SubRec, SameSetup, SameCounts, SameNotice, SameWorker, SameQueue

-----------------------------------------------------------------------------
(* The inductive form of TypeOK. *)

\* publish() calls that have not been numbered yet.
Locked == {p \in Publishers : pub[p].pc = "lock"}

\* A number is given to a publish() call under way, so numbers stay below the calls.
Numbered ==
    /\ IsFiniteSet(Locked)
    /\ \A t \in Topics : topics[t].published + Cardinality(Locked) <= published

\* What a publish_erased call has in hand, by where it is.
PublisherShape ==
    \A p \in Publishers :
        /\ pub[p].pc # "none" => pub[p].topic \in Topics
        /\ pub[p].pc \in {"report", "push"} => pub[p].env.seq \in 1..MaxPublish
        /\ pub[p].pc = "push" => pub[p].targets # <<>>
        /\ pub[p].pc \notin {"report", "push"} => pub[p].targets = <<>>
        /\ pub[p].pc # "report" => pub[p].mismatches = <<>>

\* The same of a subscribe() call.
SubscriberShape ==
    \A s \in Subscribers :
        /\ owner[s].pc \notin {"idle", "refused"} => sub[s].topic \in Topics
        /\ owner[s].pc # "replay" => owner[s].backlog = <<>>

\* The same of shutdown().
StopShape ==
    /\ stop.pc \in {"close", "join"} => stop.all # <<>>
    /\ stop.pc \in {"idle", "returned"} => stop.all = <<>>

TypeInv == TypeOK /\ Numbered /\ PublisherShape /\ SubscriberShape /\ StopShape

-----------------------------------------------------------------------------
(* What a step does to one subscriber: its record, its owner and its history. *)

OwnerSame(s) == owner'[s] = owner[s]
LogSame(s)   == accepted'[s] = accepted[s] /\ taken'[s] = taken[s]
Quiet(s)     == sub'[s] = sub[s] /\ LogSame(s)

Refused(s) ==
    LET n == sub'[s]
        r == sub[s]
    IN  /\ SameSetup(n, r) /\ SameCounts(n, r) /\ SameWorker(n, r) /\ SameQueue(n, r)
        /\ n.join = r.join
        /\ n.qos_rejected = r.qos_rejected + 1
        /\ n.mismatch_reported = TRUE
        /\ LogSame(s)

Receives(s, env) ==
    LET n == sub'[s]
        r == sub[s]
    IN  /\ ~CannotStore(s)
        /\ SameSetup(n, r) /\ SameCounts(n, r) /\ SameNotice(n, r) /\ SameWorker(n, r)
        /\ n.join = r.join
        /\ n.queue = Stored(r.queue, env)
        /\ accepted'[s] = Append(accepted[s], env)
        /\ taken'[s] = taken[s]

Subscribes(s, t, type, qos) ==
    LET n == sub'[s] IN
    /\ owner[s].pc = "idle" /\ owner'[s].pc = "replay"
    /\ owner'[s].backlog = IF qos.durability = "TransientLocal" THEN topics[t].latched ELSE <<>>
    /\ n.topic = t /\ n.type = type /\ n.qos = qos
    /\ SameCounts(n, Subscription0) /\ SameNotice(n, Subscription0)
    /\ SameWorker(n, Subscription0)
    /\ n.join = "no"
    /\ n.queue.items = <<>>
    /\ ~n.queue.closed
    /\ n.queue.dropped = 0
    /\ n.queue.capacity = IF qos.depth = 0 THEN 1 ELSE qos.depth
    /\ n.queue.policy = IF qos.reliability = "Reliable" THEN "Block" ELSE "DropOldest"
    /\ LogSame(s)

Replays(s) ==
    /\ owner[s].pc = "replay" /\ owner[s].backlog # <<>>
    /\ owner'[s].pc = "replay" /\ owner'[s].backlog = Tail(owner[s].backlog)
    /\ Receives(s, Head(owner[s].backlog)) \/ (CannotStore(s) /\ Quiet(s))

Starts(s) ==
    LET n == sub'[s]
        r == sub[s]
    IN  /\ owner[s].pc = "replay" /\ owner[s].backlog = <<>>
        /\ owner'[s].pc = "subscribed" /\ owner'[s].backlog = <<>>
        /\ SameSetup(n, r) /\ SameCounts(n, r) /\ SameNotice(n, r) /\ SameQueue(n, r)
        /\ n.join = r.join
        /\ n.worker = "pop" /\ n.held = r.held
        /\ LogSame(s)

Pops(s) ==
    LET n == sub'[s]
        r == sub[s]
    IN  /\ r.worker = "pop" /\ r.queue.items # <<>>
        /\ SameSetup(n, r) /\ SameCounts(n, r) /\ SameNotice(n, r)
        /\ n.join = r.join
        /\ n.queue = Dequeue(r.queue)
        /\ n.worker = "judge"
        /\ n.held = Head(r.queue.items)
        /\ LogSame(s)

Expires(s) ==
    LET n == sub'[s]
        r == sub[s]
    IN  /\ r.worker = "judge" /\ IsExpired(r, r.held)
        /\ SameSetup(n, r) /\ SameNotice(n, r) /\ SameQueue(n, r)
        /\ n.join = r.join
        /\ n.worker = "pop" /\ n.held = Env0
        /\ n.expired = r.expired + 1
        /\ n.delivered = r.delivered
        /\ n.deadline_missed = r.deadline_missed
        /\ n.last_delivery_ns = r.last_delivery_ns
        /\ accepted'[s] = accepted[s]
        /\ taken'[s] = Append(taken[s], [env |-> r.held, at |-> now, fate |-> "expired"])

\* The first argument of IsExpired and IsLate is not quite what deliver_judge passes; only
\* fields that the record keeps are read.
Delivers(s) ==
    LET n == sub'[s]
        r == sub[s]
    IN  /\ r.worker = "judge" /\ ~IsExpired(r, r.held)
        /\ SameSetup(n, r) /\ SameNotice(n, r) /\ SameQueue(n, r)
        /\ n.join = r.join
        /\ n.worker = "callback" /\ n.held = Env0
        /\ n.expired = r.expired
        /\ n.delivered = r.delivered
        /\ n.deadline_missed = IF IsLate(r) THEN r.deadline_missed + 1 ELSE r.deadline_missed
        /\ n.last_delivery_ns = now
        /\ accepted'[s] = accepted[s]
        /\ taken'[s] = Append(taken[s], [env |-> r.held, at |-> now, fate |-> "callback"])

Returns(s) ==
    LET n == sub'[s]
        r == sub[s]
    IN  /\ r.worker = "callback"
        /\ SameSetup(n, r) /\ SameNotice(n, r) /\ SameQueue(n, r)
        /\ n.join = r.join
        /\ n.worker = "pop" /\ n.held = r.held
        /\ n.delivered = r.delivered + 1
        /\ n.expired = r.expired
        /\ n.deadline_missed = r.deadline_missed
        /\ n.last_delivery_ns = r.last_delivery_ns
        /\ LogSame(s)

Exits(s) ==
    LET n == sub'[s]
        r == sub[s]
    IN  /\ r.worker = "pop" /\ r.queue.items = <<>> /\ r.queue.closed
        /\ SameSetup(n, r) /\ SameCounts(n, r) /\ SameNotice(n, r) /\ SameQueue(n, r)
        /\ n.join = r.join
        /\ n.worker = "exited" /\ n.held = r.held
        /\ LogSame(s)

Closes(s) ==
    LET n == sub'[s]
        r == sub[s]
    IN  /\ SameSetup(n, r) /\ SameCounts(n, r) /\ SameNotice(n, r) /\ SameWorker(n, r)
        /\ n.queue = CloseQueue(r.queue)
        /\ n.join = IF Joinable(s) THEN "claimed" ELSE r.join
        /\ LogSame(s)

Joins(s) ==
    LET n == sub'[s]
        r == sub[s]
    IN  /\ r.worker = "exited"
        /\ SameSetup(n, r) /\ SameCounts(n, r) /\ SameNotice(n, r) /\ SameWorker(n, r)
        /\ SameQueue(n, r)
        /\ n.join = "joined"
        /\ LogSame(s)

\* The owner's program counter moves, its backlog (empty) does not.
OwnerMoves(s, from, to) ==
    owner[s].pc = from /\ owner'[s].pc = to /\ owner'[s].backlog = owner[s].backlog

\* The subscribers that a publish under the lock refuses.
RejectedBy(p) ==
    {s \in ToSet(topics[pub[p].topic].subs) : check_compatible(pub[p].qos, sub[s].qos) # "None"}

SubStep(s) ==
    \/ Quiet(s) /\ OwnerSame(s)
    \/ /\ Refused(s) /\ OwnerSame(s)
       /\ \E p \in Publishers : publish_erased(p) /\ s \in RejectedBy(p)
    \/ \E p \in Publishers :
         /\ push_target(p) /\ s = Head(pub[p].targets)
         /\ Receives(s, pub[p].env) /\ OwnerSame(s)
    \/ Replays(s)
    \/ Quiet(s) /\ OwnerMoves(s, "idle", "refused")
    \/ \E t \in Topics, type \in Types, qos \in Requested :
         subscribe(s, t, type, qos) /\ Subscribes(s, t, type, qos)
    \/ Starts(s)
    \/ (Pops(s) \/ Expires(s) \/ Delivers(s) \/ Returns(s) \/ Exits(s)) /\ OwnerSame(s)
    \/ unsubscribe(s) /\ Quiet(s) /\ OwnerMoves(s, "subscribed", "close")
    \/ Closes(s) /\ OwnerMoves(s, "close", AfterClose(s, "done"))
    \/ shutdown_close /\ s = Head(stop.all) /\ Closes(s) /\ OwnerSame(s)
    \/ Joins(s) /\ OwnerMoves(s, "join", "done")
    \/ Joins(s) /\ OwnerSame(s)

\* The same with the types.
SubStepTyped(s) ==
    /\ SubStep(s)
    /\ sub'[s] \in SubRec /\ owner'[s] \in OwnerRec
    /\ accepted'[s] \in Seq(Envelope) /\ taken'[s] \in Seq(TakenRec)

\* Each of the four is a function after the step, too.
Functions4 ==
    /\ sub' = [s \in Subscribers |-> sub'[s]]
    /\ owner' = [s \in Subscribers |-> owner'[s]]
    /\ accepted' = [s \in Subscribers |-> accepted'[s]]
    /\ taken' = [s \in Subscribers |-> taken'[s]]

SubSteps == Functions4 /\ \A s \in Subscribers : SubStepTyped(s)

\* The types of the four variables, as the step lemmas use them.
LEMMA FourTypes ==
    ASSUME TypeInv
    PROVE  /\ sub \in [Subscribers -> SubRec]
           /\ owner \in [Subscribers -> OwnerRec]
           /\ accepted \in [Subscribers -> Seq(Envelope)]
           /\ taken \in [Subscribers -> Seq(TakenRec)]
           /\ now \in 1..MaxTime
           /\ \A s \in Subscribers :
                /\ sub[s].queue \in Queue(Envelope)
                /\ sub[s].queue.items \in Seq(Envelope)
                /\ sub[s].held \in Envelope
                /\ owner[s].backlog \in Seq(Envelope)
                /\ Len(sub[s].queue.items) <= sub[s].queue.capacity
<1>1. /\ sub \in [Subscribers -> SubRec]
      /\ owner \in [Subscribers -> OwnerRec]
      /\ accepted \in [Subscribers -> Seq(Envelope)]
      /\ taken \in [Subscribers -> Seq(TakenRec)]
      /\ now \in 1..MaxTime
      /\ NoOverflow
  BY TypeParts DEF TypeInv
<1>2. ASSUME NEW s \in Subscribers
      PROVE  /\ sub[s].queue \in Queue(Envelope)
             /\ sub[s].held \in Envelope
             /\ owner[s].backlog \in Seq(Envelope)
  BY <1>1 DEF SubRec, OwnerRec
<1>3. ASSUME NEW s \in Subscribers
      PROVE  sub[s].queue.items \in Seq(Envelope)
  BY <1>2 DEF Queue
<1>4. QED
  BY <1>1, <1>2, <1>3 DEF NoOverflow

\* A subscriber that a step does not concern.
LEMMA Unconcerned ==
    ASSUME TypeInv, NEW s \in Subscribers, Quiet(s), OwnerSame(s)
    PROVE  SubStepTyped(s)
BY FourTypes DEF SubStepTyped, SubStep, Quiet, OwnerSame, LogSame

\* A step that changes no subscriber.
LEMMA NobodyConcerned ==
    ASSUME TypeInv, UNCHANGED <<sub, owner, accepted, taken>>
    PROVE  SubSteps
<1>1. Functions4
  BY FourTypes DEF Functions4
<1>2. ASSUME NEW s \in Subscribers
      PROVE  SubStepTyped(s)
  BY Unconcerned DEF Quiet, OwnerSame, LogSame
<1>3. QED
  BY <1>1, <1>2 DEF SubSteps

\* A step that changes the record of one subscriber and nothing else of the four.
LEMMA RecordChanges ==
    ASSUME TypeInv, NEW s \in Subscribers, NEW n \in SubRec,
           sub' = [sub EXCEPT ![s] = n], UNCHANGED <<owner, accepted, taken>>,
           sub'[s] = n => SubStep(s)
    PROVE  SubSteps
<1>1. Functions4 /\ sub'[s] = n
  BY FourTypes DEF Functions4
<1>2. ASSUME NEW x \in Subscribers
      PROVE  SubStepTyped(x)
  <2>1. CASE x = s
    BY <1>1, <2>1, FourTypes DEF SubStepTyped
  <2>2. CASE x # s
    <3>1. sub'[x] = sub[x]
      BY <2>2, FourTypes
    <3>2. QED
      BY <3>1, Unconcerned DEF Quiet, OwnerSame, LogSame
  <2>3. QED
    BY <2>1, <2>2
<1>3. QED
  BY <1>1, <1>2 DEF SubSteps

\* The same for a step of the owner's thread.
LEMMA OwnerChanges ==
    ASSUME TypeInv, NEW s \in Subscribers, NEW n \in SubRec, NEW o \in OwnerRec,
           sub' = [sub EXCEPT ![s] = n], owner' = [owner EXCEPT ![s] = o],
           UNCHANGED <<accepted, taken>>,
           sub'[s] = n /\ owner'[s] = o => SubStep(s)
    PROVE  SubSteps
<1>1. Functions4 /\ sub'[s] = n /\ owner'[s] = o
  BY FourTypes DEF Functions4
<1>2. ASSUME NEW x \in Subscribers
      PROVE  SubStepTyped(x)
  <2>1. CASE x = s
    BY <1>1, <2>1, FourTypes DEF SubStepTyped
  <2>2. CASE x # s
    <3>1. sub'[x] = sub[x] /\ owner'[x] = owner[x]
      BY <2>2, FourTypes
    <3>2. QED
      BY <3>1, Unconcerned DEF Quiet, OwnerSame, LogSame
  <2>3. QED
    BY <2>1, <2>2
<1>3. QED
  BY <1>1, <1>2 DEF SubSteps

\* The owner's record.
LEMMA OwnerFields ==
    ASSUME NEW o \in OwnerRec,
           NEW to \in {"idle", "refused", "replay", "subscribed", "close", "join", "done", "threw"}
    PROVE  LET n == [o EXCEPT !.pc = to] IN
           n \in OwnerRec /\ n.pc = to /\ n.backlog = o.backlog
BY DEF OwnerRec

\* publish_erased under the lock concerns the subscribers it refuses.
LEMMA RefuseStep ==
    ASSUME TypeInv, NEW p \in Publishers, publish_erased(p)
    PROVE  SubSteps
<1> DEFINE rejected == RejectedBy(p)
<1>1. sub' = [s \in Subscribers |-> IF s \in rejected THEN Refuse(sub[s]) ELSE sub[s]]
  BY Zenon DEF publish_erased, RejectedBy
<1> HIDE DEF rejected
<1>2. UNCHANGED <<owner, accepted, taken>>
  BY DEF publish_erased
<1>3. Functions4
  BY <1>1, <1>2, FourTypes DEF Functions4
<1>4. ASSUME NEW s \in Subscribers
      PROVE  SubStepTyped(s)
  <2>1. CASE s \in rejected
    <3>1. sub'[s] = Refuse(sub[s]) /\ sub[s] \in SubRec
      BY <1>1, <2>1, FourTypes
    <3>2. Refused(s) /\ sub'[s] \in SubRec
      BY <1>2, <3>1, RefuseFields DEF Refused, LogSame
    <3>3. QED
      BY <1>2, <2>1, <3>2, FourTypes DEF SubStepTyped, SubStep, OwnerSame, rejected
  <2>2. CASE s \notin rejected
    <3>1. sub'[s] = sub[s]
      BY <1>1, <2>2
    <3>2. QED
      BY <1>2, <3>1, Unconcerned DEF Quiet, OwnerSame, LogSame
  <2>3. QED
    BY <2>1, <2>2
<1>5. QED
  BY <1>3, <1>4 DEF SubSteps

\* Store: one queue gets the envelope.
LEMMA StoreStep ==
    ASSUME TypeInv, NEW s \in Subscribers, NEW env \in Envelope, Store(s, env), UNCHANGED taken
    PROVE  /\ Receives(s, env)
           /\ sub'[s] \in SubRec
           /\ accepted'[s] \in Seq(Envelope)
           /\ sub' = [x \in Subscribers |-> sub'[x]]
           /\ accepted' = [x \in Subscribers |-> accepted'[x]]
           /\ \A x \in Subscribers : x # s => sub'[x] = sub[x] /\ accepted'[x] = accepted[x]
<1> DEFINE q == Stored(sub[s].queue, env)
           n == [sub[s] EXCEPT !.queue = q]
<1>1. sub[s] \in SubRec /\ sub[s].queue \in Queue(Envelope) /\ accepted[s] \in Seq(Envelope)
  BY FourTypes
<1>2. q \in Queue(Envelope)
  BY <1>1, FourTypes, StoredProperties
<1>3. sub' = [sub EXCEPT ![s].queue = q] /\ ~CannotStore(s)
  BY DEF Store, Stored
<1>4. accepted' = [accepted EXCEPT ![s] = Append(accepted[s], env)]
  BY DEF Store
<1> HIDE DEF q
<1>5. sub' = [sub EXCEPT ![s] = n]
  BY <1>3
<1>6. n \in SubRec
  BY <1>1, <1>2, SetQueueFields
<1>7. sub'[s] = n /\ accepted'[s] = Append(accepted[s], env)
  BY <1>4, <1>5, FourTypes
<1>8. Receives(s, env)
  <2>1. /\ SameSetup(n, sub[s]) /\ SameCounts(n, sub[s]) /\ SameNotice(n, sub[s])
        /\ SameWorker(n, sub[s])
        /\ n.join = sub[s].join
        /\ n.queue = q
    BY <1>1, <1>2, SetQueueFields
  <2> HIDE DEF n
  <2>2. QED
    BY <1>3, <1>7, <2>1 DEF Receives, q
<1>9. accepted'[s] \in Seq(Envelope)
  BY <1>1, <1>7
<1> HIDE DEF n
<1>10. /\ sub' = [x \in Subscribers |-> sub'[x]]
       /\ accepted' = [x \in Subscribers |-> accepted'[x]]
       /\ \A x \in Subscribers : x # s => sub'[x] = sub[x] /\ accepted'[x] = accepted[x]
  BY <1>4, <1>5, FourTypes
<1>11. QED
  BY <1>6, <1>7, <1>8, <1>9, <1>10

\* The first target of a publisher that is pushing.
LEMMA FirstTarget ==
    ASSUME TypeInv, NEW p \in Publishers
    PROVE  /\ pub[p] \in PubRec
           /\ pub[p].targets \in Seq(Subscribers)
           /\ pub[p].env \in Envelope
           /\ pub[p].pc = "push" => Head(pub[p].targets) \in Subscribers
<1>1. pub \in [Publishers -> PubRec]
  BY TypeParts DEF TypeInv
<1>2. pub[p] \in PubRec /\ pub[p].targets \in Seq(Subscribers) /\ pub[p].env \in Envelope
  BY <1>1 DEF PubRec
<1>3. pub[p].pc = "push" => pub[p].targets # <<>>
  BY DEF TypeInv, PublisherShape
<1>4. QED
  BY <1>2, <1>3

\* A publisher's push concerns the target.
LEMMA PushStep ==
    ASSUME TypeInv, NEW p \in Publishers, push_target(p)
    PROVE  SubSteps
<1> DEFINE s == Head(pub[p].targets)
           env == pub[p].env
<1>1. s \in Subscribers /\ env \in Envelope
  BY FirstTarget DEF push_target
<1>2. Store(s, env) /\ UNCHANGED <<owner, taken>>
  BY DEF push_target
<1> HIDE DEF s, env
<1>3. /\ Receives(s, env)
      /\ sub'[s] \in SubRec
      /\ accepted'[s] \in Seq(Envelope)
      /\ sub' = [x \in Subscribers |-> sub'[x]]
      /\ accepted' = [x \in Subscribers |-> accepted'[x]]
      /\ \A x \in Subscribers : x # s => sub'[x] = sub[x] /\ accepted'[x] = accepted[x]
  BY <1>1, <1>2, StoreStep
<1>4. Functions4
  BY <1>2, <1>3, FourTypes DEF Functions4
<1>5. ASSUME NEW x \in Subscribers
      PROVE  SubStepTyped(x)
  <2>1. CASE x = s
    <3>1. SubStep(s)
      BY <1>2, <1>3 DEF SubStep, OwnerSame, s, env
    <3>2. QED
      BY <1>1, <1>2, <1>3, <2>1, <3>1, FourTypes DEF SubStepTyped
  <2>2. CASE x # s
    <3>1. Quiet(x) /\ OwnerSame(x)
      BY <1>2, <1>3, <2>2 DEF Quiet, OwnerSame, LogSame
    <3>2. QED
      BY <3>1, Unconcerned
  <2>3. QED
    BY <2>1, <2>2
<1>6. QED
  BY <1>4, <1>5 DEF SubSteps

\* subscribe() offers one envelope of the backlog.
LEMMA ReplayStep ==
    ASSUME TypeInv, NEW s \in Subscribers, replay_backlog(s)
    PROVE  SubSteps
<1> DEFINE b == owner[s].backlog
           o == [owner[s] EXCEPT !.backlog = Tail(b)]
<1>1. b \in Seq(Envelope) /\ b # <<>> /\ owner[s].pc = "replay" /\ owner[s] \in OwnerRec
  BY FourTypes DEF replay_backlog
<1>2. owner' = [owner EXCEPT ![s] = o] /\ UNCHANGED taken
  BY DEF replay_backlog
<1>3. Head(b) \in Envelope /\ Tail(b) \in Seq(Envelope)
  BY <1>1
<1>4. Store(s, Head(b)) \/ (CannotStore(s) /\ UNCHANGED <<sub, accepted>>)
  BY DEF replay_backlog
<1> HIDE DEF b
<1>5. o \in OwnerRec /\ o.pc = "replay" /\ o.backlog = Tail(b)
  BY <1>1, <1>3 DEF OwnerRec
<1> HIDE DEF o
<1>6. /\ owner'[s] = o
      /\ owner' = [x \in Subscribers |-> owner'[x]]
      /\ \A x \in Subscribers : x # s => owner'[x] = owner[x]
  BY <1>2, FourTypes
<1>7. /\ Receives(s, Head(b)) \/ (CannotStore(s) /\ Quiet(s))
      /\ sub'[s] \in SubRec
      /\ accepted'[s] \in Seq(Envelope)
      /\ sub' = [x \in Subscribers |-> sub'[x]]
      /\ accepted' = [x \in Subscribers |-> accepted'[x]]
      /\ \A x \in Subscribers : x # s => sub'[x] = sub[x] /\ accepted'[x] = accepted[x]
  <2>1. CASE Store(s, Head(b))
    BY <1>2, <1>3, <2>1, StoreStep
  <2>2. CASE CannotStore(s) /\ UNCHANGED <<sub, accepted>>
    BY <1>2, <2>2, FourTypes DEF Quiet, LogSame
  <2>3. QED
    BY <1>4, <2>1, <2>2
<1>8. Functions4
  BY <1>2, <1>6, <1>7, FourTypes DEF Functions4
<1>9. ASSUME NEW x \in Subscribers
      PROVE  SubStepTyped(x)
  <2>1. CASE x = s
    <3>1. SubStep(s)
      BY <1>1, <1>5, <1>6, <1>7 DEF SubStep, Replays, b
    <3>2. QED
      BY <1>2, <1>5, <1>6, <1>7, <2>1, <3>1, FourTypes DEF SubStepTyped
  <2>2. CASE x # s
    <3>1. Quiet(x) /\ OwnerSame(x)
      BY <1>2, <1>6, <1>7, <2>2 DEF Quiet, OwnerSame, LogSame
    <3>2. QED
      BY <3>1, Unconcerned
  <2>3. QED
    BY <2>1, <2>2
<1>10. QED
  BY <1>8, <1>9 DEF SubSteps

\* subscribe() under the lock.
LEMMA SubscribeStep ==
    ASSUME TypeInv, NEW s \in Subscribers, NEW t \in Topics, NEW type \in Types,
           NEW qos \in Requested, subscribe(s, t, type, qos)
    PROVE  SubSteps
<1>1. qos \in QoS
  BY QosAssumption
<1>2. owner[s].pc = "idle" /\ UNCHANGED <<accepted, taken>>
  BY DEF subscribe, historyVars
<1>3. topics[t] \in EntryRec
  BY TypeParts DEF TypeInv
<1>4. CASE ensure_topic(t, type).type # type
  <2> DEFINE o == [owner[s] EXCEPT !.pc = "refused"]
  <2>1. owner' = [owner EXCEPT ![s].pc = "refused"] /\ UNCHANGED sub
    BY <1>4 DEF subscribe
  <2>2. owner' = [owner EXCEPT ![s] = o]
    BY <2>1
  <2>3. o \in OwnerRec /\ o.pc = "refused" /\ o.backlog = owner[s].backlog
    BY FourTypes DEF OwnerRec
  <2> HIDE DEF o
  <2>4. sub' = [sub EXCEPT ![s] = sub[s]] /\ sub[s] \in SubRec
    BY <2>1, FourTypes
  <2>5. ASSUME sub'[s] = sub[s], owner'[s] = o
        PROVE  SubStep(s)
    BY <1>2, <2>3, <2>5 DEF SubStep, Quiet, LogSame, OwnerMoves
  <2>6. QED
    BY <1>2, <2>2, <2>3, <2>4, <2>5, OwnerChanges
<1>5. CASE ensure_topic(t, type).type = type
  <2> DEFINE n == NewSubscription(t, type, qos)
             l == ensure_topic(t, type).latched
             b == IF qos.durability = "TransientLocal" THEN l ELSE <<>>
             o == [pc |-> "replay", backlog |-> b]
  <2>1. sub' = [sub EXCEPT ![s] = n] /\ owner' = [owner EXCEPT ![s] = o]
    BY <1>5 DEF subscribe
  <2>2. l = topics[t].latched /\ l \in Seq(Envelope)
    BY <1>3 DEF ensure_topic, EntryRec
  <2> HIDE DEF l
  <2>3. b \in Seq(Envelope)
    BY <2>2
  <2>4. b = IF qos.durability = "TransientLocal" THEN topics[t].latched ELSE <<>>
    BY <2>2
  <2> HIDE DEF b
  <2>5. o \in OwnerRec /\ o.pc = "replay" /\ o.backlog = b
    BY <2>3 DEF OwnerRec
  <2> HIDE DEF o
  <2>6. /\ n \in SubRec
        /\ n.topic = t /\ n.type = type /\ n.qos = qos
        /\ SameCounts(n, Subscription0) /\ SameNotice(n, Subscription0)
        /\ SameWorker(n, Subscription0)
        /\ n.join = "no"
        /\ n.queue.items = <<>>
        /\ ~n.queue.closed
        /\ n.queue.dropped = 0
        /\ n.queue.capacity = IF qos.depth = 0 THEN 1 ELSE qos.depth
        /\ n.queue.policy = IF qos.reliability = "Reliable" THEN "Block" ELSE "DropOldest"
    BY <1>1, NewSubscriptionFields
  <2> HIDE DEF n
  <2>7. ASSUME sub'[s] = n, owner'[s] = o
        PROVE  SubStep(s)
    <3>1. Subscribes(s, t, type, qos)
      BY <1>2, <2>4, <2>5, <2>6, <2>7 DEF Subscribes, LogSame
    <3>2. QED
      BY <3>1 DEF SubStep
  <2>8. QED
    BY <1>2, <2>1, <2>5, <2>6, <2>7, OwnerChanges
<1>6. QED
  BY <1>4, <1>5

\* subscribe() starts the worker and returns.
LEMMA StartStep ==
    ASSUME TypeInv, NEW s \in Subscribers, start_worker(s)
    PROVE  SubSteps
<1> DEFINE n == [sub[s] EXCEPT !.worker = "pop"]
           o == [owner[s] EXCEPT !.pc = "subscribed"]
<1>1. /\ owner[s].pc = "replay" /\ owner[s].backlog = <<>> /\ UNCHANGED <<accepted, taken>>
      /\ sub' = [sub EXCEPT ![s] = n]
      /\ owner' = [owner EXCEPT ![s] = o]
  BY DEF start_worker, historyVars
<1>2. /\ n \in SubRec
      /\ SameSetup(n, sub[s]) /\ SameCounts(n, sub[s]) /\ SameNotice(n, sub[s])
      /\ SameQueue(n, sub[s])
      /\ n.join = sub[s].join /\ n.worker = "pop" /\ n.held = sub[s].held
  BY FourTypes, SetWorkerFields
<1>3. o \in OwnerRec /\ o.pc = "subscribed" /\ o.backlog = owner[s].backlog
  BY FourTypes, OwnerFields
<1> HIDE DEF n, o
<1>4. ASSUME sub'[s] = n, owner'[s] = o
      PROVE  SubStep(s)
  BY <1>1, <1>2, <1>3, <1>4 DEF SubStep, Starts, LogSame
<1>5. QED
  BY <1>1, <1>2, <1>3, <1>4, OwnerChanges

\* The steps of deliver_loop, and the end of a callback.
LEMMA DeliverStep ==
    ASSUME TypeInv, NEW s \in Subscribers,
           Delivering(s) \/ callback_returns(s)
    PROVE  SubSteps
<1> DEFINE r == sub[s]
<1>1. r \in SubRec
  BY FourTypes
<1>2. CASE deliver_pop(s)
  <2> DEFINE n == [r EXCEPT !.queue = Dequeue(@), !.worker = "judge",
                            !.held = Head(r.queue.items)]
  <2>1. /\ r.worker = "pop" /\ r.queue.items # <<>> /\ UNCHANGED <<owner, accepted, taken>>
        /\ sub' = [sub EXCEPT ![s] = n]
    BY <1>2, FourTypes DEF deliver_pop, historyVars
  <2>2. /\ n \in SubRec
        /\ SameSetup(n, r) /\ SameCounts(n, r) /\ SameNotice(n, r)
        /\ n.join = r.join /\ n.queue = Dequeue(r.queue)
        /\ n.worker = "judge" /\ n.held = Head(r.queue.items)
    BY <1>1, <2>1, PopFields
  <2> HIDE DEF n
  <2>3. ASSUME sub'[s] = n
        PROVE  SubStep(s)
    BY <2>1, <2>2, <2>3 DEF SubStep, Pops, LogSame, OwnerSame
  <2>4. QED
    BY <2>1, <2>2, <2>3, RecordChanges
<1>3. CASE callback_returns(s)
  <2> DEFINE n == [r EXCEPT !.worker = "pop", !.delivered = @ + 1]
  <2>1. /\ r.worker = "callback" /\ UNCHANGED <<owner, accepted, taken>>
        /\ sub' = [sub EXCEPT ![s] = n]
    BY <1>3, FourTypes DEF callback_returns, historyVars
  <2>2. /\ n \in SubRec
        /\ SameSetup(n, r) /\ SameNotice(n, r) /\ SameQueue(n, r)
        /\ n.join = r.join
        /\ n.worker = "pop" /\ n.held = r.held
        /\ n.delivered = r.delivered + 1
        /\ n.expired = r.expired
        /\ n.deadline_missed = r.deadline_missed
        /\ n.last_delivery_ns = r.last_delivery_ns
    BY <1>1, ReturnFields
  <2> HIDE DEF n
  <2>3. ASSUME sub'[s] = n
        PROVE  SubStep(s)
    BY <2>1, <2>2, <2>3 DEF SubStep, Returns, LogSame, OwnerSame
  <2>4. QED
    BY <2>1, <2>2, <2>3, RecordChanges
<1>4. CASE deliver_exit(s)
  <2> DEFINE n == [r EXCEPT !.worker = "exited"]
  <2>1. /\ r.worker = "pop" /\ r.queue.items = <<>> /\ r.queue.closed
        /\ UNCHANGED <<owner, accepted, taken>>
        /\ sub' = [sub EXCEPT ![s] = n]
    BY <1>4, FourTypes DEF deliver_exit, historyVars
  <2>2. /\ n \in SubRec
        /\ SameSetup(n, r) /\ SameCounts(n, r) /\ SameNotice(n, r) /\ SameQueue(n, r)
        /\ n.join = r.join /\ n.worker = "exited" /\ n.held = r.held
    BY <1>1, SetWorkerFields
  <2> HIDE DEF n
  <2>3. ASSUME sub'[s] = n
        PROVE  SubStep(s)
    BY <2>1, <2>2, <2>3 DEF SubStep, Exits, LogSame, OwnerSame
  <2>4. QED
    BY <2>1, <2>2, <2>3, RecordChanges
<1>5. CASE deliver_judge(s)
  <2> DEFINE me  == [r EXCEPT !.held = Env0]
             old == IsExpired(me, r.held)
             late == IsLate(me)
             nx == [me EXCEPT !.worker = "pop", !.expired = @ + 1]
             nd == [me EXCEPT !.worker = "callback", !.last_delivery_ns = now,
                              !.deadline_missed = IF late THEN @ + 1 ELSE @]
             n == IF old THEN nx ELSE nd
             l == [env |-> r.held, at |-> now, fate |-> IF old THEN "expired" ELSE "callback"]
  <2>1. /\ me.worker = "judge" /\ UNCHANGED <<owner, accepted>>
        /\ sub' = [sub EXCEPT ![s] = n]
        /\ taken' = [taken EXCEPT ![s] = Append(taken[s], l)]
    BY <1>5 DEF deliver_judge
  <2>2. me.worker = r.worker /\ me.qos = r.qos /\ me.last_delivery_ns = r.last_delivery_ns
    BY <1>1 DEF SubRec
  <2>3. late <=> IsLate(r)
    BY <2>2 DEF IsLate
  <2>14. late \in BOOLEAN
    BY DEF IsLate
  <2>15. old <=> IsExpired(r, r.held)
    BY <2>2 DEF IsExpired
  <2> HIDE DEF late
  <2>4. /\ nx \in SubRec
        /\ SameSetup(nx, r) /\ SameNotice(nx, r) /\ SameQueue(nx, r)
        /\ nx.join = r.join
        /\ nx.worker = "pop" /\ nx.held = Env0
        /\ nx.expired = r.expired + 1
        /\ nx.delivered = r.delivered
        /\ nx.deadline_missed = r.deadline_missed
        /\ nx.last_delivery_ns = r.last_delivery_ns
    BY <1>1, ExpireFields
  <2>5. /\ nd \in SubRec
        /\ SameSetup(nd, r) /\ SameNotice(nd, r) /\ SameQueue(nd, r)
        /\ nd.join = r.join
        /\ nd.worker = "callback" /\ nd.held = Env0
        /\ nd.expired = r.expired
        /\ nd.delivered = r.delivered
        /\ nd.deadline_missed = IF late THEN r.deadline_missed + 1 ELSE r.deadline_missed
        /\ nd.last_delivery_ns = now
    <3>1. now \in 0..MaxTime
      BY FourTypes
    <3>2. QED
      BY <1>1, <2>14, <3>1, DeliverFields, ZenonT(60)
  <2>6. l \in TakenRec
    BY FourTypes DEF TakenRec
  <2>7. taken[s] \in Seq(TakenRec) /\ Append(taken[s], l) \in Seq(TakenRec)
    BY <2>6, FourTypes
  <2>8. n \in SubRec
    BY <2>4, <2>5
  <2> HIDE DEF me, nx, nd, old, l
  <2>9. sub'[s] = n /\ taken'[s] = Append(taken[s], l)
    BY <2>1, FourTypes
  <2>10. Functions4
    BY <2>1, FourTypes DEF Functions4
  <2>11. SubStep(s)
    <3>1. CASE old
      <4>1. Expires(s) /\ OwnerSame(s)
        BY <2>1, <2>2, <2>4, <2>9, <2>15, <3>1 DEF Expires, OwnerSame, l
      <4>2. QED
        BY <4>1 DEF SubStep
    <3>2. CASE ~old
      <4>1. Delivers(s) /\ OwnerSame(s)
        BY <2>1, <2>2, <2>3, <2>5, <2>9, <2>15, <3>2 DEF Delivers, OwnerSame, l
      <4>2. QED
        BY <4>1 DEF SubStep
    <3>3. QED
      BY <3>1, <3>2
  <2>12. ASSUME NEW x \in Subscribers
         PROVE  SubStepTyped(x)
    <3>1. CASE x = s
      BY <2>1, <2>7, <2>8, <2>9, <2>11, <3>1, FourTypes DEF SubStepTyped
    <3>2. CASE x # s
      <4>1. sub'[x] = sub[x] /\ taken'[x] = taken[x]
        BY <2>1, <3>2, FourTypes
      <4>2. QED
        BY <2>1, <4>1, Unconcerned DEF Quiet, OwnerSame, LogSame
    <3>3. QED
      BY <3>1, <3>2
  <2>13. QED
    BY <2>10, <2>12 DEF SubSteps
<1>6. QED
  BY <1>2, <1>3, <1>4, <1>5 DEF Delivering

\* The answer of stop_subscription is a program counter of the owner's thread.
LEMMA AfterCloseValues ==
    ASSUME NEW s, NEW d, d # "threw", d # "join"
    PROVE  /\ AfterClose(s, d) \in {d, "threw", "join"}
           /\ AfterClose(s, d) = "join" => Joinable(s) /\ sub[s].join # "claimed"
           /\ AfterClose(s, d) = d => ~Joinable(s)
BY DEF AfterClose

\* stop_subscription up to join().
LEMMA ClosedStep ==
    ASSUME TypeInv, NEW s \in Subscribers
    PROVE  \E n \in SubRec :
             /\ Closed(s) = [sub EXCEPT ![s] = n]
             /\ SameSetup(n, sub[s]) /\ SameCounts(n, sub[s]) /\ SameNotice(n, sub[s])
             /\ SameWorker(n, sub[s])
             /\ n.queue = CloseQueue(sub[s].queue)
             /\ n.join = IF Joinable(s) THEN "claimed" ELSE sub[s].join
<1> DEFINE r == sub[s]
           j == IF Joinable(s) THEN "claimed" ELSE r.join
           n == [r EXCEPT !.queue = CloseQueue(@), !.join = j]
<1>1. r \in SubRec /\ sub \in [Subscribers -> SubRec]
  BY FourTypes
<1>2. j \in {"no", "claimed", "joined"}
  BY <1>1 DEF SubRec
<1>3. Closed(s) = [sub EXCEPT ![s] = n]
  BY <1>1 DEF Closed
<1>4. j = IF Joinable(s) THEN "claimed" ELSE r.join
  OBVIOUS
<1> HIDE DEF j
<1>5. /\ n \in SubRec
      /\ SameSetup(n, r) /\ SameCounts(n, r) /\ SameNotice(n, r) /\ SameWorker(n, r)
      /\ n.queue = CloseQueue(r.queue)
      /\ n.join = j
  BY <1>1, <1>2, CloseFields
<1> HIDE DEF n
<1>6. QED
  BY <1>3, <1>4, <1>5

\* unsubscribe() takes its subscription off the list.
LEMMA LeaveStep ==
    ASSUME TypeInv, NEW s \in Subscribers, unsubscribe(s)
    PROVE  SubSteps
<1> DEFINE o == [owner[s] EXCEPT !.pc = "close"]
<1>1. /\ owner[s].pc = "subscribed" /\ UNCHANGED <<sub, accepted, taken>>
      /\ owner' = [owner EXCEPT ![s] = o]
  BY DEF unsubscribe, historyVars
<1>2. o \in OwnerRec /\ o.pc = "close" /\ o.backlog = owner[s].backlog
  BY FourTypes, OwnerFields
<1> HIDE DEF o
<1>3. sub' = [sub EXCEPT ![s] = sub[s]] /\ sub[s] \in SubRec
  BY <1>1, FourTypes
<1>4. ASSUME sub'[s] = sub[s], owner'[s] = o
      PROVE  SubStep(s)
  BY <1>1, <1>2, <1>4 DEF SubStep, Quiet, LogSame, OwnerMoves
<1>5. QED
  BY <1>1, <1>2, <1>3, <1>4, OwnerChanges

\* unsubscribe() closes the queue, and waits for the worker.
LEMMA UnsubscribeStep ==
    ASSUME TypeInv, NEW s \in Subscribers, Unsubscribing(s)
    PROVE  SubSteps
<1>1. CASE unsubscribe_close(s)
  <2> DEFINE to == AfterClose(s, "done")
             o == [owner[s] EXCEPT !.pc = to]
  <2>1. /\ owner[s].pc = "close" /\ UNCHANGED <<accepted, taken>> /\ sub' = Closed(s)
        /\ owner' = [owner EXCEPT ![s] = o]
    BY <1>1 DEF unsubscribe_close, historyVars
  <2>2. to \in {"idle", "refused", "replay", "subscribed", "close", "join", "done", "threw"}
    BY AfterCloseValues
  <2> HIDE DEF to
  <2>3. o \in OwnerRec /\ o.pc = to /\ o.backlog = owner[s].backlog
    BY <2>2, FourTypes, OwnerFields, ZenonT(60)
  <2> HIDE DEF o
  <2>4. PICK n \in SubRec :
             /\ Closed(s) = [sub EXCEPT ![s] = n]
             /\ SameSetup(n, sub[s]) /\ SameCounts(n, sub[s]) /\ SameNotice(n, sub[s])
             /\ SameWorker(n, sub[s])
             /\ n.queue = CloseQueue(sub[s].queue)
             /\ n.join = IF Joinable(s) THEN "claimed" ELSE sub[s].join
    BY ClosedStep
  <2>5. ASSUME sub'[s] = n, owner'[s] = o
        PROVE  SubStep(s)
    BY <2>1, <2>3, <2>4, <2>5 DEF SubStep, Closes, LogSame, OwnerMoves, to
  <2>6. QED
    BY <2>1, <2>3, <2>4, <2>5, OwnerChanges
<1>2. CASE unsubscribe_join(s)
  <2> DEFINE n == [sub[s] EXCEPT !.join = "joined"]
             o == [owner[s] EXCEPT !.pc = "done"]
  <2>1. /\ owner[s].pc = "join" /\ sub[s].worker = "exited" /\ UNCHANGED <<accepted, taken>>
        /\ sub' = [sub EXCEPT ![s] = n]
        /\ owner' = [owner EXCEPT ![s] = o]
    BY <1>2 DEF unsubscribe_join, historyVars
  <2>2. o \in OwnerRec /\ o.pc = "done" /\ o.backlog = owner[s].backlog
    BY FourTypes, OwnerFields
  <2>3. /\ n \in SubRec
        /\ SameSetup(n, sub[s]) /\ SameCounts(n, sub[s]) /\ SameNotice(n, sub[s])
        /\ SameWorker(n, sub[s]) /\ SameQueue(n, sub[s])
        /\ n.join = "joined"
    BY FourTypes, JoinFields
  <2> HIDE DEF n, o
  <2>4. ASSUME sub'[s] = n, owner'[s] = o
        PROVE  SubStep(s)
    BY <2>1, <2>2, <2>3, <2>4 DEF SubStep, Joins, LogSame, OwnerMoves
  <2>5. QED
    BY <2>1, <2>2, <2>3, <2>4, OwnerChanges
<1>3. QED
  BY <1>1, <1>2 DEF Unsubscribing

\* shutdown() does the same to the first of its list.
LEMMA ShutdownStep ==
    ASSUME TypeInv, ShuttingDown
    PROVE  Head(stop.all) \in Subscribers /\ SubSteps
<1> DEFINE s == Head(stop.all)
<1>1. stop.all \in Seq(Subscribers) /\ stop.all # <<>>
  <2>1. stop \in StopRec /\ stop.pc \in {"close", "join"}
    BY TypeParts DEF TypeInv, ShuttingDown, shutdown_close, shutdown_join
  <2>2. QED
    BY <2>1 DEF StopRec, TypeInv, StopShape
<1>2. s \in Subscribers
  BY <1>1
<1>3. UNCHANGED <<owner, accepted, taken>>
  BY DEF ShuttingDown, shutdown_close, shutdown_join, historyVars
<1>4. CASE shutdown_close
  <2>1. sub' = Closed(s)
    BY <1>4 DEF shutdown_close
  <2> HIDE DEF s
  <2>2. PICK n \in SubRec :
             /\ Closed(s) = [sub EXCEPT ![s] = n]
             /\ SameSetup(n, sub[s]) /\ SameCounts(n, sub[s]) /\ SameNotice(n, sub[s])
             /\ SameWorker(n, sub[s])
             /\ n.queue = CloseQueue(sub[s].queue)
             /\ n.join = IF Joinable(s) THEN "claimed" ELSE sub[s].join
    BY <1>2, ClosedStep
  <2>3. ASSUME sub'[s] = n
        PROVE  SubStep(s)
    BY <1>3, <1>4, <2>2, <2>3 DEF SubStep, Closes, LogSame, OwnerSame, s
  <2>4. SubSteps
    BY <1>2, <1>3, <2>1, <2>2, <2>3, RecordChanges
  <2>5. QED
    BY <1>2, <2>4 DEF s
<1>5. CASE shutdown_join
  <2> DEFINE n == [sub[s] EXCEPT !.join = "joined"]
  <2>1. sub[s].worker = "exited" /\ sub' = [sub EXCEPT ![s] = n]
    BY <1>5 DEF shutdown_join
  <2>2. /\ n \in SubRec
        /\ SameSetup(n, sub[s]) /\ SameCounts(n, sub[s]) /\ SameNotice(n, sub[s])
        /\ SameWorker(n, sub[s]) /\ SameQueue(n, sub[s])
        /\ n.join = "joined"
    BY <1>2, FourTypes, JoinFields
  <2> HIDE DEF n, s
  <2>3. ASSUME sub'[s] = n
        PROVE  SubStep(s)
    BY <1>3, <2>1, <2>2, <2>3 DEF SubStep, Joins, LogSame, OwnerSame
  <2>4. SubSteps
    BY <1>2, <1>3, <2>1, <2>2, <2>3, RecordChanges
  <2>5. QED
    BY <1>2, <2>4 DEF s
<1>6. QED
  BY <1>4, <1>5 DEF ShuttingDown

\* Every step does to every subscriber one of the things listed in SubStep.
LEMMA SubscriberSteps ==
    ASSUME TypeInv, [Next]_vars
    PROVE  SubSteps
<1>1. CASE UNCHANGED vars
  BY <1>1, NobodyConcerned DEF vars, historyVars
<1>2. ASSUME NEW p \in Publishers, NEW t \in Topics, NEW type \in Types, NEW qos \in Offered,
             advertise(p, t, type, qos)
      PROVE  SubSteps
  BY <1>2, NobodyConcerned DEF advertise, historyVars
<1>3. ASSUME NEW p \in Publishers, publish(p) \/ Publishing(p)
      PROVE  SubSteps
  <2>1. CASE publish(p)
    BY <2>1, NobodyConcerned DEF publish
  <2>2. CASE publish_erased(p)
    BY <2>2, RefuseStep
  <2>3. CASE publish_wrong_type(p)
    BY <2>3, NobodyConcerned DEF publish_wrong_type, historyVars
  <2>4. CASE report_mismatches(p)
    BY <2>4, NobodyConcerned DEF report_mismatches
  <2>5. CASE push_target(p)
    BY <2>5, PushStep
  <2>6. CASE push_fails(p)
    BY <2>6, NobodyConcerned DEF push_fails
  <2>7. QED
    BY <1>3, <2>1, <2>2, <2>3, <2>4, <2>5, <2>6 DEF Publishing
<1>4. ASSUME NEW s \in Subscribers, NEW t \in Topics, NEW type \in Types, NEW qos \in Requested,
             subscribe(s, t, type, qos)
      PROVE  SubSteps
  BY <1>4, SubscribeStep
<1>5. ASSUME NEW s \in Subscribers,
             \/ Subscribing(s) \/ Delivering(s) \/ callback_returns(s)
             \/ unsubscribe(s) \/ Unsubscribing(s)
      PROVE  SubSteps
  BY <1>5, ReplayStep, StartStep, DeliverStep, LeaveStep, UnsubscribeStep DEF Subscribing
<1>6. ASSUME NEW h \in Handlers, set_qos_mismatch_handler(h)
      PROVE  SubSteps
  BY <1>6, NobodyConcerned DEF set_qos_mismatch_handler, historyVars
<1>7. CASE shutdown
  BY <1>7, NobodyConcerned DEF shutdown, historyVars
<1>8. CASE ShuttingDown
  BY <1>8, ShutdownStep
<1>9. CASE wait_for_idle
  BY <1>9, NobodyConcerned DEF wait_for_idle, historyVars
<1>10. CASE idle_scan
  BY <1>10, NobodyConcerned DEF idle_scan, historyVars
<1>11. CASE idle_timeout
  BY <1>11, NobodyConcerned DEF idle_timeout, historyVars
<1>12. CASE Tick
  BY <1>12, NobodyConcerned DEF Tick, historyVars
<1>13. QED
  BY <1>1, <1>2, <1>3, <1>4, <1>5, <1>6, <1>7, <1>8, <1>9, <1>10, <1>11, <1>12 DEF Next

-----------------------------------------------------------------------------
(* What a step does to one publisher. *)

SameAd(n, r)   == n.topic = r.topic /\ n.type = r.type /\ n.qos = r.qos
SameCall(n, r) == n.env = r.env /\ n.aimed = r.aimed /\ n.handler = r.handler

\* Where publish_erased goes with what is left to do.
Goes(n) == n.pc = IF n.mismatches # <<>> THEN "report"
                  ELSE IF n.targets = <<>> THEN "idle" ELSE "push"

\* What a call that returns true leaves in the history.
Receipt(n) == [topic |-> n.topic, seq |-> n.env.seq, aimed |-> n.aimed]
Records(n) == receipts' = IF n.pc = "idle" /\ n.ok THEN receipts \cup {Receipt(n)} ELSE receipts

Advertises(p, t, type, qos) ==
    LET n == pub'[p] IN
    /\ advertise(p, t, type, qos)
    /\ pub[p].pc = "none" /\ n.pc = "idle"
    /\ n.topic = t /\ n.type = type /\ n.qos = qos
    /\ n.targets = <<>> /\ n.mismatches = <<>> /\ n.aimed = {} /\ n.env = Env0

Calls(p) ==
    LET n == pub'[p]
        r == pub[p]
    IN  /\ publish(p)
        /\ r.pc = "idle" /\ n.pc = "lock"
        /\ SameAd(n, r)
        /\ n.env = [from |-> p, seq |-> 0, publish_ns |-> now]
        /\ n.targets = r.targets /\ n.mismatches = r.mismatches
        /\ n.ok = TRUE

\* The subscribers that a publish under the lock will push to.
TargetsOf(p) == Only(topics[pub[p].topic].subs, Subscribers \ RejectedBy(p))
NumberedEnv(p) == [pub[p].env EXCEPT !.seq = topics[pub[p].topic].published + 1]

Numbers(p) ==
    LET n == pub'[p]
        r == pub[p]
    IN  /\ publish_erased(p)
        /\ r.pc = "lock"
        /\ SameAd(n, r)
        /\ n.env = NumberedEnv(p)
        /\ n.env.from = r.env.from
        /\ n.env.publish_ns = r.env.publish_ns
        /\ n.env.seq = topics[r.topic].published + 1
        /\ n.targets = TargetsOf(p)
        /\ n.aimed = ToSet(TargetsOf(p))
        /\ ToSet(n.mismatches) = {s \in RejectedBy(p) : ~sub[s].mismatch_reported}
        /\ n.ok = r.ok
        /\ Goes(n) /\ Records(n)

WrongType(p) ==
    LET n == pub'[p]
        r == pub[p]
    IN  /\ publish_wrong_type(p)
        /\ r.pc = "lock" /\ n.pc = "idle"
        /\ SameAd(n, r) /\ SameCall(n, r)
        /\ n.targets = r.targets /\ n.mismatches = r.mismatches /\ n.ok = r.ok

Reports(p) ==
    LET n == pub'[p]
        r == pub[p]
    IN  /\ report_mismatches(p)
        /\ r.pc = "report"
        /\ SameAd(n, r) /\ SameCall(n, r)
        /\ n.targets = r.targets /\ n.mismatches = <<>> /\ n.ok = r.ok
        /\ Goes(n) /\ Records(n)

Pushes(p) ==
    LET n == pub'[p]
        r == pub[p]
    IN  /\ \/ push_target(p) /\ n.ok = r.ok
           \/ push_fails(p) /\ n.ok = FALSE
        /\ r.pc = "push"
        /\ SameAd(n, r) /\ SameCall(n, r)
        /\ n.targets = Tail(r.targets) /\ n.mismatches = r.mismatches
        /\ Goes(n) /\ Records(n)

PubStep(p) ==
    \/ pub'[p] = pub[p]
    \/ \E t \in Topics, type \in Types, qos \in Offered : Advertises(p, t, type, qos)
    \/ Calls(p) \/ Numbers(p) \/ WrongType(p) \/ Reports(p) \/ Pushes(p)

PubSteps ==
    /\ pub' = [p \in Publishers |-> pub'[p]]
    /\ \A p \in Publishers : PubStep(p) /\ pub'[p] \in PubRec
    /\ \A p, q \in Publishers : pub'[p] # pub[p] /\ pub'[q] # pub[q] => p = q

\* A step that changes one publisher.
LEMMA PublisherChanges ==
    ASSUME TypeInv, NEW p \in Publishers, NEW n \in PubRec, pub' = [pub EXCEPT ![p] = n],
           pub'[p] = n => PubStep(p)
    PROVE  PubSteps
<1>1. pub \in [Publishers -> PubRec]
  BY TypeParts DEF TypeInv
<1>2. /\ pub' = [q \in Publishers |-> pub'[q]]
      /\ pub'[p] = n
      /\ \A q \in Publishers : q # p => pub'[q] = pub[q] /\ pub'[q] \in PubRec
  BY <1>1
<1>3. \A q \in Publishers : PubStep(q) /\ pub'[q] \in PubRec
  BY <1>2 DEF PubStep
<1>4. QED
  BY <1>2, <1>3 DEF PubSteps

\* Continue moves on a call with what the record says.
LEMMA ContinueFields ==
    ASSUME TypeInv, NEW p \in Publishers, NEW rec \in PubRec, Continue(p, rec)
    PROVE  \E n \in PubRec :
             /\ pub' = [pub EXCEPT ![p] = n]
             /\ SameAd(n, rec) /\ SameCall(n, rec)
             /\ n.targets = rec.targets /\ n.mismatches = rec.mismatches /\ n.ok = rec.ok
             /\ Goes(n) /\ Records(n)
<1> DEFINE w == IF rec.mismatches # <<>> THEN "report"
                ELSE IF rec.targets = <<>> /\ rec.mismatches = <<>> THEN "idle" ELSE "push"
           n == [rec EXCEPT !.pc = w]
<1>1. pub' = [pub EXCEPT ![p] = n]
  BY DEF Continue
<1>2. receipts' = IF (rec.targets = <<>> /\ rec.mismatches = <<>>) /\ rec.ok
                  THEN receipts \cup {Receipt(rec)} ELSE receipts
  BY DEF Continue, Receipt
<1>3. w \in {"none", "idle", "lock", "report", "push"}
  OBVIOUS
<1>4. w = "idle" <=> rec.targets = <<>> /\ rec.mismatches = <<>>
  OBVIOUS
<1>5. w = IF rec.mismatches # <<>> THEN "report"
          ELSE IF rec.targets = <<>> THEN "idle" ELSE "push"
  OBVIOUS
<1> HIDE DEF w
<1>6. /\ n \in PubRec
      /\ SameAd(n, rec) /\ SameCall(n, rec)
      /\ n.targets = rec.targets /\ n.mismatches = rec.mismatches /\ n.ok = rec.ok
      /\ n.pc = w
  BY <1>3 DEF PubRec, SameAd, SameCall
<1> HIDE DEF n
<1>7. Goes(n)
  BY <1>5, <1>6 DEF Goes
<1>8. Receipt(n) = Receipt(rec)
  BY <1>6 DEF Receipt, SameAd, SameCall
<1>9. Records(n)
  BY <1>2, <1>4, <1>6, <1>8 DEF Records
<1>10. QED
  BY <1>1, <1>6, <1>7, <1>9

\* The types of the publishers and topics, as the lemmas below use them.
LEMMA PubTypes ==
    ASSUME TypeInv
    PROVE  /\ pub \in [Publishers -> PubRec]
           /\ topics \in [Topics -> EntryRec]
           /\ published \in 0..MaxPublish
           /\ receipts \subseteq ReceiptRec
           /\ \A p \in Publishers :
                /\ pub[p].targets \in Seq(Subscribers)
                /\ pub[p].mismatches \in Seq(Subscribers)
                /\ pub[p].env \in Envelope
                /\ pub[p].qos \in QoS
                /\ pub[p].pc # "none" => pub[p].topic \in Topics
           /\ \A t \in Topics :
                /\ topics[t].subs \in Seq(Subscribers)
                /\ topics[t].latched \in Seq(Envelope)
                /\ topics[t].published \in 0..MaxPublish
<1>1. /\ pub \in [Publishers -> PubRec]
      /\ topics \in [Topics -> EntryRec]
      /\ published \in 0..MaxPublish
      /\ receipts \subseteq ReceiptRec
  BY TypeParts DEF TypeInv
<1>2. \A p \in Publishers :
        /\ pub[p].targets \in Seq(Subscribers)
        /\ pub[p].mismatches \in Seq(Subscribers)
        /\ pub[p].env \in Envelope
        /\ pub[p].qos \in QoS
  BY <1>1 DEF PubRec
<1>3. \A t \in Topics :
        /\ topics[t].subs \in Seq(Subscribers)
        /\ topics[t].latched \in Seq(Envelope)
        /\ topics[t].published \in 0..MaxPublish
  BY <1>1 DEF EntryRec
<1>4. \A p \in Publishers : pub[p].pc # "none" => pub[p].topic \in Topics
  BY DEF TypeInv, PublisherShape
<1>5. QED
  BY <1>1, <1>2, <1>3, <1>4

\* A call that waits for the lock will get a number in range.
LEMMA NextNumber ==
    ASSUME TypeInv, NEW p \in Publishers, pub[p].pc = "lock"
    PROVE  topics[pub[p].topic].published + 1 \in 1..MaxPublish
<1> DEFINE t == pub[p].topic
           k == topics[t].published
           c == Cardinality(Locked)
<1>1. t \in Topics
  BY PubTypes
<1>2. k \in Nat /\ published \in 0..MaxPublish /\ MaxPublish \in Nat
  BY <1>1, PubTypes, BoundsAssumption
<1>3. IsFiniteSet(Locked) /\ k + c <= published
  BY <1>1 DEF TypeInv, Numbered
<1>4. p \in Locked
  BY DEF Locked
<1>5. c \in Nat /\ c # 0
  BY <1>3, <1>4, FS_CardinalityType, FS_EmptySet
<1> HIDE DEF k, c
<1>6. k + 1 \in 1..MaxPublish
  BY <1>2, <1>3, <1>5
<1>7. QED
  BY <1>6 DEF k

\* publish_erased under the lock.
LEMMA NumberStep ==
    ASSUME TypeInv, NEW p \in Publishers, publish_erased(p)
    PROVE  PubSteps /\ Numbers(p) /\ pub'[p].env \in Envelope /\ pub'[p].topic \in Topics
<1> DEFINE me == pub[p]
           subs == topics[me.topic].subs
           seq == topics[me.topic].published + 1
           env == [me.env EXCEPT !.seq = seq]
           R == RejectedBy(p)
           F == {s \in R : ~sub[s].mismatch_reported}
           T == TargetsOf(p)
           M == Only(subs, F)
           A == ToSet(T)
           rec == [me EXCEPT !.env = env, !.targets = T, !.aimed = A, !.mismatches = M,
                             !.handler = handler]
<1>1. me.pc = "lock" /\ Continue(p, rec)
  BY Zenon DEF publish_erased, RejectedBy, TargetsOf
<1>2. me \in PubRec /\ me.topic \in Topics /\ subs \in Seq(Subscribers) /\ me.env \in Envelope
  BY <1>1, PubTypes
<1>3. seq \in 1..MaxPublish
  BY <1>1, NextNumber
<1> HIDE DEF seq
<1>4. /\ env \in Envelope
      /\ env.from = me.env.from /\ env.publish_ns = me.env.publish_ns /\ env.seq = seq
  BY <1>2, <1>3 DEF Envelope
<1>17. env = NumberedEnv(p)
  BY DEF NumberedEnv, seq
<1>5. T \in Seq(Subscribers) /\ M \in Seq(Subscribers) /\ ToSet(M) = ToSet(subs) \cap F
  BY <1>2, OnlyElements DEF TargetsOf
<1>6. A \in SUBSET Subscribers
  BY <1>5, ToSetType
<1>7. ToSet(M) = F
  BY <1>5 DEF RejectedBy
<1>8. handler \in BOOLEAN
  BY TypeParts DEF TypeInv
<1>9. F = {s \in RejectedBy(p) : ~sub[s].mismatch_reported} /\ A = ToSet(TargetsOf(p))
      /\ T = TargetsOf(p)
  OBVIOUS
<1> HIDE DEF env, T, M, A, F, R
<1>10. /\ rec \in PubRec
       /\ SameAd(rec, me) /\ rec.env = env /\ rec.targets = T /\ rec.aimed = A
       /\ rec.mismatches = M /\ rec.ok = me.ok
  BY <1>2, <1>4, <1>5, <1>6, <1>8 DEF PubRec, SameAd
<1> HIDE DEF rec
<1>11. PICK n \in PubRec :
             /\ pub' = [pub EXCEPT ![p] = n]
             /\ SameAd(n, rec) /\ SameCall(n, rec)
             /\ n.targets = rec.targets /\ n.mismatches = rec.mismatches /\ n.ok = rec.ok
             /\ Goes(n) /\ Records(n)
  BY <1>1, <1>10, ContinueFields
<1>12. pub'[p] = n
  BY <1>11, PubTypes
<1>13. Numbers(p)
  <2>1. SameAd(n, me) /\ n.env = env /\ n.targets = T /\ n.aimed = A /\ n.ok = me.ok
        /\ n.mismatches = M
    BY <1>10, <1>11 DEF SameAd, SameCall
  <2>2. ToSet(n.mismatches) = {s \in RejectedBy(p) : ~sub[s].mismatch_reported}
    BY <1>7, <1>9, <2>1
  <2>3. QED
    BY <1>1, <1>4, <1>9, <1>11, <1>12, <1>17, <2>1, <2>2 DEF Numbers, seq
<1>14. PubSteps
  BY <1>11, <1>13, PublisherChanges DEF PubStep
<1>15. pub'[p].env \in Envelope /\ pub'[p].topic \in Topics
  BY <1>2, <1>4, <1>10, <1>11, <1>12 DEF SameAd, SameCall
<1>16. QED
  BY <1>13, <1>14, <1>15

\* What publish_erased does after the lock.
LEMMA AfterLockStep ==
    ASSUME TypeInv, NEW p \in Publishers,
           report_mismatches(p) \/ push_target(p) \/ push_fails(p)
    PROVE  PubSteps /\ (Reports(p) \/ Pushes(p))
<1> DEFINE me == pub[p]
<1>1. me \in PubRec /\ me.targets \in Seq(Subscribers) /\ pub \in [Publishers -> PubRec]
  BY PubTypes
<1>2. CASE report_mismatches(p)
  <2> DEFINE e == <<>>
             rec == [me EXCEPT !.mismatches = e]
  <2>1. me.pc = "report" /\ Continue(p, rec)
    BY <1>2 DEF report_mismatches
  <2>2. e \in Seq(Subscribers) /\ e = <<>>
    OBVIOUS
  <2> HIDE DEF e
  <2>3. /\ rec \in PubRec
        /\ SameAd(rec, me) /\ SameCall(rec, me) /\ rec.targets = me.targets
        /\ rec.mismatches = e /\ rec.ok = me.ok
    BY <1>1, <2>2 DEF PubRec, SameAd, SameCall
  <2> HIDE DEF rec
  <2>4. PICK n \in PubRec :
             /\ pub' = [pub EXCEPT ![p] = n]
             /\ SameAd(n, rec) /\ SameCall(n, rec)
             /\ n.targets = rec.targets /\ n.mismatches = rec.mismatches /\ n.ok = rec.ok
             /\ Goes(n) /\ Records(n)
    BY <2>1, <2>3, ContinueFields
  <2>5. pub'[p] = n
    BY <1>1, <2>4
  <2>6. Reports(p)
    BY <1>2, <2>1, <2>2, <2>3, <2>4, <2>5 DEF Reports, SameAd, SameCall
  <2>7. QED
    BY <2>4, <2>6, PublisherChanges DEF PubStep
<1>3. CASE push_target(p)
  <2> DEFINE e == Tail(me.targets)
             rec == [me EXCEPT !.targets = e]
  <2>1. me.pc = "push" /\ Continue(p, rec)
    BY <1>3 DEF push_target
  <2>2. e \in Seq(Subscribers)
    BY <1>1, <2>1 DEF TypeInv, PublisherShape
  <2>3. e = Tail(me.targets)
    OBVIOUS
  <2> HIDE DEF e
  <2>4. /\ rec \in PubRec
        /\ SameAd(rec, me) /\ SameCall(rec, me) /\ rec.targets = e
        /\ rec.mismatches = me.mismatches /\ rec.ok = me.ok
    BY <1>1, <2>2 DEF PubRec, SameAd, SameCall
  <2> HIDE DEF rec
  <2>5. PICK n \in PubRec :
             /\ pub' = [pub EXCEPT ![p] = n]
             /\ SameAd(n, rec) /\ SameCall(n, rec)
             /\ n.targets = rec.targets /\ n.mismatches = rec.mismatches /\ n.ok = rec.ok
             /\ Goes(n) /\ Records(n)
    BY <2>1, <2>4, ContinueFields
  <2>6. pub'[p] = n
    BY <1>1, <2>5
  <2>7. Pushes(p)
    BY <1>3, <2>1, <2>3, <2>4, <2>5, <2>6 DEF Pushes, SameAd, SameCall
  <2>8. QED
    BY <2>5, <2>7, PublisherChanges DEF PubStep
<1>4. CASE push_fails(p)
  <2> DEFINE e == Tail(me.targets)
             f == FALSE
             rec == [me EXCEPT !.targets = e, !.ok = f]
  <2>1. me.pc = "push" /\ Continue(p, rec)
    BY <1>4 DEF push_fails
  <2>2. e \in Seq(Subscribers)
    BY <1>1, <2>1 DEF TypeInv, PublisherShape
  <2>3. e = Tail(me.targets) /\ f \in BOOLEAN /\ f = FALSE
    OBVIOUS
  <2> HIDE DEF e, f
  <2>4. /\ rec \in PubRec
        /\ SameAd(rec, me) /\ SameCall(rec, me) /\ rec.targets = e
        /\ rec.mismatches = me.mismatches /\ rec.ok = f
    BY <1>1, <2>2, <2>3 DEF PubRec, SameAd, SameCall
  <2> HIDE DEF rec
  <2>5. PICK n \in PubRec :
             /\ pub' = [pub EXCEPT ![p] = n]
             /\ SameAd(n, rec) /\ SameCall(n, rec)
             /\ n.targets = rec.targets /\ n.mismatches = rec.mismatches /\ n.ok = rec.ok
             /\ Goes(n) /\ Records(n)
    BY <2>1, <2>4, ContinueFields
  <2>6. pub'[p] = n
    BY <1>1, <2>5
  <2>7. Pushes(p)
    BY <1>4, <2>1, <2>3, <2>4, <2>5, <2>6 DEF Pushes, SameAd, SameCall
  <2>8. QED
    BY <2>5, <2>7, PublisherChanges DEF PubStep
<1>5. QED
  BY <1>2, <1>3, <1>4

\* advertise() makes a Publisher.
LEMMA AdvertiseStep ==
    ASSUME TypeInv, NEW p \in Publishers, NEW t \in Topics, NEW type \in Types,
           NEW qos \in Offered, advertise(p, t, type, qos)
    PROVE  PubSteps /\ Advertises(p, t, type, qos)
<1> DEFINE n == [Publisher0 EXCEPT !.pc = "idle", !.topic = t, !.type = type, !.qos = qos]
           e == Env0
           f == FALSE
           g == TRUE
           l == <<>>
           a == {}
           o == Qos0
<1>1. pub[p].pc = "none" /\ pub' = [pub EXCEPT ![p] = n]
  BY DEF advertise
<1>2. qos \in QoS /\ e \in Envelope /\ o \in QoS
  BY QosAssumption, Subscription0Type
<1>3. f \in BOOLEAN /\ g \in BOOLEAN /\ l \in Seq(Subscribers) /\ a \in SUBSET Subscribers
  OBVIOUS
<1>4. Publisher0 = [pc |-> "none", topic |-> NoType, type |-> NoType, qos |-> o, env |-> e,
                    targets |-> l, mismatches |-> l, handler |-> f, ok |-> g, aimed |-> a]
  BY Zenon DEF Publisher0
<1>5. l = <<>> /\ a = {} /\ e = Env0
  OBVIOUS
<1> HIDE DEF e, f, g, l, a, o
<1>6. /\ n \in PubRec
      /\ n.pc = "idle" /\ n.topic = t /\ n.type = type /\ n.qos = qos
      /\ n.targets = l /\ n.mismatches = l /\ n.aimed = a /\ n.env = e
  BY <1>2, <1>3, <1>4 DEF PubRec
<1> HIDE DEF n
<1>7. pub'[p] = n
  BY <1>1, PubTypes
<1>8. Advertises(p, t, type, qos)
  BY <1>1, <1>5, <1>6, <1>7 DEF Advertises
<1>9. QED
  BY <1>1, <1>6, <1>8, PublisherChanges DEF PubStep

\* A call of publish() begins.
LEMMA CallStep ==
    ASSUME TypeInv, NEW p \in Publishers, publish(p)
    PROVE  PubSteps /\ Calls(p)
<1> DEFINE r == pub[p]
           e == [from |-> p, seq |-> 0, publish_ns |-> now]
           g == TRUE
           n == [r EXCEPT !.pc = "lock", !.ok = g, !.env = e]
<1>1. pub \in [Publishers -> PubRec] /\ r \in PubRec
  BY PubTypes
<1>2. r.pc = "idle" /\ pub' = [pub EXCEPT ![p] = n]
  BY <1>1 DEF publish
<1>3. e \in Envelope /\ g \in BOOLEAN
  BY FourTypes, BoundsAssumption DEF Envelope
<1>4. e = [from |-> p, seq |-> 0, publish_ns |-> now] /\ g = TRUE
  OBVIOUS
<1> HIDE DEF e, g
<1>5. /\ n \in PubRec
      /\ n.pc = "lock" /\ SameAd(n, r) /\ n.env = e /\ n.ok = g
      /\ n.targets = r.targets /\ n.mismatches = r.mismatches
  BY <1>1, <1>3 DEF PubRec, SameAd
<1> HIDE DEF n
<1>6. pub'[p] = n
  BY <1>1, <1>2
<1>7. Calls(p)
  BY <1>2, <1>4, <1>5, <1>6 DEF Calls
<1>8. QED
  BY <1>2, <1>5, <1>7, PublisherChanges DEF PubStep

\* publish() finds that the topic carries another type.
LEMMA WrongTypeStep ==
    ASSUME TypeInv, NEW p \in Publishers, publish_wrong_type(p)
    PROVE  PubSteps /\ WrongType(p)
<1> DEFINE r == pub[p]
           n == [r EXCEPT !.pc = "idle"]
<1>1. pub \in [Publishers -> PubRec] /\ r \in PubRec
  BY PubTypes
<1>2. r.pc = "lock" /\ pub' = [pub EXCEPT ![p] = n]
  BY <1>1 DEF publish_wrong_type
<1>3. /\ n \in PubRec
      /\ n.pc = "idle" /\ SameAd(n, r) /\ SameCall(n, r) /\ n.ok = r.ok
      /\ n.targets = r.targets /\ n.mismatches = r.mismatches
  BY <1>1 DEF PubRec, SameAd, SameCall
<1> HIDE DEF n
<1>4. pub'[p] = n
  BY <1>1, <1>2
<1>5. WrongType(p)
  BY <1>2, <1>3, <1>4 DEF WrongType
<1>6. QED
  BY <1>2, <1>3, <1>5, PublisherChanges DEF PubStep

\* A step of another thread.
LEMMA NobodyPublishes ==
    ASSUME TypeInv, UNCHANGED pub
    PROVE  PubSteps
BY PubTypes DEF PubSteps, PubStep

\* Steps that are no step of a publisher.
OtherStep ==
    \/ \E s \in Subscribers, t \in Topics, type \in Types, qos \in Requested :
         subscribe(s, t, type, qos)
    \/ \E s \in Subscribers :
         \/ Subscribing(s) \/ Delivering(s) \/ callback_returns(s)
         \/ unsubscribe(s) \/ Unsubscribing(s)
    \/ \E h \in Handlers : set_qos_mismatch_handler(h)
    \/ shutdown \/ ShuttingDown \/ wait_for_idle \/ idle_scan \/ idle_timeout \/ Tick
    \/ UNCHANGED vars

\* They leave the publishers' variables alone.
LEMMA OtherStepFrame ==
    ASSUME OtherStep
    PROVE  UNCHANGED <<pub, published, receipts, heard, counts>>
<1>1. ASSUME NEW s \in Subscribers, NEW t \in Topics, NEW type \in Types, NEW qos \in Requested,
             subscribe(s, t, type, qos)
      PROVE  UNCHANGED <<pub, published, receipts, heard, counts>>
  BY <1>1 DEF subscribe, historyVars
<1>2. ASSUME NEW s \in Subscribers,
             \/ Subscribing(s) \/ Delivering(s) \/ callback_returns(s)
             \/ unsubscribe(s) \/ Unsubscribing(s)
      PROVE  UNCHANGED <<pub, published, receipts, heard, counts>>
  <2>1. CASE replay_backlog(s)
    BY <2>1 DEF replay_backlog, busVars
  <2>2. CASE start_worker(s)
    BY <2>2 DEF start_worker, historyVars, busVars
  <2>3. CASE deliver_pop(s)
    BY <2>3 DEF deliver_pop, historyVars, busVars
  <2>4. CASE deliver_judge(s)
    BY <2>4 DEF deliver_judge, busVars
  <2>5. CASE deliver_exit(s)
    BY <2>5 DEF deliver_exit, historyVars, busVars
  <2>6. CASE callback_returns(s)
    BY <2>6 DEF callback_returns, historyVars, busVars
  <2>7. CASE unsubscribe(s)
    BY <2>7 DEF unsubscribe, historyVars
  <2>8. CASE unsubscribe_close(s)
    BY <2>8 DEF unsubscribe_close, historyVars, busVars
  <2>9. CASE unsubscribe_join(s)
    BY <2>9 DEF unsubscribe_join, historyVars, busVars
  <2>10. QED
    BY <1>2, <2>1, <2>2, <2>3, <2>4, <2>5, <2>6, <2>7, <2>8, <2>9
       DEF Subscribing, Delivering, Unsubscribing
<1>3. ASSUME NEW h \in Handlers, set_qos_mismatch_handler(h)
      PROVE  UNCHANGED <<pub, published, receipts, heard, counts>>
  BY <1>3 DEF set_qos_mismatch_handler, historyVars
<1>4. CASE shutdown
  BY <1>4 DEF shutdown, historyVars
<1>5. CASE ShuttingDown
  BY <1>5 DEF ShuttingDown, shutdown_close, shutdown_join, historyVars, busVars
<1>6. CASE wait_for_idle
  BY <1>6 DEF wait_for_idle, historyVars, busVars
<1>7. CASE idle_scan
  BY <1>7 DEF idle_scan, historyVars, busVars
<1>8. CASE idle_timeout
  BY <1>8 DEF idle_timeout, historyVars, busVars
<1>9. CASE Tick
  BY <1>9 DEF Tick, historyVars, busVars
<1>10. CASE UNCHANGED vars
  BY <1>10 DEF vars, historyVars, busVars
<1>11. QED
  BY <1>1, <1>2, <1>3, <1>4, <1>5, <1>6, <1>7, <1>8, <1>9, <1>10 DEF OtherStep

\* A step is a publisher's step or another one.
LEMMA StepKinds ==
    ASSUME [Next]_vars
    PROVE  \/ \E p \in Publishers, t \in Topics, type \in Types, qos \in Offered :
                advertise(p, t, type, qos)
           \/ \E p \in Publishers : publish(p) \/ publish_erased(p) \/ publish_wrong_type(p)
           \/ \E p \in Publishers : report_mismatches(p) \/ push_target(p) \/ push_fails(p)
           \/ OtherStep
BY DEF Next, Publishing, OtherStep

\* Every step does to every publisher one of the things listed in PubStep.
LEMMA PublisherSteps ==
    ASSUME TypeInv, [Next]_vars
    PROVE  PubSteps
BY StepKinds, AdvertiseStep, CallStep, NumberStep, WrongTypeStep, AfterLockStep, OtherStepFrame,
   NobodyPublishes

-----------------------------------------------------------------------------
(* What a step does to one topic. *)

SameEntry(n, r) == n.subs = r.subs /\ n.latched = r.latched /\ n.published = r.published

TopicStep(t) ==
    LET n == topics'[t]
        r == topics[t]
    IN  \/ n = r
        \/ /\ \E p \in Publishers, type \in Types, qos \in Offered : advertise(p, t, type, qos)
           /\ SameEntry(n, r)
        \/ \E p \in Publishers :
             /\ publish_erased(p) /\ t = pub[p].topic
             /\ n.type = r.type /\ n.subs = r.subs /\ n.published = r.published + 1
             /\ n.latched = Latch(r, NumberedEnv(p), pub[p].qos)
        \/ \E s \in Subscribers, type \in Types, qos \in Requested :
             /\ subscribe(s, t, type, qos)
             /\ owner[s].pc = "idle"
             /\ n.subs = Append(r.subs, s) /\ n.latched = r.latched /\ n.published = r.published
        \/ \E s \in Subscribers :
             /\ unsubscribe(s) /\ t = sub[s].topic
             /\ n.type = r.type /\ n.subs = RemoveFirst(r.subs, s)
             /\ n.latched = r.latched /\ n.published = r.published
        \/ /\ shutdown
           /\ n.type = r.type /\ n.subs = <<>> /\ n.latched = <<>> /\ n.published = r.published

TopicSteps ==
    /\ topics' = [t \in Topics |-> topics'[t]]
    /\ \A t \in Topics : TopicStep(t) /\ topics'[t] \in EntryRec
    /\ \A t, u \in Topics : topics'[t] # topics[t] /\ topics'[u] # topics[u] => t = u \/ shutdown

\* A step that changes one topic.
LEMMA TopicChanges ==
    ASSUME TypeInv, NEW t \in Topics, NEW n \in EntryRec, topics' = [topics EXCEPT ![t] = n],
           topics'[t] = n => TopicStep(t)
    PROVE  TopicSteps
<1>1. topics \in [Topics -> EntryRec]
  BY PubTypes
<1>2. /\ topics' = [u \in Topics |-> topics'[u]]
      /\ topics'[t] = n
      /\ \A u \in Topics : u # t => topics'[u] = topics[u] /\ topics'[u] \in EntryRec
  BY <1>1
<1>3. \A u \in Topics : TopicStep(u) /\ topics'[u] \in EntryRec
  BY <1>2 DEF TopicStep
<1>4. QED
  BY <1>2, <1>3 DEF TopicSteps

\* ensure_topic touches the type only.
LEMMA EnsureFields ==
    ASSUME TypeInv, NEW t \in Topics, NEW type \in Types
    PROVE  ensure_topic(t, type) \in EntryRec /\ SameEntry(ensure_topic(t, type), topics[t])
<1>1. topics[t] \in EntryRec
  BY PubTypes
<1>2. QED
  BY <1>1 DEF ensure_topic, EntryRec, SameEntry

\* advertise() may fix the type of a topic.
LEMMA AdvertiseTopic ==
    ASSUME TypeInv, NEW p \in Publishers, NEW t \in Topics, NEW type \in Types,
           NEW qos \in Offered, advertise(p, t, type, qos)
    PROVE  TopicSteps
<1> DEFINE n == ensure_topic(t, type)
<1>1. topics' = [topics EXCEPT ![t] = n]
  BY DEF advertise
<1>2. n \in EntryRec /\ SameEntry(n, topics[t])
  BY EnsureFields
<1> HIDE DEF n
<1>3. ASSUME topics'[t] = n
      PROVE  TopicStep(t)
  BY <1>2, <1>3 DEF TopicStep
<1>4. QED
  BY <1>1, <1>2, <1>3, TopicChanges

\* publish_erased numbers and latches on the topic of the publisher.
LEMMA NumberTopic ==
    ASSUME TypeInv, NEW p \in Publishers, publish_erased(p)
    PROVE  /\ TopicSteps
           /\ topics'[pub[p].topic].published = topics[pub[p].topic].published + 1
           /\ topics'[pub[p].topic].latched =
                Latch(topics[pub[p].topic], NumberedEnv(p), pub[p].qos)
<1> DEFINE t == pub[p].topic
           r == topics[t]
           k == r.published + 1
           e == NumberedEnv(p)
           l == Latch(r, e, pub[p].qos)
           n == [r EXCEPT !.published = k, !.latched = l]
<1>1. pub[p].pc = "lock"
  BY DEF publish_erased
<1>2. t \in Topics /\ r \in EntryRec /\ r.latched \in Seq(Envelope) /\ pub[p].qos \in QoS
  BY <1>1, PubTypes
<1>3. k \in 1..MaxPublish
  BY <1>1, NextNumber
<1>4. e \in Envelope /\ e.seq = k
  <2>1. pub[p].env \in Envelope
    BY PubTypes
  <2> HIDE DEF k, r
  <2>2. e = [pub[p].env EXCEPT !.seq = k]
    BY DEF NumberedEnv, k, r
  <2>3. QED
    BY <1>3, <2>1, <2>2 DEF Envelope
<1>5. topics' = [topics EXCEPT ![t].published = e.seq, ![t].latched = l]
  BY Zenon DEF publish_erased, NumberedEnv
<1>6. l \in Seq(Envelope)
  BY <1>2, <1>4, LatchProperties
<1>7. topics' = [topics EXCEPT ![t] = n]
  <2> HIDE DEF l, e, k
  <2>1. topics \in [Topics -> EntryRec]
    BY PubTypes
  <2>2. QED
    BY <1>2, <1>4, <1>5, <2>1
<1>8. k \in 0..MaxPublish
  BY <1>3
<1>9. /\ n \in EntryRec
      /\ n.type = r.type /\ n.subs = r.subs /\ n.published = k /\ n.latched = l
  <2> HIDE DEF l, k
  <2>1. QED
    BY <1>2, <1>6, <1>8 DEF EntryRec
<1> HIDE DEF n
<1>10. ASSUME topics'[t] = n
       PROVE  TopicStep(t)
  <2> HIDE DEF l, k
  <2>1. n.published = r.published + 1 /\ n.latched = Latch(r, NumberedEnv(p), pub[p].qos)
    BY <1>9 DEF l, k
  <2> HIDE DEF t, r
  <2>2. QED
    BY <1>9, <1>10, <2>1 DEF TopicStep, t, r
<1>11. TopicSteps
  BY <1>2, <1>7, <1>9, <1>10, TopicChanges
<1>12. topics'[t] = n
  BY <1>2, <1>7, PubTypes
<1>13. QED
  <2> HIDE DEF k, l
  <2>1. topics'[t].published = k /\ topics'[t].latched = l
    BY <1>9, <1>12
  <2>2. QED
    BY <1>11, <2>1 DEF k, l

\* subscribe() joins the list of its topic.
LEMMA SubscribeTopic ==
    ASSUME TypeInv, NEW s \in Subscribers, NEW t \in Topics, NEW type \in Types,
           NEW qos \in Requested, subscribe(s, t, type, qos)
    PROVE  TopicSteps
<1>1. CASE UNCHANGED topics
  BY <1>1, PubTypes DEF TopicSteps, TopicStep
<1>2. CASE ~UNCHANGED topics
  <2> DEFINE e == ensure_topic(t, type)
             l == Append(e.subs, s)
             n == [e EXCEPT !.subs = l]
  <2>1. topics' = [topics EXCEPT ![t] = n] /\ owner[s].pc = "idle"
    BY <1>2 DEF subscribe
  <2>2. e \in EntryRec /\ SameEntry(e, topics[t])
    BY EnsureFields
  <2> HIDE DEF e
  <2>3. l \in Seq(Subscribers) /\ l = Append(topics[t].subs, s)
    BY <2>2 DEF EntryRec, SameEntry
  <2> HIDE DEF l
  <2>4. n \in EntryRec /\ n.subs = l /\ n.latched = e.latched /\ n.published = e.published
    BY <2>2, <2>3 DEF EntryRec
  <2> HIDE DEF n
  <2>5. ASSUME topics'[t] = n
        PROVE  TopicStep(t)
    BY <2>1, <2>2, <2>3, <2>4, <2>5 DEF TopicStep, SameEntry
  <2>6. QED
    BY <2>1, <2>4, <2>5, TopicChanges
<1>3. QED
  BY <1>1, <1>2

\* unsubscribe() leaves the list of its topic.
LEMMA UnsubscribeTopic ==
    ASSUME TypeInv, NEW s \in Subscribers, unsubscribe(s)
    PROVE  TopicSteps /\ sub[s].topic \in Topics
<1> DEFINE t == sub[s].topic
           r == topics[t]
           l == RemoveFirst(r.subs, s)
           n == [r EXCEPT !.subs = l]
<1>1. owner[s].pc = "subscribed" /\ topics' = [topics EXCEPT ![t].subs = l]
  BY DEF unsubscribe
<1>2. t \in Topics
  BY <1>1 DEF TypeInv, SubscriberShape
<1>3. r \in EntryRec /\ r.subs \in Seq(Subscribers)
  BY <1>2, PubTypes
<1>4. l \in Seq(Subscribers)
  BY <1>3, RemoveFirstElements
<1>5. l = RemoveFirst(topics[t].subs, s)
  OBVIOUS
<1> HIDE DEF l
<1>6. topics' = [topics EXCEPT ![t] = n]
  BY <1>1
<1>7. /\ n \in EntryRec
      /\ n.type = r.type /\ n.subs = l /\ n.latched = r.latched /\ n.published = r.published
  BY <1>3, <1>4 DEF EntryRec
<1> HIDE DEF n
<1>8. ASSUME topics'[t] = n
      PROVE  TopicStep(t)
  BY <1>5, <1>7, <1>8 DEF TopicStep
<1>9. QED
  BY <1>2, <1>6, <1>7, <1>8, TopicChanges

\* shutdown() empties every topic.
LEMMA ShutdownTopic ==
    ASSUME TypeInv, shutdown
    PROVE  TopicSteps /\ \A t \in Topics : topics'[t].subs = <<>>
<1> DEFINE e == <<>>
<1>1. topics' = [t \in Topics |-> [topics[t] EXCEPT !.subs = e, !.latched = e]]
  BY DEF shutdown
<1>2. e \in Seq(Subscribers) /\ e \in Seq(Envelope) /\ e = <<>>
  OBVIOUS
<1> HIDE DEF e
<1>3. ASSUME NEW t \in Topics
      PROVE  TopicStep(t) /\ topics'[t] \in EntryRec /\ topics'[t].subs = <<>>
  <2> DEFINE n == [topics[t] EXCEPT !.subs = e, !.latched = e]
  <2>1. topics[t] \in EntryRec
    BY PubTypes
  <2>2. /\ n \in EntryRec
        /\ n.type = topics[t].type /\ n.subs = e /\ n.latched = e
        /\ n.published = topics[t].published
    BY <1>2, <2>1 DEF EntryRec
  <2>3. topics'[t] = n
    BY <1>1
  <2> HIDE DEF n
  <2>4. QED
    BY <1>2, <2>2, <2>3 DEF TopicStep
<1>4. topics' = [t \in Topics |-> topics'[t]]
  BY <1>1
<1>5. QED
  BY <1>3, <1>4 DEF TopicSteps

\* Steps that touch no topic.
LEMMA TopicsFrame ==
    ASSUME [Next]_vars
    PROVE  \/ UNCHANGED topics
           \/ \E p \in Publishers, t \in Topics, type \in Types, qos \in Offered :
                advertise(p, t, type, qos)
           \/ \E p \in Publishers : publish_erased(p)
           \/ \E s \in Subscribers, t \in Topics, type \in Types, qos \in Requested :
                subscribe(s, t, type, qos)
           \/ \E s \in Subscribers : unsubscribe(s)
           \/ shutdown
<1>1. ASSUME NEW p \in Publishers,
             \/ publish(p) \/ publish_wrong_type(p) \/ report_mismatches(p)
             \/ push_target(p) \/ push_fails(p)
      PROVE  UNCHANGED topics
  <2>1. CASE publish(p)
    BY <2>1 DEF publish, busVars
  <2>2. CASE publish_wrong_type(p)
    BY <2>2 DEF publish_wrong_type
  <2>3. CASE report_mismatches(p)
    BY <2>3 DEF report_mismatches, busVars
  <2>4. CASE push_target(p)
    BY <2>4 DEF push_target, busVars
  <2>5. CASE push_fails(p)
    BY <2>5 DEF push_fails, busVars
  <2>6. QED
    BY <1>1, <2>1, <2>2, <2>3, <2>4, <2>5
<1>2. ASSUME NEW s \in Subscribers,
             Subscribing(s) \/ Delivering(s) \/ callback_returns(s) \/ Unsubscribing(s)
      PROVE  UNCHANGED topics
  <2>1. CASE replay_backlog(s)
    BY <2>1 DEF replay_backlog, busVars
  <2>2. CASE start_worker(s)
    BY <2>2 DEF start_worker, busVars
  <2>3. CASE deliver_pop(s)
    BY <2>3 DEF deliver_pop, busVars
  <2>4. CASE deliver_judge(s)
    BY <2>4 DEF deliver_judge, busVars
  <2>5. CASE deliver_exit(s)
    BY <2>5 DEF deliver_exit, busVars
  <2>6. CASE callback_returns(s)
    BY <2>6 DEF callback_returns, busVars
  <2>7. CASE unsubscribe_close(s)
    BY <2>7 DEF unsubscribe_close, busVars
  <2>8. CASE unsubscribe_join(s)
    BY <2>8 DEF unsubscribe_join, busVars
  <2>9. QED
    BY <1>2, <2>1, <2>2, <2>3, <2>4, <2>5, <2>6, <2>7, <2>8
       DEF Subscribing, Delivering, Unsubscribing
<1>3. ASSUME NEW h \in Handlers, set_qos_mismatch_handler(h)
      PROVE  UNCHANGED topics
  BY <1>3 DEF set_qos_mismatch_handler
<1>4. CASE ShuttingDown
  BY <1>4 DEF ShuttingDown, shutdown_close, shutdown_join, busVars
<1>5. CASE wait_for_idle
  BY <1>5 DEF wait_for_idle, busVars
<1>6. CASE idle_scan
  BY <1>6 DEF idle_scan, busVars
<1>7. CASE idle_timeout
  BY <1>7 DEF idle_timeout, busVars
<1>8. CASE Tick
  BY <1>8 DEF Tick, busVars
<1>9. CASE UNCHANGED vars
  BY <1>9 DEF vars, busVars
<1>10. QED
  BY <1>1, <1>2, <1>3, <1>4, <1>5, <1>6, <1>7, <1>8, <1>9 DEF Next, Publishing

\* Every step does to every topic one of the things listed in TopicStep.
LEMMA AllTopicSteps ==
    ASSUME TypeInv, [Next]_vars
    PROVE  TopicSteps
<1>1. CASE UNCHANGED topics
  BY <1>1, PubTypes DEF TopicSteps, TopicStep
<1>2. QED
  BY <1>1, TopicsFrame, AdvertiseTopic, NumberTopic, SubscribeTopic, UnsubscribeTopic,
     ShutdownTopic

-----------------------------------------------------------------------------
(* shutdown() and wait_for_idle(). *)

\* The list either of them makes, in whatever order the map has the topics, is made of
\* what the topics list.
LEMMA Listing ==
    ASSUME TypeInv, NEW order \in SetToSeqs(Topics)
    PROVE  LET all == FlattenSeq([i \in DOMAIN order |-> topics[order[i]].subs]) IN
           /\ all \in Seq(Subscribers)
           /\ ToSet(all) = AllListed
<1> DEFINE n == Cardinality(Topics)
           ss == [i \in DOMAIN order |-> topics[order[i]].subs]
<1>1. n \in Nat /\ IsFiniteSet(Topics)
  BY SetsAssumption, FS_CardinalityType
<1> HIDE DEF n
<1>2. /\ order \in [1..n -> Topics]
      /\ \A i, j \in 1..n : i # j => order[i] # order[j]
  BY DEF SetToSeqs, n
<1>3. \A t \in Topics : \E i \in 1..n : order[i] = t
  <2>1. order \in Injection(1..n, Topics)
    BY <1>2 DEF Injection, IsInjective
  <2>2. Cardinality(1..n) = n
    BY <1>1, FS_Interval
  <2>3. order \in Surjection(1..n, Topics)
    <3> DEFINE I == 1..n
    <3>1. order \in Injection(I, Topics) /\ Cardinality(I) = Cardinality(Topics)
      BY <2>1, <2>2 DEF n
    <3> HIDE DEF I
    <3>2. order \in Surjection(I, Topics)
      BY <1>1, <3>1, FS_Injection
    <3>3. QED
      BY <3>2 DEF I
  <2>4. QED
    BY <2>3 DEF Surjection
<1>4. /\ ss \in Seq(Seq(Subscribers)) /\ Len(ss) = n
      /\ \A i \in 1..n : ss[i] = topics[order[i]].subs
  BY <1>1, <1>2, PubTypes
<1> HIDE DEF ss
<1>5. /\ FlattenSeq(ss) \in Seq(Subscribers)
      /\ ToSet(FlattenSeq(ss)) = UNION {ToSet(ss[i]) : i \in 1..n}
  BY <1>4, FlattenElements
<1>6. UNION {ToSet(ss[i]) : i \in 1..n} = AllListed
  <2>1. ASSUME NEW x, x \in UNION {ToSet(ss[i]) : i \in 1..n}
        PROVE  x \in AllListed
    <3>1. PICK i \in 1..n : x \in ToSet(ss[i])
      BY <2>1
    <3>2. order[i] \in Topics /\ x \in ToSet(topics[order[i]].subs)
      BY <1>2, <1>4, <3>1
    <3>3. QED
      BY <3>2 DEF AllListed
  <2>2. ASSUME NEW x, x \in AllListed
        PROVE  x \in UNION {ToSet(ss[i]) : i \in 1..n}
    <3>1. PICK t \in Topics : x \in ToSet(topics[t].subs)
      BY <2>2 DEF AllListed
    <3>2. PICK i \in 1..n : order[i] = t
      BY <1>3
    <3>3. x \in ToSet(ss[i])
      BY <1>4, <3>1, <3>2
    <3>4. QED
      BY <3>3
  <2>3. QED
    BY <2>1, <2>2
<1>7. QED
  BY <1>5, <1>6 DEF ss

\* What a step does to shutdown()'s record.
Begins ==
    /\ shutdown
    /\ stop.pc \notin {"close", "join"}
    /\ ToSet(stop'.all) = AllListed
    /\ stop'.pc = (IF stop'.all = <<>> THEN "returned" ELSE "close")
    /\ stop'.found = ToSet(stop'.all)
    /\ stop'.ready = {s \in ToSet(stop'.all) : owner[s].pc = "subscribed"}

Proceeds ==
    LET s == Head(stop.all) IN
    /\ s \in Subscribers /\ stop.all # <<>>
    /\ \/ /\ shutdown_close
          /\ stop.pc = "close" /\ stop'.pc = AfterClose(s, NextToStop)
       \/ /\ shutdown_join
          /\ stop.pc = "join" /\ sub[s].worker = "exited" /\ stop'.pc = NextToStop
    /\ stop'.all = (IF stop'.pc = "join" THEN stop.all ELSE Tail(stop.all))
    /\ stop'.ready = stop.ready /\ stop'.found = stop.found

StopStep == stop' \in StopRec /\ (stop' = stop \/ Begins \/ Proceeds)

\* NextToStop ends the loop with its last element.
LEMMA NextToStopValues ==
    ASSUME stop.all \in Seq(Subscribers), stop.all # <<>>
    PROVE  /\ NextToStop \in {"returned", "close"}
           /\ NextToStop = "returned" <=> Tail(stop.all) = <<>>
           /\ Tail(stop.all) \in Seq(Subscribers) /\ Head(stop.all) \in Subscribers
           /\ ToSet(stop.all) = {Head(stop.all)} \cup ToSet(Tail(stop.all))
<1>1. /\ Len(stop.all) = 1 <=> Tail(stop.all) = <<>>
      /\ Tail(stop.all) \in Seq(Subscribers) /\ Head(stop.all) \in Subscribers
  <2> DEFINE a == stop.all
             b == Tail(a)
  <2>1. b \in Seq(Subscribers) /\ Len(b) = Len(a) - 1 /\ Head(a) \in Subscribers /\ Len(a) \in Nat
    OBVIOUS
  <2> HIDE DEF b, a
  <2>2. b = <<>> <=> Len(b) = 0
    BY <2>1
  <2>3. Len(a) = 1 <=> b = <<>>
    BY <2>1, <2>2
  <2>4. QED
    BY <2>1, <2>3 DEF a, b
<1>2. ToSet(stop.all) = {Head(stop.all)} \cup ToSet(Tail(stop.all))
  BY ToSetHeadTail
<1>3. QED
  BY <1>1, <1>2 DEF NextToStop

\* Every step does one of these to it.
LEMMA StopSteps ==
    ASSUME TypeInv, [Next]_vars
    PROVE  StopStep
<1>1. stop \in StopRec
  BY TypeParts DEF TypeInv
<1>2. stop.all \in Seq(Subscribers)
  BY <1>1 DEF StopRec
<1>3. CASE UNCHANGED stop
  BY <1>1, <1>3 DEF StopStep
<1>4. CASE shutdown
  <2>1. PICK order \in SetToSeqs(Topics) :
         LET all == FlattenSeq([i \in DOMAIN order |-> topics[order[i]].subs]) IN
         stop' = [pc |-> IF all = <<>> THEN "returned" ELSE "close", all |-> all,
                  calls |-> stop.calls + 1,
                  found |-> ToSet(all),
                  ready |-> {s \in ToSet(all) : owner[s].pc = "subscribed"}]
    BY <1>4, Zenon DEF shutdown
  <2> DEFINE all == FlattenSeq([i \in DOMAIN order |-> topics[order[i]].subs])
             to == IF all = <<>> THEN "returned" ELSE "close"
             k == stop.calls + 1
             f == ToSet(all)
             r == {s \in f : owner[s].pc = "subscribed"}
  <2>2. all \in Seq(Subscribers) /\ ToSet(all) = AllListed
    BY Listing
  <2>3. stop' = [pc |-> to, all |-> all, calls |-> k, found |-> f, ready |-> r]
    BY <2>1
  <2> HIDE DEF all
  <2>4. f \in SUBSET Subscribers
    BY <2>2, ToSetType
  <2>5. r \in SUBSET Subscribers
    BY <2>4
  <2>6. k \in 0..MaxStop
    <3>1. stop.calls \in 0..MaxStop /\ stop.calls < MaxStop
      BY <1>1, <1>4 DEF StopRec, shutdown
    <3>2. QED
      BY <3>1, BoundsAssumption
  <2>7. to \in {"returned", "close"}
    OBVIOUS
  <2>8. to = (IF all = <<>> THEN "returned" ELSE "close") /\ f = ToSet(all)
        /\ r = {s \in f : owner[s].pc = "subscribed"}
    OBVIOUS
  <2>9. stop.pc \notin {"close", "join"}
    BY <1>4 DEF shutdown
  <2> HIDE DEF to, k, f, r
  <2>10. stop' \in StopRec
    BY <2>2, <2>3, <2>4, <2>5, <2>6, <2>7 DEF StopRec
  <2>11. stop'.pc = to /\ stop'.all = all /\ stop'.found = f /\ stop'.ready = r
    BY <2>3
  <2>12. Begins
    BY <1>4, <2>2, <2>8, <2>9, <2>11 DEF Begins
  <2>13. QED
    BY <2>10, <2>12 DEF StopStep
<1>5. CASE ShuttingDown
  <2> DEFINE s == Head(stop.all)
             tl == Tail(stop.all)
  <2>1. stop.all # <<>> /\ stop.pc \in {"close", "join"}
    BY <1>5 DEF TypeInv, StopShape, ShuttingDown, shutdown_close, shutdown_join
  <2>2. /\ NextToStop \in {"returned", "close"}
        /\ tl \in Seq(Subscribers) /\ s \in Subscribers
    BY <1>2, <2>1, NextToStopValues
  <2>3. CASE shutdown_close
    <3> DEFINE to == AfterClose(s, NextToStop)
               l == IF to = "join" THEN stop.all ELSE tl
    <3>1. stop.pc = "close" /\ stop' = [stop EXCEPT !.pc = to, !.all = l]
      BY <2>3 DEF shutdown_close
    <3>2. to \in {"idle", "close", "join", "returned", "threw"}
      <4>1. NextToStop # "threw" /\ NextToStop # "join"
        BY <2>2
      <4>2. QED
        BY <2>2, <4>1, AfterCloseValues
    <3>3. l \in Seq(Subscribers)
      BY <1>2, <2>2
    <3>4. l = (IF to = "join" THEN stop.all ELSE tl)
      OBVIOUS
    <3> HIDE DEF to, l
    <3>5. /\ stop' \in StopRec
          /\ stop'.pc = to /\ stop'.all = l /\ stop'.ready = stop.ready
          /\ stop'.found = stop.found
      BY <1>1, <3>1, <3>2, <3>3 DEF StopRec
    <3>6. Proceeds
      BY <2>1, <2>2, <2>3, <3>1, <3>4, <3>5 DEF Proceeds, to
    <3>7. QED
      BY <3>5, <3>6 DEF StopStep
  <2>4. CASE shutdown_join
    <3> DEFINE to == NextToStop
    <3>1. stop.pc = "join" /\ sub[s].worker = "exited"
          /\ stop' = [stop EXCEPT !.pc = to, !.all = tl]
      BY <2>4 DEF shutdown_join
    <3>2. to \in {"returned", "close"}
      BY <2>2
    <3> HIDE DEF to, tl
    <3>3. /\ stop' \in StopRec
          /\ stop'.pc = to /\ stop'.all = tl /\ stop'.ready = stop.ready
          /\ stop'.found = stop.found
      BY <1>1, <2>2, <3>1, <3>2 DEF StopRec
    <3>4. Proceeds
      BY <2>1, <2>2, <2>4, <3>1, <3>2, <3>3 DEF Proceeds, to, tl
    <3>5. QED
      BY <3>3, <3>4 DEF StopStep
  <2>5. QED
    BY <1>5, <2>3, <2>4 DEF ShuttingDown
<1>6. UNCHANGED stop \/ shutdown \/ ShuttingDown
  <2>1. ASSUME NEW p \in Publishers, publish(p) \/ Publishing(p)
        PROVE  UNCHANGED stop
    BY <2>1 DEF Publishing, publish, publish_erased, publish_wrong_type, report_mismatches,
                push_target, push_fails
  <2>2. ASSUME NEW s \in Subscribers,
               \/ Subscribing(s) \/ Delivering(s) \/ callback_returns(s)
               \/ unsubscribe(s) \/ Unsubscribing(s)
        PROVE  UNCHANGED stop
    BY <2>2 DEF Subscribing, replay_backlog, start_worker, Delivering, deliver_pop,
                deliver_judge, deliver_exit, callback_returns, unsubscribe, Unsubscribing,
                unsubscribe_close, unsubscribe_join
  <2>3. ASSUME NEW p \in Publishers, NEW t \in Topics, NEW type \in Types, NEW qos \in Offered,
               advertise(p, t, type, qos)
        PROVE  UNCHANGED stop
    BY <2>3 DEF advertise
  <2>4. ASSUME NEW s \in Subscribers, NEW t \in Topics, NEW type \in Types,
               NEW qos \in Requested, subscribe(s, t, type, qos)
        PROVE  UNCHANGED stop
    BY <2>4 DEF subscribe
  <2>5. ASSUME NEW h \in Handlers, set_qos_mismatch_handler(h)
        PROVE  UNCHANGED stop
    BY <2>5 DEF set_qos_mismatch_handler
  <2>6. ASSUME wait_for_idle \/ idle_scan \/ idle_timeout \/ Tick \/ UNCHANGED vars
        PROVE  UNCHANGED stop
    BY <2>6 DEF wait_for_idle, idle_scan, idle_timeout, Tick, vars
  <2>7. QED
    BY <2>1, <2>2, <2>3, <2>4, <2>5, <2>6 DEF Next
<1>7. QED
  BY <1>3, <1>4, <1>5, <1>6

\* The steps that change wait_for_idle()'s record.
LEMMA IdlerKinds ==
    ASSUME [Next]_vars
    PROVE  UNCHANGED idler \/ wait_for_idle \/ idle_scan \/ idle_timeout
<1>1. ASSUME NEW p \in Publishers, publish(p) \/ Publishing(p)
      PROVE  UNCHANGED idler
  BY <1>1 DEF publish, Publishing, publish_erased, publish_wrong_type, report_mismatches,
              push_target, push_fails
<1>2. ASSUME NEW s \in Subscribers,
             \/ Subscribing(s) \/ Delivering(s) \/ callback_returns(s)
             \/ unsubscribe(s) \/ Unsubscribing(s)
      PROVE  UNCHANGED idler
  BY <1>2 DEF Subscribing, replay_backlog, start_worker, Delivering, deliver_pop,
              deliver_judge, deliver_exit, callback_returns, unsubscribe, Unsubscribing,
              unsubscribe_close, unsubscribe_join
<1>3. ASSUME NEW p \in Publishers, NEW t \in Topics, NEW type \in Types, NEW qos \in Offered,
             advertise(p, t, type, qos)
      PROVE  UNCHANGED idler
  BY <1>3 DEF advertise
<1>4. ASSUME NEW s \in Subscribers, NEW t \in Topics, NEW type \in Types,
             NEW qos \in Requested, subscribe(s, t, type, qos)
      PROVE  UNCHANGED idler
  BY <1>4 DEF subscribe
<1>5. ASSUME NEW h \in Handlers, set_qos_mismatch_handler(h)
      PROVE  UNCHANGED idler
  BY <1>5 DEF set_qos_mismatch_handler
<1>6. ASSUME shutdown \/ ShuttingDown
      PROVE  UNCHANGED idler
  BY <1>6, Zenon DEF shutdown, ShuttingDown, shutdown_close, shutdown_join
<1>7. ASSUME Tick \/ UNCHANGED vars
      PROVE  UNCHANGED idler
  BY <1>7 DEF Tick, vars
<1>8. QED
  BY <1>1, <1>2, <1>3, <1>4, <1>5, <1>6, <1>7 DEF Next

\* What a step does to wait_for_idle()'s record keeps its type.
LEMMA IdlerSteps ==
    ASSUME TypeInv, [Next]_vars
    PROVE  idler' \in IdlerRec
<1>1. idler \in IdlerRec
  BY TypeParts DEF TypeInv
<1>2. idler.todo \in Seq(Subscribers) /\ idler.calls \in 0..MaxIdle
  BY <1>1 DEF IdlerRec
<1>3. CASE UNCHANGED idler
  BY <1>1, <1>3
<1>5. CASE wait_for_idle
  <2>1. PICK order \in SetToSeqs(Topics) :
         idler' = [pc |-> "scan",
                   todo |-> FlattenSeq([i \in DOMAIN order |-> topics[order[i]].subs]),
                   calls |-> IF idler.pc = "busy" THEN idler.calls ELSE idler.calls + 1,
                   before |-> [s \in Subscribers |-> Len(accepted[s])]]
    BY <1>5 DEF wait_for_idle
  <2> DEFINE all == FlattenSeq([i \in DOMAIN order |-> topics[order[i]].subs])
             k == IF idler.pc = "busy" THEN idler.calls ELSE idler.calls + 1
             c == [s \in Subscribers |-> Len(accepted[s])]
  <2>2. all \in Seq(Subscribers)
    BY Listing
  <2>3. idler' = [pc |-> "scan", todo |-> all, calls |-> k, before |-> c]
    BY <2>1
  <2>4. k \in 0..MaxIdle
    <3>1. idler.pc = "busy" \/ idler.calls < MaxIdle
      BY <1>5 DEF wait_for_idle
    <3>2. QED
      BY <1>2, <3>1, BoundsAssumption
  <2>5. c \in [Subscribers -> Nat]
    BY FourTypes
  <2> HIDE DEF all, k, c
  <2>6. QED
    BY <2>2, <2>3, <2>4, <2>5 DEF IdlerRec
<1>6. CASE idle_scan
  <2> DEFINE e == <<>>
             tl == Tail(idler.todo)
  <2>1. \/ idler' = [idler EXCEPT !.pc = "true"]
        \/ idler.todo # <<>> /\ idler' = [idler EXCEPT !.todo = tl]
        \/ idler' = [idler EXCEPT !.pc = "busy", !.todo = e]
    BY <1>6 DEF idle_scan
  <2>2. e \in Seq(Subscribers) /\ (idler.todo # <<>> => tl \in Seq(Subscribers))
    BY <1>2
  <2> HIDE DEF e, tl
  <2>3. QED
    BY <1>1, <2>1, <2>2 DEF IdlerRec
<1>7. CASE idle_timeout
  BY <1>1, <1>7 DEF idle_timeout, IdlerRec
<1>8. QED
  BY <1>3, <1>5, <1>6, <1>7, IdlerKinds

-----------------------------------------------------------------------------
(* TypeOK is an invariant. *)

\* Every publisher starts a call under way with its own number.
LEMMA PublishedFrame ==
    ASSUME TypeInv, [Next]_vars
    PROVE  published' = published \/ \E p \in Publishers : Calls(p)
<1>1. ASSUME NEW p \in Publishers, publish_erased(p) \/ publish_wrong_type(p)
      PROVE  published' = published
  BY <1>1 DEF publish_erased, publish_wrong_type, historyVars
<1>2. ASSUME NEW p \in Publishers, report_mismatches(p) \/ push_target(p) \/ push_fails(p)
      PROVE  published' = published
  BY <1>2 DEF report_mismatches, push_target, push_fails
<1>3. ASSUME NEW p \in Publishers, NEW t \in Topics, NEW type \in Types, NEW qos \in Offered,
             advertise(p, t, type, qos)
      PROVE  published' = published
  BY <1>3 DEF advertise, historyVars
<1>4. QED
  BY <1>1, <1>2, <1>3, StepKinds, CallStep, OtherStepFrame

\* A topic's count goes up with a number given, and not otherwise.
LEMMA CountFrame ==
    ASSUME TypeInv, [Next]_vars, NEW t \in Topics
    PROVE  \/ topics'[t].published = topics[t].published
           \/ \E p \in Publishers : /\ Numbers(p) /\ t = pub[p].topic
                                    /\ topics'[t].published = topics[t].published + 1
BY AllTopicSteps, NumberStep DEF TopicSteps, TopicStep, SameEntry

\* A step keeps Numbered.
LEMMA NumberedKept ==
    ASSUME TypeInv, [Next]_vars
    PROVE  Numbered'
<1> DEFINE L == Locked
           M == Locked'
<1>1. PubSteps /\ TopicSteps
  BY PublisherSteps, AllTopicSteps
<1>2. /\ IsFiniteSet(L) /\ published \in Nat
      /\ \A t \in Topics : topics[t].published \in Nat
      /\ \A t \in Topics : topics[t].published + Cardinality(L) <= published
  BY PubTypes DEF TypeInv, Numbered
<1>3. Cardinality(L) \in Nat
  BY <1>2, FS_CardinalityType
<1>4. L = {p \in Publishers : pub[p].pc = "lock"} /\ M = {p \in Publishers : pub'[p].pc = "lock"}
  BY DEF Locked
<1> SUFFICES /\ IsFiniteSet(M)
             /\ \A t \in Topics : topics'[t].published + Cardinality(M) <= published'
  BY DEF Numbered
<1> HIDE DEF L, M
<1>5. ASSUME NEW p \in Publishers, Numbers(p)
      PROVE  /\ IsFiniteSet(M)
             /\ \A t \in Topics : topics'[t].published + Cardinality(M) <= published'
  <2>1. pub[p].pc = "lock" /\ pub'[p].pc # "lock" /\ published' = published
    BY <1>5 DEF Numbers, Goes, publish_erased
  <2>2. \A q \in Publishers : q # p => pub'[q] = pub[q]
    BY <1>1, <2>1 DEF PubSteps
  <2>3. M = L \ {p} /\ p \in L
    BY <1>4, <2>1, <2>2
  <2>4. IsFiniteSet(M) /\ Cardinality(M) = Cardinality(L) - 1
    BY <1>2, <2>3, FS_RemoveElement
  <2>5. \A t \in Topics : topics'[t].published \in Nat /\ topics'[t].published <= topics[t].published + 1
    BY <1>2, CountFrame
  <2> DEFINE c == Cardinality(M)
             d == Cardinality(L)
  <2>6. c = d - 1 /\ d \in Nat
    BY <1>3, <2>4
  <2> HIDE DEF c, d
  <2>7. ASSUME NEW t \in Topics
        PROVE  topics'[t].published + c <= published'
    <3> DEFINE x == topics[t].published
               y == topics'[t].published
    <3>1. x \in Nat /\ y \in Nat /\ y <= x + 1 /\ x + d <= published
      BY <1>2, <2>5 DEF d
    <3> HIDE DEF x, y
    <3>2. y + c <= published
      BY <1>2, <2>6, <3>1
    <3>3. QED
      BY <2>1, <3>2 DEF y
  <2>8. QED
    BY <2>4, <2>7 DEF c
<1>6. ASSUME NEW p \in Publishers, Calls(p)
      PROVE  /\ IsFiniteSet(M)
             /\ \A t \in Topics : topics'[t].published + Cardinality(M) <= published'
  <2>1. pub[p].pc = "idle" /\ pub'[p].pc = "lock" /\ published' = published + 1 /\ topics' = topics
    BY <1>6 DEF Calls, publish, busVars
  <2>2. \A q \in Publishers : q # p => pub'[q] = pub[q]
    BY <1>1, <2>1 DEF PubSteps
  <2>3. M = L \cup {p} /\ p \notin L
    BY <1>4, <2>1, <2>2
  <2>4. IsFiniteSet(M) /\ Cardinality(M) = Cardinality(L) + 1
    BY <1>2, <2>3, FS_AddElement
  <2> DEFINE c == Cardinality(M)
             d == Cardinality(L)
  <2>5. c = d + 1 /\ d \in Nat
    BY <1>3, <2>4
  <2> HIDE DEF c, d
  <2>6. ASSUME NEW t \in Topics
        PROVE  topics[t].published + c <= published + 1
    <3> DEFINE x == topics[t].published
    <3>1. x \in Nat /\ x + d <= published
      BY <1>2 DEF d
    <3> HIDE DEF x
    <3>2. x + c <= published + 1
      BY <1>2, <2>5, <3>1
    <3>3. QED
      BY <3>2 DEF x
  <2>7. QED
    BY <2>1, <2>4, <2>6 DEF c
<1>7. ASSUME ~\E p \in Publishers : Numbers(p) \/ Calls(p)
      PROVE  /\ IsFiniteSet(M)
             /\ \A t \in Topics : topics'[t].published + Cardinality(M) <= published'
  <2>1. published' = published
    BY <1>7, PublishedFrame
  <2>2. \A t \in Topics : topics'[t].published = topics[t].published
    BY <1>7, CountFrame
  <2>3. ASSUME NEW p \in Publishers, pub'[p].pc = "lock"
        PROVE  pub[p].pc = "lock"
    <3>1. PubStep(p)
      BY <1>1 DEF PubSteps
    <3>2. QED
      BY <1>7, <2>3, <3>1 DEF PubStep, Advertises, WrongType, Reports, Pushes, Goes
  <2>4. M \in SUBSET L
    BY <1>4, <2>3
  <2>5. IsFiniteSet(M) /\ Cardinality(M) <= Cardinality(L) /\ Cardinality(M) \in Nat
    BY <1>2, <2>4, FS_Subset, FS_CardinalityType
  <2> DEFINE c == Cardinality(M)
             d == Cardinality(L)
  <2>6. c \in Nat /\ d \in Nat /\ c <= d
    BY <1>3, <2>5
  <2> HIDE DEF c, d
  <2>7. ASSUME NEW t \in Topics
        PROVE  topics[t].published + c <= published
    <3> DEFINE x == topics[t].published
    <3>1. x \in Nat /\ x + d <= published
      BY <1>2 DEF d
    <3> HIDE DEF x
    <3>2. x + c <= published
      BY <1>2, <2>6, <3>1
    <3>3. QED
      BY <3>2 DEF x
  <2>8. QED
    BY <2>1, <2>2, <2>5, <2>7 DEF c
<1>8. QED
  BY <1>5, <1>6, <1>7

\* A step keeps PublisherShape.
LEMMA PublisherShapeKept ==
    ASSUME TypeInv, [Next]_vars
    PROVE  PublisherShape'
<1> SUFFICES ASSUME NEW p \in Publishers
             PROVE  /\ pub'[p].pc # "none" => pub'[p].topic \in Topics
                    /\ pub'[p].pc \in {"report", "push"} => pub'[p].env.seq \in 1..MaxPublish
                    /\ pub'[p].pc = "push" => pub'[p].targets # <<>>
                    /\ pub'[p].pc \notin {"report", "push"} => pub'[p].targets = <<>>
                    /\ pub'[p].pc # "report" => pub'[p].mismatches = <<>>
  BY DEF PublisherShape
<1>1. PubStep(p)
  BY PublisherSteps DEF PubSteps
<1>2. /\ pub[p].pc # "none" => pub[p].topic \in Topics
      /\ pub[p].pc \in {"report", "push"} => pub[p].env.seq \in 1..MaxPublish
      /\ pub[p].pc = "push" => pub[p].targets # <<>>
      /\ pub[p].pc \notin {"report", "push"} => pub[p].targets = <<>>
      /\ pub[p].pc # "report" => pub[p].mismatches = <<>>
  BY DEF TypeInv, PublisherShape
<1>3. CASE pub'[p] = pub[p]
  BY <1>2, <1>3
<1>4. ASSUME NEW t \in Topics, NEW type \in Types, NEW qos \in Offered,
             Advertises(p, t, type, qos)
      PROVE  /\ pub'[p].pc = "idle" /\ pub'[p].topic \in Topics
             /\ pub'[p].targets = <<>> /\ pub'[p].mismatches = <<>>
  BY <1>4 DEF Advertises
<1>5. CASE Calls(p)
  BY <1>2, <1>5 DEF Calls, SameAd
<1>6. CASE Numbers(p)
  <2>1. pub[p].pc = "lock" /\ pub'[p].env.seq = topics[pub[p].topic].published + 1
        /\ pub'[p].topic = pub[p].topic /\ Goes(pub'[p])
    BY <1>6 DEF Numbers, SameAd
  <2>2. topics[pub[p].topic].published + 1 \in 1..MaxPublish
    BY <2>1, NextNumber
  <2>3. QED
    BY <1>2, <2>1, <2>2 DEF Goes
<1>7. CASE WrongType(p)
  BY <1>2, <1>7 DEF WrongType, SameAd
<1>8. CASE Reports(p)
  BY <1>2, <1>8 DEF Reports, SameAd, SameCall, Goes
<1>9. CASE Pushes(p)
  BY <1>2, <1>9 DEF Pushes, SameAd, SameCall, Goes
<1>10. QED
  BY <1>1, <1>3, <1>4, <1>5, <1>6, <1>7, <1>8, <1>9 DEF PubStep

\* A step keeps SubscriberShape and lets no queue grow past its capacity.
LEMMA SubscriberShapeKept ==
    ASSUME TypeInv, [Next]_vars
    PROVE  SubscriberShape' /\ NoOverflow'
<1> SUFFICES ASSUME NEW s \in Subscribers
             PROVE  /\ owner'[s].pc \notin {"idle", "refused"} => sub'[s].topic \in Topics
                    /\ owner'[s].pc # "replay" => owner'[s].backlog = <<>>
                    /\ Len(sub'[s].queue.items) <= sub'[s].queue.capacity
  BY DEF SubscriberShape, NoOverflow
<1> DEFINE Good == /\ owner'[s].pc \notin {"idle", "refused"} => sub'[s].topic \in Topics
                   /\ owner'[s].pc # "replay" => owner'[s].backlog = <<>>
                   /\ Len(sub'[s].queue.items) <= sub'[s].queue.capacity
<1>1. SubStep(s)
  BY SubscriberSteps DEF SubSteps, SubStepTyped
<1>2. /\ owner[s].pc \notin {"idle", "refused"} => sub[s].topic \in Topics
      /\ owner[s].pc # "replay" => owner[s].backlog = <<>>
  BY DEF TypeInv, SubscriberShape
<1>3. /\ Len(sub[s].queue.items) <= sub[s].queue.capacity
      /\ sub[s].queue \in Queue(Envelope)
      /\ sub[s].queue.items \in Seq(Envelope)
  BY FourTypes
<1>4. ASSUME NEW env \in Envelope, Receives(s, env)
      PROVE  /\ sub'[s].topic = sub[s].topic
             /\ Len(sub'[s].queue.items) <= sub'[s].queue.capacity
  <2>1. sub'[s].queue = Stored(sub[s].queue, env) /\ sub'[s].topic = sub[s].topic
    BY <1>4 DEF Receives, SameSetup
  <2>2. QED
    BY <1>3, <2>1, StoredProperties
<1>5. CASE Quiet(s) /\ OwnerSame(s)
  BY <1>2, <1>3, <1>5 DEF Quiet, OwnerSame
<1>6. CASE Refused(s) /\ OwnerSame(s)
  BY <1>2, <1>3, <1>6 DEF Refused, OwnerSame, SameSetup, SameQueue
<1>7. ASSUME NEW p \in Publishers, Receives(s, pub[p].env), OwnerSame(s)
      PROVE  Good
  <2>1. pub[p].env \in Envelope
    BY PubTypes
  <2>2. QED
    BY <1>2, <1>4, <1>7, <2>1 DEF OwnerSame
<1>8. CASE Replays(s)
  <2>1. /\ owner[s].pc = "replay" /\ owner[s].backlog # <<>>
        /\ owner'[s].pc = "replay"
        /\ Receives(s, Head(owner[s].backlog)) \/ Quiet(s)
    BY <1>8 DEF Replays
  <2>2. Head(owner[s].backlog) \in Envelope
    BY <2>1, FourTypes
  <2>3. QED
    BY <1>2, <1>3, <1>4, <2>1, <2>2 DEF Quiet
<1>9. CASE Quiet(s) /\ OwnerMoves(s, "idle", "refused")
  BY <1>2, <1>3, <1>9 DEF Quiet, OwnerMoves
<1>10. ASSUME NEW t \in Topics, NEW type \in Types, NEW qos \in Requested,
              Subscribes(s, t, type, qos)
       PROVE  Good
  <2>1. /\ owner'[s].pc = "replay" /\ sub'[s].topic = t
        /\ sub'[s].queue.items = <<>>
        /\ sub'[s].queue.capacity = IF qos.depth = 0 THEN 1 ELSE qos.depth
    BY <1>10 DEF Subscribes
  <2>2. qos.depth \in Nat
    BY QosAssumption DEF QoS
  <2>3. QED
    BY <2>1, <2>2
<1>11. CASE Starts(s)
  BY <1>2, <1>3, <1>11 DEF Starts, SameSetup, SameQueue
<1>12. CASE Pops(s) /\ OwnerSame(s)
  <2>1. sub'[s].queue = Dequeue(sub[s].queue) /\ sub[s].queue.items # <<>>
        /\ sub'[s].topic = sub[s].topic
    BY <1>12 DEF Pops, SameSetup
  <2>2. /\ Len(sub'[s].queue.items) = Len(sub[s].queue.items) - 1
        /\ sub'[s].queue.capacity = sub[s].queue.capacity
    BY <1>3, <2>1, DequeueProperties
  <2>3. sub[s].queue.capacity \in Nat /\ Len(sub[s].queue.items) \in Nat
    BY <1>3 DEF Queue
  <2>4. Len(sub'[s].queue.items) <= sub'[s].queue.capacity
    <3> DEFINE a == Len(sub'[s].queue.items)
               b == Len(sub[s].queue.items)
               c == sub[s].queue.capacity
    <3>1. a = b - 1 /\ b \in Nat /\ c \in Nat /\ b <= c
      BY <1>3, <2>2, <2>3
    <3> HIDE DEF a, b, c
    <3>2. a <= c
      BY <3>1
    <3>3. QED
      BY <2>2, <3>2 DEF a, c
  <2>5. QED
    BY <1>2, <1>12, <2>1, <2>4 DEF OwnerSame
<1>13. CASE (Expires(s) \/ Delivers(s) \/ Returns(s) \/ Exits(s)) /\ OwnerSame(s)
  BY <1>2, <1>3, <1>13 DEF Expires, Delivers, Returns, Exits, OwnerSame, SameSetup, SameQueue
<1>14. CASE Quiet(s) /\ OwnerMoves(s, "subscribed", "close")
  BY <1>2, <1>3, <1>14 DEF Quiet, OwnerMoves
<1>15. ASSUME Closes(s)
       PROVE  /\ sub'[s].topic = sub[s].topic
              /\ Len(sub'[s].queue.items) <= sub'[s].queue.capacity
  <2>1. sub'[s].queue = CloseQueue(sub[s].queue) /\ sub'[s].topic = sub[s].topic
    BY <1>15 DEF Closes, SameSetup
  <2>2. QED
    BY <1>3, <2>1, CloseQueueProperties, ZenonT(60)
<1>16. CASE Closes(s) /\ OwnerMoves(s, "close", AfterClose(s, "done"))
  <2>1. AfterClose(s, "done") \notin {"idle", "refused", "replay"}
    BY AfterCloseValues
  <2>2. QED
    BY <1>2, <1>15, <1>16, <2>1 DEF OwnerMoves
<1>17. CASE Closes(s) /\ OwnerSame(s)
  BY <1>2, <1>15, <1>17 DEF OwnerSame
<1>18. CASE Joins(s) /\ OwnerMoves(s, "join", "done")
  BY <1>2, <1>3, <1>18 DEF Joins, OwnerMoves, SameSetup, SameQueue
<1>19. CASE Joins(s) /\ OwnerSame(s)
  BY <1>2, <1>3, <1>19 DEF Joins, OwnerSame, SameSetup, SameQueue
<1>20. QED
  BY <1>1, <1>5, <1>6, <1>7, <1>8, <1>9, <1>10, <1>11, <1>12, <1>13, <1>14, <1>16, <1>17, <1>18,
     <1>19 DEF SubStep

\* A step keeps StopShape.
LEMMA StopShapeKept ==
    ASSUME TypeInv, [Next]_vars
    PROVE  StopShape'
<1>1. stop' = stop \/ Begins \/ Proceeds
  BY StopSteps DEF StopStep
<1>2. stop.all \in Seq(Subscribers)
  BY TypeParts DEF TypeInv, StopRec
<1>3. CASE stop' = stop
  BY <1>3 DEF TypeInv, StopShape
<1>4. CASE Begins
  BY <1>4 DEF Begins, StopShape
<1>5. CASE Proceeds
  <2> DEFINE s == Head(stop.all)
  <2>1. /\ stop.all # <<>>
        /\ stop'.pc = AfterClose(s, NextToStop) \/ stop'.pc = NextToStop
        /\ stop'.all = (IF stop'.pc = "join" THEN stop.all ELSE Tail(stop.all))
    BY <1>5 DEF Proceeds
  <2>2. /\ NextToStop \in {"returned", "close"}
        /\ NextToStop = "returned" <=> Tail(stop.all) = <<>>
    BY <1>2, <2>1, NextToStopValues
  <2>3. stop'.pc \in {NextToStop, "threw", "join"}
    BY <2>1, <2>2, AfterCloseValues
  <2>4. QED
    BY <2>1, <2>2, <2>3 DEF StopShape
<1>6. QED
  BY <1>1, <1>3, <1>4, <1>5

\* A step keeps the types of the remaining variables.
LEMMA RestTypes ==
    ASSUME TypeInv, [Next]_vars
    PROVE  /\ counts' \in [qos: Nat, type: Nat]
           /\ handler' \in BOOLEAN
           /\ now' \in 1..MaxTime
           /\ published' \in 0..MaxPublish
           /\ heard' \subseteq Subscribers
           /\ receipts' \subseteq ReceiptRec
<1>1. /\ counts \in [qos: Nat, type: Nat] /\ handler \in BOOLEAN
      /\ now \in 1..MaxTime /\ published \in 0..MaxPublish
      /\ heard \subseteq Subscribers /\ receipts \subseteq ReceiptRec
  BY TypeParts DEF TypeInv
<1>2. handler' \in BOOLEAN
  <2>1. handler' = handler \/ \E h \in Handlers : handler' = h
    <3>1. ASSUME NEW p \in Publishers, publish(p) \/ Publishing(p)
          PROVE  UNCHANGED handler
      BY <3>1 DEF Publishing, publish, publish_erased, publish_wrong_type, report_mismatches,
                  push_target, push_fails, busVars
    <3>2. ASSUME NEW s \in Subscribers,
                 \/ Subscribing(s) \/ Delivering(s) \/ callback_returns(s)
                 \/ unsubscribe(s) \/ Unsubscribing(s)
          PROVE  UNCHANGED handler
      BY <3>2 DEF Subscribing, replay_backlog, start_worker, Delivering, deliver_pop,
                  deliver_judge, deliver_exit, callback_returns, unsubscribe, Unsubscribing,
                  unsubscribe_close, unsubscribe_join, busVars
    <3>3. ASSUME NEW p \in Publishers, NEW t \in Topics, NEW type \in Types,
                 NEW qos \in Offered, advertise(p, t, type, qos)
          PROVE  UNCHANGED handler
      BY <3>3 DEF advertise
    <3>4. ASSUME NEW s \in Subscribers, NEW t \in Topics, NEW type \in Types,
                 NEW qos \in Requested, subscribe(s, t, type, qos)
          PROVE  UNCHANGED handler
      BY <3>4 DEF subscribe
    <3>5. ASSUME NEW h \in Handlers, set_qos_mismatch_handler(h)
          PROVE  handler' = h
      BY <3>5 DEF set_qos_mismatch_handler
    <3>6. ASSUME shutdown \/ ShuttingDown \/ wait_for_idle \/ idle_scan \/ idle_timeout \/ Tick
                 \/ UNCHANGED vars
          PROVE  UNCHANGED handler
      BY <3>6 DEF shutdown, ShuttingDown, shutdown_close, shutdown_join, wait_for_idle, idle_scan,
                  idle_timeout, Tick, vars, busVars
    <3>7. QED
      BY <3>1, <3>2, <3>3, <3>4, <3>5, <3>6 DEF Next
  <2>2. QED
    BY <1>1, <2>1, QosAssumption
<1>3. now' \in 1..MaxTime
  <2>1. now' = now \/ Tick
    <3>1. ASSUME NEW p \in Publishers, publish(p) \/ Publishing(p)
          PROVE  UNCHANGED now
      BY <3>1 DEF Publishing, publish, publish_erased, publish_wrong_type, report_mismatches,
                  push_target, push_fails
    <3>2. ASSUME NEW s \in Subscribers,
                 \/ Subscribing(s) \/ Delivering(s) \/ callback_returns(s)
                 \/ unsubscribe(s) \/ Unsubscribing(s)
          PROVE  UNCHANGED now
      BY <3>2 DEF Subscribing, replay_backlog, start_worker, Delivering, deliver_pop,
                  deliver_judge, deliver_exit, callback_returns, unsubscribe, Unsubscribing,
                  unsubscribe_close, unsubscribe_join
    <3>3. ASSUME NEW p \in Publishers, NEW t \in Topics, NEW type \in Types,
                 NEW qos \in Offered, advertise(p, t, type, qos)
          PROVE  UNCHANGED now
      BY <3>3 DEF advertise
    <3>4. ASSUME NEW s \in Subscribers, NEW t \in Topics, NEW type \in Types,
                 NEW qos \in Requested, subscribe(s, t, type, qos)
          PROVE  UNCHANGED now
      BY <3>4 DEF subscribe
    <3>5. ASSUME NEW h \in Handlers, set_qos_mismatch_handler(h)
          PROVE  UNCHANGED now
      BY <3>5 DEF set_qos_mismatch_handler
    <3>6. ASSUME shutdown \/ ShuttingDown \/ wait_for_idle \/ idle_scan \/ idle_timeout
                 \/ UNCHANGED vars
          PROVE  UNCHANGED now
      BY <3>6 DEF shutdown, ShuttingDown, shutdown_close, shutdown_join, wait_for_idle, idle_scan,
                  idle_timeout, vars
    <3>7. QED
      BY <3>1, <3>2, <3>3, <3>4, <3>5, <3>6 DEF Next
  <2>2. Tick => now' = now + 1 /\ now < MaxTime
    BY DEF Tick
  <2>3. QED
    BY <1>1, <2>1, <2>2, BoundsAssumption
<1>4. published' \in 0..MaxPublish
  <2>1. ASSUME NEW p \in Publishers, Calls(p)
        PROVE  published' = published + 1 /\ published < MaxPublish
    BY <2>1 DEF Calls, publish
  <2>2. QED
    BY <1>1, <2>1, PublishedFrame, BoundsAssumption
<1>5. ASSUME NEW p \in Publishers, publish_erased(p)
      PROVE  counts' \in [qos: Nat, type: Nat] /\ UNCHANGED heard
  <2> DEFINE c == counts.qos + Cardinality(RejectedBy(p))
  <2>1. counts' = [counts EXCEPT !.qos = c] /\ UNCHANGED heard
    BY <1>5, Zenon DEF publish_erased, RejectedBy
  <2>2. pub[p].topic \in Topics
    BY <1>5, PubTypes DEF publish_erased
  <2>3. RejectedBy(p) \in SUBSET Subscribers
    BY <2>2, PubTypes, ToSetType DEF RejectedBy
  <2>4. Cardinality(RejectedBy(p)) \in Nat
    BY <2>3, SetsAssumption, FS_Subset, FS_CardinalityType
  <2>5. c \in Nat
    BY <1>1, <2>4
  <2> HIDE DEF c
  <2>6. QED
    BY <1>1, <2>1, <2>5
<1>6. ASSUME NEW p \in Publishers, publish(p) \/ publish_wrong_type(p)
      PROVE  counts' \in [qos: Nat, type: Nat] /\ UNCHANGED <<heard, receipts>>
  <2>1. CASE publish(p)
    BY <1>1, <2>1 DEF publish, busVars
  <2>2. CASE publish_wrong_type(p)
    <3> DEFINE c == counts.type + 1
    <3>1. counts' = [counts EXCEPT !.type = c] /\ UNCHANGED <<heard, receipts>>
      BY <2>2 DEF publish_wrong_type, historyVars
    <3>2. c \in Nat
      BY <1>1
    <3> HIDE DEF c
    <3>3. QED
      BY <1>1, <3>1, <3>2
  <2>3. QED
    BY <1>6, <2>1, <2>2
<1>7. ASSUME NEW p \in Publishers, report_mismatches(p) \/ push_target(p) \/ push_fails(p)
      PROVE  UNCHANGED counts /\ heard' \subseteq Subscribers
  <2>1. ToSet(pub[p].mismatches) \subseteq Subscribers
    BY PubTypes, ToSetType
  <2>2. CASE report_mismatches(p)
    BY <1>1, <2>1, <2>2 DEF report_mismatches, busVars
  <2>3. CASE push_target(p)
    BY <1>1, <2>3 DEF push_target, busVars
  <2>4. CASE push_fails(p)
    BY <1>1, <2>4 DEF push_fails, busVars
  <2>5. QED
    BY <1>7, <2>2, <2>3, <2>4
<1>8. ASSUME NEW p \in Publishers, NEW t \in Topics, NEW type \in Types, NEW qos \in Offered,
             advertise(p, t, type, qos)
      PROVE  UNCHANGED <<counts, heard, receipts>>
  BY <1>8 DEF advertise, historyVars
<1>9. ASSUME NEW p \in Publishers, Numbers(p) \/ Reports(p) \/ Pushes(p)
      PROVE  receipts' \subseteq ReceiptRec
  <2> DEFINE n == pub'[p]
  <2>1. Records(n) /\ SameAd(n, pub[p]) /\ pub[p].pc # "none"
    BY <1>9 DEF Numbers, Reports, Pushes
  <2>2. n.topic \in Topics
    BY <2>1 DEF TypeInv, PublisherShape, SameAd
  <2>3. n.env.seq \in 1..MaxPublish
    <3>1. CASE Numbers(p)
      BY <3>1, NextNumber DEF Numbers
    <3>2. CASE Reports(p) \/ Pushes(p)
      BY <3>2 DEF Reports, Pushes, SameCall, TypeInv, PublisherShape
    <3>3. QED
      BY <1>9, <3>1, <3>2
  <2>4. n.aimed \in SUBSET Subscribers
    BY PublisherSteps DEF PubSteps, PubRec
  <2>5. Receipt(n) \in ReceiptRec
    BY <2>2, <2>3, <2>4 DEF Receipt, ReceiptRec
  <2>6. QED
    BY <1>1, <2>1, <2>5 DEF Records
<1>10. /\ counts' \in [qos: Nat, type: Nat]
       /\ heard' \subseteq Subscribers
       /\ receipts' \subseteq ReceiptRec
  <2>1. CASE OtherStep
    BY <1>1, <2>1, OtherStepFrame
  <2>2. ASSUME NEW p \in Publishers, publish_erased(p)
        PROVE  receipts' \subseteq ReceiptRec
    BY <1>9, <2>2, NumberStep
  <2>3. ASSUME NEW p \in Publishers, report_mismatches(p) \/ push_target(p) \/ push_fails(p)
        PROVE  receipts' \subseteq ReceiptRec
    BY <1>9, <2>3, AfterLockStep
  <2>4. QED
    BY <1>1, <1>5, <1>6, <1>7, <1>8, <2>1, <2>2, <2>3, StepKinds
<1>11. QED
  BY <1>2, <1>3, <1>4, <1>10

\* Initially nobody has done anything.
LEMMA TypeInit == Init => TypeInv
<1> SUFFICES ASSUME Init
             PROVE  TypeInv
  OBVIOUS
<1> DEFINE e == <<>>
           f == FALSE
           g == TRUE
           a == {}
           q == Qos0
           v == Env0
<1>1. e \in Seq(Subscribers) /\ e \in Seq(Envelope) /\ e \in Seq(TakenRec) /\ e = <<>>
  OBVIOUS
<1>2. f \in BOOLEAN /\ g \in BOOLEAN /\ a \in SUBSET Subscribers /\ a \subseteq ReceiptRec
  OBVIOUS
<1>3. q \in QoS /\ v \in Envelope /\ Subscription0 \in SubRec
  BY Subscription0Type
<1>4. 0 \in 0..MaxPublish /\ 1 \in 1..MaxTime /\ 0 \in 0..MaxStop /\ 0 \in 0..MaxIdle
  BY BoundsAssumption
<1>5. Entry0 \in EntryRec /\ Entry0.published = 0
  <2>1. Entry0 = [type |-> NoType, subs |-> e, latched |-> e, published |-> 0]
    BY DEF Entry0
  <2> HIDE DEF e
  <2>2. QED
    BY <1>1, <1>4, <2>1 DEF EntryRec
<1>6. /\ Publisher0 \in PubRec
      /\ Publisher0.pc = "none" /\ Publisher0.targets = e /\ Publisher0.mismatches = e
  <2>1. Publisher0 = [pc |-> "none", topic |-> NoType, type |-> NoType, qos |-> q, env |-> v,
                      targets |-> e, mismatches |-> e, handler |-> f, ok |-> g, aimed |-> a]
    BY Zenon DEF Publisher0
  <2> HIDE DEF e, f, g, a, q, v
  <2>2. QED
    BY <1>1, <1>2, <1>3, <2>1 DEF PubRec
<1>7. [pc |-> "idle", backlog |-> e] \in OwnerRec
  <2> HIDE DEF e
  <2>1. QED
    BY <1>1 DEF OwnerRec
<1>8. /\ stop \in StopRec
      /\ stop.pc = "idle" /\ stop.all = e
  <2>1. stop = [pc |-> "idle", all |-> e, calls |-> 0, found |-> a, ready |-> a]
    BY DEF Init
  <2> HIDE DEF e, a
  <2>2. QED
    BY <1>1, <1>2, <1>4, <2>1 DEF StopRec
<1>9. idler \in IdlerRec
  <2> DEFINE z == [s \in Subscribers |-> 0]
  <2>1. idler = [pc |-> "idle", todo |-> e, calls |-> 0, before |-> z]
    BY DEF Init
  <2>2. z \in [Subscribers -> Nat]
    OBVIOUS
  <2> HIDE DEF e, z
  <2>3. QED
    BY <1>1, <1>2, <1>4, <2>1, <2>2 DEF IdlerRec
<1>10. counts \in [qos: Nat, type: Nat]
  BY DEF Init
<1>11. /\ topics = [t \in Topics |-> Entry0]
       /\ handler = f
       /\ pub = [p \in Publishers |-> Publisher0]
       /\ sub = [s \in Subscribers |-> Subscription0]
       /\ owner = [s \in Subscribers |-> [pc |-> "idle", backlog |-> e]]
       /\ now = 1 /\ published = 0 /\ receipts = a /\ heard = a
       /\ accepted = [s \in Subscribers |-> e]
       /\ taken = [s \in Subscribers |-> e]
  BY DEF Init
<1>12. \A s \in Subscribers : Len(sub[s].queue.items) <= sub[s].queue.capacity
  <2>1. Subscription0.queue = NewQueue(1, "Block")
    BY DEF Subscription0
  <2>2. NewQueue(1, "Block").items = <<>> /\ NewQueue(1, "Block").capacity = 1
    BY DEF NewQueue
  <2>3. Len(<<>>) <= 1
    OBVIOUS
  <2>4. Len(Subscription0.queue.items) <= Subscription0.queue.capacity
    BY <2>1, <2>2, <2>3
  <2>5. QED
    BY <1>11, <2>4
<1>13. TypeOK
  <2> HIDE DEF e, f, a
  <2>1. /\ topics \in [Topics -> EntryRec]
        /\ handler \in BOOLEAN
        /\ pub \in [Publishers -> PubRec]
        /\ sub \in [Subscribers -> SubRec]
    BY <1>2, <1>3, <1>5, <1>6, <1>11
  <2>2. /\ owner \in [Subscribers -> OwnerRec]
        /\ now \in 1..MaxTime
        /\ published \in 0..MaxPublish
        /\ heard \subseteq Subscribers
    BY <1>2, <1>4, <1>7, <1>11
  <2>3. /\ accepted \in [Subscribers -> Seq(Envelope)]
        /\ taken \in [Subscribers -> Seq(TakenRec)]
        /\ receipts \subseteq ReceiptRec
    BY <1>1, <1>2, <1>11
  <2>4. QED
    BY <1>8, <1>9, <1>10, <1>12, <2>1, <2>2, <2>3, TypeParts DEF NoOverflow
<1>14. Numbered
  <2>1. Locked = {}
    BY <1>6, <1>11 DEF Locked
  <2>2. IsFiniteSet(Locked) /\ Cardinality(Locked) = 0
    BY <2>1, FS_EmptySet
  <2>3. \A t \in Topics : topics[t].published = 0
    BY <1>5, <1>11
  <2>4. QED
    BY <1>11, <2>2, <2>3 DEF Numbered
<1>15. PublisherShape
  BY <1>6, <1>11 DEF PublisherShape
<1>16. SubscriberShape
  BY <1>11 DEF SubscriberShape
<1>17. StopShape
  BY <1>8 DEF StopShape
<1>18. QED
  BY <1>13, <1>14, <1>15, <1>16, <1>17 DEF TypeInv

\* Every step keeps TypeInv.
LEMMA TypeStep == TypeInv /\ [Next]_vars => TypeInv'
<1> SUFFICES ASSUME TypeInv, [Next]_vars
             PROVE  TypeInv'
  OBVIOUS
<1>1. /\ sub' \in [Subscribers -> SubRec]
      /\ owner' \in [Subscribers -> OwnerRec]
      /\ accepted' \in [Subscribers -> Seq(Envelope)]
      /\ taken' \in [Subscribers -> Seq(TakenRec)]
  <2>1. /\ sub' = [s \in Subscribers |-> sub'[s]]
        /\ owner' = [s \in Subscribers |-> owner'[s]]
        /\ accepted' = [s \in Subscribers |-> accepted'[s]]
        /\ taken' = [s \in Subscribers |-> taken'[s]]
        /\ \A s \in Subscribers : /\ sub'[s] \in SubRec /\ owner'[s] \in OwnerRec
                                  /\ accepted'[s] \in Seq(Envelope)
                                  /\ taken'[s] \in Seq(TakenRec)
    BY SubscriberSteps DEF SubSteps, Functions4, SubStepTyped
  <2>2. QED
    BY <2>1
<1>2. pub' \in [Publishers -> PubRec]
  BY PublisherSteps DEF PubSteps
<1>3. topics' \in [Topics -> EntryRec]
  BY AllTopicSteps DEF TopicSteps
<1>4. stop' \in StopRec
  BY StopSteps DEF StopStep
<1>5. idler' \in IdlerRec
  BY IdlerSteps
<1>6. NoOverflow' /\ SubscriberShape'
  BY SubscriberShapeKept
<1>7. TypeOK'
  <2>1. TypeOK' <=>
               (/\ topics \in [Topics -> EntryRec]
                /\ counts \in [qos: Nat, type: Nat]
                /\ handler \in BOOLEAN
                /\ pub \in [Publishers -> PubRec]
                /\ sub \in [Subscribers -> SubRec]
                /\ NoOverflow
                /\ owner \in [Subscribers -> OwnerRec]
                /\ stop \in StopRec
                /\ idler \in IdlerRec
                /\ now \in 1..MaxTime
                /\ published \in 0..MaxPublish
                /\ heard \subseteq Subscribers
                /\ accepted \in [Subscribers -> Seq(Envelope)]
                /\ taken \in [Subscribers -> Seq(TakenRec)]
                /\ receipts \subseteq ReceiptRec)'
    BY TypeParts, PTL
  <2>2. QED
    BY <1>1, <1>2, <1>3, <1>4, <1>5, <1>6, <2>1, RestTypes
<1>8. QED
  BY <1>6, <1>7, NumberedKept, PublisherShapeKept, StopShapeKept DEF TypeInv

\* TypeOK is an invariant: in particular no queue exceeds its capacity, and numbers do
\* not outrun the publish() calls.
THEOREM TypeCorrect == Spec => []TypeOK
<1>1. Spec => []TypeInv
  BY TypeInit, TypeStep, PTL DEF Spec
<1>2. TypeInv => TypeOK
  BY DEF TypeInv
<1>3. QED
  BY <1>1, <1>2, PTL

-----------------------------------------------------------------------------
(* Stopping. *)

\* Where an owner's thread is once subscribe() has started the worker.
Past == {"subscribed", "close", "join", "done", "threw"}

\* A worker leaves an empty closed queue only, is joined only after it left, and exists
\* exactly when subscribe() is through; unsubscribe() returns only when it left.
WorkerShape ==
    \A s \in Subscribers :
        /\ sub[s].worker = "exited" => sub[s].queue.closed /\ sub[s].queue.items = <<>>
        /\ sub[s].join = "joined" => sub[s].worker = "exited"
        /\ sub[s].worker # "none" <=> owner[s].pc \in Past
        /\ owner[s].pc = "done" => sub[s].worker = "exited"

\* shutdown() has seen off those it found subscribed and has no longer on its list.
ReadyShape ==
    \A s \in stop.ready :
        /\ owner[s].pc \in Past
        /\ stop.pc \in {"close", "join", "returned"} /\ s \notin ToSet(stop.all)
             => sub[s].worker = "exited"

QuietInv == WorkerShape /\ ReadyShape

\* A step keeps WorkerShape, and no worker comes back.
LEMMA WorkerKept ==
    ASSUME TypeInv, WorkerShape, [Next]_vars, NEW s \in Subscribers
    PROVE  /\ sub'[s].worker = "exited" => sub'[s].queue.closed /\ sub'[s].queue.items = <<>>
           /\ sub'[s].join = "joined" => sub'[s].worker = "exited"
           /\ sub'[s].worker # "none" <=> owner'[s].pc \in Past
           /\ owner'[s].pc = "done" => sub'[s].worker = "exited"
           /\ sub[s].worker = "exited" => sub'[s].worker = "exited"
           /\ owner[s].pc \in Past => owner'[s].pc \in Past
<1> DEFINE Good == /\ sub'[s].worker = "exited" => sub'[s].queue.closed /\ sub'[s].queue.items = <<>>
                   /\ sub'[s].join = "joined" => sub'[s].worker = "exited"
                   /\ sub'[s].worker # "none" <=> owner'[s].pc \in Past
                   /\ owner'[s].pc = "done" => sub'[s].worker = "exited"
                   /\ sub[s].worker = "exited" => sub'[s].worker = "exited"
                   /\ owner[s].pc \in Past => owner'[s].pc \in Past
<1>1. SubStep(s)
  BY SubscriberSteps DEF SubSteps, SubStepTyped
<1>2. /\ sub[s].worker = "exited" => sub[s].queue.closed /\ sub[s].queue.items = <<>>
      /\ sub[s].join = "joined" => sub[s].worker = "exited"
      /\ sub[s].worker # "none" <=> owner[s].pc \in Past
      /\ owner[s].pc = "done" => sub[s].worker = "exited"
  BY DEF WorkerShape
<1>3. sub[s].queue \in Queue(Envelope)
  BY FourTypes
<1>4. ASSUME Quiet(s) \/ Refused(s), owner'[s].pc = owner[s].pc
      PROVE  Good
  BY <1>2, <1>4 DEF Quiet, Refused, SameWorker, SameQueue
<1>5. ASSUME NEW env, Receives(s, env), owner'[s].pc = owner[s].pc
      PROVE  Good
  <2>1. /\ sub[s].worker # "exited"
        /\ sub'[s].worker = sub[s].worker /\ sub'[s].join = sub[s].join
    BY <1>2, <1>5 DEF Receives, CannotStore, SameWorker
  <2>2. QED
    BY <1>2, <1>5, <2>1
<1>6. CASE Quiet(s) /\ OwnerSame(s)
  BY <1>4, <1>6 DEF OwnerSame
<1>7. CASE Refused(s) /\ OwnerSame(s)
  BY <1>4, <1>7 DEF OwnerSame
<1>8. ASSUME NEW p \in Publishers, Receives(s, pub[p].env), OwnerSame(s)
      PROVE  Good
  BY <1>5, <1>8 DEF OwnerSame
<1>9. CASE Replays(s)
  BY <1>4, <1>5, <1>9 DEF Replays
<1>10. CASE Quiet(s) /\ OwnerMoves(s, "idle", "refused")
  BY <1>2, <1>10 DEF Quiet, OwnerMoves, Past
<1>11. ASSUME NEW t \in Topics, NEW type \in Types, NEW qos \in Requested,
              Subscribes(s, t, type, qos)
       PROVE  Good
  <2>1. /\ owner[s].pc = "idle" /\ owner'[s].pc = "replay"
        /\ sub'[s].worker = Subscription0.worker /\ sub'[s].join = "no"
    BY <1>11 DEF Subscribes, SameWorker
  <2>2. Subscription0.worker = "none"
    BY DEF Subscription0
  <2>3. QED
    BY <1>2, <2>1, <2>2 DEF Past
<1>12. CASE Starts(s)
  BY <1>2, <1>12 DEF Starts, SameQueue, Past
<1>13. CASE (Pops(s) \/ Expires(s) \/ Delivers(s) \/ Returns(s)) /\ OwnerSame(s)
  BY <1>2, <1>13 DEF Pops, Expires, Delivers, Returns, OwnerSame
<1>14. CASE Exits(s) /\ OwnerSame(s)
  BY <1>2, <1>14 DEF Exits, OwnerSame, SameQueue
<1>15. CASE Quiet(s) /\ OwnerMoves(s, "subscribed", "close")
  BY <1>2, <1>15 DEF Quiet, OwnerMoves, Past
<1>16. ASSUME Closes(s)
       PROVE  /\ sub'[s].worker = sub[s].worker
              /\ sub'[s].queue.closed = TRUE /\ sub'[s].queue.items = sub[s].queue.items
              /\ sub'[s].join = "joined" => sub[s].join = "joined"
  <2>1. /\ sub'[s].queue = CloseQueue(sub[s].queue)
        /\ sub'[s].worker = sub[s].worker
        /\ sub'[s].join = IF Joinable(s) THEN "claimed" ELSE sub[s].join
    BY <1>16 DEF Closes, SameWorker
  <2>2. QED
    BY <1>3, <2>1, CloseQueueProperties
<1>17. CASE Closes(s) /\ OwnerMoves(s, "close", AfterClose(s, "done"))
  <2> DEFINE to == AfterClose(s, "done")
  <2>1. owner[s].pc = "close" /\ owner'[s].pc = to
    BY <1>17 DEF OwnerMoves
  <2>2. to \in {"done", "threw", "join"} /\ (to = "done" => ~Joinable(s))
    BY AfterCloseValues
  <2> HIDE DEF to
  <2>3. sub[s].worker # "none"
    BY <1>2, <2>1 DEF Past
  <2>4. to = "done" => sub[s].worker = "exited"
    BY <1>2, <2>2, <2>3 DEF Joinable
  <2>5. QED
    BY <1>2, <1>16, <1>17, <2>1, <2>2, <2>3, <2>4 DEF Past
<1>18. CASE Closes(s) /\ OwnerSame(s)
  BY <1>2, <1>16, <1>18 DEF OwnerSame
<1>19. CASE Joins(s) /\ OwnerMoves(s, "join", "done")
  BY <1>2, <1>19 DEF Joins, OwnerMoves, SameWorker, SameQueue, Past
<1>20. CASE Joins(s) /\ OwnerSame(s)
  BY <1>2, <1>20 DEF Joins, OwnerSame, SameWorker, SameQueue
<1>21. QED
  BY <1>1, <1>6, <1>7, <1>8, <1>9, <1>10, <1>11, <1>12, <1>13, <1>14, <1>15, <1>17, <1>18, <1>19,
     <1>20 DEF SubStep

\* A step keeps QuietInv.
LEMMA QuietStep == TypeInv /\ QuietInv /\ [Next]_vars => QuietInv'
<1> SUFFICES ASSUME TypeInv, QuietInv, [Next]_vars
             PROVE  QuietInv'
  OBVIOUS
<1>1. WorkerShape
  BY DEF QuietInv
<1>2. WorkerShape'
  BY <1>1, WorkerKept DEF WorkerShape
<1>3. stop \in StopRec /\ stop.ready \subseteq Subscribers /\ stop.all \in Seq(Subscribers)
  BY TypeParts DEF TypeInv, StopRec
<1>4. ReadyShape'
  <2>1. stop' = stop \/ Begins \/ Proceeds
    BY StopSteps DEF StopStep
  <2>2. CASE stop' = stop
    BY <1>1, <1>3, <2>2, WorkerKept DEF QuietInv, ReadyShape
  <2>3. CASE Begins
    <3>1. stop'.ready = {s \in ToSet(stop'.all) : owner[s].pc = "subscribed"}
      BY <2>3 DEF Begins
    <3>2. stop' \in StopRec
      BY StopSteps DEF StopStep
    <3>3. stop'.ready \subseteq Subscribers
      BY <3>2 DEF StopRec
    <3>4. \A s \in stop'.ready : s \in ToSet(stop'.all) /\ owner'[s].pc \in Past
      BY <1>1, <3>1, <3>3, WorkerKept DEF Past
    <3>5. QED
      BY <3>4 DEF ReadyShape
  <2>4. CASE Proceeds
    <3> DEFINE h == Head(stop.all)
    <3>1. /\ h \in Subscribers /\ stop.all # <<>>
          /\ \/ stop.pc = "close" /\ stop'.pc = AfterClose(h, NextToStop)
             \/ stop.pc = "join" /\ sub[h].worker = "exited" /\ stop'.pc = NextToStop
          /\ stop'.all = (IF stop'.pc = "join" THEN stop.all ELSE Tail(stop.all))
          /\ stop'.ready = stop.ready
      BY <2>4 DEF Proceeds
    <3>2. /\ NextToStop \in {"returned", "close"}
          /\ ToSet(stop.all) = {h} \cup ToSet(Tail(stop.all))
      BY <1>3, <3>1, NextToStopValues
    <3> HIDE DEF h
    <3>3. ASSUME NEW s \in stop.ready
          PROVE  /\ owner'[s].pc \in Past
                 /\ stop'.pc \in {"close", "join", "returned"} /\ s \notin ToSet(stop'.all)
                      => sub'[s].worker = "exited"
      <4>1. s \in Subscribers /\ owner[s].pc \in Past /\ owner'[s].pc \in Past
        BY <1>1, <1>3, WorkerKept DEF QuietInv, ReadyShape
      <4>2. s \notin ToSet(stop.all) => sub[s].worker = "exited"
        BY <3>1 DEF QuietInv, ReadyShape
      <4>3. sub[s].worker = "exited" => sub'[s].worker = "exited"
        BY <1>1, <4>1, WorkerKept
      <4>4. ASSUME stop'.pc \in {"close", "returned"}, s = h
            PROVE  sub[s].worker = "exited"
        <5>1. CASE stop.pc = "join" /\ sub[h].worker = "exited"
          BY <4>4, <5>1
        <5>2. CASE stop.pc = "close" /\ stop'.pc = AfterClose(h, NextToStop)
          <6>1. AfterClose(h, NextToStop) \notin {"threw", "join"}
            BY <4>4, <5>2
          <6>2. ~Joinable(h)
            BY <6>1 DEF AfterClose
          <6>3. sub[h].worker # "none"
            BY <1>1, <4>1, <4>4 DEF WorkerShape
          <6>4. QED
            BY <1>1, <3>1, <4>4, <6>2, <6>3 DEF Joinable, WorkerShape
        <5>3. QED
          BY <3>1, <5>1, <5>2
      <4>5. QED
        BY <3>1, <3>2, <4>1, <4>2, <4>3, <4>4
    <3>4. QED
      BY <3>1, <3>3 DEF ReadyShape
  <2>5. QED
    BY <2>1, <2>2, <2>3, <2>4
<1>5. QED
  BY <1>2, <1>4 DEF QuietInv

\* QuietInv holds initially.
LEMMA QuietInit == Init => QuietInv
<1> SUFFICES ASSUME Init
             PROVE  QuietInv
  OBVIOUS
<1>1. /\ \A s \in Subscribers : sub[s] = Subscription0 /\ owner[s].pc = "idle"
      /\ stop.ready = {}
  BY DEF Init
<1>2. Subscription0.worker = "none" /\ Subscription0.join = "no"
  BY DEF Subscription0
<1>3. QED
  BY <1>1, <1>2 DEF QuietInv, WorkerShape, ReadyShape, Past

\* When unsubscribe() has returned, or shutdown() for a subscriber it found fully
\* subscribed, its worker has left deliver_loop for good and nothing is queued.
THEOREM StopsQuietly == Spec => []StoppedMeansQuiet
<1>2. Spec => [](TypeInv /\ QuietInv)
  BY QuietInit, TypeInit, TypeStep, QuietStep, PTL DEF Spec
<1>3. TypeInv /\ QuietInv => StoppedMeansQuiet
  <2> SUFFICES ASSUME TypeInv, QuietInv, NEW s \in Subscribers,
                      owner[s].pc = "done" \/ (stop.pc = "returned" /\ s \in stop.ready)
               PROVE  sub[s].worker = "exited" /\ sub[s].queue.items = <<>>
    BY DEF StoppedMeansQuiet
  <2>1. stop.pc = "returned" => ToSet(stop.all) = {}
    BY ToSetEmpty DEF TypeInv, StopShape
  <2>2. sub[s].worker = "exited"
    BY <2>1 DEF QuietInv, WorkerShape, ReadyShape
  <2>3. QED
    BY <2>2 DEF QuietInv, WorkerShape
<1>4. QED
  BY <1>2, <1>3, PTL

-----------------------------------------------------------------------------
(* What publish() promises. *)

\* subscribe() has succeeded, or is about to, for s.
Known(s) == owner[s].pc \notin {"idle", "refused"}

\* The message with number n is queued at s, in the worker's hands or behind it.
Has(s, n) ==
    \/ \E i \in DOMAIN taken[s] : taken[s][i].env.seq = n
    \/ \E i \in DOMAIN sub[s].queue.items : sub[s].queue.items[i].seq = n
    \/ sub[s].held.seq = n

Reliably(s, n) == sub[s].qos.reliability = "Reliable" => Has(s, n)

\* A worker holds a message only between taking it and judging it.
HeldShape == \A s \in Subscribers : sub[s].worker # "judge" => sub[s].held = Env0

\* The queue of a Reliable subscriber never drops what it accepted.
PolicyShape ==
    \A s \in Subscribers :
        sub[s].qos.reliability = "Reliable" => sub[s].queue.policy = "Block"

\* Only subscribers that exist are on a list.
ListedShape == \A t \in Topics : \A s \in ToSet(topics[t].subs) : Known(s)

\* A call that has not failed so far has delivered to the targets it is through with.
Promised(p) ==
    /\ ToSet(pub[p].targets) \subseteq pub[p].aimed
    /\ \A s \in pub[p].aimed : Known(s)
    /\ pub[p].ok => \A s \in pub[p].aimed \ ToSet(pub[p].targets) :
                        Reliably(s, pub[p].env.seq)
AimedShape == \A p \in Publishers : pub[p].pc \in {"report", "push"} => Promised(p)

ReceiptShape == \A r \in receipts : \A s \in r.aimed : Known(s) /\ Reliably(s, r.seq)

PromiseInv == HeldShape /\ PolicyShape /\ ListedShape /\ AimedShape /\ ReceiptShape

\* A subscriber stays known, with its QoS.
LEMMA KnownKept ==
    ASSUME TypeInv, [Next]_vars, NEW s \in Subscribers, Known(s)
    PROVE  Known(s)' /\ SameSetup(sub'[s], sub[s])
<1>1. SubStep(s)
  BY SubscriberSteps DEF SubSteps, SubStepTyped
<1>2. AfterClose(s, "done") \notin {"idle", "refused"}
  BY AfterCloseValues
<1>3. ~(Quiet(s) /\ OwnerMoves(s, "idle", "refused"))
  BY DEF Known, OwnerMoves
<1>4. ~\E t \in Topics, type \in Types, qos \in Requested : Subscribes(s, t, type, qos)
  BY DEF Known, Subscribes
<1>5. SameSetup(sub'[s], sub[s])
  BY <1>1, <1>3, <1>4 DEF SubStep, Quiet, Refused, Receives, Replays, Starts, Pops, Expires,
       Delivers, Returns, Exits, Closes, Joins, SameSetup
<1>6. owner'[s].pc \notin {"idle", "refused"}
  BY <1>1, <1>2, <1>3, <1>4 DEF SubStep, OwnerSame, OwnerMoves, Replays, Starts, Known
<1>7. QED
  BY <1>5, <1>6 DEF Known

\* What was accepted by a Reliable subscriber is never lost.
LEMMA HasKept ==
    ASSUME TypeInv, HeldShape, PolicyShape, [Next]_vars, NEW s \in Subscribers,
           NEW n \in 1..MaxPublish, Known(s), sub[s].qos.reliability = "Reliable", Has(s, n)
    PROVE  Has(s, n)'
<1> DEFINE T == taken[s]
           I == sub[s].queue.items
           T1 == taken'[s]
           I1 == sub'[s].queue.items
           InT(l) == \E i \in DOMAIN l : l[i].env.seq = n
           InI(l) == \E i \in DOMAIN l : l[i].seq = n
<1>1. SubStep(s) /\ SubStep(s) /\ sub'[s] \in SubRec
  BY SubscriberSteps DEF SubSteps, SubStepTyped
<1>2. InT(T) \/ InI(I) \/ sub[s].held.seq = n
  BY DEF Has
<1>3. Has(s, n)' <=> InT(T1) \/ InI(I1) \/ sub'[s].held.seq = n
  BY DEF Has
<1>4. T \in Seq(TakenRec) /\ I \in Seq(Envelope) /\ sub[s].queue \in Queue(Envelope)
      /\ Len(I) <= sub[s].queue.capacity
  BY FourTypes
<1>5. n # 0 /\ Env0.seq = 0
  BY DEF Env0
<1>6. ASSUME taken'[s] = taken[s], SameQueue(sub'[s], sub[s]), sub'[s].held = sub[s].held
      PROVE  Has(s, n)'
  BY <1>2, <1>3, <1>6 DEF SameQueue
<1>7. ASSUME NEW env \in Envelope, Receives(s, env)
      PROVE  Has(s, n)'
  <2>1. /\ ~CannotStore(s) /\ sub'[s].queue = Stored(sub[s].queue, env)
        /\ T1 = T /\ sub'[s].held = sub[s].held
    BY <1>7 DEF Receives, SameWorker
  <2>2. ~IsFull(sub[s].queue)
    BY <2>1 DEF CannotStore, PolicyShape
  <2> DEFINE q == Stored(sub[s].queue, env)
  <2>3. q.items = Append(IF IsFull(sub[s].queue) THEN Tail(I) ELSE I, env)
    BY <1>4, StoredProperties
  <2> HIDE DEF q
  <2>6. I1 = Append(I, env)
    BY <2>1, <2>2, <2>3 DEF q
  <2> HIDE DEF I, T, I1, T1
  <2>4. InI(I) => InI(I1)
    BY <1>4, <2>6
  <2>5. QED
    BY <1>2, <1>3, <2>1, <2>4
<1>8. CASE Pops(s)
  <2>1. /\ T1 = T /\ sub[s].worker = "pop" /\ I # <<>>
        /\ sub'[s].queue = Dequeue(sub[s].queue)
        /\ sub'[s].held = Head(I)
    BY <1>8 DEF Pops, LogSame
  <2>2. I1 = Tail(I)
    BY <1>4, <2>1, DequeueProperties
  <2>3. sub[s].held.seq = 0
    BY <1>5, <2>1 DEF HeldShape
  <2> HIDE DEF I, T, I1, T1
  <2>4. ASSUME InI(I)
        PROVE  InI(I1) \/ sub'[s].held.seq = n
    <3>1. PICK i \in DOMAIN I : I[i].seq = n
      BY <2>4
    <3>2. CASE i = 1
      BY <1>4, <2>1, <3>1, <3>2
    <3>3. CASE i # 1
      <4>1. i - 1 \in DOMAIN I1 /\ I1[i - 1] = I[i]
        BY <1>4, <2>1, <2>2, <3>3
      <4>2. QED
        BY <3>1, <4>1
    <3>4. QED
      BY <3>2, <3>3
  <2>5. QED
    BY <1>2, <1>3, <1>5, <2>1, <2>3, <2>4
<1>9. CASE Expires(s) \/ Delivers(s)
  <2>1. PICK f \in {"expired", "callback"} :
           T1 = Append(T, [env |-> sub[s].held, at |-> now, fate |-> f])
    BY <1>9 DEF Expires, Delivers
  <2>2. I1 = I
    BY <1>9 DEF Expires, Delivers, SameQueue
  <2> DEFINE l == [env |-> sub[s].held, at |-> now, fate |-> f]
  <2>3. l \in TakenRec /\ l.env = sub[s].held
    BY FourTypes DEF TakenRec
  <2> HIDE DEF I, T, I1, T1, l
  <2>4. InT(T) => InT(T1)
    BY <1>4, <2>1, <2>3 DEF l
  <2>5. sub[s].held.seq = n => InT(T1)
    <3>1. T1 = Append(T, l)
      BY <2>1 DEF l
    <3>2. Len(T) + 1 \in DOMAIN T1 /\ T1[Len(T) + 1] = l
      BY <1>4, <2>3, <3>1
    <3>3. QED
      BY <2>3, <3>2
  <2>6. QED
    BY <1>2, <1>3, <2>2, <2>4, <2>5
<1>10. ASSUME Closes(s)
       PROVE  Has(s, n)'
  <2>1. sub'[s].queue = CloseQueue(sub[s].queue) /\ T1 = T /\ sub'[s].held = sub[s].held
    BY <1>10 DEF Closes, SameWorker, LogSame
  <2>2. I1 = I
    BY <1>4, <2>1, CloseQueueProperties
  <2>3. QED
    BY <1>2, <1>3, <2>1, <2>2
<1>11. ASSUME Quiet(s)
       PROVE  Has(s, n)'
  BY <1>6, <1>11 DEF Quiet, LogSame, SameQueue
<1>12. ASSUME Refused(s) \/ Starts(s) \/ Returns(s) \/ Exits(s) \/ Joins(s)
       PROVE  Has(s, n)'
  BY <1>6, <1>12 DEF Refused, Starts, Returns, Exits, Joins, SameWorker, LogSame
<1>13. ASSUME Replays(s)
       PROVE  Has(s, n)'
  <2>1. owner[s].backlog # <<>> /\ (Receives(s, Head(owner[s].backlog)) \/ Quiet(s))
    BY <1>13 DEF Replays
  <2>2. Head(owner[s].backlog) \in Envelope
    BY <2>1, FourTypes
  <2>3. QED
    BY <1>7, <1>11, <2>1, <2>2
<1>14. ASSUME NEW p \in Publishers, Receives(s, pub[p].env)
       PROVE  Has(s, n)'
  BY <1>7, <1>14, PubTypes
<1>15. ~\E t \in Topics, type \in Types, qos \in Requested : Subscribes(s, t, type, qos)
  BY DEF Known, Subscribes
<1>16. QED
  BY <1>1, <1>8, <1>9, <1>10, <1>11, <1>12, <1>13, <1>14, <1>15 DEF SubStep


\* What a subscriber has been promised, it keeps.
LEMMA StillReliable ==
    ASSUME TypeInv, HeldShape, PolicyShape, [Next]_vars, NEW s \in Subscribers,
           NEW n \in 1..MaxPublish, Known(s)
    PROVE  Known(s)' /\ (Reliably(s, n) => Reliably(s, n)')
<1>1. Known(s)' /\ sub'[s].qos = sub[s].qos
  BY KnownKept DEF SameSetup
<1>2. sub[s].qos.reliability = "Reliable" /\ Has(s, n) => Has(s, n)'
  BY HasKept
<1>3. QED
  BY <1>1, <1>2 DEF Reliably

\* The target of a successful push has the message.
LEMMA PushedIsThere ==
    ASSUME TypeInv, NEW p \in Publishers, push_target(p),
           NEW s \in Subscribers, s = Head(pub[p].targets), NEW k, k = pub[p].env.seq
    PROVE  Has(s, k)'
<1> DEFINE env == pub[p].env
<1>1. env \in Envelope
  BY FirstTarget
<1>2. Store(s, env) /\ UNCHANGED taken
  BY DEF push_target
<1> HIDE DEF env
<1>4. Receives(s, env)
  BY <1>1, <1>2, StoreStep
<1> DEFINE qu == sub[s].queue
           a == IF IsFull(qu) THEN Tail(qu.items) ELSE qu.items
           q == Stored(qu, env)
<1>3. qu \in Queue(Envelope) /\ Len(qu.items) <= qu.capacity /\ qu.items \in Seq(Envelope)
  BY FourTypes
<1>6. sub'[s].queue = q
  BY <1>4 DEF Receives
<1> HIDE DEF qu
<1>5. q.items = Append(a, env) /\ (IsFull(qu) => qu.items # <<>>)
  BY <1>1, <1>3, StoredProperties
<1> HIDE DEF q
<1>7. a \in Seq(Envelope)
  BY <1>3, <1>5
<1> HIDE DEF a
<1> DEFINE l == sub'[s].queue.items
<1>8. l = Append(a, env)
  BY <1>5, <1>6
<1> HIDE DEF l
<1>9. Len(a) + 1 \in DOMAIN l /\ l[Len(a) + 1] = env
  BY <1>1, <1>7, <1>8
<1>10. \E i \in DOMAIN l : l[i].seq = k
  BY <1>9 DEF env
<1>11. QED
  BY <1>10, Zenon DEF Has, l

\* A call under way keeps its promise so far, and so does one that returns by this step.
LEMMA PromisedKept ==
    ASSUME TypeInv, PromiseInv, [Next]_vars, NEW p \in Publishers
    PROVE  /\ pub'[p].pc \in {"report", "push"} => Promised(p)'
           /\ Numbers(p) \/ Reports(p) \/ Pushes(p) => Promised(p)'
<1> USE DEF PromiseInv
<1>1. PubStep(p)
  BY PublisherSteps DEF PubSteps
<1>2. /\ pub[p] \in PubRec /\ pub[p].aimed \subseteq Subscribers
      /\ pub[p].targets \in Seq(Subscribers)
  BY PubTypes DEF PubRec
<1> DEFINE n == pub'[p]
           Kept(s) == \A k \in 1..MaxPublish : k = n.env.seq => Reliably(s, k)'
<1>3. ASSUME /\ ToSet(n.targets) \subseteq n.aimed
             /\ n.env.seq \in 1..MaxPublish
             /\ \A s \in n.aimed : Known(s)'
             /\ n.ok => \A s \in n.aimed \ ToSet(n.targets) : Kept(s)
      PROVE  Promised(p)'
  BY <1>3, Zenon DEF Promised, Reliably, Has, Known
<1>4. pub[p].pc \in {"report", "push"} => Promised(p) /\ pub[p].env.seq \in 1..MaxPublish
  BY DEF AimedShape, TypeInv, PublisherShape
<1>5. ASSUME pub[p].pc \in {"report", "push"}, n.aimed = pub[p].aimed, n.env = pub[p].env
      PROVE  /\ ToSet(pub[p].targets) \subseteq n.aimed
             /\ n.env.seq \in 1..MaxPublish
             /\ \A s \in n.aimed : Known(s)'
             /\ pub[p].ok => \A s \in n.aimed \ ToSet(pub[p].targets) : Kept(s)
  <2>1. /\ ToSet(pub[p].targets) \subseteq n.aimed
        /\ n.env.seq \in 1..MaxPublish
        /\ \A s \in n.aimed : Known(s) /\ s \in Subscribers
        /\ pub[p].ok => \A s \in n.aimed \ ToSet(pub[p].targets) : Reliably(s, pub[p].env.seq)
    BY <1>2, <1>4, <1>5 DEF Promised
  <2>2. \A s \in n.aimed : Known(s)'
    BY <2>1, StillReliable
  <2>3. ASSUME pub[p].ok, NEW s \in n.aimed \ ToSet(pub[p].targets),
               NEW k \in 1..MaxPublish, k = n.env.seq
        PROVE  Reliably(s, k)'
    <3>1. s \in Subscribers /\ Known(s) /\ Reliably(s, k)
      BY <1>5, <2>1, <2>3
    <3>2. QED
      BY <3>1, StillReliable
  <2>4. QED
    BY <2>1, <2>2, <2>3
<1>6. CASE n = pub[p]
  <2>1. ~(Numbers(p) \/ Reports(p) \/ Pushes(p))
    <3>1. ~Numbers(p)
      BY <1>6 DEF Numbers, Goes
    <3>2. ~Reports(p)
      BY <1>6 DEF Reports, Goes
    <3>3. ~Pushes(p)
      <4>1. Pushes(p) => pub[p].targets # <<>> /\ Tail(pub[p].targets) = pub[p].targets
        BY <1>6 DEF Pushes, TypeInv, PublisherShape
      <4> DEFINE a == pub[p].targets
                 b == Tail(a)
      <4>2. a # <<>> => Len(b) = Len(a) - 1 /\ Len(a) \in Nat
        BY <1>2
      <4>3. Pushes(p) => a # <<>> /\ b = a
        BY <4>1
      <4> HIDE DEF a, b
      <4>4. QED
        BY <4>2, <4>3
    <3>4. QED
      BY <3>1, <3>2, <3>3
  <2>2. QED
    BY <1>3, <1>5, <1>6, <2>1
<1>7. CASE Numbers(p)
  <2>1. /\ pub[p].pc = "lock" /\ n.targets = TargetsOf(p) /\ n.aimed = ToSet(TargetsOf(p))
        /\ n.env.seq = topics[pub[p].topic].published + 1
    BY <1>7 DEF Numbers
  <2>2. n.env.seq \in 1..MaxPublish
    BY <2>1, NextNumber
  <2>3. pub[p].topic \in Topics /\ topics[pub[p].topic].subs \in Seq(Subscribers)
    BY <2>1, PubTypes
  <2>4. ToSet(TargetsOf(p)) \subseteq ToSet(topics[pub[p].topic].subs)
    BY <2>3, OnlyElements DEF TargetsOf
  <2>5. \A s \in n.aimed : s \in Subscribers /\ Known(s)
    BY <2>1, <2>3, <2>4, ToSetType DEF ListedShape
  <2>6. \A s \in n.aimed : Known(s)'
    BY <2>5, KnownKept
  <2>7. QED
    BY <1>3, <2>1, <2>2, <2>6
<1>8. CASE Reports(p)
  <2>1. /\ pub[p].pc = "report" /\ n.env = pub[p].env /\ n.aimed = pub[p].aimed
        /\ n.targets = pub[p].targets /\ n.ok = pub[p].ok
    BY <1>8 DEF Reports, SameCall
  <2>2. QED
    BY <1>3, <1>5, <2>1
<1>9. CASE Pushes(p)
  <2>1. /\ pub[p].pc = "push" /\ n.env = pub[p].env /\ n.aimed = pub[p].aimed
        /\ n.targets = Tail(pub[p].targets)
        /\ (push_target(p) /\ n.ok = pub[p].ok) \/ n.ok = FALSE
    BY <1>9 DEF Pushes, SameCall
  <2>2. pub[p].targets # <<>>
    BY <2>1 DEF TypeInv, PublisherShape
  <2>3. /\ Head(pub[p].targets) \in Subscribers
        /\ ToSet(pub[p].targets) = {Head(pub[p].targets)} \cup ToSet(n.targets)
    BY <1>2, <2>1, <2>2, ToSetHeadTail
  <2>4. ASSUME n.ok, NEW s \in n.aimed \ ToSet(n.targets)
        PROVE  Kept(s)
    <3>1. push_target(p) /\ pub[p].ok
      BY <2>1, <2>4
    <3>2. CASE s = Head(pub[p].targets)
      <4>1. ASSUME NEW k \in 1..MaxPublish, k = n.env.seq
            PROVE  Has(s, k)'
        BY <2>1, <2>3, <3>1, <3>2, <4>1, PushedIsThere
      <4>2. QED
        BY <4>1 DEF Reliably
    <3>3. CASE s # Head(pub[p].targets)
      BY <1>5, <2>1, <2>3, <2>4, <3>1, <3>3
    <3>4. QED
      BY <3>2, <3>3
  <2> HIDE DEF Kept
  <2>5. QED
    BY <1>3, <1>5, <2>1, <2>3, <2>4
<1>10. ASSUME ~(Numbers(p) \/ Reports(p) \/ Pushes(p)), n # pub[p]
       PROVE  n.pc \notin {"report", "push"}
  BY <1>1, <1>10 DEF PubStep, Advertises, Calls, WrongType
<1>11. QED
  BY <1>6, <1>7, <1>8, <1>9, <1>10


\* Who gets a receipt: only the call that this step makes return.
LEMMA ReceiptSteps ==
    ASSUME TypeInv, [Next]_vars
    PROVE  \/ receipts' = receipts
           \/ \E p \in Publishers :
                /\ Numbers(p) \/ Reports(p) \/ Pushes(p)
                /\ pub'[p].pc = "idle" /\ pub'[p].ok /\ Goes(pub'[p])
                /\ receipts' = receipts \cup {Receipt(pub'[p])}
<1>1. ASSUME NEW p \in Publishers, NEW t \in Topics, NEW type \in Types, NEW qos \in Offered,
             advertise(p, t, type, qos)
      PROVE  receipts' = receipts
  BY <1>1 DEF advertise, historyVars
<1>2. ASSUME NEW p \in Publishers, publish(p) \/ publish_wrong_type(p)
      PROVE  receipts' = receipts
  BY <1>2 DEF publish, publish_wrong_type, historyVars
<1>3. OtherStep => receipts' = receipts
  BY OtherStepFrame
<1>4. ASSUME NEW p \in Publishers, Numbers(p) \/ Reports(p) \/ Pushes(p)
      PROVE  \/ receipts' = receipts
             \/ /\ pub'[p].pc = "idle" /\ pub'[p].ok /\ Goes(pub'[p])
                /\ receipts' = receipts \cup {Receipt(pub'[p])}
  <2>1. Goes(pub'[p]) /\ Records(pub'[p])
    BY <1>4 DEF Numbers, Reports, Pushes
  <2>2. QED
    BY <2>1 DEF Records
<1>5. ASSUME NEW p \in Publishers, publish_erased(p)
      PROVE  Numbers(p)
  BY <1>5, NumberStep
<1>6. ASSUME NEW p \in Publishers, report_mismatches(p) \/ push_target(p) \/ push_fails(p)
      PROVE  Reports(p) \/ Pushes(p)
  BY <1>6, AfterLockStep
<1>7. QED
  BY <1>1, <1>2, <1>3, <1>4, <1>5, <1>6, StepKinds

\* A step keeps HeldShape and PolicyShape.
LEMMA HeldKept ==
    ASSUME TypeInv, WorkerShape, HeldShape, PolicyShape, [Next]_vars
    PROVE  HeldShape' /\ PolicyShape'
<1> SUFFICES ASSUME NEW s \in Subscribers
             PROVE  /\ sub'[s].worker # "judge" => sub'[s].held = Env0
                    /\ sub'[s].qos.reliability = "Reliable" => sub'[s].queue.policy = "Block"
  BY DEF HeldShape, PolicyShape
<1> DEFINE Good == /\ sub'[s].worker # "judge" => sub'[s].held = Env0
                   /\ sub'[s].qos.reliability = "Reliable" => sub'[s].queue.policy = "Block"
<1>1. SubStep(s)
  BY SubscriberSteps DEF SubSteps, SubStepTyped
<1>2. /\ sub[s].worker # "judge" => sub[s].held = Env0
      /\ sub[s].qos.reliability = "Reliable" => sub[s].queue.policy = "Block"
  BY DEF HeldShape, PolicyShape
<1>3. sub[s].queue \in Queue(Envelope) /\ Len(sub[s].queue.items) <= sub[s].queue.capacity
  BY FourTypes
<1>4. ASSUME \/ Quiet(s) \/ Refused(s) \/ Starts(s) \/ Expires(s) \/ Delivers(s) \/ Returns(s)
             \/ Exits(s) \/ Joins(s)
      PROVE  Good
  <2>1. CASE Quiet(s)
    BY <1>2, <2>1 DEF Quiet
  <2>2. CASE Refused(s) \/ Joins(s)
    BY <1>2, <2>2 DEF Refused, Joins, SameWorker, SameQueue, SameSetup
  <2>3. CASE Expires(s) \/ Delivers(s)
    BY <1>2, <2>3 DEF Expires, Delivers, SameQueue, SameSetup
  <2>4. CASE Returns(s) \/ Exits(s)
    BY <1>2, <2>4 DEF Returns, Exits, SameQueue, SameSetup
  <2>5. CASE Starts(s)
    <3>1. sub[s].worker = "none"
      BY <2>5 DEF Starts, WorkerShape, Past
    <3>2. QED
      BY <1>2, <2>5, <3>1 DEF Starts, SameQueue, SameSetup
  <2>6. QED
    BY <1>4, <2>1, <2>2, <2>3, <2>4, <2>5
<1>5. ASSUME NEW env \in Envelope, Receives(s, env)
      PROVE  Good
  <2>1. /\ sub'[s].queue = Stored(sub[s].queue, env) /\ sub'[s].qos = sub[s].qos
        /\ sub'[s].worker = sub[s].worker /\ sub'[s].held = sub[s].held
    BY <1>5 DEF Receives, SameWorker, SameSetup
  <2>2. Stored(sub[s].queue, env).policy = sub[s].queue.policy
    BY <1>3, StoredProperties
  <2>3. QED
    BY <1>2, <2>1, <2>2
<1>6. ASSUME NEW p \in Publishers, Receives(s, pub[p].env)
      PROVE  Good
  BY <1>5, <1>6, PubTypes
<1>7. CASE Replays(s)
  <2>1. Quiet(s) \/ (owner[s].backlog # <<>> /\ Receives(s, Head(owner[s].backlog)))
    BY <1>7 DEF Replays
  <2>2. owner[s].backlog # <<>> => Head(owner[s].backlog) \in Envelope
    BY FourTypes
  <2>3. QED
    BY <1>4, <1>5, <2>1, <2>2
<1>8. ASSUME NEW t \in Topics, NEW type \in Types, NEW qos \in Requested,
             Subscribes(s, t, type, qos)
      PROVE  Good
  <2>1. Subscription0.held = Env0
    BY DEF Subscription0
  <2>2. QED
    BY <1>8, <2>1 DEF Subscribes, SameWorker
<1>9. CASE Pops(s)
  <2>1. /\ sub'[s].queue = Dequeue(sub[s].queue) /\ sub'[s].qos = sub[s].qos
        /\ sub[s].queue.items # <<>> /\ sub'[s].worker = "judge"
    BY <1>9 DEF Pops, SameSetup
  <2>2. Dequeue(sub[s].queue).policy = sub[s].queue.policy
    BY <1>3, <2>1, DequeueProperties
  <2>3. QED
    BY <1>2, <2>1, <2>2
<1>10. CASE Closes(s)
  <2>1. /\ sub'[s].queue = CloseQueue(sub[s].queue) /\ sub'[s].qos = sub[s].qos
        /\ sub'[s].worker = sub[s].worker /\ sub'[s].held = sub[s].held
    BY <1>10 DEF Closes, SameSetup, SameWorker
  <2>2. CloseQueue(sub[s].queue).policy = sub[s].queue.policy
    BY <1>3, CloseQueueProperties
  <2>3. QED
    BY <1>2, <2>1, <2>2
<1>11. QED
  BY <1>1, <1>4, <1>6, <1>7, <1>8, <1>9, <1>10 DEF SubStep

\* A step lists only subscribers that exist.
LEMMA ListedKept ==
    ASSUME TypeInv, ListedShape, [Next]_vars
    PROVE  ListedShape'
<1> SUFFICES ASSUME NEW t \in Topics, NEW s \in ToSet(topics'[t].subs)
             PROVE  Known(s)'
  BY DEF ListedShape
<1> DEFINE n == topics'[t]
           r == topics[t]
<1>1. TopicStep(t) /\ n \in EntryRec
  BY AllTopicSteps DEF TopicSteps
<1>2. n.subs \in Seq(Subscribers) /\ r.subs \in Seq(Subscribers)
  BY <1>1, PubTypes DEF EntryRec
<1>3. s \in Subscribers
  BY <1>2, ToSetType
<1>4. ASSUME ToSet(n.subs) \subseteq ToSet(r.subs)
      PROVE  Known(s)'
  BY <1>3, <1>4, KnownKept DEF ListedShape
<1>5. CASE n.subs = r.subs
  BY <1>4, <1>5
<1>6. ASSUME NEW x \in Subscribers, n.subs = RemoveFirst(r.subs, x)
      PROVE  Known(s)'
  BY <1>2, <1>4, <1>6, RemoveFirstElements
<1>7. CASE n.subs = <<>>
  BY <1>7, ToSetEmpty
<1>8. ASSUME NEW x \in Subscribers, NEW type \in Types, NEW qos \in Requested,
             subscribe(x, t, type, qos), n.subs = Append(r.subs, x), n.latched = r.latched
      PROVE  Known(s)'
  <2>1. ToSet(n.subs) = ToSet(r.subs) \cup {x}
    BY <1>2, <1>8, ToSetAppend
  <2>2. CASE s = x
    <3>1. topics' # topics
      <4>1. n.subs # r.subs
        BY <1>2, <1>8
      <4>2. QED
        BY <4>1
    <3>3. owner'[x].pc = "replay"
      BY <1>8, <3>1, FourTypes DEF subscribe
    <3>2. QED
      BY <2>2, <3>3 DEF Known
  <2>3. QED
    BY <1>3, <2>1, <2>2, KnownKept DEF ListedShape
<1>9. QED
  BY <1>1, <1>5, <1>6, <1>7, <1>8 DEF TopicStep, SameEntry


\* A step keeps PromiseInv.
LEMMA PromiseStep == TypeInv /\ QuietInv /\ PromiseInv /\ [Next]_vars => PromiseInv'
<1> SUFFICES ASSUME TypeInv, QuietInv, PromiseInv, [Next]_vars
             PROVE  PromiseInv'
  OBVIOUS
<1>1. HeldShape /\ PolicyShape /\ ListedShape /\ AimedShape /\ ReceiptShape /\ WorkerShape
  BY DEF PromiseInv, QuietInv
<1>2. HeldShape' /\ PolicyShape' /\ ListedShape'
  BY <1>1, HeldKept, ListedKept
<1>3. AimedShape'
  BY PromisedKept DEF AimedShape
<1>4. ASSUME NEW r \in receipts
      PROVE  \A s \in r.aimed : Known(s)' /\ Reliably(s, r.seq)'
  <2>1. r \in ReceiptRec
    BY PubTypes
  <2>2. r.seq \in 1..MaxPublish /\ r.aimed \subseteq Subscribers
    BY <2>1 DEF ReceiptRec
  <2>3. QED
    BY <1>1, <2>2, StillReliable DEF ReceiptShape
<1>5. ASSUME NEW p \in Publishers,
             Numbers(p) \/ Reports(p) \/ Pushes(p),
             pub'[p].pc = "idle", pub'[p].ok, Goes(pub'[p]),
             NEW r, r = Receipt(pub'[p])
      PROVE  \A s \in r.aimed : Known(s)' /\ Reliably(s, r.seq)'
  <2>1. pub'[p].targets = <<>>
    BY <1>5 DEF Goes
  <2>2. Promised(p)'
    BY <1>5, PromisedKept
  <2>3. r.aimed = pub'[p].aimed /\ r.seq = pub'[p].env.seq
    BY <1>5 DEF Receipt
  <2>4. ToSet(pub'[p].targets) = {}
    BY <2>1, ToSetEmpty
  <2>5. QED
    BY <1>5, <2>2, <2>3, <2>4, Zenon DEF Promised, Reliably, Has
<1>6. ReceiptShape'
  BY <1>4, <1>5, ReceiptSteps DEF ReceiptShape
<1>7. QED
  BY <1>2, <1>3, <1>6 DEF PromiseInv

\* PromiseInv holds initially.
LEMMA PromiseInit == Init => PromiseInv
<1> SUFFICES ASSUME Init
             PROVE  PromiseInv
  OBVIOUS
<1>1. /\ \A s \in Subscribers : sub[s] = Subscription0
      /\ \A t \in Topics : topics[t] = Entry0
      /\ \A p \in Publishers : pub[p] = Publisher0
      /\ receipts = {}
  BY DEF Init
<1>2. /\ Subscription0.held = Env0
      /\ Subscription0.queue = NewQueue(1, "Block") /\ Publisher0.pc = "none"
      /\ ToSet(Entry0.subs) = {}
  BY ToSetEmpty DEF Subscription0, Publisher0, Entry0
<1>3. NewQueue(1, "Block").policy = "Block"
  BY DEF NewQueue
<1>4. QED
  BY <1>1, <1>2, <1>3 DEF PromiseInv, HeldShape, PolicyShape, ListedShape, AimedShape, ReceiptShape

\* A step takes a subscriber off a call's list of targets only when the message has
\* entered its queue, or could not.
LEMMA ServesEachStep ==
    ASSUME TypeInv, [Next]_vars
    PROVE  ServesEach
<1> SUFFICES ASSUME NEW p \in Publishers,
                    NEW s \in ToSet(pub[p].targets) \ ToSet(pub'[p].targets)
             PROVE  accepted'[s] = Append(accepted[s], pub[p].env) \/ CannotStore(s)
  BY DEF ServesEach
<1>1. PubStep(p) /\ pub[p].targets \in Seq(Subscribers)
  BY PublisherSteps, PubTypes DEF PubSteps
<1>2. pub[p].targets # <<>>
  BY ToSetEmpty
<1>3. pub[p].pc \in {"report", "push"}
  BY <1>2 DEF TypeInv, PublisherShape
<1>4. pub'[p].targets # pub[p].targets
  OBVIOUS
<1>5. Pushes(p)
  BY <1>1, <1>3, <1>4 DEF PubStep, Advertises, Calls, Numbers, WrongType, Reports
<1>6. s = Head(pub[p].targets) /\ s \in Subscribers
  <2>1. pub'[p].targets = Tail(pub[p].targets)
    BY <1>5 DEF Pushes
  <2>2. ToSet(pub[p].targets) = {Head(pub[p].targets)} \cup ToSet(Tail(pub[p].targets))
    BY <1>1, <1>2, ToSetHeadTail
  <2>3. QED
    BY <1>1, <1>2, <2>1, <2>2
<1>7. CASE push_fails(p)
  BY <1>6, <1>7 DEF push_fails
<1>8. CASE push_target(p)
  <2>1. accepted' = [accepted EXCEPT ![s] = Append(@, pub[p].env)]
    BY <1>6, <1>8 DEF push_target, Store
  <2>2. QED
    BY <1>6, <2>1, FourTypes
<1>9. QED
  BY <1>5, <1>7, <1>8 DEF Pushes

\* A publish() that returned true has its message queued at, or taken by the worker of,
\* every Reliable subscriber it was aimed at, whatever unsubscribe() and shutdown() do; and
\* publish_erased passes over no target because another one's queue refused the message.
THEOREM PromiseHolds == Spec => PromiseKept
<1>1. Spec => [](TypeInv /\ QuietInv /\ PromiseInv)
  BY TypeInit, TypeStep, QuietInit, QuietStep, PromiseInit, PromiseStep, PTL DEF Spec
<1>2. TypeInv /\ PromiseInv => \A r \in receipts : Honoured(r)
  BY DEF PromiseInv, ReceiptShape, Reliably, Has, Honoured
<1>3. TypeInv /\ [Next]_vars => [ServesEach]_vars
  BY ServesEachStep
<1>4. Spec => [](\A r \in receipts : Honoured(r))
  BY <1>1, <1>2, PTL
<1>5. Spec => [][ServesEach]_vars
  BY <1>1, <1>3, PTL DEF Spec
<1>6. QED
  BY <1>4, <1>5 DEF PromiseKept


-----------------------------------------------------------------------------
(* The statistics. *)

\* The calls of the callback in a worker's log, those that came later than the deadline
\* allows after the call before, and the time of the last one.
CallsIn(l) == {i \in DOMAIN l : l[i].fate = "callback"}
GapsIn(l, d) ==
    {i \in CallsIn(l) : \E j \in CallsIn(l) :
        /\ j < i /\ \A k \in CallsIn(l) : k < i => k <= j
        /\ l[i].at - l[j].at > d}
LastCall(l, last) ==
    \/ CallsIn(l) = {} /\ last = 0
    \/ \E j \in CallsIn(l) : (\A k \in CallsIn(l) : k <= j) /\ l[j].at = last

\* The calls and the late ones in a log with one more entry.
LEMMA CallsAppend ==
    ASSUME NEW l \in Seq(TakenRec), NEW x \in TakenRec, NEW d \in Nat
    PROVE  LET m == Append(l, x)
               n == Len(l) + 1
           IN  /\ CallsIn(m) = IF x.fate = "callback" THEN CallsIn(l) \cup {n} ELSE CallsIn(l)
               /\ \A i \in CallsIn(l) : i \in GapsIn(m, d) <=> i \in GapsIn(l, d)
               /\ \A i \in CallsIn(l) : i \in Nat /\ i < n /\ m[i] = l[i]
               /\ n \in Nat /\ m[n] = x
<1> DEFINE m == Append(l, x)
           n == Len(l) + 1
           C == CallsIn(l)
           D == CallsIn(m)
<1>1. /\ n \in Nat /\ m[n] = x /\ DOMAIN l = 1..(n - 1) /\ DOMAIN m = 1..n
      /\ \A i \in 1..(n - 1) : m[i] = l[i]
  OBVIOUS
<1> HIDE DEF m, n
<1>2. \A i \in C : i \in Nat /\ i < n /\ m[i] = l[i]
  BY <1>1 DEF CallsIn
<1>3. D = IF x.fate = "callback" THEN C \cup {n} ELSE C
  <2>4. 1..n = (1..(n - 1)) \cup {n}
    <3>1. n >= 1
      BY DEF n
    <3>2. QED
      BY <1>1, <3>1
  <2>1. \A i : i \in DOMAIN m <=> i \in DOMAIN l \/ i = n
    BY <1>1, <2>4
  <2>2. \A i : i \in D <=> i \in C \/ (i = n /\ x.fate = "callback")
    BY <1>1, <2>1 DEF CallsIn
  <2>3. QED
    BY <2>2
<1> HIDE DEF C, D
<1>4. ASSUME NEW i \in C
      PROVE  i \in GapsIn(m, d) <=> i \in GapsIn(l, d)
  <2>1. i \in D /\ i < n /\ i \in Nat
    BY <1>2, <1>3, <1>4
  <2>2. \A k : k \in D /\ k < i <=> k \in C /\ k < i
    BY <1>1, <1>3, <2>1
  <2>3. i \in GapsIn(m, d) <=> \E j \in D : /\ j < i /\ \A k \in D : k < i => k <= j
                                            /\ m[i].at - m[j].at > d
    BY <2>1 DEF GapsIn, D
  <2>4. i \in GapsIn(l, d) <=> \E j \in C : /\ j < i /\ \A k \in C : k < i => k <= j
                                            /\ l[i].at - l[j].at > d
    BY <1>4 DEF GapsIn, C
  <2>5. \A j \in C : m[i].at - m[j].at = l[i].at - l[j].at
    BY <1>2, <1>4
  <2>6. QED
    BY <2>2, <2>3, <2>4, <2>5
<1>5. QED
  BY <1>1, <1>2, <1>3, <1>4 DEF m, n, C, D

\* The late calls are finitely many.
LEMMA GapsFinite ==
    ASSUME NEW l \in Seq(TakenRec), NEW d
    PROVE  IsFiniteSet(GapsIn(l, d)) /\ GapsIn(l, d) \subseteq CallsIn(l)
<1>1. Len(l) \in Nat /\ DOMAIN l = 1..Len(l)
  OBVIOUS
<1>2. IsFiniteSet(1..Len(l))
  BY <1>1, FS_Interval
<1>3. GapsIn(l, d) \subseteq CallsIn(l) /\ CallsIn(l) \subseteq 1..Len(l)
  BY <1>1 DEF GapsIn, CallsIn
<1>4. QED
  BY <1>2, <1>3, FS_Subset

\* An expired message is no call.
LEMMA ExpiredIsNoCall ==
    ASSUME NEW l \in Seq(TakenRec), NEW x \in TakenRec, x.fate # "callback", NEW d \in Nat, NEW last
    PROVE  /\ GapsIn(Append(l, x), d) = GapsIn(l, d)
           /\ LastCall(l, last) => LastCall(Append(l, x), last)
<1> DEFINE m == Append(l, x)
<1>1. /\ CallsIn(m) = CallsIn(l)
      /\ \A i \in CallsIn(l) : i \in GapsIn(m, d) <=> i \in GapsIn(l, d)
      /\ \A i \in CallsIn(l) : m[i] = l[i]
  BY CallsAppend, ZenonT(60)
<1> HIDE DEF m
<1>2. GapsIn(m, d) \subseteq CallsIn(m) /\ GapsIn(l, d) \subseteq CallsIn(l)
  BY DEF GapsIn
<1>3. GapsIn(m, d) = GapsIn(l, d)
  BY <1>1, <1>2
<1>4. LastCall(l, last) => LastCall(m, last)
  BY <1>1 DEF LastCall
<1>5. QED
  BY <1>3, <1>4 DEF m

\* A call is late exactly if it comes more than the deadline after the last one.
LEMMA CallIsLate ==
    ASSUME NEW l \in Seq(TakenRec), NEW x \in TakenRec, x.fate = "callback", NEW d \in Nat,
           NEW last \in 0..MaxTime, LastCall(l, last)
    PROVE  /\ LastCall(Append(l, x), x.at)
           /\ Cardinality(GapsIn(Append(l, x), d)) =
                IF last # 0 /\ x.at - last > d THEN Cardinality(GapsIn(l, d)) + 1
                ELSE Cardinality(GapsIn(l, d))
<1> DEFINE m == Append(l, x)
           n == Len(l) + 1
           C == CallsIn(l)
           D == CallsIn(m)
           G == GapsIn(l, d)
           H == GapsIn(m, d)
<1>1. /\ D = C \cup {n}
      /\ \A i \in C : i \in H <=> i \in G
      /\ \A i \in C : i \in Nat /\ i < n /\ m[i] = l[i]
      /\ n \in Nat /\ m[n] = x
  BY CallsAppend
<1>2. x.at \in 1..MaxTime /\ MaxTime \in Nat
  BY BoundsAssumption DEF TakenRec
<1>3. IsFiniteSet(G) /\ G \subseteq C /\ H \subseteq D
  BY GapsFinite DEF GapsIn
<1>4. \A j \in C : l[j].at \in 1..MaxTime
  <2>1. \A j \in C : l[j] \in TakenRec
    BY DEF CallsIn
  <2>2. \A y \in TakenRec : y.at \in 1..MaxTime
    BY DEF TakenRec
  <2>3. QED
    BY <2>1, <2>2
<1>5. \/ C = {} /\ last = 0
      \/ \E j \in C : (\A k \in C : k <= j) /\ l[j].at = last
  BY DEF LastCall
<1>6. n \in H <=> \E j \in D : /\ j < n /\ \A k \in D : k < n => k <= j
                               /\ m[n].at - m[j].at > d
  BY <1>1 DEF GapsIn
<1>7. LastCall(m, x.at)
  <2>1. \A k \in D : k <= n
    BY <1>1
  <2>2. QED
    BY <1>1, <2>1 DEF LastCall
<1> HIDE DEF m, n, C, D, G, H
<1>8. n \notin C
  BY <1>1
<1>9. n \in H <=> last # 0 /\ x.at - last > d
  <2>1. CASE C = {}
    <3>1. last = 0
      BY <1>5, <2>1
    <3>2. D = {n}
      BY <1>1, <2>1
    <3>3. n \notin H
      BY <1>1, <1>6, <3>2
    <3>4. QED
      BY <3>1, <3>3
  <2>2. ASSUME NEW j \in C, \A k \in C : k <= j, l[j].at = last
        PROVE  n \in H <=> last # 0 /\ x.at - last > d
    <3>1. last # 0
      BY <1>4, <2>2
    <3>2. \A i \in D : i < n /\ (\A k \in D : k < n => k <= i) <=> i = j
      BY <1>1, <2>2
    <3>3. m[j].at = last /\ j \in D
      BY <1>1, <2>2
    <3>4. n \in H <=> m[n].at - m[j].at > d
      BY <1>6, <3>2, <3>3
    <3>5. QED
      BY <1>1, <3>1, <3>3, <3>4
  <2>3. QED
    BY <1>5, <2>1, <2>2
<1>10. H = IF n \in H THEN G \cup {n} ELSE G
  <2>1. \A i : i \in H <=> i \in G \/ (i = n /\ n \in H)
    BY <1>1, <1>3, <1>8
  <2>2. QED
    BY <2>1
<1>11. n \notin G
  BY <1>3, <1>8
<1>12. Cardinality(G \cup {n}) = Cardinality(G) + 1
  BY <1>3, <1>11, FS_AddElement
<1>13. Cardinality(H) = IF last # 0 /\ x.at - last > d THEN Cardinality(G) + 1 ELSE Cardinality(G)
  BY <1>9, <1>10, <1>12
<1>14. QED
  BY <1>7, <1>13 DEF m, G, H


\* Nothing has been queued for, or taken by, a subscriber that does not exist yet.
LogShape == \A s \in Subscribers : ~Known(s) => accepted[s] = <<>> /\ taken[s] = <<>>

\* Where the accepted messages of s are.
InHand(r) == IF r.worker \in {"judge", "callback"} THEN 1 ELSE 0
Balanced(a, r) == Len(a) = r.delivered + InHand(r) + r.expired + r.queue.dropped + Len(r.queue.items)

\* deadline_missed and last_delivery_ns say what the log says.
WellTimed(l, r) ==
    /\ LastCall(l, r.last_delivery_ns)
    /\ r.deadline_missed = IF r.qos.deadline = 0 THEN 0
                           ELSE Cardinality(GapsIn(l, r.qos.deadline))

\* The log says "expired" of what was older than the lifespan, and of nothing else.
Judged(l, span) ==
    \A i \in DOMAIN l :
        l[i].fate = "expired" <=> span > 0 /\ l[i].at - l[i].env.publish_ns > span

StatsInv ==
    /\ LogShape
    /\ \A s \in Subscribers :
         /\ Balanced(accepted[s], sub[s]) /\ WellTimed(taken[s], sub[s])
         /\ Judged(taken[s], sub[s].qos.lifespan)

\* A message is pushed to a subscriber that exists.
LEMMA ReceiversKnown ==
    ASSUME TypeInv, PromiseInv, NEW s \in Subscribers, NEW p \in Publishers,
           pub[p].pc = "push", s = Head(pub[p].targets)
    PROVE  Known(s)
<1>1. pub[p].targets \in Seq(Subscribers) /\ pub[p].targets # <<>>
  BY PubTypes DEF TypeInv, PublisherShape
<1>2. s \in ToSet(pub[p].targets)
  BY <1>1, ToSetHeadTail
<1>3. QED
  BY <1>2 DEF PromiseInv, AimedShape, Promised

\* A step keeps LogShape.
LEMMA LogKept ==
    ASSUME TypeInv, QuietInv, PromiseInv, LogShape, [Next]_vars
    PROVE  LogShape'
<1> SUFFICES ASSUME NEW s \in Subscribers, ~Known(s)'
             PROVE  accepted'[s] = <<>> /\ taken'[s] = <<>>
  BY DEF LogShape
<1>1. ~Known(s)
  BY KnownKept
<1>2. SubStep(s)
  BY SubscriberSteps DEF SubSteps, SubStepTyped
<1>3. sub[s].worker = "none"
  BY <1>1 DEF QuietInv, WorkerShape, Past, Known
<1>4. ~Replays(s) /\ ~Pops(s) /\ ~Expires(s) /\ ~Delivers(s)
  BY <1>1, <1>3 DEF Replays, Pops, Expires, Delivers, Known
<1>5. \A p \in Publishers : ~(push_target(p) /\ s = Head(pub[p].targets))
  BY <1>1, ReceiversKnown DEF push_target
<1>6. LogSame(s)
  BY <1>2, <1>4, <1>5 DEF SubStep, Quiet, Refused, Subscribes, Starts, Returns, Exits, Closes, Joins
<1>7. QED
  BY <1>1, <1>6 DEF LogSame, LogShape

\* A step keeps the balance.
LEMMA BalanceKept ==
    ASSUME TypeInv, QuietInv, PromiseInv, LogShape, [Next]_vars, NEW s \in Subscribers,
           Balanced(accepted[s], sub[s])
    PROVE  Balanced(accepted'[s], sub'[s])
<1> DEFINE n == sub'[s]
           r == sub[s]
           A == Len(accepted[s])
           A1 == Len(accepted'[s])
           x == r.delivered
           x1 == n.delivered
           y == r.expired
           y1 == n.expired
           d == r.queue.dropped
           d1 == n.queue.dropped
           q == Len(r.queue.items)
           q1 == Len(n.queue.items)
<1>1. SubStep(s) /\ n \in SubRec /\ r \in SubRec /\ accepted[s] \in Seq(Envelope)
  BY SubscriberSteps, FourTypes DEF SubSteps, SubStepTyped
<1>2. /\ r.queue \in Queue(Envelope) /\ q <= r.queue.capacity
      /\ r.queue.items \in Seq(Envelope)
  BY FourTypes
<1>3. A \in Nat /\ x \in Nat /\ y \in Nat /\ q \in Nat
  BY <1>1, <1>2, SMTT(40) DEF SubRec
<1>4. d \in Nat
  BY <1>2 DEF Queue
<1>5. A = x + InHand(r) + y + d + q
  BY DEF Balanced
<1>6. ASSUME A1 = x1 + InHand(n) + y1 + d1 + q1
      PROVE  Balanced(accepted'[s], n)
  BY <1>6 DEF Balanced
<1>7. /\ n.worker = r.worker => InHand(n) = InHand(r)
      /\ \A w \in {n, r} : /\ w.worker \in {"judge", "callback"} => InHand(w) = 1
                           /\ w.worker \in {"none", "pop", "exited"} => InHand(w) = 0
      /\ InHand(r) \in {0, 1}
  BY DEF InHand
<1>8. d1 \in Nat /\ q1 \in Nat /\ x1 \in Nat /\ y1 \in Nat /\ A1 \in Nat
  <2>1. n.queue \in Queue(Envelope) /\ x1 \in Nat /\ y1 \in Nat
    BY <1>1 DEF SubRec
  <2>2. accepted'[s] \in Seq(Envelope)
    BY SubscriberSteps DEF SubSteps, SubStepTyped
  <2>3. QED
    BY <2>1, <2>2 DEF Queue
<1>9. ASSUME Quiet(s) \/ Refused(s) \/ Joins(s)
      PROVE  Balanced(accepted'[s], n)
  <2>1. A1 = A /\ x1 = x /\ y1 = y /\ d1 = d /\ q1 = q /\ n.worker = r.worker
    BY <1>9 DEF Quiet, Refused, Joins, SameCounts, SameWorker, SameQueue, LogSame
  <2>2. QED
    BY <1>5, <1>6, <1>7, <2>1
<1>10. ASSUME NEW env \in Envelope, Receives(s, env)
       PROVE  Balanced(accepted'[s], n)
  <2>1. /\ n.queue = Stored(r.queue, env) /\ x1 = x /\ y1 = y /\ n.worker = r.worker
        /\ accepted'[s] = Append(accepted[s], env)
    BY <1>10 DEF Receives, SameCounts, SameWorker
  <2>2. A1 = A + 1
    BY <1>1, <2>1
  <2> DEFINE z == Stored(r.queue, env)
  <2>3. z.dropped + Len(z.items) = d + q + 1
    BY <1>2, StoredProperties
  <2> HIDE DEF z
  <2>4. d1 + q1 = d + q + 1
    BY <2>1, <2>3 DEF z
  <2> DEFINE h == InHand(r)
             h1 == InHand(n)
  <2>5. h1 = h /\ h \in Nat
    BY <1>7, <2>1
  <2>6. x1 = x /\ y1 = y /\ A = x + h + y + d + q
    BY <1>5, <2>1
  <2> HIDE DEF A, A1, x, x1, y, y1, d, d1, q, q1, h, h1
  <2>7. A1 = x1 + h1 + y1 + d1 + q1
    BY <1>3, <1>4, <1>8, <2>2, <2>4, <2>5, <2>6
  <2>8. QED
    BY <1>6, <2>7 DEF h1
<1>11. ASSUME NEW p \in Publishers, Receives(s, pub[p].env)
       PROVE  Balanced(accepted'[s], n)
  BY <1>10, <1>11, PubTypes
<1>12. CASE Replays(s)
  <2>1. Quiet(s) \/ (owner[s].backlog # <<>> /\ Receives(s, Head(owner[s].backlog)))
    BY <1>12 DEF Replays
  <2>2. owner[s].backlog # <<>> => Head(owner[s].backlog) \in Envelope
    BY FourTypes
  <2>3. QED
    BY <1>9, <1>10, <2>1, <2>2
<1>13. ASSUME NEW t \in Topics, NEW type \in Types, NEW qos \in Requested,
              Subscribes(s, t, type, qos)
       PROVE  Balanced(accepted'[s], n)
  <2>1. /\ Subscription0.delivered = 0 /\ Subscription0.expired = 0
        /\ Subscription0.worker = "none"
    BY DEF Subscription0
  <2>2. ~Known(s) /\ accepted'[s] = accepted[s]
    BY <1>13 DEF Subscribes, Known, LogSame
  <2>3. A1 = 0
    BY <2>2 DEF LogShape
  <2>4. x1 = 0 /\ y1 = 0 /\ d1 = 0 /\ q1 = 0 /\ n.worker = "none"
    BY <1>13, <2>1 DEF Subscribes, SameCounts, SameWorker
  <2>5. QED
    BY <1>6, <1>7, <2>3, <2>4
<1>14. CASE Starts(s)
  <2>1. A1 = A /\ x1 = x /\ y1 = y /\ d1 = d /\ q1 = q /\ n.worker = "pop"
    BY <1>14 DEF Starts, SameCounts, SameQueue, LogSame
  <2>2. r.worker = "none"
    BY <1>14 DEF Starts, QuietInv, WorkerShape, Past
  <2>3. QED
    BY <1>5, <1>6, <1>7, <2>1, <2>2
<1>15. CASE Exits(s)
  <2>1. A1 = A /\ x1 = x /\ y1 = y /\ d1 = d /\ q1 = q /\ n.worker = "exited" /\ r.worker = "pop"
    BY <1>15 DEF Exits, SameCounts, SameQueue, LogSame
  <2>2. QED
    BY <1>5, <1>6, <1>7, <2>1
<1>16. CASE Pops(s)
  <2>1. /\ A1 = A /\ x1 = x /\ y1 = y /\ n.worker = "judge" /\ r.worker = "pop"
        /\ r.queue.items # <<>> /\ n.queue = Dequeue(r.queue)
    BY <1>16 DEF Pops, SameCounts, LogSame
  <2> DEFINE z == Dequeue(r.queue)
  <2>2. z.dropped = d /\ Len(z.items) = q - 1
    BY <1>2, <2>1, DequeueProperties
  <2>3. d1 = d /\ q1 = q - 1 /\ InHand(n) = 1 /\ InHand(r) = 0
    BY <1>7, <2>1, <2>2
  <2>4. A = x + 0 + y + d + q /\ A1 = A /\ x1 = x /\ y1 = y /\ InHand(n) = 1
    BY <1>5, <2>1, <2>3
  <2> HIDE DEF A, A1, x, x1, y, y1, d, d1, q, q1
  <2>5. A1 = x1 + 1 + y1 + d1 + q1
    BY <1>3, <1>4, <1>8, <2>3, <2>4
  <2>6. QED
    BY <1>6, <2>4, <2>5
<1>17. CASE Expires(s)
  <2>1. /\ A1 = A /\ x1 = x /\ y1 = y + 1 /\ n.worker = "pop" /\ r.worker = "judge"
        /\ d1 = d /\ q1 = q
    BY <1>17 DEF Expires, SameQueue
  <2>2. InHand(n) = 0 /\ InHand(r) = 1
    BY <1>7, <2>1
  <2>3. A = x + 1 + y + d + q
    BY <1>5, <2>2
  <2> HIDE DEF A, A1, x, x1, y, y1, d, d1, q, q1
  <2>4. A1 = x1 + 0 + y1 + d1 + q1
    BY <1>3, <1>4, <1>8, <2>1, <2>3
  <2>5. QED
    BY <1>6, <2>2, <2>4
<1>18. CASE Delivers(s)
  <2>1. /\ A1 = A /\ x1 = x /\ y1 = y /\ n.worker = "callback" /\ r.worker = "judge"
        /\ d1 = d /\ q1 = q
    BY <1>18 DEF Delivers, SameQueue
  <2>2. InHand(n) = 1 /\ InHand(r) = 1
    BY <1>7, <2>1
  <2>3. QED
    BY <1>5, <1>6, <2>1, <2>2
<1>19. CASE Returns(s)
  <2>1. /\ A1 = A /\ x1 = x + 1 /\ y1 = y /\ n.worker = "pop" /\ r.worker = "callback"
        /\ d1 = d /\ q1 = q
    BY <1>19 DEF Returns, SameQueue, LogSame
  <2>2. InHand(n) = 0 /\ InHand(r) = 1
    BY <1>7, <2>1
  <2>3. A = x + 1 + y + d + q
    BY <1>5, <2>2
  <2> HIDE DEF A, A1, x, x1, y, y1, d, d1, q, q1
  <2>4. A1 = x1 + 0 + y1 + d1 + q1
    BY <1>3, <1>4, <1>8, <2>1, <2>3
  <2>5. QED
    BY <1>6, <2>2, <2>4
<1>20. CASE Closes(s)
  <2>1. /\ A1 = A /\ x1 = x /\ y1 = y /\ n.worker = r.worker /\ n.queue = CloseQueue(r.queue)
    BY <1>20 DEF Closes, SameCounts, SameWorker, LogSame
  <2>2. d1 = d /\ q1 = q
    BY <1>2, <2>1, CloseQueueProperties
  <2>3. QED
    BY <1>5, <1>6, <1>7, <2>1, <2>2
<1>21. QED
  BY <1>1, <1>9, <1>11, <1>12, <1>13, <1>14, <1>15, <1>16, <1>17, <1>18, <1>19, <1>20 DEF SubStep

\* A step keeps the times.
LEMMA TimesKept ==
    ASSUME TypeInv, QuietInv, PromiseInv, LogShape, [Next]_vars, NEW s \in Subscribers,
           WellTimed(taken[s], sub[s])
    PROVE  WellTimed(taken'[s], sub'[s])
<1> DEFINE n == sub'[s]
           r == sub[s]
           l == taken[s]
           d == r.qos.deadline
<1>1. SubStep(s) /\ n \in SubRec /\ r \in SubRec /\ l \in Seq(TakenRec) /\ now \in 1..MaxTime
      /\ r.held \in Envelope
  BY SubscriberSteps, FourTypes DEF SubSteps, SubStepTyped
<1>2. /\ r.last_delivery_ns \in 0..MaxTime /\ r.deadline_missed \in Nat /\ d \in Nat
  BY <1>1 DEF SubRec, QoS
<1>3. ASSUME taken'[s] = l, n.last_delivery_ns = r.last_delivery_ns, n.qos = r.qos,
             n.deadline_missed = r.deadline_missed
      PROVE  WellTimed(taken'[s], n)
  BY <1>3 DEF WellTimed
<1>4. ASSUME \/ Quiet(s) \/ Refused(s) \/ Starts(s) \/ Pops(s) \/ Returns(s)
             \/ Exits(s) \/ Closes(s) \/ Joins(s)
      PROVE  WellTimed(taken'[s], n)
  BY <1>3, <1>4 DEF Quiet, Refused, Starts, Pops, Returns, Exits, Closes, Joins, SameCounts,
       SameSetup, LogSame
<1>5. ASSUME NEW env, Receives(s, env)
      PROVE  WellTimed(taken'[s], n)
  BY <1>3, <1>5 DEF Receives, SameCounts, SameSetup
<1>6. CASE Replays(s)
  BY <1>4, <1>5, <1>6 DEF Replays
<1>7. ASSUME NEW t \in Topics, NEW type \in Types, NEW qos \in Requested,
             Subscribes(s, t, type, qos)
      PROVE  WellTimed(taken'[s], n)
  <2>1. Subscription0.last_delivery_ns = 0 /\ Subscription0.deadline_missed = 0
    BY DEF Subscription0
  <2>2. ~Known(s) /\ taken'[s] = taken[s]
    BY <1>7 DEF Subscribes, Known, LogSame
  <2>3. taken'[s] = <<>>
    BY <2>2 DEF LogShape
  <2>4. n.last_delivery_ns = 0 /\ n.deadline_missed = 0
    BY <1>7, <2>1 DEF Subscribes, SameCounts
  <2>5. CallsIn(<<>>) = {}
    BY DEF CallsIn
  <2>6. \A k : GapsIn(<<>>, k) = {}
    BY <2>5 DEF GapsIn
  <2>7. Cardinality({}) = 0
    BY FS_EmptySet
  <2>8. QED
    BY <2>3, <2>4, <2>5, <2>6, <2>7 DEF WellTimed, LastCall
<1>8. CASE Expires(s)
  <2> DEFINE x == [env |-> r.held, at |-> now, fate |-> "expired"]
  <2>1. /\ taken'[s] = Append(l, x) /\ n.last_delivery_ns = r.last_delivery_ns
        /\ n.qos = r.qos /\ n.deadline_missed = r.deadline_missed
    BY <1>8 DEF Expires, SameSetup
  <2>2. x \in TakenRec /\ x.fate # "callback"
    BY <1>1 DEF TakenRec
  <2> HIDE DEF x
  <2>3. /\ GapsIn(Append(l, x), d) = GapsIn(l, d)
        /\ LastCall(l, r.last_delivery_ns) => LastCall(Append(l, x), r.last_delivery_ns)
    BY <1>1, <1>2, <2>2, ExpiredIsNoCall
  <2>4. QED
    BY <2>1, <2>3 DEF WellTimed
<1>9. CASE Delivers(s)
  <2> DEFINE x == [env |-> r.held, at |-> now, fate |-> "callback"]
             last == r.last_delivery_ns
             m == r.deadline_missed
             g == Cardinality(GapsIn(l, d))
             h == Cardinality(GapsIn(Append(l, x), d))
  <2>1. /\ taken'[s] = Append(l, x) /\ n.last_delivery_ns = now
        /\ n.qos = r.qos /\ n.deadline_missed = IF IsLate(r) THEN m + 1 ELSE m
    BY <1>9 DEF Delivers, SameSetup
  <2>2. x \in TakenRec /\ x.fate = "callback" /\ x.at = now
    BY <1>1 DEF TakenRec
  <2> HIDE DEF x
  <2>3. LastCall(l, last)
    BY DEF WellTimed
  <2>4. /\ LastCall(Append(l, x), x.at)
        /\ h = IF last # 0 /\ x.at - last > d THEN g + 1 ELSE g
    BY <1>1, <1>2, <2>2, <2>3, CallIsLate
  <2>5. IsLate(r) <=> d > 0 /\ last # 0 /\ now - last > d
    BY DEF IsLate
  <2>6. m = IF d = 0 THEN 0 ELSE g
    BY DEF WellTimed
  <2>7. ASSUME n.deadline_missed = IF d = 0 THEN 0 ELSE h
        PROVE  WellTimed(taken'[s], n)
    BY <2>1, <2>2, <2>4, <2>7 DEF WellTimed
  <2> HIDE DEF d, m, g, h, last
  <2>8. n.deadline_missed = IF d = 0 THEN 0 ELSE h
    BY <1>2, <2>1, <2>2, <2>4, <2>5, <2>6
  <2>9. QED
    BY <2>7, <2>8
<1>10. QED
  BY <1>1, <1>4, <1>5, <1>6, <1>7, <1>8, <1>9 DEF SubStep

\* The next message to be judged.
LEMMA JudgedNext ==
    ASSUME NEW l \in Seq(TakenRec), NEW span \in Nat, NEW env \in Envelope,
           NEW at \in 1..MaxTime, NEW fate \in {"expired", "callback"}, Judged(l, span),
           fate = "expired" <=> span > 0 /\ at > env.publish_ns /\ at - env.publish_ns > span
    PROVE  Judged(Append(l, [env |-> env, at |-> at, fate |-> fate]), span)
<1> DEFINE x == [env |-> env, at |-> at, fate |-> fate]
           m == Append(l, x)
<1>1. env.publish_ns \in Nat /\ at \in Nat
  BY BoundsAssumption DEF Envelope
<1>2. x.fate = "expired" <=> span > 0 /\ x.at - x.env.publish_ns > span
  BY <1>1
<1>3. x \in TakenRec
  BY DEF TakenRec
<1> HIDE DEF x
<1>4. \A i \in DOMAIN m : m[i] = x \/ (i \in DOMAIN l /\ m[i] = l[i])
  BY <1>3
<1> HIDE DEF m
<1>5. Judged(m, span)
  BY <1>2, <1>4, Zenon DEF Judged
<1>6. QED
  BY <1>5 DEF m, x

\* A step keeps the fates.
LEMMA FatesKept ==
    ASSUME TypeInv, LogShape, [Next]_vars, NEW s \in Subscribers,
           Judged(taken[s], sub[s].qos.lifespan)
    PROVE  Judged(taken'[s], sub'[s].qos.lifespan)
<1> DEFINE n == sub'[s]
           r == sub[s]
           l == taken[s]
           span == r.qos.lifespan
<1>1. /\ SubStep(s) /\ r \in SubRec /\ l \in Seq(TakenRec) /\ now \in 1..MaxTime
      /\ r.held \in Envelope
  BY SubscriberSteps, FourTypes DEF SubSteps, SubStepTyped
<1>2. span \in Nat
  BY <1>1 DEF SubRec, QoS
<1>3. CASE taken'[s] = l /\ n.qos = r.qos
  BY <1>3
<1>4. ASSUME NEW t \in Topics, NEW type \in Types, NEW qos \in Requested,
             Subscribes(s, t, type, qos)
      PROVE  Judged(taken'[s], n.qos.lifespan)
  <2>1. taken'[s] = <<>>
    BY <1>4 DEF Subscribes, Known, LogSame, LogShape
  <2>2. QED
    BY <2>1 DEF Judged
<1>5. CASE Expires(s)
  <2>1. /\ IsExpired(r, r.held) /\ n.qos = r.qos
        /\ taken'[s] = Append(l, [env |-> r.held, at |-> now, fate |-> "expired"])
    BY <1>5 DEF Expires, SameSetup
  <2>2. span > 0 /\ now > r.held.publish_ns /\ now - r.held.publish_ns > span
    BY <2>1 DEF IsExpired
  <2>3. QED
    <3> DEFINE env == r.held
               f == "expired"
    <3>1. /\ env \in Envelope /\ f \in {"expired", "callback"} /\ Judged(l, span)
          /\ f = "expired" <=> span > 0 /\ now > env.publish_ns /\ now - env.publish_ns > span
      BY <1>1, <2>2
    <3> HIDE DEF env, f, l, span
    <3>2. Judged(Append(l, [env |-> env, at |-> now, fate |-> f]), span)
      BY <1>1, <1>2, <3>1, JudgedNext
    <3>3. QED
      BY <2>1, <3>2 DEF env, f, l, span
<1>6. CASE Delivers(s)
  <2>1. /\ ~IsExpired(r, r.held) /\ n.qos = r.qos
        /\ taken'[s] = Append(l, [env |-> r.held, at |-> now, fate |-> "callback"])
    BY <1>6 DEF Delivers, SameSetup
  <2>2. ~(span > 0 /\ now > r.held.publish_ns /\ now - r.held.publish_ns > span)
    BY <2>1 DEF IsExpired
  <2>3. QED
    <3> DEFINE env == r.held
               f == "callback"
    <3>1. /\ env \in Envelope /\ f \in {"expired", "callback"} /\ Judged(l, span)
          /\ f = "expired" <=> span > 0 /\ now > env.publish_ns /\ now - env.publish_ns > span
      BY <1>1, <2>2
    <3> HIDE DEF env, f, l, span
    <3>2. Judged(Append(l, [env |-> env, at |-> now, fate |-> f]), span)
      BY <1>1, <1>2, <3>1, JudgedNext
    <3>3. QED
      BY <2>1, <3>2 DEF env, f, l, span
<1>7. ASSUME \/ Quiet(s) \/ Refused(s) \/ Starts(s) \/ Pops(s) \/ Returns(s)
             \/ Exits(s) \/ Closes(s) \/ Joins(s)
      PROVE  taken'[s] = l /\ n.qos = r.qos
  BY <1>7 DEF Quiet, Refused, Starts, Pops, Returns, Exits, Closes, Joins, SameSetup, LogSame
<1>8. ASSUME NEW env, Receives(s, env)
      PROVE  taken'[s] = l /\ n.qos = r.qos
  BY <1>8 DEF Receives, SameSetup
<1>9. CASE Replays(s)
  BY <1>3, <1>7, <1>8, <1>9 DEF Replays
<1>10. QED
  BY <1>1, <1>3, <1>4, <1>5, <1>6, <1>7, <1>8, <1>9 DEF SubStep

\* A step keeps StatsInv.
LEMMA StatsStep == TypeInv /\ QuietInv /\ PromiseInv /\ StatsInv /\ [Next]_vars => StatsInv'
<1> SUFFICES ASSUME TypeInv, QuietInv, PromiseInv, StatsInv, [Next]_vars
             PROVE  StatsInv'
  OBVIOUS
<1>1. LogShape'
  BY LogKept DEF StatsInv
<1>2. \A s \in Subscribers :
          /\ Balanced(accepted'[s], sub'[s]) /\ WellTimed(taken'[s], sub'[s])
          /\ Judged(taken'[s], sub'[s].qos.lifespan)
  BY BalanceKept, TimesKept, FatesKept DEF StatsInv
<1>3. QED
  BY <1>1, <1>2, Zenon DEF StatsInv, Balanced, InHand, WellTimed, LastCall, GapsIn, CallsIn, Judged

\* StatsInv holds when the bus has been made.
LEMMA StatsInit == Init => StatsInv
<1> SUFFICES ASSUME Init
             PROVE  StatsInv
  OBVIOUS
<1>1. /\ \A s \in Subscribers : sub[s] = Subscription0 /\ accepted[s] = <<>> /\ taken[s] = <<>>
  BY DEF Init
<1> DEFINE r == Subscription0
<1>2. /\ r.delivered = 0 /\ r.expired = 0 /\ r.worker = "none" /\ r.deadline_missed = 0
      /\ r.last_delivery_ns = 0 /\ r.queue = NewQueue(1, "Block")
  BY DEF Subscription0
<1>3. r.queue.items = <<>> /\ r.queue.dropped = 0
  BY <1>2 DEF NewQueue
<1> HIDE DEF r
<1>4. Balanced(<<>>, r)
  BY <1>2, <1>3 DEF Balanced, InHand
<1>5. CallsIn(<<>>) = {}
  BY DEF CallsIn
<1>6. \A k : GapsIn(<<>>, k) = {}
  BY <1>5 DEF GapsIn
<1>7. WellTimed(<<>>, r)
  BY <1>2, <1>5, <1>6, FS_EmptySet DEF WellTimed, LastCall
<1>8. Judged(<<>>, r.qos.lifespan)
  BY DEF Judged
<1>9. QED
  BY <1>1, <1>4, <1>7, <1>8 DEF StatsInv, LogShape, r

\* Every message that entered a subscriber's queue is counted exactly once, as delivered,
\* in the worker's hands, expired, dropped or queued, and deadline_missed counts exactly
\* the successive deliveries that lie further apart than the deadline.  A message is skipped
\* exactly when it is older than the lifespan.
THEOREM StatisticsTrue == Spec => []StatsTrue
<1>2. Spec => [](TypeInv /\ QuietInv /\ PromiseInv /\ StatsInv)
  BY TypeInit, TypeStep, QuietInit, QuietStep, PromiseInit, PromiseStep, StatsInit, StatsStep, PTL
     DEF Spec
<1>3. StatsInv => StatsTrue
  BY Zenon DEF StatsInv, StatsTrue, Balanced, InHand, WellTimed, GapsIn, CallsIn, Judged
<1>4. QED
  BY <1>2, <1>3, PTL


-----------------------------------------------------------------------------
(* wait_for_idle(). *)

\* How many messages have entered the queue of s and left it again.
Gone(s) == Len(accepted[s]) - Len(sub[s].queue.items)

\* What had been accepted when the scan began has left the queues that it is through
\* with, whatever entered them since.
ScanInv ==
    idler.pc = "scan" =>
        /\ \A s \in Subscribers : idler.before[s] <= Len(accepted[s])
        /\ \A s \in AllListed : s \in ToSet(idler.todo) \/ Gone(s) >= idler.before[s]

\* While the scan holds the lock the lists stay as they are.
LEMMA ScanLocks ==
    ASSUME TypeInv, [Next]_vars, idler.pc = "scan"
    PROVE  AllListed' = AllListed
<1>1. ASSUME NEW t \in Topics
      PROVE  topics'[t] = topics[t]
  <2>1. TopicStep(t)
    BY AllTopicSteps DEF TopicSteps
  <2>2. ~ExclusiveLock
    BY DEF ExclusiveLock
  <2>3. \A p \in Publishers, type \in Types, qos \in Offered : ~advertise(p, t, type, qos)
    BY <2>2 DEF advertise
  <2>4. \A p \in Publishers : ~publish_erased(p)
    BY <2>2 DEF publish_erased
  <2>5. \A s \in Subscribers, type \in Types, qos \in Requested : ~subscribe(s, t, type, qos)
    BY <2>2 DEF subscribe
  <2>6. (\A s \in Subscribers : ~unsubscribe(s)) /\ ~shutdown
    BY <2>2, Zenon DEF unsubscribe, shutdown
  <2>7. QED
    BY <2>1, <2>3, <2>4, <2>5, <2>6 DEF TopicStep
<1>2. QED
  BY <1>1 DEF AllListed

\* No step takes back what has left a queue, or what has entered it.
LEMMA GoneGrows ==
    ASSUME TypeInv, [Next]_vars, NEW s \in Subscribers
    PROVE  /\ Len(accepted[s]) \in Nat /\ Len(accepted'[s]) \in Nat
           /\ Len(accepted'[s]) >= Len(accepted[s])
           /\ Gone(s) \in Int /\ Gone(s)' \in Int
           /\ owner[s].pc # "idle" => Gone(s)' >= Gone(s)
<1>1. SubStep(s) /\ sub'[s] \in SubRec /\ accepted'[s] \in Seq(Envelope)
  BY SubscriberSteps DEF SubSteps, SubStepTyped
<1>2. /\ sub[s] \in SubRec /\ accepted[s] \in Seq(Envelope)
      /\ Len(sub[s].queue.items) <= sub[s].queue.capacity
  BY FourTypes, TypeParts DEF TypeInv, NoOverflow
<1>3. /\ sub[s].queue \in Queue(Envelope) /\ sub'[s].queue \in Queue(Envelope)
      /\ sub[s].queue.items \in Seq(Envelope) /\ sub'[s].queue.items \in Seq(Envelope)
  BY <1>1, <1>2 DEF SubRec, Queue
<1> DEFINE a == Len(accepted[s])
           b == Len(accepted'[s])
           i == Len(sub[s].queue.items)
           j == Len(sub'[s].queue.items)
<1>4. a \in Nat /\ b \in Nat /\ i \in Nat /\ j \in Nat
  <2>1. \A q \in Seq(Envelope) : Len(q) \in Nat
    OBVIOUS
  <2>2. QED
    BY <1>1, <1>2, <1>3, <2>1, Zenon
<1>5. Gone(s) = a - i /\ Gone(s)' = b - j
  BY DEF Gone
<1>6. ASSUME NEW env \in Envelope, Receives(s, env)
      PROVE  b = a + 1 /\ j <= i + 1
  <2>1. b = a + 1
    BY <1>2, <1>6 DEF Receives
  <2> DEFINE qu == sub[s].queue
             st == Stored(qu, env)
  <2>2. qu \in Queue(Envelope) /\ Len(qu.items) <= qu.capacity /\ sub'[s].queue = st
    BY <1>2, <1>3, <1>6 DEF Receives
  <2>3. qu.dropped \in Nat /\ st.dropped \in Nat /\ st.dropped >= qu.dropped
    <3>1. st = EvictEnqueue(qu, env) \/ st = Enqueue(qu, env)
      BY DEF Stored
    <3>2. qu.dropped \in Nat
      BY <2>2 DEF Queue
    <3> HIDE DEF qu, st
    <3>3. IsFull(qu) => qu.items # <<>>
      BY <2>2, FullIsNotEmpty
    <3>4. IsFull(qu) => EvictEnqueue(qu, env).dropped = qu.dropped + 1
      BY <2>2, <3>3, EvictEnqueueProperties
    <3>5. Enqueue(qu, env).dropped = qu.dropped
      BY <2>2, EnqueueProperties
    <3>6. st = IF IsFull(qu) THEN EvictEnqueue(qu, env) ELSE Enqueue(qu, env)
      BY DEF st, Stored
    <3>7. QED
      BY <3>2, <3>4, <3>5, <3>6
  <2>4. st.dropped + Len(st.items) = qu.dropped + Len(qu.items) + 1
    BY <2>2, StoredProperties
  <2>5. Len(st.items) = j /\ Len(qu.items) = i
    BY <2>2
  <2> HIDE DEF qu, st, i, j, a, b
  <2>6. QED
    BY <1>4, <2>1, <2>3, <2>4, <2>5
<1>7. ASSUME NEW p \in Publishers, Receives(s, pub[p].env)
      PROVE  b = a + 1 /\ j <= i + 1
  BY <1>6, <1>7, PubTypes
<1>8. ASSUME Replays(s)
      PROVE  (b = a + 1 /\ j <= i + 1) \/ (b = a /\ j = i)
  <2>1. Head(owner[s].backlog) \in Envelope
    BY <1>8, FourTypes DEF Replays
  <2>2. CASE Quiet(s)
    BY <2>2 DEF Quiet, LogSame
  <2>3. CASE Receives(s, Head(owner[s].backlog))
    <3> DEFINE h == Head(owner[s].backlog)
    <3>1. h \in Envelope /\ Receives(s, h)
      BY <2>1, <2>3
    <3> HIDE DEF h, a, b, i, j
    <3>2. QED
      BY <1>6, <3>1, Zenon
  <2>4. QED
    BY <1>8, <2>2, <2>3 DEF Replays
<1>9. ASSUME Pops(s)
      PROVE  b = a /\ j <= i
  <2> DEFINE qu == sub[s].queue
  <2>1. /\ b = a /\ qu \in Queue(Envelope) /\ qu.items # <<>>
        /\ sub'[s].queue = Dequeue(qu)
    BY <1>3, <1>9 DEF Pops, LogSame
  <2>2. Len(Dequeue(qu).items) = Len(qu.items) - 1
    BY <2>1, DequeueProperties
  <2>3. j = i - 1
    BY <2>1, <2>2
  <2> HIDE DEF i, j
  <2>4. QED
    BY <1>4, <2>1, <2>3
<1>10. ASSUME Closes(s)
       PROVE  b = a /\ j = i
  BY <1>3, <1>10, CloseQueueProperties DEF Closes, LogSame
<1>11. ASSUME \/ Quiet(s) \/ Refused(s) \/ Starts(s) \/ Expires(s) \/ Delivers(s)
              \/ Returns(s) \/ Exits(s) \/ Joins(s)
       PROVE  b = a /\ j = i
  BY <1>11 DEF Quiet, Refused, Starts, Expires, Delivers, Returns, Exits, Joins, SameQueue, LogSame
<1>12. ASSUME NEW t \in Topics, NEW type \in Types, NEW qos \in Requested,
              Subscribes(s, t, type, qos)
       PROVE  b = a /\ owner[s].pc = "idle"
  BY <1>12 DEF Subscribes, LogSame
<1> HIDE DEF a, b, i, j
<1>13. b >= a /\ (owner[s].pc # "idle" => b - j >= a - i)
  <2>1. \/ b = a /\ j <= i
        \/ b = a + 1 /\ j <= i + 1
        \/ b = a /\ owner[s].pc = "idle"
    BY <1>1, <1>4, <1>7, <1>8, <1>9, <1>10, <1>11, <1>12 DEF SubStep
  <2>2. QED
    BY <1>4, <2>1
<1>14. QED
  BY <1>4, <1>5, <1>13 DEF a, b

\* A step keeps ScanInv.
LEMMA ScanStep == TypeInv /\ ListedShape /\ ScanInv /\ [Next]_vars => ScanInv'
<1> SUFFICES ASSUME TypeInv, ListedShape, ScanInv, [Next]_vars, idler'.pc = "scan"
             PROVE  /\ \A s \in Subscribers : idler'.before[s] <= Len(accepted'[s])
                    /\ \A s \in AllListed' :
                         s \in ToSet(idler'.todo) \/ Gone(s)' >= idler'.before[s]
  BY DEF ScanInv
<1>1. /\ idler \in IdlerRec /\ idler.todo \in Seq(Subscribers)
      /\ idler.before \in [Subscribers -> Nat]
  BY TypeParts DEF TypeInv, IdlerRec
<1>2. AllListed \subseteq Subscribers /\ \A s \in AllListed : owner[s].pc # "idle"
  BY PubTypes, ToSetType DEF AllListed, ListedShape, Known
<1>3. ASSUME idler.pc = "scan", idler'.before = idler.before,
             \A s \in AllListed : s \in ToSet(idler'.todo) \/ Gone(s) >= idler.before[s]
      PROVE  /\ \A s \in Subscribers : idler'.before[s] <= Len(accepted'[s])
             /\ \A s \in AllListed' :
                  s \in ToSet(idler'.todo) \/ Gone(s)' >= idler'.before[s]
  <2>1. \A s \in Subscribers : idler.before[s] \in Nat /\ idler.before[s] <= Len(accepted[s])
    BY <1>1, <1>3 DEF ScanInv
  <2>2. \A s \in Subscribers : idler'.before[s] <= Len(accepted'[s])
    BY <1>3, <2>1, GoneGrows
  <2>3. ASSUME NEW s \in AllListed', s \notin ToSet(idler'.todo)
        PROVE  Gone(s)' >= idler'.before[s]
    <3>1. s \in AllListed /\ s \in Subscribers
      BY <1>2, <1>3, <2>3, ScanLocks
    <3>2. Gone(s) >= idler.before[s] /\ idler.before[s] \in Nat
      BY <1>3, <2>1, <2>3, <3>1
    <3>3. Gone(s)' >= Gone(s) /\ Gone(s) \in Int /\ Gone(s)' \in Int
      BY <1>2, <3>1, GoneGrows
    <3>4. QED
      BY <1>3, <3>2, <3>3
  <2>4. QED
    BY <2>2, <2>3
<1>5. CASE UNCHANGED idler
  BY <1>3, <1>5 DEF ScanInv
<1>6. CASE wait_for_idle
  <2>1. PICK order \in SetToSeqs(Topics) :
         idler' = [pc |-> "scan",
                   todo |-> FlattenSeq([i \in DOMAIN order |-> topics[order[i]].subs]),
                   calls |-> IF idler.pc = "busy" THEN idler.calls ELSE idler.calls + 1,
                   before |-> [s \in Subscribers |-> Len(accepted[s])]]
    BY <1>6 DEF wait_for_idle
  <2> DEFINE all == FlattenSeq([i \in DOMAIN order |-> topics[order[i]].subs])
  <2>2. ToSet(all) = AllListed
    BY Listing
  <2>3. idler'.todo = all /\ idler'.before = [s \in Subscribers |-> Len(accepted[s])]
    BY <2>1
  <2>4. UNCHANGED <<topics, accepted>>
    BY <1>6 DEF wait_for_idle, busVars, historyVars
  <2> HIDE DEF all
  <2>5. AllListed' = AllListed
    BY <2>4 DEF AllListed
  <2>6. \A s \in Subscribers : Len(accepted[s]) \in Nat
    BY GoneGrows
  <2>7. QED
    BY <2>2, <2>3, <2>4, <2>5, <2>6
<1>7. CASE idle_scan
  <2> DEFINE tl == Tail(idler.todo)
             h == Head(idler.todo)
             e == <<>>
  <2>1. /\ idler.pc = "scan" /\ idler'.pc = "scan"
        /\ \/ idler' = [idler EXCEPT !.pc = "true"]
           \/ /\ idler.todo # <<>> /\ sub[h].queue.items = <<>>
              /\ idler' = [idler EXCEPT !.todo = tl]
           \/ idler' = [idler EXCEPT !.pc = "busy", !.todo = e]
    BY <1>7 DEF idle_scan
  <2>2. ToSet(idler.todo) = {h} \cup ToSet(tl) \/ idler.todo = <<>>
    BY <1>1, ToSetHeadTail
  <2>3. idler.todo # <<>> => h \in Subscribers
    BY <1>1
  <2> HIDE DEF tl, h, e
  <2>4. /\ idler' # [idler EXCEPT !.pc = "true"]
        /\ idler' # [idler EXCEPT !.pc = "busy", !.todo = e]
    <3>1. [idler EXCEPT !.pc = "true"].pc = "true"
      BY <1>1 DEF IdlerRec
    <3>2. [idler EXCEPT !.pc = "busy", !.todo = e].pc = "busy"
      BY <1>1 DEF IdlerRec
    <3>3. QED
      BY <2>1, <3>1, <3>2
  <2>5. /\ idler.todo # <<>> /\ sub[h].queue.items = <<>>
        /\ idler' = [idler EXCEPT !.todo = tl]
    BY <2>1, <2>4
  <2>6. idler'.todo = tl /\ idler'.before = idler.before
    BY <1>1, <2>5 DEF IdlerRec
  <2>7. Gone(h) >= idler.before[h]
    <3>1. Len(accepted[h]) \in Nat /\ idler.before[h] <= Len(accepted[h])
      BY <2>1, <2>3, <2>5, GoneGrows DEF ScanInv
    <3>2. Gone(h) = Len(accepted[h])
      BY <2>5, <3>1 DEF Gone
    <3>3. QED
      BY <3>1, <3>2
  <2>8. QED
    BY <1>3, <2>1, <2>2, <2>5, <2>6, <2>7 DEF ScanInv
<1>8. CASE idle_timeout
  BY <1>1, <1>8 DEF idle_timeout, IdlerRec
<1>9. QED
  BY <1>5, <1>6, <1>7, <1>8, IdlerKinds

\* When wait_for_idle() answers true, every message that a listed queue had accepted
\* before its scan began has left that queue, although the scan looks at one queue after
\* the other and publishers push meanwhile.
THEOREM IdleMeansIdle == Spec => IdleIsIdle
<1>1. Init => ScanInv
  BY DEF Init, ScanInv
<1>2. Spec => [](TypeInv /\ QuietInv /\ PromiseInv /\ ScanInv)
  <2>1. PromiseInv => ListedShape
    BY DEF PromiseInv
  <2>2. QED
    BY <1>1, <2>1, TypeInit, TypeStep, QuietInit, QuietStep, PromiseInit, PromiseStep, ScanStep, PTL
       DEF Spec
<1>3. ASSUME TypeInv, ScanInv, [Next]_vars
      PROVE  [idler.pc = "scan" /\ idler'.pc = "true" =>
                 \A s \in AllListed :
                     Len(accepted[s]) - Len(sub[s].queue.items) >= idler.before[s]]_vars
  <2> SUFFICES ASSUME idler.pc = "scan", idler'.pc = "true"
               PROVE  \A s \in AllListed : Gone(s) >= idler.before[s]
    BY DEF Gone
  <2>1. idler \in IdlerRec
    BY <1>3, TypeParts DEF TypeInv
  <2>2. idle_scan
    <3>1. ~wait_for_idle /\ ~idle_timeout
      BY DEF wait_for_idle, idle_timeout
    <3>2. QED
      BY <1>3, <3>1, IdlerKinds
  <2>3. idler.todo = <<>>
    BY <2>1, <2>2 DEF idle_scan, IdlerRec
  <2>4. QED
    BY <1>3, <2>3, ToSetEmpty DEF ScanInv
<1>4. QED
  BY <1>2, <1>3, PTL DEF Spec, IdleIsIdle


-----------------------------------------------------------------------------
(* QoS matching. *)

Matches(p, s) == check_compatible(pub[p].qos, sub[s].qos) = "None"

\* How often each subscriber has been refused.
Rejections == [s \in Subscribers |-> sub[s].qos_rejected]

\* A message under way carries the name of its publisher.
FromShape ==
    \A p \in Publishers : pub[p].pc \in {"lock", "report", "push"} => pub[p].env.from = p

\* A publisher pushes to subscribers that match, and reports those that do not.
MatchShape == \A p \in Publishers : \A s \in ToSet(pub[p].targets) : Matches(p, s)
ToldShape ==
    /\ \A p \in Publishers : \A s \in ToSet(pub[p].mismatches) :
         Known(s) /\ sub[s].mismatch_reported
    /\ \A s \in heard : Known(s) /\ sub[s].mismatch_reported

\* A topic lists its own subscribers.
TopicShape == \A t \in Topics : \A s \in ToSet(topics[t].subs) : sub[s].topic = t

\* What a subscriber without backlog has accepted is from publishers that match.
VolatileShape ==
    \A s \in Subscribers : sub[s].qos.durability = "Volatile" =>
        /\ owner[s].backlog = <<>>
        /\ \A e \in ToSet(accepted[s]) :
             e.from \in Publishers /\ pub[e.from].pc # "none" /\ Matches(e.from, s)

\* Who was refused something was so by a publisher of its topic that does not match.
NoticeShape ==
    \A s \in Subscribers :
        /\ ~Known(s) => sub[s].qos_rejected = 0
        /\ sub[s].mismatch_reported <=> sub[s].qos_rejected > 0
        /\ sub[s].qos_rejected > 0 =>
             \E p \in Publishers :
                 pub[p].pc # "none" /\ pub[p].topic = sub[s].topic /\ ~Matches(p, s)

\* The bus counts the refusals.
CountShape == counts.qos = Cardinality(Units(Rejections, Subscribers))

OffersInv ==
    /\ FromShape /\ MatchShape /\ ToldShape /\ TopicShape /\ VolatileShape /\ NoticeShape
    /\ CountShape

\* An advertised topic, type and QoS stay.
LEMMA AdKept ==
    ASSUME TypeInv, [Next]_vars, NEW p \in Publishers, pub[p].pc # "none"
    PROVE  pub'[p].pc # "none" /\ SameAd(pub'[p], pub[p])
<1>1. PubStep(p)
  BY PublisherSteps DEF PubSteps
<1>2. ~\E t \in Topics, type \in Types, qos \in Offered : Advertises(p, t, type, qos)
  BY DEF Advertises
<1>3. QED
  BY <1>1, <1>2 DEF PubStep, Calls, Numbers, WrongType, Reports, Pushes, Goes, SameAd

\* So a match stays a match and a mismatch a mismatch.
LEMMA MatchKept ==
    ASSUME TypeInv, [Next]_vars, NEW p \in Publishers, pub[p].pc # "none",
           NEW s \in Subscribers, Known(s)
    PROVE  Matches(p, s)' <=> Matches(p, s)
<1>1. pub'[p].qos = pub[p].qos /\ sub'[s].qos = sub[s].qos
  BY AdKept, KnownKept DEF SameAd, SameSetup
<1>2. QED
  BY <1>1 DEF Matches

\* A step keeps FromShape.
LEMMA FromKept ==
    ASSUME TypeInv, FromShape, [Next]_vars
    PROVE  FromShape'
<1> SUFFICES ASSUME NEW p \in Publishers, pub'[p].pc \in {"lock", "report", "push"}
             PROVE  pub'[p].env.from = p
  BY DEF FromShape
<1>1. PubStep(p)
  BY PublisherSteps DEF PubSteps
<1>2. pub[p].pc \in {"lock", "report", "push"} => pub[p].env.from = p
  BY DEF FromShape
<1>3. CASE Calls(p)
  BY <1>3 DEF Calls
<1>4. CASE Numbers(p)
  BY <1>2, <1>4 DEF Numbers
<1>5. ~WrongType(p)
  BY DEF WrongType
<1>6. CASE Reports(p)
  BY <1>2, <1>6 DEF Reports, SameCall
<1>7. CASE Pushes(p)
  BY <1>2, <1>7 DEF Pushes, SameCall
<1>8. QED
  BY <1>1, <1>2, <1>3, <1>4, <1>5, <1>6, <1>7 DEF PubStep, Advertises

\* The targets of a call are known, and the call has an advertisement.
LEMMA TargetsKnown ==
    ASSUME TypeInv, PromiseInv, NEW p \in Publishers, NEW s \in ToSet(pub[p].targets)
    PROVE  s \in Subscribers /\ Known(s) /\ pub[p].pc # "none"
<1>1. pub[p].targets \in Seq(Subscribers)
  BY PubTypes
<1>2. pub[p].targets # <<>>
  BY ToSetEmpty
<1>3. pub[p].pc \in {"report", "push"}
  BY <1>2 DEF TypeInv, PublisherShape
<1>4. QED
  BY <1>1, <1>3, ToSetType DEF PromiseInv, AimedShape, Promised

\* A step keeps MatchShape.
LEMMA MatchesKept ==
    ASSUME TypeInv, PromiseInv, MatchShape, [Next]_vars
    PROVE  MatchShape'
<1> SUFFICES ASSUME NEW p \in Publishers, NEW s \in ToSet(pub'[p].targets)
             PROVE  Matches(p, s)'
  BY DEF MatchShape
<1>1. PubStep(p)
  BY PublisherSteps DEF PubSteps
<1>2. pub[p].targets \in Seq(Subscribers)
  BY PubTypes
<1>3. ASSUME s \in ToSet(pub[p].targets)
      PROVE  Matches(p, s)'
  BY <1>3, TargetsKnown, MatchKept DEF MatchShape
<1>4. CASE Numbers(p)
  <2>1. pub'[p].targets = TargetsOf(p) /\ pub[p].pc = "lock"
    BY <1>4 DEF Numbers
  <2>2. pub[p].topic \in Topics /\ topics[pub[p].topic].subs \in Seq(Subscribers)
    BY <2>1, PubTypes
  <2> DEFINE L == topics[pub[p].topic].subs
             R == RejectedBy(p)
  <2>3. ToSet(TargetsOf(p)) = ToSet(L) \cap (Subscribers \ R)
    BY <2>2, OnlyElements DEF TargetsOf
  <2>4. s \in Subscribers /\ s \in ToSet(L) /\ s \notin R
    BY <2>1, <2>3
  <2>5. Matches(p, s) /\ Known(s)
    BY <2>2, <2>4 DEF RejectedBy, Matches, PromiseInv, ListedShape
  <2>6. QED
    BY <2>1, <2>4, <2>5, MatchKept
<1>5. CASE Pushes(p)
  <2>1. pub'[p].targets = Tail(pub[p].targets) /\ pub[p].targets # <<>>
    BY <1>5 DEF Pushes, TypeInv, PublisherShape
  <2>2. s \in ToSet(pub[p].targets)
    BY <1>2, <2>1, ToSetHeadTail
  <2>3. QED
    BY <1>3, <2>2
<1>6. ASSUME NEW t \in Topics, NEW type \in Types, NEW qos \in Offered,
             Advertises(p, t, type, qos)
      PROVE  FALSE
  BY <1>6, ToSetEmpty DEF Advertises
<1>7. ASSUME pub'[p].targets = pub[p].targets
      PROVE  Matches(p, s)'
  BY <1>3, <1>7
<1>8. QED
  BY <1>1, <1>4, <1>5, <1>6, <1>7 DEF PubStep, Calls, WrongType, Reports

\* A topic's list: who is on it was on it, or joins it by this step.
LEMMA ListSteps ==
    ASSUME TypeInv, [Next]_vars, NEW t \in Topics, NEW s \in ToSet(topics'[t].subs)
    PROVE  /\ s \in Subscribers
           /\ \/ s \in ToSet(topics[t].subs)
              \/ \E type \in Types, qos \in Requested : Subscribes(s, t, type, qos)
<1> DEFINE n == topics'[t]
           r == topics[t]
<1>1. TopicStep(t) /\ n \in EntryRec
  BY AllTopicSteps DEF TopicSteps
<1>2. n.subs \in Seq(Subscribers) /\ r.subs \in Seq(Subscribers)
  BY <1>1, PubTypes DEF EntryRec
<1>3. s \in Subscribers
  BY <1>2, ToSetType
<1>4. CASE n.subs = r.subs
  BY <1>3, <1>4
<1>5. ASSUME NEW x \in Subscribers, n.subs = RemoveFirst(r.subs, x)
      PROVE  s \in ToSet(r.subs)
  BY <1>2, <1>5, RemoveFirstElements
<1>6. CASE n.subs = <<>>
  BY <1>6, ToSetEmpty
<1>7. ASSUME NEW x \in Subscribers, NEW type \in Types, NEW qos \in Requested,
             subscribe(x, t, type, qos), n.subs = Append(r.subs, x)
      PROVE  s \in ToSet(r.subs) \/ Subscribes(s, t, type, qos)
  <2>1. ToSet(n.subs) = ToSet(r.subs) \cup {x}
    BY <1>2, <1>7, ToSetAppend
  <2>2. CASE s = x
    <3>1. topics' # topics
      <4>1. n.subs # r.subs
        BY <1>2, <1>7
      <4>2. QED
        BY <4>1
    <3>2. /\ owner[s].pc = "idle" /\ owner'[s].pc = "replay"
          /\ sub'[s] = NewSubscription(t, type, qos)
      BY <1>7, <2>2, <3>1, FourTypes DEF subscribe
    <3>3. PICK t2 \in Topics, type2 \in Types, qos2 \in Requested : Subscribes(s, t2, type2, qos2)
      <4>1. SubStep(s)
        BY <1>3, SubscriberSteps DEF SubSteps, SubStepTyped
      <4>2. AfterClose(s, "done") # "replay"
        BY <1>3, AfterCloseValues
      <4>3. QED
        BY <3>2, <4>1, <4>2 DEF SubStep, OwnerSame, OwnerMoves, Replays, Starts
    <3>4. qos \in QoS
      BY QosAssumption
    <3>5. sub'[s].topic = t /\ sub'[s].type = type /\ sub'[s].qos = qos
      BY <3>2, <3>4, NewSubscriptionFields
    <3>6. t2 = t /\ type2 = type /\ qos2 = qos
      BY <3>3, <3>5 DEF Subscribes
    <3>7. QED
      BY <3>3, <3>6
  <2>3. QED
    BY <2>1, <2>2
<1>8. QED
  BY <1>1, <1>3, <1>4, <1>5, <1>6, <1>7 DEF TopicStep, SameEntry

\* A step keeps TopicShape.
LEMMA TopicShapeKept ==
    ASSUME TypeInv, PromiseInv, TopicShape, [Next]_vars
    PROVE  TopicShape'
<1> SUFFICES ASSUME NEW t \in Topics, NEW s \in ToSet(topics'[t].subs)
             PROVE  sub'[s].topic = t
  BY DEF TopicShape
<1>1. /\ s \in Subscribers
      /\ \/ s \in ToSet(topics[t].subs)
         \/ \E type \in Types, qos \in Requested : Subscribes(s, t, type, qos)
  BY ListSteps
<1>2. CASE s \in ToSet(topics[t].subs)
  BY <1>1, <1>2, KnownKept DEF TopicShape, PromiseInv, ListedShape, SameSetup
<1>3. QED
  BY <1>1, <1>2 DEF Subscribes


\* Who was refused something, and told so, stays so.
LEMMA ReportedStays ==
    ASSUME TypeInv, [Next]_vars, NEW s \in Subscribers, Known(s), sub[s].mismatch_reported
    PROVE  Known(s)' /\ sub'[s].mismatch_reported
<1>1. SubStep(s)
  BY SubscriberSteps DEF SubSteps, SubStepTyped
<1>2. ~\E t \in Topics, type \in Types, qos \in Requested : Subscribes(s, t, type, qos)
  BY DEF Known, Subscribes
<1>3. sub'[s].mismatch_reported = TRUE \/ sub'[s].mismatch_reported = sub[s].mismatch_reported
  BY <1>1, <1>2 DEF SubStep, Quiet, Refused, Receives, Replays, Starts, Pops, Expires, Delivers,
       Returns, Exits, Closes, Joins, SameNotice
<1>4. QED
  BY <1>3, KnownKept

\* The handler hears of the mismatches of one call.
LEMMA HeardSteps ==
    ASSUME [Next]_vars
    PROVE  heard' = heard \/ \E p \in Publishers : heard' = heard \cup ToSet(pub[p].mismatches)
<1>1. ASSUME NEW p \in Publishers, report_mismatches(p)
      PROVE  heard' = heard \/ heard' = heard \cup ToSet(pub[p].mismatches)
  BY <1>1 DEF report_mismatches
<1>2. ASSUME NEW p \in Publishers, publish(p) \/ publish_erased(p) \/ publish_wrong_type(p)
      PROVE  heard' = heard
  BY <1>2 DEF publish, publish_erased, publish_wrong_type, historyVars
<1>3. ASSUME NEW p \in Publishers, push_target(p) \/ push_fails(p)
      PROVE  heard' = heard
  BY <1>3 DEF push_target, push_fails
<1>4. ASSUME NEW p \in Publishers, NEW t \in Topics, NEW type \in Types, NEW qos \in Offered,
             advertise(p, t, type, qos)
      PROVE  heard' = heard
  BY <1>4 DEF advertise, historyVars
<1>5. OtherStep => heard' = heard
  BY OtherStepFrame
<1>6. QED
  BY <1>1, <1>2, <1>3, <1>4, <1>5, StepKinds

\* A publish under the lock: who is refused and who is not.
LEMMA Refusals ==
    ASSUME TypeInv, NEW p \in Publishers, publish_erased(p), NEW s \in Subscribers
    PROVE  /\ s \in RejectedBy(p) => /\ sub'[s].qos_rejected = sub[s].qos_rejected + 1
                                     /\ sub'[s].mismatch_reported = TRUE
           /\ s \notin RejectedBy(p) => sub'[s] = sub[s]
<1> DEFINE R == RejectedBy(p)
<1>1. sub' = [x \in Subscribers |-> IF x \in R THEN Refuse(sub[x]) ELSE sub[x]]
  BY Zenon DEF publish_erased, RejectedBy
<1> HIDE DEF R
<1>2. sub[s] \in SubRec
  BY FourTypes
<1>3. s \notin R => sub'[s] = sub[s]
  BY <1>1
<1>4. ASSUME s \in R
      PROVE  /\ sub'[s].qos_rejected = sub[s].qos_rejected + 1
             /\ sub'[s].mismatch_reported = TRUE
  <2>1. sub'[s] = Refuse(sub[s])
    BY <1>1, <1>4
  <2>2. QED
    BY <1>2, <2>1, RefuseFields
<1>5. QED
  BY <1>3, <1>4 DEF R

\* A step keeps ToldShape.
LEMMA ToldKept ==
    ASSUME TypeInv, PromiseInv, ToldShape, [Next]_vars
    PROVE  ToldShape'
<1>1. ASSUME NEW p \in Publishers, NEW s \in ToSet(pub[p].mismatches)
      PROVE  Known(s)' /\ sub'[s].mismatch_reported
  <2>1. s \in Subscribers
    BY PubTypes, ToSetType
  <2>2. QED
    BY <2>1, ReportedStays DEF ToldShape
<1>2. ASSUME NEW s \in heard
      PROVE  Known(s)' /\ sub'[s].mismatch_reported
  <2>1. s \in Subscribers
    BY TypeParts DEF TypeInv
  <2>2. QED
    BY <2>1, ReportedStays DEF ToldShape
<1>3. \A s \in heard' : Known(s)' /\ sub'[s].mismatch_reported
  BY <1>1, <1>2, HeardSteps
<1>4. ASSUME NEW p \in Publishers, NEW s \in ToSet(pub'[p].mismatches)
      PROVE  Known(s)' /\ sub'[s].mismatch_reported
  <2>1. PubStep(p)
    BY PublisherSteps DEF PubSteps
  <2>2. CASE Numbers(p)
    <3>1. s \in RejectedBy(p) /\ publish_erased(p) /\ pub[p].pc = "lock"
      BY <2>2 DEF Numbers
    <3>2. pub[p].topic \in Topics /\ topics[pub[p].topic].subs \in Seq(Subscribers)
      BY <3>1, PubTypes
    <3>3. s \in ToSet(topics[pub[p].topic].subs)
      BY <3>1 DEF RejectedBy
    <3>4. s \in Subscribers /\ Known(s)
      BY <3>2, <3>3, ToSetType DEF PromiseInv, ListedShape
    <3>5. sub'[s].mismatch_reported = TRUE
      BY <3>1, <3>4, Refusals
    <3>6. QED
      BY <3>4, <3>5, KnownKept
  <2>3. CASE pub'[p].mismatches = pub[p].mismatches
    BY <1>1, <2>3
  <2>4. CASE pub'[p].mismatches = <<>>
    BY <2>4, ToSetEmpty
  <2>5. QED
    BY <2>1, <2>2, <2>3, <2>4 DEF PubStep, Advertises, Calls, WrongType, Reports, Pushes
<1>5. QED
  BY <1>3, <1>4 DEF ToldShape

\* A step keeps VolatileShape.
LEMMA VolatileKept ==
    ASSUME TypeInv, QuietInv, PromiseInv, LogShape, FromShape, MatchShape, VolatileShape,
           [Next]_vars
    PROVE  VolatileShape'
<1> SUFFICES ASSUME NEW s \in Subscribers, sub'[s].qos.durability = "Volatile"
             PROVE  /\ owner'[s].backlog = <<>>
                    /\ \A e \in ToSet(accepted'[s]) :
                         e.from \in Publishers /\ pub'[e.from].pc # "none" /\ Matches(e.from, s)'
  <2>1. ASSUME NEW s \in Subscribers, NEW e, e.from \in Publishers
        PROVE  (pub[e.from].pc # "none" /\ Matches(e.from, s))' <=>
                   pub'[e.from].pc # "none" /\ Matches(e.from, s)'
    OBVIOUS
  <2>2. QED
    BY <2>1 DEF VolatileShape
<1> DEFINE Fine(e) == e.from \in Publishers /\ pub'[e.from].pc # "none" /\ Matches(e.from, s)'
<1>1. SubStep(s) /\ accepted[s] \in Seq(Envelope)
  BY SubscriberSteps, FourTypes DEF SubSteps, SubStepTyped
<1>2. CASE ~Known(s)
  <2>1. CASE ~Known(s)'
    <3>1. accepted'[s] = <<>>
      BY <2>1, LogKept DEF LogShape
    <3>2. owner'[s].pc # "replay"
      BY <2>1 DEF Known
    <3>3. owner'[s].backlog = <<>>
      BY <3>2, TypeStep DEF TypeInv, SubscriberShape
    <3>4. QED
      BY <3>1, <3>3, ToSetEmpty
  <2>2. ASSUME Known(s)'
        PROVE  \E t \in Topics, type \in Types, qos \in Requested : Subscribes(s, t, type, qos)
    <3>1. owner[s].pc \in {"idle", "refused"} /\ owner'[s].pc \notin {"idle", "refused"}
      BY <1>2, <2>2 DEF Known
    <3>2. QED
      BY <1>1, <3>1 DEF SubStep, OwnerSame, OwnerMoves, Replays, Starts
  <2>3. ASSUME NEW t \in Topics, NEW type \in Types, NEW qos \in Requested,
               Subscribes(s, t, type, qos)
        PROVE  owner'[s].backlog = <<>> /\ accepted'[s] = <<>>
    <3>1. /\ qos.durability = "Volatile"
          /\ owner'[s].backlog =
               IF qos.durability = "TransientLocal" THEN topics[t].latched ELSE <<>>
          /\ accepted'[s] = accepted[s]
      BY <2>3 DEF Subscribes, LogSame
    <3>2. QED
      BY <1>2, <3>1 DEF LogShape
  <2>4. QED
    BY <2>1, <2>2, <2>3, ToSetEmpty
<1>3. CASE Known(s)
  <2>1. sub'[s].qos = sub[s].qos
    BY <1>3, KnownKept DEF SameSetup
  <2>2. /\ owner[s].backlog = <<>>
        /\ \A e \in ToSet(accepted[s]) :
             e.from \in Publishers /\ pub[e.from].pc # "none" /\ Matches(e.from, s)
    BY <2>1 DEF VolatileShape
  <2>3. ~Replays(s)
    BY <2>2 DEF Replays
  <2>4. ~\E t \in Topics, type \in Types, qos \in Requested : Subscribes(s, t, type, qos)
    BY <1>3 DEF Known, Subscribes
  <2>5. owner'[s].backlog = <<>>
    BY <1>1, <2>2, <2>3, <2>4 DEF SubStep, OwnerSame, OwnerMoves, Starts
  <2>6. \A e \in ToSet(accepted[s]) : Fine(e)
    BY <1>3, <2>2, AdKept, MatchKept
  <2> HIDE DEF Fine
  <2>7. ASSUME NEW p \in Publishers, push_target(p), s = Head(pub[p].targets),
               Receives(s, pub[p].env)
        PROVE  \A e \in ToSet(accepted'[s]) : Fine(e)
    <3>1. pub[p].pc = "push" /\ pub[p].targets \in Seq(Subscribers) /\ pub[p].env \in Envelope
      BY <2>7, PubTypes DEF push_target
    <3>2. s \in ToSet(pub[p].targets)
      BY <2>7, <3>1, ToSetHeadTail DEF TypeInv, PublisherShape
    <3>3. pub[p].env.from = p /\ Matches(p, s)
      BY <3>1, <3>2 DEF FromShape, MatchShape
    <3>4. Fine(pub[p].env)
      <4> DEFINE env == pub[p].env
      <4>1. pub'[p].pc # "none" /\ Matches(p, s)'
        BY <1>3, <3>1, <3>3, AdKept, MatchKept
      <4>2. \A e : e.from = p => Fine(e)
        BY <4>1 DEF Fine
      <4>3. env.from = p
        BY <3>3
      <4> HIDE DEF env
      <4>4. Fine(env)
        BY <4>2, <4>3, SMTT(40)
      <4>5. QED
        BY <4>4 DEF env
    <3>5. accepted'[s] = Append(accepted[s], pub[p].env)
      BY <2>7 DEF Receives
    <3>6. ToSet(accepted'[s]) = ToSet(accepted[s]) \cup {pub[p].env}
      BY <1>1, <3>1, <3>5, ToSetAppend
    <3>7. QED
      BY <2>6, <3>4, <3>6
  <2> DEFINE All(l) == \A e \in ToSet(l) : Fine(e)
  <2>8. ASSUME accepted'[s] = accepted[s]
        PROVE  All(accepted'[s])
    <3>1. All(accepted[s])
      BY <2>6
    <3> HIDE DEF All
    <3>2. QED
      BY <2>8, <3>1
  <2>9. ASSUME NEW p \in Publishers, push_target(p), s = Head(pub[p].targets),
               Receives(s, pub[p].env)
        PROVE  All(accepted'[s])
    BY <2>7, <2>9
  <2> HIDE DEF All
  <2>10. All(accepted'[s])
    BY <1>1, <2>3, <2>4, <2>8, <2>9 DEF SubStep, Quiet, Refused, Starts, Pops, Expires, Delivers,
       Returns, Exits, Closes, Joins, LogSame
  <2>11. QED
    BY <2>5, <2>10 DEF All, Fine
<1>4. QED
  BY <1>2, <1>3

\* A step keeps NoticeShape.
LEMMA NoticeKept ==
    ASSUME TypeInv, PromiseInv, TopicShape, NoticeShape, [Next]_vars
    PROVE  NoticeShape'
<1> SUFFICES ASSUME NEW s \in Subscribers
             PROVE  /\ ~Known(s)' => sub'[s].qos_rejected = 0
                    /\ sub'[s].mismatch_reported <=> sub'[s].qos_rejected > 0
                    /\ sub'[s].qos_rejected > 0 =>
                         \E p \in Publishers : /\ pub'[p].pc # "none"
                                              /\ pub'[p].topic = sub'[s].topic /\ ~Matches(p, s)'
  BY DEF NoticeShape
<1> DEFINE Good == /\ ~Known(s)' => sub'[s].qos_rejected = 0
                   /\ sub'[s].mismatch_reported <=> sub'[s].qos_rejected > 0
                   /\ sub'[s].qos_rejected > 0 =>
                        \E p \in Publishers : /\ pub'[p].pc # "none"
                                             /\ pub'[p].topic = sub'[s].topic /\ ~Matches(p, s)'
           Blamed(p) == pub[p].pc # "none" /\ pub[p].topic = sub[s].topic /\ ~Matches(p, s)
           Blamed1(p) == /\ pub'[p].pc # "none"
                         /\ pub'[p].topic = sub'[s].topic /\ ~Matches(p, s)'
<1>1. SubStep(s) /\ sub[s] \in SubRec /\ sub[s].qos_rejected \in Nat
  BY SubscriberSteps, FourTypes DEF SubSteps, SubStepTyped, SubRec
<1>2. /\ ~Known(s) => sub[s].qos_rejected = 0
      /\ sub[s].mismatch_reported <=> sub[s].qos_rejected > 0
      /\ sub[s].qos_rejected > 0 => \E p \in Publishers : Blamed(p)
  BY DEF NoticeShape
<1>3. Known(s) => \A p \in Publishers : Blamed(p) => Blamed1(p)
  <2>1. ASSUME Known(s), NEW p \in Publishers, Blamed(p)
        PROVE  Blamed1(p)
    BY <2>1, AdKept, KnownKept, MatchKept DEF SameAd, SameSetup
  <2>2. QED
    BY <2>1
<1>4. ASSUME SameNotice(sub'[s], sub[s]), Known(s) \/ ~Known(s)'
      PROVE  Good
  <2>1. /\ sub'[s].qos_rejected = sub[s].qos_rejected
        /\ sub'[s].mismatch_reported = sub[s].mismatch_reported
    BY <1>4 DEF SameNotice
  <2>2. Known(s) => Known(s)'
    BY KnownKept
  <2>3. CASE Known(s)
    BY <1>2, <1>3, <2>1, <2>2, <2>3
  <2>4. CASE ~Known(s)
    BY <1>2, <1>4, <2>1, <2>4
  <2>5. QED
    BY <2>3, <2>4
<1>5. ASSUME NEW p \in Publishers, publish_erased(p), s \in RejectedBy(p), Refused(s)
      PROVE  Good
  <2>1. pub[p].pc = "lock"
    BY <1>5 DEF publish_erased
  <2>2. pub[p].topic \in Topics
    BY <2>1, PubTypes
  <2>3. s \in ToSet(topics[pub[p].topic].subs) /\ ~Matches(p, s)
    BY <1>5 DEF RejectedBy, Matches
  <2>4. Known(s) /\ sub[s].topic = pub[p].topic
    BY <2>2, <2>3 DEF PromiseInv, ListedShape, TopicShape
  <2>5. Blamed1(p) /\ Known(s)'
    BY <1>3, <2>1, <2>3, <2>4, KnownKept
  <2>6. sub'[s].qos_rejected = sub[s].qos_rejected + 1 /\ sub'[s].mismatch_reported = TRUE
    BY <1>5 DEF Refused
  <2>7. sub'[s].qos_rejected > 0
    BY <1>1, <2>6
  <2>8. QED
    BY <2>5, <2>6, <2>7
<1>6. ASSUME NEW t \in Topics, NEW type \in Types, NEW qos \in Requested,
             Subscribes(s, t, type, qos)
      PROVE  Good
  <2>1. Subscription0.qos_rejected = 0 /\ Subscription0.mismatch_reported = FALSE
    BY Zenon DEF Subscription0
  <2>2. sub'[s].qos_rejected = 0 /\ sub'[s].mismatch_reported = FALSE
    BY <1>6, <2>1 DEF Subscribes, SameNotice
  <2>3. QED
    BY <2>2
<1> HIDE DEF Good
<1>7. ASSUME ~Known(s), Known(s)'
      PROVE  Good
  <2>1. owner[s].pc \in {"idle", "refused"} /\ owner'[s].pc \notin {"idle", "refused"}
    BY <1>7 DEF Known
  <2>2. QED
    BY <1>1, <1>6, <2>1 DEF SubStep, OwnerSame, OwnerMoves, Replays, Starts
<1>8. SubStep(s) => \/ SameNotice(sub'[s], sub[s])
                    \/ \E p \in Publishers : publish_erased(p) /\ s \in RejectedBy(p) /\ Refused(s)
                    \/ \E t \in Topics, type \in Types, qos \in Requested : Subscribes(s, t, type, qos)
  BY DEF SubStep, Quiet, Receives, Replays, Starts, Pops, Expires, Delivers,
       Returns, Exits, Closes, Joins, SameNotice
<1>9. Good
  BY <1>1, <1>4, <1>5, <1>6, <1>7, <1>8
<1>10. QED
  BY <1>9 DEF Good

\* A step keeps CountShape.
LEMMA CountKept ==
    ASSUME TypeInv, PromiseInv, NoticeShape, CountShape, [Next]_vars
    PROVE  CountShape'
<1> DEFINE f == Rejections
           g == Rejections'
<1>1. f \in [Subscribers -> Nat]
  BY FourTypes DEF Rejections, SubRec
<1>2. g \in [Subscribers -> Nat]
  <2>1. \A s \in Subscribers : sub'[s].qos_rejected \in Nat
    BY SubscriberSteps DEF SubSteps, SubStepTyped, SubRec
  <2>2. QED
    BY <2>1 DEF Rejections
<1>3. /\ \A s \in Subscribers : f[s] = sub[s].qos_rejected /\ g[s] = sub'[s].qos_rejected
      /\ counts.qos = Cardinality(Units(f, Subscribers))
      /\ CountShape' <=> counts'.qos = Cardinality(Units(g, Subscribers))
  BY DEF Rejections, CountShape, Units
<1>4. counts \in [qos: Nat, type: Nat]
  BY TypeParts DEF TypeInv
<1> HIDE DEF f, g
<1>5. ASSUME NEW p \in Publishers, publish_erased(p)
      PROVE  CountShape'
  <2>1. counts'.qos = counts.qos + Cardinality(RejectedBy(p))
    <3> DEFINE k == counts.qos + Cardinality(RejectedBy(p))
    <3>1. counts' = [counts EXCEPT !.qos = k]
      BY <1>5, Zenon DEF publish_erased, RejectedBy
    <3> HIDE DEF k
    <3>2. counts'.qos = k
      BY <1>4, <3>1
    <3>3. QED
      BY <3>2 DEF k
  <2>2. RejectedBy(p) \subseteq Subscribers
    <3>1. pub[p].pc = "lock"
      BY <1>5 DEF publish_erased
    <3>2. ToSet(topics[pub[p].topic].subs) \subseteq Subscribers
      BY <3>1, PubTypes, ToSetType
    <3>3. QED
      BY <3>2 DEF RejectedBy
  <2>3. \A s \in Subscribers : g[s] = IF s \in RejectedBy(p) THEN f[s] + 1 ELSE f[s]
    BY <1>3, <1>5, Refusals
  <2>4. Cardinality(Units(g, Subscribers)) =
          Cardinality(Units(f, Subscribers)) + Cardinality(RejectedBy(p))
    <3> DEFINE Q == RejectedBy(p)
    <3>1. Q \in SUBSET Subscribers /\ IsFiniteSet(Subscribers)
      BY <2>2, SetsAssumption
    <3>2. \A s \in Subscribers : g[s] = IF s \in Q THEN f[s] + 1 ELSE f[s]
      BY <2>3
    <3> HIDE DEF Q
    <3>3. Cardinality(Units(g, Subscribers)) = Cardinality(Units(f, Subscribers)) + Cardinality(Q)
      BY <1>1, <1>2, <3>1, <3>2, UnitsGrow
    <3>4. QED
      BY <3>3 DEF Q
  <2>5. QED
    BY <1>3, <2>1, <2>4
<1>6. ASSUME \A p \in Publishers : ~publish_erased(p)
      PROVE  CountShape'
  <2>1. counts'.qos = counts.qos
    <3>1. ASSUME NEW p \in Publishers, publish_wrong_type(p)
          PROVE  counts'.qos = counts.qos
      <4> DEFINE k == counts.type + 1
      <4>1. counts' = [counts EXCEPT !.type = k]
        BY <3>1 DEF publish_wrong_type
      <4> HIDE DEF k
      <4>2. QED
        BY <1>4, <4>1
    <3>2. ASSUME NEW p \in Publishers,
                 publish(p) \/ report_mismatches(p) \/ push_target(p) \/ push_fails(p)
          PROVE  counts'.qos = counts.qos
      BY <3>2 DEF publish, report_mismatches, push_target, push_fails, busVars
    <3>3. ASSUME NEW p \in Publishers, NEW t \in Topics, NEW type \in Types, NEW qos \in Offered,
                 advertise(p, t, type, qos)
          PROVE  counts'.qos = counts.qos
      BY <3>3 DEF advertise
    <3>4. OtherStep => counts'.qos = counts.qos
      BY OtherStepFrame
    <3>5. QED
      BY <1>6, <3>1, <3>2, <3>3, <3>4, StepKinds
  <2>2. ASSUME NEW s \in Subscribers
        PROVE  sub'[s].qos_rejected = sub[s].qos_rejected
    <3>1. SubStep(s)
      BY SubscriberSteps DEF SubSteps, SubStepTyped
    <3>2. ASSUME NEW t \in Topics, NEW type \in Types, NEW qos \in Requested,
                 Subscribes(s, t, type, qos)
          PROVE  sub'[s].qos_rejected = sub[s].qos_rejected
      <4>1. Subscription0.qos_rejected = 0
        BY DEF Subscription0
      <4>2. sub'[s].qos_rejected = 0 /\ ~Known(s)
        BY <3>2, <4>1 DEF Subscribes, SameNotice, Known
      <4>3. QED
        BY <4>2 DEF NoticeShape
    <3>3. QED
      BY <1>6, <3>1, <3>2 DEF SubStep, Quiet, Receives, Replays, Starts, Pops, Expires, Delivers,
           Returns, Exits, Closes, Joins, SameNotice
  <2>3. g = f
    BY <1>1, <1>2, <1>3, <2>2
  <2>4. QED
    BY <1>3, <2>1, <2>3
<1>7. QED
  BY <1>5, <1>6


\* The sum that OffersRespected takes over the subscribers counts the refusals.
LEMMA RejectionsSum ==
    ASSUME TypeInv
    PROVE  MapThenSumSet(LAMBDA s : sub[s].qos_rejected, Subscribers)
             = Cardinality(Units(Rejections, Subscribers))
<1> DEFINE f == Rejections
           Rec(h) == h = [T \in SUBSET Subscribers |->
                            IF T = {} THEN 0
                            ELSE sub[CHOOSE x \in T : TRUE].qos_rejected
                                   + h[T \ {CHOOSE x \in T : TRUE}]]
           k == CHOOSE h : Rec(h)
<1>1. f \in [Subscribers -> Nat] /\ IsFiniteSet(Subscribers)
  BY FourTypes, SetsAssumption DEF Rejections, SubRec
<1>2. \A T \in SUBSET Subscribers : T # {} =>
          f[CHOOSE x \in T : TRUE] = sub[CHOOSE x \in T : TRUE].qos_rejected
  BY DEF Rejections
<1> HIDE DEF f
<1>3. PICK h : SumFn(h, f, Subscribers)
  BY <1>1, SumDefined
<1>4. ASSUME NEW g
      PROVE  Rec(g) <=> SumFn(g, f, Subscribers)
  <2> DEFINE A(T) == IF T = {} THEN 0
                     ELSE sub[CHOOSE x \in T : TRUE].qos_rejected
                            + g[T \ {CHOOSE x \in T : TRUE}]
             B(T) == IF T = {} THEN 0
                     ELSE f[CHOOSE x \in T : TRUE] + g[T \ {CHOOSE x \in T : TRUE}]
  <2>1. ASSUME NEW T \in SUBSET Subscribers
        PROVE  A(T) = B(T)
    <3> DEFINE x == CHOOSE x \in T : TRUE
               rest == g[T \ {x}]
    <3>1. A(T) = IF T = {} THEN 0 ELSE sub[x].qos_rejected + rest
      OBVIOUS
    <3>2. B(T) = IF T = {} THEN 0 ELSE f[x] + rest
      OBVIOUS
    <3>3. T # {} => f[x] = sub[x].qos_rejected
      BY <1>2
    <3> HIDE DEF A, B, x, rest
    <3>4. QED
      BY <3>1, <3>2, <3>3
  <2>2. Rec(g) <=> g = [T \in SUBSET Subscribers |-> A(T)]
    OBVIOUS
  <2>3. SumFn(g, f, Subscribers) <=> g = [T \in SUBSET Subscribers |-> B(T)]
    BY DEF SumFn
  <2> HIDE DEF A, B, Rec
  <2>4. [T \in SUBSET Subscribers |-> A(T)] = [T \in SUBSET Subscribers |-> B(T)]
    BY <2>1
  <2>5. QED
    BY <2>2, <2>3, <2>4
<1>5. MapThenSumSet(LAMBDA s : sub[s].qos_rejected, Subscribers) = k[Subscribers]
  BY DEF MapThenSumSet, MapThenFoldSet
<1>6. Rec(k)
  <2>1. Rec(h)
    BY <1>3, <1>4
  <2> HIDE DEF Rec
  <2>2. QED
    BY <2>1
<1> HIDE DEF k, Rec
<1>7. SumFn(k, f, Subscribers)
  BY <1>4, <1>6
<1>8. k[Subscribers] = Cardinality(Units(f, Subscribers))
  BY <1>1, <1>7, SumCounts
<1>9. QED
  BY <1>5, <1>8 DEF f

\* A step keeps OffersInv.
LEMMA OffersStep ==
    TypeInv /\ QuietInv /\ PromiseInv /\ LogShape /\ OffersInv /\ [Next]_vars => OffersInv'
BY FromKept, MatchesKept, ToldKept, TopicShapeKept, VolatileKept, NoticeKept, CountKept
   DEF OffersInv

\* OffersInv holds when the bus has been made.
LEMMA OffersInit == Init => OffersInv
<1> SUFFICES ASSUME Init
             PROVE  OffersInv
  OBVIOUS
<1>1. /\ \A s \in Subscribers : sub[s] = Subscription0 /\ accepted[s] = <<>>
      /\ \A s \in Subscribers : owner[s].backlog = <<>>
      /\ \A t \in Topics : topics[t] = Entry0
      /\ \A p \in Publishers : pub[p] = Publisher0
      /\ heard = {} /\ counts.qos = 0
  BY DEF Init
<1>2. /\ Publisher0.pc = "none" /\ Publisher0.targets = <<>> /\ Publisher0.mismatches = <<>>
      /\ Entry0.subs = <<>> /\ Subscription0.qos_rejected = 0
  BY DEF Subscription0, Publisher0, Entry0
<1>3. Subscription0.mismatch_reported = FALSE
  BY Zenon DEF Subscription0
<1>4. CountShape
  <2>1. \A s \in Subscribers : Rejections[s] = 0
    BY <1>1, <1>2 DEF Rejections
  <2>2. Units(Rejections, Subscribers) = {}
    BY <2>1 DEF Units
  <2>3. QED
    BY <1>1, <2>2, FS_EmptySet DEF CountShape
<1>5. FromShape /\ MatchShape /\ ToldShape /\ TopicShape
  BY <1>1, <1>2, ToSetEmpty DEF FromShape, MatchShape, ToldShape, TopicShape
<1>6. VolatileShape
  BY <1>1, ToSetEmpty DEF VolatileShape
<1>7. NoticeShape
  BY <1>1, <1>2, <1>3 DEF NoticeShape
<1>8. QED
  BY <1>4, <1>5, <1>6, <1>7 DEF OffersInv

-----------------------------------------------------------------------------
(* Once, and in order. *)

\* No number twice in a sequence of messages.
OneEach(l) == \A i, j \in DOMAIN l : l[i].seq = l[j].seq => i = j

\* What s has got, or will get from the backlog it copied.
Got(s) == ToSet(accepted[s]) \cup ToSet(owner[s].backlog)

\* Nobody is twice on a list, or on a call's copy of it.
ListShape ==
    /\ \A t \in Topics : Distinct(topics[t].subs)
    /\ \A p \in Publishers : Distinct(pub[p].targets)

\* A call past the lock has a number that its topic gave to no other call, and its
\* targets are subscribers of that topic.
Sending(p) == pub[p].pc \in {"report", "push"}
CallShape ==
    \A p \in Publishers : Sending(p) =>
        /\ pub[p].env.seq <= topics[pub[p].topic].published
        /\ \A s \in ToSet(pub[p].targets) : sub[s].topic = pub[p].topic
        /\ \A q \in Publishers :
             /\ Sending(q) /\ pub[q].topic = pub[p].topic /\ pub[q].env.seq = pub[p].env.seq
             => q = p

\* The latch holds different messages of publishers that exist.
LatchShape ==
    \A t \in Topics :
        /\ OneEach(topics[t].latched)
        /\ \A e \in ToSet(topics[t].latched) :
             /\ e.seq <= topics[t].published
             /\ e.from \in Publishers /\ pub[e.from].pc # "none"

\* What a subscriber has got, what is in its backlog and what is under way to it are
\* different messages of its topic.
OnceShape ==
    \A s \in Subscribers :
        /\ OneEach(accepted[s]) /\ OneEach(owner[s].backlog)
        /\ \A e \in ToSet(accepted[s]), f \in ToSet(owner[s].backlog) : e.seq # f.seq
        /\ Known(s) => \A e \in Got(s) :
             /\ e.seq <= topics[sub[s].topic].published
             /\ \A p \in Publishers : s \in ToSet(pub[p].targets) => e.seq # pub[p].env.seq

OnceInv == ListShape /\ CallShape /\ LatchShape /\ OnceShape

\* If both are from one publisher, e was sent before f.
Before(e, f) == e.from = f.from => e.seq < f.seq

\* A worker's log l, what the worker of r holds and what is queued are messages in A, and
\* they are the messages that were accepted.
Line(l, r, A) ==
    /\ \A i \in DOMAIN l : l[i].env \in A
    /\ r.worker = "judge" => r.held \in A
    /\ \A i \in DOMAIN r.queue.items : r.queue.items[i] \in A
LineShape == \A s \in Subscribers : Line(taken[s], sub[s], ToSet(accepted[s]))

\* One after the other, they have each publisher's messages in order.
Ordered(l, r) ==
    /\ \A i, j \in DOMAIN l : i < j => Before(l[i].env, l[j].env)
    /\ \A i \in DOMAIN l :
         /\ r.worker = "judge" => Before(l[i].env, r.held)
         /\ \A j \in DOMAIN r.queue.items : Before(l[i].env, r.queue.items[j])
    /\ r.worker = "judge" => \A j \in DOMAIN r.queue.items : Before(r.held, r.queue.items[j])
    /\ \A i, j \in DOMAIN r.queue.items :
         i < j => Before(r.queue.items[i], r.queue.items[j])

\* So has a subscriber without backlog, and what is under way to it comes after what it got.
OrderShape ==
    \A s \in Subscribers : sub[s].qos.durability = "Volatile" =>
        /\ Ordered(taken[s], sub[s])
        /\ \A p \in Publishers : s \in ToSet(pub[p].targets) =>
             \A e \in ToSet(accepted[s]) : Before(e, pub[p].env)

\* A sequence with one more message at the end.
LEMMA OneEachAppend ==
    ASSUME NEW l \in Seq(Envelope), NEW e \in Envelope, OneEach(l),
           \A f \in ToSet(l) : f.seq # e.seq
    PROVE  OneEach(Append(l, e))
<1> DEFINE m == Append(l, e)
<1>1. /\ Len(l) \in Nat /\ DOMAIN l = 1..Len(l) /\ DOMAIN m = 1..(Len(l) + 1)
      /\ m[Len(l) + 1] = e /\ \A i \in 1..Len(l) : m[i] = l[i]
  OBVIOUS
<1>2. \A i \in 1..Len(l) : m[i].seq # e.seq
  BY <1>1, InToSet
<1> HIDE DEF m
<1>3. OneEach(m)
  BY <1>1, <1>2 DEF OneEach
<1>4. QED
  BY <1>3 DEF m

\* The rest of a sequence does not have its first message.
LEMMA OneEachTail ==
    ASSUME NEW l \in Seq(Envelope), l # <<>>, OneEach(l)
    PROVE  OneEach(Tail(l)) /\ \A f \in ToSet(Tail(l)) : f.seq # Head(l).seq
<1> DEFINE m == Tail(l)
<1>1. /\ Len(l) \in Nat /\ Len(l) > 0 /\ DOMAIN l = 1..Len(l) /\ m \in Seq(Envelope)
      /\ Len(m) = Len(l) - 1 /\ DOMAIN m = 1..(Len(l) - 1)
      /\ Head(l) = l[1] /\ \A i \in 1..(Len(l) - 1) : m[i] = l[i + 1]
  OBVIOUS
<1> HIDE DEF m
<1>2. \A i \in 1..(Len(l) - 1) : i + 1 \in 1..Len(l) /\ 1 \in 1..Len(l) /\ i + 1 # 1
  BY <1>1
<1>3. OneEach(m)
  <2>1. ASSUME NEW i \in 1..(Len(l) - 1), NEW j \in 1..(Len(l) - 1), m[i].seq = m[j].seq
        PROVE  i = j
    <3>1. i + 1 = j + 1
      BY <1>1, <1>2, <2>1 DEF OneEach
    <3>2. QED
      BY <3>1
  <2>2. QED
    BY <1>1, <2>1 DEF OneEach
<1>4. \A i \in 1..Len(m) : m[i].seq # Head(l).seq
  BY <1>1, <1>2 DEF OneEach
<1>5. \A f \in ToSet(m) : f.seq # Head(l).seq
  BY <1>1, <1>4, InToSet
<1>6. QED
  BY <1>3, <1>5 DEF m

\* Nor does any end of a sequence have a number twice.
LEMMA OneEachEnd ==
    ASSUME NEW l \in Seq(Envelope), NEW m, EndOf(m, l), OneEach(l)
    PROVE  OneEach(m)
<1>0. PICK k \in Nat : k <= Len(l) /\ m = SubSeq(l, k + 1, Len(l))
  BY DEF EndOf
<1>1. /\ Len(l) \in Nat /\ DOMAIN l = 1..Len(l) /\ DOMAIN m = 1..(Len(l) - k)
      /\ \A i \in 1..(Len(l) - k) : m[i] = l[i + k]
  BY <1>0
<1>2. \A i \in 1..(Len(l) - k) : i + k \in 1..Len(l)
  BY <1>1
<1>3. QED
  BY <1>1, <1>2, SMTT(40) DEF OneEach

\* The same of Distinct.
LEMMA DistinctTail ==
    ASSUME NEW S, NEW l \in Seq(S), l # <<>>, Distinct(l)
    PROVE  Distinct(Tail(l)) /\ Head(l) \notin ToSet(Tail(l))
<1> DEFINE m == Tail(l)
<1>1. /\ Len(l) \in Nat /\ Len(l) > 0 /\ DOMAIN l = 1..Len(l) /\ m \in Seq(S)
      /\ Len(m) = Len(l) - 1 /\ DOMAIN m = 1..(Len(l) - 1)
      /\ Head(l) = l[1] /\ \A i \in 1..(Len(l) - 1) : m[i] = l[i + 1]
  OBVIOUS
<1> HIDE DEF m
<1>2. \A i \in 1..(Len(l) - 1) : i + 1 \in 1..Len(l) /\ 1 \in 1..Len(l) /\ i + 1 # 1
  BY <1>1
<1>3. Distinct(m)
  <2>1. ASSUME NEW i \in 1..(Len(l) - 1), NEW j \in 1..(Len(l) - 1), m[i] = m[j]
        PROVE  i = j
    <3>1. i + 1 = j + 1
      BY <1>1, <1>2, <2>1 DEF Distinct
    <3>2. QED
      BY <3>1
  <2>2. QED
    BY <1>1, <2>1 DEF Distinct
<1>4. \A i \in 1..Len(m) : m[i] # Head(l)
  BY <1>1, <1>2 DEF Distinct
<1>5. Head(l) \notin ToSet(m)
  BY <1>1, <1>4, InToSet
<1>6. QED
  BY <1>3, <1>5 DEF m

\* The numbers of a topic only grow.
LEMMA PublishedGrows ==
    ASSUME TypeInv, [Next]_vars, NEW t \in Topics
    PROVE  /\ topics[t].published \in Nat /\ topics'[t].published \in Nat
           /\ topics'[t].published >= topics[t].published
<1>1. TopicStep(t) /\ topics'[t] \in EntryRec /\ topics[t].published \in Nat
  BY AllTopicSteps, PubTypes DEF TopicSteps
<1>2. topics'[t].published \in Nat
  BY <1>1 DEF EntryRec
<1>3. QED
  BY <1>1, <1>2 DEF TopicStep, SameEntry

\* Where the targets of a call come from: the list of its topic when it is numbered, and
\* after that its own targets, but for the one it has just pushed to.
LEMMA TargetSteps ==
    ASSUME TypeInv, PromiseInv, ListShape, [Next]_vars,
           NEW p \in Publishers, NEW s \in ToSet(pub'[p].targets)
    PROVE  /\ s \in Subscribers /\ Known(s)
           /\ \/ /\ Numbers(p) /\ pub[p].topic \in Topics
                 /\ s \in ToSet(topics[pub[p].topic].subs) /\ s \notin RejectedBy(p)
              \/ /\ Sending(p) /\ s \in ToSet(pub[p].targets) /\ pub'[p].env = pub[p].env
                 /\ push_target(p) \/ push_fails(p) => s # Head(pub[p].targets)
<1>1. PubStep(p) /\ pub[p].targets \in Seq(Subscribers)
  BY PublisherSteps, PubTypes DEF PubSteps
<1>2. ASSUME s \in ToSet(pub[p].targets)
      PROVE  s \in Subscribers /\ Known(s) /\ Sending(p)
  <2>1. pub[p].targets # <<>>
    BY <1>2, ToSetEmpty
  <2>2. QED
    BY <1>2, <2>1, TargetsKnown DEF Sending, TypeInv, PublisherShape
<1>3. CASE Numbers(p)
  <2>1. pub[p].topic \in Topics /\ pub'[p].targets = TargetsOf(p)
    BY <1>3, PubTypes DEF Numbers
  <2>2. topics[pub[p].topic].subs \in Seq(Subscribers)
    BY <2>1, PubTypes
  <2>3. s \in ToSet(topics[pub[p].topic].subs) /\ s \in Subscribers \ RejectedBy(p)
    BY <2>1, <2>2, OnlyElements DEF TargetsOf
  <2>4. QED
    BY <1>3, <2>1, <2>3 DEF PromiseInv, ListedShape
<1>4. CASE Pushes(p)
  <2>1. pub[p].pc = "push" /\ pub'[p].targets = Tail(pub[p].targets) /\ pub'[p].env = pub[p].env
    BY <1>4 DEF Pushes, SameCall
  <2>2. pub[p].targets # <<>>
    BY <2>1 DEF TypeInv, PublisherShape
  <2>3. s \in ToSet(pub[p].targets) /\ s # Head(pub[p].targets)
    BY <1>1, <2>1, <2>2, ToSetHeadTail, DistinctTail DEF ListShape
  <2>4. QED
    BY <1>2, <2>1, <2>3
<1>5. CASE pub'[p] = pub[p]
  <2>1. s \in ToSet(pub[p].targets)
    BY <1>5
  <2>2. ~(push_target(p) \/ push_fails(p))
    <3>1. pub[p].targets # <<>>
      BY <2>1, ToSetEmpty
    <3>2. ASSUME push_target(p) \/ push_fails(p)
          PROVE  FALSE
      <4>1. Reports(p) \/ Pushes(p)
        BY <3>2, AfterLockStep
      <4>2. pub[p].pc = "push"
        BY <3>2 DEF push_target, push_fails
      <4>3. pub'[p].targets = Tail(pub[p].targets)
        BY <4>1, <4>2 DEF Reports, Pushes
      <4>4. Len(Tail(pub[p].targets)) = Len(pub[p].targets) - 1 /\ Len(pub[p].targets) \in Nat
        BY <1>1, <3>1
      <4>5. pub[p].targets = Tail(pub[p].targets)
        BY <1>5, <4>3
      <4>6. Len(pub[p].targets) = Len(pub[p].targets) - 1
        BY <4>4, <4>5
      <4>7. QED
        BY <4>4, <4>6
    <3>3. QED
      BY <3>2
  <2>3. QED
    BY <1>2, <1>5, <2>1, <2>2
<1>6. CASE Calls(p) \/ WrongType(p)
  <2>1. pub[p].pc \in {"idle", "lock"} /\ pub'[p].targets = pub[p].targets
    BY <1>6 DEF Calls, WrongType
  <2>2. QED
    BY <1>2, <2>1 DEF Sending
<1>7. CASE Reports(p)
  <2>1. /\ pub[p].pc = "report" /\ pub'[p].targets = pub[p].targets
        /\ pub'[p].env = pub[p].env
    BY <1>7 DEF Reports, SameCall
  <2>2. ~(push_target(p) \/ push_fails(p))
    BY <2>1 DEF push_target, push_fails
  <2>3. QED
    BY <1>2, <2>1, <2>2
<1>8. ASSUME NEW t \in Topics, NEW type \in Types, NEW qos \in Offered,
             Advertises(p, t, type, qos)
      PROVE  FALSE
  BY <1>8, ToSetEmpty DEF Advertises
<1>9. QED
  BY <1>1, <1>3, <1>4, <1>5, <1>6, <1>7, <1>8 DEF PubStep


\* A call past the lock was past it before, with the same message, or gets its number.
LEMMA CallSteps ==
    ASSUME TypeInv, [Next]_vars, NEW p \in Publishers, Sending(p)'
    PROVE  /\ pub'[p].topic = pub[p].topic /\ pub[p].topic \in Topics
           /\ pub[p].env.seq \in Nat /\ pub'[p].env.seq \in Nat
           /\ \/ Numbers(p)
              \/ Sending(p) /\ pub'[p].env = pub[p].env
<1>1. PubStep(p) /\ pub'[p] \in PubRec /\ pub[p].env \in Envelope
  BY PublisherSteps, PubTypes DEF PubSteps
<1>2. pub[p].env.seq \in Nat /\ pub'[p].env.seq \in Nat
  BY <1>1 DEF PubRec, Envelope
<1>3. pub'[p].pc \in {"report", "push"}
  BY DEF Sending
<1>4. CASE pub'[p] = pub[p]
  BY <1>2, <1>3, <1>4, PubTypes DEF Sending
<1>5. CASE Numbers(p)
  BY <1>2, <1>5, PubTypes DEF Numbers, SameAd
<1>6. CASE Reports(p) \/ Pushes(p)
  BY <1>2, <1>6, PubTypes DEF Reports, Pushes, SameAd, SameCall, Sending
<1>7. QED
  BY <1>1, <1>3, <1>4, <1>5, <1>6 DEF PubStep, Advertises, Calls, WrongType

\* A step keeps ListShape.
LEMMA DistinctKept ==
    ASSUME TypeInv, PromiseInv, ListShape, [Next]_vars
    PROVE  ListShape'
<1>1. ASSUME NEW t \in Topics
      PROVE  Distinct(topics'[t].subs)
  <2> DEFINE r == topics[t].subs
             n == topics'[t].subs
  <2>1. TopicStep(t) /\ r \in Seq(Subscribers) /\ Distinct(r)
    BY AllTopicSteps, PubTypes DEF TopicSteps, ListShape
  <2>2. ASSUME NEW s \in Subscribers, owner[s].pc = "idle", n = Append(r, s)
        PROVE  Distinct(n)
    <3>1. s \notin ToSet(r)
      BY <2>2 DEF PromiseInv, ListedShape, Known
    <3>2. QED
      BY <2>1, <2>2, <3>1, DistinctAppend
  <2>3. ASSUME NEW s \in Subscribers, n = RemoveFirst(r, s)
        PROVE  Distinct(n)
    BY <2>1, <2>3, RemoveFirstElements
  <2>4. CASE n = <<>>
    BY <2>4 DEF Distinct
  <2>5. CASE n = r
    BY <2>1, <2>5
  <2>6. QED
    BY <2>1, <2>2, <2>3, <2>4, <2>5 DEF TopicStep, SameEntry
<1>2. ASSUME NEW p \in Publishers
      PROVE  Distinct(pub'[p].targets)
  <2> DEFINE r == pub[p].targets
             n == pub'[p].targets
  <2>1. PubStep(p) /\ r \in Seq(Subscribers) /\ Distinct(r)
    BY PublisherSteps, PubTypes DEF PubSteps, ListShape
  <2>2. CASE Numbers(p)
    <3>1. pub[p].topic \in Topics /\ n = TargetsOf(p)
      BY <2>2, PubTypes DEF Numbers
    <3>2. topics[pub[p].topic].subs \in Seq(Subscribers) /\ Distinct(topics[pub[p].topic].subs)
      BY <3>1, PubTypes DEF ListShape
    <3>3. QED
      BY <3>1, <3>2, OnlyElements DEF TargetsOf
  <2>3. CASE Pushes(p)
    <3>1. r # <<>> /\ n = Tail(r)
      BY <2>3 DEF Pushes, TypeInv, PublisherShape
    <3>2. QED
      BY <2>1, <3>1, DistinctTail
  <2>4. CASE n = <<>>
    BY <2>4 DEF Distinct
  <2>5. CASE n = r
    BY <2>1, <2>5
  <2>6. QED
    BY <2>1, <2>2, <2>3, <2>4, <2>5 DEF PubStep, Advertises, Calls, WrongType, Reports
<1>3. QED
  BY <1>1, <1>2 DEF ListShape

\* A step keeps CallShape.
LEMMA CallKept ==
    ASSUME TypeInv, PromiseInv, TopicShape, ListShape, CallShape, [Next]_vars
    PROVE  CallShape'
<1>1. ASSUME NEW p \in Publishers, Sending(p)'
      PROVE  pub'[p].env.seq <= topics'[pub'[p].topic].published
  <2>1. CASE Numbers(p)
    BY <1>1, <2>1, CallSteps, NumberTopic DEF Numbers
  <2>2. CASE Sending(p) /\ pub'[p].env = pub[p].env
    BY <1>1, <2>2, CallSteps, PublishedGrows DEF CallShape
  <2>3. QED
    BY <1>1, <2>1, <2>2, CallSteps
<1>2. ASSUME NEW p \in Publishers, Sending(p)', NEW s \in ToSet(pub'[p].targets)
      PROVE  sub'[s].topic = pub'[p].topic
  <2>1. s \in Subscribers /\ Known(s)
    BY <1>2, TargetSteps
  <2>2. sub'[s].topic = sub[s].topic /\ pub'[p].topic = pub[p].topic
    BY <1>2, <2>1, KnownKept, CallSteps DEF SameSetup
  <2>3. sub[s].topic = pub[p].topic
    BY <1>2, TargetSteps DEF TopicShape, CallShape
  <2>4. QED
    BY <2>2, <2>3
<1>3. ASSUME NEW p \in Publishers, NEW q \in Publishers, Sending(p)', Sending(q)', Numbers(p),
             pub'[q].topic = pub'[p].topic, pub'[q].env.seq = pub'[p].env.seq, q # p
      PROVE  FALSE
  <2>1. pub'[p] # pub[p]
    BY <1>3 DEF Numbers, Goes
  <2>2. pub'[q] = pub[q]
    BY <1>3, <2>1, PublisherSteps DEF PubSteps
  <2>3. Sending(q)
    BY <1>3, <2>2 DEF Sending
  <2>4. pub[q].env.seq <= topics[pub[p].topic].published
    BY <1>3, <2>2, <2>3, CallSteps DEF CallShape
  <2>5. pub'[p].env.seq = topics[pub[p].topic].published + 1
    BY <1>3 DEF Numbers
  <2>6. pub[p].topic \in Topics /\ pub[q].env.seq \in Nat
    BY <1>3, CallSteps
  <2>7. topics[pub[p].topic].published \in Nat
    BY <2>6, PublishedGrows
  <2>8. QED
    BY <1>3, <2>2, <2>4, <2>5, <2>6, <2>7
<1>4. ASSUME NEW p \in Publishers, NEW q \in Publishers, Sending(p)', Sending(q)',
             pub'[q].topic = pub'[p].topic, pub'[q].env.seq = pub'[p].env.seq
      PROVE  q = p
  <2>1. CASE Numbers(p)
    BY <1>3, <1>4, <2>1
  <2>2. CASE Numbers(q)
    BY <1>3, <1>4, <2>2
  <2>3. CASE ~Numbers(p) /\ ~Numbers(q)
    BY <1>4, <2>3, CallSteps DEF CallShape
  <2>4. QED
    BY <2>1, <2>2, <2>3
<1>5. QED
  BY <1>1, <1>2, <1>4 DEF CallShape

\* A step keeps LatchShape.
LEMMA LatchKept ==
    ASSUME TypeInv, FromShape, LatchShape, [Next]_vars
    PROVE  LatchShape'
<1> SUFFICES ASSUME NEW t \in Topics
             PROVE  /\ OneEach(topics'[t].latched)
                    /\ \A e \in ToSet(topics'[t].latched) :
                         /\ e.seq <= topics'[t].published
                         /\ e.from \in Publishers /\ pub'[e.from].pc # "none"
  BY DEF LatchShape
<1> DEFINE l == topics[t].latched
           m == topics'[t].latched
           Fine(e) == /\ e.seq <= topics'[t].published
                      /\ e.from \in Publishers /\ pub'[e.from].pc # "none"
           Good == OneEach(m) /\ \A e \in ToSet(m) : Fine(e)
<1>1. TopicStep(t) /\ l \in Seq(Envelope) /\ OneEach(l)
  BY AllTopicSteps, PubTypes DEF TopicSteps, LatchShape
<1>2. \A e \in ToSet(l) : e \in Envelope /\ e.seq \in Nat
  <2>1. \A e \in Envelope : e.seq \in Nat
    BY DEF Envelope
  <2>2. QED
    BY <1>1, <2>1, ToSetType
<1>3. /\ topics[t].published \in Nat /\ topics'[t].published \in Nat
      /\ topics'[t].published >= topics[t].published
  BY PublishedGrows
<1>4. \A e \in ToSet(l) : Fine(e)
  BY <1>2, <1>3, AdKept DEF LatchShape
<1>5. ASSUME m = l
      PROVE  Good
  <2> HIDE DEF Fine, m, l
  <2>1. QED
    BY <1>1, <1>4, <1>5
<1>6. ASSUME m = <<>>
      PROVE  Good
  BY <1>6, ToSetEmpty DEF OneEach
<1>7. ASSUME NEW p \in Publishers, publish_erased(p), t = pub[p].topic,
             m = Latch(topics[t], NumberedEnv(p), pub[p].qos)
      PROVE  Good
  <2> DEFINE e == NumberedEnv(p)
             a == Append(l, e)
  <2>1. Numbers(p)
    BY <1>7, NumberStep
  <2>2. pub[p].pc = "lock" /\ pub'[p].env = e /\ pub'[p] \in PubRec
    BY <2>1, PublisherSteps DEF Numbers, PubSteps
  <2>3. e \in Envelope
    BY <2>2 DEF PubRec
  <2>4. e.seq = topics[t].published + 1 /\ e.from = p
    BY <1>7, <2>1, <2>2 DEF Numbers, FromShape
  <2>5. pub'[p].pc # "none" /\ topics'[t].published = topics[t].published + 1
    BY <1>7, <2>2, AdKept, NumberTopic
  <2>6. pub[p].qos \in QoS
    BY PubTypes
  <2> HIDE DEF e
  <2>7. Fine(e)
    BY <1>3, <2>4, <2>5
  <2>8. \A f \in ToSet(l) : f.seq # e.seq
    BY <1>2, <1>3, <2>4 DEF LatchShape
  <2>9. a \in Seq(Envelope) /\ OneEach(a)
    BY <1>1, <2>3, <2>8, OneEachAppend
  <2>10. /\ ToSet(m) \subseteq ToSet(l) \cup {e}
         /\ m = l \/ EndOf(m, a)
    <3> DEFINE r == topics[t]
               qos == pub[p].qos
    <3>1. m = Latch(r, e, qos) /\ r.latched = l
      BY <1>7 DEF e
    <3>2. r.latched \in Seq(Envelope) /\ qos \in QoS
      BY <1>1, <2>6
    <3> DEFINE h == Latch(r, e, qos)
               b == Append(r.latched, e)
    <3> HIDE DEF r, qos, m, l
    <3>3. /\ ToSet(h) \subseteq ToSet(r.latched) \cup {e}
          /\ h = r.latched \/ EndOf(h, b)
      BY <2>3, <3>2, LatchProperties
    <3>4. b = a /\ m = h
      BY <3>1
    <3> HIDE DEF b, a, h
    <3>5. QED
      BY <3>1, <3>3, <3>4
  <2> HIDE DEF a
  <2>11. OneEach(m)
    BY <1>1, <2>9, <2>10, OneEachEnd
  <2> HIDE DEF Fine
  <2>12. QED
    BY <1>4, <2>7, <2>10, <2>11
<1>8. Good
  <2> HIDE DEF Good
  <2>1. QED
    BY <1>1, <1>5, <1>6, <1>7 DEF TopicStep, SameEntry
<1>9. QED
  BY <1>8


\* What a step does to what s has got.
Keeps(s)   == accepted'[s] = accepted[s] /\ owner'[s].backlog = owner[s].backlog
Gets(s, p) ==
    /\ push_target(p) /\ pub[p].pc = "push" /\ s = Head(pub[p].targets)
    /\ s \in ToSet(pub[p].targets) /\ Receives(s, pub[p].env)
    /\ accepted'[s] = Append(accepted[s], pub[p].env)
    /\ owner'[s].backlog = owner[s].backlog
Takes(s) ==
    /\ Replays(s)
    /\ owner[s].backlog # <<>> /\ owner'[s].backlog = Tail(owner[s].backlog)
    /\ \/ accepted'[s] = accepted[s]
       \/ accepted'[s] = Append(accepted[s], Head(owner[s].backlog))
Copies(s, t) ==
    /\ \E type \in Types, qos \in Requested : Subscribes(s, t, type, qos)
    /\ ~Known(s) /\ Known(s)' /\ sub'[s].topic = t
    /\ accepted'[s] = <<>>
    /\ owner'[s].backlog = <<>> \/ owner'[s].backlog = topics[t].latched

\* Every step does one of these to every subscriber.
LEMMA GotSteps ==
    ASSUME TypeInv, LogShape, [Next]_vars, NEW s \in Subscribers
    PROVE  \/ Keeps(s)
           \/ \E p \in Publishers : Gets(s, p)
           \/ Takes(s)
           \/ \E t \in Topics : Copies(s, t)
<1>1. SubStep(s)
  BY SubscriberSteps DEF SubSteps, SubStepTyped
<1>2. ASSUME NEW p \in Publishers, push_target(p), s = Head(pub[p].targets),
             Receives(s, pub[p].env), OwnerSame(s)
      PROVE  Gets(s, p)
  <2>1. pub[p].pc = "push" /\ pub[p].targets \in Seq(Subscribers)
    BY <1>2, PubTypes DEF push_target
  <2>2. s \in ToSet(pub[p].targets)
    BY <1>2, <2>1, ToSetHeadTail DEF TypeInv, PublisherShape
  <2>3. QED
    BY <1>2, <2>1, <2>2 DEF Gets, Receives, OwnerSame
<1>3. ASSUME Replays(s)
      PROVE  Takes(s)
  BY <1>3 DEF Replays, Takes, Receives, Quiet, LogSame
<1>4. ASSUME NEW t \in Topics, NEW type \in Types, NEW qos \in Requested,
             Subscribes(s, t, type, qos)
      PROVE  Copies(s, t)
  <2>1. ~Known(s) /\ Known(s)'
    BY <1>4 DEF Subscribes, Known
  <2>2. accepted'[s] = <<>>
    BY <1>4, <2>1 DEF Subscribes, LogSame, LogShape
  <2>3. sub'[s].topic = t
    BY <1>4 DEF Subscribes
  <2>4. owner'[s].backlog = <<>> \/ owner'[s].backlog = topics[t].latched
    BY <1>4 DEF Subscribes
  <2>5. QED
    BY <1>4, <2>1, <2>2, <2>3, <2>4 DEF Copies
<1>5. QED
  BY <1>1, <1>2, <1>3, <1>4, SMTT(40) DEF SubStep, Keeps, Quiet, Refused, Starts, Pops, Expires, Delivers,
       Returns, Exits, Closes, Joins, LogSame, OwnerSame, OwnerMoves

\* So: what s has got and had not got before is a message pushed to it, or is in the
\* latch that subscribe() copies.
LEMMA GotOrigin ==
    ASSUME TypeInv, LogShape, [Next]_vars, NEW s \in Subscribers, NEW e \in Got(s)'
    PROVE  \/ e \in Got(s)
           \/ \E p \in Publishers : Gets(s, p) /\ e = pub[p].env
           \/ \E t \in Topics : Copies(s, t) /\ e \in ToSet(topics[t].latched)
<1> DEFINE a == accepted[s]
           b == owner[s].backlog
           a1 == accepted'[s]
           b1 == owner'[s].backlog
<1>1. a \in Seq(Envelope) /\ b \in Seq(Envelope)
  BY FourTypes
<1>2. (e \in ToSet(a1) \/ e \in ToSet(b1)) /\ (e \in Got(s) <=> e \in ToSet(a) \/ e \in ToSet(b))
  BY DEF Got
<1>3. CASE Keeps(s)
  BY <1>2, <1>3 DEF Keeps
<1>4. ASSUME NEW p \in Publishers, Gets(s, p)
      PROVE  e \in Got(s) \/ e = pub[p].env
  <2>1. pub[p].env \in Envelope
    BY PubTypes
  <2>2. ToSet(a1) = ToSet(a) \cup {pub[p].env} /\ b1 = b
    BY <1>1, <1>4, <2>1, ToSetAppend DEF Gets
  <2>3. QED
    BY <1>2, <2>2
<1>5. CASE Takes(s)
  <2>1. /\ b # <<>> /\ Head(b) \in Envelope /\ ToSet(b) = {Head(b)} \cup ToSet(Tail(b))
        /\ b1 = Tail(b)
    BY <1>1, <1>5, ToSetHeadTail DEF Takes
  <2>2. ToSet(a1) = ToSet(a) \/ ToSet(a1) = ToSet(a) \cup {Head(b)}
    <3> DEFINE h == Head(b)
    <3>1. h \in Envelope /\ (a1 = a \/ a1 = Append(a, h))
      BY <1>5, <2>1 DEF Takes
    <3> HIDE DEF h, a, a1
    <3>2. ToSet(Append(a, h)) = ToSet(a) \cup {h}
      BY <1>1, <3>1, ToSetAppend
    <3>3. ToSet(a1) = ToSet(a) \/ ToSet(a1) = ToSet(a) \cup {h}
      BY <3>1, <3>2, Zenon
    <3>4. QED
      BY <3>3 DEF h
  <2>3. QED
    BY <1>2, <2>1, <2>2
<1>6. ASSUME NEW t \in Topics, Copies(s, t)
      PROVE  e \in ToSet(topics[t].latched)
  BY <1>2, <1>6, ToSetEmpty DEF Copies
<1>7. QED
  BY <1>3, <1>4, <1>5, <1>6, GotSteps

\* A step keeps OnceShape.
LEMMA OnceKept ==
    ASSUME TypeInv, PromiseInv, LogShape, TopicShape, ListShape, CallShape, LatchShape, OnceShape,
           [Next]_vars
    PROVE  OnceShape'
<1>1. ASSUME NEW s \in Subscribers, NEW p \in Publishers, Gets(s, p)
      PROVE  /\ Known(s) /\ Sending(p) /\ pub[p].env \in Envelope /\ sub[s].topic \in Topics
             /\ sub[s].topic = pub[p].topic
             /\ pub[p].env.seq \in Nat
             /\ pub[p].env.seq <= topics[sub[s].topic].published
             /\ \A e \in Got(s) : e.seq # pub[p].env.seq
  <2>1. pub[p].pc = "push" /\ s \in ToSet(pub[p].targets)
    BY <1>1 DEF Gets
  <2>2. Sending(p) /\ Known(s)
    BY <2>1, TargetsKnown DEF Sending
  <2>3. pub[p].env \in Envelope /\ pub[p].env.seq \in Nat
    BY PubTypes DEF Envelope
  <2>4. QED
    BY <2>1, <2>2, <2>3, PubTypes DEF CallShape, OnceShape
<1>2. ASSUME NEW s \in Subscribers
      PROVE  /\ OneEach(accepted'[s]) /\ OneEach(owner'[s].backlog)
             /\ \A e \in ToSet(accepted'[s]), f \in ToSet(owner'[s].backlog) : e.seq # f.seq
  <2> DEFINE a == accepted[s]
             b == owner[s].backlog
             a1 == accepted'[s]
             b1 == owner'[s].backlog
             Apart(x, y) == \A e \in ToSet(x), f \in ToSet(y) : e.seq # f.seq
             Good(x, y) == OneEach(x) /\ OneEach(y) /\ Apart(x, y)
  <2>1. a \in Seq(Envelope) /\ b \in Seq(Envelope) /\ Good(a, b)
    BY FourTypes DEF OnceShape
  <2>2. OneEach(<<>>) /\ ToSet(<<>>) = {}
    BY ToSetEmpty DEF OneEach
  <2>3. CASE Keeps(s)
    <3>1. a1 = a /\ b1 = b
      BY <2>3 DEF Keeps
    <3> HIDE DEF a, b, a1, b1, Good
    <3>2. Good(a1, b1)
      BY <2>1, <3>1
    <3>3. QED
      BY <3>2 DEF Good, a1, b1
  <2>4. ASSUME NEW p \in Publishers, Gets(s, p)
        PROVE  Good(a1, b1)
    <3> DEFINE v == pub[p].env
    <3>1. /\ v \in Envelope /\ a1 = Append(a, v) /\ b1 = b
          /\ \A e \in ToSet(a) \cup ToSet(b) : e.seq # v.seq
      BY <1>1, <2>4 DEF Gets, Got
    <3> HIDE DEF v, a, b, a1, b1
    <3>2. OneEach(a1)
      BY <2>1, <3>1, OneEachAppend
    <3>3. ToSet(a1) = ToSet(a) \cup {v}
      BY <2>1, <3>1, ToSetAppend
    <3>4. QED
      BY <2>1, <3>1, <3>2, <3>3
  <2>5. ASSUME Takes(s)
        PROVE  Good(a1, b1)
    <3> DEFINE v == Head(b)
               c == Tail(b)
    <3>1. /\ b # <<>> /\ b1 = c
          /\ a1 = a \/ a1 = Append(a, v)
      BY <2>5 DEF Takes
    <3>2. /\ v \in Envelope /\ c \in Seq(Envelope) /\ ToSet(b) = {v} \cup ToSet(c)
          /\ OneEach(c) /\ \A f \in ToSet(c) : f.seq # v.seq
      BY <2>1, <3>1, ToSetHeadTail, OneEachTail
    <3>3. \A e \in ToSet(a) : e.seq # v.seq
      BY <2>1, <3>2
    <3> HIDE DEF v, c, a, b, a1, b1
    <3>4. OneEach(Append(a, v)) /\ ToSet(Append(a, v)) = ToSet(a) \cup {v}
      BY <2>1, <3>2, <3>3, OneEachAppend, ToSetAppend
    <3>5. QED
      BY <2>1, <3>1, <3>2, <3>4
  <2>6. ASSUME NEW t \in Topics, Copies(s, t)
        PROVE  Good(a1, b1)
    <3>1. a1 = <<>> /\ (b1 = <<>> \/ b1 = topics[t].latched)
      BY <2>6 DEF Copies
    <3>2. OneEach(topics[t].latched)
      BY DEF LatchShape
    <3> HIDE DEF a1, b1
    <3>3. QED
      BY <2>2, <3>1, <3>2
  <2>7. QED
    BY <2>3, <2>4, <2>5, <2>6, GotSteps
<1>3. ASSUME NEW s \in Subscribers, Known(s)', NEW e \in Got(s)'
      PROVE  e.seq <= topics'[sub'[s].topic].published
  <2>1. CASE Known(s)
    <3>1. sub'[s].topic = sub[s].topic /\ sub[s].topic \in Topics
      BY <2>1, KnownKept DEF SameSetup, TypeInv, SubscriberShape, Known
    <3>2. ~\E t \in Topics : Copies(s, t)
      BY <2>1 DEF Copies
    <3>3. e.seq <= topics[sub[s].topic].published
      BY <1>1, <1>3, <2>1, <3>2, GotOrigin DEF OnceShape
    <3>4. e.seq \in Nat
      <4>1. SubStepTyped(s)
        BY SubscriberSteps DEF SubSteps
      <4>2. accepted'[s] \in Seq(Envelope) /\ owner'[s].backlog \in Seq(Envelope)
        BY <4>1 DEF SubStepTyped, OwnerRec
      <4>3. e \in Envelope
        BY <1>3, <4>2, ToSetType DEF Got
      <4>4. QED
        BY <4>3 DEF Envelope
    <3>5. QED
      BY <3>1, <3>3, <3>4, PublishedGrows
  <2>2. CASE ~Known(s)
    <3>1. e \notin Got(s)
      <4>1. accepted[s] = <<>> /\ owner[s].backlog = <<>>
        BY <2>2 DEF LogShape, TypeInv, SubscriberShape, Known
      <4>2. QED
        BY <4>1, ToSetEmpty DEF Got
    <3>2. PICK t \in Topics : Copies(s, t) /\ e \in ToSet(topics[t].latched)
      BY <1>1, <1>3, <2>2, <3>1, GotOrigin
    <3>3. e.seq <= topics[t].published /\ sub'[s].topic = t
      BY <3>2 DEF LatchShape, Copies
    <3>4. e.seq \in Nat
      <4>1. e \in Envelope
        BY <3>2, PubTypes, ToSetType
      <4>2. QED
        BY <4>1 DEF Envelope
    <3>5. QED
      BY <3>3, <3>4, PublishedGrows
  <2>3. QED
    BY <2>1, <2>2
<1>4. ASSUME NEW s \in Subscribers, NEW e \in Got(s)', NEW p \in Publishers,
             s \in ToSet(pub'[p].targets), e.seq = pub'[p].env.seq
      PROVE  FALSE
  <2>1. /\ Known(s)
        /\ \/ /\ Numbers(p) /\ pub[p].topic \in Topics
              /\ s \in ToSet(topics[pub[p].topic].subs) /\ s \notin RejectedBy(p)
           \/ /\ Sending(p) /\ s \in ToSet(pub[p].targets) /\ pub'[p].env = pub[p].env
              /\ push_target(p) \/ push_fails(p) => s # Head(pub[p].targets)
    BY <1>4, TargetSteps
  <2>2. ~\E t \in Topics : Copies(s, t)
    BY <2>1 DEF Copies
  <2>3. CASE Numbers(p)
    <3>1. pub[p].topic \in Topics /\ s \in ToSet(topics[pub[p].topic].subs)
      BY <2>1, <2>3, PubTypes DEF Numbers, Sending
    <3>2. sub[s].topic = pub[p].topic
      BY <3>1 DEF TopicShape
    <3>3. e.seq <= topics[sub[s].topic].published
      BY <1>1, <1>4, <2>1, <2>2, GotOrigin DEF OnceShape
    <3>4. e.seq = topics[sub[s].topic].published + 1 /\ topics[sub[s].topic].published \in Nat
      BY <1>4, <2>3, <3>1, <3>2, PublishedGrows DEF Numbers
    <3>5. QED
      BY <3>3, <3>4
  <2>4. CASE ~Numbers(p)
    <3>1. /\ Sending(p) /\ s \in ToSet(pub[p].targets) /\ pub'[p].env = pub[p].env
          /\ push_target(p) => s # Head(pub[p].targets)
      BY <2>1, <2>4
    <3>2. e \notin Got(s)
      BY <1>4, <2>1, <3>1 DEF OnceShape
    <3>3. PICK q \in Publishers : Gets(s, q) /\ e = pub[q].env
      BY <1>4, <2>2, <3>2, GotOrigin
    <3>4. q # p /\ pub[q].env.seq = pub[p].env.seq
      BY <1>4, <3>1, <3>3 DEF Gets
    <3>5. Sending(q) /\ pub[q].topic = pub[p].topic
      BY <1>1, <3>1, <3>3 DEF CallShape
    <3>6. QED
      BY <3>1, <3>4, <3>5 DEF CallShape
  <2>5. QED
    BY <2>3, <2>4
<1>5. QED
  BY <1>2, <1>3, <1>4 DEF OnceShape


\* A message comes last into the queue, and perhaps the first one leaves it.
Pushed(x, y, v) == y = Append(x, v) \/ (x # <<>> /\ y = Append(Tail(x), v))

\* This is what a push does to the items.
LEMMA StoredItems ==
    ASSUME NEW qu \in Queue(Envelope), NEW v \in Envelope, Len(qu.items) <= qu.capacity
    PROVE  Pushed(qu.items, Stored(qu, v).items, v)
<1>1. /\ Stored(qu, v).items = Append(IF IsFull(qu) THEN Tail(qu.items) ELSE qu.items, v)
      /\ IsFull(qu) => qu.items # <<>>
  BY StoredProperties
<1>2. QED
  BY <1>1, Zenon DEF Pushed

\* And this is what it does to the line.
LEMMA LinePush ==
    ASSUME NEW l \in Seq(TakenRec), NEW r \in SubRec, NEW n \in SubRec, NEW A, NEW v \in Envelope,
           n.worker = r.worker, n.held = r.held,
           Pushed(r.queue.items, n.queue.items, v), Line(l, r, A)
    PROVE  /\ Line(l, n, A \cup {v})
           /\ Ordered(l, r) /\ (\A e \in A : Before(e, v)) => Ordered(l, n)
<1> DEFINE x == r.queue.items
           y == n.queue.items
<1>1. x \in Seq(Envelope)
  BY DEF SubRec, Queue
<1>2. PICK d \in 0..1, m \in Nat :
        /\ DOMAIN y = 1..(m + 1) /\ y[m + 1] = v
        /\ \A i \in 1..m : i + d \in DOMAIN x /\ y[i] = x[i + d]
  <2>1. CASE y = Append(x, v)
    <3> DEFINE m == Len(x)
    <3> HIDE DEF x, y
    <3>1. /\ m \in Nat /\ DOMAIN y = 1..(m + 1) /\ y[m + 1] = v
          /\ \A i \in 1..m : i \in DOMAIN x /\ y[i] = x[i]
      BY <1>1, <2>1
    <3>2. \A i \in 1..m : i + 0 = i
      BY <3>1
    <3> HIDE DEF m
    <3>3. QED
      BY <3>1, <3>2
  <2>2. CASE x # <<>> /\ y = Append(Tail(x), v)
    <3> DEFINE m == Len(Tail(x))
    <3>1. /\ m \in Nat /\ DOMAIN y = 1..(m + 1) /\ y[m + 1] = v
          /\ \A i \in 1..m : i + 1 \in DOMAIN x /\ y[i] = x[i + 1]
      BY <1>1, <2>2
    <3>2. 1 \in 0..1
      OBVIOUS
    <3> HIDE DEF m, x, y
    <3>3. QED
      BY <3>1, <3>2
  <2>3. QED
    BY <2>1, <2>2 DEF Pushed
<1>3. /\ \A i \in DOMAIN l : l[i].env \in A
      /\ n.worker = "judge" => n.held \in A
      /\ \A i \in DOMAIN x : x[i] \in A
  BY DEF Line
<1> HIDE DEF x, y
<1>4. \A j \in DOMAIN y : y[j] = v \/ \E i \in DOMAIN x : y[j] = x[i]
  BY <1>2
<1>5. Line(l, n, A \cup {v})
  BY <1>3, <1>4 DEF Line, y
<1>6. ASSUME Ordered(l, r), \A e \in A : Before(e, v)
      PROVE  Ordered(l, n)
  <2>1. /\ \A i, j \in DOMAIN l : i < j => Before(l[i].env, l[j].env)
        /\ \A i \in DOMAIN l :
             /\ n.worker = "judge" => Before(l[i].env, n.held)
             /\ \A j \in DOMAIN x : Before(l[i].env, x[j])
        /\ n.worker = "judge" => \A j \in DOMAIN x : Before(n.held, x[j])
        /\ \A i, j \in DOMAIN x : i < j => Before(x[i], x[j])
    BY <1>6 DEF Ordered, x
  <2>2. \A i \in DOMAIN l : \A j \in DOMAIN y : Before(l[i].env, y[j])
    BY <1>3, <1>4, <1>6, <2>1
  <2>3. n.worker = "judge" => \A j \in DOMAIN y : Before(n.held, y[j])
    BY <1>3, <1>4, <1>6, <2>1
  <2>4. ASSUME NEW i \in DOMAIN y, NEW j \in DOMAIN y, i < j
        PROVE  Before(y[i], y[j])
    <3>1. i \in 1..m /\ (j = m + 1 \/ j \in 1..m)
      BY <1>2, <2>4
    <3>2. i + d \in DOMAIN x /\ y[i] = x[i + d] /\ y[i] \in A
      BY <1>2, <1>3, <3>1
    <3>3. CASE j = m + 1
      BY <1>2, <1>6, <3>2, <3>3
    <3>4. CASE j \in 1..m
      <4>1. i \in Nat /\ j \in Nat /\ d \in Nat
        BY <1>2, <3>1, <3>4
      <4>2. i + d < j + d
        BY <2>4, <4>1
      <4>3. j + d \in DOMAIN x /\ y[j] = x[j + d]
        BY <1>2, <3>4
      <4>4. QED
        BY <2>1, <3>2, <4>2, <4>3
    <3>5. QED
      BY <3>1, <3>3, <3>4
  <2>5. QED
    BY <2>1, <2>2, <2>3, <2>4 DEF Ordered, y
<1>7. QED
  BY <1>5, <1>6

\* The worker takes the first message.
LEMMA LinePop ==
    ASSUME NEW l \in Seq(TakenRec), NEW r \in SubRec, NEW n \in SubRec, NEW A,
           r.worker # "judge", r.queue.items # <<>>,
           n.worker = "judge", n.held = Head(r.queue.items), n.queue.items = Tail(r.queue.items),
           Line(l, r, A)
    PROVE  /\ Line(l, n, A)
           /\ Ordered(l, r) => Ordered(l, n)
<1> DEFINE x == r.queue.items
           y == n.queue.items
           h == n.held
<1>1. x \in Seq(Envelope) /\ x # <<>>
  BY DEF SubRec, Queue
<1>2. /\ DOMAIN y = 1..(Len(x) - 1) /\ 1 \in DOMAIN x /\ h = x[1]
      /\ \A i \in DOMAIN y : i \in Nat /\ i + 1 \in DOMAIN x /\ y[i] = x[i + 1] /\ 1 < i + 1
  BY <1>1
<1>3. /\ \A i \in DOMAIN l : l[i].env \in A
      /\ \A i \in DOMAIN x : x[i] \in A
  BY DEF Line
<1> HIDE DEF x, y, h
<1>4. Line(l, n, A)
  BY <1>2, <1>3 DEF Line, y, h
<1>5. ASSUME Ordered(l, r)
      PROVE  Ordered(l, n)
  <2>1. /\ \A i, j \in DOMAIN l : i < j => Before(l[i].env, l[j].env)
        /\ \A i \in DOMAIN l : \A j \in DOMAIN x : Before(l[i].env, x[j])
        /\ \A i, j \in DOMAIN x : i < j => Before(x[i], x[j])
    BY <1>5 DEF Ordered, x
  <2>2. \A i \in DOMAIN l : Before(l[i].env, h) /\ \A j \in DOMAIN y : Before(l[i].env, y[j])
    BY <1>2, <2>1
  <2>3. \A j \in DOMAIN y : Before(h, y[j])
    BY <1>2, <2>1
  <2>4. ASSUME NEW i \in DOMAIN y, NEW j \in DOMAIN y, i < j
        PROVE  Before(y[i], y[j])
    <3>1. i + 1 < j + 1
      BY <1>2, <2>4
    <3>2. QED
      BY <1>2, <2>1, <3>1
  <2>5. QED
    BY <2>1, <2>2, <2>3, <2>4 DEF Ordered, y, h
<1>6. QED
  BY <1>4, <1>5

\* The worker is through with the message it holds.
LEMMA LineLog ==
    ASSUME NEW l \in Seq(TakenRec), NEW r \in SubRec, NEW n \in SubRec, NEW A, NEW m \in Seq(TakenRec),
           NEW e \in TakenRec, m = Append(l, e), e.env = r.held,
           r.worker = "judge", n.worker # "judge", n.queue.items = r.queue.items,
           Line(l, r, A)
    PROVE  /\ Line(m, n, A)
           /\ Ordered(l, r) => Ordered(m, n)
<1> DEFINE x == r.queue.items
           k == Len(l) + 1
<1>1. /\ DOMAIN m = 1..k /\ m[k] = e /\ k \in Nat
      /\ \A i \in DOMAIN m : i # k => i \in DOMAIN l /\ m[i] = l[i]
  OBVIOUS
<1>2. /\ \A i \in DOMAIN l : l[i].env \in A
      /\ e.env \in A
      /\ \A i \in DOMAIN x : x[i] \in A
  BY DEF Line
<1> HIDE DEF x, k
<1>3. Line(m, n, A)
  BY <1>1, <1>2 DEF Line, x
<1>4. ASSUME Ordered(l, r)
      PROVE  Ordered(m, n)
  <2>1. /\ \A i, j \in DOMAIN l : i < j => Before(l[i].env, l[j].env)
        /\ \A i \in DOMAIN l :
             /\ Before(l[i].env, e.env)
             /\ \A j \in DOMAIN x : Before(l[i].env, x[j])
        /\ \A j \in DOMAIN x : Before(e.env, x[j])
        /\ \A i, j \in DOMAIN x : i < j => Before(x[i], x[j])
    BY <1>4 DEF Ordered, x
  <2>2. ASSUME NEW i \in DOMAIN m, NEW j \in DOMAIN m, i < j
        PROVE  Before(m[i].env, m[j].env)
    <3>1. i # k
      BY <1>1, <2>2
    <3>2. QED
      BY <1>1, <2>1, <2>2, <3>1
  <2>3. \A i \in DOMAIN m : \A j \in DOMAIN x : Before(m[i].env, x[j])
    BY <1>1, <2>1
  <2>4. QED
    BY <2>1, <2>2, <2>3 DEF Ordered, x
<1>5. QED
  BY <1>3, <1>4

\* Nothing moves.
LEMMA LineSame ==
    ASSUME NEW l, NEW r, NEW n, NEW A,
           n.worker = "judge" => r.worker = "judge" /\ n.held = r.held,
           n.queue.items = r.queue.items, Line(l, r, A)
    PROVE  /\ Line(l, n, A)
           /\ Ordered(l, r) => Ordered(l, n)
BY DEF Line, Ordered


\* A step keeps LineShape, and the order if what it pushes comes after all that was accepted.
LEMMA LineSteps ==
    ASSUME TypeInv, PromiseInv, QuietInv, LogShape, LineShape, [Next]_vars, NEW s \in Subscribers
    PROVE  /\ Line(taken'[s], sub'[s], ToSet(accepted'[s]))
           /\ /\ Ordered(taken[s], sub[s])
              /\ owner[s].backlog = <<>>
              /\ \A p \in Publishers : Gets(s, p) =>
                     \A e \in ToSet(accepted[s]) : Before(e, pub[p].env)
              => Ordered(taken'[s], sub'[s])
<1> DEFINE l == taken[s]
           r == sub[s]
           a == accepted[s]
           m == taken'[s]
           n == sub'[s]
           b == accepted'[s]
           Late == \A p \in Publishers : Gets(s, p) => \A e \in ToSet(a) : Before(e, pub[p].env)
           Good == /\ Line(m, n, ToSet(b))
                   /\ Ordered(l, r) /\ owner[s].backlog = <<>> /\ Late => Ordered(m, n)
<1>1. /\ SubStep(s) /\ l \in Seq(TakenRec) /\ r \in SubRec /\ a \in Seq(Envelope)
      /\ m \in Seq(TakenRec) /\ n \in SubRec /\ b \in Seq(Envelope)
  BY SubscriberSteps, FourTypes DEF SubSteps, SubStepTyped
<1>2. Line(l, r, ToSet(a))
  BY DEF LineShape
<1>3. /\ r.queue \in Queue(Envelope) /\ r.queue.items \in Seq(Envelope)
      /\ Len(r.queue.items) <= r.queue.capacity /\ r.held \in Envelope
  BY FourTypes
<1>4. ASSUME m = l, b = a, n.queue.items = r.queue.items,
             n.worker = "judge" => r.worker = "judge" /\ n.held = r.held
      PROVE  Good
  <2> HIDE DEF l, r, a, m, n, b, Late
  <2>1. QED
    BY <1>2, <1>4, LineSame
<1>5. ASSUME NEW v \in Envelope, Receives(s, v), Late => \A e \in ToSet(a) : Before(e, v)
      PROVE  Good
  <2>1. /\ m = l /\ b = Append(a, v) /\ n.worker = r.worker /\ n.held = r.held
        /\ n.queue = Stored(r.queue, v)
    BY <1>5 DEF Receives, SameWorker
  <2>2. Pushed(r.queue.items, n.queue.items, v)
    BY <1>3, <2>1, StoredItems
  <2>3. ToSet(b) = ToSet(a) \cup {v}
    BY <1>1, <2>1, ToSetAppend
  <2> HIDE DEF l, r, a, m, n, b, Late
  <2> DEFINE A == ToSet(a)
  <2>4. Line(l, r, A) /\ (Late => \A e \in A : Before(e, v)) /\ ToSet(b) = A \cup {v}
    BY <1>2, <1>5, <2>3
  <2> HIDE DEF A
  <2>5. /\ Line(l, n, A \cup {v})
        /\ Ordered(l, r) /\ (\A e \in A : Before(e, v)) => Ordered(l, n)
    BY <1>1, <2>1, <2>2, <2>4, LinePush
  <2>6. QED
    BY <2>1, <2>4, <2>5
<1>6. ASSUME Replays(s)
      PROVE  Good
  <2>1. owner[s].backlog \in Seq(Envelope) /\ owner[s].backlog # <<>>
    BY <1>6, FourTypes DEF Replays
  <2>2. Head(owner[s].backlog) \in Envelope
    BY <2>1
  <2>3. CASE Receives(s, Head(owner[s].backlog))
    <3> DEFINE v == Head(owner[s].backlog)
    <3>1. /\ m = l /\ b = Append(a, v) /\ n.worker = r.worker /\ n.held = r.held
          /\ n.queue = Stored(r.queue, v)
      BY <2>3 DEF Receives, SameWorker
    <3> HIDE DEF v
    <3>2. v \in Envelope
      BY <2>2 DEF v
    <3>3. Pushed(r.queue.items, n.queue.items, v)
      BY <1>3, <3>1, <3>2, StoredItems
    <3>4. ToSet(b) = ToSet(a) \cup {v}
      BY <1>1, <3>1, <3>2, ToSetAppend
    <3> HIDE DEF l, r, a, m, n, b, Late
    <3>5. Line(m, n, ToSet(b))
      BY <1>1, <1>2, <3>1, <3>2, <3>3, <3>4, LinePush
    <3>6. QED
      BY <2>1, <3>5
  <2>4. CASE Quiet(s)
    BY <1>4, <2>4 DEF Quiet, LogSame
  <2>5. QED
    BY <1>6, <2>3, <2>4 DEF Replays
<1>7. ASSUME Pops(s)
      PROVE  Good
  <2>1. /\ r.worker = "pop" /\ r.queue.items # <<>> /\ n.worker = "judge"
        /\ n.held = Head(r.queue.items) /\ n.queue = Dequeue(r.queue) /\ m = l /\ b = a
    BY <1>7 DEF Pops, LogSame
  <2>2. n.queue.items = Tail(r.queue.items)
    BY <1>3, <2>1, DequeueProperties
  <2> HIDE DEF l, r, a, m, n, b, Late
  <2>3. QED
    BY <1>1, <1>2, <2>1, <2>2, LinePop
<1>8. ASSUME Expires(s) \/ Delivers(s)
      PROVE  Good
  <2>1. ASSUME NEW f \in {"expired", "callback"}
        PROVE  LET e == [env |-> r.held, at |-> now, fate |-> f] IN
               e \in TakenRec /\ e.env = r.held
    BY <1>3, FourTypes DEF TakenRec
  <2>2. PICK e \in TakenRec : m = Append(l, e) /\ e.env = r.held
    <3>1. CASE Expires(s)
      BY <2>1, <3>1 DEF Expires
    <3>2. CASE Delivers(s)
      BY <2>1, <3>2 DEF Delivers
    <3>3. QED
      BY <1>8, <3>1, <3>2
  <2>3. /\ r.worker = "judge" /\ n.worker # "judge" /\ n.queue.items = r.queue.items /\ b = a
    BY <1>8 DEF Expires, Delivers, SameQueue
  <2> HIDE DEF l, r, a, m, n, b, Late
  <2>4. QED
    BY <1>1, <1>2, <2>2, <2>3, LineLog
<1>9. ASSUME NEW t \in Topics, NEW type \in Types, NEW qos \in Requested,
             Subscribes(s, t, type, qos)
      PROVE  Good
  <2>1. ~Known(s)
    BY <1>9 DEF Subscribes, Known
  <2>2. m = <<>> /\ Subscription0.worker = "none"
    BY <1>9, <2>1 DEF Subscribes, LogSame, LogShape, Subscription0
  <2>3. n.worker = "none" /\ n.queue.items = <<>>
    BY <1>9, <2>2 DEF Subscribes, SameWorker
  <2> HIDE DEF l, r, a, m, n, b, Late
  <2>4. QED
    BY <2>2, <2>3 DEF Line, Ordered
<1>10. ASSUME Closes(s)
       PROVE  Good
  <2>1. /\ n.queue = CloseQueue(r.queue) /\ m = l /\ b = a
        /\ n.worker = r.worker /\ n.held = r.held
    BY <1>10 DEF Closes, LogSame, SameWorker
  <2>2. n.queue.items = r.queue.items
    BY <1>3, <2>1, CloseQueueProperties
  <2>3. QED
    BY <1>4, <2>1, <2>2
<1>11. ASSUME Quiet(s) \/ Refused(s) \/ Starts(s) \/ Returns(s) \/ Exits(s) \/ Joins(s)
       PROVE  Good
  <2>1. /\ n.queue.items = r.queue.items /\ m = l /\ b = a
        /\ n.worker = "judge" => r.worker = "judge" /\ n.held = r.held
    BY <1>11 DEF Quiet, Refused, Starts, Returns, Exits, Joins, LogSame, SameWorker, SameQueue
  <2>2. QED
    BY <1>4, <2>1
<1>12. ASSUME NEW p \in Publishers, push_target(p), s = Head(pub[p].targets),
              Receives(s, pub[p].env), OwnerSame(s)
       PROVE  Good
  <2>1. pub[p].env \in Envelope /\ pub[p].targets \in Seq(Subscribers) /\ pub[p].pc = "push"
    BY <1>12, PubTypes DEF push_target
  <2>2. s \in ToSet(pub[p].targets)
    BY <1>12, <2>1, ToSetHeadTail, SMTT(40) DEF TypeInv, PublisherShape
  <2>3. Gets(s, p)
    BY <1>12, <2>1, <2>2 DEF Gets, Receives, OwnerSame
  <2>4. Late => \A e \in ToSet(a) : Before(e, pub[p].env)
    BY <2>3
  <2> HIDE DEF Good, Late, a
  <2>5. QED
    BY <1>5, <1>12, <2>1, <2>4
<1>13. Good
  <2> HIDE DEF Good
  <2>1. QED
    BY <1>1, <1>6, <1>7, <1>8, <1>9, <1>10, <1>11, <1>12 DEF SubStep
<1>14. QED
  BY <1>13


\* A step keeps OrderShape.
LEMMA OrderKept ==
    ASSUME TypeInv, PromiseInv, QuietInv, LogShape, FromShape, TopicShape, VolatileShape, OnceInv,
           LineShape, OrderShape, [Next]_vars
    PROVE  LineShape' /\ OrderShape'
<1>1. LineShape'
  BY LineSteps DEF LineShape
<1>2. ASSUME NEW s \in Subscribers, sub'[s].qos.durability = "Volatile"
      PROVE  /\ Ordered(taken'[s], sub'[s])
             /\ \A p \in Publishers : s \in ToSet(pub'[p].targets) =>
                  \A e \in ToSet(accepted'[s]) : Before(e, pub'[p].env)
  <2>1. CASE ~Known(s)
    <3>1. accepted'[s] = <<>>
      <4>1. CASE ~Known(s)'
        BY <4>1, LogKept DEF LogShape
      <4>2. CASE Known(s)'
        <5>1. owner[s].pc \in {"idle", "refused"} /\ owner'[s].pc \notin {"idle", "refused"}
          BY <2>1, <4>2 DEF Known
        <5>2. SubStep(s)
          BY SubscriberSteps DEF SubSteps, SubStepTyped
        <5>3. \E t \in Topics, type \in Types, qos \in Requested : Subscribes(s, t, type, qos)
          BY <5>1, <5>2 DEF SubStep, OwnerSame, OwnerMoves, Replays, Starts
        <5>4. QED
          BY <2>1, <5>3 DEF Subscribes, LogSame, LogShape
      <4>3. QED
        BY <4>1, <4>2
    <3>2. Line(taken'[s], sub'[s], {})
      BY <3>1, LineSteps, ToSetEmpty
    <3>3. Ordered(taken'[s], sub'[s])
      <4> DEFINE l == taken'[s]
                 r == sub'[s]
      <4> HIDE DEF l, r
      <4>1. Line(l, r, {})
        BY <3>2 DEF l, r
      <4>2. Ordered(l, r)
        BY <4>1 DEF Line, Ordered
      <4>3. QED
        BY <4>2 DEF l, r
    <3>4. QED
      BY <3>1, <3>3, ToSetEmpty
  <2>2. CASE Known(s)
    <3>1. sub'[s].qos = sub[s].qos
      BY <2>2, KnownKept DEF SameSetup
    <3>2. /\ Ordered(taken[s], sub[s]) /\ owner[s].backlog = <<>>
          /\ \A p \in Publishers : s \in ToSet(pub[p].targets) =>
               \A e \in ToSet(accepted[s]) : Before(e, pub[p].env)
      BY <1>2, <3>1 DEF OrderShape, VolatileShape
    <3>3. Ordered(taken'[s], sub'[s])
      BY <3>2, LineSteps DEF Gets
    <3>4. ASSUME NEW p \in Publishers, s \in ToSet(pub'[p].targets), NEW e \in ToSet(accepted'[s])
          PROVE  Before(e, pub'[p].env)
      <4>1. \/ e \in ToSet(accepted[s])
            \/ \E q \in Publishers : Gets(s, q) /\ e = pub[q].env
        <5>1. e \in Got(s)' /\ (e \in Got(s) => e \in ToSet(accepted[s]))
          BY <3>2, <3>4, ToSetEmpty DEF Got
        <5>2. ~\E t \in Topics : Copies(s, t)
          BY <2>2 DEF Copies
        <5>3. QED
          BY <5>1, <5>2, GotOrigin
      <4>2. \/ /\ Numbers(p) /\ pub[p].topic \in Topics
               /\ s \in ToSet(topics[pub[p].topic].subs) /\ s \notin RejectedBy(p)
            \/ /\ Sending(p) /\ s \in ToSet(pub[p].targets) /\ pub'[p].env = pub[p].env
               /\ push_target(p) \/ push_fails(p) => s # Head(pub[p].targets)
        BY <3>4, TargetSteps DEF OnceInv
      <4>3. CASE Numbers(p)
        <5>1. pub[p].topic \in Topics /\ sub[s].topic = pub[p].topic
          BY <4>2, <4>3 DEF Numbers, Sending, TopicShape
        <5>2. pub'[p].env.seq = topics[sub[s].topic].published + 1
          BY <4>3, <5>1 DEF Numbers
        <5>3. e.seq <= topics[sub[s].topic].published
          <6>1. CASE e \in ToSet(accepted[s])
            BY <2>2, <6>1 DEF OnceInv, OnceShape, Got
          <6>2. ASSUME NEW q \in Publishers, Gets(s, q), e = pub[q].env
                PROVE  e.seq <= topics[sub[s].topic].published
            <7>1. Sending(q) /\ s \in ToSet(pub[q].targets)
              BY <6>2 DEF Gets, Sending
            <7>2. QED
              BY <6>2, <7>1 DEF OnceInv, CallShape
          <6>3. QED
            BY <4>1, <6>1, <6>2
        <5>4. e.seq \in Nat /\ topics[sub[s].topic].published \in Nat
          <6>1. accepted'[s] \in Seq(Envelope)
            BY SubscriberSteps DEF SubSteps, SubStepTyped
          <6>2. e \in Envelope
            BY <3>4, <6>1, ToSetType
          <6>3. e.seq \in Nat
            BY <6>2 DEF Envelope
          <6>4. QED
            BY <5>1, <6>3, PublishedGrows
        <5>5. QED
          BY <5>2, <5>3, <5>4 DEF Before
      <4>4. CASE ~Numbers(p)
        <5>1. /\ Sending(p) /\ s \in ToSet(pub[p].targets) /\ pub'[p].env = pub[p].env
              /\ push_target(p) => s # Head(pub[p].targets)
          BY <4>2, <4>4
        <5>2. CASE e \in ToSet(accepted[s])
          BY <3>2, <5>1, <5>2
        <5>3. ASSUME NEW q \in Publishers, Gets(s, q), e = pub[q].env
              PROVE  Before(e, pub'[p].env)
          <6>1. q # p /\ pub[q].pc = "push"
            BY <5>1, <5>3 DEF Gets
          <6>2. e.from = q /\ pub'[p].env.from = p
            BY <5>1, <5>3, <6>1 DEF FromShape, Sending
          <6>3. QED
            BY <6>1, <6>2 DEF Before
        <5>4. QED
          BY <4>1, <5>2, <5>3
      <4>5. QED
        BY <4>3, <4>4
    <3>5. QED
      BY <3>3, <3>4
  <2>3. QED
    BY <2>1, <2>2
<1>3. QED
  BY <1>1, <1>2 DEF OrderShape

\* A step keeps OnceInv.
LEMMA OnceStep ==
    TypeInv /\ PromiseInv /\ LogShape /\ OffersInv /\ OnceInv /\ [Next]_vars => OnceInv'
BY DistinctKept, CallKept, LatchKept, OnceKept DEF OnceInv, OffersInv

\* A step keeps the line and its order.
LEMMA OrderStep ==
    TypeInv /\ PromiseInv /\ QuietInv /\ LogShape /\ OffersInv /\ OnceInv
      /\ LineShape /\ OrderShape /\ [Next]_vars => LineShape' /\ OrderShape'
BY OrderKept DEF OffersInv

\* All of it holds when the bus has been made.
LEMMA OnceInit == Init => OnceInv /\ LineShape /\ OrderShape
<1> SUFFICES ASSUME Init
             PROVE  OnceInv /\ LineShape /\ OrderShape
  OBVIOUS
<1>1. /\ \A s \in Subscribers : /\ sub[s] = Subscription0 /\ accepted[s] = <<>> /\ taken[s] = <<>>
                                /\ owner[s].backlog = <<>>
      /\ \A t \in Topics : topics[t] = Entry0
      /\ \A p \in Publishers : pub[p] = Publisher0
  BY DEF Init
<1>2. /\ Publisher0.pc = "none" /\ Publisher0.targets = <<>>
      /\ Entry0.subs = <<>> /\ Entry0.latched = <<>>
      /\ Subscription0.worker = "none" /\ Subscription0.queue = NewQueue(1, "Block")
  BY DEF Subscription0, Publisher0, Entry0
<1>3. NewQueue(1, "Block").items = <<>>
  BY DEF NewQueue
<1>4. OneEach(<<>>) /\ Distinct(<<>>) /\ ToSet(<<>>) = {}
  BY ToSetEmpty DEF OneEach, Distinct
<1>5. Subscription0.queue.items = <<>>
  BY <1>2, <1>3
<1>6. ListShape /\ LatchShape /\ CallShape
  BY <1>1, <1>2, <1>4 DEF ListShape, LatchShape, CallShape, Sending
<1>7. OnceShape
  BY <1>1, <1>4 DEF OnceShape, Got
<1>8. Line(<<>>, Subscription0, {}) /\ Ordered(<<>>, Subscription0)
  BY <1>2, <1>5 DEF Line, Ordered
<1>9. LineShape /\ OrderShape
  BY <1>1, <1>2, <1>4, <1>8 DEF LineShape, OrderShape
<1>10. QED
  BY <1>6, <1>7, <1>9 DEF OnceInv

\* All invariants of the bus so far.
BusInv == /\ TypeInv /\ QuietInv /\ PromiseInv /\ StatsInv /\ OffersInv
          /\ OnceInv /\ LineShape /\ OrderShape

\* They hold together.
LEMMA BusInvariant == Spec => []BusInv
<1>1. Init => BusInv
  BY TypeInit, QuietInit, PromiseInit, StatsInit, OffersInit, OnceInit DEF BusInv
<1>2. BusInv /\ [Next]_vars => BusInv'
  BY TypeStep, QuietStep, PromiseStep, StatsStep, OffersStep, OnceStep, OrderStep
     DEF BusInv, StatsInv
<1>3. QED
  BY <1>1, <1>2, PTL DEF Spec

\* What one publisher sent reaches a subscriber without backlog in the order it was sent,
\* although it is pushed outside the lock, others push too and the queue drops messages.
THEOREM OrderHolds == Spec => []PublisherOrder
<1>1. BusInv => PublisherOrder
  BY DEF BusInv, OrderShape, Ordered, Before, PublisherOrder
<1>2. QED
  BY <1>1, BusInvariant, PTL



-----------------------------------------------------------------------------
(* The latch. *)

\* e is from a publisher that latches.
Latchable(e) ==
    /\ e.from \in Publishers /\ pub[e.from].pc # "none"
    /\ pub[e.from].qos.durability = "TransientLocal"

\* What is latched, or was copied from a latch, is from such a publisher.
OriginShape ==
    /\ \A t \in Topics : \A e \in ToSet(topics[t].latched) : Latchable(e)
    /\ \A s \in Subscribers : \A e \in ToSet(owner[s].backlog) : Latchable(e)

\* The numbers of a sequence of messages rise.
Rising(l) == \A i, j \in DOMAIN l : i < j => l[i].seq < l[j].seq
RisingShape == \A t \in Topics : Rising(topics[t].latched)

\* The number of a publisher's last message is one of its topic; and if it latches and the
\* latch holds an older message, the latch holds this one.
NotSkipped(p) ==
    \A e \in ToSet(topics[pub[p].topic].latched) :
        e.seq < pub[p].env.seq => pub[p].env \in ToSet(topics[pub[p].topic].latched)
NewestShape ==
    \A p \in Publishers : pub[p].pc # "none" =>
        /\ pub[p].env.seq <= topics[pub[p].topic].published
        /\ pub[p].qos.durability = "TransientLocal" => NotSkipped(p)

HistoryInv == OriginShape /\ RisingShape /\ NewestShape

\* p latches its message on topic t, where l was latched and m is after that.
Latches(p, t, l, m) ==
    /\ Numbers(p) /\ t = pub[p].topic /\ pub[p].qos.durability = "TransientLocal"
    /\ pub'[p].env \in Envelope /\ pub'[p].env.from = p
    /\ pub'[p].env.seq = topics[t].published + 1
    /\ topics'[t].published = topics[t].published + 1
    /\ EndOf(m, Append(l, pub'[p].env))
    /\ ToSet(m) \subseteq ToSet(l) \cup {pub'[p].env}
    /\ m = <<>> \/ pub'[p].env \in ToSet(m)

\* What a numbered message does to the latch of its topic.
LEMMA PublishLatches ==
    ASSUME TypeInv, FromShape, [Next]_vars, NEW p \in Publishers, publish_erased(p)
    PROVE  LET t == pub[p].topic
               l == topics[t].latched
               m == topics'[t].latched
           IN  /\ t \in Topics
               /\ pub[p].qos.durability = "TransientLocal" \/ m = l
               /\ pub[p].qos.durability = "TransientLocal" => Latches(p, t, l, m)
<1> DEFINE t == pub[p].topic
           l == topics[t].latched
           m == topics'[t].latched
           e == NumberedEnv(p)
           r == topics[t]
           qos == pub[p].qos
           h == Latch(r, e, qos)
<1>1. Numbers(p)
  BY NumberStep
<1>2. pub[p].pc = "lock" /\ pub'[p].env = e /\ pub'[p] \in PubRec
  BY <1>1, PublisherSteps DEF Numbers, PubSteps
<1>3. t \in Topics
  BY <1>2, PubTypes
<1>4. e \in Envelope
  BY <1>2 DEF PubRec
<1>5. e.seq = topics[t].published + 1 /\ e.from = p
  BY <1>1, <1>2 DEF Numbers, FromShape
<1>6. topics'[t].published = topics[t].published + 1 /\ m = h /\ r.latched = l
  BY NumberTopic
<1>7. qos \in QoS /\ r.latched \in Seq(Envelope)
  BY <1>3, PubTypes
<1>8. qos.durability = "TransientLocal" \/ qos.durability = "Volatile"
  BY <1>7 DEF QoS, Durability
<1> HIDE DEF e, r, qos
<1>9. /\ ToSet(h) \subseteq ToSet(r.latched) \cup {e}
      /\ qos.durability = "Volatile" => h = r.latched
      /\ qos.durability # "Volatile" =>
           EndOf(h, Append(r.latched, e)) /\ (h = <<>> \/ e \in ToSet(h))
  BY <1>4, <1>7, LatchProperties
<1> HIDE DEF h, l, m, t
<1>10. qos.durability = "TransientLocal" \/ m = l
  BY <1>6, <1>8, <1>9
<1>11. ASSUME qos.durability = "TransientLocal"
       PROVE  Latches(p, t, l, m)
  <2>1. EndOf(m, Append(l, e)) /\ (m = <<>> \/ e \in ToSet(m)) /\ ToSet(m) \subseteq ToSet(l) \cup {e}
    BY <1>6, <1>9, <1>11
  <2>2. pub[p].qos.durability = "TransientLocal" /\ t = pub[p].topic
    BY <1>11 DEF qos, t
  <2>3. QED
    BY <1>1, <1>2, <1>4, <1>5, <1>6, <2>1, <2>2, Zenon DEF Latches
<1>12. QED
  BY <1>3, <1>10, <1>11 DEF t, l, m, qos

\* What a step does to the latch of a topic.
LEMMA LatchSteps ==
    ASSUME TypeInv, FromShape, [Next]_vars, NEW t \in Topics
    PROVE  LET l == topics[t].latched
               m == topics'[t].latched
           IN  m = l \/ m = <<>> \/ \E p \in Publishers : Latches(p, t, l, m)
<1> DEFINE l == topics[t].latched
           m == topics'[t].latched
<1>1. TopicStep(t)
  BY AllTopicSteps DEF TopicSteps
<1>2. ASSUME NEW p \in Publishers, publish_erased(p), t = pub[p].topic
      PROVE  m = l \/ Latches(p, t, l, m)
  BY <1>2, PublishLatches
<1>3. QED
  BY <1>1, <1>2 DEF TopicStep, SameEntry

\* A message that could be latched stays so.
LEMMA LatchableKept ==
    ASSUME TypeInv, [Next]_vars, NEW e, Latchable(e)
    PROVE  Latchable(e)'
BY AdKept DEF Latchable, SameAd

\* A step keeps OriginShape.
LEMMA OriginKept ==
    ASSUME TypeInv, LogShape, FromShape, OriginShape, [Next]_vars
    PROVE  OriginShape'
<1>1. ASSUME NEW t \in Topics, NEW e \in ToSet(topics'[t].latched)
      PROVE  Latchable(e)'
  <2> DEFINE l == topics[t].latched
             m == topics'[t].latched
  <2>1. \A f \in ToSet(l) : Latchable(f)'
    BY LatchableKept DEF OriginShape
  <2>2. ASSUME NEW p \in Publishers, Latches(p, t, l, m)
        PROVE  Latchable(e)'
    <3>1. /\ pub[p].pc # "none" /\ pub[p].qos.durability = "TransientLocal"
          /\ pub'[p].env.from = p
          /\ e \in ToSet(l) \/ e = pub'[p].env
      BY <1>1, <2>2 DEF Latches, Numbers
    <3>2. pub'[p].pc # "none" /\ pub'[p].qos = pub[p].qos
      BY <3>1, AdKept DEF SameAd
    <3>3. QED
      BY <2>1, <3>1, <3>2 DEF Latchable
  <2>3. QED
    BY <1>1, <2>1, <2>2, LatchSteps, ToSetEmpty
<1>2. ASSUME NEW s \in Subscribers, NEW e \in ToSet(owner'[s].backlog)
      PROVE  Latchable(e)'
  <2> DEFINE b == owner[s].backlog
  <2>1. b \in Seq(Envelope)
    BY FourTypes
  <2>2. Takes(s) => e \in ToSet(b)
    BY <1>2, <2>1, ToSetHeadTail DEF Takes
  <2>3. Keeps(s) \/ (\E p \in Publishers : Gets(s, p)) => e \in ToSet(b)
    BY <1>2 DEF Keeps, Gets
  <2>4. ASSUME NEW t \in Topics, Copies(s, t)
        PROVE  e \in ToSet(topics[t].latched)
    BY <1>2, <2>4, ToSetEmpty DEF Copies
  <2>5. Latchable(e)
    BY <2>2, <2>3, <2>4, GotSteps DEF OriginShape
  <2>6. QED
    BY <2>5, LatchableKept
<1>3. QED
  BY <1>1, <1>2 DEF OriginShape

\* A sequence that rises still does with a message of a higher number at its end.
LEMMA RisingAppend ==
    ASSUME NEW l \in Seq(Envelope), Rising(l), NEW e \in Envelope,
           \A f \in ToSet(l) : f.seq < e.seq
    PROVE  Rising(Append(l, e))
<1> DEFINE a == Append(l, e)
<1>1. /\ a \in Seq(Envelope) /\ Len(a) = Len(l) + 1 /\ Len(l) \in Nat
      /\ \A i \in 1..Len(l) : a[i] = l[i]
      /\ a[Len(l) + 1] = e /\ DOMAIN a = 1..Len(l) + 1 /\ DOMAIN l = 1..Len(l)
  OBVIOUS
<1> HIDE DEF a
<1>2. \A i \in 1..Len(l) : l[i].seq < e.seq
  BY InToSet
<1>3. ASSUME NEW i \in DOMAIN a, NEW j \in DOMAIN a, i < j
      PROVE  a[i].seq < a[j].seq
  <2>1. i \in 1..Len(l) /\ (j \in 1..Len(l) \/ j = Len(l) + 1)
    BY <1>1, <1>3
  <2>2. QED
    BY <1>1, <1>2, <1>3, <2>1 DEF Rising
<1>4. QED
  BY <1>3 DEF Rising, a

\* So it does when it is cut at the front, and the cut takes no message that comes after one
\* it leaves.
LEMMA RisingEnd ==
    ASSUME NEW a \in Seq(Envelope), Rising(a), NEW m, EndOf(m, a)
    PROVE  /\ Rising(m)
           /\ \A e \in ToSet(m), f \in ToSet(a) : e.seq < f.seq => f \in ToSet(m)
<1>1. PICK k \in Nat : k <= Len(a) /\ m = SubSeq(a, k + 1, Len(a))
  BY DEF EndOf
<1>2. m \in Seq(Envelope) /\ Len(m) = Len(a) - k /\ Len(a) \in Nat
  BY <1>1
<1>3. \A i \in 1..Len(m) : m[i] = a[k + i] /\ k + i \in 1..Len(a)
  BY <1>1, <1>2
<1>4. DOMAIN m = 1..Len(m) /\ DOMAIN a = 1..Len(a) /\ Len(m) \in Nat
  BY <1>1, <1>2
<1>5. Rising(m)
  <2> SUFFICES ASSUME NEW i \in 1..Len(m), NEW j \in 1..Len(m), i < j
               PROVE  m[i].seq < m[j].seq
    BY <1>4 DEF Rising
  <2>1. k + i < k + j /\ k + i \in 1..Len(a) /\ k + j \in 1..Len(a)
    BY <1>3
  <2>2. a[k + i].seq < a[k + j].seq
    BY <1>4, <2>1 DEF Rising
  <2>3. QED
    BY <1>3, <2>2
<1>6. ASSUME NEW e \in ToSet(m), NEW f \in ToSet(a), e.seq < f.seq
      PROVE  f \in ToSet(m)
  <2>1. PICK i \in 1..Len(m) : m[i] = e
    BY <1>2, InToSet
  <2>2. PICK j \in 1..Len(a) : a[j] = f
    BY InToSet
  <2>3. a[k + i] = e /\ k + i \in 1..Len(a)
    BY <1>3, <2>1
  <2>4. e.seq \in Int /\ f.seq \in Int
    <3>1. e \in Envelope /\ f \in Envelope
      BY <2>2, <2>3
    <3>2. QED
      BY <3>1 DEF Envelope
  <2>5. ~(j < k + i)
    <3>1. ASSUME j < k + i
          PROVE  FALSE
      <4>1. a[j].seq < a[k + i].seq
        BY <1>4, <2>3, <3>1 DEF Rising
      <4>2. QED
        BY <1>6, <2>2, <2>3, <2>4, <4>1
    <3>2. QED
      BY <3>1
  <2>6. j - k \in 1..Len(m)
    BY <1>2, <2>5
  <2>7. m[j - k] = a[k + (j - k)] /\ k + (j - k) = j
    BY <1>3, <2>6
  <2>8. QED
    BY <1>2, <2>2, <2>6, <2>7, InToSet
<1>7. QED
  BY <1>5, <1>6

\* The latched messages, and the one that is latched after them, in order.
LEMMA LatchRises ==
    ASSUME TypeInv, LatchShape, RisingShape, NEW t \in Topics, NEW p \in Publishers, NEW m,
           Latches(p, t, topics[t].latched, m)
    PROVE  LET a == Append(topics[t].latched, pub'[p].env)
           IN  /\ a \in Seq(Envelope) /\ Rising(a)
               /\ ToSet(a) = ToSet(topics[t].latched) \cup {pub'[p].env}
<1> DEFINE l == topics[t].latched
           e == pub'[p].env
<1>1. l \in Seq(Envelope) /\ topics[t].published \in Nat /\ Rising(l)
  BY PubTypes DEF RisingShape
<1>2. e \in Envelope /\ e.seq = topics[t].published + 1
  BY DEF Latches
<1>3. \A f \in ToSet(l) : f.seq < e.seq
  <2>1. ASSUME NEW f \in ToSet(l)
        PROVE  f.seq < e.seq
    <3>1. f \in Envelope
      BY <1>1, ToSetType
    <3>2. f.seq \in Nat
      BY <3>1, BoundsAssumption DEF Envelope
    <3>3. f.seq <= topics[t].published
      BY DEF LatchShape
    <3>4. QED
      BY <1>1, <1>2, <3>2, <3>3
  <2>2. QED
    BY <2>1
<1> HIDE DEF l, e
<1>4. Append(l, e) \in Seq(Envelope) /\ Rising(Append(l, e))
  BY <1>1, <1>2, <1>3, RisingAppend
<1>5. ToSet(Append(l, e)) = ToSet(l) \cup {e}
  BY <1>1, <1>2, ToSetAppend
<1>6. QED
  BY <1>4, <1>5 DEF l, e

\* A step keeps RisingShape.
LEMMA RisingKept ==
    ASSUME TypeInv, FromShape, LatchShape, RisingShape, [Next]_vars
    PROVE  RisingShape'
<1> SUFFICES ASSUME NEW t \in Topics
             PROVE  Rising(topics'[t].latched)
  BY DEF RisingShape
<1> DEFINE l == topics[t].latched
           m == topics'[t].latched
<1>1. Rising(l) /\ Rising(<<>>)
  BY DEF RisingShape, Rising
<1>2. ASSUME NEW p \in Publishers, Latches(p, t, l, m)
      PROVE  Rising(m)
  <2> DEFINE a == Append(l, pub'[p].env)
  <2>1. a \in Seq(Envelope) /\ Rising(a) /\ EndOf(m, a)
    BY <1>2, LatchRises DEF Latches
  <2> HIDE DEF a, m
  <2>2. QED
    BY <2>1, RisingEnd
<1>3. QED
  BY <1>1, <1>2, LatchSteps

\* A step keeps NewestShape.
LEMMA NewestKept ==
    ASSUME TypeInv, FromShape, LatchShape, RisingShape, NewestShape, [Next]_vars
    PROVE  NewestShape'
<1> SUFFICES ASSUME NEW p \in Publishers, pub'[p].pc # "none"
             PROVE  /\ pub'[p].env.seq <= topics'[pub'[p].topic].published
                    /\ pub'[p].qos.durability = "TransientLocal" => NotSkipped(p)'
  BY DEF NewestShape
<1> DEFINE t == pub'[p].topic
           v == pub'[p].env
           l == topics[t].latched
           m == topics'[t].latched
           Good == /\ v.seq <= topics'[t].published
                   /\ pub'[p].qos.durability = "TransientLocal" =>
                        \A e \in ToSet(m) : e.seq < v.seq => v \in ToSet(m)
<1>1. PubStep(p) /\ v \in Envelope
  BY PublisherSteps DEF PubSteps, PubRec
<1>2. TypeInv'
  BY TypeStep
<1>3. t \in Topics
  BY <1>2 DEF TypeInv, PublisherShape
<1>4. /\ topics[t].published \in Nat /\ topics'[t].published \in Nat
      /\ topics'[t].published >= topics[t].published
      /\ l \in Seq(Envelope) /\ m \in Seq(Envelope)
  BY <1>3, PublishedGrows, PubTypes, AllTopicSteps DEF TopicSteps, EntryRec
<1>5. \A e \in Envelope : e.seq \in Nat
  BY BoundsAssumption DEF Envelope
<1>6. \A e \in ToSet(m) : e.seq \in Nat
  BY <1>4, <1>5, ToSetType
<1>7. ASSUME v.seq = 0
      PROVE  Good
  BY <1>4, <1>6, <1>7
<1>8. ASSUME Numbers(p)
      PROVE  Good
  <2>1. publish_erased(p) /\ pub'[p].topic = pub[p].topic /\ pub'[p].qos = pub[p].qos
    BY <1>8 DEF Numbers, SameAd
  <2>2. v.seq = topics'[t].published
    BY <1>8, <2>1, NumberTopic DEF Numbers
  <2>3. pub'[p].qos.durability = "TransientLocal" => m = <<>> \/ v \in ToSet(m)
    BY <2>1, PublishLatches DEF Latches
  <2>4. v.seq <= topics'[t].published
    BY <1>4, <2>2
  <2>5. ASSUME pub'[p].qos.durability = "TransientLocal", NEW e \in ToSet(m)
        PROVE  v \in ToSet(m)
    BY <2>3, <2>5, ToSetEmpty
  <2>6. QED
    BY <2>4, <2>5
<1>9. ASSUME pub[p].pc # "none", v = pub[p].env, SameAd(pub'[p], pub[p])
      PROVE  Good
  <2>1. t = pub[p].topic /\ pub'[p].qos = pub[p].qos
    BY <1>9 DEF SameAd
  <2>2. v.seq <= topics[t].published /\ v.seq \in Nat
    BY <1>1, <1>5, <1>9, <2>1 DEF NewestShape
  <2>3. v.seq <= topics'[t].published
    BY <1>4, <2>2
  <2>4. ASSUME pub'[p].qos.durability = "TransientLocal", NEW e \in ToSet(m), e.seq < v.seq
        PROVE  v \in ToSet(m)
    <3>1. \A f \in ToSet(l) : f.seq < v.seq => v \in ToSet(l)
      BY <1>9, <2>1, <2>4 DEF NewestShape, NotSkipped
    <3>2. ASSUME NEW q \in Publishers, Latches(q, t, l, m)
          PROVE  v \in ToSet(m)
      <4> DEFINE w == pub'[q].env
                 a == Append(l, w)
      <4>1. /\ w.seq = topics[t].published + 1 /\ EndOf(m, a)
            /\ ToSet(m) \subseteq ToSet(l) \cup {w}
        BY <3>2 DEF Latches
      <4>2. a \in Seq(Envelope) /\ Rising(a) /\ ToSet(a) = ToSet(l) \cup {w}
        BY <1>3, <3>2, LatchRises
      <4> HIDE DEF a, w, m, l, t, v
      <4>3. e # w
        BY <1>4, <2>2, <2>4, <4>1
      <4>4. v \in ToSet(a)
        BY <2>4, <3>1, <4>1, <4>2, <4>3
      <4>5. QED
        BY <2>4, <4>1, <4>2, <4>4, RisingEnd
    <3>3. QED
      BY <1>3, <2>4, <3>1, <3>2, LatchSteps, ToSetEmpty
  <2>5. QED
    BY <2>3, <2>4
<1>10. Good
  <2>1. ASSUME NEW u \in Topics, NEW type \in Types, NEW qos \in Offered,
               Advertises(p, u, type, qos)
        PROVE  v.seq = 0
    BY <2>1 DEF Advertises, Env0
  <2>2. Calls(p) => v.seq = 0
    BY DEF Calls
  <2>3. /\ pub'[p] = pub[p] \/ WrongType(p) \/ Reports(p) \/ Pushes(p)
        => pub[p].pc # "none" /\ v = pub[p].env /\ SameAd(pub'[p], pub[p])
    BY DEF WrongType, Reports, Pushes, SameCall, SameAd
  <2> HIDE DEF Good, v
  <2>4. QED
    BY <1>1, <1>7, <1>8, <1>9, <2>1, <2>2, <2>3 DEF PubStep
<1>11. QED
  BY <1>10 DEF NotSkipped

\* A step keeps HistoryInv.
LEMMA HistoryStep == BusInv /\ HistoryInv /\ [Next]_vars => HistoryInv'
<1> SUFFICES ASSUME BusInv, HistoryInv, [Next]_vars
             PROVE  HistoryInv'
  OBVIOUS
<1>1. /\ TypeInv /\ LogShape /\ FromShape /\ LatchShape
      /\ OriginShape /\ RisingShape /\ NewestShape
  BY DEF BusInv, StatsInv, OffersInv, OnceInv, HistoryInv
<1>2. OriginShape' /\ RisingShape' /\ NewestShape'
  BY <1>1, OriginKept, RisingKept, NewestKept
<1>3. QED
  BY <1>2 DEF HistoryInv

\* HistoryInv holds when the bus has been made.
LEMMA HistoryInit == Init => HistoryInv
<1> SUFFICES ASSUME Init
             PROVE  HistoryInv
  OBVIOUS
<1>1. /\ \A s \in Subscribers : owner[s].backlog = <<>>
      /\ \A t \in Topics : topics[t] = Entry0
      /\ \A p \in Publishers : pub[p] = Publisher0
  BY DEF Init
<1>2. Publisher0.pc = "none" /\ Entry0.latched = <<>>
  BY DEF Publisher0, Entry0
<1>3. QED
  BY <1>1, <1>2, ToSetEmpty DEF HistoryInv, OriginShape, RisingShape, Rising, NewestShape

\* What enters the queue of a subscriber is pushed by a publisher that matches, or is
\* backlog from one that latches.
LEMMA OfferedStep == BusInv /\ HistoryInv /\ [Next]_vars => [OfferedEnough]_vars
<1> SUFFICES ASSUME BusInv, HistoryInv, [Next]_vars, NEW s \in Subscribers,
                    accepted'[s] # accepted[s]
             PROVE  LET offer == pub[Last(accepted'[s]).from].qos IN
                    IF owner'[s] = owner[s] THEN OffersAtLeast(offer, sub[s].qos)
                    ELSE offer.durability = "TransientLocal"
  BY DEF OfferedEnough
<1>1. TypeInv /\ LogShape /\ FromShape /\ MatchShape /\ OriginShape
  BY DEF BusInv, StatsInv, OffersInv, HistoryInv
<1> DEFINE a == accepted[s]
           b == owner[s].backlog
<1>2. a \in Seq(Envelope) /\ b \in Seq(Envelope)
  BY <1>1, FourTypes
<1>3. \A e \in Envelope : Last(Append(a, e)) = e
  BY <1>2 DEF Last
<1>4. ASSUME NEW p \in Publishers, Gets(s, p)
      PROVE  owner'[s] = owner[s] /\ OffersAtLeast(pub[Last(accepted'[s]).from].qos, sub[s].qos)
  <2>1. /\ push_target(p) /\ pub[p].pc = "push" /\ s \in ToSet(pub[p].targets)
        /\ accepted'[s] = Append(a, pub[p].env)
    BY <1>4 DEF Gets
  <2>2. owner'[s] = owner[s]
    BY <2>1 DEF push_target
  <2>3. Last(accepted'[s]) = pub[p].env /\ pub[p].env.from = p
    BY <1>1, <1>3, <2>1, PubTypes DEF FromShape
  <2>4. Matches(p, s)
    BY <1>1, <2>1 DEF MatchShape
  <2>5. pub[p].qos \in QoS /\ sub[s].qos \in QoS
    BY <1>1, PubTypes, FourTypes DEF SubRec
  <2>6. OffersAtLeast(pub[p].qos, sub[s].qos)
    BY <2>4, <2>5, RxOCorrect DEF Matches
  <2>7. QED
    BY <2>2, <2>3, <2>6
<1>5. ASSUME Takes(s)
      PROVE  /\ owner'[s] # owner[s]
             /\ pub[Last(accepted'[s]).from].qos.durability = "TransientLocal"
  <2>1. b # <<>> /\ owner'[s].backlog = Tail(b) /\ accepted'[s] = Append(a, Head(b))
    BY <1>5 DEF Takes
  <2>2. Tail(b) # b
    <3>1. Len(Tail(b)) = Len(b) - 1 /\ Len(b) \in Nat
      BY <1>2, <2>1
    <3> DEFINE n == Len(b)
    <3>2. n \in Nat => n - 1 # n
      <4> HIDE DEF n
      <4>1. QED
        OBVIOUS
    <3>3. Len(Tail(b)) # Len(b)
      BY <3>1, <3>2
    <3>4. QED
      BY <3>3
  <2>3. Head(b) \in Envelope /\ Head(b) \in ToSet(b)
    BY <1>2, <2>1, ToSetHeadTail
  <2>4. Latchable(Head(b))
    BY <1>1, <2>3 DEF OriginShape
  <2>5. Last(accepted'[s]) = Head(b)
    BY <1>3, <2>1, <2>3
  <2>6. QED
    BY <2>1, <2>2, <2>4, <2>5 DEF Latchable
<1>6. ~Keeps(s)
  BY DEF Keeps
<1>7. ASSUME NEW t \in Topics, Copies(s, t)
      PROVE  FALSE
  BY <1>1, <1>7 DEF Copies, LogShape
<1>8. QED
  BY <1>1, <1>4, <1>5, <1>6, <1>7, GotSteps

\* What a publisher pushes to a subscriber is no weaker, policy by policy, than what it asked
\* for, whether it asked for the past or not, and its backlog is from publishers that latch;
\* it is refused something only where somebody offers less, and every refusal is counted, by
\* the subscriber and by the bus, before anyone is told of it.
THEOREM OffersHold == Spec => OffersRespected
<1>1. Spec => [](BusInv /\ HistoryInv)
  BY BusInvariant, HistoryInit, HistoryStep, PTL DEF Spec
<1>2. TypeInv /\ OffersInv => RefusalsTrue
  <2> SUFFICES ASSUME TypeInv, OffersInv
               PROVE  RefusalsTrue
    OBVIOUS
  <2>1. ASSUME NEW p \in Publishers, NEW s \in Subscribers
        PROVE  Matches(p, s) <=> OffersAtLeast(pub[p].qos, sub[s].qos)
    <3>1. pub[p].qos \in QoS /\ sub[s].qos \in QoS
      BY PubTypes, FourTypes DEF SubRec
    <3>2. QED
      BY <3>1, RxOCorrect DEF Matches
  <2>2. ASSUME NEW s \in Subscribers, sub[s].qos_rejected > 0
        PROVE  \E p \in Publishers : /\ pub[p].pc # "none" /\ pub[p].topic = sub[s].topic
                                     /\ ~OffersAtLeast(pub[p].qos, sub[s].qos)
    BY <2>1, <2>2 DEF OffersInv, NoticeShape
  <2>3. \A s \in Subscribers : sub[s].mismatch_reported <=> sub[s].qos_rejected > 0
    BY DEF OffersInv, NoticeShape
  <2>4. counts.qos = MapThenSumSet(LAMBDA s : sub[s].qos_rejected, Subscribers)
    BY RejectionsSum DEF OffersInv, CountShape
  <2>5. \A s \in heard : sub[s].mismatch_reported
    BY DEF OffersInv, ToldShape
  <2>6. QED
    BY <2>2, <2>3, <2>4, <2>5 DEF RefusalsTrue
<1>3. BusInv => RefusalsTrue
  BY <1>2 DEF BusInv
<1>4. QED
  BY <1>1, <1>3, OfferedStep, PTL DEF Spec, OffersRespected


-----------------------------------------------------------------------------
(* Not twice, and not missing. *)

\* Who is on a list has an open queue, and shutdown() is not closing it.
OpenShape ==
    /\ \A t \in Topics : \A s \in ToSet(topics[t].subs) :
         /\ owner[s].pc \in {"replay", "subscribed"}
         /\ ~sub[s].queue.closed /\ s \notin ToSet(stop.all)
    /\ \A s \in ToSet(stop.all) : Known(s)

\* What is latched or has been got by somebody has been numbered.
NumberShape ==
    /\ \A t \in Topics : \A e \in ToSet(topics[t].latched) : e.seq > 0
    /\ \A s \in Subscribers : \A e \in Got(s) : e.seq > 0

\* e is not for s, or s has got it or has it in its backlog, or it is under way to s.
Reached(e, s) ==
    \/ ~Matches(e.from, s)
    \/ e \in Got(s)
    \/ pub[e.from].env = e /\ s \in ToSet(pub[e.from].targets)

\* The queue of s, while it is open, takes every message: it has room for all that can be
\* sent, or drops its oldest.
TakesAll(s) == sub[s].queue.capacity >= MaxPublish \/ sub[s].queue.policy = "DropOldest"

\* s asked for the past, and takes all of it.
Roomy(s) == sub[s].qos.durability = "TransientLocal" /\ TakesAll(s)

\* Nothing latched is missing at such a subscriber while it is on the list.
GapShape ==
    \A t \in Topics : \A s \in ToSet(topics[t].subs) :
        Roomy(s) => \A e \in ToSet(topics[t].latched) : Reached(e, s)

\* stop_subscription, called by unsubscribe() or by shutdown().
Closing(s) ==
    Closes(s) /\ (owner[s].pc = "close" \/ (shutdown_close /\ s = Head(stop.all)))

\* The queue of a subscriber keeps its size and policy, and only stop_subscription closes it.
LEMMA QueueSteps ==
    ASSUME TypeInv, QuietInv, [Next]_vars, NEW s \in Subscribers, Known(s)
    PROVE  /\ sub'[s].queue.capacity = sub[s].queue.capacity
           /\ sub'[s].queue.policy = sub[s].queue.policy
           /\ sub'[s].queue.closed = sub[s].queue.closed \/ Closing(s)
<1> DEFINE n == sub'[s].queue
           r == sub[s].queue
           Good == /\ n.capacity = r.capacity /\ n.policy = r.policy
                   /\ n.closed = r.closed \/ Closing(s)
<1>1. SubStep(s) /\ r \in Queue(Envelope) /\ Len(r.items) <= r.capacity
  BY SubscriberSteps, FourTypes DEF SubSteps, SubStepTyped
<1>2. ASSUME n = r
      PROVE  Good
  BY <1>2
<1>3. ASSUME NEW e \in Envelope, Receives(s, e)
      PROVE  Good
  <2>1. n = Stored(r, e)
    BY <1>3 DEF Receives
  <2> HIDE DEF n, r
  <2>2. QED
    BY <1>1, <2>1, StoredProperties
<1>4. ASSUME Pops(s)
      PROVE  Good
  <2>1. n = Dequeue(r) /\ r.items # <<>>
    BY <1>4 DEF Pops
  <2> HIDE DEF n, r
  <2>2. QED
    BY <1>1, <2>1, DequeueProperties
<1>5. ASSUME Closing(s)
      PROVE  Good
  <2>1. n = CloseQueue(r)
    BY <1>5 DEF Closing, Closes
  <2> HIDE DEF n, r
  <2>2. QED
    BY <1>1, <1>5, <2>1, CloseQueueProperties
<1>6. ASSUME Replays(s)
      PROVE  Good
  <2>1. owner[s].backlog \in Seq(Envelope) /\ owner[s].backlog # <<>>
    BY <1>6, FourTypes DEF Replays
  <2>2. Head(owner[s].backlog) \in Envelope
    BY <2>1
  <2>3. Receives(s, Head(owner[s].backlog)) \/ n = r
    BY <1>6 DEF Replays, Quiet
  <2> HIDE DEF Good, n, r
  <2>4. QED
    BY <1>2, <1>3, <2>2, <2>3
<1>7. ASSUME NEW p \in Publishers, Receives(s, pub[p].env)
      PROVE  Good
  <2>1. pub[p].env \in Envelope
    BY PubTypes
  <2> HIDE DEF Good
  <2>2. QED
    BY <1>3, <1>7, <2>1
<1>8. ASSUME NEW t \in Topics, NEW type \in Types, NEW qos \in Requested,
             Subscribes(s, t, type, qos)
      PROVE  Good
  BY <1>8 DEF Subscribes, Known
<1>9. ASSUME \/ Quiet(s) \/ Refused(s) \/ Starts(s) \/ Expires(s) \/ Delivers(s) \/ Returns(s)
             \/ Exits(s) \/ Joins(s)
      PROVE  Good
  BY <1>2, <1>9 DEF Quiet, Refused, Starts, Expires, Delivers, Returns, Exits, Joins, SameQueue
<1>10. Good
  <2> HIDE DEF Good
  <2>1. QED
    BY <1>1, <1>4, <1>5, <1>6, <1>7, <1>8, <1>9 DEF SubStep, Closing, OwnerMoves
<1>11. QED
  BY <1>10

\* What shutdown() has to stop was listed when it began, and gets less.
LEMMA StopList ==
    ASSUME TypeInv, [Next]_vars
    PROVE  /\ stop.all \in Seq(Subscribers)
           /\ \/ ToSet(stop'.all) \subseteq ToSet(stop.all)
              \/ shutdown /\ ToSet(stop'.all) = AllListed
<1>1. stop' = stop \/ Begins \/ Proceeds
  BY StopSteps DEF StopStep
<1>2. stop.all \in Seq(Subscribers)
  BY TypeParts DEF TypeInv, StopRec
<1>3. CASE Proceeds
  <2>1. /\ stop.all # <<>>
        /\ stop'.all = stop.all \/ stop'.all = Tail(stop.all)
    BY <1>3 DEF Proceeds
  <2>2. ToSet(stop.all) = {Head(stop.all)} \cup ToSet(Tail(stop.all))
    BY <1>2, <2>1, ToSetHeadTail
  <2>3. QED
    BY <1>2, <2>1, <2>2
<1>4. QED
  BY <1>1, <1>2, <1>3 DEF Begins

\* A step keeps OpenShape.
LEMMA OpenKept ==
    ASSUME TypeInv, QuietInv, PromiseInv, TopicShape, ListShape, OpenShape, [Next]_vars
    PROVE  OpenShape'
<1>1. ASSUME shutdown, NEW t \in Topics
      PROVE  ToSet(topics'[t].subs) = {}
  BY <1>1, ShutdownTopic, ToSetEmpty
<1>2. ASSUME NEW t \in Topics, NEW s \in ToSet(topics'[t].subs)
      PROVE  ToSet(stop'.all) \subseteq ToSet(stop.all)
  BY <1>1, <1>2, StopList
<1>3. ASSUME NEW t \in Topics, NEW s \in ToSet(topics'[t].subs)
      PROVE  /\ owner'[s].pc \in {"replay", "subscribed"}
             /\ ~sub'[s].queue.closed /\ s \notin ToSet(stop'.all)
  <2>1. s \in Subscribers /\ SubStep(s)
    BY <1>3, ListSteps, SubscriberSteps DEF SubSteps, SubStepTyped
  <2>2. ASSUME NEW type \in Types, NEW qos \in Requested, Subscribes(s, t, type, qos)
        PROVE  /\ owner'[s].pc = "replay"
               /\ ~sub'[s].queue.closed /\ s \notin ToSet(stop'.all)
    <3>1. ~Known(s) /\ owner'[s].pc = "replay" /\ ~sub'[s].queue.closed
      BY <2>2 DEF Subscribes, Known
    <3>2. s \notin ToSet(stop.all)
      BY <3>1 DEF OpenShape
    <3>3. QED
      BY <1>2, <1>3, <3>1, <3>2
  <2>3. CASE s \in ToSet(topics[t].subs)
    <3>1. /\ owner[s].pc \in {"replay", "subscribed"} /\ ~sub[s].queue.closed
          /\ s \notin ToSet(stop.all) /\ sub[s].topic = t /\ Known(s)
      BY <2>3 DEF OpenShape, TopicShape, Known
    <3>2. ~unsubscribe(s)
      <4>1. ASSUME unsubscribe(s)
            PROVE  FALSE
        <5>1. topics[t].subs \in Seq(Subscribers) /\ topics \in [Topics -> EntryRec]
          BY PubTypes
        <5>2. topics'[t].subs = RemoveFirst(topics[t].subs, s)
          BY <3>1, <4>1, <5>1 DEF unsubscribe, EntryRec
        <5>3. ToSet(topics'[t].subs) = ToSet(topics[t].subs) \ {s}
          BY <5>1, <5>2, RemoveFirstElements DEF ListShape
        <5>4. QED
          BY <1>3, <5>3
      <4>2. QED
        BY <4>1
    <3>3. ~(shutdown_close /\ s = Head(stop.all))
      <4>1. ASSUME shutdown_close, s = Head(stop.all)
            PROVE  FALSE
        <5>1. stop.all # <<>> /\ stop.all \in Seq(Subscribers)
          BY <4>1, StopList DEF shutdown_close, TypeInv, StopShape
        <5>2. s \in ToSet(stop.all)
          BY <4>1, <5>1, ToSetHeadTail
        <5>3. QED
          BY <3>1, <5>2
      <4>2. QED
        BY <4>1
    <3>4. owner'[s].pc \in {"replay", "subscribed"}
      BY <2>1, <3>1, <3>2 DEF SubStep, OwnerSame, OwnerMoves, Replays, Starts, Subscribes
    <3>5. ~Closing(s)
      BY <3>1, <3>3 DEF Closing
    <3>6. QED
      BY <1>2, <1>3, <2>1, <3>1, <3>4, <3>5, QueueSteps
  <2>4. QED
    BY <1>3, <2>2, <2>3, ListSteps
<1>4. ASSUME NEW s \in ToSet(stop'.all)
      PROVE  Known(s)'
  <2>1. s \in Subscribers
    <3>1. stop' \in StopRec
      BY StopSteps DEF StopStep
    <3>2. QED
      BY <1>4, <3>1, ToSetType DEF StopRec
  <2>2. Known(s)
    BY <1>4, StopList DEF OpenShape, AllListed, PromiseInv, ListedShape
  <2>3. QED
    BY <2>1, <2>2, KnownKept
<1>5. QED
  BY <1>3, <1>4 DEF OpenShape


\* A step keeps NumberShape.
LEMMA NumberKept ==
    ASSUME TypeInv, LogShape, NumberShape, [Next]_vars
    PROVE  NumberShape'
<1>1. ASSUME NEW t \in Topics, NEW e \in ToSet(topics'[t].latched)
      PROVE  e.seq > 0
  <2>1. TopicStep(t) /\ topics[t].latched \in Seq(Envelope) /\ topics[t].published \in Nat
    BY AllTopicSteps, PubTypes DEF TopicSteps
  <2>2. CASE topics'[t].latched = topics[t].latched
    BY <1>1, <2>2 DEF NumberShape
  <2>3. CASE topics'[t].latched = <<>>
    BY <1>1, <2>3, ToSetEmpty
  <2>4. ASSUME NEW p \in Publishers, publish_erased(p), t = pub[p].topic,
               topics'[t].latched = Latch(topics[t], NumberedEnv(p), pub[p].qos)
        PROVE  e.seq > 0
    <3> DEFINE v == NumberedEnv(p)
               r == topics[t]
               qos == pub[p].qos
    <3>1. Numbers(p) /\ pub'[p] \in PubRec
      BY <2>4, NumberStep, PublisherSteps DEF PubSteps
    <3>2. v \in Envelope /\ v.seq = topics[t].published + 1
      BY <2>4, <3>1 DEF Numbers, PubRec
    <3>3. qos \in QoS /\ r.latched \in Seq(Envelope)
      BY <2>1, PubTypes
    <3>4. e \in ToSet(Latch(r, v, qos)) /\ r.latched = topics[t].latched
      BY <1>1, <2>4
    <3> HIDE DEF v, r, qos
    <3>5. ToSet(Latch(r, v, qos)) \subseteq ToSet(r.latched) \cup {v}
      BY <3>2, <3>3, LatchProperties
    <3>6. e \in ToSet(topics[t].latched) \/ e = v
      BY <3>4, <3>5
    <3>7. QED
      BY <2>1, <3>2, <3>6 DEF NumberShape
  <2>5. QED
    BY <2>1, <2>2, <2>3, <2>4 DEF TopicStep, SameEntry
<1>2. ASSUME NEW s \in Subscribers, NEW e \in Got(s)'
      PROVE  e.seq > 0
  <2>1. ASSUME NEW p \in Publishers, Gets(s, p)
        PROVE  pub[p].env.seq > 0
    BY <2>1 DEF Gets, TypeInv, PublisherShape
  <2>2. QED
    BY <1>2, <2>1, GotOrigin DEF NumberShape
<1>3. QED
  BY <1>1, <1>2 DEF NumberShape

\* A sequence of messages whose numbers are different from each other and from that of v is
\* shorter than there are numbers.
LEMMA OneMore ==
    ASSUME NEW l \in Seq(Envelope), OneEach(l), \A e \in ToSet(l) : e.seq > 0,
           NEW k \in 1..MaxPublish, \A e \in ToSet(l) : e.seq # k
    PROVE  Len(l) < MaxPublish
<1> DEFINE S == 1..Len(l)
           T == (1..MaxPublish) \ {k}
           f == [i \in S |-> l[i].seq]
<1>1. MaxPublish \in Nat /\ Len(l) \in Nat /\ DOMAIN l = S
  BY BoundsAssumption
<1>2. ASSUME NEW i \in S
      PROVE  l[i].seq \in T
  <2>1. l[i] \in ToSet(l) /\ l[i] \in Envelope
    BY <1>2, InToSet
  <2>2. l[i].seq \in 0..MaxPublish
    BY <2>1 DEF Envelope
  <2>3. l[i].seq > 0 /\ l[i].seq # k
    BY <2>1
  <2>4. QED
    BY <1>1, <2>2, <2>3
<1>3. f \in [S -> T] /\ \A i, j \in S : f[i] = f[j] => i = j
  BY <1>1, <1>2 DEF OneEach
<1>4. IsFiniteSet(T) /\ Cardinality(T) = MaxPublish - 1
  <2>1. IsFiniteSet(1..MaxPublish) /\ Cardinality(1..MaxPublish) = MaxPublish
    BY <1>1, FS_Interval, SMTT(40)
  <2>2. QED
    BY <2>1, FS_RemoveElement
<1>5. Cardinality(S) = Len(l)
  BY <1>1, FS_Interval, SMTT(40)
<1> HIDE DEF S, T, f
<1>6. f \in Injection(S, T)
  BY <1>3 DEF Injection, IsInjective
<1>7. Cardinality(S) <= Cardinality(T)
  BY <1>4, <1>6, FS_Injection
<1>8. QED
  BY <1>1, <1>4, <1>5, <1>7

\* A subscriber that takes everything takes a message that it has not got.
LEMMA Room ==
    ASSUME TypeInv, StatsInv, OnceShape, NumberShape, NEW s \in Subscribers, ~sub[s].queue.closed,
           TakesAll(s), NEW k \in 1..MaxPublish, \A e \in ToSet(accepted[s]) : e.seq # k
    PROVE  ~CannotStore(s)
<1>0. CASE sub[s].queue.policy = "DropOldest"
  BY <1>0 DEF CannotStore
<1> SUFFICES ASSUME sub[s].queue.capacity >= MaxPublish
             PROVE  ~CannotStore(s)
  BY <1>0 DEF TakesAll
<1> DEFINE a == accepted[s]
           r == sub[s]
<1>1. a \in Seq(Envelope) /\ OneEach(a) /\ \A e \in ToSet(a) : e.seq > 0
  BY FourTypes DEF OnceShape, NumberShape, Got
<1>2. Len(a) < MaxPublish
  BY <1>1, OneMore
<1>3. /\ r.delivered \in Nat /\ r.expired \in Nat /\ r.queue \in Queue(Envelope)
      /\ r.queue.items \in Seq(Envelope)
  BY FourTypes DEF SubRec
<1>4. /\ r.queue.dropped \in Nat /\ Len(r.queue.items) \in Nat /\ r.queue.capacity \in Nat
      /\ Len(a) \in Nat
  BY <1>1, <1>3 DEF Queue
<1>5. Len(a) = r.delivered + InHand(r) + r.expired + r.queue.dropped + Len(r.queue.items)
  BY DEF StatsInv, Balanced
<1>6. InHand(r) \in Nat
  BY DEF InHand
<1>7. Len(r.queue.items) <= Len(a)
  <2> DEFINE d == r.delivered
             h == InHand(r)
             x == r.expired
             y == r.queue.dropped
             i == Len(r.queue.items)
             n == Len(a)
  <2>1. /\ d \in Nat /\ h \in Nat /\ x \in Nat /\ y \in Nat /\ i \in Nat /\ n \in Nat
        /\ n = d + h + x + y + i
    BY <1>3, <1>4, <1>5, <1>6
  <2> HIDE DEF d, h, x, y, i, n
  <2>2. i <= n
    BY <2>1
  <2>3. QED
    BY <2>2 DEF i, n
<1> HIDE DEF a
<1>8. Len(r.queue.items) < r.queue.capacity
  BY <1>2, <1>4, <1>7, BoundsAssumption
<1>9. QED
  BY <1>4, <1>8 DEF CannotStore, IsFull


\* A listed subscriber that takes everything loses nothing of what it has got or is to get.
LEMMA GotKept ==
    ASSUME TypeInv, StatsInv, OnceShape, NumberShape, [Next]_vars, NEW s \in Subscribers, Known(s),
           ~sub[s].queue.closed, TakesAll(s), NEW e \in Got(s)
    PROVE  e \in Got(s)'
<1> DEFINE a == accepted[s]
           b == owner[s].backlog
           a1 == accepted'[s]
           b1 == owner'[s].backlog
<1>1. a \in Seq(Envelope) /\ b \in Seq(Envelope)
  BY FourTypes
<1>2. (e \in ToSet(a) \/ e \in ToSet(b)) /\ (e \in ToSet(a1) \/ e \in ToSet(b1) => e \in Got(s)')
  BY DEF Got
<1>3. CASE Keeps(s)
  BY <1>2, <1>3 DEF Keeps
<1>4. ASSUME NEW p \in Publishers, Gets(s, p)
      PROVE  e \in Got(s)'
  <2>1. pub[p].env \in Envelope
    BY PubTypes
  <2>2. ToSet(a1) = ToSet(a) \cup {pub[p].env} /\ b1 = b
    BY <1>1, <1>4, <2>1, ToSetAppend DEF Gets
  <2>3. QED
    BY <1>2, <2>2
<1>5. CASE Takes(s)
  <2> DEFINE h == Head(b)
  <2>1. /\ b # <<>> /\ h \in Envelope /\ ToSet(b) = {h} \cup ToSet(Tail(b)) /\ b1 = Tail(b)
    BY <1>1, <1>5, ToSetHeadTail DEF Takes
  <2>2. h \in ToSet(b)
    BY <2>1
  <2>3. h.seq \in 1..MaxPublish /\ \A f \in ToSet(a) : f.seq # h.seq
    <3>1. h.seq \in 0..MaxPublish
      BY <2>1 DEF Envelope
    <3>2. h.seq > 0 /\ \A f \in ToSet(a) : f.seq # h.seq
      BY <2>2 DEF OnceShape, NumberShape, Got
    <3>3. QED
      BY <3>1, <3>2, BoundsAssumption
  <2>4. ~CannotStore(s)
    <3> HIDE DEF h
    <3>1. QED
      BY <2>3, Room
  <2>5. a1 = Append(a, h)
    BY <1>5, <2>4 DEF Takes, Replays, Receives
  <2> HIDE DEF h, a, a1
  <2>6. ToSet(a1) = ToSet(a) \cup {h}
    BY <1>1, <2>1, <2>5, ToSetAppend
  <2>7. QED
    BY <1>2, <2>1, <2>6
<1>6. QED
  BY <1>3, <1>4, <1>5, GotSteps DEF Copies, StatsInv

\* A message under way to a listed subscriber that takes everything stays so, or gets there.
LEMMA UnderWay ==
    ASSUME TypeInv, StatsInv, OnceInv, NumberShape, PromiseInv, [Next]_vars,
           NEW p \in Publishers, NEW s \in ToSet(pub[p].targets),
           ~sub[s].queue.closed, TakesAll(s)
    PROVE  \/ pub[p].env \in Got(s)'
           \/ pub'[p].env = pub[p].env /\ s \in ToSet(pub'[p].targets)
<1>1. /\ PubStep(p) /\ pub[p].targets \in Seq(Subscribers) /\ pub[p].env \in Envelope
      /\ s \in Subscribers /\ Known(s)
  BY PublisherSteps, PubTypes, TargetsKnown DEF PubSteps
<1>2. pub[p].targets # <<>>
  BY ToSetEmpty
<1>3. pub[p].pc \in {"report", "push"} /\ pub[p].env.seq \in 1..MaxPublish
  BY <1>2 DEF TypeInv, PublisherShape
<1>4. CASE pub'[p] = pub[p]
  BY <1>4
<1>5. CASE Reports(p)
  BY <1>5 DEF Reports, SameCall
<1>6. CASE Pushes(p)
  <2>1. /\ pub'[p].env = pub[p].env /\ pub'[p].targets = Tail(pub[p].targets)
        /\ push_target(p) \/ push_fails(p)
    BY <1>6 DEF Pushes, SameCall
  <2>2. ToSet(pub[p].targets) = {Head(pub[p].targets)} \cup ToSet(Tail(pub[p].targets))
    BY <1>1, <1>2, ToSetHeadTail
  <2>3. CASE s = Head(pub[p].targets)
    <3> DEFINE k == pub[p].env.seq
    <3>1. k \in 1..MaxPublish /\ \A e \in ToSet(accepted[s]) : e.seq # k
      BY <1>1, <1>3 DEF OnceInv, OnceShape, Got
    <3> HIDE DEF k
    <3>2. ~CannotStore(s)
      BY <1>1, <3>1, Room DEF OnceInv
    <3>3. push_target(p)
      BY <2>1, <2>3, <3>2 DEF push_fails
    <3>4. accepted'[s] = Append(accepted[s], pub[p].env)
      BY <1>1, <2>3, <3>3, FourTypes DEF push_target, Store
    <3>5. ToSet(accepted'[s]) = ToSet(accepted[s]) \cup {pub[p].env}
      BY <1>1, <3>4, FourTypes, ToSetAppend
    <3>6. QED
      BY <3>5 DEF Got
  <2>4. QED
    BY <2>1, <2>2, <2>3
<1>7. QED
  BY <1>1, <1>3, <1>4, <1>5, <1>6 DEF PubStep, Advertises, Calls, Numbers, WrongType

\* A step keeps GapShape.
LEMMA GapKept ==
    ASSUME TypeInv, QuietInv, PromiseInv, StatsInv, FromShape, TopicShape, OnceInv, OpenShape, NumberShape,
           GapShape, [Next]_vars
    PROVE  GapShape'
<1> SUFFICES ASSUME NEW t \in Topics, NEW s \in ToSet(topics'[t].subs), Roomy(s)',
                    NEW e \in ToSet(topics'[t].latched)
             PROVE  Reached(e, s)'
  BY DEF GapShape
<1>1. /\ s \in Subscribers /\ TopicStep(t) /\ topics[t].latched \in Seq(Envelope)
      /\ topics[t].subs \in Seq(Subscribers)
  BY ListSteps, AllTopicSteps, PubTypes DEF TopicSteps
<1>2. \/ e \in ToSet(topics[t].latched)
      \/ \E p \in Publishers : publish_erased(p) /\ t = pub[p].topic /\ e = NumberedEnv(p)
  <2>1. ASSUME NEW p \in Publishers, publish_erased(p), t = pub[p].topic,
               topics'[t].latched = Latch(topics[t], NumberedEnv(p), pub[p].qos)
        PROVE  e \in ToSet(topics[t].latched) \/ e = NumberedEnv(p)
    <3> DEFINE v == NumberedEnv(p)
               r == topics[t]
               qos == pub[p].qos
    <3>1. Numbers(p) /\ pub'[p] \in PubRec
      BY <2>1, NumberStep, PublisherSteps DEF PubSteps
    <3>2. v \in Envelope
      BY <3>1 DEF Numbers, PubRec
    <3>3. qos \in QoS /\ r.latched \in Seq(Envelope)
      BY <1>1, PubTypes
    <3>4. e \in ToSet(Latch(r, v, qos))
      BY <2>1
    <3> HIDE DEF v, r, qos
    <3>5. ToSet(Latch(r, v, qos)) \subseteq ToSet(r.latched) \cup {v}
      BY <3>2, <3>3, LatchProperties
    <3>6. QED
      BY <3>4, <3>5 DEF r, v
  <2>2. CASE topics'[t].latched = <<>>
    BY <2>2, ToSetEmpty
  <2>3. CASE topics'[t].latched = topics[t].latched
    BY <2>3
  <2>4. QED
    BY <1>1, <2>1, <2>2, <2>3 DEF TopicStep, SameEntry
<1>3. ASSUME NEW type \in Types, NEW qos \in Requested, Subscribes(s, t, type, qos)
      PROVE  Reached(e, s)'
  <2>1. owner'[s].pc # owner[s].pc /\ sub'[s].qos = qos
    BY <1>3 DEF Subscribes
  <2>2. ASSUME NEW p \in Publishers, publish_erased(p)
        PROVE  FALSE
    <3>1. UNCHANGED owner
      BY <2>2 DEF publish_erased
    <3>2. QED
      BY <2>1, <3>1, SMTT(40)
  <2>3. owner'[s].backlog = topics[t].latched
    BY <1>3, <2>1 DEF Subscribes, Roomy
  <2>4. QED
    BY <1>2, <2>2, <2>3 DEF Reached, Got
<1>4. CASE s \in ToSet(topics[t].subs)
  <2>1. /\ Known(s) /\ ~sub[s].queue.closed /\ sub[s].topic = t
    BY <1>4 DEF PromiseInv, ListedShape, OpenShape, TopicShape
  <2>2. Roomy(s)
    BY <1>1, <2>1, KnownKept, QueueSteps DEF Roomy, TakesAll, SameSetup
  <2>3. TakesAll(s)
    BY <2>2 DEF Roomy
  <2>4. CASE e \in ToSet(topics[t].latched)
    <3>1. Reached(e, s) /\ e.from \in Publishers /\ pub[e.from].pc # "none"
      BY <1>4, <2>2, <2>4 DEF GapShape, OnceInv, LatchShape
    <3>2. CASE ~Matches(e.from, s)
      BY <1>1, <2>1, <3>1, <3>2, MatchKept DEF Reached
    <3>3. CASE e \in Got(s)
      BY <1>1, <2>1, <2>3, <3>3, GotKept DEF Reached, OnceInv
    <3>4. CASE pub[e.from].env = e /\ s \in ToSet(pub[e.from].targets)
      BY <2>1, <2>3, <3>1, <3>4, UnderWay DEF Reached
    <3>5. QED
      BY <3>1, <3>2, <3>3, <3>4 DEF Reached
  <2>5. ASSUME NEW p \in Publishers, publish_erased(p), t = pub[p].topic, e = NumberedEnv(p)
        PROVE  Reached(e, s)'
    <3>1. Numbers(p)
      BY <2>5, NumberStep
    <3>2. /\ pub[p].pc = "lock" /\ pub'[p].env = e /\ pub'[p].targets = TargetsOf(p)
          /\ e.from = p
      BY <2>5, <3>1 DEF Numbers, FromShape
    <3>3. CASE s \in RejectedBy(p)
      <4>1. ~Matches(p, s)
        BY <3>3 DEF RejectedBy, Matches
      <4>2. ~Matches(p, s)'
        BY <1>1, <2>1, <3>2, <4>1, MatchKept
      <4>3. QED
        BY <3>2, <4>2 DEF Reached
    <3>4. CASE s \notin RejectedBy(p)
      <4>1. s \in ToSet(TargetsOf(p))
        BY <1>1, <1>4, <2>5, <3>4, OnlyElements DEF TargetsOf
      <4>2. QED
        BY <3>2, <4>1 DEF Reached
    <3>5. QED
      BY <3>3, <3>4
  <2>6. QED
    BY <1>2, <2>4, <2>5
<1>5. QED
  BY <1>3, <1>4, ListSteps


GapInv == OpenShape /\ NumberShape /\ GapShape

\* A step keeps GapInv.
LEMMA GapStep == BusInv /\ GapInv /\ [Next]_vars => GapInv'
<1> SUFFICES ASSUME BusInv, GapInv, [Next]_vars
             PROVE  GapInv'
  OBVIOUS
<1>1. /\ TypeInv /\ QuietInv /\ PromiseInv /\ StatsInv /\ LogShape /\ FromShape /\ TopicShape
      /\ OnceInv /\ ListShape
  BY DEF BusInv, StatsInv, OffersInv, OnceInv
<1>2. OpenShape /\ NumberShape /\ GapShape
  BY DEF GapInv
<1>3. OpenShape'
  BY <1>1, <1>2, OpenKept
<1>4. NumberShape'
  BY <1>1, <1>2, NumberKept
<1>5. GapShape'
  BY <1>1, <1>2, GapKept
<1>6. QED
  BY <1>3, <1>4, <1>5 DEF GapInv

\* GapInv holds when the bus has been made.
LEMMA GapInit == Init => GapInv
<1> SUFFICES ASSUME Init
             PROVE  GapInv
  OBVIOUS
<1>1. /\ \A s \in Subscribers : accepted[s] = <<>> /\ owner[s].backlog = <<>>
      /\ \A t \in Topics : topics[t] = Entry0
      /\ stop.all = <<>>
  BY DEF Init
<1>2. Entry0.subs = <<>> /\ Entry0.latched = <<>>
  BY DEF Entry0
<1>3. QED
  BY <1>1, <1>2, ToSetEmpty DEF GapInv, OpenShape, NumberShape, GapShape, Got

\* No message reaches a subscriber twice, and a subscriber that asked for the past and takes
\* all of it lacks no latched message of a publisher it matches, although subscribe() and
\* publish() push outside the lock and the subscriber may come at any moment; and while the
\* latch holds a message it holds every later one of a publisher that latches.
THEOREM OnceHolds == Spec => []OnceAndNoGap
<1>1. Spec => [](BusInv /\ HistoryInv /\ GapInv)
  BY BusInvariant, HistoryInit, HistoryStep, GapInit, GapStep, PTL DEF Spec
<1>2. BusInv /\ HistoryInv /\ GapInv => OnceAndNoGap
  <2> SUFFICES ASSUME BusInv, HistoryInv, GapInv
               PROVE  OnceAndNoGap
    OBVIOUS
  <2>1. ASSUME NEW p \in Publishers, pub[p].pc # "none", pub[p].qos.durability = "TransientLocal"
        PROVE  NotSkipped(p)
    BY <2>1 DEF HistoryInv, NewestShape
  <2>2. ASSUME NEW s \in Subscribers
        PROVE  OneEach(accepted[s])
    BY DEF BusInv, OnceInv, OnceShape
  <2>3. ASSUME NEW s \in Subscribers, owner[s].pc = "subscribed", s \in AllListed, Roomy(s),
               NEW e \in ToSet(topics[sub[s].topic].latched)
        PROVE  \/ check_compatible(pub[e.from].qos, sub[s].qos) # "None"
               \/ e \in ToSet(accepted[s])
               \/ pub[e.from].env = e /\ s \in ToSet(pub[e.from].targets)
    <3>1. PICK t \in Topics : s \in ToSet(topics[t].subs)
      BY <2>3 DEF AllListed
    <3>2. sub[s].topic = t
      BY <3>1 DEF BusInv, OffersInv, TopicShape
    <3>3. Reached(e, s)
      BY <2>3, <3>1, <3>2 DEF GapInv, GapShape
    <3>4. owner[s].backlog = <<>>
      BY <2>3 DEF BusInv, TypeInv, SubscriberShape
    <3>5. QED
      BY <3>3, <3>4, ToSetEmpty DEF Reached, Matches, Got
  <2>4. QED
    BY <2>1, <2>2, <2>3 DEF OnceAndNoGap, NotSkipped, OneEach, Roomy, TakesAll
<1>3. QED
  BY <1>1, <1>2, PTL
=============================================================================
