-------------------------- MODULE ThreadPoolProofs --------------------------
(***************************************************************************)
(* Theorems about BoundedQueue, for every set of threads, capacity, policy *)
(* and number of pushes, and about ThreadPool, for any number of workers,  *)
(* posting and stopping threads, any capacity and any number of tasks.     *)
(* What the pool does to its queue is what BoundedQueue allows             *)
(* (PoolUsesQueue), so that the theorems about the queue hold of it.       *)
(***************************************************************************)
EXTENDS ThreadPool, DataLemmas

USE ArgsAssumption

-----------------------------------------------------------------------------
(* Notifications. *)

\* notify_one changes no thread but one that waits, which it wakes.
LEMMA NotifyOneType ==
    ASSUME NEW T, NEW pc \in [T -> Waiter], NEW pc2 \in NotifyOne(pc)
    PROVE  /\ pc2 \in [T -> Waiter]
           /\ \A t \in T : pc2[t] = "idle" <=> pc[t] = "idle"
           /\ \A t \in T : pc2[t] = "expired" => pc[t] = "expired"
BY DEF NotifyOne, Waiting, Waiter

\* notify_all leaves every thread somewhere it can be.
LEMMA NotifyAllType ==
    ASSUME NEW T, NEW pc \in [T -> Waiter]
    PROVE  /\ NotifyAll(pc) \in [T -> Waiter]
           /\ \A t \in T : NotifyAll(pc)[t] = "idle" <=> pc[t] = "idle"
           /\ \A t \in T : NotifyAll(pc)[t] = "expired" => pc[t] = "expired"
           /\ Waiting(NotifyAll(pc)) = {}
BY DEF NotifyAll, Waiting, Waiter

-----------------------------------------------------------------------------
(* Types. *)

\* The parts of TypeOK that an action touches.
QueueOK == q \in Queue(Ids) /\ Len(q.items) <= q.highWater /\ q.highWater <= q.capacity
PushersOK ==
    /\ ppc \in [Producers -> Waiter] /\ pmode \in [Producers -> PushModes]
    /\ pval \in [Producers -> Ids \cup {0}]
    /\ \A p \in Producers : ppc[p] # "idle" => pval[p] \in 1..issued
PoppersOK == cpc \in [Consumers -> Waiter] /\ cmode \in [Consumers -> PopModes]
ClosersOK == kpc \in [Closers -> {"idle", "notify_empty", "notify_full"}]
HistoryOK ==
    /\ issued \in 0..MaxPush
    /\ outcome \in [Ids -> PushStatus \cup {"none"}]
    /\ accepted \in Seq(Ids) /\ removed \in Seq(Ids)
    /\ popped \in Nat /\ cleared \in Nat /\ ended \in BOOLEAN

\* TypeOK by its parts, so that a step need only look at those it disturbs.
LEMMA TypeParts == TypeOK <=> QueueOK /\ PushersOK /\ PoppersOK /\ ClosersOK /\ HistoryOK
BY DEF TypeOK, QueueOK, PushersOK, PoppersOK, ClosersOK, HistoryOK

\* The same after a step.
LEMMA TypePartsNext ==
    TypeOK' <=> QueueOK' /\ PushersOK' /\ PoppersOK' /\ ClosersOK' /\ HistoryOK'
BY DEF TypeOK, QueueOK, PushersOK, PoppersOK, ClosersOK, HistoryOK

\* A freshly constructed queue, nobody inside it, is well typed.
LEMMA TypeInit == Init => TypeOK
<1> SUFFICES ASSUME Init PROVE TypeOK
  OBVIOUS
<1>1. QueueOK
  <2>1. PICK c \in Capacities, pol \in Policies : q = NewQueue(c, pol)
    BY DEF Init
  <2> DEFINE cap == IF c = 0 THEN 1 ELSE c
  <2>2. cap \in Nat \ {0} /\ pol \in OverflowPolicy
    OBVIOUS
  <2>3. q = [items |-> <<>>, closed |-> FALSE, dropped |-> 0, highWater |-> 0,
             capacity |-> cap, policy |-> pol]
    BY <2>1 DEF NewQueue
  <2>4. <<>> \in Seq(Ids) /\ Len(<<>>) = 0
    OBVIOUS
  <2> HIDE DEF cap
  <2>5. q \in Queue(Ids)
    BY <2>2, <2>3, <2>4 DEF Queue
  <2>6. Len(q.items) = 0 /\ q.highWater = 0 /\ q.capacity = cap
    BY <2>3, <2>4
  <2>7. QED
    BY <2>2, <2>5, <2>6 DEF QueueOK
<1>2. PushersOK
  BY DEF Init, PushersOK, Waiter, PushModes
<1>3. PoppersOK /\ ClosersOK
  BY DEF Init, PoppersOK, ClosersOK, Waiter, PopModes
<1>4. HistoryOK
  <2>1. <<>> \in Seq(Ids)
    OBVIOUS
  <2>2. outcome \in [Ids -> PushStatus \cup {"none"}]
    BY DEF Init
  <2>3. issued \in 0..MaxPush /\ popped \in Nat /\ cleared \in Nat
    BY DEF Init
  <2>4. QED
    BY <2>1, <2>2, <2>3 DEF Init, HistoryOK
<1>5. QED
  BY <1>1, <1>2, <1>3, <1>4, TypeParts

\* A push that returns leaves the producers and the outcomes well typed.
LEMMA PushReturnsType ==
    ASSUME TypeOK, NEW p \in Producers, NEW v \in Ids, NEW st \in PushStatus,
           PushReturns(p, v, st), pmode' \in [Producers -> PushModes],
           issued' \in Nat, issued' >= issued
    PROVE  PushersOK' /\ outcome' \in [Ids -> PushStatus \cup {"none"}]
<1>1. PushersOK /\ HistoryOK
  BY TypeParts
<1>2. outcome' \in [Ids -> PushStatus \cup {"none"}]
  BY <1>1 DEF HistoryOK, PushReturns
<1>3. ppc' \in [Producers -> Waiter] /\ pval' \in [Producers -> Ids \cup {0}]
  BY <1>1 DEF PushersOK, PushReturns, Waiter
<1>4. ASSUME NEW r \in Producers, ppc'[r] # "idle" PROVE pval'[r] \in 1..issued'
  BY <1>1, <1>4 DEF PushersOK, PushReturns, HistoryOK
<1>5. QED
  BY <1>2, <1>3, <1>4 DEF PushersOK

\* Every way a push can end, or start to wait, keeps the types.
LEMMA PushEndsType ==
    ASSUME TypeOK, NEW p \in Producers, NEW v \in Ids,
           pmode' \in [Producers -> PushModes],
           issued' \in 0..MaxPush, issued' >= issued, v <= issued',
           UNCHANGED <<cmode, kpc, popped, cleared, ended>>,
           \/ ~IsFull(q) /\ Insert(p, v)
           \/ DropNewest(p, v)
           \/ IsFull(q) /\ DropOldest(p, v)
           \/ \E st \in PushStatus : Refuse(p, v, st)
           \/ WaitForSpace(p, v)
    PROVE  TypeOK'
<1>1. QueueOK /\ PushersOK /\ PoppersOK /\ ClosersOK /\ HistoryOK
  BY TypeParts
<1>2. ClosersOK' /\ issued' \in Nat
  BY <1>1 DEF ClosersOK
<1>3. CASE ~IsFull(q) /\ Insert(p, v)
  <2>1. QueueOK'
    <3>1. q' = Enqueue(q, v) /\ q' \in Queue(Ids)
      BY <1>1, <1>3, EnqueueProperties DEF Insert, QueueOK
    <3>2. /\ Len(q.items) \in Nat /\ q.highWater \in Nat /\ q.capacity \in Nat
          /\ Len(q.items) < q.capacity
      BY <1>1, <1>3 DEF QueueOK, Queue, IsFull
    <3>3. /\ Len(q'.items) = Len(q.items) + 1 /\ q'.capacity = q.capacity
          /\ q'.highWater = IF Len(q.items) + 1 > q.highWater
                            THEN Len(q.items) + 1 ELSE q.highWater
      BY <1>1, <3>1, EnqueueProperties DEF QueueOK
    <3>4. QED
      BY <1>1, <3>1, <3>2, <3>3 DEF QueueOK
  <2>2. PoppersOK'
    BY <1>1, <1>3, NotifyOneType DEF Insert, PoppersOK
  <2>3. PushersOK' /\ outcome' \in [Ids -> PushStatus \cup {"none"}]
    BY <1>2, <1>3, PushReturnsType DEF Insert, PushStatus
  <2>4. HistoryOK'
    BY <1>1, <1>3, <2>3 DEF Insert, HistoryOK
  <2>5. QED
    BY <1>2, <2>1, <2>2, <2>3, <2>4, TypePartsNext
<1>4. CASE DropNewest(p, v)
  <2>1. QueueOK'
    BY <1>1, <1>4, RejectNewestProperties DEF DropNewest, QueueOK
  <2>2. PoppersOK'
    BY <1>1, <1>4 DEF DropNewest, PoppersOK
  <2>3. PushersOK' /\ outcome' \in [Ids -> PushStatus \cup {"none"}]
    BY <1>2, <1>4, PushReturnsType DEF DropNewest, PushStatus
  <2>4. HistoryOK'
    BY <1>1, <1>4, <2>3 DEF DropNewest, HistoryOK
  <2>5. QED
    BY <1>2, <2>1, <2>2, <2>3, <2>4, TypePartsNext
<1>5. CASE IsFull(q) /\ DropOldest(p, v)
  <2>1. q.items # <<>> /\ Head(q.items) \in Ids
    BY <1>1, <1>5, FullIsNotEmpty, DequeueProperties DEF QueueOK
  <2>2. QueueOK'
    BY <1>1, <1>5, <2>1, EvictEnqueueProperties DEF DropOldest, QueueOK
  <2>3. PoppersOK'
    BY <1>1, <1>5, NotifyOneType DEF DropOldest, PoppersOK
  <2>4. PushersOK' /\ outcome' \in [Ids -> PushStatus \cup {"none"}]
    BY <1>2, <1>5, PushReturnsType DEF DropOldest, PushStatus
  <2>5. HistoryOK'
    BY <1>1, <1>5, <2>1, <2>4 DEF DropOldest, HistoryOK
  <2>6. QED
    BY <1>2, <2>2, <2>3, <2>4, <2>5, TypePartsNext
<1>6. CASE \E st \in PushStatus : Refuse(p, v, st)
  <2>1. PushersOK' /\ outcome' \in [Ids -> PushStatus \cup {"none"}]
    BY <1>2, <1>6, PushReturnsType DEF Refuse
  <2>2. QueueOK' /\ PoppersOK' /\ HistoryOK'
    BY <1>1, <1>6, <2>1 DEF Refuse, QueueOK, PoppersOK, HistoryOK
  <2>3. QED
    BY <1>2, <2>1, <2>2, TypePartsNext
<1>7. CASE WaitForSpace(p, v)
  <2>1. PushersOK'
    BY <1>1, <1>7 DEF WaitForSpace, PushersOK, HistoryOK, Waiter, Ids
  <2>2. QueueOK' /\ PoppersOK' /\ HistoryOK'
    BY <1>1, <1>7 DEF WaitForSpace, QueueOK, PoppersOK, HistoryOK
  <2>3. QED
    BY <1>2, <2>1, <2>2, TypePartsNext
<1>8. QED
  BY <1>3, <1>4, <1>5, <1>6, <1>7

\* Every way a pop can end, or start to wait, keeps the types.
LEMMA PopEndsType ==
    ASSUME TypeOK, NEW c \in Consumers, NEW mode, cmode' \in [Consumers -> PopModes],
           UNCHANGED <<pmode, pval, kpc, issued, outcome, accepted, cleared>>,
           Take(c) \/ PopNothing(c, mode) \/ WaitForItem(c)
    PROVE  TypeOK'
<1>1. QueueOK /\ PushersOK /\ PoppersOK /\ ClosersOK /\ HistoryOK
  BY TypeParts
<1>2. ClosersOK'
  BY <1>1 DEF ClosersOK
<1>3. CASE Take(c)
  <2>1. QueueOK' /\ Head(q.items) \in Ids
    <3>1. /\ q' \in Queue(Ids) /\ Len(q'.items) = Len(q.items) - 1
          /\ q'.highWater = q.highWater /\ q'.capacity = q.capacity
          /\ Head(q.items) \in Ids
      BY <1>1, <1>3, DequeueProperties DEF Take, QueueOK
    <3>2. Len(q.items) \in Nat /\ q.highWater \in Nat
      BY <1>1 DEF QueueOK, Queue
    <3>3. QED
      BY <1>1, <3>1, <3>2 DEF QueueOK
  <2>2. PoppersOK'
    BY <1>1, <1>3 DEF Take, PoppersOK, Waiter
  <2>3. PushersOK'
    <3>1. /\ ppc' \in [Producers -> Waiter]
          /\ \A p \in Producers : ppc'[p] = "idle" <=> ppc[p] = "idle"
      BY <1>1, <1>3, NotifyOneType DEF Take, PushersOK
    <3>2. QED
      BY <1>1, <3>1 DEF PushersOK
  <2>4. HistoryOK'
    BY <1>1, <1>3, <2>1 DEF Take, HistoryOK
  <2>5. QED
    BY <1>2, <2>1, <2>2, <2>3, <2>4, TypePartsNext
<1>4. CASE PopNothing(c, mode)
  <2>1. PoppersOK'
    BY <1>1, <1>4 DEF PopNothing, PoppersOK, Waiter
  <2>2. QueueOK' /\ PushersOK'
    BY <1>1, <1>4 DEF PopNothing, QueueOK, PushersOK
  <2>3. ended' \in BOOLEAN
    BY <1>4 DEF PopNothing
  <2>4. HistoryOK'
    BY <1>1, <1>4, <2>3 DEF PopNothing, HistoryOK
  <2>5. QED
    BY <1>2, <2>1, <2>2, <2>4, TypePartsNext
<1>5. CASE WaitForItem(c)
  <2>1. PoppersOK'
    BY <1>1, <1>5 DEF WaitForItem, PoppersOK, Waiter
  <2>2. QueueOK' /\ PushersOK' /\ HistoryOK'
    BY <1>1, <1>5 DEF WaitForItem, QueueOK, PushersOK, HistoryOK
  <2>3. QED
    BY <1>2, <2>1, <2>2, TypePartsNext
<1>6. QED
  BY <1>3, <1>4, <1>5

\* Every action keeps the types and the bounds on items_ and high_water_.
LEMMA TypeNext == TypeOK /\ [Next]_vars => TypeOK'
<1> SUFFICES ASSUME TypeOK, [Next]_vars PROVE TypeOK'
  OBVIOUS
<1>0. QueueOK /\ PushersOK /\ PoppersOK /\ ClosersOK /\ HistoryOK
  BY TypeParts
<1>1. ASSUME NEW p \in Producers, NEW mode \in PushModes, push_until(p, mode)
      PROVE  TypeOK'
  <2> DEFINE v == issued + 1
  <2>1. /\ v \in Ids /\ issued' = v /\ issued' \in 0..MaxPush /\ issued' >= issued
        /\ v <= issued'
    BY <1>0, <1>1 DEF push_until, HistoryOK, Ids
  <2>2. pmode' \in [Producers -> PushModes] /\ UNCHANGED <<cmode, kpc, popped, cleared, ended>>
    BY <1>0, <1>1 DEF push_until, PushersOK
  <2>3. \/ ~IsFull(q) /\ Insert(p, v)
        \/ DropNewest(p, v)
        \/ IsFull(q) /\ DropOldest(p, v)
        \/ \E st \in PushStatus : Refuse(p, v, st)
        \/ WaitForSpace(p, v)
    BY <1>1 DEF push_until, PushStatus
  <2> HIDE DEF v
  <2>4. QED
    BY <2>1, <2>2, <2>3, PushEndsType
<1>2. ASSUME NEW p \in Producers, wait_for_space(p)
      PROVE  TypeOK'
  <2>1. /\ pval[p] \in Ids /\ issued' \in 0..MaxPush /\ issued' >= issued
        /\ pval[p] <= issued'
    BY <1>0, <1>2 DEF wait_for_space, HistoryOK, PushersOK, Ids
  <2>2. pmode' \in [Producers -> PushModes] /\ UNCHANGED <<cmode, kpc, popped, cleared, ended>>
    BY <1>0, <1>2 DEF wait_for_space, PushersOK
  <2>3. \/ ~IsFull(q) /\ Insert(p, pval[p])
        \/ \E st \in PushStatus : Refuse(p, pval[p], st)
        \/ WaitForSpace(p, pval[p])
    BY <1>2 DEF wait_for_space, PushStatus, StoreAfterWait
  <2>4. QED
    BY <2>1, <2>2, <2>3, PushEndsType
<1>3. ASSUME NEW c \in Consumers, NEW mode \in PopModes, pop_until(c, mode)
      PROVE  TypeOK'
  <2>1. /\ cmode' \in [Consumers -> PopModes]
        /\ UNCHANGED <<pmode, pval, kpc, issued, outcome, accepted, cleared>>
    BY <1>0, <1>3 DEF pop_until, PoppersOK
  <2>2. Take(c) \/ PopNothing(c, mode) \/ WaitForItem(c)
    BY <1>3 DEF pop_until
  <2>3. QED
    BY <2>1, <2>2, PopEndsType
<1>4. ASSUME NEW c \in Consumers, wait_for_item(c)
      PROVE  TypeOK'
  <2>1. /\ cmode' \in [Consumers -> PopModes]
        /\ UNCHANGED <<pmode, pval, kpc, issued, outcome, accepted, cleared>>
    BY <1>0, <1>4 DEF wait_for_item, PoppersOK
  <2>2. Take(c) \/ PopNothing(c, cmode[c]) \/ WaitForItem(c)
    BY <1>4 DEF wait_for_item
  <2>3. QED
    BY <2>1, <2>2, PopEndsType
<1>5. ASSUME NEW k \in Closers, close(k)
      PROVE  TypeOK'
  <2>1. QueueOK'
    BY <1>0, <1>5, CloseQueueProperties DEF close, QueueOK
  <2>2. PushersOK' /\ PoppersOK' /\ ClosersOK' /\ HistoryOK'
    BY <1>0, <1>5 DEF close, PushersOK, PoppersOK, ClosersOK, HistoryOK, history
  <2>3. QED
    BY <2>1, <2>2, TypePartsNext
<1>6. ASSUME NEW k \in Closers, close_notify_empty(k)
      PROVE  TypeOK'
  <2>1. PoppersOK'
    BY <1>0, <1>6, NotifyAllType DEF close_notify_empty, PoppersOK
  <2>2. QueueOK' /\ PushersOK' /\ ClosersOK' /\ HistoryOK'
    BY <1>0, <1>6
    DEF close_notify_empty, QueueOK, PushersOK, ClosersOK, HistoryOK, history
  <2>3. QED
    BY <2>1, <2>2, TypePartsNext
<1>7. ASSUME NEW k \in Closers, close_notify_full(k)
      PROVE  TypeOK'
  <2>1. PushersOK'
    BY <1>0, <1>7, NotifyAllType DEF close_notify_full, PushersOK, history
  <2>2. QueueOK' /\ PoppersOK' /\ ClosersOK' /\ HistoryOK'
    BY <1>0, <1>7
    DEF close_notify_full, QueueOK, PoppersOK, ClosersOK, HistoryOK, history
  <2>3. QED
    BY <2>1, <2>2, TypePartsNext
<1>8. ASSUME clear
      PROVE  TypeOK'
  <2>1. QueueOK'
    <3>1. /\ q' \in Queue(Ids) /\ q'.items = <<>>
          /\ q'.highWater = q.highWater /\ q'.capacity = q.capacity
      BY <1>0, <1>8, ClearQueueProperties DEF clear, QueueOK
    <3>2. q.highWater \in Nat /\ Len(<<>>) = 0
      BY <1>0 DEF QueueOK, Queue
    <3>3. QED
      BY <1>0, <3>1, <3>2 DEF QueueOK
  <2>2. PushersOK'
    BY <1>0, <1>8, NotifyAllType DEF clear, PushersOK
  <2>3. PoppersOK' /\ ClosersOK'
    BY <1>0, <1>8 DEF clear, PoppersOK, ClosersOK
  <2>4. HistoryOK'
    <3>1. q.items \in Seq(Ids) /\ Len(q.items) \in Nat
      BY <1>0 DEF QueueOK, Queue
    <3>2. QED
      BY <1>0, <1>8, <3>1 DEF clear, HistoryOK
  <2>5. QED
    BY <2>1, <2>2, <2>3, <2>4, TypePartsNext
<1>9. ASSUME Timeout \/ SpuriousWakeup
      PROVE  TypeOK'
  <2>1. PushersOK'
    BY <1>0, <1>9 DEF Timeout, SpuriousWakeup, PushersOK, Waiter, history
  <2>2. PoppersOK'
    BY <1>0, <1>9 DEF Timeout, SpuriousWakeup, PoppersOK, Waiter
  <2>3. QueueOK' /\ ClosersOK' /\ HistoryOK'
    BY <1>0, <1>9 DEF Timeout, SpuriousWakeup, QueueOK, ClosersOK, HistoryOK, history
  <2>4. QED
    BY <2>1, <2>2, <2>3, TypePartsNext
<1>10. CASE UNCHANGED vars
  BY <1>0, <1>10, TypePartsNext
  DEF vars, QueueOK, PushersOK, PoppersOK, ClosersOK, HistoryOK
<1>11. QED
  BY <1>1, <1>2, <1>3, <1>4, <1>5, <1>6, <1>7, <1>8, <1>9, <1>10 DEF Next

\* Every member keeps its type, and items_ never exceeds capacity_, whatever the
\* threads do.
THEOREM TypeCorrect == Spec => []TypeOK
BY TypeInit, TypeNext, PTL DEF Spec

-----------------------------------------------------------------------------
(* Wakeups.  While anybody waits, at least n threads are on their way to the *)
(* mutex; the queue keeps n above the number of free slots, or of items.     *)

Covered(pc, n) == Waiting(pc) # {} => Cardinality(Awake(pc)) >= n

\* The threads awake in a condition variable are finitely many.
LEMMA AwakeFinite ==
    ASSUME NEW T, IsFiniteSet(T), NEW pc \in [T -> Waiter]
    PROVE  IsFiniteSet(Awake(pc)) /\ Cardinality(Awake(pc)) \in Nat
<1>1. Awake(pc) \subseteq T
  BY DEF Awake
<1>2. QED
  BY <1>1, FS_Subset, FS_CardinalityType

\* Nothing to cover.
LEMMA CoverNothing ==
    ASSUME NEW T, IsFiniteSet(T), NEW pc \in [T -> Waiter], NEW n \in Int, n <= 0
    PROVE  Covered(pc, n)
BY AwakeFinite DEF Covered

\* Covering n slots covers any smaller number.
LEMMA CoverLess ==
    ASSUME NEW T, IsFiniteSet(T), NEW pc \in [T -> Waiter], NEW n \in Int, NEW m \in Int,
           m <= n, Covered(pc, n)
    PROVE  Covered(pc, m)
BY AwakeFinite DEF Covered

\* A thread that leaves the call was at most one of those on their way.
LEMMA CoverReturn ==
    ASSUME NEW T, IsFiniteSet(T), NEW pc \in [T -> Waiter], NEW t \in T, pc[t] # "wait",
           NEW n \in Int, Covered(pc, n)
    PROVE  /\ Covered([pc EXCEPT ![t] = "idle"], n - 1)
           /\ Waiting([pc EXCEPT ![t] = "idle"]) = Waiting(pc)
<1> DEFINE pc2 == [pc EXCEPT ![t] = "idle"]
<1>1. pc2 \in [T -> Waiter] /\ Waiting(pc2) = Waiting(pc)
  BY DEF Waiting, Waiter
<1>2. Awake(pc2) = Awake(pc) \ {t}
  BY DEF Awake
<1>3. IsFiniteSet(Awake(pc)) /\ Cardinality(Awake(pc)) \in Nat
  BY AwakeFinite
<1> HIDE DEF pc2
<1>4. Cardinality(Awake(pc2)) >= Cardinality(Awake(pc)) - 1
  <2>1. CASE t \in Awake(pc)
    <3>1. Cardinality(Awake(pc) \ {t}) = Cardinality(Awake(pc)) - 1
      BY <1>3, <2>1, FS_RemoveElement
    <3>2. Cardinality(Awake(pc2)) = Cardinality(Awake(pc)) - 1
      BY <1>2, <3>1, Zenon
    <3>3. QED
      BY <1>3, <3>2
  <2>2. CASE t \notin Awake(pc)
    <3>1. Awake(pc2) = Awake(pc)
      BY <1>2, <2>2
    <3>2. QED
      BY <1>3, <3>1
  <2>3. QED
    BY <2>1, <2>2
<1>5. Cardinality(Awake(pc2)) \in Nat
  BY <1>1, AwakeFinite
<1>6. Covered(pc2, n - 1)
  BY <1>1, <1>3, <1>4, <1>5 DEF Covered
<1>7. QED
  BY <1>1, <1>6 DEF pc2

\* A thread that stops waiting joins them.
LEMMA CoverWake ==
    ASSUME NEW T, IsFiniteSet(T), NEW pc \in [T -> Waiter], NEW t \in T, pc[t] = "wait",
           NEW x \in {"woken", "expired"}, NEW n \in Int, Covered(pc, n)
    PROVE  /\ Covered([pc EXCEPT ![t] = x], n + 1)
           /\ Waiting([pc EXCEPT ![t] = x]) \subseteq Waiting(pc)
<1> DEFINE pc2 == [pc EXCEPT ![t] = x]
<1>1. pc2 \in [T -> Waiter] /\ Waiting(pc2) \subseteq Waiting(pc) /\ Waiting(pc) # {}
  BY DEF Waiting, Waiter
<1>2. Awake(pc2) = Awake(pc) \cup {t} /\ t \notin Awake(pc)
  BY DEF Awake
<1>3. IsFiniteSet(Awake(pc)) /\ Cardinality(Awake(pc)) \in Nat
  BY AwakeFinite
<1>4. Cardinality(Awake(pc2)) = Cardinality(Awake(pc)) + 1
  BY <1>2, <1>3, FS_AddElement
<1> HIDE DEF pc2
<1>5. Covered(pc2, n + 1)
  BY <1>1, <1>3, <1>4 DEF Covered
<1>6. QED
  BY <1>1, <1>5 DEF pc2

\* notify_one covers one more.
LEMMA CoverNotifyOne ==
    ASSUME NEW T, IsFiniteSet(T), NEW pc \in [T -> Waiter], NEW pc2 \in NotifyOne(pc),
           NEW n \in Int, Covered(pc, n)
    PROVE  Covered(pc2, n + 1) /\ Waiting(pc2) \subseteq Waiting(pc)
<1>1. CASE Waiting(pc) = {}
  BY <1>1 DEF NotifyOne, Covered
<1>2. CASE Waiting(pc) # {}
  <2>1. PICK t \in Waiting(pc) : pc2 = [pc EXCEPT ![t] = "woken"]
    BY <1>2 DEF NotifyOne
  <2>2. t \in T /\ pc[t] = "wait"
    BY DEF Waiting
  <2>3. QED
    BY <2>1, <2>2, CoverWake
<1>3. QED
  BY <1>1, <1>2

\* NoLostWakeup, part by part.
Free == q.capacity - Len(q.items)
SpaceCovered == ~q.closed => Covered(ppc, Free)
ItemsCovered == ~q.closed => Covered(cpc, Len(q.items))
CloserWakesPoppers ==
    q.closed /\ Waiting(cpc) # {} => \E k \in Closers : kpc[k] = "notify_empty"
CloserWakesPushers ==
    q.closed /\ Waiting(ppc) # {} => \E k \in Closers : kpc[k] # "idle"

\* NoLostWakeup by its parts.
LEMMA WakeupParts ==
    NoLostWakeup <=> /\ SpaceCovered /\ ItemsCovered
                     /\ CloserWakesPoppers /\ CloserWakesPushers
BY DEF NoLostWakeup, SpaceCovered, ItemsCovered, CloserWakesPoppers, CloserWakesPushers,
       Covered, Free

\* The same after a step.
LEMMA WakeupPartsNext ==
    NoLostWakeup' <=> /\ SpaceCovered' /\ ItemsCovered'
                      /\ CloserWakesPoppers' /\ CloserWakesPushers'
BY DEF NoLostWakeup, SpaceCovered, ItemsCovered, CloserWakesPoppers, CloserWakesPushers,
       Covered, Free

\* Nobody waits at first.
LEMMA WakeupInit == Init => NoLostWakeup
BY DEF Init, NoLostWakeup, Waiting

\* A push that ends, or starts to wait, loses no wakeup.
LEMMA PushEndsWakeup ==
    ASSUME TypeOK, TypeOK', NoLostWakeup, NEW p \in Producers, ppc[p] # "wait", NEW v \in Ids,
           UNCHANGED kpc,
           \/ ~q.closed /\ ~IsFull(q) /\ Insert(p, v)
           \/ ~q.closed /\ IsFull(q) /\ DropNewest(p, v)
           \/ ~q.closed /\ IsFull(q) /\ DropOldest(p, v)
           \/ (q.closed \/ IsFull(q)) /\ \E st \in PushStatus : Refuse(p, v, st)
           \/ ~q.closed /\ IsFull(q) /\ WaitForSpace(p, v)
    PROVE  NoLostWakeup'
<1>1. QueueOK /\ PushersOK /\ PoppersOK /\ QueueOK' /\ PushersOK' /\ PoppersOK'
  BY TypeParts, TypePartsNext
<1>2. SpaceCovered /\ ItemsCovered /\ CloserWakesPoppers /\ CloserWakesPushers
  BY WakeupParts
<1>3. /\ Free \in Int /\ Len(q.items) \in Nat /\ Free' \in Int /\ Len(q'.items) \in Nat
      /\ IsFull(q) => Free <= 0
  BY <1>1, SMTT(30) DEF QueueOK, Queue, Free, IsFull
<1>4. /\ IsFiniteSet(Producers) /\ IsFiniteSet(Consumers)
      /\ ppc \in [Producers -> Waiter] /\ ppc' \in [Producers -> Waiter]
      /\ cpc \in [Consumers -> Waiter] /\ cpc' \in [Consumers -> Waiter]
  BY <1>1, ThreadsAssumption DEF PushersOK, PoppersOK
<1>5. CASE ~q.closed /\ ~IsFull(q) /\ Insert(p, v)
  <2>1. q'.closed = FALSE /\ Len(q'.items) = Len(q.items) + 1 /\ q'.capacity = q.capacity
    BY <1>1, <1>5, EnqueueProperties, SMTT(30) DEF Insert, QueueOK, Queue
  <2>2. Free' = Free - 1
    BY <1>1, <2>1 DEF Free, QueueOK, Queue
  <2>3. Covered(ppc, Free) /\ Covered(cpc, Len(q.items))
    BY <1>2, <1>5 DEF SpaceCovered, ItemsCovered
  <2>4. Covered(ppc', Free - 1)
    BY <1>3, <1>4, <1>5, <2>3, CoverReturn DEF Insert, PushReturns
  <2>5. Covered(cpc', Len(q.items) + 1)
    BY <1>3, <1>4, <1>5, <2>3, CoverNotifyOne DEF Insert
  <2>6. SpaceCovered'
    BY <2>2, <2>4 DEF SpaceCovered, Covered
  <2>7. ItemsCovered'
    BY <2>1, <2>5 DEF ItemsCovered, Covered
  <2>8. QED
    BY <2>1, <2>6, <2>7, WakeupPartsNext DEF CloserWakesPoppers, CloserWakesPushers
<1>6. CASE ~q.closed /\ IsFull(q) /\ DropNewest(p, v)
  <2>1. q'.closed = FALSE /\ q'.items = q.items /\ q'.capacity = q.capacity /\ cpc' = cpc
    BY <1>1, <1>6, RejectNewestProperties DEF DropNewest, QueueOK, Queue
  <2>2. Free' <= 0
    BY <1>3, <1>6, <2>1 DEF Free
  <2>3. Covered(ppc', Free')
    BY <1>3, <1>4, <2>2, CoverNothing
  <2>4. SpaceCovered'
    BY <2>3 DEF SpaceCovered, Covered
  <2>5. ItemsCovered'
    BY <1>2, <1>6, <2>1 DEF ItemsCovered, Covered
  <2>6. QED
    BY <2>1, <2>4, <2>5, WakeupPartsNext DEF CloserWakesPoppers, CloserWakesPushers
<1>7. CASE ~q.closed /\ IsFull(q) /\ DropOldest(p, v)
  <2>1. q'.closed = FALSE /\ Len(q'.items) = Len(q.items) /\ q'.capacity = q.capacity
    BY <1>1, <1>7, FullIsNotEmpty, EvictEnqueueProperties, SMTT(30) DEF DropOldest, QueueOK, Queue
  <2>2. Free' <= 0
    BY <1>3, <1>7, <2>1 DEF Free
  <2>3. Covered(ppc', Free')
    BY <1>3, <1>4, <2>2, CoverNothing
  <2>4. Covered(cpc', Len(q.items) + 1)
    BY <1>2, <1>3, <1>4, <1>7, CoverNotifyOne DEF DropOldest, ItemsCovered
  <2>5. Covered(cpc', Len(q.items))
    BY <1>3, <1>4, <2>4, CoverLess
  <2>6. SpaceCovered' /\ ItemsCovered'
    BY <2>1, <2>3, <2>5 DEF SpaceCovered, ItemsCovered, Covered
  <2>7. QED
    BY <2>1, <2>6, WakeupPartsNext DEF CloserWakesPoppers, CloserWakesPushers
<1>8. CASE (q.closed \/ IsFull(q)) /\ \E st \in PushStatus : Refuse(p, v, st)
  <2>1. q' = q /\ cpc' = cpc /\ Free' = Free
    BY <1>8 DEF Refuse, Free
  <2>2. Waiting(ppc') = Waiting(ppc)
    BY <1>4, <1>8 DEF Refuse, PushReturns, Waiting
  <2>3. SpaceCovered'
    <3>1. CASE q.closed
      BY <2>1, <3>1 DEF SpaceCovered
    <3>2. CASE IsFull(q)
      <4>1. Covered(ppc', Free')
        BY <1>3, <1>4, <2>1, <3>2, CoverNothing
      <4>2. QED
        BY <4>1 DEF SpaceCovered, Covered
    <3>3. QED
      BY <1>8, <3>1, <3>2
  <2>4. ItemsCovered'
    BY <1>2, <2>1 DEF ItemsCovered, Covered
  <2>5. CloserWakesPoppers' /\ CloserWakesPushers'
    BY <1>2, <2>1, <2>2 DEF CloserWakesPoppers, CloserWakesPushers
  <2>6. QED
    BY <2>3, <2>4, <2>5, WakeupPartsNext
<1>9. CASE ~q.closed /\ IsFull(q) /\ WaitForSpace(p, v)
  <2>1. q' = q /\ cpc' = cpc /\ Free' = Free
    BY <1>9 DEF WaitForSpace, Free
  <2>2. Covered(ppc', Free')
    BY <1>3, <1>4, <1>9, <2>1, CoverNothing
  <2>3. SpaceCovered' /\ ItemsCovered'
    BY <1>2, <2>1, <2>2 DEF SpaceCovered, ItemsCovered, Covered
  <2>4. QED
    BY <1>9, <2>1, <2>3, WakeupPartsNext DEF CloserWakesPoppers, CloserWakesPushers
<1>10. QED
  BY <1>5, <1>6, <1>7, <1>8, <1>9

\* A pop that ends, or starts to wait, loses no wakeup.
LEMMA PopEndsWakeup ==
    ASSUME TypeOK, TypeOK', NoLostWakeup, NEW c \in Consumers, cpc[c] # "wait", NEW mode,
           UNCHANGED kpc,
           \/ Take(c)
           \/ q.items = <<>> /\ PopNothing(c, mode)
           \/ q.items = <<>> /\ ~q.closed /\ WaitForItem(c)
    PROVE  NoLostWakeup'
<1>1. QueueOK /\ PushersOK /\ PoppersOK /\ QueueOK' /\ PushersOK' /\ PoppersOK'
  BY TypeParts, TypePartsNext
<1>2. SpaceCovered /\ ItemsCovered /\ CloserWakesPoppers /\ CloserWakesPushers
  BY WakeupParts
<1>3. Free \in Int /\ Len(q.items) \in Nat /\ (q.items = <<>> => Len(q.items) = 0)
  BY <1>1 DEF QueueOK, Queue, Free
<1>4. /\ IsFiniteSet(Producers) /\ IsFiniteSet(Consumers)
      /\ ppc \in [Producers -> Waiter] /\ ppc' \in [Producers -> Waiter]
      /\ cpc \in [Consumers -> Waiter] /\ cpc' \in [Consumers -> Waiter]
  BY <1>1, ThreadsAssumption DEF PushersOK, PoppersOK
<1>5. CASE Take(c)
  <2>1. q'.closed = q.closed /\ Len(q'.items) = Len(q.items) - 1 /\ q'.capacity = q.capacity
    BY <1>1, <1>5, DequeueProperties DEF Take, QueueOK
  <2>2. Free' = Free + 1
    BY <1>1, <2>1 DEF Free, QueueOK, Queue
  <2>3. Waiting(cpc') = Waiting(cpc) /\ Waiting(ppc') \subseteq Waiting(ppc)
    <3>1. Waiting(cpc') = Waiting(cpc)
      BY <1>4, <1>5 DEF Take, Waiting
    <3>2. Waiting(ppc') \subseteq Waiting(ppc)
      BY <1>4, <1>5 DEF Take, NotifyOne, Waiting
    <3>3. QED
      BY <3>1, <3>2
  <2>4. SpaceCovered'
    <3>1. SUFFICES ASSUME ~q.closed PROVE Covered(ppc', Free + 1)
      BY <2>1, <2>2 DEF SpaceCovered, Covered
    <3>2. Covered(ppc, Free)
      BY <1>2, <3>1 DEF SpaceCovered
    <3>3. QED
      BY <1>3, <1>4, <1>5, <3>2, CoverNotifyOne DEF Take
  <2>5. ItemsCovered'
    <3>1. SUFFICES ASSUME ~q.closed PROVE Covered(cpc', Len(q.items) - 1)
      BY <2>1 DEF ItemsCovered, Covered
    <3>2. Covered(cpc, Len(q.items))
      BY <1>2, <3>1 DEF ItemsCovered
    <3>3. cpc' = [cpc EXCEPT ![c] = "idle"]
      BY <1>5 DEF Take
    <3>4. Covered([cpc EXCEPT ![c] = "idle"], Len(q.items) - 1)
      <4> DEFINE n == Len(q.items)
      <4>1. n \in Int /\ Covered(cpc, n)
        BY <1>3, <3>2
      <4> HIDE DEF n
      <4>2. Covered([cpc EXCEPT ![c] = "idle"], n - 1)
        BY <1>4, <4>1, CoverReturn
      <4>3. QED
        BY <4>2 DEF n
    <3>5. QED
      BY <3>3, <3>4
  <2>6. CloserWakesPoppers' /\ CloserWakesPushers'
    BY <1>2, <2>1, <2>3 DEF CloserWakesPoppers, CloserWakesPushers
  <2>7. QED
    BY <2>4, <2>5, <2>6, WakeupPartsNext
<1>6. CASE q.items = <<>> /\ PopNothing(c, mode)
  <2>1. q' = q /\ ppc' = ppc /\ Free' = Free
    BY <1>6 DEF PopNothing, Free
  <2>2. Waiting(cpc') = Waiting(cpc)
    BY <1>4, <1>6 DEF PopNothing, Waiting
  <2>3. Covered(cpc', Len(q.items))
    BY <1>3, <1>4, <1>6, CoverNothing
  <2>4. SpaceCovered' /\ ItemsCovered'
    BY <1>2, <2>1, <2>3 DEF SpaceCovered, ItemsCovered, Covered
  <2>5. CloserWakesPoppers' /\ CloserWakesPushers'
    BY <1>2, <2>1, <2>2 DEF CloserWakesPoppers, CloserWakesPushers
  <2>6. QED
    BY <2>4, <2>5, WakeupPartsNext
<1>7. CASE q.items = <<>> /\ ~q.closed /\ WaitForItem(c)
  <2>1. q' = q /\ ppc' = ppc /\ Free' = Free
    BY <1>7 DEF WaitForItem, Free
  <2>2. Covered(cpc', Len(q.items))
    BY <1>3, <1>4, <1>7, CoverNothing
  <2>3. SpaceCovered' /\ ItemsCovered'
    BY <1>2, <2>1, <2>2 DEF SpaceCovered, ItemsCovered, Covered
  <2>4. QED
    BY <1>7, <2>1, <2>3, WakeupPartsNext DEF CloserWakesPoppers, CloserWakesPushers
<1>8. QED
  BY <1>5, <1>6, <1>7

\* No action loses a wakeup.
LEMMA WakeupNext == TypeOK /\ TypeOK' /\ NoLostWakeup /\ [Next]_vars => NoLostWakeup'
<1> SUFFICES ASSUME TypeOK, TypeOK', NoLostWakeup, [Next]_vars PROVE NoLostWakeup'
  OBVIOUS
<1>0. QueueOK /\ PushersOK /\ PoppersOK /\ ClosersOK /\ HistoryOK
  BY TypeParts
<1>a. SpaceCovered /\ ItemsCovered /\ CloserWakesPoppers /\ CloserWakesPushers
  BY WakeupParts
<1>b. /\ IsFiniteSet(Producers) /\ IsFiniteSet(Consumers)
      /\ ppc \in [Producers -> Waiter] /\ cpc \in [Consumers -> Waiter]
      /\ Free \in Int /\ Len(q.items) \in Nat
  BY <1>0, ThreadsAssumption DEF PushersOK, PoppersOK, QueueOK, Queue, Free
<1>1. ASSUME NEW p \in Producers, NEW mode \in PushModes, push_until(p, mode)
      PROVE  NoLostWakeup'
  <2> DEFINE v == issued + 1
  <2>1. v \in Ids /\ ppc[p] # "wait" /\ UNCHANGED kpc
    BY <1>0, <1>1 DEF push_until, HistoryOK, Ids
  <2>2. \/ ~q.closed /\ ~IsFull(q) /\ Insert(p, v)
        \/ ~q.closed /\ IsFull(q) /\ DropNewest(p, v)
        \/ ~q.closed /\ IsFull(q) /\ DropOldest(p, v)
        \/ (q.closed \/ IsFull(q)) /\ \E st \in PushStatus : Refuse(p, v, st)
        \/ ~q.closed /\ IsFull(q) /\ WaitForSpace(p, v)
    BY <1>1 DEF push_until, PushStatus
  <2> HIDE DEF v
  <2>3. QED
    BY <2>1, <2>2, PushEndsWakeup
<1>2. ASSUME NEW p \in Producers, wait_for_space(p)
      PROVE  NoLostWakeup'
  <2>1. pval[p] \in Ids /\ ppc[p] # "wait" /\ UNCHANGED kpc
    BY <1>0, <1>2 DEF wait_for_space, PushersOK, HistoryOK, Ids
  <2>2. \/ ~q.closed /\ ~IsFull(q) /\ Insert(p, pval[p])
        \/ (q.closed \/ IsFull(q)) /\ \E st \in PushStatus : Refuse(p, pval[p], st)
        \/ ~q.closed /\ IsFull(q) /\ WaitForSpace(p, pval[p])
    BY <1>2 DEF wait_for_space, PushStatus, StoreAfterWait
  <2>3. QED
    BY <2>1, <2>2, PushEndsWakeup
<1>3. ASSUME NEW c \in Consumers, NEW mode \in PopModes, pop_until(c, mode)
      PROVE  NoLostWakeup'
  <2>1. cpc[c] # "wait" /\ UNCHANGED kpc
    BY <1>3 DEF pop_until
  <2>2. \/ Take(c)
        \/ q.items = <<>> /\ PopNothing(c, mode)
        \/ q.items = <<>> /\ ~q.closed /\ WaitForItem(c)
    BY <1>3 DEF pop_until
  <2>3. QED
    BY <2>1, <2>2, PopEndsWakeup
<1>4. ASSUME NEW c \in Consumers, wait_for_item(c)
      PROVE  NoLostWakeup'
  <2>1. cpc[c] # "wait" /\ UNCHANGED kpc
    BY <1>4 DEF wait_for_item
  <2>2. \/ Take(c)
        \/ q.items = <<>> /\ PopNothing(c, cmode[c])
        \/ q.items = <<>> /\ ~q.closed /\ WaitForItem(c)
    BY <1>4 DEF wait_for_item
  <2>3. QED
    BY <2>1, <2>2, PopEndsWakeup
<1>5. ASSUME NEW k \in Closers, close(k)
      PROVE  NoLostWakeup'
  <2>1. q'.closed = TRUE
    BY <1>0, <1>5, CloseQueueProperties DEF close, QueueOK
  <2>2. kpc'[k] = "notify_empty"
    BY <1>0, <1>5 DEF close, ClosersOK
  <2>3. QED
    BY <2>1, <2>2, WakeupPartsNext
    DEF SpaceCovered, ItemsCovered, CloserWakesPoppers, CloserWakesPushers
<1>6. ASSUME NEW k \in Closers, close_notify_empty(k)
      PROVE  NoLostWakeup'
  <2>1. Waiting(cpc') = {} /\ q' = q /\ ppc' = ppc /\ Free' = Free
    BY <1>b, <1>6, NotifyAllType DEF close_notify_empty, Free
  <2>2. kpc'[k] # "idle"
    BY <1>0, <1>6 DEF close_notify_empty, ClosersOK
  <2>3. SpaceCovered' /\ ItemsCovered'
    BY <1>a, <2>1 DEF SpaceCovered, ItemsCovered, Covered
  <2>4. QED
    BY <2>1, <2>2, <2>3, WakeupPartsNext DEF CloserWakesPoppers, CloserWakesPushers
<1>7. ASSUME NEW k \in Closers, close_notify_full(k)
      PROVE  NoLostWakeup'
  <2>1. Waiting(ppc') = {} /\ q' = q /\ cpc' = cpc
    BY <1>b, <1>7, NotifyAllType DEF close_notify_full
  <2>2. \A j \in Closers : kpc[j] = "notify_empty" => kpc'[j] = "notify_empty"
    BY <1>0, <1>7 DEF close_notify_full, ClosersOK
  <2>3. SpaceCovered' /\ ItemsCovered'
    BY <1>a, <2>1 DEF SpaceCovered, ItemsCovered, Covered
  <2>4. QED
    BY <1>a, <2>1, <2>2, <2>3, WakeupPartsNext DEF CloserWakesPoppers, CloserWakesPushers
<1>8. ASSUME clear
      PROVE  NoLostWakeup'
  <2>1. Waiting(ppc') = {} /\ cpc' = cpc /\ kpc' = kpc
    BY <1>b, <1>8, NotifyAllType DEF clear
  <2>2. q'.closed = q.closed /\ q'.items = <<>>
    BY <1>0, <1>8, ClearQueueProperties DEF clear, QueueOK
  <2>3. Covered(cpc, 0)
    BY <1>b, CoverNothing
  <2>4. SpaceCovered' /\ ItemsCovered'
    BY <2>1, <2>2, <2>3 DEF SpaceCovered, ItemsCovered, Covered
  <2>5. QED
    BY <1>a, <2>1, <2>2, <2>4, WakeupPartsNext DEF CloserWakesPoppers, CloserWakesPushers
<1>9. ASSUME Timeout \/ SpuriousWakeup
      PROVE  NoLostWakeup'
  <2>0. q' = q /\ kpc' = kpc /\ Free' = Free
    BY <1>9 DEF Timeout, SpuriousWakeup, Free
  <2>1. ASSUME NEW p \in Producers, NEW x \in {"woken", "expired"}, ppc[p] = "wait",
               ppc' = [ppc EXCEPT ![p] = x], cpc' = cpc
        PROVE  NoLostWakeup'
    <3>1. Waiting(ppc') \subseteq Waiting(ppc)
      BY <1>b, <2>1 DEF Waiting
    <3>2. SpaceCovered'
      <4>1. SUFFICES ASSUME ~q.closed PROVE Covered(ppc', Free)
        BY <2>0 DEF SpaceCovered, Covered
      <4>2. Covered(ppc', Free + 1) /\ ppc' \in [Producers -> Waiter]
        BY <1>a, <1>b, <2>1, <4>1, CoverWake DEF SpaceCovered, Waiter
      <4>3. QED
        BY <1>b, <4>2, CoverLess
    <3>3. ItemsCovered' /\ CloserWakesPoppers'
      BY <1>a, <2>0, <2>1 DEF ItemsCovered, Covered, CloserWakesPoppers
    <3>4. QED
      BY <1>a, <2>0, <3>1, <3>2, <3>3, WakeupPartsNext DEF CloserWakesPushers
  <2>2. ASSUME NEW c \in Consumers, NEW x \in {"woken", "expired"}, cpc[c] = "wait",
               cpc' = [cpc EXCEPT ![c] = x], ppc' = ppc
        PROVE  NoLostWakeup'
    <3>1. Waiting(cpc') \subseteq Waiting(cpc)
      BY <1>b, <2>2 DEF Waiting
    <3>2. ItemsCovered'
      <4>1. SUFFICES ASSUME ~q.closed PROVE Covered(cpc', Len(q.items))
        BY <2>0 DEF ItemsCovered, Covered
      <4>2. Covered(cpc', Len(q.items) + 1) /\ cpc' \in [Consumers -> Waiter]
        <5> DEFINE n == Len(q.items)
        <5>1. n \in Int /\ Covered(cpc, n)
          BY <1>a, <1>b, <4>1 DEF ItemsCovered
        <5> HIDE DEF n
        <5>2. Covered(cpc', n + 1)
          BY <1>b, <2>2, <5>1, CoverWake
        <5>3. cpc' \in [Consumers -> Waiter]
          BY <1>b, <2>2 DEF Waiter
        <5>4. QED
          BY <5>2, <5>3 DEF n
      <4>3. QED
        BY <1>b, <4>2, CoverLess
    <3>3. SpaceCovered' /\ CloserWakesPushers'
      BY <1>a, <2>0, <2>2 DEF SpaceCovered, Covered, CloserWakesPushers
    <3>4. QED
      BY <1>a, <2>0, <3>1, <3>2, <3>3, WakeupPartsNext DEF CloserWakesPoppers
  <2>3. QED
    BY <1>9, <2>1, <2>2 DEF Timeout, SpuriousWakeup
<1>10. CASE UNCHANGED vars
  BY <1>10 DEF vars, NoLostWakeup, Waiting, Awake
<1>11. QED
  BY <1>1, <1>2, <1>3, <1>4, <1>5, <1>6, <1>7, <1>8, <1>9, <1>10 DEF Next

\* No wakeup is lost, for any number of threads: nobody sleeps on a condition
\* that holds unless somebody who will act on it is already awake.
THEOREM WakeupsNotLost == Spec => []NoLostWakeup
BY TypeCorrect, WakeupInit, WakeupNext, PTL DEF Spec

-----------------------------------------------------------------------------
(* Order. *)

\* Moving the head of one sequence to the end of the one before it changes nothing.
LEMMA MoveHead ==
    ASSUME NEW S, NEW a \in Seq(S), NEW b \in Seq(S), b # <<>>
    PROVE  Append(a, Head(b)) \o Tail(b) = a \o b
<1>1. Head(b) \in S /\ Tail(b) \in Seq(S)
  OBVIOUS
<1>2. <<Head(b)>> \in Seq(S)
  BY <1>1
<1>3. b = <<Head(b)>> \o Tail(b)
  BY <1>1
<1>4. Append(a, Head(b)) = a \o <<Head(b)>>
  BY <1>1, AppendIsConcat
<1>5. (a \o <<Head(b)>>) \o Tail(b) = a \o (<<Head(b)>> \o Tail(b))
  BY <1>1, <1>2, ConcatAssociative, SMTT(30)
<1>6. QED
  BY <1>3, <1>4, <1>5

\* Nothing has entered or left at first.
LEMMA OrderInit == Init => FifoOrder
BY DEF Init, FifoOrder, NewQueue

\* Every action keeps what entered equal to what left and what is queued.
LEMMA OrderNext == TypeOK /\ FifoOrder /\ [Next]_vars => FifoOrder'
<1> SUFFICES ASSUME TypeOK, FifoOrder, [Next]_vars PROVE FifoOrder'
  OBVIOUS
<1>0. /\ QueueOK /\ PushersOK /\ HistoryOK
      /\ q \in Queue(Ids) /\ q.items \in Seq(Ids) /\ removed \in Seq(Ids)
  BY TypeParts DEF QueueOK, Queue, HistoryOK
<1>1. ASSUME NEW p \in Producers, NEW v \in Ids,
             Insert(p, v) \/ DropNewest(p, v) \/ (IsFull(q) /\ DropOldest(p, v))
      PROVE  FifoOrder'
  <2>1. CASE Insert(p, v)
    <3>1. /\ q'.items = Append(q.items, v) /\ removed' = removed
          /\ accepted' = Append(accepted, v)
      BY <1>0, <2>1, EnqueueProperties, ZenonT(60) DEF Insert
    <3> DEFINE i == q.items
    <3>2. i \in Seq(Ids)
      BY <1>0
    <3> HIDE DEF i
    <3>3. Append(removed \o i, v) = removed \o Append(i, v)
      BY <1>0, <3>2, SMTT(30)
    <3>4. QED
      BY <3>1, <3>3, Zenon DEF FifoOrder, i
  <2>2. CASE DropNewest(p, v)
    BY <1>0, <2>2, RejectNewestProperties DEF DropNewest, FifoOrder
  <2>3. CASE IsFull(q) /\ DropOldest(p, v)
    <3>1. q.items # <<>>
      BY <1>0, <2>3, FullIsNotEmpty
    <3>2. /\ q'.items = Append(Tail(q.items), v) /\ accepted' = Append(accepted, v)
          /\ removed' = Append(removed, Head(q.items))
      BY <1>0, <2>3, <3>1, EvictEnqueueProperties DEF DropOldest
    <3>3. Tail(q.items) \in Seq(Ids) /\ Append(removed, Head(q.items)) \in Seq(Ids)
      BY <1>0, <3>1
    <3>4. Append(removed, Head(q.items)) \o Append(Tail(q.items), v)
            = Append(Append(removed, Head(q.items)) \o Tail(q.items), v)
      <4> DEFINE front == Append(removed, Head(q.items))
                 rest  == Tail(q.items)
      <4>1. front \in Seq(Ids) /\ rest \in Seq(Ids)
        BY <3>3
      <4> HIDE DEF front, rest
      <4>2. front \o Append(rest, v) = Append(front \o rest, v)
        BY <4>1
      <4>3. QED
        BY <4>2 DEF front, rest
    <3>5. Append(removed, Head(q.items)) \o Tail(q.items) = accepted
      BY <1>0, <3>1, MoveHead DEF FifoOrder
    <3>6. QED
      BY <3>2, <3>4, <3>5 DEF FifoOrder
  <2>4. QED
    BY <1>1, <2>1, <2>2, <2>3
<1>2. ASSUME NEW p \in Producers, NEW v, NEW st, Refuse(p, v, st) \/ WaitForSpace(p, v)
      PROVE  FifoOrder'
  BY <1>2 DEF Refuse, WaitForSpace, FifoOrder
<1>3. ASSUME NEW c \in Consumers, NEW mode, UNCHANGED accepted,
             Take(c) \/ PopNothing(c, mode) \/ WaitForItem(c)
      PROVE  FifoOrder'
  <2>1. CASE Take(c)
    <3>1. /\ q.items # <<>> /\ q'.items = Tail(q.items)
          /\ removed' = Append(removed, Head(q.items))
      BY <1>0, <2>1, DequeueProperties DEF Take
    <3>2. QED
      BY <1>0, <1>3, <3>1, MoveHead DEF FifoOrder
  <2>2. CASE PopNothing(c, mode) \/ WaitForItem(c)
    BY <1>3, <2>2 DEF PopNothing, WaitForItem, FifoOrder
  <2>3. QED
    BY <1>3, <2>1, <2>2
<1>4. ASSUME NEW p \in Producers, NEW mode \in PushModes, push_until(p, mode)
      PROVE  FifoOrder'
  <2>1. issued + 1 \in Ids
    BY <1>0, <1>4 DEF push_until, HistoryOK, Ids
  <2>2. QED
    BY <1>1, <1>2, <1>4, <2>1 DEF push_until
<1>5. ASSUME NEW p \in Producers, wait_for_space(p)
      PROVE  FifoOrder'
  <2>1. pval[p] \in Ids
    BY <1>0, <1>5 DEF wait_for_space, HistoryOK, PushersOK, Ids
  <2>2. QED
    BY <1>1, <1>2, <1>5, <2>1 DEF wait_for_space
<1>6. ASSUME NEW c \in Consumers, NEW mode \in PopModes, pop_until(c, mode)
      PROVE  FifoOrder'
  BY <1>3, <1>6 DEF pop_until
<1>7. ASSUME NEW c \in Consumers, wait_for_item(c)
      PROVE  FifoOrder'
  BY <1>3, <1>7 DEF wait_for_item
<1>8. ASSUME NEW k \in Closers, close(k)
      PROVE  FifoOrder'
  BY <1>0, <1>8, CloseQueueProperties DEF close, history, FifoOrder
<1>9. ASSUME NEW k \in Closers, close_notify_empty(k) \/ close_notify_full(k)
      PROVE  FifoOrder'
  BY <1>9 DEF close_notify_empty, close_notify_full, history, FifoOrder
<1>10. ASSUME clear
       PROVE  FifoOrder'
  <2>1. q'.items = <<>> /\ removed' = removed \o q.items /\ accepted' = accepted
    BY <1>0, <1>10, ClearQueueProperties DEF clear
  <2>2. (removed \o q.items) \o <<>> = removed \o q.items
    BY <1>0, ConcatProperties, ConcatEmptySeq
  <2>3. QED
    BY <2>1, <2>2 DEF FifoOrder
<1>11. ASSUME Timeout \/ SpuriousWakeup
       PROVE  FifoOrder'
  BY <1>11 DEF Timeout, SpuriousWakeup, history, FifoOrder
<1>12. CASE UNCHANGED vars
  BY <1>12 DEF vars, FifoOrder
<1>13. QED
  BY <1>4, <1>5, <1>6, <1>7, <1>8, <1>9, <1>10, <1>11, <1>12 DEF Next

\* Values leave in the order they entered, none twice, none invented, for any
\* number of threads, any policy and with clear() and close() at any time.
LEMMA OrderKept == Spec => []FifoOrder
BY TypeCorrect, OrderInit, OrderNext, PTL DEF Spec

-----------------------------------------------------------------------------
(* Accounting. *)

\* What left was popped, cleared or evicted.
LeavesCounted ==
    Len(removed) = popped + cleared + (IF q.policy = "DropOldest" THEN q.dropped ELSE 0)

\* A value is in exactly when its caller was told so, and in once.
AnswersTrue ==
    /\ \A v \in Ids : outcome[v] \in {"Ok", "DroppedOldest"} <=>
                         \E i \in DOMAIN accepted : accepted[i] = v
    /\ \A i, j \in DOMAIN accepted : accepted[i] = accepted[j] => i = j

\* The strengthening: a push that has not been called or not returned has had no
\* answer, and no two blocked producers hold the same value.
PendingUnanswered ==
    /\ \A v \in Ids : v > issued => outcome[v] = "none"
    /\ \A p \in Producers : ppc[p] # "idle" => outcome[pval[p]] = "none"
    /\ \A p, r \in Producers :
         ppc[p] # "idle" /\ ppc[r] # "idle" /\ pval[p] = pval[r] => p = r

AccountInv == LeavesCounted /\ AnswersTrue /\ PendingUnanswered

\* Nothing was pushed, nothing left, nobody waits.
LEMMA AccountInit == Init => AccountInv
<1> SUFFICES ASSUME Init PROVE AccountInv
  OBVIOUS
<1>1. PICK c \in Capacities, pol \in Policies : q = NewQueue(c, pol)
  BY DEF Init
<1>2. q.dropped = 0
  BY <1>1 DEF NewQueue
<1>3. LeavesCounted
  BY <1>2 DEF Init, LeavesCounted
<1>4. AnswersTrue
  BY DEF Init, AnswersTrue
<1>5. PendingUnanswered
  BY DEF Init, PendingUnanswered
<1>6. QED
  BY <1>3, <1>4, <1>5 DEF AccountInv

\* A value that enters for the first time and whose caller is told so.
LEMMA AnswerEntered ==
    ASSUME TypeOK, AnswersTrue, NEW v \in Ids, outcome[v] = "none",
           NEW status \in {"Ok", "DroppedOldest"},
           accepted' = Append(accepted, v), outcome' = [outcome EXCEPT ![v] = status]
    PROVE  AnswersTrue'
<1>0. accepted \in Seq(Ids) /\ outcome \in [Ids -> PushStatus \cup {"none"}]
  BY TypeParts DEF HistoryOK
<1> DEFINE n == Len(accepted)
<1>1. /\ n \in Nat /\ DOMAIN accepted = 1..n /\ DOMAIN accepted' = 1..(n + 1)
      /\ \A i \in 1..n : accepted'[i] = accepted[i]
      /\ accepted'[n + 1] = v
  BY <1>0
<1>2. \A i \in 1..n : accepted[i] # v
  BY <1>1 DEF AnswersTrue
<1> HIDE DEF n
<1>3. ASSUME NEW u \in Ids
      PROVE  outcome'[u] \in {"Ok", "DroppedOldest"} <=>
                 \E i \in DOMAIN accepted' : accepted'[i] = u
  <2>1. CASE u = v
    BY <1>0, <1>1, <2>1
  <2>2. CASE u # v
    <3>1. outcome'[u] = outcome[u]
      BY <1>0, <2>2
    <3>2. (\E i \in DOMAIN accepted' : accepted'[i] = u)
            <=> (\E i \in DOMAIN accepted : accepted[i] = u)
      BY <1>1, <2>2
    <3>3. QED
      BY <3>1, <3>2 DEF AnswersTrue
  <2>3. QED
    BY <2>1, <2>2
<1>4. ASSUME NEW i \in DOMAIN accepted', NEW j \in DOMAIN accepted',
             accepted'[i] = accepted'[j]
      PROVE  i = j
  BY <1>1, <1>2, <1>4 DEF AnswersTrue
<1>5. QED
  BY <1>3, <1>4 DEF AnswersTrue

\* A value that does not enter and whose caller is told so.
LEMMA AnswerRefused ==
    ASSUME TypeOK, AnswersTrue, NEW v \in Ids, outcome[v] = "none",
           NEW status \in {"Full", "DroppedNewest", "Closed"},
           accepted' = accepted, outcome' = [outcome EXCEPT ![v] = status]
    PROVE  AnswersTrue'
<1>0. outcome \in [Ids -> PushStatus \cup {"none"}]
  BY TypeParts DEF HistoryOK
<1>1. \A u \in Ids : outcome'[u] \in {"Ok", "DroppedOldest"}
                        <=> outcome[u] \in {"Ok", "DroppedOldest"}
  BY <1>0
<1>2. QED
  BY <1>1 DEF AnswersTrue

\* A push that returns leaves the other pushes unanswered.
LEMMA PendingReturn ==
    ASSUME TypeOK, PendingUnanswered, NEW p \in Producers, NEW v \in Ids, NEW status,
           issued' \in Int, issued' >= issued, v <= issued',
           \A r \in Producers : r # p /\ ppc[r] # "idle" => pval[r] # v,
           PushReturns(p, v, status)
    PROVE  PendingUnanswered'
<1>0. /\ ppc \in [Producers -> Waiter] /\ pval \in [Producers -> Ids \cup {0}]
      /\ outcome \in [Ids -> PushStatus \cup {"none"}] /\ issued \in Int /\ Ids \subseteq Int
      /\ \A r \in Producers : ppc[r] # "idle" => pval[r] \in Ids
  BY TypeParts DEF PushersOK, HistoryOK, Ids
<1>1. /\ ppc' = [ppc EXCEPT ![p] = "idle"] /\ pval' = [pval EXCEPT ![p] = 0]
      /\ outcome' = [outcome EXCEPT ![v] = status]
  BY DEF PushReturns
<1>2. \A u \in Ids : u # v => outcome'[u] = outcome[u]
  BY <1>0, <1>1
<1>3. \A r \in Producers :
        ppc'[r] # "idle" => r # p /\ ppc[r] # "idle" /\ pval'[r] = pval[r]
  BY <1>0, <1>1
<1>4. \A u \in Ids : u > issued' => outcome'[u] = "none"
  BY <1>0, <1>2 DEF PendingUnanswered
<1>5. \A r \in Producers : ppc'[r] # "idle" => outcome'[pval'[r]] = "none"
  BY <1>0, <1>2, <1>3 DEF PendingUnanswered
<1>6. QED
  BY <1>3, <1>4, <1>5 DEF PendingUnanswered

\* Whatever wakes up or falls asleep, the same calls are pending.
LEMMA PendingSame ==
    ASSUME PendingUnanswered, UNCHANGED <<issued, outcome, pval>>,
           \A p \in Producers : ppc'[p] = "idle" <=> ppc[p] = "idle"
    PROVE  PendingUnanswered'
BY DEF PendingUnanswered

\* The critical section of a push on behalf of an unanswered value.
LEMMA PushEndsAccount ==
    ASSUME TypeOK, AccountInv, NEW p \in Producers, NEW v \in Ids, outcome[v] = "none",
           issued' \in Int, issued' >= issued, v <= issued',
           \A r \in Producers : r # p /\ ppc[r] # "idle" => pval[r] # v,
           UNCHANGED <<popped, cleared>>,
           \/ Insert(p, v)
           \/ DropNewest(p, v) /\ q.policy = "DropNewest"
           \/ DropOldest(p, v) /\ q.policy = "DropOldest" /\ IsFull(q)
           \/ \E st \in {"Full", "Closed"} : Refuse(p, v, st)
           \/ WaitForSpace(p, v)
    PROVE  AccountInv'
<1>0. q \in Queue(Ids) /\ removed \in Seq(Ids) /\ popped \in Nat /\ cleared \in Nat
  BY TypeParts DEF QueueOK, HistoryOK
<1>1. CASE Insert(p, v)
  <2>1. q'.policy = q.policy /\ q'.dropped = q.dropped /\ removed' = removed
    BY <1>0, <1>1, EnqueueProperties, ZenonT(60) DEF Insert
  <2>2. LeavesCounted'
    BY <2>1 DEF AccountInv, LeavesCounted
  <2>3. AnswersTrue'
    BY <1>1, AnswerEntered DEF AccountInv, Insert, PushReturns
  <2>4. PendingUnanswered'
    BY <1>1, PendingReturn DEF AccountInv, Insert
  <2>5. QED
    BY <2>2, <2>3, <2>4 DEF AccountInv
<1>2. CASE DropNewest(p, v) /\ q.policy = "DropNewest"
  <2>1. q'.policy = "DropNewest" /\ removed' = removed
    BY <1>0, <1>2, RejectNewestProperties DEF DropNewest
  <2>2. LeavesCounted'
    BY <1>2, <2>1 DEF AccountInv, LeavesCounted
  <2>3. AnswersTrue'
    BY <1>2, AnswerRefused DEF AccountInv, DropNewest, PushReturns
  <2>4. PendingUnanswered'
    BY <1>2, PendingReturn DEF AccountInv, DropNewest
  <2>5. QED
    BY <2>2, <2>3, <2>4 DEF AccountInv
<1>3. CASE DropOldest(p, v) /\ q.policy = "DropOldest" /\ IsFull(q)
  <2>1. /\ q'.policy = q.policy /\ q'.dropped = q.dropped + 1 /\ q.dropped \in Nat
        /\ Head(q.items) \in Ids /\ removed' = Append(removed, Head(q.items))
    BY <1>0, <1>3, FullIsNotEmpty, EvictEnqueueProperties, SMTT(30) DEF DropOldest, Queue
  <2>2. Len(removed') = Len(removed) + 1
    BY <1>0, <2>1
  <2>3. LeavesCounted'
    BY <1>0, <1>3, <2>1, <2>2 DEF AccountInv, LeavesCounted
  <2>4. AnswersTrue'
    BY <1>3, AnswerEntered DEF AccountInv, DropOldest, PushReturns
  <2>5. PendingUnanswered'
    BY <1>3, PendingReturn DEF AccountInv, DropOldest
  <2>6. QED
    BY <2>3, <2>4, <2>5 DEF AccountInv
<1>4. CASE \E st \in {"Full", "Closed"} : Refuse(p, v, st)
  <2>1. PICK st \in {"Full", "Closed"} : Refuse(p, v, st)
    BY <1>4
  <2>2. LeavesCounted'
    BY <2>1 DEF AccountInv, LeavesCounted, Refuse
  <2>3. AnswersTrue'
    BY <2>1, AnswerRefused DEF AccountInv, Refuse, PushReturns
  <2>4. PendingUnanswered'
    BY <2>1, PendingReturn DEF AccountInv, Refuse
  <2>5. QED
    BY <2>2, <2>3, <2>4 DEF AccountInv
<1>5. CASE WaitForSpace(p, v)
  <2>1. LeavesCounted' /\ AnswersTrue'
    BY <1>5 DEF AccountInv, LeavesCounted, AnswersTrue, WaitForSpace
  <2>2. /\ ppc \in [Producers -> Waiter] /\ pval \in [Producers -> Ids \cup {0}]
        /\ issued \in Int /\ Ids \subseteq Int
    BY TypeParts DEF PushersOK, HistoryOK, Ids
  <2>3. /\ pval'[p] = v
        /\ \A r \in Producers : r # p => ppc'[r] = ppc[r] /\ pval'[r] = pval[r]
    BY <1>5, <2>2 DEF WaitForSpace
  <2>4. PendingUnanswered'
    BY <1>5, <2>2, <2>3 DEF AccountInv, PendingUnanswered, WaitForSpace
  <2>5. QED
    BY <2>1, <2>4 DEF AccountInv
<1>6. QED
  BY <1>1, <1>2, <1>3, <1>4, <1>5

\* Every action keeps the accounts.
LEMMA AccountNext == TypeOK /\ AccountInv /\ [Next]_vars => AccountInv'
<1> SUFFICES ASSUME TypeOK, AccountInv, [Next]_vars PROVE AccountInv'
  OBVIOUS
<1>0. /\ q \in Queue(Ids) /\ removed \in Seq(Ids) /\ popped \in Nat /\ cleared \in Nat
      /\ q.items \in Seq(Ids) /\ q.dropped \in Nat
      /\ ppc \in [Producers -> Waiter] /\ issued \in 0..MaxPush
      /\ \A p \in Producers : ppc[p] # "idle" => pval[p] \in 1..issued
  BY TypeParts DEF QueueOK, HistoryOK, PushersOK, Queue
<1>1. ASSUME NEW p \in Producers, NEW mode \in PushModes, push_until(p, mode)
      PROVE  AccountInv'
  <2>1. /\ issued + 1 \in Ids /\ issued' = issued + 1 /\ outcome[issued + 1] = "none"
        /\ \A r \in Producers : r # p /\ ppc[r] # "idle" => pval[r] # issued + 1
    BY <1>0, <1>1 DEF push_until, Ids, AccountInv, PendingUnanswered
  <2>2. \/ Insert(p, issued + 1)
        \/ DropNewest(p, issued + 1) /\ q.policy = "DropNewest"
        \/ DropOldest(p, issued + 1) /\ q.policy = "DropOldest" /\ IsFull(q)
        \/ \E st \in {"Full", "Closed"} : Refuse(p, issued + 1, st)
        \/ WaitForSpace(p, issued + 1)
    BY <1>1 DEF push_until
  <2>3. /\ issued' \in Int /\ issued' >= issued /\ issued + 1 <= issued'
        /\ UNCHANGED <<popped, cleared>>
    BY <1>0, <1>1, <2>1 DEF push_until
  <2>4. QED
    BY <2>1, <2>2, <2>3, PushEndsAccount
<1>2. ASSUME NEW p \in Producers, wait_for_space(p)
      PROVE  AccountInv'
  <2>1. /\ ppc[p] # "idle" /\ pval[p] \in Ids /\ pval[p] <= issued
        /\ UNCHANGED <<issued, popped, cleared>>
    BY <1>0, <1>2 DEF wait_for_space, Ids
  <2>2. /\ outcome[pval[p]] = "none"
        /\ \A r \in Producers : r # p /\ ppc[r] # "idle" => pval[r] # pval[p]
    BY <2>1 DEF AccountInv, PendingUnanswered
  <2>3. \/ Insert(p, pval[p])
        \/ \E st \in {"Full", "Closed"} : Refuse(p, pval[p], st)
        \/ WaitForSpace(p, pval[p])
    BY <1>2 DEF wait_for_space
  <2>4. issued' \in Int /\ issued' >= issued /\ pval[p] <= issued'
    BY <1>0, <2>1
  <2>5. QED
    BY <2>1, <2>2, <2>3, <2>4, PushEndsAccount
<1>3. ASSUME NEW c \in Consumers, NEW mode, UNCHANGED <<issued, outcome, accepted, pval, cleared>>,
             Take(c) \/ PopNothing(c, mode) \/ WaitForItem(c)
      PROVE  AccountInv'
  <2>1. AnswersTrue'
    BY <1>3 DEF AccountInv, AnswersTrue
  <2>2. CASE Take(c)
    <3>1. /\ q'.policy = q.policy /\ q'.dropped = q.dropped /\ Head(q.items) \in Ids
          /\ removed' = Append(removed, Head(q.items)) /\ popped' = popped + 1
      BY <1>0, <2>2, DequeueProperties DEF Take
    <3>2. Len(removed') = Len(removed) + 1
      BY <1>0, <3>1
    <3>3. LeavesCounted'
      BY <1>0, <1>3, <3>1, <3>2 DEF AccountInv, LeavesCounted
    <3>4. PendingUnanswered'
      BY <1>0, <1>3, <2>2, NotifyOneType, PendingSame DEF AccountInv, Take
    <3>5. QED
      BY <2>1, <3>3, <3>4 DEF AccountInv
  <2>3. CASE PopNothing(c, mode) \/ WaitForItem(c)
    <3>1. UNCHANGED <<q, ppc, removed, popped>>
      BY <2>3 DEF PopNothing, WaitForItem
    <3>2. QED
      BY <1>3, <2>1, <3>1 DEF AccountInv, LeavesCounted, PendingUnanswered
  <2>4. QED
    BY <1>3, <2>2, <2>3
<1>4. ASSUME NEW c \in Consumers, NEW mode \in PopModes, pop_until(c, mode)
      PROVE  AccountInv'
  BY <1>3, <1>4 DEF pop_until
<1>5. ASSUME NEW c \in Consumers, wait_for_item(c)
      PROVE  AccountInv'
  BY <1>3, <1>5 DEF wait_for_item
<1>6. ASSUME UNCHANGED <<pval, history>>, q'.policy = q.policy, q'.dropped = q.dropped,
             \A p \in Producers : ppc'[p] = "idle" <=> ppc[p] = "idle"
      PROVE  AccountInv'
  <2>1. LeavesCounted' /\ AnswersTrue'
    BY <1>6 DEF AccountInv, LeavesCounted, AnswersTrue, history
  <2>2. PendingUnanswered'
    BY <1>6, PendingSame DEF AccountInv, history
  <2>3. QED
    BY <2>1, <2>2 DEF AccountInv
<1>7. ASSUME NEW k \in Closers, close(k)
      PROVE  AccountInv'
  BY <1>0, <1>6, <1>7, CloseQueueProperties DEF close
<1>8. ASSUME NEW k \in Closers, close_notify_empty(k) \/ close_notify_full(k)
      PROVE  AccountInv'
  BY <1>0, <1>6, <1>8, NotifyAllType DEF close_notify_empty, close_notify_full
<1>9. ASSUME clear
      PROVE  AccountInv'
  <2>1. /\ q'.policy = q.policy /\ q'.dropped = q.dropped
        /\ removed' = removed \o q.items /\ cleared' = cleared + Len(q.items)
        /\ UNCHANGED <<popped, issued, outcome, accepted, pval>>
    BY <1>0, <1>9, ClearQueueProperties DEF clear
  <2> DEFINE evicted == IF q.policy = "DropOldest" THEN q.dropped ELSE 0
             n       == Len(q.items)
  <2>2. Len(removed') = Len(removed) + n /\ n \in Nat /\ evicted \in Nat
    BY <1>0, <2>1
  <2>3. LeavesCounted'
    <3>1. Len(removed) = popped + cleared + evicted
      BY DEF AccountInv, LeavesCounted
    <3>2. cleared' = cleared + n
      BY <2>1
    <3> HIDE DEF n, evicted
    <3>3. Len(removed') = popped + cleared' + evicted
      BY <1>0, <2>2, <3>1, <3>2
    <3>4. QED
      BY <2>1, <3>3 DEF LeavesCounted, evicted
  <2>4. AnswersTrue'
    BY <2>1 DEF AccountInv, AnswersTrue
  <2>5. PendingUnanswered'
    BY <1>0, <1>9, <2>1, NotifyAllType, PendingSame DEF AccountInv, clear
  <2>6. QED
    BY <2>3, <2>4, <2>5 DEF AccountInv
<1>10. ASSUME Timeout \/ SpuriousWakeup
       PROVE  AccountInv'
  <2>1. UNCHANGED <<q, pval, history>>
    BY <1>10 DEF Timeout, SpuriousWakeup
  <2>2. \A p \in Producers : ppc'[p] = "idle" <=> ppc[p] = "idle"
    BY <1>0, <1>10 DEF Timeout, SpuriousWakeup
  <2>3. QED
    BY <1>6, <2>1, <2>2
<1>11. CASE UNCHANGED vars
  BY <1>6, <1>11 DEF vars, history
<1>12. QED
  BY <1>1, <1>2, <1>4, <1>5, <1>7, <1>8, <1>9, <1>10, <1>11 DEF Next

\* The strengthened accounts hold at all times.
LEMMA AccountAlways == Spec => []AccountInv
BY TypeCorrect, AccountInit, AccountNext, PTL DEF Spec

\* Every value is accounted for at both ends, for any number of threads and
\* every policy: what entered is what left followed by what is queued, what left was popped, cleared or counted as dropped, and a push
\* answers Ok or DroppedOldest exactly for the values that entered, each once.
THEOREM AccountsKept == Spec => []Accounting
<1>1. AccountInv /\ FifoOrder => Accounting
  BY DEF AccountInv, LeavesCounted, AnswersTrue, Accounting
<1>2. QED
  BY <1>1, AccountAlways, OrderKept, PTL

-----------------------------------------------------------------------------
(* The end, and the abstract queue. *)

\* Only pop_for reaches a deadline: this is what makes EndIsFinal inductive.
OnlyTimedExpire == \A c \in Consumers : cpc[c] = "expired" => cmode[c] = "pop_for"

\* At first nobody has expired and no end was announced.
LEMMA EndInit == Init => OnlyTimedExpire /\ EndIsFinal
BY DEF Init, OnlyTimedExpire, EndIsFinal

\* Notifying makes nobody expire.
LEMMA ExpireKept ==
    ASSUME TypeOK, OnlyTimedExpire, UNCHANGED cmode, cpc' \in NotifyOne(cpc) \cup {cpc, NotifyAll(cpc)}
    PROVE  OnlyTimedExpire'
<1>1. cpc \in [Consumers -> Waiter]
  BY DEF TypeOK
<1>2. \A c \in Consumers : cpc'[c] = "expired" => cpc[c] = "expired"
  BY <1>1, NotifyOneType, NotifyAllType
<1>3. QED
  BY <1>2 DEF OnlyTimedExpire

\* Only a consumer inside pop_for() can be expired.
LEMMA ExpireNext == TypeOK /\ OnlyTimedExpire /\ [Next]_vars => OnlyTimedExpire'
<1> SUFFICES ASSUME TypeOK, OnlyTimedExpire, [Next]_vars PROVE OnlyTimedExpire'
  OBVIOUS
<1>0. cpc \in [Consumers -> Waiter] /\ cmode \in [Consumers -> PopModes]
  BY DEF TypeOK
<1>1. ASSUME NEW p \in Producers, NEW mode \in PushModes,
             push_until(p, mode) \/ wait_for_space(p)
      PROVE  OnlyTimedExpire'
  <2>1. UNCHANGED cmode /\ cpc' \in NotifyOne(cpc) \cup {cpc, NotifyAll(cpc)}
    BY <1>1 DEF push_until, wait_for_space, Insert, DropNewest, DropOldest, Refuse, WaitForSpace
  <2>2. QED
    BY <2>1, ExpireKept
<1>2. ASSUME NEW c \in Consumers, NEW mode \in PopModes,
             pop_until(c, mode) \/ wait_for_item(c)
      PROVE  OnlyTimedExpire'
  <2>1. /\ \E x \in {"idle", "wait"} : cpc' = [cpc EXCEPT ![c] = x]
        /\ cmode' = cmode \/ cmode' = [cmode EXCEPT ![c] = mode]
    BY <1>2 DEF pop_until, wait_for_item, Take, PopNothing, WaitForItem
  <2>2. QED
    BY <1>0, <2>1 DEF OnlyTimedExpire
<1>3. ASSUME NEW k \in Closers, close(k) \/ close_notify_empty(k) \/ close_notify_full(k)
      PROVE  OnlyTimedExpire'
  BY <1>3, ExpireKept DEF close, close_notify_empty, close_notify_full
<1>4. ASSUME clear
      PROVE  OnlyTimedExpire'
  BY <1>4 DEF clear, OnlyTimedExpire
<1>5. ASSUME Timeout \/ SpuriousWakeup
      PROVE  OnlyTimedExpire'
  BY <1>0, <1>5 DEF Timeout, SpuriousWakeup, OnlyTimedExpire
<1>6. CASE UNCHANGED vars
  BY <1>6 DEF vars, OnlyTimedExpire
<1>7. ASSUME NEW p \in Producers, wait_for_space(p)
      PROVE  OnlyTimedExpire'
  BY <1>1, <1>7 DEF PushModes
<1>8. ASSUME NEW c \in Consumers, wait_for_item(c)
      PROVE  OnlyTimedExpire'
  BY <1>2, <1>8 DEF PopModes
<1>9. QED
  BY <1>1, <1>2, <1>3, <1>4, <1>5, <1>6, <1>7, <1>8 DEF Next

\* Every step of the threads is one step of the abstract FIFO, or none.
LEMMA FifoStep ==
    ASSUME TypeOK, OnlyTimedExpire, [Next]_vars
    PROVE  [Fifo!FifoNext]_(Fifo!fifoVars)
<1>0. /\ QueueOK /\ PushersOK /\ PoppersOK /\ HistoryOK
      /\ q \in Queue(Ids) /\ q.items \in Seq(Ids) /\ Len(q.items) \in Nat /\ q.capacity \in Nat
      /\ Len(q.items) <= q.capacity
  BY TypeParts DEF QueueOK, Queue, HistoryOK
<1>1. ASSUME NEW p \in Producers, NEW v \in Ids, UNCHANGED ended,
             \/ ~q.closed /\ ~IsFull(q) /\ Insert(p, v)
             \/ ~q.closed /\ IsFull(q) /\ DropNewest(p, v)
             \/ ~q.closed /\ IsFull(q) /\ DropOldest(p, v)
             \/ \E st \in PushStatus : Refuse(p, v, st)
             \/ WaitForSpace(p, v)
      PROVE  [Fifo!FifoNext]_(Fifo!fifoVars)
  <2>1. CASE ~q.closed /\ ~IsFull(q) /\ Insert(p, v)
    <3>1. /\ q'.items = Append(q.items, v) /\ q'.capacity = q.capacity
          /\ q'.closed = q.closed
      BY <1>0, <2>1, EnqueueProperties, ZenonT(60) DEF Insert
    <3>2. Len(q.items) < q.capacity
      BY <1>0, <2>1 DEF IsFull
    <3>3. Fifo!Put(v)
      BY <1>1, <2>1, <3>1, <3>2 DEF Fifo!Put
    <3>4. QED
      BY <3>3 DEF Fifo!FifoNext
  <2>2. CASE ~q.closed /\ IsFull(q) /\ DropNewest(p, v)
    <3>1. q'.items = q.items /\ q'.capacity = q.capacity /\ q'.closed = q.closed
      BY <1>0, <2>2, RejectNewestProperties DEF DropNewest
    <3>2. QED
      BY <1>1, <3>1 DEF Fifo!fifoVars
  <2>3. CASE ~q.closed /\ IsFull(q) /\ DropOldest(p, v)
    <3>1. /\ q'.items = Append(Tail(q.items), v) /\ q'.capacity = q.capacity
          /\ q'.closed = q.closed
      BY <1>0, <2>3, FullIsNotEmpty, EvictEnqueueProperties, SMTT(30) DEF DropOldest
    <3>2. Len(q.items) = q.capacity
      BY <1>0, <2>3 DEF IsFull
    <3>3. Fifo!Overwrite(v)
      BY <1>1, <2>3, <3>1, <3>2 DEF Fifo!Overwrite
    <3>4. QED
      BY <3>3 DEF Fifo!FifoNext
  <2>4. CASE (\E st \in PushStatus : Refuse(p, v, st)) \/ WaitForSpace(p, v)
    BY <1>1, <2>4 DEF Refuse, WaitForSpace, Fifo!fifoVars
  <2>5. QED
    BY <1>1, <2>1, <2>2, <2>3, <2>4
<1>2. ASSUME NEW c \in Consumers, NEW mode,
             \/ Take(c)
             \/ q.items = <<>> /\ (mode = "pop" => q.closed) /\ PopNothing(c, mode)
             \/ WaitForItem(c)
      PROVE  [Fifo!FifoNext]_(Fifo!fifoVars)
  <2>1. CASE Take(c)
    <3>1. /\ q.items # <<>> /\ q'.items = Tail(q.items) /\ q'.capacity = q.capacity
          /\ q'.closed = q.closed /\ ended' = ended
      BY <1>0, <2>1, DequeueProperties DEF Take
    <3>2. Fifo!Get
      BY <3>1 DEF Fifo!Get
    <3>3. QED
      BY <3>2 DEF Fifo!FifoNext
  <2>2. CASE q.items = <<>> /\ (mode = "pop" => q.closed) /\ PopNothing(c, mode)
    <3>1. q' = q
      BY <2>2 DEF PopNothing
    <3>2. CASE mode = "pop"
      <4>1. ended' = TRUE
        BY <2>2, <3>2 DEF PopNothing
      <4>2. Fifo!End
        BY <2>2, <3>1, <3>2, <4>1 DEF Fifo!End
      <4>3. QED
        BY <4>2 DEF Fifo!FifoNext
    <3>3. CASE mode # "pop"
      <4>1. ended' = ended
        BY <1>0, <2>2, <3>3 DEF PopNothing, HistoryOK
      <4>2. QED
        BY <3>1, <4>1 DEF Fifo!fifoVars
    <3>4. QED
      BY <3>2, <3>3
  <2>3. CASE WaitForItem(c)
    BY <2>3 DEF WaitForItem, Fifo!fifoVars
  <2>4. QED
    BY <1>2, <2>1, <2>2, <2>3
<1>3. ASSUME NEW p \in Producers, NEW mode \in PushModes, push_until(p, mode)
      PROVE  [Fifo!FifoNext]_(Fifo!fifoVars)
  <2>1. issued + 1 \in Ids /\ UNCHANGED ended
    BY <1>0, <1>3 DEF push_until, HistoryOK, Ids
  <2>2. \/ ~q.closed /\ ~IsFull(q) /\ Insert(p, issued + 1)
        \/ ~q.closed /\ IsFull(q) /\ DropNewest(p, issued + 1)
        \/ ~q.closed /\ IsFull(q) /\ DropOldest(p, issued + 1)
        \/ \E st \in PushStatus : Refuse(p, issued + 1, st)
        \/ WaitForSpace(p, issued + 1)
    BY <1>3 DEF push_until, PushStatus
  <2>3. QED
    BY <1>1, <2>1, <2>2
<1>4. ASSUME NEW p \in Producers, wait_for_space(p)
      PROVE  [Fifo!FifoNext]_(Fifo!fifoVars)
  <2>1. pval[p] \in Ids /\ UNCHANGED ended
    BY <1>0, <1>4 DEF wait_for_space, HistoryOK, PushersOK, Ids
  <2>2. \/ ~q.closed /\ ~IsFull(q) /\ Insert(p, pval[p])
        \/ \E st \in PushStatus : Refuse(p, pval[p], st)
        \/ WaitForSpace(p, pval[p])
    BY <1>4 DEF wait_for_space, PushStatus, StoreAfterWait
  <2>3. QED
    BY <1>1, <2>1, <2>2
<1>5. ASSUME NEW c \in Consumers, NEW mode \in PopModes, pop_until(c, mode)
      PROVE  [Fifo!FifoNext]_(Fifo!fifoVars)
  BY <1>2, <1>5 DEF pop_until
<1>6. ASSUME NEW c \in Consumers, wait_for_item(c)
      PROVE  [Fifo!FifoNext]_(Fifo!fifoVars)
  BY <1>2, <1>6 DEF wait_for_item, OnlyTimedExpire
<1>7. ASSUME NEW k \in Closers, close(k)
      PROVE  [Fifo!FifoNext]_(Fifo!fifoVars)
  <2>1. /\ q'.items = q.items /\ q'.capacity = q.capacity /\ q'.closed = TRUE
        /\ ended' = ended
    BY <1>0, <1>7, CloseQueueProperties DEF close, history
  <2>2. Fifo!Shut
    BY <2>1 DEF Fifo!Shut
  <2>3. QED
    BY <2>2 DEF Fifo!FifoNext
<1>8. ASSUME NEW k \in Closers, close_notify_empty(k) \/ close_notify_full(k)
      PROVE  [Fifo!FifoNext]_(Fifo!fifoVars)
  BY <1>8 DEF close_notify_empty, close_notify_full, history, Fifo!fifoVars
<1>9. ASSUME clear
      PROVE  [Fifo!FifoNext]_(Fifo!fifoVars)
  <2>1. /\ q'.items = <<>> /\ q'.capacity = q.capacity /\ q'.closed = q.closed
        /\ ended' = ended
    BY <1>0, <1>9, ClearQueueProperties DEF clear
  <2>2. Fifo!Wipe
    BY <2>1 DEF Fifo!Wipe
  <2>3. QED
    BY <2>2 DEF Fifo!FifoNext
<1>10. ASSUME Timeout \/ SpuriousWakeup
       PROVE  [Fifo!FifoNext]_(Fifo!fifoVars)
  BY <1>10 DEF Timeout, SpuriousWakeup, history, Fifo!fifoVars
<1>11. CASE UNCHANGED vars
  BY <1>11 DEF vars, Fifo!fifoVars
<1>12. QED
  BY <1>3, <1>4, <1>5, <1>6, <1>7, <1>8, <1>9, <1>10, <1>11 DEF Next

\* A freshly constructed queue is an initial state of the abstract FIFO.
LEMMA FifoInitially == Init => Fifo!FifoInit
<1> SUFFICES ASSUME Init PROVE Fifo!FifoInit
  OBVIOUS
<1>1. PICK c \in Capacities, pol \in Policies : q = NewQueue(c, pol)
  BY DEF Init
<1>2. q.items = <<>> /\ q.closed = FALSE /\ q.capacity \in Nat \ {0}
  BY <1>1 DEF NewQueue
<1>3. QED
  BY <1>2 DEF Init, Fifo!FifoInit

\* An untimed pop() never gives up.
LEMMA OnlyTimedExpireAlways == Spec => []OnlyTimedExpire
BY TypeCorrect, EndInit, ExpireNext, PTL DEF Spec

\* The queue with its mutex, condition variables, timeouts and spurious wakeups
\* implements the atomic draining FIFO, for any number of threads.
THEOREM Refinement == Spec => ImplementsFifo
<1>1. TypeOK /\ OnlyTimedExpire /\ [Next]_vars => [Fifo!FifoNext]_(Fifo!fifoVars)
  BY FifoStep
<1>2. QED
  BY <1>1, FifoInitially, TypeCorrect, OnlyTimedExpireAlways, PTL
  DEF Spec, ImplementsFifo, Fifo!FifoSpec

\* In the abstract FIFO the end is final: nothing is put into a shut buffer.
LEMMA EndStep ==
    TypeOK /\ EndIsFinal /\ [Fifo!FifoNext]_(Fifo!fifoVars) => EndIsFinal'
<1> SUFFICES ASSUME TypeOK, EndIsFinal, [Fifo!FifoNext]_(Fifo!fifoVars), ended'
             PROVE  q'.closed /\ q'.items = <<>>
  BY DEF EndIsFinal
<1>1. CASE ended
  <2>1. q.closed /\ q.items = <<>>
    BY <1>1 DEF EndIsFinal
  <2>2. QED
    BY <2>1 DEF Fifo!FifoNext, Fifo!fifoVars, Fifo!Put, Fifo!Overwrite, Fifo!Get,
                Fifo!Wipe, Fifo!Shut, Fifo!End
<1>2. CASE ~ended
  BY <1>2 DEF Fifo!FifoNext, Fifo!fifoVars, Fifo!Put, Fifo!Overwrite, Fifo!Get,
              Fifo!Wipe, Fifo!Shut, Fifo!End
<1>3. QED
  BY <1>1, <1>2

\* pop() of a closed queue says "no more" only when that is the truth for good:
\* a consequence of the refinement.
THEOREM EndNeverRevoked == Spec => []EndIsFinal
<1>1. TypeOK /\ OnlyTimedExpire /\ EndIsFinal /\ [Next]_vars => EndIsFinal'
  BY FifoStep, EndStep
<1>2. QED
  BY <1>1, EndInit, TypeCorrect, OnlyTimedExpireAlways, PTL DEF Spec

-----------------------------------------------------------------------------
(* The pool and its queue. *)

\* Every step of the pool is a step of the queue or leaves the queue alone.
LEMMA PoolQueueStep == [PoolNext]_poolVars => [Next]_vars
<1>1. ASSUME NEW p \in Producers, post(p) \/ try_post(p) \/ submit(p) \/ post_resumes(p)
      PROVE  Next
  BY <1>1 DEF post, try_post, submit, post_resumes, Next, PushModes
<1>2. ASSUME NEW w \in Consumers, run(w)
      PROVE  Next
  BY <1>2 DEF run, Next, PopModes
<1>3. ASSUME NEW w \in Consumers, task_returns(w) \/ count_completed(w)
      PROVE  UNCHANGED vars
  BY <1>3 DEF task_returns, count_completed
<1>4. ASSUME NEW k \in Closers, stop_clear(k) \/ stop_close(k)
      PROVE  Next
  BY <1>4 DEF stop_clear, stop_close, Next
<1>5. ASSUME NEW k \in Closers, stop_join(k) \/ \E drain \in BOOLEAN : stop(k, drain)
      PROVE  UNCHANGED vars
  BY <1>5 DEF stop_join, stop
<1>6. ASSUME SpuriousWakeup
      PROVE  Next
  BY <1>6 DEF Next
<1>7. CASE UNCHANGED poolVars
  BY <1>7 DEF poolVars
<1>8. QED
  BY <1>1, <1>2, <1>3, <1>4, <1>5, <1>6, <1>7 DEF PoolNext, Stopping

\* The queue inside the pool behaves as BoundedQueue does.
THEOREM PoolUsesQueue == PoolSpec => Spec
<1>1. PoolInit => Init
  BY DEF PoolInit
<1>2. QED
  BY <1>1, PoolQueueStep, PTL DEF PoolSpec, Spec

-----------------------------------------------------------------------------
(* The inductive invariant. *)

\* Types, but for completed_, whose bound follows from Counted.
PoolTypes ==
    /\ stopping \in {"no", "drain", "discard"}
    /\ spc \in [Closers -> {"idle", "clear", "close", "notify", "join", "returned", "ignored"}]
    /\ wpc \in [Consumers -> {"pop", "task", "count", "exited"}]
    /\ task \in [Consumers -> 0..MaxPush] /\ completed \in Nat
    /\ submitted \subseteq Ids /\ finished \subseteq Ids /\ discarded \subseteq Ids

\* What left the queue is in the hands of one worker, finished or discarded, and
\* each of these left the queue.
Placed ==
    /\ finished \cup discarded \subseteq ToSet(removed)
    /\ finished \cap discarded = {}
    /\ \A w \in Consumers : wpc[w] = "task" =>
         /\ task[w] \in ToSet(removed)
         /\ task[w] \notin finished /\ task[w] \notin discarded
    /\ \A w, x \in Consumers :
         wpc[w] = "task" /\ wpc[x] = "task" /\ task[w] = task[x] => w = x
    /\ \A n \in ToSet(removed) :
         n \in finished \/ n \in discarded \/ \E w \in Consumers : wpc[w] = "task" /\ task[w] = n

\* Workers between the end of a task and the increment of completed_.
Counting == {w \in Consumers : wpc[w] = "count"}

\* completed_ lags behind by the workers that have yet to increment it.
Counted == completed + Cardinality(Counting) = Cardinality(finished)

\* A worker leaves its loop only at the end of the stream.
ExitAtEnd ==
    /\ \A w \in Consumers : cmode[w] = "pop"
    /\ \A w \in Consumers : wpc[w] = "exited" => ended

\* Only stop(false) clears, and stop() returns when the workers have ended.
StopOrder ==
    /\ (\E k \in Closers : spc[k] = "clear") => stopping = "discard"
    /\ discarded # {} => stopping = "discard"
    /\ \A k \in Closers : spc[k] = "returned" => \A w \in Consumers : wpc[w] = "exited"

PoolInv ==
    /\ q.policy = "Block"
    /\ PoolTypes /\ Placed /\ Counted /\ ExitAtEnd /\ StopOrder

\* What the theorems about the queue say of the state before a step.
QueueFacts == TypeOK /\ AccountInv /\ FifoOrder

-----------------------------------------------------------------------------
(* Lemmas about what is queued and what left. *)

\* A task is queued or has left, and never both.
LEMMA QueuedOrLeft ==
    ASSUME QueueFacts
    PROVE  /\ ToSet(accepted) = ToSet(removed) \cup ToSet(q.items)
           /\ ToSet(removed) \cap ToSet(q.items) = {}
           /\ ToSet(q.items) \subseteq Ids /\ ToSet(removed) \subseteq Ids
<1>1. /\ removed \in Seq(Ids) /\ q.items \in Seq(Ids) /\ accepted = removed \o q.items
      /\ \A i, j \in DOMAIN accepted : accepted[i] = accepted[j] => i = j
  BY TypeParts DEF QueueFacts, QueueOK, HistoryOK, Queue, FifoOrder, AccountInv, AnswersTrue
<1> DEFINE items == q.items
<1>2. items \in Seq(Ids) /\ accepted = removed \o items
  BY <1>1
<1> HIDE DEF items
<1>3. ASSUME NEW i \in DOMAIN removed, NEW j \in DOMAIN items
      PROVE  removed[i] # items[j]
  <2>1. /\ i \in DOMAIN accepted /\ accepted[i] = removed[i]
        /\ Len(removed) + j \in DOMAIN accepted /\ accepted[Len(removed) + j] = items[j]
        /\ i # Len(removed) + j
    BY <1>1, <1>2
  <2>2. QED
    BY <1>1, <2>1
<1>4. ToSet(removed) \cap ToSet(items) = {}
  BY <1>3 DEF ToSet
<1>5. ToSet(items) \subseteq Ids /\ ToSet(removed) \subseteq Ids
  BY <1>1, <1>2 DEF ToSet
<1>6. QED
  BY <1>1, <1>2, <1>4, <1>5, ToSetConcat DEF items

-----------------------------------------------------------------------------
(* What the calls on the queue do to what left it. *)

\* No call changes the policy of a queue.
LEMMA PolicyKept == TypeOK /\ [Next]_vars => q'.policy = q.policy
<1> SUFFICES ASSUME TypeOK, [Next]_vars PROVE q'.policy = q.policy
  OBVIOUS
<1>0. /\ q \in Queue(Ids) /\ issued \in 0..MaxPush
      /\ \A p \in Producers : ppc[p] # "idle" => pval[p] \in 1..issued
  BY TypeParts DEF QueueOK, HistoryOK, PushersOK
<1>1. ASSUME NEW p \in Producers, NEW v \in Ids,
             Insert(p, v) \/ DropNewest(p, v) \/ (IsFull(q) /\ DropOldest(p, v)) \/ q' = q
      PROVE  q'.policy = q.policy
  <2>1. CASE Insert(p, v)
    BY <1>0, <2>1, EnqueueProperties DEF Insert
  <2>2. CASE DropNewest(p, v)
    BY <1>0, <2>2, RejectNewestProperties DEF DropNewest
  <2>3. CASE IsFull(q) /\ DropOldest(p, v)
    BY <1>0, <2>3, FullIsNotEmpty, EvictEnqueueProperties DEF DropOldest
  <2>4. CASE q' = q
    BY <2>4
  <2>5. QED
    BY <1>1, <2>1, <2>2, <2>3, <2>4
<1>2. ASSUME NEW p \in Producers, NEW mode \in PushModes, push_until(p, mode)
      PROVE  q'.policy = q.policy
  <2>1. issued + 1 \in Ids
    BY <1>0, <1>2 DEF push_until, Ids
  <2>2. \/ Insert(p, issued + 1) \/ DropNewest(p, issued + 1)
        \/ (IsFull(q) /\ DropOldest(p, issued + 1)) \/ q' = q
    BY <1>2 DEF push_until, Refuse, WaitForSpace
  <2>3. QED
    BY <1>1, <2>1, <2>2
<1>3. ASSUME NEW p \in Producers, wait_for_space(p)
      PROVE  q'.policy = q.policy
  <2>1. pval[p] \in Ids
    BY <1>0, <1>3 DEF wait_for_space, Ids
  <2>2. Insert(p, pval[p]) \/ q' = q
    BY <1>3 DEF wait_for_space, Refuse, WaitForSpace
  <2>3. QED
    BY <1>1, <2>1, <2>2
<1>4. ASSUME NEW c \in Consumers, NEW mode, Take(c) \/ PopNothing(c, mode) \/ WaitForItem(c)
      PROVE  q'.policy = q.policy
  BY <1>0, <1>4, DequeueProperties DEF Take, PopNothing, WaitForItem
<1>5. ASSUME NEW c \in Consumers, (\E mode \in PopModes : pop_until(c, mode)) \/ wait_for_item(c)
      PROVE  q'.policy = q.policy
  BY <1>4, <1>5 DEF pop_until, wait_for_item
<1>6. ASSUME NEW k \in Closers, close(k)
      PROVE  q'.policy = q.policy
  BY <1>0, <1>6, CloseQueueProperties DEF close
<1>7. ASSUME NEW k \in Closers, close_notify_empty(k) \/ close_notify_full(k)
      PROVE  q'.policy = q.policy
  BY <1>7 DEF close_notify_empty, close_notify_full
<1>8. ASSUME clear
      PROVE  q'.policy = q.policy
  BY <1>0, <1>8, ClearQueueProperties DEF clear
<1>9. CASE Timeout \/ SpuriousWakeup \/ UNCHANGED vars
  BY <1>9 DEF Timeout, SpuriousWakeup, vars
<1>10. QED
  BY <1>2, <1>3, <1>5, <1>6, <1>7, <1>8, <1>9 DEF Next

\* A push into a Block queue takes nothing out.
LEMMA PushTakesNothing ==
    ASSUME q.policy = "Block", NEW p \in Producers,
           (\E mode \in PushModes : push_until(p, mode)) \/ wait_for_space(p)
    PROVE  UNCHANGED <<removed, cmode, ended>>
<1>1. ASSUME NEW v, NEW st, Insert(p, v) \/ Refuse(p, v, st) \/ WaitForSpace(p, v)
      PROVE  UNCHANGED removed
  BY <1>1 DEF Insert, Refuse, WaitForSpace
<1>2. CASE \E mode \in PushModes : push_until(p, mode)
  BY <1>1, <1>2 DEF push_until
<1>3. CASE wait_for_space(p)
  BY <1>1, <1>3 DEF wait_for_space
<1>4. QED
  BY <1>2, <1>3

\* What the pop() of a worker may do: take the front, end, or wait.
LEMMA RunCases ==
    ASSUME TypeOK, NEW w \in Consumers, cmode \in [Consumers -> {"pop"}], run(w)
    PROVE  /\ cmode' = cmode /\ wpc[w] = "pop"
           /\ \/ /\ q.items # <<>> /\ removed' = Append(removed, Head(q.items))
                 /\ ended' = ended
                 /\ task' = [task EXCEPT ![w] = Head(q.items)]
                 /\ wpc' = [wpc EXCEPT ![w] = "task"]
              \/ /\ removed' = removed
                 /\ task' = [task EXCEPT ![w] = 0]
                 /\ \/ ended' /\ wpc' = [wpc EXCEPT ![w] = "exited"]
                    \/ ended' = ended /\ wpc' = [wpc EXCEPT ![w] = "pop"]
<1>0. /\ cpc \in [Consumers -> Waiter] /\ popped \in Nat /\ ended \in BOOLEAN /\ cmode[w] = "pop"
  BY TypeParts DEF PoppersOK, HistoryOK
<1>1. cmode' = cmode
  BY <1>0 DEF run, pop_until, wait_for_item
<1>2. Take(w) \/ PopNothing(w, "pop") \/ WaitForItem(w)
  BY <1>0 DEF run, pop_until, wait_for_item
<1>3. CASE Take(w)
  <2>1. popped' > popped
    BY <1>0, <1>3 DEF Take
  <2>2. QED
    BY <1>1, <1>3, <2>1 DEF Take, run
<1>4. CASE PopNothing(w, "pop")
  <2>1. ~(popped' > popped) /\ cpc'[w] = "idle"
    BY <1>0, <1>4 DEF PopNothing
  <2>2. ended'
    BY <1>4 DEF PopNothing
  <2>3. QED
    BY <1>1, <1>4, <2>1, <2>2 DEF PopNothing, run
<1>5. CASE WaitForItem(w)
  <2>1. ~(popped' > popped) /\ cpc'[w] # "idle"
    BY <1>0, <1>5 DEF WaitForItem
  <2>2. QED
    BY <1>1, <1>5, <2>1 DEF WaitForItem, run
<1>6. QED
  BY <1>2, <1>3, <1>4, <1>5

-----------------------------------------------------------------------------
(* Induction. *)

\* An idle pool with an empty Block queue.
LEMMA PoolInvInit == PoolInit => PoolInv
<1> SUFFICES ASSUME PoolInit PROVE PoolInv
  OBVIOUS
<1>1. PoolTypes
  BY DEF PoolInit, PoolTypes
<1>2. removed = <<>> /\ cmode = [c \in Consumers |-> "pop"] /\ ToSet(removed) = {}
  BY ToSetEmpty DEF PoolInit, Init
<1>3. Placed
  BY <1>2 DEF PoolInit, Placed
<1>4. Counted
  <2>1. Counting = {}
    BY DEF PoolInit, Counting
  <2>2. QED
    BY <2>1, FS_EmptySet DEF PoolInit, Counted
<1>5. ExitAtEnd /\ StopOrder
  BY <1>2 DEF PoolInit, ExitAtEnd, StopOrder
<1>6. QED
  BY <1>1, <1>3, <1>4, <1>5 DEF PoolInv, PoolInit

\* A worker that takes the front of the queue has a task that was in no other place.
LEMMA RunKeeps ==
    ASSUME QueueFacts, PoolInv, NEW w \in Consumers, run(w)
    PROVE  PoolTypes' /\ Placed' /\ Counted' /\ ExitAtEnd' /\ StopOrder'
<1>0. /\ PoolTypes /\ Placed /\ Counted /\ ExitAtEnd /\ StopOrder /\ TypeOK
      /\ cmode \in [Consumers -> {"pop"}]
      /\ q.items \in Seq(Ids) /\ removed \in Seq(Ids)
      /\ wpc \in [Consumers -> {"pop", "task", "count", "exited"}]
      /\ task \in [Consumers -> 0..MaxPush]
  BY TypeParts DEF PoolInv, QueueFacts, QueueOK, HistoryOK, PoppersOK, Queue, ExitAtEnd, PoolTypes
<1>1. /\ UNCHANGED <<stopVars, completed, taskVars>> /\ wpc[w] = "pop" /\ cmode' = cmode
  BY <1>0, RunCases DEF run
<1>2. ASSUME q.items # <<>>, removed' = Append(removed, Head(q.items)), ended' = ended,
             task' = [task EXCEPT ![w] = Head(q.items)], wpc' = [wpc EXCEPT ![w] = "task"]
      PROVE  PoolTypes' /\ Placed' /\ Counted' /\ ExitAtEnd' /\ StopOrder'
  <2> DEFINE n == Head(q.items)
  <2>1. /\ n \in Ids /\ n \in ToSet(q.items)
    BY <1>0, <1>2, ToSetHeadTail
  <2>2. n \notin ToSet(removed)
    BY <2>1, QueuedOrLeft
  <2>3. ToSet(removed)' = ToSet(removed) \cup {n}
    BY <1>0, <1>2, <2>1, ToSetAppend
  <2> HIDE DEF n
  <2>4. /\ wpc'[w] = "task" /\ task'[w] = n
        /\ \A x \in Consumers : x # w => wpc'[x] = wpc[x] /\ task'[x] = task[x]
    BY <1>0, <1>2 DEF n
  <2>5. PoolTypes'
    BY <1>0, <1>1, <1>2, <2>1 DEF PoolTypes, stopVars, taskVars, Ids, n
  <2>6. Placed'
    <3>1. finished' = finished /\ discarded' = discarded
      BY <1>1 DEF taskVars
    <3>2. QED
      BY <1>0, <1>1, <2>2, <2>3, <2>4, <3>1, SMTT(40) DEF Placed
  <2>7. Counted'
    <3>1. Counting' = Counting
      BY <1>1, <2>4 DEF Counting
    <3>2. QED
      BY <1>0, <1>1, <3>1 DEF Counted, taskVars
  <2>8. ExitAtEnd' /\ StopOrder'
    BY <1>0, <1>1, <1>2, <2>4 DEF ExitAtEnd, StopOrder, stopVars, taskVars
  <2>9. QED
    BY <2>5, <2>6, <2>7, <2>8
<1>3. ASSUME removed' = removed, task' = [task EXCEPT ![w] = 0],
             \/ ended' /\ wpc' = [wpc EXCEPT ![w] = "exited"]
             \/ ended' = ended /\ wpc' = [wpc EXCEPT ![w] = "pop"]
      PROVE  PoolTypes' /\ Placed' /\ Counted' /\ ExitAtEnd' /\ StopOrder'
  <2>1. /\ wpc'[w] \in {"pop", "exited"} /\ (wpc'[w] = "exited" => ended')
        /\ (ended' \/ ended' = ended)
        /\ \A x \in Consumers : x # w => wpc'[x] = wpc[x] /\ task'[x] = task[x]
    BY <1>0, <1>3
  <2>2. PoolTypes'
    <3>1. wpc' \in [Consumers -> {"pop", "task", "count", "exited"}]
      BY <1>0, <1>3
    <3>2. task' \in [Consumers -> 0..MaxPush]
      BY <1>0, <1>3
    <3>3. QED
      BY <1>0, <1>1, <3>1, <3>2 DEF PoolTypes, stopVars, taskVars
  <2>3. Placed'
    BY <1>0, <1>1, <1>3, <2>1, SMTT(40) DEF Placed, taskVars
  <2>4. Counted'
    <3>1. Counting' = Counting
      BY <1>1, <2>1 DEF Counting
    <3>2. QED
      BY <1>0, <1>1, <3>1 DEF Counted, taskVars
  <2>5. ExitAtEnd'
    BY <1>0, <1>1, <2>1 DEF ExitAtEnd
  <2>6. StopOrder'
    BY <1>0, <1>1, <2>1 DEF StopOrder, stopVars, taskVars
  <2>7. QED
    BY <2>2, <2>3, <2>4, <2>5, <2>6
<1>4. QED
  BY <1>0, <1>2, <1>3, RunCases

\* A task that returns moves from the hands of its worker to the finished ones, and
\* its worker to the ones that count.
LEMMA ReturnKeeps ==
    ASSUME QueueFacts, PoolInv, NEW w \in Consumers, task_returns(w)
    PROVE  PoolInv'
<1>0. /\ PoolTypes /\ Placed /\ Counted /\ ExitAtEnd /\ StopOrder /\ q.policy = "Block"
      /\ wpc \in [Consumers -> {"pop", "task", "count", "exited"}]
      /\ ToSet(removed) \subseteq Ids
      /\ finished \subseteq Ids
  BY QueuedOrLeft DEF PoolInv, PoolTypes
<1>1. /\ wpc[w] = "task" /\ wpc' = [wpc EXCEPT ![w] = "count"]
      /\ finished' = finished \cup {task[w]}
      /\ UNCHANGED <<q, removed, cmode, ended, stopping, spc, task, completed, submitted, discarded>>
  BY DEF task_returns, vars, stopVars
<1>2. /\ task[w] \in ToSet(removed) /\ task[w] \notin finished /\ task[w] \notin discarded
      /\ task[w] \in Ids
  BY <1>0, <1>1 DEF Placed
<1>3. wpc'[w] = "count" /\ \A x \in Consumers : x # w => wpc'[x] = wpc[x]
  BY <1>0, <1>1
<1>4. PoolTypes'
  BY <1>0, <1>1, <1>2 DEF PoolTypes
<1>5. Placed'
  BY <1>0, <1>1, <1>2, <1>3 DEF Placed
<1>6. Counted'
  <2>1. Counting' = Counting \cup {w} /\ w \notin Counting
    BY <1>1, <1>3 DEF Counting
  <2>2. IsFiniteSet(Counting) /\ IsFiniteSet(finished)
    <3>1. IsFiniteSet(Consumers) /\ Counting \subseteq Consumers
      BY ThreadsAssumption DEF Counting
    <3>2. IsFiniteSet(Ids)
      BY FS_Interval DEF Ids
    <3>3. QED
      BY <1>0, <3>1, <3>2, FS_Subset
  <2>3. /\ Cardinality(Counting') = Cardinality(Counting) + 1
        /\ Cardinality(finished') = Cardinality(finished) + 1
        /\ Cardinality(Counting) \in Nat /\ Cardinality(finished) \in Nat
    BY <1>1, <1>2, <2>1, <2>2, FS_AddElement, FS_CardinalityType
  <2>4. completed \in Nat /\ completed' = completed
    BY <1>0, <1>1 DEF PoolTypes
  <2>5. QED
    BY <1>0, <2>3, <2>4 DEF Counted
<1>7. ExitAtEnd' /\ StopOrder'
  BY <1>0, <1>1, <1>3 DEF ExitAtEnd, StopOrder
<1>8. QED
  BY <1>0, <1>1, <1>4, <1>5, <1>6, <1>7 DEF PoolInv

\* completed_ catches up by one.
LEMMA CountKeeps ==
    ASSUME PoolInv, NEW w \in Consumers, count_completed(w)
    PROVE  PoolInv'
<1>0. /\ PoolTypes /\ Placed /\ Counted /\ ExitAtEnd /\ StopOrder /\ q.policy = "Block"
      /\ wpc \in [Consumers -> {"pop", "task", "count", "exited"}]
      /\ task \in [Consumers -> 0..MaxPush] /\ completed \in Nat
  BY DEF PoolInv, PoolTypes
<1>1. /\ wpc[w] = "count" /\ wpc' = [wpc EXCEPT ![w] = "pop"]
      /\ task' = [task EXCEPT ![w] = 0] /\ completed' = completed + 1
      /\ UNCHANGED <<q, removed, cmode, ended, stopping, spc, submitted, finished, discarded>>
  BY DEF count_completed, vars, stopVars, taskVars
<1>2. wpc'[w] = "pop" /\ \A x \in Consumers : x # w => wpc'[x] = wpc[x] /\ task'[x] = task[x]
  BY <1>0, <1>1
<1>3. PoolTypes'
  BY <1>0, <1>1 DEF PoolTypes
<1>4. Placed'
  BY <1>0, <1>1, <1>2 DEF Placed
<1>5. Counted'
  <2>1. Counting' = Counting \ {w} /\ w \in Counting
    BY <1>1, <1>2 DEF Counting
  <2>2. IsFiniteSet(Counting)
    BY ThreadsAssumption, FS_Subset DEF Counting
  <2>3. Cardinality(Counting') = Cardinality(Counting) - 1 /\ Cardinality(Counting) \in Nat
    BY <2>1, <2>2, FS_RemoveElement, FS_CardinalityType
  <2>4. QED
    BY <1>0, <1>1, <2>3 DEF Counted
<1>6. ExitAtEnd' /\ StopOrder'
  BY <1>0, <1>1, <1>2 DEF ExitAtEnd, StopOrder
<1>7. QED
  BY <1>0, <1>1, <1>3, <1>4, <1>5, <1>6 DEF PoolInv

\* clear() makes the queued tasks discarded ones.
LEMMA ClearKeeps ==
    ASSUME QueueFacts, PoolInv, NEW k \in Closers, stop_clear(k)
    PROVE  PoolTypes' /\ Placed' /\ Counted' /\ ExitAtEnd' /\ StopOrder'
<1>0. /\ PoolTypes /\ Placed /\ Counted /\ ExitAtEnd /\ StopOrder
      /\ q.items \in Seq(Ids) /\ removed \in Seq(Ids)
      /\ ToSet(removed) \cap ToSet(q.items) = {} /\ ToSet(q.items) \subseteq Ids
      /\ spc \in [Closers -> {"idle", "clear", "close", "notify", "join", "returned", "ignored"}]
  BY TypeParts, QueuedOrLeft
  DEF PoolInv, QueueFacts, QueueOK, HistoryOK, Queue, PoolTypes
<1>1. /\ spc[k] = "clear" /\ spc' = [spc EXCEPT ![k] = "close"]
      /\ discarded' = discarded \cup ToSet(q.items) /\ removed' = removed \o q.items
      /\ UNCHANGED <<stopping, wpc, task, completed, submitted, finished, cmode, ended>>
  BY DEF stop_clear, clear, runVars
<1> DEFINE items == ToSet(q.items)
<1>2. ToSet(removed)' = ToSet(removed) \cup items
  BY <1>0, <1>1, ToSetConcat
<1>3. PoolTypes'
  BY <1>0, <1>1 DEF PoolTypes
<1>4. Placed'
  <2>1. discarded' = discarded \cup items /\ ToSet(removed) \cap items = {}
    BY <1>0, <1>1
  <2> HIDE DEF items
  <2>2. QED
    BY <1>0, <1>1, <1>2, <2>1 DEF Placed
<1>5. Counted'
  BY <1>0, <1>1 DEF Counted, Counting
<1>6. ExitAtEnd'
  BY <1>0, <1>1 DEF ExitAtEnd
<1>7. StopOrder'
  <2>1. stopping = "discard" /\ \A j \in Closers : spc'[j] = "returned" => spc[j] = "returned"
    BY <1>0, <1>1 DEF StopOrder
  <2>2. QED
    BY <1>0, <1>1, <2>1 DEF StopOrder
<1>8. QED
  BY <1>3, <1>4, <1>5, <1>6, <1>7

\* Every step of the pool keeps the invariant.
LEMMA PoolInvNext == QueueFacts /\ PoolInv /\ [PoolNext]_poolVars => PoolInv'
<1> SUFFICES ASSUME QueueFacts, PoolInv, [PoolNext]_poolVars PROVE PoolInv'
  OBVIOUS
<1>0. /\ PoolTypes /\ Placed /\ Counted /\ ExitAtEnd /\ StopOrder /\ q.policy = "Block"
      /\ TypeOK /\ issued \in 0..MaxPush
  BY TypeParts DEF PoolInv, QueueFacts, HistoryOK
<1>1. q'.policy = "Block"
  BY <1>0, PoolQueueStep, PolicyKept
<1>2. ASSUME NEW p \in Producers, post(p) \/ try_post(p) \/ submit(p) \/ post_resumes(p)
      PROVE  PoolInv'
  <2>1. (\E mode \in PushModes : push_until(p, mode)) \/ wait_for_space(p)
    BY <1>2 DEF post, try_post, submit, post_resumes, PushModes
  <2>2. UNCHANGED <<removed, cmode, ended>>
    BY <1>0, <2>1, PushTakesNothing
  <2>3. UNCHANGED <<stopping, spc, wpc, task, completed, finished, discarded>>
    BY <1>2 DEF post, try_post, submit, post_resumes, stopVars, runVars, taskVars
  <2>4. submitted' \subseteq Ids
    <3>1. CASE submit(p)
      BY <1>0, <3>1 DEF submit, push_until, Ids, PoolTypes
    <3>2. CASE ~submit(p)
      BY <1>0, <1>2, <3>2 DEF post, try_post, post_resumes, taskVars, PoolTypes
    <3>3. QED
      BY <3>1, <3>2
  <2>5. QED
    BY <1>0, <1>1, <2>2, <2>3, <2>4
    DEF PoolInv, PoolTypes, Placed, Counted, Counting, ExitAtEnd, StopOrder
<1>3. ASSUME NEW w \in Consumers, run(w)
      PROVE  PoolInv'
  BY <1>1, <1>3, RunKeeps DEF PoolInv
<1>4. ASSUME NEW w \in Consumers, task_returns(w) \/ count_completed(w)
      PROVE  PoolInv'
  BY <1>4, ReturnKeeps, CountKeeps
<1>5. ASSUME NEW k \in Closers, stop_clear(k)
      PROVE  PoolInv'
  BY <1>1, <1>5, ClearKeeps DEF PoolInv
<1>6. ASSUME UNCHANGED <<removed, cmode, ended, runVars, taskVars>>, PoolTypes', StopOrder'
      PROVE  PoolInv'
  BY <1>0, <1>1, <1>6
  DEF PoolInv, Placed, Counted, Counting, ExitAtEnd, runVars, taskVars
<1>7. ASSUME NEW k \in Closers, stop_close(k)
      PROVE  PoolInv'
  <2>1. UNCHANGED <<removed, cmode, ended, stopping, runVars, taskVars>>
    BY <1>7 DEF stop_close, close, close_notify_empty, close_notify_full, history
  <2>2. \E pc \in {"join", "notify"} : spc' = [spc EXCEPT ![k] = pc]
    BY <1>7 DEF stop_close
  <2>3. PoolTypes' /\ StopOrder'
    BY <1>0, <2>1, <2>2 DEF PoolTypes, StopOrder, runVars, taskVars
  <2>4. QED
    BY <1>6, <2>1, <2>3
<1>8. ASSUME NEW k \in Closers, stop_join(k)
      PROVE  PoolInv'
  <2>1. /\ UNCHANGED <<removed, cmode, ended, stopping, runVars, taskVars>>
        /\ spc' = [spc EXCEPT ![k] = "returned"] /\ \A w \in Consumers : wpc[w] = "exited"
    BY <1>8 DEF stop_join, vars
  <2>2. PoolTypes' /\ StopOrder'
    BY <1>0, <2>1 DEF PoolTypes, StopOrder, runVars, taskVars
  <2>3. QED
    BY <1>6, <2>1, <2>2
<1>9. ASSUME NEW k \in Closers, NEW drain \in BOOLEAN, stop(k, drain)
      PROVE  PoolInv'
  <2>1. UNCHANGED <<removed, cmode, ended, runVars, taskVars>>
    BY <1>9 DEF stop, vars
  <2>2. \/ /\ stopping = "no" /\ stopping' = "drain" /\ spc' = [spc EXCEPT ![k] = "close"]
        \/ /\ stopping = "no" /\ stopping' = "discard" /\ spc' = [spc EXCEPT ![k] = "clear"]
        \/ stopping' = stopping /\ spc' = [spc EXCEPT ![k] = "ignored"]
    BY <1>9 DEF stop
  <2>3. PoolTypes' /\ StopOrder'
    BY <1>0, <2>1, <2>2 DEF PoolTypes, StopOrder, runVars, taskVars
  <2>4. QED
    BY <1>6, <2>1, <2>3
<1>10. CASE (SpuriousWakeup /\ UNCHANGED <<stopVars, runVars, taskVars>>) \/ UNCHANGED poolVars
  <2>1. UNCHANGED <<removed, cmode, ended, stopVars, runVars, taskVars>>
    BY <1>10 DEF SpuriousWakeup, history, poolVars, vars
  <2>2. PoolTypes' /\ StopOrder'
    BY <1>0, <2>1 DEF PoolTypes, StopOrder, stopVars, runVars, taskVars
  <2>3. QED
    BY <1>6, <2>1, <2>2
<1>11. QED
  BY <1>2, <1>3, <1>4, <1>5, <1>7, <1>8, <1>9, <1>10 DEF PoolNext, Stopping

-----------------------------------------------------------------------------
(* The theorems. *)

\* The queue's theorems, of the pool's queue.
LEMMA PoolQueueFacts == PoolSpec => [](QueueFacts /\ EndIsFinal)
<1>1. TypeOK /\ AccountInv /\ FifoOrder => QueueFacts
  BY DEF QueueFacts
<1>2. QED
  BY <1>1, PoolUsesQueue, TypeCorrect, AccountAlways, OrderKept, EndNeverRevoked, PTL

\* The invariant holds at all times.
LEMMA PoolInvAlways == PoolSpec => []PoolInv
BY PoolInvInit, PoolInvNext, PoolQueueFacts, PTL DEF PoolSpec

\* completed_ counts finished tasks.
LEMMA CompletedBounded ==
    ASSUME PoolInv
    PROVE  completed \in 0..MaxPush
<1>1. /\ finished \subseteq Ids /\ completed \in Nat
      /\ completed + Cardinality(Counting) = Cardinality(finished)
  BY DEF PoolInv, PoolTypes, Counted
<1>2. IsFiniteSet(Ids) /\ Cardinality(Ids) = MaxPush
  BY FS_Interval DEF Ids
<1>3. Cardinality(finished) \in Nat /\ Cardinality(finished) <= MaxPush
  BY <1>1, <1>2, FS_Subset, FS_CardinalityType
<1>4. IsFiniteSet(Counting) /\ Cardinality(Counting) \in Nat
  BY ThreadsAssumption, FS_Subset, FS_CardinalityType DEF Counting
<1>5. QED
  BY <1>1, <1>3, <1>4

\* A task that post() accepted is queued, in the hands of one worker, finished or
\* discarded, and in one of these places only: for any number of workers that may
\* post themselves, and with stop(false) at any time.
THEOREM TasksRunOnce == PoolSpec => []TasksOnce
<1>1. ASSUME QueueFacts, PoolInv PROVE TasksOnce
  <2>1. PoolTypeOK
    BY <1>1, CompletedBounded DEF PoolTypeOK, PoolInv, PoolTypes, QueueFacts
  <2>2. /\ ToSet(accepted) = ToSet(removed) \cup ToSet(q.items)
        /\ ToSet(removed) \cap ToSet(q.items) = {}
    BY <1>1, QueuedOrLeft
  <2>3. Placed
    BY <1>1 DEF PoolInv
  <2>4. ASSUME NEW n \in ToSet(accepted)
        PROVE  LET places == <<n \in ToSet(q.items), n \in finished, n \in discarded,
                               \E w \in Consumers : wpc[w] = "task" /\ task[w] = n>>
               IN  /\ \E i \in DOMAIN places : places[i]
                   /\ \A i, j \in DOMAIN places : places[i] /\ places[j] => i = j
    <3> DEFINE a == n \in ToSet(q.items)
               b == n \in finished
               c == n \in discarded
               d == \E w \in Consumers : wpc[w] = "task" /\ task[w] = n
    <3>1. a \/ b \/ c \/ d
      BY <2>2, <2>3 DEF Placed
    <3>2. ~(a /\ b) /\ ~(a /\ c) /\ ~(a /\ d) /\ ~(b /\ c) /\ ~(b /\ d) /\ ~(c /\ d)
      BY <2>2, <2>3 DEF Placed
    <3> HIDE DEF a, b, c, d
    <3> DEFINE places == <<a, b, c, d>>
    <3>3. /\ DOMAIN places = 1..4
          /\ places[1] = a /\ places[2] = b /\ places[3] = c /\ places[4] = d
      OBVIOUS
    <3> HIDE DEF places
    <3>4. \A i : i \in DOMAIN places <=> i = 1 \/ i = 2 \/ i = 3 \/ i = 4
      BY <3>3
    <3>5. \E i \in DOMAIN places : places[i]
      BY <3>1, <3>3, <3>4, Zenon
    <3>6. ASSUME NEW i \in DOMAIN places, NEW j \in DOMAIN places, places[i], places[j]
          PROVE  i = j
      <4>1. (i = 1 => a) /\ (i = 2 => b) /\ (i = 3 => c) /\ (i = 4 => d)
        BY <3>3, <3>6, Zenon
      <4>2. (j = 1 => a) /\ (j = 2 => b) /\ (j = 3 => c) /\ (j = 4 => d)
        BY <3>3, <3>6, Zenon
      <4>3. QED
        BY <3>2, <3>4, <4>1, <4>2
    <3>7. QED
      BY <3>5, <3>6, Zenon DEF places, a, b, c, d
  <2>5. QED
    BY <2>1, <2>4 DEF TasksOnce
<1>2. QED
  BY <1>1, PoolQueueFacts, PoolInvAlways, PTL

\* When the stop() that did the work has returned, no worker runs, every accepted task
\* ran to its end and is counted, or was discarded, and stop(true) discarded none.
THEOREM StopLeavesRest == PoolSpec => []StoppedMeansDone
<1>1. ASSUME QueueFacts, EndIsFinal, PoolInv PROVE StoppedMeansDone
  <2> SUFFICES ASSUME NEW k \in Closers, spc[k] = "returned"
               PROVE  /\ \A w \in Consumers : wpc[w] = "exited"
                      /\ ToSet(accepted) = finished \cup discarded
                      /\ completed = Cardinality(finished)
                      /\ stopping = "drain" => discarded = {}
    BY DEF StoppedMeansDone
  <2>1. \A w \in Consumers : wpc[w] = "exited"
    BY <1>1 DEF PoolInv, StopOrder
  <2>2. q.items = <<>>
    BY <1>1, <2>1, WorkersAssumption DEF PoolInv, ExitAtEnd, EndIsFinal
  <2>3. ToSet(accepted) = ToSet(removed)
    BY <1>1, <2>2, QueuedOrLeft, ToSetEmpty
  <2>4. ToSet(removed) = finished \cup discarded
    BY <1>1, <2>1 DEF PoolInv, Placed
  <2>5. completed = Cardinality(finished)
    <3>1. Counting = {} /\ completed \in Nat
      BY <1>1, <2>1 DEF Counting, PoolInv, PoolTypes
    <3>2. Cardinality(Counting) = 0
      BY <3>1, FS_EmptySet
    <3>3. QED
      BY <1>1, <3>1, <3>2 DEF PoolInv, Counted
  <2>6. stopping = "drain" => discarded = {}
    BY <1>1 DEF PoolInv, StopOrder
  <2>7. QED
    BY <2>1, <2>3, <2>4, <2>5, <2>6
<1>2. QED
  BY <1>1, PoolQueueFacts, PoolInvAlways, PTL
=============================================================================
