# Models and proofs for the robot data bus (rdb)

`src/code` is a header-only C++20 library, a teaching implementation of the core
of a robot middleware: bounded queues, an in-process publish/subscribe bus with
QoS, a lock-free ring, a thread pool, a buffer pool, framing and a message
header.  This directory models it in TLA+, checks the models with TLC on small
instances, and proves the central results with TLAPS for all instances.

## 1. Inventory

| Part | Source (`src/code/include/rdb/`) | State | Operations | What is hard |
| --- | --- | --- | --- | --- |
| BoundedQueue | `concurrency/bounded_queue.h` | `items_`, `capacity_`, `policy_`, `closed_`, `dropped_`, `high_water_`; the threads waiting on `not_empty_` and `not_full_` | `push`, `push_for`, `try_push`, `pop`, `pop_for`, `try_pop`, `close`, `clear` | wakeups, timeouts, closing while threads wait |
| QoS | `bus/qos.h` | none | presets, `check_compatible` | a partial order of four policies |
| TopicBus | `bus/topic_bus.h` | topics with subscribers and a latch, counters, one queue and one worker per subscriber | `advertise`, `publish`, `subscribe`, `unsubscribe`, `shutdown`, `wait_for_idle`, `set_qos_mismatch_handler`, `set_reliable_timeout`, `deliver_loop` | pushes outside the lock, late joiners, stopping, stuck callbacks |
| SpscRing | `concurrency/spsc_ring.h` | two indices, a cached copy of each, slots | `push`, `pop`, `size` | release/acquire order, stale caches, unsigned difference |
| ThreadPool | `concurrency/thread_pool.h` | a Block queue of tasks, workers, `stopping_` | `post`, `try_post`, `submit`, `stop` | discarding against draining, a second `stop` |
| BufferPool | `msg/buffer_pool.h` | free list, `exhausted_` | `acquire`, release by the last handle | handles that outlive the pool |
| Framing | `transport/framing.h` | `buffer_`, `head_`, `error_` | `encode_frame`, `feed`, `next`, `reset` | arbitrary pieces, compaction |
| MessageHeader | `msg/header.h` | none | `encode_header`, `decode_header`, `schema_fingerprint` | little-endian codec, validation |
| Histogram | `metrics/histogram.h` | bucket counts, `min_`, `max_`, `sum_` | `record`, `merge`, `percentile` | bucket boundaries, 64-bit edge |
| Clock, Ticker | `common/time.h` | `next_` | `now_ns`, `sleep_until_next` | late wakeups, catching up |
| Benchmarks | `bench/` | the loop of the main thread, a flag, counters | publish at a rate with pooled buffers; push through the ring | counters read at the end, a flag beside a lock-free ring |
| Test harness | `testing/check.h` | - | - | - |

How they interact: TopicBus gives every subscriber a BoundedQueue (Block for
Reliable, DropOldest for BestEffort) and a thread that pops from it; publishers
push to those queues outside the lock of the bus.  ThreadPool is a BoundedQueue of
tasks.  The latency benchmark is the program that puts the bus, the buffer pool and
the ticker together: a message carries a pooled buffer, which goes back when the last
subscriber has dropped the message.  A message header is the start of a frame's
payload.

What makes each part correct:

* BoundedQueue: first in, first out; never above capacity; every push answers
  truthfully; no lost wakeup; `close()` releases everybody, what is queued can
  still be taken, and the end a consumer sees is final.
* QoS: `check_compatible` is the Requested/Offered rule.
* SpscRing: a FIFO without a lock; no slot is used by both sides at once.
* TopicBus: no message twice, none missing; `true` from `publish` is a promise, and one
  subscriber that refuses a message costs no other its own; who pushes offers what was asked for;
  nothing runs after `unsubscribe()`; a stuck subscriber does not block
  publishers for ever; the counters add up.

* ThreadPool: a task that was accepted runs once or is discarded by `stop(false)`; after
  `stop()` nothing runs; a future becomes ready or broken.
* BufferPool: a buffer is in one place; the pool is not touched after its end; nothing
  leaks.
* Framing and header: what comes out is what was sent, whatever the pieces, as long as
  nobody resets the decoder inside a frame; an error has a reason; the buffer stays in
  proportion to what is unread.
* Histogram: it stands for its samples; a percentile is never too low, at most one part
  in 64 too high, and rounding costs it one sample at most.
* Ticker: no drift, no burst.

`PROJECT.json` lists the hazards line by line and the properties that cover them.

## 2. Modules

| Module | What it is |
| --- | --- |
| `QueueOps` | the members under the queue's mutex as a record, and each critical section as an operator on it |
| `BoundedQueue` | threads around one mutex and two condition variables |
| `DrainingFifo` | the abstract queue: an atomic FIFO that can be shut and then drains |
| `DataLemmas` | lemmas about sequences, finite sets, sums, powers of two and division, and about the operators of `QueueOps` |
| `Qos` | QoS values, presets, `check_compatible`, and the reference order |
| `TopicBus` | the bus, its publishers, subscription owners, workers, a thread in `shutdown()` and one in `wait_for_idle()` |
| `TopicBusProperties` | what the bus must guarantee, and what comments say of it |
| `TopicBusProofs` | theorems: `check_compatible`, and every safety property of the bus |
| `SpscRing` | the lock-free ring, memory access by memory access |
| `SpscRingProofs` | theorems about it |
| `RoundUpPow2` | `round_up_pow2` against its reference, on words of `Bits` bits |
| `RingBench` | `run_spsc_ring` of the throughput benchmark, on top of `SpscRing` |
| `ThreadPool` | the pool, on top of `BoundedQueue` |
| `ThreadPoolProofs` | theorems about `BoundedQueue`, and about the pool on top of them |
| `PoolOps` | the members under the mutex of the buffer pool, and its critical sections |
| `BufferPool` | threads that own the pool and hold, share and drop handles, and the deleter |
| `BufferPoolProofs` | theorems about it |
| `LatencyBench` | the latency benchmark: `TopicBus`, `PoolOps` and the `Ticker` |
| `LatencyBenchProofs` | theorems about it, on top of those about the bus |
| `ByteCodec` | little-endian integers on bytes of `Bits` bits |
| `Framing` | `encode_frame` and `FrameDecoder` at the ends of a stream |
| `MessageHeader` | the header and its codec |
| `MessageStream` | headers and other payloads in frames: `Framing` and `MessageHeader` |
| `MessageStreamProofs` | theorems about the codec, the decoder and the headers that travel |
| `SchemaFingerprint` | `schema_fingerprint`, on short words |
| `Histogram` | histograms next to the samples they stand for |
| `HistogramProofs` | theorems about it |
| `MC...` | instances for TLC |

Each model keeps, immediately before a definition, *variants* of it ("Variant:
...") that nothing uses.  They are mistakes one could make in that place of the
code; put in place of the definition, each makes TLC report the property that
`PROJECT.json` names beside it.

### BoundedQueue

A step is one critical section: from taking `mutex_` to releasing it or waiting.
A thread's place (`ppc`, `cpc`) is `idle`, `wait`, `woken` (notified, or woken
spuriously) or `expired` (deadline reached).  A woken thread takes the mutex again
and re-evaluates its predicate, which is what the predicate forms of `wait` and
`wait_until` do; an expired one does the same and gives up only if the predicate
is still false.  `notify_one` may choose any waiting thread.  `close()` releases
the mutex before it notifies, so it is three actions.  `push`, `push_for` and
`try_push` differ in the deadline alone and are the `mode` of `push_until`, as
in the code; so are the three pops.  The n-th push pushes the value n; the variables
under "history" in the module record what happened and influence nothing.

Left out: the getters, and where an evicted value is destroyed.

### SpscRing

A step is one access to shared memory.  Indices run modulo `Wrap` instead of 2^64, so
TLC sees them wrap many times and needs no bound on the number of pushes.  An acquire
load may return any value that the other side has stored since the last one seen
(`Load`), which is what the C++ memory model allows; that the slot accesses before a
release store are visible to whoever loads the value is the guarantee of
release/acquire, and what `SlotsExclusive` shows is that this is all the ring needs.
`size()` is two loads, seen by either side: its own index and a load of the other's
(`SizeInBounds`).  A third thread that calls it between a push and a pop can see the
unsigned difference wrap; the producer and the consumer cannot.

`RingBench` is the client: the values are the numbers it pushes, so that one that is
skipped, repeated or out of order shows.  An acquire load of the flag that returns true
makes the producer's last store visible to the pop after it (`Synchronised`), which is
why the second pop of the consumer's loop settles the matter.

### TopicBus

A step is what a thread does under one lock.  `publish_erased` is: take the time
stamp (`publish`); under `mutex_` number, latch and sort the subscribers into
targets and mismatches (`publish_erased`, or `publish_wrong_type`); call the
handler (`report_mismatches`); then one push per target (`push_target`, or
`push_fails` when the queue is closed or a Reliable one stays full for
`reliable_timeout_`, of which the model says only that it is finite).
`subscribe` registers and copies the latch under the lock, then pushes the
backlog message by message (`replay_backlog`), then starts the worker
(`start_worker`).  The worker takes a message (`deliver_pop`), reads the clock and
judges it (`deliver_judge`) and returns from the callback (`callback_returns`).
`unsubscribe` and `shutdown` take subscribers off the lists, close their queues and
join; `wait_for_idle` holds the lock shared while it looks at one queue after the
other, and every other lock is exclusive.  Publishers push without that lock, so the
queues fill again behind the scan; `IdleIsIdle` is therefore about what each queue had
accepted when the scan began (`idler.before`, a history variable).

Two properties are about steps because a state does not show them.  `OffersRespected`
looks at each message as it enters a queue: if the subscriber's own thread does not move,
a publisher pushed it, and must offer what was asked for, whatever the durability of the
subscriber; what the subscriber's thread puts there is backlog.  `PromiseKept` says of
every step that takes a target off a publisher's list that the message entered the
queue or could not, so that one refusal does not end the loop.

The queue's calls are atomic here, through `QueueOps`; that they may be taken to be
is the refinement theorem of `ThreadPoolProofs`.

Choices:

* A `Publisher` is used by one thread at a time.  `publish` is `const` and could be
  shared; two threads are two elements of `Publishers` with the same topic and QoS.
* Each `SubscriptionHandle` has one owner, who may unsubscribe once.
* Two threads that join one `std::thread` (an `unsubscribe` and a `shutdown` that
  both found it joinable) is undefined behaviour.  The model takes the outcome of
  libstdc++ on Linux, where the second `join` throws: its caller ends in `threw`.
* `QoS::history` is not part of the model: no line reads it.
* Payloads are left out; an envelope is its publisher, sequence number and time.
* Callbacks call nothing of the bus.
* The loops of `publish_erased` and of the `erase` calls over a list of subscribers are
  `Only`, a recursive function: `SelectSeq` is a built-in of TLC without a
  definition that a proof could use.

### ThreadPool

Built on `BoundedQueue` itself, waits and wakeups included: workers are consumers,
posting threads producers, threads in `stop()` closers.  A worker in a task may be a
producer too.  `stop(drain)` is the exchange of `stopping_`, `clear()`, the three steps
of `close()`, and the joins.  A future is settled when its task has returned or was
destroyed by `clear()`.  A task that throws is left out: `run()` does not catch it.

Two things the model shows that a user may not expect.  Between the `clear()` and the
`close()` of `stop(false)` a blocked `post()` finds room, so that its task runs
although queued tasks were to be discarded; `TasksOnce` and `StoppedMeansDone` say what
still holds.  And a second `stop()` returns at once, before the workers have ended.

### BufferPool

A handle is copied and dropped; the thread that drops the last one runs the deleter,
which is `weak.lock()`, then `release` and the end of the reference it took, or
`delete`.  The reference taken by `weak.lock()` keeps the pool alive (`Pins`), so that the
pool may end in a deleter.

### LatencyBench

The main thread is the publisher; its place in `main()` is `main.pc`.  It takes the
actions of `TopicBus` in the order of the program, the workers take theirs at any time.
A buffer goes back in the step that drops the last reference to its message, which
`BufferPool` shows to be right.  The QoS of the benchmark sets neither deadline nor
lifespan, so nothing in the bus reads the time: `now` stands still and the ticker has
a clock of its own, which moves in the places where the ticker could notice.  The
histogram of each subscriber is left out (see `Histogram`).  `MainAssumption` is the
program's use of the bus: one publisher, one QoS on both sides, no durations.

### Framing, MessageHeader, MessageStream

In the instance for TLC a byte has two bits instead of eight, with magic numbers to match; widths in bytes,
offsets and order are those of the code.  The reader feeds a piece and then calls
`next()` until it returns false.  `reset()` may come at any point between two pieces, in
the middle of a frame too, after which the decoder sees payload as a prefix.  Nothing keeps
a payload from showing the magic, and two headers of the instance do, at a place where a
piece may end: then the decoder, after the `reset()`, takes a part of a payload for a frame.
This is in the nature of the format, and `NoPhantomFrame` says exactly that much: what comes out
stands in the stream, within the limit and behind what came before; at the start of a
frame it is that frame; elsewhere only after a `reset()`.  So a stream that shows the
magic at the starts of its frames alone yields nothing but what was sent.
`FrameAssumption` and `HeadersAssumption` say that what is written into
a field fits its width, as the types of the code do.

### Histogram

Words of 6 bits and 4 sub-buckets in the instance for TLC, instead of 64 and 64.  That the
buckets tile the whole range of a word, up to the wrap in the last one, is an assumption of
the instance that TLC evaluates (`BucketsTile`), and a theorem for every size.

The number of samples that `percentile()` looks for is `p / 100.0 * count_` in double
precision (`histogram.h:62`).  In the model a positive double is a mantissa of `Precision`
bits and an exponent; the literal `p` (with one decimal, as `summary()` has it), the
division and the product are rounded to the nearest mantissa, ties to even.  `Precision` is
53 in the code, evaluated in double and not in a wider format (`FLT_EVAL_METHOD` 0), and
18 in the run, where 28 % of 25 samples come out just above 7 (`RoundsUp`).  In the code
99.9 % of 1000 samples come out just above 999, so that the p99.9 that `summary()`
prints is the bucket of the largest sample and not of the one before.
`PercentileConservative` allows that: where the share is a whole number of samples, the
next sample may be meant; not for eighths (50 %, 25 %, 100 %), which are exact.  It holds
below 2.2 * 10^12 samples (`PrecisionAssumption`).

The comment at `histogram.h:18` gives the relative error as 1/128: that is the error to the
middle of a bucket; the upper bound that `percentile()` returns is off by up to 1/64, which
is what the property states.  `percentile(0)` returns 0 whatever the samples, since no
bucket is needed to reach a share of 0.

## 3. Runs

`CHECK_DEADLOCK FALSE` in the runs of the bus and of the benchmark, because a bus on
which the bounded number of publishes and stops has been used up may rest.

| Run | Instance | Distinct states | Shows |
| --- | --- | --- | --- |
| `bq_safety` | 2 producers, 2 consumers, 1 closer, capacities 0 and 2, all policies, 4 pushes | 876 000 | types and bounds, no lost wakeup, order, accounting, truthful status, final end, refinement of `DrainingFifo` |
| `pool` | 1 worker that also posts, 1 producer, 2 stoppers, capacity 1, 3 tasks | 81 000 | tasks run once, a finished `stop()` means rest; futures settle, `stop()` returns and nobody sleeps on a closed queue |
| `ring` | rings of 2, 4 and 8 slots, indices modulo 16, 40 numbers | 57 000 | indices in step around the wrap, no slot shared, order, refinement of `DrainingFifo`; the consumer leaves nothing behind and ends; `round_up_pow2` on 8-bit words |
| `buffers` | 3 threads, pools asked for 0 and 2 buffers | 55 000 | one place per buffer, no use after the end, no leak |
| `wire` | two frames out of headers, short and long payloads, pieces of 3 and 60 bytes, 1 reset; two of the headers hold the prefix of a frame | 228 000 | what is buffered is the rest of the stream, what comes out stands in it and was sent unless the decoder is out of step, errors justified, compaction, headers, every frame arrives |
| `histogram` | 2 histograms of up to 25 and 2 samples, 3 values at the edges of buckets, mantissas of 18 bits | 33 000 | a histogram stands for its samples; percentiles, with a target that is rounded up |
| `latency` | 1 or 2 subscribers, depth 1, Reliable or BestEffort, pools of 1 and 3, 3 rounds, period 2, clock 1..7 | 3 375 000 | bounded backpressure, a complete report, no drift, no burst, idle is idle |
| `bus_join` | 2 publishers (latched or sensor), 2 subscribers (command, latched, or latched with BestEffort; depths 1 and 2), 2 publishes, no shutdown | 2 430 000 | no duplicate, no gap, promises, no target passed over, compatibility of what is pushed, and its counters |
| `bus_time` | 1 publisher, 1 subscriber with deadline and lifespan, 2 types, 4 publishes, 1 shutdown, clock 1..4 | 3 730 000 | the counters are what the log says, order, silence after stopping |
| `bus_liveness` | 1 publisher, 1 subscriber, depth 1, Reliable, 4 publishes, 1 shutdown, 1 `wait_for_idle` | 85 000 | `publish` returns in spite of stuck callbacks; stopping and draining end; idle is idle while a publisher pushes |

Why these bounds are enough for the cases of interest: a capacity of 0 is the
boundary case of the constructor and of one slot, 2 allows two free slots with two
waiting producers, which is where a `notify_one` too few would show; four pushes
fill the queue and block both producers.  On the bus four publishes fill a callback and a
queue of depth 1 and block; two overflow a latch and a queue of depth 1, and a backlog of
one meets a message that comes live.  With two subscribers one queue can refuse what the
other takes, and the QoS of the publisher that falls short lacks reliability, durability
or both.  Four clock readings allow a gap longer than the longest deadline or lifespan (2) and
ones just as long.  In the pool, a worker
that posts to its own full queue is stuck after three tasks; with two workers it would
take five, and show nothing more.  In the ring, 40 numbers take the indices around
twice.  In the benchmark three rounds fill the worker and the queue of a subscriber and
leave one message over; seven readings of the clock are three periods, with room for a
stall of several and for wakeups late by half a period.

`bus_join` has two subscribers and no `shutdown()`, to stay within its time; that
`PromiseKept` holds through `shutdown()` as well is what its theorem adds.

Symmetry is used for threads, publishers and subscribers, in safety runs only.

### Disagreements with comments

Two runs check what a comment of the repository says, and find that the code does
otherwise:

| Run | The comment | The behaviour TLC shows |
| --- | --- | --- |
| `bus_late_order` | `topic_bus.h:165`: history first, then the thread, so the order is kept | the subscriber is listed before its backlog is pushed; a publisher that pushes in between gets its newer message delivered first |
| `bus_shutdown_race` | `topic_bus.h:193`: closes all subscribers | `shutdown()` between listing and thread start finds nothing to join and returns; the worker starts afterwards and delivers. The handle then holds a joinable thread until somebody unsubscribes |

Further observations, without a run:

* The backlog of a late joiner is copied from the latch without `check_compatible`
  (`topic_bus.h:161`): a Reliable subscriber gets what a BestEffort publisher latched,
  although `topic_bus.h:4` says that nothing is delivered when the QoS is incompatible.
  This is why `OffersRespected` asks of a backlog only that it was offered as TransientLocal.
* A backlog longer than a Reliable queue is pushed oldest first with `try_push`, and the
  newest messages are refused, uncounted (`topic_bus.h:166`); `qos.h:18` says that a
  late joiner can catch up.  This is why `OnceAndNoGap` asks for a queue that is deep enough
  or drops its oldest.
* The latch is per topic, not per publisher, and is cut to the depth of whoever
  publishes last (`topic_bus.h:298`); the oldest go first (`OnceAndNoGap`).
* `summary()`'s p99.9 of a multiple of 1000 samples is the bucket of the sample after the
  exact one (section 2, Histogram).
* `mismatch_reported` is used up when no handler is installed (`topic_bus.h:308`), so
  one installed later does not hear of that subscriber.
* The ticker moves its base when it has missed a tick (`time.h:42`): from then on its
  ticks have another phase.  `NoDrift` holds for the stretch without a miss.

### Fairness

`ThreadPool!FairPoolSpec`: a thread inside the pool or the queue that has been woken gets
the mutex and runs; workers and a thread in `stop()` go on.  No thread is obliged to post
or to stop, there are no helpful spurious wakeups, and tasks are not assumed to end: where
a property needs it, it says so (`TasksReturn`).

`RingBench!FairBenchSpec`: both threads run, and a store is seen after finitely many loads
that missed it (strong fairness of the load that sees it), which the C++ standard asks
of implementations.

`MessageStream!Spec`: the reader reads what there is and calls `next()`; nobody has to send.

`TopicBus!FairSpec`: a thread inside a call of the library is scheduled.  The push
to a full Reliable queue ends because `push_for` has a timeout.  Callbacks are not
assumed to return: where a property needs it, it says so (`CallbacksReturn`).
`wait_for_idle()` holds the lock while it scans and scans again and again; its time limit
is reached (strong fairness of `idle_timeout`), and the instance makes one such call.
Unlimited calls could, on a `shared_mutex` that prefers readers, delay a publisher
for ever; the standard leaves that open.

## 4. Proofs

All theorems are for every value of the constants that the named assumptions allow;
what those say is that sets of threads, topics and subscribers are finite and that
bounds are natural numbers.

**The queue, in `ThreadPoolProofs`**: any finite sets of threads, any capacities, any
policies and any number of pushes (`ThreadsAssumption`, `ArgsAssumption`).

* `TypeCorrect`: `Spec => []TypeOK`.  Inductive as it stands; it is split into the parts
  `QueueOK`, `PushersOK`, `PoppersOK`, `ClosersOK`, `HistoryOK`.  The bound
  `Len(items) <= highWater <= capacity` needs the lemmas on each operator of `QueueOps`.
* `WakeupsNotLost`: `Spec => []NoLostWakeup`.  The argument counts.  `Covered(pc, n)`
  says that if anybody waits, at least n threads are awake.  A push uses up one free
  slot, so the producer that leaves may be one of the n; a pop frees one and
  wakes one; a timeout turns a waiting thread into an awake one.  After `close()` the
  closer is the witness: a thread can wait on a closed queue only until the
  `notify_all` still to come.
* `AccountsKept`: `Spec => []Accounting`.  The order (`FifoOrder`) is from sequence lemmas
  (`MoveHead`).  The extra part of `AccountInv` is
  `PendingUnanswered`: the value of a push that waits has no answer yet, and no two
  waiting producers push the same value, so that an answer counts once.
* `Refinement`: `Spec => ImplementsFifo`.  Needs the extra invariant `OnlyTimedExpire` (only
  `pop_for` can expire): without it an untimed `pop` could return `nullopt` from
  an open queue.
* `EndNeverRevoked`: `Spec => []EndIsFinal`, from the refinement step: the property is
  inductive in the abstract FIFO.

**The pool, in `ThreadPoolProofs`**: any workers, producers and stopping threads.

* `PoolUsesQueue`: `PoolSpec => Spec`.  Every step of the pool is a step of the queue or
  leaves it alone, so that the theorems above hold inside the pool and its proofs may use
  them.
* `TasksRunOnce` and `StopLeavesRest`: `TasksOnce` and `StoppedMeansDone`.  `PoolInv` says
  where a task is (`Placed`: in the queue, in one worker, finished or discarded, and in
  one of these only), that the counter lags behind by the workers about to add to it
  (`Counted`), that a worker leaves only at the end of a closed queue (`ExitAtEnd`), and
  what a thread in `stop()` has done by its place (`StopOrder`).

**`BufferPoolProofs`**: any number of threads and buffers.  `BufferInOnePlace`,
`PoolNotUsedAfterFree`, `NothingLeaks`: `OnePlace`, `NoUseAfterFree` and `NoLeak`.
`OnePlace` counts the places of a buffer; the inductive form (`Exclusive`) says that
being in one place excludes the others.  `Lifetime`: the pool lives while somebody owns or
pins it.

**`SpscRingProofs`**: any `Wrap`, and any capacity from 2 that divides it at least twice
(`RingAssumption`; powers of two below 2^64 do).

* `HoldsInFlight`, `SizeStaysInBounds`, `NoSlotRace`: `RingHoldsInFlight`, `SizeInBounds`,
  `SlotsExclusive`.  `RingInv` adds that a cached index lags behind the true one and has
  not been lapped (`CachesLag`), and what a thread in the middle of an operation
  has established (`Progress`).  Most of the work is the arithmetic of differences
  modulo a symbolic `Wrap`.
* `RingImplementsFifo`: `Spec => RingIsFifo`, the same abstract queue as `BoundedQueue`.

**QoS, in `TopicBusProofs`**, for any two QoS values: `RxOCorrect` (`check_compatible` is the RxO rule),
`ReasonTrue` (the policy it names falls short) and `MatchesSurvive` (from transitivity of
the order).

**`TopicBusProofs`**: any finite sets of topics and subscribers (`SetsAssumption`), any
publishers, types and QoS values.  Twenty-odd actions against a dozen invariants would be too many
cases, so the steps are classified once: `SubscriberSteps`, `PublisherSteps`,
`AllTopicSteps` and `StopSteps` say what a step can do to one subscriber, one publisher,
one topic and to `shutdown()`.  Each invariant is then shown against the few kinds of step
that touch what it is about.

| Theorem | Property | Inductive invariant |
| --- | --- | --- |
| `TypeCorrect` | `TypeOK` | `TypeInv`: what each call has in hand by its place.  That a number stays within `MaxPublish` needs `Numbered`: the numbers of a topic and the calls on their way to the lock together are at most the calls made |
| `StopsQuietly` | `StoppedMeansQuiet` | `QuietInv`: a worker exists exactly when `subscribe` is through, leaves an empty closed queue only, and is joined only after it left (`WorkerShape`); the subscribers `shutdown()` is through with have no running worker, if they had one when it began (`ReadyShape`) |
| `PromiseHolds` | `PromiseKept` | `PromiseInv`: a call that has not failed has delivered to the targets it is through with (`AimedShape`); a Reliable queue blocks, so what was accepted stays accounted for.  That no target is passed over is a fact of each step |
| `StatisticsTrue` | `StatsTrue` | `StatsInv`: accepted = delivered + in hand + expired + dropped + queued (`Balanced`); the counters of lateness are those of the log, and a message is skipped for its age alone (`WellTimed`) |
| `OffersHold` | `OffersRespected` | `OffersInv`: targets match, what is reported does not; `HistoryInv` for what a backlog holds; the bus counts what the subscribers count (`CountShape`, a sum over subscribers, handled as the number of pairs of a subscriber and one of its refusals) |
| `OrderHolds` | `PublisherOrder` | `OnceInv`, `LineShape`, `OrderShape`: log, held message and queue, one after the other, have each publisher's messages in order, and what is under way comes after what was accepted |
| `OnceHolds` | `OnceAndNoGap` | `HistoryInv`: what is latched or was copied from a latch is from a publisher that latches (`OriginShape`), its numbers rise (`RisingShape`), and a latch with an older message has the last one of every publisher that latches (`NewestShape`).  `GapInv`: who is listed has an open queue; what is latched has reached every listed subscriber with room, or is in its backlog, or is under way to it (`GapShape`).  That there is room is a counting argument (`Room`): accepted messages have different numbers in `1..MaxPublish`, so a queue of that capacity is not full when one more comes; one that drops its oldest takes it anyway |
| `IdleMeansIdle` | `IdleIsIdle` (of a step) | `ScanInv`: what a queue had accepted when the scan began has left the queues that the scan is through with, and a queue never takes back what left it |

Two of these arguments rest on a detail that is easy to break: `OrderShape` needs that
a publisher is used by one thread at a time, and `GapShape` that registering and copying the
latch happen under one lock.

**`LatencyBenchProofs`**: any period, any number of rounds, any pool and QoS
(`BenchAssumption`, `MainAssumption`).

* `BenchUsesBus`: `BenchSpec => Spec`.  The program subscribes with the QoS it advertised
  (`AdShape`), which makes its calls calls that the bus admits.
* `TicksDoNotDrift` and `NoCatchingUp`: `NoDrift` and `NoBurst`.  `TickerInv` relates the tick
  to the start of the loop (`Drift`) and to the beginning of each earlier round
  (`Gaps`: a period for each tick in between); a round begins at its tick or later,
  which turns `Gaps` into the distance of two rounds (`Apart`), one period short.
* `BackpressureHolds` and `ReportIsComplete`: `BackpressureBounded` and `ReportComplete`, for any
  number of subscribers, any depth and either reliability.  Neither is inductive; `BenchInv`
  is, on top of what is proved of the bus (`Base`), which the steps here use through
  `BenchUsesBus`.  Its parts:

  | part | what it says |
  |---|---|
  | `ControlShape`, `HandleShape` | where `main()` is fits where its calls are: nothing is published before everybody has joined, a call has no mismatches to report, all handles have the QoS that was advertised, and `shutdown()` finds everybody |
  | `NumberOK` | the messages loaded are the messages numbered, but for the one whose call has not got that far |
  | `PoolShape` | a buffer is free or belongs to exactly one message that somebody holds, never both; this is why the step that drops the last reference returns the right buffer once |
  | `QueueShape`, `SentShape` | nothing expires, a Reliable queue drops nothing; each numbered message was accepted by each subscriber, is on its way, or its call fails and is counted |
  | `RoundShape`, `SeenShape` | each round loaded a message or counted a refusal, in growing order, and a subscriber's counters are those of its callbacks |

  The bound is a counting argument: the messages somebody holds are the image of the places
  to hold them (`Place`: a slot of a queue or a worker), and the sum over subscribers
  counts the places (`RoomsSum`).  At the end `ReadyShape` of the bus says that all workers
  have left, so that nobody holds anything, and `PoolShape` and `Balanced` give the totals.
  TLC finds `BenchInv` true on the instance of `LatencyBench.cfg`.

**`MessageStreamProofs`**: bytes of any number of bits, any headers whose fields fit
their widths, any limit, pieces of any length and any number of frames and resets
(`BitsAssumption`, `FrameAssumption`, `HeadersAssumption`); nothing is assumed of what the
payloads show.

* The codec: `GetPut` (what `put` wrote `get` reads, by induction over the bytes on the
  remainder modulo a power of two), from it `HeaderRoundTrip`: the fields of `Layout` neither
  overlap nor leave a gap, so each is read back.
* The stream: `Framed(sent, stream)` says that the bytes are the frames of the payloads, one
  behind the other; `StartIn`, a sum of sizes, is where each starts.  `AtStart`: the prefix
  and the payload of a frame stand at its start.  `FrameTaken`: what `next()` takes off
  stands at `at`, so it is the frame that was sent if one starts there; whether one
  does is known only without a reset.
* `AlwaysRestOfStream`, `AlwaysNoPhantomFrame`, `AlwaysErrorJustified`, `AlwaysHeadersIntact`:
  the four properties, from `StreamInv`.

  | part | what it says |
  |---|---|
  | `WindowInv` | the unread bytes of the buffer are the stream from `at` on, up to `fed` unless in error; the consumed part of the buffer is less than half; the stream is `Framed` |
  | `DecodedInv` | what was decoded stands in the stream, within the limit, one behind the other and before `at` (`Comes`, `Before`), and is what was sent if a frame starts there (`Genuine`); without a reset they are the first frames and `at` is the start of the next |
  | `ErrorInv` | in error, the eight bytes at `at` are in the stream already (so that a frame sent later cannot start there), and a frame that starts there is over the limit |
  | `MessageInv` | each payload carries its message (`Carries`), and each verdict is right about the message of a frame that starts at its place |

**`HistogramProofs`**: any width of words, any number of sub-buckets below it, any
samples and any number of histograms (`WidthAssumption`), mantissas of any `Precision` that
the number of samples allows (`PrecisionAssumption`).

* `BucketsAlwaysTile`: a value from `kSubCount` on is written as `Place(shift, sub, r)`, with
  `r` its offset in the bucket; `index_of` and `bucket_upper` are computed from that form, and
  the overflow in the last bucket is the one case where the sum is 2^`Width`.
* `AlwaysStandsForSamples`: `HistogramInv` is the property itself with the types, for the
  samples as a function from values to how often each was recorded (`StandsFor`).  The work is in
  sums over finite sets (`SumChange` for `record`, `SumPlus` for `merge`) and in the
  sum modulo the word.
* `AlwaysConservative`: what `percentile()` has seen up to a bucket is the number of
  samples up to the upper bound of that bucket (`SumClasses`, a sum over classes), so the first
  bucket that reaches the target is the bucket of the first sample that does (`PercentileIs`).  The
  three roundings keep the target within one thousandth of a sample of the share, which is
  a multiple of that (`ThreeRoundings`, `TargetNear`); so a whole number of samples reaches
  the one when it reaches the other, unless it is equal to the share (`TargetReached`).

**What is only model-checked**: what `round_up_pow2` and `schema_fingerprint` compute (they
need bitwise operators, which the prover does not know), and all liveness
(`FuturesSettle`, `PoolStopReturns`, `BenchEnds`, `FramesArrive`, `PublishReturns`, `StopReturns`,
`DrainsEventually`: temporal reasoning under fairness is beyond the prover used here).  Every
invariant and action property of the runs that pass is proved.

Where a fact about a loop, a recursive function or a sum was needed (`Only`, sums,
cardinalities, powers of two), it is proved by looking at the first index at which it would
fail, or by induction over a set of indices given as a set (`DataLemmas`), since the library's
induction rules take an operator as parameter and cannot be used with the provers at hand.

## 5. Not modelled, and what could follow

Not modelled: the test harness (no part of the library at run time); `args.h` and what the
benchmarks print; `run_bounded_queue`, which uses `push`, `pop`, `close` and `join` in
the way `ThreadPool` does; `to_string`, `summary`, `mean` and `wall_ns`, which only format
or convert; exceptions from tasks and callbacks, which the library does not catch;
`thread_count()` during `stop()`, a data race on a getter.

What could follow: an instance of `TopicBus` with two topics and two subscribers in the
liveness run, and a model of the bus on which a `Publisher` is shared between threads.
