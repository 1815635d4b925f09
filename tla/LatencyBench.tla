---------------------------- MODULE LatencyBench ----------------------------
(***************************************************************************)
(* bench_bus_latency.cpp: the program that puts the bus, the buffer pool   *)
(* and the Ticker (common/time.h) together.  Its main thread is the only   *)
(* publisher: it carries a pooled buffer in each message and paces itself  *)
(* with the ticker; the workers of the bus run its callbacks; at the end   *)
(* it waits for idle, shuts the bus down and reads the counters.           *)
(*                                                                         *)
(* A message owns its buffer, so that the buffer goes back to the pool in  *)
(* the step that drops the last reference to the message.                  *)
(***************************************************************************)
EXTENDS TopicBusProperties, PoolOps

CONSTANTS PoolSizes,   \* --pool
          Count,       \* --count
          Period,      \* 1e9 / --rate
          MaxClock     \* bound: readings of the clock are 1..MaxClock

ASSUME BenchAssumption ==
    PoolSizes \subseteq Nat /\ Count \in 0..MaxPublish /\ Period \in Nat \ {0}
    /\ MaxClock \in Nat \ {0}

\* One thread publishes, one QoS is used on both sides, and it sets reliability and
\* depth only.
ASSUME MainAssumption ==
    /\ \E p \in Publishers : Publishers = {p}
    /\ Offered \subseteq Requested
    /\ \A qos \in Offered : qos.durability = "Volatile" /\ qos.deadline = 0 /\ qos.lifespan = 0

VARIABLES
    main,     \* where main() is, and its counters
    clock,    \* the steady clock, as the ticker reads it
    ticker,   \* next_
    pool,     \* the buffer pool
    cargo,    \* the buffer and Sample::seq of each message published, in order
    state,    \* SubscriberState of each subscriber
    starts    \* history: when each round of the loop began

ownVars   == <<main, clock, ticker, pool, cargo, state, starts>>
benchVars == <<vars, ownVars>>

main_thread == CHOOSE p \in Publishers : TRUE

State0 == [received |-> 0, out_of_order |-> 0, last_seq |-> 0]

BenchInit ==
    /\ Init
    /\ main = [pc |-> "setup", failed |-> 0, missed |-> 0, start |-> 0]
    /\ clock = 1 /\ ticker = 0
    /\ pool \in {NewPool(n) : n \in PoolSizes}
    /\ cargo = <<>> /\ starts = <<>>
    /\ state = [s \in Subscribers |-> State0]

Go(pc) == main' = [main EXCEPT !.pc = pc]

-----------------------------------------------------------------------------
(* References to messages. *)

\* The messages somebody holds: publish() until it returns, the queues, and the
\* workers, from the pop to the end of the callback.
InPublish == pub[main_thread].pc \in {"lock", "report", "push"} \/ main.pc = "publish"
Referenced ==
    {k \in DOMAIN cargo :
        \/ InPublish /\ k = Len(cargo)
        \/ \E s \in Subscribers :
             \/ \E e \in ToSet(sub[s].queue.items) \cup {sub[s].held} : e.seq = k
             \/ sub[s].worker = "callback" /\ Last(taken[s]).env.seq = k}

\* The deleter of BufferPtr, in the step that drops the last reference.
ReturnBuffers ==
    LET gone == Referenced \ Referenced' IN
    pool' = IF gone = {} THEN pool ELSE Release(pool, cargo[CHOOSE k \in gone : TRUE].buffer)

-----------------------------------------------------------------------------
(* main(). *)

advertise_bench(qos) ==
    /\ main.pc = "setup"
    /\ \E t \in Topics, type \in Types : advertise(main_thread, t, type, qos)
    /\ UNCHANGED ownVars

\* One handle after the other.
subscribe_bench(s) ==
    LET me == pub[main_thread] IN
    /\ main.pc = "setup" /\ me.pc = "idle"
    /\ \/ /\ \A u \in Subscribers : owner[u].pc # "replay"
          /\ subscribe(s, me.topic, me.type, me.qos)
       \/ Subscribing(s)
    /\ UNCHANGED ownVars

\* As many as --subscribers says.
Subscribed == {s \in Subscribers : owner[s].pc = "subscribed"}

start_ticker ==
    /\ main.pc = "setup" /\ Subscribed # {}
    /\ \A s \in Subscribers \ Subscribed : owner[s].pc = "idle"
    /\ main' = [main EXCEPT !.pc = "loop", !.start = clock] /\ ticker' = clock
    /\ UNCHANGED <<vars, clock, pool, cargo, state, starts>>

\* A round: without a buffer it only counts, and goes to sleep.
acquire ==
    /\ main.pc = "loop" /\ Len(starts) < Count
    /\ starts' = Append(starts, clock) /\ pool' = Acquire(pool)
    /\ IF pool.free = <<>> THEN Go("sleep") /\ UNCHANGED cargo
       ELSE /\ Go("publish")
            /\ cargo' = Append(cargo, [buffer |-> Acquired(pool), seq |-> Len(starts)])
    /\ UNCHANGED <<vars, clock, ticker, state>>

publish_sample ==
    /\ main.pc = "publish" /\ publish(main_thread)
    /\ Go("publishing")
    /\ UNCHANGED <<clock, ticker, pool, cargo, state, starts>>

\* Inside publish(); a false answer is counted.
publishing ==
    /\ main.pc = "publishing" /\ Publishing(main_thread)
    /\ main' = IF pub'[main_thread].pc # "idle" THEN main
               ELSE [main EXCEPT !.pc = "sleep",
                                 !.failed = IF pub'[main_thread].ok THEN @ ELSE @ + 1]
    /\ UNCHANGED <<clock, ticker, cargo, state, starts>>
    /\ ReturnBuffers

\* Variants: the period counts from now; ticks that were missed are made up for.
SleepAPeriod ==
    /\ main.pc = "sleep"
    /\ ticker' = clock + Period /\ Go("asleep")
    /\ UNCHANGED <<vars, clock, pool, cargo, state, starts>>
CatchUp ==
    LET next == ticker + Period IN
    /\ main.pc = "sleep"
    /\ ticker' = next
    /\ IF next <= clock THEN main' = [main EXCEPT !.pc = "loop", !.missed = @ + 1] ELSE Go("asleep")
    /\ UNCHANGED <<vars, clock, pool, cargo, state, starts>>

\* Ticker: a tick that has passed already is not waited for, and moves the base.
sleep_until_next ==
    LET next == ticker + Period IN
    /\ main.pc = "sleep"
    /\ IF next <= clock
       THEN ticker' = clock /\ main' = [main EXCEPT !.pc = "loop", !.missed = @ + 1]
       ELSE ticker' = next /\ Go("asleep")
    /\ UNCHANGED <<vars, clock, pool, cargo, state, starts>>

\* The system wakes the thread up at the tick, or later.
wake_up ==
    /\ main.pc = "asleep" /\ clock >= ticker
    /\ Go("loop")
    /\ UNCHANGED <<vars, clock, ticker, pool, cargo, state, starts>>

\* One call, until it answers.
wait_for_idle_bench ==
    /\ \/ main.pc = "loop" /\ Len(starts) = Count /\ wait_for_idle
       \/ /\ main.pc = "idle" /\ idler.pc \notin {"true", "false"}
          /\ wait_for_idle \/ idle_scan \/ idle_timeout
    /\ Go("idle")
    /\ UNCHANGED <<clock, ticker, pool, cargo, state, starts>>

shutdown_bench ==
    /\ \/ main.pc = "idle" /\ idler.pc \in {"true", "false"} /\ shutdown
       \/ main.pc = "stop" /\ ShuttingDown
    /\ Go("stop")
    /\ UNCHANGED <<clock, ticker, pool, cargo, state, starts>>

-----------------------------------------------------------------------------
(* The workers of the bus, and the callback they are given. *)

deliver(s) ==
    /\ Delivering(s)
    /\ UNCHANGED ownVars

callback(s) ==
    LET seq == cargo[Last(taken[s]).env.seq].seq IN
    /\ callback_returns(s)
    /\ state' = [state EXCEPT ![s] =
         [received |-> @.received + 1, last_seq |-> seq,
          out_of_order |-> IF seq < @.last_seq THEN @.out_of_order + 1 ELSE @.out_of_order]]
    /\ UNCHANGED <<main, clock, ticker, cargo, starts>>
    /\ ReturnBuffers

\* Time passes.  No QoS duration is set, so only the ticker depends on it: the
\* now_ns() of the bus may stand still.  The ticker takes no notice whether time
\* passes inside publish() or between its return and the next call.
clock_runs ==
    /\ main.pc \in {"loop", "sleep", "asleep"}
    /\ clock < MaxClock /\ clock' = clock + 1
    /\ UNCHANGED <<vars, main, ticker, pool, cargo, state, starts>>

BenchNext ==
    \/ \E qos \in Offered : advertise_bench(qos)
    \/ \E s \in Subscribers : subscribe_bench(s) \/ deliver(s) \/ callback(s)
    \/ start_ticker \/ acquire \/ publish_sample \/ publishing
    \/ sleep_until_next \/ wake_up \/ wait_for_idle_bench \/ shutdown_bench
    \/ clock_runs

BenchSpec == BenchInit /\ [][BenchNext]_benchVars

-----------------------------------------------------------------------------
(* Properties. *)

\* "Backpressure" has a bound: what keeps buffers out of the pool is the message
\* in publish(), one message in each worker and the depth of each queue.  A pool
\* that is larger never runs empty.
BackpressureBounded ==
    in_use(pool) <= (IF InPublish THEN 1 ELSE 0)
                  + MapThenSumSet(LAMBDA s : 1 + sub[s].queue.capacity, Subscribed)

\* What the program prints at the end is complete: shutdown() drained every queue,
\* so that each message is accounted for at each subscriber, each buffer is back
\* in the pool exactly once, and no message overtook another.
Ended == main.pc = "stop" /\ stop.pc = "returned"
ReportComplete ==
    Ended =>
        /\ in_use(pool) = 0 /\ Cardinality(ToSet(pool.free)) = pool.total
        /\ Len(cargo) + pool.exhausted = Count
        /\ \A s \in Subscribed :
             /\ state[s].received = sub[s].delivered /\ state[s].out_of_order = 0
             /\ IF sub[s].qos.reliability = "Reliable"
                THEN sub[s].delivered \in Len(cargo) - main.failed .. Len(cargo)
                ELSE main.failed = 0 /\ sub[s].delivered + sub[s].queue.dropped = Len(cargo)

\* "No accumulated drift": however late the thread is woken up, as long as no tick
\* was missed the n-th tick is at n periods after the start, and it is never early.
NoDrift ==
    LET ticks == Len(starts) - (IF main.pc \in {"publish", "publishing", "sleep"} THEN 1 ELSE 0)
    IN main.start > 0 =>
        /\ ticker >= main.start + ticks * Period
        /\ main.missed = 0 => ticker = main.start + ticks * Period
        /\ main.pc = "loop" => clock >= ticker

\* "No busy catching up": after a stall of any length the missed ticks are not made
\* up for; k + 1 rounds in a row always take at least k - 1 periods.
NoBurst ==
    \A i, j \in DOMAIN starts : i < j => starts[j] - starts[i] >= (j - i - 1) * Period
=============================================================================
