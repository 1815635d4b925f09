------------------------ MODULE LatencyBenchProofs ------------------------
(***************************************************************************)
(* Theorems about LatencyBench, on top of those about the bus it uses.     *)
(***************************************************************************)
EXTENDS LatencyBench, TopicBusProofs

-----------------------------------------------------------------------------
(* The bus inside the benchmark. *)

\* The main thread is the only publisher.
LEMMA MainPublishes == main_thread \in Publishers /\ Publishers = {main_thread}
BY MainAssumption DEF main_thread

\* What the main thread advertised.
AdShape ==
    pub[main_thread].pc # "none" =>
        /\ pub[main_thread].topic \in Topics /\ pub[main_thread].type \in Types
        /\ pub[main_thread].qos \in Offered

\* A step of the program is a step of the bus or leaves the bus alone.
LEMMA BenchIsBusStep ==
    ASSUME AdShape, [BenchNext]_benchVars
    PROVE  [Next]_vars
<1>1. CASE UNCHANGED benchVars
  BY <1>1 DEF benchVars
<1>2. ASSUME NEW qos \in Offered, advertise_bench(qos)
      PROVE  Next
  BY <1>2, MainPublishes DEF advertise_bench, Next
<1>3. ASSUME NEW s \in Subscribers, subscribe_bench(s)
      PROVE  Next
  <2>1. CASE Subscribing(s)
    BY <2>1 DEF Next
  <2>2. CASE subscribe(s, pub[main_thread].topic, pub[main_thread].type, pub[main_thread].qos)
    <3>1. pub[main_thread].pc = "idle"
      BY <1>3 DEF subscribe_bench
    <3>2. /\ pub[main_thread].topic \in Topics /\ pub[main_thread].type \in Types
          /\ pub[main_thread].qos \in Requested
      BY <3>1, MainAssumption DEF AdShape
    <3>3. QED
      BY <2>2, <3>2 DEF Next
  <2>3. QED
    BY <1>3, <2>1, <2>2 DEF subscribe_bench
<1>4. ASSUME NEW s \in Subscribers, deliver(s) \/ callback(s)
      PROVE  Next
  BY <1>4 DEF deliver, callback, Next
<1>5. CASE publish_sample \/ publishing
  BY <1>5, MainPublishes DEF publish_sample, publishing, Next
<1>6. CASE start_ticker \/ acquire \/ sleep_until_next \/ wake_up \/ clock_runs
  BY <1>6 DEF start_ticker, acquire, sleep_until_next, wake_up, clock_runs
<1>7. CASE wait_for_idle_bench
  BY <1>7 DEF wait_for_idle_bench, Next
<1>8. CASE shutdown_bench
  BY <1>8 DEF shutdown_bench, Next
<1>9. QED
  BY <1>1, <1>2, <1>3, <1>4, <1>5, <1>6, <1>7, <1>8 DEF BenchNext

\* What was advertised stays.
LEMMA AdShapeStep == TypeInv /\ AdShape /\ [BenchNext]_benchVars => AdShape'
<1> SUFFICES ASSUME TypeInv, AdShape, [BenchNext]_benchVars
             PROVE  AdShape'
  OBVIOUS
<1> DEFINE p == main_thread
<1>1. [Next]_vars /\ p \in Publishers
  BY BenchIsBusStep, MainPublishes
<1>2. p' = p
  BY DEF main_thread
<1>3. CASE pub[p].pc # "none"
  <2>1. SameAd(pub'[p], pub[p])
    BY <1>1, <1>3, AdKept
  <2>2. QED
    BY <1>3, <2>1 DEF AdShape, SameAd
<1>4. CASE pub[p].pc = "none"
  <2>1. PubStep(p)
    BY <1>1, PublisherSteps DEF PubSteps
  <2>2. \/ pub'[p] = pub[p]
        \/ \E t \in Topics, type \in Types, qos \in Offered : Advertises(p, t, type, qos)
    BY <1>4, <2>1 DEF PubStep, Calls, Numbers, WrongType, Reports, Pushes
  <2>3. QED
    BY <1>4, <2>2 DEF AdShape, Advertises
<1>5. QED
  BY <1>3, <1>4

\* The program uses the bus as the bus may be used, so that whatever is true of the bus
\* is true of the bus in the program.
THEOREM BenchUsesBus == BenchSpec => Spec
<1>1. BenchInit => Init /\ TypeInv /\ AdShape
  BY TypeInit, MainPublishes DEF BenchInit, Init, AdShape, Publisher0
<1>2. TypeInv /\ AdShape /\ [BenchNext]_benchVars => [Next]_vars /\ TypeInv' /\ AdShape'
  BY BenchIsBusStep, AdShapeStep, TypeStep
<1>3. QED
  BY <1>1, <1>2, PTL DEF BenchSpec, Spec

-----------------------------------------------------------------------------
(* The ticker. *)

\* The ticks of the rounds so far; a round ends with its tick.
InRound == main.pc \in {"publish", "publishing", "sleep"}
Ticks == Len(starts) - (IF InRound THEN 1 ELSE 0)

MainRec == [pc: {"setup", "loop", "publish", "publishing", "sleep", "asleep", "idle", "stop"},
            failed: Nat, missed: Nat, start: Nat]

\* The types of what the ticker has to do with.  The loop has not begun before the
\* ticker was started.
TickerTypes ==
    /\ main \in MainRec
    /\ clock \in Nat \ {0} /\ ticker \in Nat /\ starts \in Seq(Nat)
    /\ main.start = 0 <=> main.pc = "setup"
    /\ main.pc = "setup" => starts = <<>>
    /\ InRound => starts # <<>>

\* n ticks after the start b of the loop the tick t is n periods later, unless some were
\* missed; from the start of each round to a later tick it is a period for each tick in
\* between; and so from the start of a round to that of a later one, but for one period.
Periods(k) == k * Period
Drift(n, t, b, missed) == t >= b + Periods(n) /\ (missed = 0 => t = b + Periods(n))
Gaps(n, t, l) == \A i \in 1..n : t >= l[i] + Periods(n - i)
Apart(l) == \A i, j \in DOMAIN l : i < j => l[j] - l[i] >= Periods(j - i - 1)

\* A round begins when its tick is due, and none begins in the future.
TickerInv ==
    /\ TickerTypes
    /\ main.start > 0 => Drift(Ticks, ticker, main.start, main.missed)
    /\ InRound \/ main.pc = "loop" => clock >= ticker
    /\ \A i \in DOMAIN starts : clock >= starts[i]
    /\ Gaps(Ticks, ticker, starts)
    /\ Apart(starts)

\* A round that has not begun yet does not end, either.
TickerStill ==
    /\ clock' = clock /\ ticker' = ticker /\ starts' = starts
    /\ main' \in MainRec /\ main'.start = main.start /\ main'.missed = main.missed
    /\ InRound' <=> InRound
    /\ main'.pc = "setup" <=> main.pc = "setup"
    /\ main'.pc = "loop" => main.pc = "loop" \/ (main.pc = "asleep" /\ clock >= ticker)

\* What a step does to the ticker and to the rounds.
TickerSteps ==
    \/ TickerStill
    \/ start_ticker \/ acquire \/ sleep_until_next \/ clock_runs

\* Two of its members change.
LEMMA FailedFields ==
    ASSUME main \in MainRec, NEW k \in Nat, main' = [main EXCEPT !.pc = "sleep", !.failed = k]
    PROVE  /\ main' \in MainRec /\ main'.pc = "sleep"
           /\ main'.start = main.start /\ main'.missed = main.missed
BY DEF MainRec

\* The same for a missed tick.
LEMMA MissedFields ==
    ASSUME main \in MainRec, NEW k \in Nat, main' = [main EXCEPT !.pc = "loop", !.missed = k]
    PROVE  /\ main' \in MainRec /\ main'.pc = "loop"
           /\ main'.start = main.start /\ main'.missed = k
BY DEF MainRec

\* The main thread moves on.
LEMMA GoFields ==
    ASSUME main \in MainRec, NEW x, Go(x),
           x \in {"setup", "loop", "publish", "publishing", "sleep", "asleep", "idle", "stop"}
    PROVE  /\ main' \in MainRec /\ main'.pc = x
           /\ main'.start = main.start /\ main'.missed = main.missed
BY DEF Go, MainRec

\* Every step of the program is one of those kinds.
LEMMA TickerStepKinds ==
    ASSUME TickerTypes, [BenchNext]_benchVars
    PROVE  TickerSteps
<1>1. main \in MainRec
  BY DEF TickerTypes
<1>2. CASE UNCHANGED ownVars
  BY <1>1, <1>2 DEF ownVars, TickerSteps, TickerStill, InRound
<1>3. ASSUME NEW s \in Subscribers, subscribe_bench(s) \/ deliver(s)
      PROVE  UNCHANGED ownVars
  BY <1>3 DEF subscribe_bench, deliver
<1>4. ASSUME NEW s \in Subscribers, callback(s)
      PROVE  TickerStill
  BY <1>1, <1>4 DEF callback, TickerStill, InRound
<1>5. ASSUME NEW qos \in Offered, advertise_bench(qos)
      PROVE  UNCHANGED ownVars
  BY <1>5 DEF advertise_bench
<1>6. CASE publish_sample
  <2>1. main.pc = "publish" /\ Go("publishing") /\ UNCHANGED <<clock, ticker, starts>>
    BY <1>6 DEF publish_sample
  <2>2. QED
    BY <1>1, <2>1, GoFields DEF TickerSteps, TickerStill, InRound
<1>7. CASE publishing
  <2>1. main.pc = "publishing" /\ UNCHANGED <<clock, ticker, starts>>
    BY <1>7 DEF publishing
  <2>2. main.failed \in Nat /\ main.failed + 1 \in Nat
    BY <1>1 DEF MainRec
  <2>3. main' \in MainRec /\ main'.pc \in {"publishing", "sleep"}
        /\ main'.start = main.start /\ main'.missed = main.missed
    <3>1. CASE main' = main
      BY <1>1, <2>1, <3>1
    <3>2. CASE main' = [main EXCEPT !.pc = "sleep", !.failed = main.failed]
      BY <1>1, <2>2, <3>2, FailedFields
    <3>3. CASE main' = [main EXCEPT !.pc = "sleep", !.failed = main.failed + 1]
      BY <1>1, <2>2, <3>3, FailedFields
    <3>4. QED
      BY <1>7, <3>1, <3>2, <3>3 DEF publishing
  <2>4. QED
    BY <2>1, <2>3 DEF TickerSteps, TickerStill, InRound
<1>8. CASE wake_up
  <2>1. main.pc = "asleep" /\ clock >= ticker /\ Go("loop") /\ UNCHANGED <<clock, ticker, starts>>
    BY <1>8 DEF wake_up
  <2>2. QED
    BY <1>1, <2>1, GoFields DEF TickerSteps, TickerStill, InRound
<1>9. CASE wait_for_idle_bench
  <2>1. main.pc \in {"loop", "idle"} /\ Go("idle") /\ UNCHANGED <<clock, ticker, starts>>
    BY <1>9 DEF wait_for_idle_bench
  <2>2. QED
    BY <1>1, <2>1, GoFields DEF TickerSteps, TickerStill, InRound
<1>10. CASE shutdown_bench
  <2>1. main.pc \in {"idle", "stop"} /\ Go("stop") /\ UNCHANGED <<clock, ticker, starts>>
    BY <1>10 DEF shutdown_bench
  <2>2. QED
    BY <1>1, <2>1, GoFields DEF TickerSteps, TickerStill, InRound
<1>11. CASE UNCHANGED benchVars
  BY <1>2, <1>11 DEF benchVars
<1>12. QED
  BY <1>2, <1>3, <1>4, <1>5, <1>6, <1>7, <1>8, <1>9, <1>10, <1>11 DEF BenchNext, TickerSteps

\* A period more.
LEMMA OnePeriodMore ==
    /\ Period \in Nat /\ Period > 0 /\ Periods(0) = 0
    /\ \A k \in Int : Periods(k) \in Int /\ Periods(k + 1) = Periods(k) + Period
<1>1. Period \in Nat /\ Period > 0
  BY BenchAssumption
<1>2. \A k \in Int : k * Period \in Int /\ (k + 1) * Period = k * Period + Period
  BY <1>1
<1>3. 0 * Period = 0
  BY <1>1
<1>4. QED
  BY <1>1, <1>2, <1>3 DEF Periods

\* How many ticks there were.
TicksAre(n, list, round) ==
    /\ n \in Nat /\ Len(list) \in Nat /\ DOMAIN list = 1..Len(list)
    /\ \A i \in DOMAIN list : list[i] \in Nat
    /\ round => Len(list) = n + 1
    /\ ~round => Len(list) = n

\* A round that has begun has no tick yet.
LEMMA TicksCounted ==
    ASSUME NEW list \in Seq(Nat), NEW round \in BOOLEAN, round => list # <<>>
    PROVE  TicksAre(Len(list) - (IF round THEN 1 ELSE 0), list, round)
<1>1. Len(list) \in Nat /\ DOMAIN list = 1..Len(list) /\ \A i \in DOMAIN list : list[i] \in Nat
  OBVIOUS
<1>2. round => Len(list) >= 1
  OBVIOUS
<1>3. CASE round
  BY <1>1, <1>2, <1>3, SMTT(40) DEF TicksAre
<1>4. CASE ~round
  <2>1. Len(list) - (IF round THEN 1 ELSE 0) = Len(list)
    BY <1>1, <1>4
  <2>2. QED
    BY <1>1, <1>4, <2>1 DEF TicksAre
<1>5. QED
  BY <1>3, <1>4

\* The number of ticks, and the types, before and after a step.
LEMMA TicksType ==
    /\ TickerTypes => TicksAre(Ticks, starts, InRound)
    /\ TickerTypes' => TicksAre(Ticks', starts', InRound')
<1>1. TickerTypes => TicksAre(Ticks, starts, InRound)
  <2>1. InRound \in BOOLEAN
    BY DEF InRound
  <2>2. QED
    BY <2>1, TicksCounted DEF TickerTypes, Ticks
<1>2. TickerTypes' => TicksAre(Ticks', starts', InRound')
  <2>1. InRound' \in BOOLEAN
    BY DEF InRound
  <2>2. QED
    BY <2>1, TicksCounted DEF TickerTypes, Ticks
<1>3. QED
  BY <1>1, <1>2

\* A step that leaves the ticker alone.
LEMMA TickerStillStep == ASSUME TickerInv, TickerStill PROVE TickerInv'
<1>1. TickerTypes /\ TickerTypes'
  BY DEF TickerInv, TickerTypes, TickerStill
<1>2. Ticks' = Ticks /\ (InRound' <=> InRound)
  BY DEF TickerStill, Ticks
<1>3. QED
  BY <1>1, <1>2 DEF TickerInv, TickerStill, TickerTypes, MainRec

\* The ticker is started.
LEMMA TickerStarts == ASSUME TickerInv, start_ticker PROVE TickerInv'
<1>1. /\ main \in MainRec /\ clock \in Nat \ {0} /\ main.pc = "setup" /\ starts = <<>>
      /\ main' = [main EXCEPT !.pc = "loop", !.start = clock] /\ ticker' = clock
      /\ clock' = clock /\ starts' = starts
  BY DEF TickerInv, TickerTypes, start_ticker
<1>2. main' \in MainRec /\ main'.pc = "loop" /\ main'.start = clock /\ main'.missed = main.missed
  BY <1>1 DEF MainRec
<1>3. TickerTypes' /\ ~InRound'
  BY <1>1, <1>2 DEF TickerTypes, InRound
<1>4. Len(starts') = 0 /\ DOMAIN starts' = {} /\ Ticks' = 0
  BY <1>1, <1>3 DEF Ticks
<1>5. Periods(0) = 0
  BY OnePeriodMore
<1>6. QED
  BY <1>1, <1>2, <1>3, <1>4, <1>5 DEF TickerInv, Drift, Gaps, Apart

\* Time passes.
LEMMA ClockRuns == ASSUME TickerInv, clock_runs PROVE TickerInv'
<1>1. /\ clock \in Nat \ {0} /\ ticker \in Nat /\ clock' = clock + 1
      /\ main' = main /\ ticker' = ticker /\ starts' = starts
  BY DEF TickerInv, TickerTypes, clock_runs
<1>2. TickerTypes /\ TickerTypes' /\ Ticks' = Ticks /\ (InRound' <=> InRound)
  BY <1>1 DEF TickerInv, TickerTypes, InRound, Ticks
<1>3. \A i \in DOMAIN starts : starts[i] \in Nat
  BY <1>2, TicksType DEF TicksAre
<1>4. QED
  BY <1>1, <1>2, <1>3 DEF TickerInv

\* A round begins.
LEMMA RoundBegins == ASSUME TickerInv, acquire PROVE TickerInv'
<1> DEFINE n == Len(starts)
<1>1. /\ main.pc = "loop" /\ starts' = Append(starts, clock)
      /\ clock' = clock /\ ticker' = ticker /\ (Go("sleep") \/ Go("publish"))
  BY DEF acquire
<1>2. TickerTypes /\ main \in MainRec /\ clock \in Nat \ {0} /\ ticker \in Nat /\ starts \in Seq(Nat)
  BY DEF TickerInv, TickerTypes
<1>3. /\ main' \in MainRec /\ main'.pc \in {"sleep", "publish"}
      /\ main'.start = main.start /\ main'.missed = main.missed
  BY <1>1, <1>2, GoFields
<1>4. /\ starts' \in Seq(Nat) /\ starts' # <<>> /\ Len(starts') = n + 1 /\ n \in Nat
      /\ starts'[n + 1] = clock /\ \A i \in 1..n : starts'[i] = starts[i]
  BY <1>1, <1>2
<1>5. TickerTypes' /\ InRound' /\ ~InRound
  BY <1>1, <1>2, <1>3, <1>4 DEF TickerTypes, InRound
<1>6. /\ Ticks = n /\ Ticks' = n /\ DOMAIN starts = 1..n /\ DOMAIN starts' = 1..(n + 1)
      /\ \A i \in 1..n : starts[i] \in Nat
  BY <1>2, <1>4, <1>5, TicksType DEF TicksAre
<1>7. /\ main.start > 0 => Drift(n, ticker, main.start, main.missed)
      /\ clock >= ticker /\ \A i \in 1..n : clock >= starts[i]
      /\ Gaps(n, ticker, starts) /\ Apart(starts)
  BY <1>1, <1>6 DEF TickerInv
<1>8. Gaps(n, ticker, starts')
  BY <1>4, <1>6, <1>7 DEF Gaps
<1>9. Apart(starts')
  <2> SUFFICES ASSUME NEW i \in 1..(n + 1), NEW j \in 1..(n + 1), i < j
               PROVE  starts'[j] - starts'[i] >= Periods(j - i - 1)
    BY <1>6 DEF Apart
  <2>1. i \in 1..n /\ starts'[i] = starts[i]
    BY <1>4
  <2>2. CASE j \in 1..n
    BY <1>4, <1>6, <1>7, <2>1, <2>2 DEF Apart
  <2>3. CASE j = n + 1
    <3>1. starts'[j] = clock /\ j - i - 1 = n - i
      BY <1>4, <2>3
    <3>2. ticker >= starts[i] + Periods(n - i)
      BY <1>7, <2>1 DEF Gaps
    <3>3. Periods(n - i) \in Int /\ starts[i] \in Nat
      BY <1>4, <1>6, <2>1, OnePeriodMore
    <3>4. clock - starts[i] >= Periods(n - i)
      BY <1>2, <1>7, <3>2, <3>3
    <3>5. QED
      BY <2>1, <3>1, <3>4
  <2>4. QED
    BY <1>4, <2>2, <2>3, SMTT(40)
<1>10. \A i \in DOMAIN starts' : clock >= starts'[i]
  BY <1>2, <1>4, <1>6, <1>7, SMTT(40)
<1>11. QED
  BY <1>1, <1>3, <1>5, <1>6, <1>7, <1>8, <1>9, <1>10 DEF TickerInv

\* The tick of a round.
LEMMA RoundTicks == ASSUME TickerInv, sleep_until_next PROVE TickerInv'
<1> DEFINE n == Ticks
<1>1. /\ main.pc = "sleep" /\ starts' = starts /\ clock' = clock
      /\ \/ /\ ticker + Period <= clock /\ ticker' = clock
            /\ main' = [main EXCEPT !.pc = "loop", !.missed = @ + 1]
         \/ ~(ticker + Period <= clock) /\ ticker' = ticker + Period /\ Go("asleep")
  BY DEF sleep_until_next
<1>2. TickerTypes /\ main \in MainRec /\ clock \in Nat \ {0} /\ ticker \in Nat /\ starts \in Seq(Nat)
  BY DEF TickerInv, TickerTypes
<1>3. /\ main' \in MainRec /\ main'.start = main.start /\ ticker' \in Nat
      /\ ticker' >= ticker + Period /\ ticker' >= clock
      /\ \/ main'.pc = "loop" /\ main'.missed # 0 /\ clock >= ticker'
         \/ main'.pc = "asleep" /\ main'.missed = main.missed /\ ticker' = ticker + Period
  <2>1. CASE main' = [main EXCEPT !.pc = "loop", !.missed = @ + 1] /\ ticker' = clock /\ ticker + Period <= clock
    <3>1. main' \in MainRec /\ main'.start = main.start /\ main'.pc = "loop" /\ main'.missed = main.missed + 1
          /\ main.missed \in Nat
      <4>1. main.missed \in Nat /\ main.missed + 1 \in Nat
        BY <1>2 DEF MainRec
      <4>2. QED
        BY <1>2, <2>1, <4>1, MissedFields
    <3>2. QED
      BY <1>2, <2>1, <3>1, OnePeriodMore
  <2>2. CASE Go("asleep") /\ ticker' = ticker + Period /\ ~(ticker + Period <= clock)
    BY <1>2, <2>2, GoFields, OnePeriodMore
  <2>3. QED
    BY <1>1, <2>1, <2>2
<1>4. TickerTypes' /\ InRound /\ ~InRound'
  BY <1>1, <1>2, <1>3 DEF TickerTypes, InRound
<1>5. /\ n \in Nat /\ Len(starts) = n + 1 /\ Ticks' = n + 1 /\ DOMAIN starts = 1..(n + 1)
      /\ \A i \in 1..(n + 1) : starts[i] \in Nat
  BY <1>1, <1>2, <1>4, TicksType DEF TicksAre
<1> HIDE DEF n
<1>6. /\ main.start > 0 => Drift(n, ticker, main.start, main.missed)
      /\ \A i \in 1..(n + 1) : clock >= starts[i]
      /\ Gaps(n, ticker, starts) /\ Apart(starts)
  BY <1>5 DEF TickerInv, n
<1>7. /\ Periods(n) \in Int /\ Periods(n + 1) = Periods(n) + Period /\ Period \in Nat
      /\ main.start \in Nat
  <2>1. main.start \in Nat
    BY <1>2 DEF MainRec
  <2>2. n \in Int
    BY <1>5
  <2>3. QED
    BY <2>1, <2>2, OnePeriodMore
<1>8. main.start > 0 => Drift(n + 1, ticker', main.start, main'.missed)
  BY <1>2, <1>3, <1>6, <1>7 DEF Drift
<1>9. Gaps(n + 1, ticker', starts)
  <2> DEFINE m == n + 1
  <2> HIDE DEF m
  <2> SUFFICES ASSUME NEW i \in 1..m
               PROVE  ticker' >= starts[i] + Periods(m - i)
    BY DEF Gaps, m
  <2> m = n + 1
    BY DEF m
  <2>1. CASE i = m
    <3>1. m - i = 0 /\ Periods(0) = 0
      BY <1>5, <2>1, OnePeriodMore
    <3>2. clock >= starts[i] /\ starts[i] \in Nat
      BY <1>5, <1>6
    <3>3. QED
      BY <1>2, <1>3, <3>1, <3>2
  <2>2. CASE i \in 1..n
    <3>1. ticker >= starts[i] + Periods(n - i) /\ starts[i] \in Nat
      BY <1>5, <1>6, <2>2 DEF Gaps
    <3>2. n - i \in Int /\ m - i = (n - i) + 1
      BY <1>5
    <3>3. Periods(n - i) \in Int /\ Periods(m - i) = Periods(n - i) + Period
      BY <3>2, OnePeriodMore
    <3>4. QED
      BY <1>2, <1>3, <1>7, <3>1, <3>3, SMTT(40)
  <2>3. QED
    BY <1>5, <2>1, <2>2
<1>10. QED
  BY <1>1, <1>3, <1>4, <1>5, <1>6, <1>8, <1>9 DEF TickerInv

\* No step breaks the invariant.
LEMMA TickerStep == TickerInv /\ [BenchNext]_benchVars => TickerInv'
BY TickerStepKinds, TickerStillStep, TickerStarts, ClockRuns, RoundBegins, RoundTicks
   DEF TickerSteps, TickerInv

\* It holds when main() begins.
LEMMA TickerInit == BenchInit => TickerInv
<1> SUFFICES ASSUME BenchInit
             PROVE  TickerInv
  OBVIOUS
<1>1. /\ main = [pc |-> "setup", failed |-> 0, missed |-> 0, start |-> 0]
      /\ clock = 1 /\ ticker = 0 /\ starts = <<>>
  BY DEF BenchInit
<1>2. TickerTypes /\ ~InRound
  BY <1>1 DEF TickerTypes, InRound, MainRec
<1>3. Ticks = 0 /\ DOMAIN starts = {}
  BY <1>1, <1>2 DEF Ticks
<1>4. QED
  BY <1>1, <1>2, <1>3 DEF TickerInv, Gaps, Apart

\* The ticker keeps its pace, for any period, any stalls and wakeups however late: as long
\* as no tick was missed the n-th is at n periods after the start.
THEOREM TicksDoNotDrift == BenchSpec => []NoDrift
<1>1. TickerInv => NoDrift
  BY DEF TickerInv, NoDrift, Drift, Ticks, InRound, Periods
<1>2. QED
  BY <1>1, TickerInit, TickerStep, PTL DEF BenchSpec

\* Missed ticks are not made up for: k + 1 rounds in a row take at least k - 1 periods.
THEOREM NoCatchingUp == BenchSpec => []NoBurst
<1>1. TickerInv => NoBurst
  BY DEF TickerInv, NoBurst, Apart, Periods
<1>2. QED
  BY <1>1, TickerInit, TickerStep, PTL DEF BenchSpec

-----------------------------------------------------------------------------
(* The bus during a step of the program. *)

\* What has been proved of the bus.
BusFacts == BusInv /\ GapInv

\* It holds in the program.
LEMMA BenchBusFacts == BenchSpec => [](BusFacts /\ AdShape)
<1>1. BenchInit => AdShape
  BY MainPublishes DEF BenchInit, Init, AdShape, Publisher0
<1>2. TypeInv /\ AdShape /\ [BenchNext]_benchVars => AdShape'
  BY AdShapeStep
<1>3. Spec => []BusFacts
  BY BusInvariant, GapInit, GapStep, PTL DEF Spec, BusFacts
<1>4. BusFacts => TypeInv
  BY DEF BusFacts, BusInv
<1>5. QED
  BY <1>1, <1>2, <1>3, <1>4, BenchUsesBus, PTL DEF BenchSpec

\* The worker of s does something.
LEMMA WorkerFrame ==
    ASSUME TypeInv, NEW s \in Subscribers, Delivering(s) \/ callback_returns(s)
    PROVE  /\ UNCHANGED <<topics, pub, owner, stop, accepted>>
           /\ \A u \in Subscribers : u # s => sub'[u] = sub[u] /\ taken'[u] = taken[u]
<1>1. CASE deliver_pop(s)
  BY <1>1, FourTypes DEF deliver_pop, busVars, historyVars
<1>2. CASE deliver_judge(s)
  <2>1. /\ UNCHANGED <<topics, pub, owner, stop, accepted>>
        /\ \E n, l : sub' = [sub EXCEPT ![s] = n] /\ taken' = [taken EXCEPT ![s] = l]
    BY <1>2 DEF deliver_judge, busVars
  <2>2. QED
    BY <2>1, FourTypes
<1>3. CASE deliver_exit(s)
  BY <1>3, FourTypes DEF deliver_exit, busVars, historyVars
<1>4. CASE callback_returns(s)
  BY <1>4, FourTypes DEF callback_returns, busVars, historyVars
<1>5. QED
  BY <1>1, <1>2, <1>3, <1>4 DEF Delivering

\* shutdown() does something: workers go on.
LEMMA StopFrame ==
    ASSUME TypeInv, shutdown \/ ShuttingDown
    PROVE  /\ UNCHANGED <<pub, owner, accepted, taken>>
           /\ \A u \in Subscribers : sub'[u].worker = sub[u].worker
<1>1. CASE shutdown
  BY <1>1 DEF shutdown, historyVars
<1>2. CASE shutdown_close
  <2> DEFINE s == Head(stop.all)
  <2>1. s \in Subscribers
    BY <1>2, ShutdownStep DEF ShuttingDown
  <2>2. sub' = Closed(s) /\ UNCHANGED <<pub, owner, accepted, taken>>
    BY <1>2 DEF shutdown_close, historyVars
  <2>3. PICK n \in SubRec : Closed(s) = [sub EXCEPT ![s] = n] /\ SameWorker(n, sub[s])
    BY <2>1, ClosedStep
  <2>4. QED
    BY <2>1, <2>2, <2>3, FourTypes DEF SameWorker
<1>3. CASE shutdown_join
  <2> DEFINE s == Head(stop.all)
  <2>1. s \in Subscribers
    BY <1>3, ShutdownStep DEF ShuttingDown
  <2>2. sub' = [sub EXCEPT ![s].join = "joined"] /\ UNCHANGED <<pub, owner, accepted, taken>>
    BY <1>3 DEF shutdown_join, historyVars
  <2>3. sub[s] \in SubRec
    BY <2>1, FourTypes
  <2>4. [sub[s] EXCEPT !.join = "joined"].worker = sub[s].worker
    BY <2>3 DEF SubRec
  <2>5. QED
    BY <2>1, <2>2, <2>4, FourTypes
<1>4. QED
  BY <1>1, <1>2, <1>3 DEF ShuttingDown

\* The same of a publish() call under way.
LEMMA PublishFrame ==
    ASSUME TypeInv, NEW p \in Publishers, Publishing(p)
    PROVE  /\ UNCHANGED <<owner, stop, taken>>
           /\ \A u \in Subscribers : sub'[u].worker = sub[u].worker
           /\ ~publish_erased(p) => UNCHANGED topics
           /\ ~push_target(p) => /\ UNCHANGED accepted
                                 /\ \A u \in Subscribers : sub'[u].queue = sub[u].queue
           /\ push_target(p) => \A u \in Subscribers : u # Head(pub[p].targets) =>
                                    sub'[u] = sub[u] /\ accepted'[u] = accepted[u]
<1> DEFINE Good == /\ UNCHANGED <<owner, stop, taken>>
                   /\ \A u \in Subscribers : sub'[u].worker = sub[u].worker
                   /\ ~publish_erased(p) => UNCHANGED topics
                   /\ ~push_target(p) => /\ UNCHANGED accepted
                                         /\ \A u \in Subscribers : sub'[u].queue = sub[u].queue
                   /\ push_target(p) => \A u \in Subscribers : u # Head(pub[p].targets) =>
                                            sub'[u] = sub[u] /\ accepted'[u] = accepted[u]
<1>1. CASE publish_erased(p)
  <2>1. pub[p].pc = "lock" /\ UNCHANGED <<owner, stop, accepted, taken>>
    BY <1>1 DEF publish_erased
  <2>2. ~push_target(p)
    BY <2>1 DEF push_target
  <2>3. sub' = [s \in Subscribers |-> IF s \in RejectedBy(p) THEN Refuse(sub[s]) ELSE sub[s]]
    BY <1>1, Zenon DEF publish_erased, RejectedBy
  <2>4. ASSUME NEW u \in Subscribers
        PROVE  sub'[u].worker = sub[u].worker /\ sub'[u].queue = sub[u].queue
    <3>1. sub[u] \in SubRec
      BY FourTypes
    <3>2. Refuse(sub[u]).worker = sub[u].worker /\ Refuse(sub[u]).queue = sub[u].queue
      BY <3>1, RefuseFields DEF SameWorker, SameQueue
    <3>3. QED
      BY <2>3, <3>2
  <2>5. QED
    BY <1>1, <2>1, <2>2, <2>4
<1>2. CASE publish_wrong_type(p) \/ report_mismatches(p) \/ push_fails(p)
  <2>1. UNCHANGED <<topics, sub, owner, stop, accepted, taken>>
    BY <1>2 DEF publish_wrong_type, report_mismatches, push_fails, busVars, historyVars
  <2>2. CASE ~push_target(p)
    BY <2>1, <2>2
  <2>3. CASE push_target(p)
    BY <2>1, <2>3
  <2>4. QED
    BY <2>2, <2>3
<1>3. CASE push_target(p)
  <2> DEFINE s == Head(pub[p].targets)
             env == pub[p].env
  <2>1. s \in Subscribers /\ env \in Envelope
    BY <1>3, FirstTarget DEF push_target
  <2>2. Store(s, env) /\ UNCHANGED <<topics, owner, stop, taken>>
    BY <1>3 DEF push_target, busVars
  <2> HIDE DEF env
  <2>3. /\ Receives(s, env)
        /\ \A x \in Subscribers : x # s => sub'[x] = sub[x] /\ accepted'[x] = accepted[x]
    BY <2>1, <2>2, StoreStep, SMTT(40)
  <2>4. sub'[s].worker = sub[s].worker
    BY <2>3 DEF Receives, SameWorker
  <2>5. QED
    BY <1>3, <2>2, <2>3, <2>4
<1>4. QED
  BY <1>1, <1>2, <1>3 DEF Publishing

-----------------------------------------------------------------------------
(* Where the main thread is, and what it has done to the bus by then. *)

\* The publisher of the main thread.
Mine == pub[main_thread]

\* Nothing is advertised twice, and nothing is published before everybody has joined.
\* A call has no mismatches to report: both sides use one QoS.
ControlShape ==
    /\ main.pc = "setup" => cargo = <<>> /\ Mine.pc \in {"none", "idle"} /\ main.failed = 0
    /\ main.pc # "setup" => Mine.pc # "none" /\ \A s \in Subscribers : owner[s].pc # "replay"
    /\ main.pc = "publishing" <=> Mine.pc \in {"lock", "push"}
    /\ Mine.pc # "report" /\ (Mine.pc = "lock" => Mine.ok)
    /\ main.pc # "stop" => stop.pc = "idle"
    /\ Mine.pc = "none" => \A t \in Topics : topics[t] = Entry0
    /\ Mine.pc # "none" => topics[Mine.topic].type = Mine.type

\* All handles were made the same way; nobody leaves before shutdown(), and that stops
\* everybody.
Handle(s) ==
    /\ owner[s].pc \in {"idle", "replay", "subscribed"}
    /\ Known(s) =>
         /\ Mine.pc # "none" /\ sub[s].topic = Mine.topic /\ sub[s].qos = Mine.qos
         /\ main.pc # "stop" => s \in ToSet(topics[Mine.topic].subs)
         /\ main.pc = "stop" => s \in stop.ready
HandleShape == \A s \in Subscribers : Handle(s)

\* What the proofs below build on.
Base == BusFacts /\ AdShape /\ TickerTypes
Setting == Base /\ ControlShape /\ HandleShape

\* The parts of Base.
LEMMA BaseParts ==
    ASSUME Base
    PROVE  /\ TypeInv /\ QuietInv /\ PromiseInv /\ StatsInv /\ OffersInv
           /\ OnceInv /\ LineShape /\ OrderShape /\ GapInv /\ AdShape /\ main \in MainRec
BY DEF Base, BusFacts, BusInv, TickerTypes

\* A step leaves s alone, but for what it may tell it and for its queue being closed.
SubKeeps(s) ==
    LET n == sub'[s]
        r == sub[s]
    IN  /\ SameSetup(n, r) /\ SameCounts(n, r) /\ SameWorker(n, r)
        /\ n.queue.items = r.queue.items /\ n.queue.dropped = r.queue.dropped
        /\ n.queue.policy = r.queue.policy /\ n.queue.capacity = r.queue.capacity
        /\ LogSame(s) /\ owner'[s].pc = owner[s].pc

\* What a step of the program does to s.
SubKind(s) ==
    \/ SubKeeps(s)
    \/ /\ publishing /\ push_target(main_thread) /\ s = Head(Mine.targets)
       /\ Receives(s, Mine.env) /\ OwnerSame(s)
    \/ /\ main.pc = "setup" /\ subscribe_bench(s)
       /\ Subscribes(s, Mine.topic, Mine.type, Mine.qos) \/ Starts(s)
    \/ deliver(s) /\ (Pops(s) \/ Delivers(s) \/ Exits(s)) /\ OwnerSame(s)
    \/ callback(s) /\ Returns(s) /\ OwnerSame(s)

\* Nothing happens to s.
LEMMA NothingKeeps ==
    ASSUME NEW s, sub'[s] = sub[s], accepted'[s] = accepted[s], taken'[s] = taken[s],
           owner'[s] = owner[s]
    PROVE  SubKeeps(s)
BY DEF SubKeeps, SameSetup, SameCounts, SameWorker, LogSame

\* The QoS in use has no history and no durations.
LEMMA PlainQos ==
    ASSUME Setting, NEW s \in Subscribers, Known(s)
    PROVE  /\ sub[s].qos = Mine.qos /\ Mine.qos \in Offered
           /\ sub[s].qos.durability = "Volatile" /\ sub[s].qos.lifespan = 0
           /\ owner[s].backlog = <<>>
<1>1. sub[s].qos = Mine.qos /\ Mine.pc # "none"
  BY DEF Setting, HandleShape, Handle
<1>2. Mine.qos \in Offered
  BY <1>1, BaseParts DEF Setting, AdShape, Mine
<1>3. sub[s].qos.durability = "Volatile" /\ sub[s].qos.lifespan = 0
  BY <1>1, <1>2, MainAssumption
<1>4. owner[s].backlog = <<>>
  BY <1>3, BaseParts DEF Setting, OffersInv, VolatileShape
<1>5. QED
  BY <1>1, <1>2, <1>3, <1>4

\* Only known subscribers have messages.
LEMMA WorkersKnown ==
    ASSUME Base, NEW s \in Subscribers
    PROVE  sub[s].worker # "none" => Known(s)
BY BaseParts DEF QuietInv, WorkerShape, Past, Known

\* A step that leaves the handle and what was accepted alone.
LEMMA KeepsOrWorks ==
    ASSUME Setting, NEW s \in Subscribers, SubStep(s), sub'[s] \in SubRec,
           owner'[s] = owner[s], accepted'[s] = accepted[s]
    PROVE  SubKeeps(s) \/ ((Pops(s) \/ Delivers(s) \/ Exits(s) \/ Returns(s)) /\ OwnerSame(s))
<1>1. sub[s] \in SubRec /\ sub[s].queue \in Queue(Envelope) /\ accepted[s] \in Seq(Envelope)
  BY BaseParts, FourTypes DEF Setting
<1>2. owner[s].pc \in {"idle", "replay", "subscribed"}
  BY DEF Setting, HandleShape, Handle
<1>3. OwnerSame(s)
  BY DEF OwnerSame
<1>4. ASSUME NEW e, Receives(s, e)
      PROVE  FALSE
  <2>1. accepted[s] = Append(accepted[s], e)
    BY <1>4 DEF Receives
  <2>2. QED
    BY <1>1, <2>1
<1>5. ~Replays(s)
  <2>1. owner[s].pc = "replay" => owner[s].backlog = <<>>
    BY PlainQos DEF Known
  <2>2. QED
    BY <2>1 DEF Replays
<1>6. ~Expires(s)
  <2>1. sub[s].worker = "judge" => sub[s].qos.lifespan = 0
    BY WorkersKnown, PlainQos DEF Setting
  <2>2. QED
    BY <2>1 DEF Expires, IsExpired
<1>7. CASE Quiet(s)
  BY <1>7, NothingKeeps DEF Quiet, LogSame
<1>8. CASE Refused(s)
  BY <1>8 DEF Refused, SubKeeps, SameQueue
<1>9. CASE Closes(s)
  <2>1. sub'[s].queue = CloseQueue(sub[s].queue)
    BY <1>9 DEF Closes
  <2>2. QED
    BY <1>1, <1>9, <2>1, CloseQueueProperties DEF Closes, SubKeeps
<1>10. CASE Joins(s)
  BY <1>10 DEF Joins, SubKeeps, SameQueue
<1>11. ASSUME NEW from, NEW to, OwnerMoves(s, from, to)
       PROVE  from = owner[s].pc /\ to = owner[s].pc
  BY <1>11 DEF OwnerMoves
<1>12. ~Starts(s) /\ ~(\E t \in Topics, type \in Types, qos \in Requested : Subscribes(s, t, type, qos))
  BY DEF Starts, Subscribes
<1>13. ~Closes(s) \/ ~OwnerMoves(s, "close", AfterClose(s, "done"))
  BY <1>2, <1>11
<1>14. QED
  BY <1>3, <1>4, <1>5, <1>6, <1>7, <1>8, <1>9, <1>10, <1>12 DEF SubStep

\* subscribe() in the program: it succeeds.
LEMMA BenchSubscribes ==
    ASSUME Setting, NEW s \in Subscribers, Mine.pc # "none",
           subscribe(s, Mine.topic, Mine.type, Mine.qos)
    PROVE  /\ Subscribes(s, Mine.topic, Mine.type, Mine.qos)
           /\ \A u \in Subscribers : u # s => sub'[u] = sub[u] /\ owner'[u] = owner[u]
           /\ topics' = [topics EXCEPT ![Mine.topic] =
                            [ensure_topic(Mine.topic, Mine.type) EXCEPT !.subs = Append(@, s)]]
           /\ UNCHANGED <<pub, stop, accepted, taken>>
<1> DEFINE t == Mine.topic
           type == Mine.type
           qos == Mine.qos
           entry == ensure_topic(t, type)
           n == NewSubscription(t, type, qos)
<1>1. t \in Topics /\ type \in Types /\ qos \in Offered
  BY BaseParts DEF Setting, AdShape, Mine
<1>2. qos \in QoS
  BY BaseParts, PubTypes, MainPublishes DEF Setting, Mine
<1>3. entry \in EntryRec /\ SameEntry(entry, topics[t])
  BY <1>1, BaseParts, EnsureFields DEF Setting
<1>4. entry.type = type
  BY DEF Setting, ControlShape, ensure_topic
<1>5. /\ owner[s].pc = "idle"
      /\ topics' = [topics EXCEPT ![t] = [entry EXCEPT !.subs = Append(@, s)]]
      /\ sub' = [sub EXCEPT ![s] = n]
      /\ owner' = [owner EXCEPT ![s] =
                     [pc |-> "replay",
                      backlog |-> IF qos.durability = "TransientLocal" THEN entry.latched ELSE <<>>]]
      /\ UNCHANGED <<pub, stop, accepted, taken>>
  BY <1>4 DEF subscribe, historyVars
<1>6. /\ n \in SubRec
      /\ n.topic = t /\ n.type = type /\ n.qos = qos
      /\ SameCounts(n, Subscription0) /\ SameNotice(n, Subscription0)
      /\ SameWorker(n, Subscription0)
      /\ n.join = "no"
      /\ n.queue.items = <<>>
      /\ ~n.queue.closed
      /\ n.queue.dropped = 0
      /\ n.queue.capacity = IF qos.depth = 0 THEN 1 ELSE qos.depth
      /\ n.queue.policy = IF qos.reliability = "Reliable" THEN "Block" ELSE "DropOldest"
  BY <1>1, <1>2, NewSubscriptionFields
<1>7. sub \in [Subscribers -> SubRec] /\ owner \in [Subscribers -> OwnerRec]
  BY BaseParts, FourTypes DEF Setting
<1> HIDE DEF n, entry
<1>8. sub'[s] = n /\ owner'[s].pc = "replay"
      /\ owner'[s].backlog = IF qos.durability = "TransientLocal" THEN topics[t].latched ELSE <<>>
  BY <1>3, <1>5, <1>7 DEF SameEntry
<1>9. Subscribes(s, t, type, qos)
  BY <1>5, <1>6, <1>8 DEF Subscribes, LogSame
<1>10. \A u \in Subscribers : u # s => sub'[u] = sub[u] /\ owner'[u] = owner[u]
  BY <1>5, <1>7
<1>11. QED
  BY <1>5, <1>9, <1>10 DEF entry

\* subscribe() starts the worker.
LEMMA BenchStarts ==
    ASSUME Setting, NEW s \in Subscribers, Subscribing(s)
    PROVE  /\ Starts(s)
           /\ \A u \in Subscribers : u # s => sub'[u] = sub[u] /\ owner'[u] = owner[u]
           /\ UNCHANGED <<topics, pub, stop, accepted, taken>>
<1>1. owner[s].pc = "replay" => owner[s].backlog = <<>>
  BY PlainQos DEF Known
<1>2. start_worker(s)
  BY <1>1 DEF Subscribing, replay_backlog
<1>3. sub \in [Subscribers -> SubRec] /\ owner \in [Subscribers -> OwnerRec]
  BY BaseParts, FourTypes DEF Setting
<1> DEFINE n == [sub[s] EXCEPT !.worker = "pop"]
<1>4. /\ SameSetup(n, sub[s]) /\ SameCounts(n, sub[s]) /\ SameNotice(n, sub[s]) /\ SameQueue(n, sub[s])
      /\ n.join = sub[s].join /\ n.worker = "pop" /\ n.held = sub[s].held
  BY <1>3, SetWorkerFields
<1>5. /\ owner[s].pc = "replay" /\ owner[s].backlog = <<>> /\ sub' = [sub EXCEPT ![s] = n]
      /\ owner' = [owner EXCEPT ![s].pc = "subscribed"]
      /\ UNCHANGED <<topics, pub, stop, accepted, taken>>
  BY <1>2 DEF start_worker, busVars, historyVars
<1>6. owner'[s].pc = "subscribed" /\ owner'[s].backlog = <<>>
  BY <1>3, <1>5 DEF OwnerRec
<1> HIDE DEF n
<1>7. sub'[s] = n /\ \A u \in Subscribers : u # s => sub'[u] = sub[u] /\ owner'[u] = owner[u]
  BY <1>3, <1>5
<1>8. QED
  BY <1>4, <1>5, <1>6, <1>7 DEF Starts, LogSame

\* What a step that is no step of the bus, or one of wait_for_idle(), leaves alone.
BusStill == UNCHANGED <<topics, pub, sub, owner, stop, accepted, taken>>

\* The steps of the program.
LEMMA BenchKinds ==
    ASSUME [BenchNext]_benchVars
    PROVE  \/ BusStill /\ ownVars' = ownVars
           \/ \E qos \in Offered : advertise_bench(qos)
           \/ \E s \in Subscribers : subscribe_bench(s) \/ deliver(s) \/ callback(s)
           \/ BusStill /\ (start_ticker \/ acquire \/ sleep_until_next \/ wake_up \/ clock_runs
                             \/ wait_for_idle_bench)
           \/ publish_sample \/ publishing \/ shutdown_bench
<1>1. CASE UNCHANGED benchVars
  BY <1>1 DEF benchVars, vars, busVars, historyVars, BusStill
<1>2. CASE start_ticker \/ acquire \/ sleep_until_next \/ wake_up \/ clock_runs
  BY <1>2 DEF start_ticker, acquire, sleep_until_next, wake_up, clock_runs, vars, busVars,
              historyVars, BusStill
<1>3. CASE wait_for_idle_bench
  <2>1. wait_for_idle \/ idle_scan \/ idle_timeout
    BY <1>3 DEF wait_for_idle_bench
  <2>2. BusStill
    BY <2>1 DEF wait_for_idle, idle_scan, idle_timeout, busVars, historyVars, BusStill
  <2>3. QED
    BY <1>3, <2>2
<1>4. QED
  BY <1>1, <1>2, <1>3 DEF BenchNext

\* A step of the program does one of the things listed in SubKind to each subscriber.
LEMMA SubKinds ==
    ASSUME Setting, [BenchNext]_benchVars, NEW s \in Subscribers
    PROVE  SubKind(s)
<1>1. TypeInv /\ [Next]_vars
  BY BaseParts, BenchIsBusStep DEF Setting
<1>2. SubStep(s) /\ sub'[s] \in SubRec
  BY <1>1, SubscriberSteps DEF SubSteps, SubStepTyped
<1>3. ASSUME owner'[s] = owner[s], accepted'[s] = accepted[s]
      PROVE  SubKeeps(s) \/ ((Pops(s) \/ Delivers(s) \/ Exits(s) \/ Returns(s)) /\ OwnerSame(s))
  BY <1>2, <1>3, KeepsOrWorks
<1>4. ASSUME owner'[s] = owner[s], accepted'[s] = accepted[s], sub'[s].worker = sub[s].worker
      PROVE  SubKeeps(s)
  BY <1>3, <1>4 DEF Pops, Delivers, Exits, Returns
<1>5. CASE BusStill
  BY <1>4, <1>5 DEF BusStill, SubKind
<1>6. ASSUME NEW qos \in Offered, advertise_bench(qos)
      PROVE  SubKeeps(s)
  <2>1. UNCHANGED <<sub, owner, accepted>>
    BY <1>6 DEF advertise_bench, advertise, historyVars
  <2>2. QED
    BY <1>4, <2>1
<1>7. ASSUME NEW u \in Subscribers, subscribe_bench(u)
      PROVE  SubKind(s)
  <2>1. main.pc = "setup" /\ Mine.pc = "idle"
    BY <1>7 DEF subscribe_bench, Mine
  <2>2. CASE subscribe(u, Mine.topic, Mine.type, Mine.qos)
    BY <1>4, <1>7, <2>1, <2>2, BenchSubscribes DEF SubKind
  <2>3. CASE Subscribing(u)
    BY <1>4, <1>7, <2>1, <2>3, BenchStarts DEF SubKind
  <2>4. QED
    BY <1>7, <2>2, <2>3 DEF subscribe_bench, Mine
<1>8. ASSUME NEW u \in Subscribers, deliver(u) \/ callback(u)
      PROVE  SubKind(s)
  <2>1. Delivering(u) \/ callback_returns(u)
    BY <1>8 DEF deliver, callback
  <2>2. /\ UNCHANGED <<owner, accepted>>
        /\ u # s => sub'[s] = sub[s]
    BY <1>1, <2>1, WorkerFrame
  <2>3. CASE u # s
    BY <1>4, <2>2, <2>3 DEF SubKind
  <2>4. CASE u = s /\ deliver(s)
    <3>1. sub[s].worker # "callback"
      <4>1. sub[s].worker # "callback" \/ deliver_judge(s)
        BY <2>4 DEF deliver, Delivering, deliver_pop, deliver_exit
      <4>2. [sub[s] EXCEPT !.held = Env0].worker = sub[s].worker
        BY <1>1, FourTypes DEF SubRec
      <4>3. QED
        BY <4>1, <4>2 DEF deliver_judge
    <3>2. ~Returns(s)
      BY <3>1 DEF Returns
    <3>3. QED
      BY <1>3, <2>2, <2>4, <3>2 DEF SubKind
  <2>5. CASE u = s /\ callback(s)
    <3>1. sub[s].worker = "callback"
      BY <2>5 DEF callback, callback_returns
    <3>2. ~Pops(s) /\ ~Delivers(s) /\ ~Exits(s)
      BY <3>1 DEF Pops, Delivers, Exits
    <3>3. QED
      BY <1>3, <2>2, <2>5, <3>2 DEF SubKind
  <2>6. QED
    BY <1>8, <2>3, <2>4, <2>5
<1>9. CASE publish_sample
  <2>1. UNCHANGED <<sub, owner, accepted>>
    BY <1>9 DEF publish_sample, publish
  <2>2. QED
    BY <1>4, <2>1 DEF SubKind
<1>10. CASE publishing
  <2> DEFINE p == main_thread
  <2>1. Publishing(p) /\ p \in Publishers
    BY <1>10, MainPublishes DEF publishing
  <2> HIDE DEF p
  <2>2. /\ UNCHANGED owner
        /\ sub'[s].worker = sub[s].worker
        /\ ~push_target(p) => UNCHANGED accepted
        /\ push_target(p) /\ s # Head(pub[p].targets) => accepted'[s] = accepted[s]
    BY <1>1, <2>1, PublishFrame
  <2>3. CASE ~push_target(p) \/ s # Head(pub[p].targets)
    BY <1>4, <2>2, <2>3 DEF SubKind
  <2>4. CASE push_target(p) /\ s = Head(pub[p].targets)
    <3>1. pub[p].env \in Envelope /\ Store(s, pub[p].env) /\ UNCHANGED taken
      BY <1>1, <2>1, <2>4, FirstTarget DEF push_target
    <3>2. Receives(s, pub[p].env)
      BY <1>1, <3>1, StoreStep
    <3>3. QED
      BY <1>10, <2>2, <2>4, <3>2 DEF SubKind, OwnerSame, Mine, p
  <2>5. QED
    BY <2>3, <2>4
<1>11. CASE shutdown_bench
  <2>1. shutdown \/ ShuttingDown
    BY <1>11 DEF shutdown_bench
  <2>2. UNCHANGED <<owner, accepted>> /\ sub'[s].worker = sub[s].worker
    BY <1>1, <2>1, StopFrame
  <2>3. QED
    BY <1>4, <2>2 DEF SubKind
<1>12. QED
  BY <1>5, <1>6, <1>7, <1>8, <1>9, <1>10, <1>11, BenchKinds DEF SubKind

\* The main thread stays the same.
LEMMA MineNext == Mine' = pub'[main_thread] /\ main_thread \in Publishers
BY MainPublishes DEF Mine, main_thread

\* A publisher and a subscriber with the same QoS match.
LEMMA NobodyRejected ==
    ASSUME Setting, Mine.pc # "none"
    PROVE  RejectedBy(main_thread) = {}
<1> SUFFICES ASSUME NEW s \in ToSet(topics[Mine.topic].subs)
             PROVE  check_compatible(Mine.qos, sub[s].qos) = "None"
  BY DEF RejectedBy, Mine
<1>1. TypeInv /\ PromiseInv
  BY BaseParts DEF Setting
<1>2. Mine.topic \in Topics /\ Mine.qos \in QoS
  BY <1>1, PubTypes, MineNext DEF Mine
<1>3. s \in Subscribers
  BY <1>1, <1>2, PubTypes, ToSetType
<1>4. Known(s)
  BY <1>1, <1>2 DEF PromiseInv, ListedShape
<1>5. sub[s].qos = Mine.qos
  BY <1>3, <1>4, PlainQos
<1>6. QED
  BY <1>2, <1>5 DEF check_compatible, QoS, Reliability, Durability

\* A call of publish() goes to everybody: it gets its number, and then pushes.
Sends(n, r) ==
    /\ Numbers(main_thread) /\ ToSet(n.targets) = ToSet(topics[r.topic].subs)
    /\ r.pc = "lock" /\ n.ok
Feeds(n, r) ==
    /\ Pushes(main_thread) /\ r.pc = "push" /\ r.targets # <<>>
    /\ n.targets = Tail(r.targets) /\ n.env = r.env

\* The steps of a call are these two.
LEMMA SendSteps ==
    ASSUME Setting, publishing
    PROVE  /\ Sends(Mine', Mine) \/ Feeds(Mine', Mine)
           /\ SameAd(Mine', Mine) /\ Mine'.pc = (IF Mine'.targets = <<>> THEN "idle" ELSE "push")
<1> DEFINE p == main_thread
<1>1. TypeInv /\ p \in Publishers /\ Publishing(p) /\ Mine = pub[p] /\ Mine' = pub'[p]
  BY BaseParts, MineNext DEF Setting, publishing, Mine
<1>2. Mine.pc \in {"lock", "push"} /\ Mine.pc # "none" /\ (Mine.pc = "lock" => Mine.ok)
  BY DEF Setting, ControlShape, publishing
<1>3. topics[Mine.topic].type = Mine.type /\ RejectedBy(p) = {}
  BY <1>2, NobodyRejected DEF Setting, ControlShape
<1>4. ~publish_wrong_type(p) /\ ~report_mismatches(p)
  BY <1>1, <1>2, <1>3 DEF publish_wrong_type, report_mismatches
<1> HIDE DEF p
<1>5. CASE publish_erased(p)
  <2>1. Numbers(p) /\ PubSteps
    BY <1>1, <1>5, NumberStep
  <2>2. /\ SameAd(Mine', Mine) /\ Mine.pc = "lock"
        /\ Mine'.targets = TargetsOf(p) /\ Mine'.ok = Mine.ok /\ Goes(Mine')
        /\ ToSet(Mine'.mismatches) = {}
    BY <1>1, <1>3, <2>1 DEF Numbers
  <2>3. Mine'.mismatches \in Seq(Subscribers) /\ Mine.topic \in Topics
    <3>1. pub'[p] \in PubRec
      BY <1>1, <2>1 DEF PubSteps
    <3>2. QED
      BY <1>1, <1>2, <3>1, PubTypes DEF PubRec
  <2>4. Mine'.mismatches = <<>>
    <3>1. \A i \in 1..Len(Mine'.mismatches) : Mine'.mismatches[i] \in ToSet(Mine'.mismatches)
      BY <2>3, InToSet
    <3>2. QED
      BY <2>2, <2>3, <3>1
  <2>5. ToSet(TargetsOf(p)) = ToSet(topics[Mine.topic].subs)
    <3>1. topics[Mine.topic].subs \in Seq(Subscribers)
      BY <1>1, <2>3, PubTypes
    <3>2. Subscribers \ RejectedBy(p) = Subscribers
      BY <1>3
    <3>3. TargetsOf(p) = Only(topics[Mine.topic].subs, Subscribers)
      BY <1>1, <3>2 DEF TargetsOf
    <3>4. ToSet(topics[Mine.topic].subs) \subseteq Subscribers
      BY <3>1, ToSetType
    <3>5. ToSet(Only(topics[Mine.topic].subs, Subscribers)) = ToSet(topics[Mine.topic].subs) \cap Subscribers
      BY <3>1, OnlyElements
    <3>6. QED
      BY <3>3, <3>4, <3>5
  <2>6. QED
    BY <1>2, <2>1, <2>2, <2>4, <2>5 DEF Sends, Goes, p
<1>6. CASE push_target(p) \/ push_fails(p)
  <2>1. Reports(p) \/ Pushes(p)
    BY <1>1, <1>6, AfterLockStep
  <2>2. Pushes(p)
    BY <1>1, <1>2, <2>1 DEF Reports
  <2>3. Mine.targets # <<>> /\ Mine.mismatches = <<>>
    BY <1>1, <2>2 DEF TypeInv, PublisherShape, Pushes
  <2>4. QED
    BY <1>1, <2>2, <2>3 DEF Pushes, Feeds, SameCall, Goes, p
<1>7. QED
  BY <1>1, <1>4, <1>5, <1>6 DEF Publishing

\* The other publishers' steps.
LEMMA CallSample ==
    ASSUME Setting, publish_sample
    PROVE  /\ Calls(main_thread) /\ Mine.pc = "idle" /\ Mine'.pc = "lock" /\ Mine'.ok
           /\ SameAd(Mine', Mine) /\ Mine'.targets = Mine.targets
           /\ UNCHANGED <<topics, sub, owner, stop, accepted, taken>>
<1>1. TypeInv /\ publish(main_thread)
  BY BaseParts DEF Setting, publish_sample
<1>2. Calls(main_thread)
  BY <1>1, CallStep, MineNext
<1>3. UNCHANGED <<topics, sub, owner, stop, accepted, taken>>
  BY <1>1 DEF publish, busVars
<1>4. QED
  BY <1>2, <1>3, MineNext DEF Calls, Mine

\* advertise() in the program: nobody has used the topic before.
LEMMA BenchAdvertises ==
    ASSUME Setting, NEW qos \in Offered, advertise_bench(qos)
    PROVE  /\ Mine.pc = "none" /\ Mine'.pc = "idle" /\ Mine'.targets = <<>>
           /\ Mine'.topic \in Topics /\ topics'[Mine'.topic].type = Mine'.type
           /\ \A t \in Topics : topics'[t].published = 0
           /\ UNCHANGED <<sub, owner, stop, accepted, taken>>
<1>1. PICK t \in Topics, type \in Types : advertise(main_thread, t, type, qos)
  BY DEF advertise_bench
<1>2. TypeInv /\ main_thread \in Publishers
  BY BaseParts, MineNext DEF Setting
<1>3. Advertises(main_thread, t, type, qos)
  BY <1>1, <1>2, AdvertiseStep
<1>4. /\ Mine.pc = "none" /\ Mine'.pc = "idle" /\ Mine'.targets = <<>>
      /\ Mine'.topic = t /\ Mine'.type = type
  BY <1>3, MineNext DEF Advertises, Mine
<1>5. topics \in [Topics -> EntryRec] /\ \A u \in Topics : topics[u] = Entry0
  BY <1>2, <1>4, PubTypes DEF Setting, ControlShape
<1>6. /\ topics' = [topics EXCEPT ![t] = ensure_topic(t, type)]
      /\ UNCHANGED <<sub, owner, stop, accepted, taken>>
  BY <1>1 DEF advertise, historyVars
<1>7. ensure_topic(t, type).type = type /\ ensure_topic(t, type).published = 0
  BY <1>5 DEF ensure_topic, Entry0
<1>8. QED
  BY <1>4, <1>5, <1>6, <1>7 DEF Entry0

\* shutdown() and what follows it, in the program.
LEMMA BenchStops ==
    ASSUME Setting, shutdown_bench
    PROVE  /\ main.pc \in {"idle", "stop"} /\ main'.pc = "stop" /\ main'.failed = main.failed
           /\ UNCHANGED <<pub, owner, accepted, taken, cargo, state, starts, pool>>
           /\ \A t \in Topics : topics'[t].type = topics[t].type /\ topics'[t].published = topics[t].published
           /\ main.pc = "idle" => shutdown
           /\ main.pc = "stop" => UNCHANGED topics /\ stop'.ready = stop.ready
<1>1. TypeInv /\ main \in MainRec /\ [Next]_vars
  <2>1. [BenchNext]_benchVars
    BY DEF BenchNext
  <2>2. QED
    BY <2>1, BaseParts, BenchIsBusStep DEF Setting
<1>2. /\ Go("stop") /\ UNCHANGED <<cargo, state, starts, pool>>
      /\ \/ main.pc = "idle" /\ shutdown
         \/ main.pc = "stop" /\ ShuttingDown
  BY DEF shutdown_bench
<1>3. main'.pc = "stop" /\ main'.failed = main.failed
  BY <1>1, <1>2 DEF Go, MainRec
<1>4. UNCHANGED <<pub, owner, accepted, taken>>
  BY <1>1, <1>2, StopFrame
<1>5. ShuttingDown => UNCHANGED topics /\ stop'.ready = stop.ready
  <2>1. ASSUME ShuttingDown PROVE UNCHANGED topics
    BY <2>1 DEF ShuttingDown, shutdown_close, shutdown_join, busVars
  <2>2. ASSUME ShuttingDown PROVE stop'.ready = stop.ready
    <3>1. stop \in StopRec
      BY <1>1, TypeParts DEF TypeInv
    <3>2. QED
      BY <2>2, <3>1 DEF ShuttingDown, shutdown_close, shutdown_join, StopRec
  <2>3. QED
    BY <2>1, <2>2
<1>6. topics \in [Topics -> EntryRec]
  BY <1>1, PubTypes
<1>7. shutdown => \A t \in Topics :
         topics'[t].type = topics[t].type /\ topics'[t].published = topics[t].published
  <2>1. shutdown => topics' = [t \in Topics |-> [topics[t] EXCEPT !.subs = <<>>, !.latched = <<>>]]
    BY DEF shutdown
  <2>2. QED
    BY <1>6, <2>1 DEF EntryRec
<1>8. QED
  BY <1>2, <1>3, <1>4, <1>5, <1>7

\* Publishing, seen from main().
LEMMA BenchPublishes ==
    ASSUME Setting, publishing
    PROVE  /\ main.pc = "publishing" /\ Mine.pc \in {"lock", "push"}
           /\ Mine'.pc = "push" => main' = main
           /\ Mine'.pc = "idle" => /\ main'.pc = "sleep"
                                   /\ main'.failed = IF Mine'.ok THEN main.failed ELSE main.failed + 1
           /\ UNCHANGED <<owner, stop, taken, cargo, state, starts>>
<1>1. TypeInv /\ main \in MainRec
  BY BaseParts DEF Setting
<1>2. /\ main.pc = "publishing" /\ Publishing(main_thread) /\ UNCHANGED <<cargo, state, starts>>
      /\ main' = IF Mine'.pc # "idle" THEN main
                 ELSE [main EXCEPT !.pc = "sleep",
                                   !.failed = IF Mine'.ok THEN @ ELSE @ + 1]
  BY MineNext DEF publishing
<1>3. UNCHANGED <<owner, stop, taken>>
  BY <1>1, <1>2, PublishFrame, MineNext
<1>4. Mine.pc \in {"lock", "push"}
  BY <1>2 DEF Setting, ControlShape
<1>5. Mine'.pc = "idle" => main'.pc = "sleep" /\ main'.failed = IF Mine'.ok THEN main.failed ELSE main.failed + 1
  <2>1. CASE Mine'.pc = "idle" /\ Mine'.ok
    BY <1>1, <1>2, <2>1 DEF MainRec
  <2>2. CASE Mine'.pc = "idle" /\ ~Mine'.ok
    BY <1>1, <1>2, <2>2 DEF MainRec
  <2>3. QED
    BY <2>1, <2>2
<1>6. QED
  BY <1>2, <1>3, <1>4, <1>5

\* The steps that have nothing to do with the bus.
LEMMA MovesOn ==
    ASSUME Setting, BusStill, acquire \/ sleep_until_next \/ wake_up \/ clock_runs \/ wait_for_idle_bench
    PROVE  /\ main.pc \notin {"setup", "publish", "publishing", "stop"}
           /\ main'.pc \notin {"setup", "publishing", "stop"}
           /\ main'.pc = "publish" => acquire /\ pool.free # <<>>
           /\ main'.failed = main.failed /\ state' = state
           /\ Mine' = Mine
<1>1. main \in MainRec
  BY BaseParts DEF Setting
<1>2. Mine' = Mine /\ state' = state
  BY MineNext DEF BusStill, Mine, acquire, sleep_until_next, wake_up, clock_runs, wait_for_idle_bench
<1>3. ASSUME NEW x, Go(x)
      PROVE  main'.pc = x /\ main'.failed = main.failed
  BY <1>1, <1>3 DEF Go, MainRec
<1>4. CASE acquire
  BY <1>2, <1>3, <1>4 DEF acquire
<1>5. CASE wake_up \/ wait_for_idle_bench
  BY <1>2, <1>3, <1>5 DEF wake_up, wait_for_idle_bench
<1>6. CASE clock_runs
  BY <1>2, <1>6 DEF clock_runs
<1>7. CASE sleep_until_next
  <2>1. main.pc = "sleep" /\ (Go("asleep") \/ main' = [main EXCEPT !.pc = "loop", !.missed = @ + 1])
    BY <1>7 DEF sleep_until_next
  <2>2. CASE main' = [main EXCEPT !.pc = "loop", !.missed = @ + 1]
    <3>1. main'.pc = "loop" /\ main'.failed = main.failed
      BY <1>1, <2>2 DEF MainRec
    <3>2. QED
      BY <1>2, <2>1, <3>1
  <2>3. QED
    BY <1>2, <1>3, <2>1, <2>2
<1>8. QED
  BY <1>4, <1>5, <1>6, <1>7

\* What publish() does to the topics.
LEMMA TopicsWhilePublishing ==
    ASSUME Setting, publishing, NEW t \in Topics
    PROVE  /\ topics'[t].type = topics[t].type /\ topics'[t].subs = topics[t].subs
           /\ Mine.pc = "push" => topics'[t].published = topics[t].published
           /\ Mine.pc = "lock" /\ t = Mine.topic => topics'[t].published = topics[t].published + 1
<1> DEFINE p == main_thread
<1>1. TypeInv /\ p \in Publishers /\ Publishing(p) /\ Mine = pub[p]
  BY BaseParts, MineNext DEF Setting, publishing, Mine
<1>2. topics \in [Topics -> EntryRec]
  BY <1>1, PubTypes
<1>3. CASE ~publish_erased(p)
  <2>1. topics' = topics
    BY <1>1, <1>3, PublishFrame
  <2>2. Mine.pc # "lock"
    <3>1. Sends(Mine', Mine) \/ Feeds(Mine', Mine)
      BY SendSteps
    <3>2. QED
      BY <1>3, <3>1 DEF Sends, Feeds, Numbers
  <2>3. QED
    BY <2>1, <2>2
<1>4. CASE publish_erased(p)
  <2>1. /\ Mine.pc = "lock"
        /\ topics' = [topics EXCEPT ![Mine.topic].published = NumberedEnv(p).seq,
                          ![Mine.topic].latched = Latch(topics[Mine.topic], NumberedEnv(p), Mine.qos)]
    BY <1>1, <1>4 DEF publish_erased, NumberedEnv
  <2>2. Mine.topic \in Topics
    BY <1>1, <2>1, PubTypes
  <2>3. topics'[Mine.topic].published = topics[Mine.topic].published + 1
    BY <1>1, <1>4, NumberTopic
  <2>4. topics'[t].type = topics[t].type /\ topics'[t].subs = topics[t].subs
    BY <1>2, <2>1, <2>2 DEF EntryRec
  <2>5. QED
    BY <2>1, <2>3, <2>4
<1>5. QED
  BY <1>3, <1>4

\* A worker's step, seen from main().
LEMMA WorkersApart ==
    ASSUME Setting, NEW s \in Subscribers, deliver(s) \/ callback(s)
    PROVE  /\ UNCHANGED <<topics, pub, owner, stop, accepted, main, cargo, starts>> /\ Mine' = Mine
           /\ \A u \in Subscribers : u # s => sub'[u] = sub[u] /\ taken'[u] = taken[u]
<1>1. TypeInv /\ (Delivering(s) \/ callback_returns(s))
  BY BaseParts DEF Setting, deliver, callback
<1>2. /\ UNCHANGED <<topics, pub, owner, stop, accepted>>
      /\ \A u \in Subscribers : u # s => sub'[u] = sub[u] /\ taken'[u] = taken[u]
  BY <1>1, WorkerFrame
<1>3. UNCHANGED <<main, cargo, starts>>
  BY DEF deliver, callback, ownVars
<1>4. QED
  BY <1>2, <1>3, MineNext DEF Mine

\* A step keeps ControlShape.
LEMMA ControlStep == ASSUME Setting, [BenchNext]_benchVars PROVE ControlShape'
<1>1. ControlShape /\ TypeInv
  BY BaseParts DEF Setting
<1>2. Mine.pc # "none" => Mine.topic \in Topics
  BY <1>1, PubTypes, MineNext DEF Mine
<1>3. CASE BusStill /\ ownVars' = ownVars
  <2>1. Mine' = Mine /\ main' = main /\ cargo' = cargo
    BY <1>3, MineNext DEF BusStill, Mine, ownVars
  <2>2. QED
    BY <1>1, <1>3, <2>1 DEF ControlShape, BusStill
<1>4. ASSUME BusStill, acquire \/ sleep_until_next \/ wake_up \/ clock_runs \/ wait_for_idle_bench
      PROVE  ControlShape'
  <2>1. /\ main.pc \notin {"setup", "publishing", "stop"}
        /\ main'.pc \notin {"setup", "publishing", "stop"} /\ Mine' = Mine
    BY <1>4, MovesOn
  <2>2. QED
    BY <1>1, <1>4, <2>1 DEF ControlShape, BusStill
<1>5. CASE BusStill /\ start_ticker
  <2>1. /\ main.pc = "setup" /\ main'.pc = "loop" /\ Mine' = Mine
    <3>1. main \in MainRec
      BY BaseParts DEF Setting
    <3>2. QED
      BY <1>5, <3>1, MineNext DEF start_ticker, BusStill, Mine, MainRec
  <2>2. \A s \in Subscribers : owner[s].pc # "replay"
    BY <1>5 DEF start_ticker, Subscribed
  <2>3. Mine.pc # "none"
    <3>1. PICK s \in Subscribers : owner[s].pc = "subscribed"
      BY <1>5 DEF start_ticker, Subscribed
    <3>2. QED
      BY <3>1 DEF Setting, HandleShape, Handle, Known
  <2>4. QED
    BY <1>1, <1>5, <2>1, <2>2, <2>3 DEF ControlShape, BusStill
<1>6. ASSUME NEW qos \in Offered, advertise_bench(qos)
      PROVE  ControlShape'
  <2>1. main.pc = "setup" /\ main' = main /\ cargo' = cargo
    BY <1>6 DEF advertise_bench, ownVars
  <2>2. /\ Mine'.pc = "idle" /\ topics'[Mine'.topic].type = Mine'.type /\ stop' = stop
    BY <1>6, BenchAdvertises
  <2>3. QED
    BY <1>1, <2>1, <2>2 DEF ControlShape
<1>7. ASSUME NEW s \in Subscribers, subscribe_bench(s)
      PROVE  ControlShape'
  <2>1. main.pc = "setup" /\ Mine.pc = "idle" /\ main' = main /\ cargo' = cargo
    BY <1>7 DEF subscribe_bench, ownVars, Mine
  <2>2. Mine' = Mine /\ stop' = stop /\ topics'[Mine.topic].type = topics[Mine.topic].type
    <3>1. CASE Subscribing(s)
      BY <3>1, BenchStarts, MineNext DEF Mine
    <3>2. CASE subscribe(s, Mine.topic, Mine.type, Mine.qos)
      <4>1. /\ topics' = [topics EXCEPT ![Mine.topic] =
                            [ensure_topic(Mine.topic, Mine.type) EXCEPT !.subs = Append(@, s)]]
            /\ UNCHANGED <<pub, stop>>
        BY <2>1, <3>2, BenchSubscribes
      <4>2. topics \in [Topics -> EntryRec] /\ Mine.topic \in Topics
        BY <1>1, <1>2, <2>1, PubTypes
      <4>3. ensure_topic(Mine.topic, Mine.type) \in EntryRec
        <5>1. Mine.type \in Types
          BY <2>1, BaseParts DEF Setting, AdShape, Mine
        <5>2. QED
          BY <1>1, <4>2, <5>1, EnsureFields
      <4>4. ensure_topic(Mine.topic, Mine.type).type = topics[Mine.topic].type
        BY <1>1, <2>1 DEF ControlShape, ensure_topic
      <4>5. QED
        BY <4>1, <4>2, <4>3, <4>4, MineNext DEF Mine, EntryRec
    <3>3. QED
      BY <1>7, <3>1, <3>2 DEF subscribe_bench, Mine
  <2>3. QED
    BY <1>1, <2>1, <2>2 DEF ControlShape
<1>8. ASSUME NEW s \in Subscribers, deliver(s) \/ callback(s)
      PROVE  ControlShape'
  <2>1. UNCHANGED <<topics, owner, stop, main, cargo>> /\ Mine' = Mine
    BY <1>8, WorkersApart
  <2>2. QED
    BY <1>1, <2>1 DEF ControlShape
<1>9. CASE publish_sample
  <2>1. main.pc = "publish" /\ main'.pc = "publishing"
    <3>1. main \in MainRec
      BY BaseParts DEF Setting
    <3>2. QED
      BY <1>9, <3>1 DEF publish_sample, Go, MainRec
  <2>2. /\ Mine.pc = "idle" /\ Mine'.pc = "lock" /\ Mine'.ok
        /\ Mine'.topic = Mine.topic /\ Mine'.type = Mine.type
        /\ UNCHANGED <<topics, owner, stop>>
    BY <1>9, CallSample DEF SameAd
  <2>3. QED
    BY <1>1, <2>1, <2>2 DEF ControlShape
<1>10. CASE publishing
  <2>1. /\ Mine'.pc \in {"idle", "push"} /\ Mine'.topic = Mine.topic /\ Mine'.type = Mine.type
    BY <1>10, SendSteps DEF SameAd
  <2>2. /\ main.pc = "publishing" /\ Mine.pc \in {"lock", "push"}
        /\ Mine'.pc = "push" => main' = main
        /\ Mine'.pc = "idle" => main'.pc = "sleep"
        /\ UNCHANGED <<owner, stop>>
    BY <1>10, BenchPublishes
  <2>3. topics'[Mine.topic].type = topics[Mine.topic].type
    BY <1>2, <1>10, <2>2, TopicsWhilePublishing
  <2>4. QED
    BY <1>1, <2>1, <2>2, <2>3 DEF ControlShape
<1>11. CASE shutdown_bench
  <2>1. /\ main.pc \in {"idle", "stop"} /\ main'.pc = "stop"
        /\ UNCHANGED <<pub, owner>>
        /\ \A t \in Topics : topics'[t].type = topics[t].type
    BY <1>11, BenchStops
  <2>2. Mine' = Mine
    BY <2>1, MineNext DEF Mine
  <2>3. QED
    BY <1>1, <1>2, <2>1, <2>2 DEF ControlShape
<1>12. QED
  BY <1>3, <1>4, <1>5, <1>6, <1>7, <1>8, <1>9, <1>10, <1>11, BenchKinds

\* A handle stays with its subscriber.
LEMMA OwnersHere ==
    ASSUME Setting, [BenchNext]_benchVars, NEW s \in Subscribers
    PROVE  /\ owner'[s].pc \in {"idle", "replay", "subscribed"}
           /\ \/ Known(s)' <=> Known(s)
              \/ /\ main.pc = "setup" /\ subscribe_bench(s)
                 /\ Subscribes(s, Mine.topic, Mine.type, Mine.qos)
<1>1. owner[s].pc \in {"idle", "replay", "subscribed"}
  BY DEF Setting, HandleShape, Handle
<1>2. SubKind(s)
  BY SubKinds
<1>3. CASE owner'[s].pc = owner[s].pc
  BY <1>1, <1>3 DEF Known
<1>4. CASE Starts(s)
  BY <1>4 DEF Starts, Known
<1>5. CASE main.pc = "setup" /\ subscribe_bench(s) /\ Subscribes(s, Mine.topic, Mine.type, Mine.qos)
  BY <1>5 DEF Subscribes
<1>6. QED
  BY <1>2, <1>3, <1>4, <1>5 DEF SubKind, SubKeeps, OwnerSame

\* The list of the topic before shutdown().
LEMMA ListGrows ==
    ASSUME Setting, [BenchNext]_benchVars, Mine.pc # "none", main'.pc # "stop"
    PROVE  /\ ToSet(topics[Mine.topic].subs) \subseteq ToSet(topics'[Mine.topic].subs)
           /\ \A s \in Subscribers : subscribe(s, Mine.topic, Mine.type, Mine.qos)
                 => s \in ToSet(topics'[Mine.topic].subs)
           /\ Mine'.topic = Mine.topic /\ Mine'.qos = Mine.qos /\ Mine'.pc # "none"
<1>1. TypeInv /\ [Next]_vars /\ Mine.topic \in Topics /\ Mine.type \in Types
  BY BaseParts, BenchIsBusStep DEF Setting, AdShape, Mine
<1>2. Mine'.topic = Mine.topic /\ Mine'.qos = Mine.qos /\ Mine'.pc # "none"
  BY <1>1, MineNext, AdKept DEF Mine, SameAd
<1>3. topics \in [Topics -> EntryRec] /\ topics[Mine.topic].subs \in Seq(Subscribers)
  BY <1>1, PubTypes
<1>4. ASSUME NEW s \in Subscribers, subscribe(s, Mine.topic, Mine.type, Mine.qos)
      PROVE  ToSet(topics'[Mine.topic].subs) = ToSet(topics[Mine.topic].subs) \cup {s}
  <2>1. topics' = [topics EXCEPT ![Mine.topic] =
                      [ensure_topic(Mine.topic, Mine.type) EXCEPT !.subs = Append(@, s)]]
    BY <1>4, BenchSubscribes
  <2>2. /\ ensure_topic(Mine.topic, Mine.type) \in EntryRec
        /\ ensure_topic(Mine.topic, Mine.type).subs = topics[Mine.topic].subs
    BY <1>1, EnsureFields DEF SameEntry
  <2>3. topics'[Mine.topic].subs = Append(topics[Mine.topic].subs, s)
    BY <1>1, <1>3, <2>1, <2>2 DEF EntryRec
  <2>4. QED
    BY <1>3, <2>3, ToSetAppend
<1>5. CASE topics'[Mine.topic].subs = topics[Mine.topic].subs
  BY <1>2, <1>4, <1>5
<1>6. CASE UNCHANGED topics
  BY <1>5, <1>6
<1>7. ASSUME NEW s \in Subscribers, subscribe_bench(s)
      PROVE  \/ UNCHANGED topics
             \/ subscribe(s, Mine.topic, Mine.type, Mine.qos)
  BY <1>7, BenchStarts DEF subscribe_bench, Mine
<1>8. CASE \E s \in Subscribers : subscribe(s, Mine.topic, Mine.type, Mine.qos)
  BY <1>2, <1>4, <1>8
<1>9. ASSUME NEW s \in Subscribers, deliver(s) \/ callback(s)
      PROVE  UNCHANGED topics
  BY <1>9, WorkersApart
<1>10. CASE publishing
  BY <1>1, <1>5, <1>10, TopicsWhilePublishing
<1>11. ~shutdown_bench
  BY BenchStops
<1>12. ASSUME NEW qos \in Offered
       PROVE  ~advertise_bench(qos)
  BY BenchAdvertises
<1>13. publish_sample => UNCHANGED topics
  BY CallSample
<1>14. BusStill => UNCHANGED topics
  BY DEF BusStill
<1>15. QED
  BY <1>6, <1>7, <1>8, <1>9, <1>10, <1>11, <1>12, <1>13, <1>14, BenchKinds

\* A step keeps HandleShape.
LEMMA HandleStep == ASSUME Setting, [BenchNext]_benchVars PROVE HandleShape'
<1> SUFFICES ASSUME NEW s \in Subscribers
             PROVE  Handle(s)'
  BY DEF HandleShape
<1>1. TypeInv /\ [Next]_vars /\ Handle(s)
  BY BaseParts, BenchIsBusStep DEF Setting, HandleShape
<1>2. /\ owner'[s].pc \in {"idle", "replay", "subscribed"}
      /\ \/ Known(s)' <=> Known(s)
         \/ /\ main.pc = "setup" /\ subscribe_bench(s)
            /\ Subscribes(s, Mine.topic, Mine.type, Mine.qos)
  BY OwnersHere
<1>3. CASE ~Known(s)'
  BY <1>2, <1>3 DEF Handle
<1>4. CASE Known(s)' /\ Known(s)
  <2>1. SameSetup(sub'[s], sub[s])
    BY <1>1, <1>4, KnownKept
  <2>2. Mine.pc # "none" /\ sub[s].topic = Mine.topic /\ sub[s].qos = Mine.qos
    BY <1>1, <1>4 DEF Handle
  <2>3. Mine'.topic = Mine.topic /\ Mine'.qos = Mine.qos /\ Mine'.pc # "none"
    BY <1>1, <2>2, MineNext, AdKept DEF Mine, SameAd
  <2>4. CASE main'.pc # "stop"
    <3>1. main.pc # "stop"
      <4>1. CASE main.pc = "stop"
        <5>1. \/ BusStill /\ ownVars' = ownVars
              \/ shutdown_bench
              \/ \E u \in Subscribers : deliver(u) \/ callback(u)
          BY <4>1, BenchKinds, MovesOn DEF subscribe_bench, advertise_bench, start_ticker,
             publish_sample, publishing
        <5>2. ASSUME NEW u \in Subscribers, deliver(u) \/ callback(u)
              PROVE  main' = main
          BY <5>2, WorkersApart
        <5>3. QED
          BY <2>4, <4>1, <5>1, <5>2, BenchStops DEF ownVars
      <4>2. QED
        BY <4>1
    <3>2. s \in ToSet(topics[Mine.topic].subs)
      BY <1>1, <1>4, <3>1 DEF Handle
    <3>3. s \in ToSet(topics'[Mine.topic].subs)
      BY <2>2, <2>4, <3>2, ListGrows
    <3>4. QED
      BY <1>2, <2>1, <2>2, <2>3, <2>4, <3>3 DEF Handle, SameSetup
  <2>5. CASE main'.pc = "stop"
    <3>1. s \in stop'.ready
      <4>1. CASE main.pc = "stop"
        <5>1. s \in stop.ready
          BY <1>1, <1>4, <4>1 DEF Handle
        <5>2. \/ BusStill /\ ownVars' = ownVars
              \/ shutdown_bench
              \/ \E u \in Subscribers : deliver(u) \/ callback(u)
          BY <4>1, BenchKinds, MovesOn DEF subscribe_bench, advertise_bench, start_ticker,
             publish_sample, publishing
        <5>3. ASSUME NEW u \in Subscribers, deliver(u) \/ callback(u)
              PROVE  stop' = stop
          BY <5>3, WorkersApart
        <5>4. QED
          BY <4>1, <5>1, <5>2, <5>3, BenchStops DEF BusStill
      <4>2. CASE main.pc # "stop"
        <5>1. shutdown_bench
          <6>1. ASSUME NEW u \in Subscribers, deliver(u) \/ callback(u)
                PROVE  main' = main
            BY <6>1, WorkersApart
          <6>2. ASSUME NEW u \in Subscribers, subscribe_bench(u)
                PROVE  main' = main
            BY <6>2 DEF subscribe_bench, ownVars
          <6>3. ASSUME NEW qos \in Offered, advertise_bench(qos)
                PROVE  main' = main
            BY <6>3 DEF advertise_bench, ownVars
          <6>4. main \in MainRec
            BY BaseParts DEF Setting
          <6>5. start_ticker => main'.pc = "loop"
            BY <6>4 DEF start_ticker, MainRec
          <6>6. publish_sample => main'.pc = "publishing"
            BY <6>4 DEF publish_sample, Go, MainRec
          <6>7. publishing => main'.pc \in {"publishing", "sleep"}
            BY BenchPublishes, SendSteps
          <6>8. QED
            BY <2>5, <4>2, <6>1, <6>2, <6>3, <6>5, <6>6, <6>7, BenchKinds, MovesOn DEF ownVars
        <5>2. main.pc = "idle" /\ shutdown
          BY <4>2, <5>1, BenchStops
        <5>3. s \in AllListed /\ owner[s].pc = "subscribed"
          <6>1. s \in ToSet(topics[Mine.topic].subs) /\ Mine.topic \in Topics
            BY <1>1, <1>4, <2>2, <4>2, PubTypes, MineNext DEF Handle, Mine
          <6>2. owner[s].pc # "replay"
            BY <5>2 DEF Setting, ControlShape
          <6>3. QED
            BY <1>1, <1>4, <6>1, <6>2 DEF Handle, Known, AllListed
        <5>4. Begins
          <6>1. StopStep
            BY <1>1, StopSteps
          <6>2. stop' # stop
            <7>1. stop.calls \in Nat /\ stop'.calls = stop.calls + 1
              <8>1. stop \in StopRec
                BY <1>1, TypeParts DEF TypeInv
              <8>2. stop.calls \in Nat
                BY <8>1, SetsAssumption DEF StopRec
              <8>3. \E pc, all, f, r : stop' = [pc |-> pc, all |-> all, calls |-> stop.calls + 1,
                                                found |-> f, ready |-> r]
                BY <5>2, Zenon DEF shutdown
              <8>4. QED
                BY <8>2, <8>3
            <7>2. QED
              BY <7>1
          <6>3. ~Proceeds
            BY <5>2 DEF Proceeds, Setting, ControlShape
          <6>4. QED
            BY <6>1, <6>2, <6>3 DEF StopStep
        <5>5. QED
          BY <5>3, <5>4 DEF Begins
      <4>3. QED
        BY <4>1, <4>2
    <3>2. QED
      BY <1>2, <2>1, <2>2, <2>3, <2>5, <3>1 DEF Handle, SameSetup
  <2>6. QED
    BY <2>4, <2>5
<1>5. CASE Known(s)' /\ ~Known(s)
  <2>1. main.pc = "setup" /\ subscribe_bench(s) /\ Subscribes(s, Mine.topic, Mine.type, Mine.qos)
    BY <1>2, <1>5
  <2>2. /\ sub'[s].topic = Mine.topic /\ sub'[s].qos = Mine.qos /\ owner[s].pc = "idle"
        /\ Mine.pc # "none" /\ main' = main
    BY <2>1 DEF Subscribes, subscribe_bench, ownVars, Mine
  <2>3. subscribe(s, Mine.topic, Mine.type, Mine.qos)
    <3>1. ~Subscribing(s)
      BY <2>2 DEF Subscribing, replay_backlog, start_worker
    <3>2. QED
      BY <2>1, <3>1 DEF subscribe_bench, Mine
  <2>4. QED
    BY <1>2, <2>1, <2>2, <2>3, ListGrows DEF Handle
<1>6. QED
  BY <1>3, <1>4, <1>5

-----------------------------------------------------------------------------
(* The numbers of the messages. *)

PoolRec  == [free: Seq(Nat), total: Nat, exhausted: Nat]
CargoRec == [buffer: Nat, seq: Nat]

\* The buffer of a message that has no number yet.
Early == IF main.pc = "publish" \/ Mine.pc = "lock" THEN 1 ELSE 0

\* The messages that have one are numbered as they were loaded.
NumberOK ==
    /\ pool \in PoolRec /\ cargo \in Seq(CargoRec)
    /\ Mine.pc # "none" => topics[Mine.topic].published + Early = Len(cargo)
    /\ Mine.pc = "push" => Mine.env.seq = Len(cargo)
    /\ Early = 1 => cargo # <<>>

\* Nothing is loaded by a step that is no acquire().
LEMMA CargoFrame ==
    ASSUME [BenchNext]_benchVars
    PROVE  acquire \/ UNCHANGED cargo
BY DEF BenchNext, benchVars, ownVars, advertise_bench, subscribe_bench, start_ticker, publish_sample, publishing,
       sleep_until_next, wake_up, wait_for_idle_bench, shutdown_bench, deliver, callback, clock_runs

\* What acquire() does.
LEMMA AcquireFields ==
    ASSUME pool \in PoolRec, cargo \in Seq(CargoRec), acquire, starts \in Seq(Nat), main \in MainRec
    PROVE  /\ pool' \in PoolRec /\ cargo' \in Seq(CargoRec) /\ pool'.total = pool.total
           /\ main.pc = "loop" /\ main'.failed = main.failed
           /\ pool.free = <<>> => /\ cargo' = cargo /\ main'.pc = "sleep"
                                  /\ pool'.free = pool.free /\ pool'.exhausted = pool.exhausted + 1
           /\ pool.free # <<>> => /\ cargo' = Append(cargo, [buffer |-> Acquired(pool), seq |-> Len(starts)])
                                  /\ main'.pc = "publish" /\ Acquired(pool) \in Nat
                                  /\ pool'.free = SubSeq(pool.free, 1, Len(pool.free) - 1)
                                  /\ pool'.exhausted = pool.exhausted
<1>1. Len(starts) \in Nat
  OBVIOUS
<1>2. CASE pool.free = <<>>
  <2>1. /\ main.pc = "loop" /\ Go("sleep") /\ cargo' = cargo
        /\ pool' = [pool EXCEPT !.exhausted = @ + 1]
    BY <1>2 DEF acquire, Acquire
  <2>2. main'.pc = "sleep" /\ main'.failed = main.failed
    BY <2>1 DEF Go, MainRec
  <2>3. pool.exhausted + 1 \in Nat
    BY DEF PoolRec
  <2>4. /\ pool' \in PoolRec /\ pool'.total = pool.total /\ pool'.free = pool.free
        /\ pool'.exhausted = pool.exhausted + 1
    BY <2>1, <2>3 DEF PoolRec
  <2>5. QED
    BY <1>2, <2>1, <2>2, <2>4
<1>3. CASE pool.free # <<>>
  <2>1. pool.free \in Seq(Nat) /\ Len(pool.free) \in Nat /\ Len(pool.free) >= 1
    BY <1>3 DEF PoolRec
  <2>2. Acquired(pool) \in Nat /\ SubSeq(pool.free, 1, Len(pool.free) - 1) \in Seq(Nat)
    BY <2>1 DEF Acquired
  <2>3. cargo' = Append(cargo, [buffer |-> Acquired(pool), seq |-> Len(starts)]) /\ Go("publish")
        /\ pool' = [pool EXCEPT !.free = SubSeq(@, 1, Len(@) - 1)] /\ main.pc = "loop"
    BY <1>3 DEF acquire, Acquire
  <2>4. [buffer |-> Acquired(pool), seq |-> Len(starts)] \in CargoRec
    BY <1>1, <2>2 DEF CargoRec
  <2>5. cargo' \in Seq(CargoRec)
    BY <2>3, <2>4
  <2>6. pool' \in PoolRec /\ pool'.total = pool.total /\ pool'.exhausted = pool.exhausted
        /\ pool'.free = SubSeq(pool.free, 1, Len(pool.free) - 1)
    BY <2>2, <2>3 DEF PoolRec
  <2>7. main'.pc = "publish" /\ main'.failed = main.failed
    BY <2>3 DEF Go, MainRec
  <2>8. QED
    BY <1>3, <2>2, <2>3, <2>5, <2>6, <2>7
<1>4. QED
  BY <1>2, <1>3

\* A buffer comes back.
LEMMA ReleaseFields ==
    ASSUME NEW p \in PoolRec, NEW b \in Nat
    PROVE  /\ Release(p, b) \in PoolRec /\ Release(p, b).free = Append(p.free, b)
           /\ Release(p, b).total = p.total /\ Release(p, b).exhausted = p.exhausted
<1>1. Append(p.free, b) \in Seq(Nat)
  BY DEF PoolRec
<1>2. QED
  BY <1>1 DEF Release, PoolRec

\* A step keeps the type of the pool.
LEMMA PoolTyped ==
    ASSUME pool \in PoolRec, cargo \in Seq(CargoRec), [BenchNext]_benchVars, TickerTypes
    PROVE  pool' \in PoolRec /\ cargo' \in Seq(CargoRec)
<1>1. CASE acquire
  BY <1>1, AcquireFields DEF TickerTypes
<1>2. CASE UNCHANGED <<pool, cargo>>
  BY <1>2
<1>3. ASSUME ReturnBuffers, UNCHANGED cargo
      PROVE  pool' \in PoolRec
  <2> DEFINE gone == Referenced \ Referenced'
             k == CHOOSE x \in gone : TRUE
  <2>1. pool' = IF gone = {} THEN pool ELSE Release(pool, cargo[k].buffer)
    BY <1>3 DEF ReturnBuffers
  <2>2. gone # {} => k \in DOMAIN cargo
    BY DEF Referenced
  <2> HIDE DEF gone, k
  <2>3. CASE gone # {}
    <3>1. cargo[k] \in CargoRec
      BY <2>2, <2>3
    <3>2. cargo[k].buffer \in Nat
      BY <3>1 DEF CargoRec
    <3>3. QED
      BY <2>1, <2>3, <3>2, ReleaseFields
  <2>4. QED
    BY <2>1, <2>3
<1>4. CASE publishing \/ \E s \in Subscribers : callback(s)
  BY <1>3, <1>4 DEF publishing, callback
<1>5. QED
  BY <1>1, <1>2, <1>4 DEF BenchNext, benchVars, ownVars, advertise_bench, subscribe_bench, start_ticker,
       publish_sample, sleep_until_next, wake_up, wait_for_idle_bench, shutdown_bench, deliver, clock_runs

\* A step keeps the numbers.
LEMMA NumberOKStep == ASSUME Setting, NumberOK, [BenchNext]_benchVars PROVE NumberOK'
<1>1. TypeInv /\ TickerTypes /\ main \in MainRec /\ starts \in Seq(Nat) /\ ControlShape
  BY BaseParts DEF Setting, Base, TickerTypes
<1>2. pool' \in PoolRec /\ cargo' \in Seq(CargoRec)
  BY <1>1, PoolTyped DEF NumberOK
<1>3. Mine.pc # "none" => Mine.topic \in Topics /\ topics[Mine.topic].published \in Nat
  <2>1. Mine.pc # "none" => Mine.topic \in Topics
    BY <1>1, PubTypes, MineNext DEF Mine
  <2>2. QED
    BY <1>1, <2>1, PubTypes, SetsAssumption
<1>4. Len(cargo) \in Nat
  BY DEF NumberOK
<1>5. ASSUME Mine' = Mine, cargo' = cargo, Early' = Early,
             Mine.pc # "none" => topics'[Mine.topic].published = topics[Mine.topic].published
      PROVE  NumberOK'
  BY <1>2, <1>5 DEF NumberOK
<1>6. ASSUME BusStill \/ UNCHANGED <<topics, pub>>, main' = main, cargo' = cargo
      PROVE  NumberOK'
  <2>1. Mine' = Mine /\ topics' = topics /\ Early' = Early
    BY <1>6, MineNext DEF BusStill, Mine, Early
  <2>2. QED
    BY <1>5, <1>6, <2>1
<1>7. CASE BusStill /\ ownVars' = ownVars
  BY <1>6, <1>7 DEF ownVars
<1>8. CASE BusStill /\ start_ticker
  <2>1. main.pc = "setup" /\ main'.pc = "loop" /\ cargo' = cargo
    BY <1>1, <1>8 DEF start_ticker, MainRec
  <2>2. Mine' = Mine /\ topics' = topics /\ Early' = Early
    BY <1>8, <2>1, MineNext DEF BusStill, Mine, Early
  <2>3. QED
    BY <1>5, <2>1, <2>2
<1>9. ASSUME BusStill, acquire \/ sleep_until_next \/ wake_up \/ clock_runs \/ wait_for_idle_bench
      PROVE  NumberOK'
  <2>1. /\ main.pc \notin {"setup", "publish", "publishing", "stop"}
        /\ main'.pc \notin {"setup", "publishing", "stop"}
        /\ main'.pc = "publish" => acquire /\ pool.free # <<>>
        /\ Mine' = Mine
    BY <1>9, MovesOn
  <2>2. Mine.pc \notin {"lock", "push"} /\ Mine.pc # "none" /\ topics' = topics
    BY <1>1, <1>9, <2>1 DEF ControlShape, BusStill
  <2>3. Early = 0
    BY <2>1, <2>2 DEF Early
  <2>4. CASE ~acquire
    <3>1. Early' = Early /\ cargo' = cargo
      BY <2>1, <2>2, <2>4, CargoFrame DEF Early
    <3>2. QED
      BY <1>5, <2>1, <2>2, <3>1
  <2>5. CASE acquire /\ pool.free = <<>>
    <3>1. cargo' = cargo /\ main'.pc = "sleep"
      BY <1>1, <2>5, AcquireFields DEF NumberOK
    <3>2. Early' = Early
      BY <2>1, <2>2, <3>1 DEF Early
    <3>3. QED
      BY <1>5, <2>1, <2>2, <3>1, <3>2
  <2>6. CASE acquire /\ pool.free # <<>>
    <3>1. /\ cargo' = Append(cargo, [buffer |-> Acquired(pool), seq |-> Len(starts)])
          /\ main'.pc = "publish" /\ Acquired(pool) \in Nat
      BY <1>1, <2>6, AcquireFields DEF NumberOK
    <3>2. [buffer |-> Acquired(pool), seq |-> Len(starts)] \in CargoRec
      BY <1>1, <3>1 DEF CargoRec
    <3>3. Len(cargo') = Len(cargo) + 1 /\ cargo' # <<>>
      BY <3>1, <3>2 DEF NumberOK
    <3>4. Early' = 1
      BY <3>1 DEF Early
    <3>5. topics[Mine.topic].published + 0 = Len(cargo)
      BY <2>2, <2>3 DEF NumberOK
    <3>6. topics'[Mine.topic].published + 1 = Len(cargo')
      BY <1>3, <2>2, <3>3, <3>5
    <3>7. QED
      BY <1>2, <2>1, <2>2, <3>3, <3>4, <3>6 DEF NumberOK
  <2>7. QED
    BY <2>4, <2>5, <2>6
<1>10. ASSUME NEW qos \in Offered, advertise_bench(qos)
       PROVE  NumberOK'
  <2>1. main.pc = "setup" /\ main' = main /\ cargo' = cargo
    BY <1>10 DEF advertise_bench, ownVars
  <2>2. Mine'.pc = "idle" /\ Mine'.topic \in Topics /\ \A t \in Topics : topics'[t].published = 0
    BY <1>10, BenchAdvertises
  <2>3. cargo = <<>>
    BY <1>1, <2>1 DEF ControlShape
  <2>4. Early' = 0
    BY <2>1, <2>2 DEF Early
  <2>5. QED
    BY <1>2, <2>1, <2>2, <2>3, <2>4 DEF NumberOK
<1>11. ASSUME NEW s \in Subscribers, subscribe_bench(s)
       PROVE  NumberOK'
  <2>1. main.pc = "setup" /\ Mine.pc = "idle" /\ main' = main /\ cargo' = cargo
    BY <1>11 DEF subscribe_bench, ownVars, Mine
  <2>2. UNCHANGED pub /\ topics'[Mine.topic].published = topics[Mine.topic].published
    <3>1. CASE Subscribing(s)
      BY <3>1, BenchStarts
    <3>2. CASE subscribe(s, Mine.topic, Mine.type, Mine.qos)
      <4>1. /\ topics' = [topics EXCEPT ![Mine.topic] =
                            [ensure_topic(Mine.topic, Mine.type) EXCEPT !.subs = Append(@, s)]]
            /\ UNCHANGED pub
        BY <2>1, <3>2, BenchSubscribes
      <4>2. topics \in [Topics -> EntryRec] /\ Mine.topic \in Topics /\ Mine.type \in Types
        BY <1>1, <1>3, <2>1, PubTypes, BaseParts DEF Setting, AdShape, Mine
      <4>3. /\ ensure_topic(Mine.topic, Mine.type) \in EntryRec
            /\ ensure_topic(Mine.topic, Mine.type).published = topics[Mine.topic].published
        BY <1>1, <4>2, EnsureFields DEF SameEntry
      <4>4. QED
        BY <4>1, <4>2, <4>3 DEF EntryRec
    <3>3. QED
      BY <1>11, <3>1, <3>2 DEF subscribe_bench, Mine
  <2>3. Mine' = Mine /\ Early' = Early
    BY <2>1, <2>2, MineNext DEF Mine, Early
  <2>4. QED
    BY <1>5, <2>1, <2>2, <2>3
<1>12. ASSUME NEW s \in Subscribers, deliver(s) \/ callback(s)
       PROVE  NumberOK'
  BY <1>6, <1>12, WorkersApart
<1>13. CASE publish_sample
  <2>1. main.pc = "publish" /\ main'.pc = "publishing" /\ cargo' = cargo
    BY <1>1, <1>13 DEF publish_sample, Go, MainRec
  <2>2. /\ Mine.pc = "idle" /\ Mine'.pc = "lock" /\ Mine'.topic = Mine.topic /\ topics' = topics
    BY <1>13, CallSample DEF SameAd
  <2>3. Early = 1 /\ Early' = 1
    BY <2>1, <2>2 DEF Early
  <2>4. QED
    BY <1>2, <2>1, <2>2, <2>3 DEF NumberOK
<1>14. CASE publishing
  <2>1. /\ Mine'.pc \in {"idle", "push"} /\ Mine'.topic = Mine.topic
        /\ Sends(Mine', Mine) \/ Feeds(Mine', Mine)
    BY <1>14, SendSteps DEF SameAd
  <2>2. /\ main.pc = "publishing" /\ Mine.pc \in {"lock", "push"} /\ cargo' = cargo
        /\ main'.pc \in {"publishing", "sleep"}
    BY <1>14, <2>1, BenchPublishes
  <2>3. /\ Mine.pc = "push" => topics'[Mine.topic].published = topics[Mine.topic].published
        /\ Mine.pc = "lock" => topics'[Mine.topic].published = topics[Mine.topic].published + 1
    BY <1>3, <1>14, <2>2, TopicsWhilePublishing
  <2>4. Early' = 0
    BY <2>1, <2>2 DEF Early
  <2>5. CASE Mine.pc = "lock"
    <3>1. Early = 1
      BY <2>5 DEF Early
    <3>2. Mine'.env.seq = topics[Mine.topic].published + 1
      BY <2>1, <2>5, MineNext DEF Sends, Feeds, Numbers, Mine
    <3>3. topics[Mine.topic].published + 1 = Len(cargo)
      BY <2>5, <3>1 DEF NumberOK
    <3>4. QED
      BY <1>2, <1>3, <1>4, <2>1, <2>2, <2>3, <2>4, <2>5, <3>2, <3>3 DEF NumberOK
  <2>6. CASE Mine.pc = "push"
    <3>1. Early = 0
      BY <2>2, <2>6 DEF Early
    <3>2. Mine'.env = Mine.env
      BY <2>1, <2>6 DEF Sends, Feeds
    <3>3. topics[Mine.topic].published + 0 = Len(cargo) /\ Mine.env.seq = Len(cargo)
      BY <2>6, <3>1 DEF NumberOK
    <3>4. QED
      BY <1>2, <1>3, <1>4, <2>1, <2>2, <2>3, <2>4, <2>6, <3>2, <3>3 DEF NumberOK
  <2>7. QED
    BY <2>2, <2>5, <2>6
<1>15. CASE shutdown_bench
  <2>1. /\ main.pc \in {"idle", "stop"} /\ main'.pc = "stop"
        /\ UNCHANGED <<pub, cargo>>
        /\ \A t \in Topics : topics'[t].published = topics[t].published
    BY <1>15, BenchStops
  <2>2. Mine' = Mine /\ Early' = Early
    BY <2>1, MineNext DEF Mine, Early
  <2>3. QED
    BY <1>3, <1>5, <2>1, <2>2
<1>16. QED
  BY <1>7, <1>8, <1>9, <1>10, <1>11, <1>12, <1>13, <1>14, <1>15, BenchKinds

-----------------------------------------------------------------------------
(* What the queues have accepted. *)

\* A queue that blocks drops nothing, and nothing expires.
QueueOK(s) ==
    /\ sub[s].expired = 0
    /\ sub[s].queue.policy = "Block" => sub[s].queue.dropped = 0
    /\ Known(s) /\ sub[s].qos.reliability = "BestEffort" => sub[s].queue.policy = "DropOldest"
    /\ sub[s].worker = "callback" => taken[s] # <<>>
QueueShape == \A s \in Subscribers : QueueOK(s)

\* Each message that has a number is on its way to s, or s has accepted it, or the call that
\* sent it has failed or will.
Given(s)   == topics[Mine.topic].published - (IF s \in ToSet(Mine.targets) THEN 1 ELSE 0)
Missing(s) ==
    main.failed + (IF Mine.pc = "push" /\ ~Mine.ok /\ s \notin ToSet(Mine.targets) THEN 1 ELSE 0)
SentOK(s)  == Known(s) => Len(accepted[s]) <= Given(s) /\ Given(s) <= Len(accepted[s]) + Missing(s)

\* With BestEffort none fails.
NoneFails ==
    Mine.pc # "none" /\ Mine.qos.reliability = "BestEffort" =>
        main.failed = 0 /\ (Mine.pc = "push" => Mine.ok)
SentShape == NoneFails /\ \A s \in Subscribers : SentOK(s)

\* What a worker takes is the last it has taken.
LEMMA LastTaken ==
    ASSUME Base, NEW s \in Subscribers, Delivers(s)
    PROVE  /\ Len(taken'[s]) = Len(taken[s]) + 1 /\ taken'[s] # <<>> /\ Len(taken[s]) \in Nat
           /\ Last(taken'[s]).env = sub[s].held
<1> DEFINE x == [env |-> sub[s].held, at |-> now, fate |-> "callback"]
<1>1. taken[s] \in Seq(TakenRec) /\ sub[s].held \in Envelope /\ now \in 1..MaxTime
  BY BaseParts, FourTypes
<1>2. x \in TakenRec /\ x.env = sub[s].held
  BY <1>1 DEF TakenRec
<1>3. taken'[s] = Append(taken[s], x)
  BY DEF Delivers
<1> HIDE DEF x
<1>4. /\ Len(Append(taken[s], x)) = Len(taken[s]) + 1 /\ Len(taken[s]) \in Nat
      /\ Append(taken[s], x) \in Seq(TakenRec)
      /\ Append(taken[s], x)[Len(taken[s]) + 1] = x
  BY <1>1, <1>2
<1>5. QED
  BY <1>2, <1>3, <1>4 DEF Last

\* A step keeps QueueShape.
LEMMA QueueShapeStep == ASSUME Setting, QueueShape, [BenchNext]_benchVars PROVE QueueShape'
<1> SUFFICES ASSUME NEW s \in Subscribers
             PROVE  QueueOK(s)'
  BY DEF QueueShape
<1>1. QueueOK(s) /\ SubKind(s)
  BY SubKinds DEF QueueShape
<1>2. sub[s] \in SubRec /\ sub[s].queue \in Queue(Envelope) /\ taken[s] \in Seq(TakenRec)
      /\ Len(sub[s].queue.items) <= sub[s].queue.capacity
  BY BaseParts, FourTypes DEF Setting
<1>3. CASE SubKeeps(s)
  BY <1>1, <1>3 DEF QueueOK, SubKeeps, SameSetup, SameCounts, SameWorker, LogSame, Known
<1>4. CASE Receives(s, Mine.env) /\ OwnerSame(s)
  <2> DEFINE q == Stored(sub[s].queue, Mine.env)
  <2>1. /\ sub'[s].queue = q /\ ~CannotStore(s)
        /\ SameSetup(sub'[s], sub[s]) /\ SameCounts(sub'[s], sub[s]) /\ SameWorker(sub'[s], sub[s])
        /\ taken'[s] = taken[s]
    BY <1>4 DEF Receives
  <2>2. Mine.env \in Envelope
    BY BaseParts, PubTypes, MineNext DEF Setting, Mine
  <2>3. /\ q.policy = sub[s].queue.policy
        /\ q.items = Append(IF IsFull(sub[s].queue) THEN Tail(sub[s].queue.items) ELSE sub[s].queue.items, Mine.env)
        /\ q.dropped + Len(q.items) = sub[s].queue.dropped + Len(sub[s].queue.items) + 1
        /\ q \in Queue(Envelope)
    BY <1>2, <2>2, StoredProperties, SMTT(40)
  <2> HIDE DEF q
  <2>4. sub[s].queue.policy = "Block" => q.dropped = sub[s].queue.dropped
    <3>1. CASE ~IsFull(sub[s].queue)
      <4>1. Len(q.items) = Len(sub[s].queue.items) + 1
        BY <1>2, <2>2, <2>3, <3>1 DEF Queue
      <4>2. q.dropped \in Nat /\ sub[s].queue.dropped \in Nat /\ Len(sub[s].queue.items) \in Nat
        BY <1>2, <2>3 DEF Queue
      <4>3. \A d, e, m \in Nat : d + (m + 1) = e + m + 1 => d = e
        OBVIOUS
      <4>4. QED
        BY <2>3, <4>1, <4>2, <4>3
    <3>2. CASE IsFull(sub[s].queue)
      BY <2>1, <3>2 DEF CannotStore
    <3>3. QED
      BY <3>1, <3>2
  <2>5. QED
    BY <1>1, <1>4, <2>1, <2>3, <2>4 DEF QueueOK, SameSetup, SameCounts, SameWorker, Known, OwnerSame
<1>5. CASE Subscribes(s, Mine.topic, Mine.type, Mine.qos)
  BY <1>5 DEF Subscribes, QueueOK, SameCounts, SameWorker, Subscription0
<1>6. CASE Starts(s)
  BY <1>1, <1>6 DEF Starts, QueueOK, SameCounts, SameSetup, SameQueue, Known
<1>7. CASE Pops(s) /\ OwnerSame(s)
  <2>1. /\ sub'[s].queue.policy = sub[s].queue.policy
        /\ sub'[s].queue.dropped = sub[s].queue.dropped
    BY <1>2, <1>7, DequeueProperties DEF Pops
  <2>2. QED
    BY <1>1, <1>7, <2>1 DEF Pops, QueueOK, SameCounts, SameSetup, Known, OwnerSame
<1>8. CASE Delivers(s) /\ OwnerSame(s)
  <2>1. taken'[s] # <<>>
    BY <1>8, LastTaken DEF Setting
  <2>2. QED
    BY <1>1, <1>8, <2>1 DEF Delivers, QueueOK, SameSetup, SameQueue, Known, OwnerSame
<1>9. CASE (Exits(s) \/ Returns(s)) /\ OwnerSame(s)
  BY <1>1, <1>9 DEF Exits, Returns, QueueOK, SameCounts, SameSetup, SameQueue, Known, OwnerSame
<1>10. QED
  BY <1>1, <1>3, <1>4, <1>5, <1>6, <1>7, <1>8, <1>9 DEF SubKind

\* The numbers that SentOK compares.
LEMMA SentTypes ==
    ASSUME Setting, NEW s \in Subscribers, Known(s)
    PROVE  /\ Mine.pc # "none" /\ Mine.topic \in Topics /\ topics[Mine.topic].published \in Nat
           /\ main.failed \in Nat /\ Len(accepted[s]) \in Nat
<1>1. Mine.pc # "none" /\ TypeInv /\ main \in MainRec
  BY BaseParts DEF Setting, HandleShape, Handle
<1>2. Mine.topic \in Topics
  BY <1>1, PubTypes, MineNext DEF Mine
<1>3. topics[Mine.topic].published \in Nat
  BY <1>1, <1>2, PubTypes, SetsAssumption
<1>4. accepted[s] \in Seq(Envelope) /\ main.failed \in Nat
  BY <1>1, FourTypes DEF MainRec
<1>5. QED
  BY <1>1, <1>2, <1>3, <1>4

\* A step that neither sends nor stores anything.
LEMMA SentFrame ==
    ASSUME Setting, SentShape, Mine' = Mine, main'.failed = main.failed, accepted' = accepted,
           Mine.pc # "none" => topics'[Mine.topic].published = topics[Mine.topic].published,
           \A s \in Subscribers : Known(s)' => Known(s)
    PROVE  SentShape'
<1>1. NoneFails'
  BY DEF SentShape, NoneFails
<1>2. ASSUME NEW s \in Subscribers, Known(s)'
      PROVE  SentOK(s)'
  <2>1. Known(s) /\ Mine.pc # "none"
    BY <1>2, SentTypes
  <2>2. Given(s)' = Given(s) /\ Missing(s)' = Missing(s)
    BY <2>1 DEF Given, Missing
  <2>3. QED
    BY <2>1, <2>2 DEF SentShape, SentOK
<1>3. QED
  BY <1>1, <1>2 DEF SentShape, SentOK

\* A message gets its number.
LEMMA SentSends ==
    ASSUME Setting, SentShape, [BenchNext]_benchVars, publishing, Sends(Mine', Mine)
    PROVE  SentShape'
<1>1. /\ main.pc = "publishing" /\ Mine.pc = "lock" /\ Mine'.ok /\ SameAd(Mine', Mine)
      /\ Mine'.pc \in {"idle", "push"} /\ ToSet(Mine'.targets) = ToSet(topics[Mine.topic].subs)
  BY BenchPublishes, SendSteps DEF Sends
<1>2. main'.failed = main.failed /\ owner' = owner
  BY <1>1, BenchPublishes
<1>3. TypeInv /\ main_thread \in Publishers /\ Mine = pub[main_thread]
  BY BaseParts, MineNext DEF Setting, Mine
<1>4. Mine.targets = <<>>
  BY <1>1, <1>3 DEF TypeInv, PublisherShape
<1>5. accepted' = accepted
  <2>1. ~push_target(main_thread)
    BY <1>1, <1>3 DEF push_target
  <2>2. QED
    BY <1>3, <2>1, PublishFrame DEF publishing
<1>6. NoneFails'
  BY <1>1, <1>2 DEF SentShape, NoneFails, SameAd
<1>7. ASSUME NEW s \in Subscribers, Known(s)'
      PROVE  SentOK(s)'
  <2>1. Known(s) /\ s \in ToSet(topics[Mine.topic].subs)
    BY <1>1, <1>2, <1>7 DEF Known, Setting, HandleShape, Handle
  <2>2. /\ topics[Mine.topic].published \in Nat /\ main.failed \in Nat /\ Len(accepted[s]) \in Nat
        /\ Mine.topic \in Topics
    BY <2>1, SentTypes
  <2>3. topics'[Mine.topic].published = topics[Mine.topic].published + 1
    BY <1>1, <2>2, TopicsWhilePublishing
  <2>4. Given(s)' = topics[Mine.topic].published /\ Missing(s)' = main.failed + 0
    <3>1. s \in ToSet(Mine'.targets) /\ topics'[Mine'.topic].published = topics[Mine.topic].published + 1
      BY <1>1, <2>1, <2>3 DEF SameAd
    <3>2. Given(s)' = topics'[Mine'.topic].published - 1
      BY <3>1 DEF Given
    <3>3. Missing(s)' = main'.failed + 0
      BY <3>1 DEF Missing
    <3>4. QED
      BY <1>2, <2>2, <3>1, <3>2, <3>3
  <2>5. Given(s) = topics[Mine.topic].published - 0 /\ Missing(s) = main.failed + 0
    BY <1>1, <1>4, ToSetEmpty DEF Given, Missing
  <2>6. Len(accepted[s]) <= Given(s) /\ Given(s) <= Len(accepted[s]) + Missing(s)
    BY <2>1 DEF SentShape, SentOK
  <2>7. QED
    BY <1>5, <2>2, <2>4, <2>5, <2>6 DEF SentOK
<1>8. QED
  BY <1>6, <1>7 DEF SentShape, SentOK

\* With BestEffort no push fails.
LEMMA EffortNeverFails ==
    ASSUME Setting, QueueShape, publishing, Mine.pc = "push", Mine.qos.reliability = "BestEffort"
    PROVE  ~push_fails(main_thread)
<1> DEFINE s == Head(Mine.targets)
<1>1. TypeInv /\ PromiseInv /\ OpenShape /\ main_thread \in Publishers /\ Mine = pub[main_thread]
  BY BaseParts, MineNext DEF Setting, Mine, GapInv
<1>2. s \in Subscribers /\ s \in ToSet(Mine.targets)
  <2>1. Mine.targets \in Seq(Subscribers) /\ Mine.targets # <<>>
    BY <1>1, PubTypes DEF TypeInv, PublisherShape
  <2>2. QED
    BY <2>1, ToSetHeadTail
<1>3. Known(s)
  BY <1>1, <1>2 DEF PromiseInv, AimedShape, Promised
<1> HIDE DEF s
<1>4. /\ sub[s].qos = Mine.qos /\ s \in ToSet(topics[Mine.topic].subs) /\ Mine.topic \in Topics
  <2>1. main.pc = "publishing"
    BY BenchPublishes
  <2>2. QED
    BY <1>2, <1>3, <2>1, SentTypes DEF Setting, HandleShape, Handle
<1>5. ~sub[s].queue.closed
  BY <1>1, <1>4 DEF OpenShape
<1>6. sub[s].queue.policy = "DropOldest"
  BY <1>2, <1>3, <1>4 DEF QueueShape, QueueOK
<1>7. QED
  BY <1>1, <1>5, <1>6 DEF push_fails, CannotStore, s

\* A message is stored, or it is not.
LEMMA SentFeeds ==
    ASSUME Setting, QueueShape, SentShape, [BenchNext]_benchVars, publishing, Feeds(Mine', Mine)
    PROVE  SentShape'
<1> DEFINE h == Head(Mine.targets)
<1>1. /\ main.pc = "publishing" /\ Mine.pc = "push" /\ SameAd(Mine', Mine)
      /\ Mine'.pc = (IF Mine'.targets = <<>> THEN "idle" ELSE "push")
      /\ Mine.targets # <<>> /\ Mine'.targets = Tail(Mine.targets)
  BY BenchPublishes, SendSteps DEF Feeds
<1>2. /\ owner' = owner
      /\ Mine'.pc = "push" => main'.failed = main.failed
      /\ Mine'.pc = "idle" => main'.failed = IF Mine'.ok THEN main.failed ELSE main.failed + 1
  BY BenchPublishes
<1>3. TypeInv /\ OnceInv /\ main_thread \in Publishers /\ Mine = pub[main_thread] /\ Mine' = pub'[main_thread]
  BY BaseParts, MineNext DEF Setting, Mine
<1>4. Mine.targets \in Seq(Subscribers) /\ Distinct(Mine.targets)
  BY <1>3, PubTypes DEF OnceInv, ListShape
<1>5. /\ h \in Subscribers /\ h \notin ToSet(Mine'.targets)
      /\ ToSet(Mine.targets) = {h} \cup ToSet(Mine'.targets)
  BY <1>1, <1>4, ToSetHeadTail, DistinctTail
<1>6. \/ /\ push_target(main_thread) /\ Mine'.ok = Mine.ok
         /\ Receives(h, Mine.env)
         /\ \A s \in Subscribers : s # h => accepted'[s] = accepted[s]
      \/ /\ push_fails(main_thread) /\ ~Mine'.ok /\ accepted' = accepted
  <2>1. CASE push_target(main_thread) /\ Mine'.ok = Mine.ok
    <3>1. \A s \in Subscribers : s # h => accepted'[s] = accepted[s]
      BY <1>3, <2>1, PublishFrame DEF publishing
    <3>2. Mine.env \in Envelope /\ Store(h, Mine.env) /\ UNCHANGED taken
      BY <1>3, <2>1, FirstTarget DEF push_target
    <3>3. Receives(h, Mine.env)
      BY <1>3, <1>5, <3>2, StoreStep
    <3>4. QED
      BY <2>1, <3>1, <3>3
  <2>2. CASE push_fails(main_thread) /\ Mine'.ok = FALSE
    BY <2>2 DEF push_fails
  <2>3. QED
    BY <1>3, <2>1, <2>2 DEF Feeds, Pushes
<1> HIDE DEF h
<1>7. NoneFails'
  <2>1. CASE Mine'.qos.reliability = "BestEffort"
    <3>1. ~push_fails(main_thread) /\ main.failed = 0 /\ Mine.ok
      BY <1>1, <2>1, EffortNeverFails DEF SameAd, SentShape, NoneFails
    <3>2. Mine'.ok
      BY <1>6, <3>1
    <3>3. QED
      BY <1>1, <1>2, <3>1, <3>2 DEF NoneFails
  <2>2. QED
    BY <2>1 DEF NoneFails
<1>8. ASSUME NEW s \in Subscribers, Known(s)'
      PROVE  SentOK(s)'
  <2> DEFINE P == topics[Mine.topic].published
             a == Len(accepted[s])
             f == main.failed
  <2>1. Known(s)
    BY <1>2, <1>8 DEF Known
  <2>2. P \in Nat /\ f \in Nat /\ a \in Nat /\ Mine.topic \in Topics
    BY <2>1, SentTypes
  <2>3. topics'[Mine'.topic].published = P
    BY <1>1, <2>2, TopicsWhilePublishing DEF SameAd
  <2>4. a <= Given(s) /\ Given(s) <= a + Missing(s)
    BY <2>1 DEF SentShape, SentOK
  <2> HIDE DEF P, a, f
  <2>5. CASE s = h
    <3>1. Given(s) = P - 1 /\ Missing(s) = f + 0
      BY <1>5, <2>5 DEF Given, Missing, P, f
    <3>2. Given(s)' = P - 0
      BY <1>5, <2>3, <2>5 DEF Given
    <3>3. CASE Receives(h, Mine.env)
      <4>1. Len(accepted'[s]) = a + 1
        <5>1. accepted[s] \in Seq(Envelope) /\ Mine.env \in Envelope
          BY <1>3, FourTypes, PubTypes
        <5>2. QED
          BY <2>5, <3>3, <5>1 DEF Receives, a
      <4>2. Missing(s)' \in {f, f + 1}
        <5>1. CASE Mine'.pc = "push"
          <6>1. main'.failed = f
            BY <1>2, <5>1 DEF f
          <6>2. Missing(s)' = f + (IF Mine'.pc = "push" /\ ~Mine'.ok /\ s \notin ToSet(Mine'.targets) THEN 1 ELSE 0)
            BY <6>1 DEF Missing
          <6>3. QED
            BY <2>2, <6>2
        <5>2. CASE Mine'.pc = "idle"
          <6>1. main'.failed \in {f, f + 1}
            BY <1>2, <5>2 DEF f
          <6>2. Missing(s)' = main'.failed + 0
            BY <5>2 DEF Missing
          <6>3. QED
            BY <2>2, <6>1, <6>2
        <5>3. QED
          BY <1>1, <5>1, <5>2
      <4>3. QED
        BY <2>2, <2>4, <3>1, <3>2, <4>1, <4>2 DEF SentOK
    <3>4. CASE ~Mine'.ok /\ accepted' = accepted
      <4>1. Missing(s)' = f + 1
        <5>1. CASE Mine'.pc = "push"
          BY <1>2, <1>5, <2>5, <3>4, <5>1 DEF Missing, f
        <5>2. CASE Mine'.pc = "idle"
          <6>1. main'.failed = f + 1
            BY <1>2, <3>4, <5>2 DEF f
          <6>2. Missing(s)' = f + 1 + 0
            BY <5>2, <6>1 DEF Missing
          <6>3. QED
            BY <2>2, <6>2
        <5>3. QED
          BY <1>1, <5>1, <5>2
      <4>2. Len(accepted'[s]) = a
        BY <3>4 DEF a
      <4>3. QED
        BY <2>2, <2>4, <3>1, <3>2, <4>1, <4>2 DEF SentOK
    <3>5. QED
      BY <1>6, <3>3, <3>4
  <2>6. CASE s # h
    <3>1. s \in ToSet(Mine'.targets) <=> s \in ToSet(Mine.targets)
      BY <1>5, <2>6
    <3>2. Given(s)' = Given(s) /\ Given(s) \in Int
      BY <2>2, <2>3, <3>1 DEF Given, P
    <3>3. Len(accepted'[s]) = a
      BY <1>6, <2>6 DEF a
    <3>4. Missing(s) \in Nat /\ Missing(s)' \in Nat /\ Missing(s) <= Missing(s)'
      <4>1. CASE s \in ToSet(Mine.targets)
        <5>1. Mine'.targets # <<>>
          BY <3>1, <4>1, ToSetEmpty
        <5>2. Mine'.pc = "push"
          BY <1>1, <5>1
        <5>3. QED
          BY <1>2, <2>2, <3>1, <4>1, <5>2 DEF Missing, f
      <4>2. CASE s \notin ToSet(Mine.targets)
        <5>1. Missing(s) = f + (IF ~Mine.ok THEN 1 ELSE 0)
          BY <1>1, <4>2 DEF Missing, f
        <5>2. ~Mine.ok => ~Mine'.ok
          BY <1>6
        <5>3. CASE Mine'.pc = "push"
          <6>1. Missing(s)' = f + (IF ~Mine'.ok THEN 1 ELSE 0)
            BY <1>2, <3>1, <4>2, <5>3 DEF Missing, f
          <6>2. QED
            BY <2>2, <5>1, <5>2, <6>1
        <5>4. CASE Mine'.pc = "idle"
          <6>1. Missing(s)' = main'.failed + 0
            BY <5>4 DEF Missing
          <6>2. main'.failed = (IF Mine'.ok THEN f ELSE f + 1)
            BY <1>2, <5>4 DEF f
          <6>3. QED
            BY <2>2, <5>1, <5>2, <6>1, <6>2
        <5>5. QED
          BY <1>1, <5>3, <5>4
      <4>3. QED
        BY <4>1, <4>2
    <3>5. QED
      BY <2>2, <2>4, <3>2, <3>3, <3>4 DEF SentOK
  <2>7. QED
    BY <2>5, <2>6
<1>9. QED
  BY <1>7, <1>8 DEF SentShape, SentOK

\* A step keeps SentShape.
LEMMA SentShapeStep ==
    ASSUME Setting, NumberOK, QueueShape, SentShape, [BenchNext]_benchVars
    PROVE  SentShape'
<1>1. TypeInv /\ ControlShape /\ main \in MainRec /\ main_thread \in Publishers
  BY BaseParts, MineNext DEF Setting
<1>2. \A s \in Subscribers : Known(s)' => Known(s) \/ (main.pc = "setup" /\ subscribe_bench(s))
  BY OwnersHere
<1>3. ASSUME BusStill, main'.failed = main.failed
      PROVE  SentShape'
  <2>1. Mine' = Mine /\ topics' = topics /\ accepted' = accepted /\ \A s \in Subscribers : Known(s)' => Known(s)
    BY <1>3, MineNext DEF BusStill, Mine, Known
  <2>2. QED
    BY <1>3, <2>1, SentFrame
<1>4. CASE BusStill /\ ownVars' = ownVars
  BY <1>3, <1>4 DEF ownVars
<1>5. CASE BusStill /\ start_ticker
  <2>1. main'.failed = main.failed
    BY <1>1, <1>5 DEF start_ticker, MainRec
  <2>2. QED
    BY <1>3, <1>5, <2>1
<1>6. ASSUME BusStill, acquire \/ sleep_until_next \/ wake_up \/ clock_runs \/ wait_for_idle_bench
      PROVE  SentShape'
  BY <1>3, <1>6, MovesOn
<1>7. ASSUME NEW qos \in Offered, advertise_bench(qos)
      PROVE  SentShape'
  <2>1. main.pc = "setup" /\ main' = main
    BY <1>7 DEF advertise_bench, ownVars
  <2>2. Mine.pc = "none" /\ Mine'.pc = "idle" /\ owner' = owner
    BY <1>7, BenchAdvertises
  <2>3. main.failed = 0
    BY <1>1, <2>1 DEF ControlShape
  <2>4. \A s \in Subscribers : ~Known(s)'
    BY <2>2 DEF Setting, HandleShape, Handle, Known
  <2>5. QED
    BY <2>1, <2>2, <2>3, <2>4 DEF SentShape, NoneFails, SentOK
<1>8. ASSUME NEW s \in Subscribers, subscribe_bench(s)
      PROVE  SentShape'
  <2>1. main.pc = "setup" /\ Mine.pc = "idle" /\ main' = main /\ cargo' = cargo
    BY <1>8 DEF subscribe_bench, ownVars, Mine
  <2>2. UNCHANGED <<pub, accepted>> /\ \A u \in Subscribers : u # s => owner'[u] = owner[u]
    <3>1. CASE Subscribing(s)
      BY <3>1, BenchStarts
    <3>2. CASE subscribe(s, Mine.topic, Mine.type, Mine.qos)
      BY <2>1, <3>2, BenchSubscribes
    <3>3. QED
      BY <1>8, <3>1, <3>2 DEF subscribe_bench, Mine
  <2>3. Mine' = Mine /\ Mine.targets = <<>> /\ Mine.topic \in Topics
    <3>1. Mine' = Mine
      BY <2>2, MineNext DEF Mine
    <3>2. QED
      BY <1>1, <2>1, <3>1, PubTypes DEF TypeInv, PublisherShape, Mine
  <2>4. cargo = <<>> /\ main.failed = 0
    BY <1>1, <2>1 DEF ControlShape
  <2>5. topics'[Mine'.topic].published = 0 /\ topics[Mine.topic].published = 0
    <3>1. NumberOK'
      BY NumberOKStep
    <3>2. Early = 0 /\ Early' = 0
      BY <2>1, <2>3 DEF Early
    <3>3. topics[Mine.topic].published + 0 = 0 /\ topics'[Mine'.topic].published + 0 = 0
      BY <2>1, <2>3, <2>4, <3>1, <3>2 DEF NumberOK
    <3>4. topics[Mine.topic].published \in Nat
      BY <1>1, <2>3, PubTypes, SetsAssumption
    <3>5. topics'[Mine'.topic].published \in Nat
      <4>1. [Next]_vars
        BY BaseParts, BenchIsBusStep DEF Setting
      <4>2. topics'[Mine.topic] \in EntryRec
        BY <1>1, <2>3, <4>1, AllTopicSteps DEF TopicSteps
      <4>3. QED
        BY <2>3, <4>2, SetsAssumption DEF EntryRec
    <3>6. QED
      BY <3>3, <3>4, <3>5
  <2>6. NoneFails'
    BY <2>1, <2>3 DEF SentShape, NoneFails
  <2>7. ASSUME NEW u \in Subscribers, Known(u)'
        PROVE  SentOK(u)'
    <3>1. accepted'[u] = <<>>
      <4>1. CASE ~Known(u)
        BY <2>2, <4>1, BaseParts DEF Setting, StatsInv, LogShape
      <4>2. CASE Known(u)
        <5>1. Given(u) = 0 /\ Len(accepted[u]) <= Given(u) /\ Len(accepted[u]) \in Nat
          <6>1. Given(u) = 0 - 0
            BY <2>3, <2>5, ToSetEmpty DEF Given
          <6>2. Len(accepted[u]) <= Given(u)
            BY <4>2 DEF SentShape, SentOK
          <6>3. QED
            BY <4>2, <6>1, <6>2, SentTypes
        <5>2. accepted[u] \in Seq(Envelope)
          BY <1>1, FourTypes
        <5>3. QED
          BY <2>2, <5>1, <5>2
      <4>3. QED
        BY <4>1, <4>2
    <3>2. Given(u)' = 0 - 0 /\ Missing(u)' = 0 + 0
      BY <2>1, <2>3, <2>4, <2>5, ToSetEmpty DEF Given, Missing
    <3>3. QED
      BY <3>1, <3>2 DEF SentOK
  <2>8. QED
    BY <2>6, <2>7 DEF SentShape, SentOK
<1>9. ASSUME NEW s \in Subscribers, deliver(s) \/ callback(s)
      PROVE  SentShape'
  <2>1. UNCHANGED <<topics, owner, accepted, main>> /\ Mine' = Mine
    BY <1>9, WorkersApart
  <2>2. QED
    BY <2>1, SentFrame DEF Known
<1>10. CASE publish_sample
  <2>1. /\ Mine.pc = "idle" /\ Mine'.pc = "lock" /\ SameAd(Mine', Mine) /\ Mine'.targets = Mine.targets
        /\ UNCHANGED <<topics, owner, accepted>>
    BY <1>10, CallSample
  <2>2. main'.failed = main.failed
    BY <1>1, <1>10 DEF publish_sample, Go, MainRec
  <2>3. NoneFails'
    BY <2>1, <2>2 DEF SentShape, NoneFails, SameAd
  <2>4. ASSUME NEW s \in Subscribers, Known(s)'
        PROVE  SentOK(s)'
    <3>1. Given(s)' = Given(s) /\ Missing(s)' = Missing(s) /\ Known(s)
      BY <2>1, <2>2, <2>4 DEF Given, Missing, SameAd, Known
    <3>2. QED
      BY <2>1, <3>1 DEF SentShape, SentOK
  <2>5. QED
    BY <2>3, <2>4 DEF SentShape, SentOK
<1>11. CASE publishing
  BY <1>11, SendSteps, SentSends, SentFeeds
<1>12. CASE shutdown_bench
  <2>1. /\ UNCHANGED <<pub, owner, accepted>> /\ main'.failed = main.failed
        /\ \A t \in Topics : topics'[t].published = topics[t].published
    BY <1>12, BenchStops
  <2>2. Mine' = Mine /\ (Mine.pc # "none" => Mine.topic \in Topics)
    BY <1>1, <2>1, PubTypes, MineNext DEF Mine
  <2>3. QED
    BY <2>1, <2>2, SentFrame DEF Known
<1>13. QED
  BY <1>4, <1>5, <1>6, <1>7, <1>8, <1>9, <1>10, <1>11, <1>12, BenchKinds

-----------------------------------------------------------------------------
(* Who refers to which message. *)

\* The messages that the subscription s refers to.
Nums(l) == {l[i].seq : i \in DOMAIN l}
Holds(s) ==
    Nums(sub[s].queue.items)
      \cup (IF sub[s].worker = "judge" THEN {sub[s].held.seq} ELSE {})
      \cup (IF sub[s].worker = "callback" THEN {Last(taken[s]).env.seq} ELSE {})

\* Nobody else refers to a message, but publish().
Held ==
    {k \in DOMAIN cargo : \/ InPublish /\ k = Len(cargo)
                          \/ \E s \in Subscribers : k \in Holds(s)}
HeldTypes ==
    /\ HeldShape /\ cargo \in Seq(CargoRec)
    /\ \A s \in Subscribers : sub[s].queue.items \in Seq(Envelope)

\* That is what Referenced says.
LEMMA ReferencedIs == HeldTypes => Referenced = Held
<1> USE DEF HeldTypes
<1> SUFFICES ASSUME HeldTypes
             PROVE  Referenced = Held
  OBVIOUS
<1> SUFFICES ASSUME NEW k \in DOMAIN cargo, NEW s \in Subscribers
             PROVE  (\/ \E e \in ToSet(sub[s].queue.items) \cup {sub[s].held} : e.seq = k
                     \/ sub[s].worker = "callback" /\ Last(taken[s]).env.seq = k)
                      <=> k \in Holds(s)
  BY DEF Referenced, Held
<1>1. k # 0
  OBVIOUS
<1>2. sub[s].worker # "judge" => sub[s].held.seq # k
  BY <1>1 DEF HeldShape, Env0
<1>3. (\E e \in ToSet(sub[s].queue.items) : e.seq = k) <=> k \in Nums(sub[s].queue.items)
  <2>1. \A e : e \in ToSet(sub[s].queue.items) <=> \E i \in 1..Len(sub[s].queue.items) : sub[s].queue.items[i] = e
    BY InToSet
  <2>2. DOMAIN sub[s].queue.items = 1..Len(sub[s].queue.items)
    OBVIOUS
  <2>3. QED
    BY <2>1, <2>2 DEF Nums
<1>4. QED
  BY <1>2, <1>3 DEF Holds

\* The messages of a queue that has got one more, or has lost its first.
LEMMA QueuedChanges ==
    ASSUME NEW q \in Seq(Envelope), NEW e \in Envelope
    PROVE  /\ Nums(Append(q, e)) = Nums(q) \cup {e.seq}
           /\ q # <<>> => Nums(q) = {Head(q).seq} \cup Nums(Tail(q)) /\ Tail(q) \in Seq(Envelope)
<1>1. Nums(Append(q, e)) = Nums(q) \cup {e.seq}
  <2> DEFINE m == Append(q, e)
             n == Len(q)
  <2>1. /\ n \in Nat /\ DOMAIN q = 1..n /\ DOMAIN m = 1..(n + 1) /\ m[n + 1] = e
        /\ \A i \in 1..n : m[i] = q[i]
    OBVIOUS
  <2> HIDE DEF m, n
  <2>2. 1..(n + 1) = 1..n \cup {n + 1}
    BY <2>1
  <2>3. QED
    BY <2>1, <2>2 DEF m, Nums
<1>2. ASSUME q # <<>>
      PROVE  Nums(q) = {Head(q).seq} \cup Nums(Tail(q)) /\ Tail(q) \in Seq(Envelope)
  <2> DEFINE m == Tail(q)
             n == Len(q)
  <2>1. /\ n \in Nat /\ n > 0 /\ DOMAIN q = 1..n /\ m \in Seq(Envelope) /\ DOMAIN m = 1..(n - 1)
        /\ Head(q) = q[1] /\ \A i \in 1..(n - 1) : m[i] = q[i + 1]
    BY <1>2
  <2> HIDE DEF m, n
  <2>2. \A i \in 1..n : i = 1 \/ (i - 1 \in 1..(n - 1) /\ q[i] = m[i - 1])
    <3> SUFFICES ASSUME NEW i \in 1..n, i # 1
                 PROVE  i - 1 \in 1..(n - 1) /\ q[i] = m[i - 1]
      OBVIOUS
    <3>1. i - 1 \in 1..(n - 1) /\ i - 1 + 1 = i
      BY <2>1
    <3>2. QED
      BY <2>1, <3>1
  <2>3. \A i \in 1..(n - 1) : i + 1 \in 1..n /\ m[i] = q[i + 1]
    BY <2>1
  <2>4. 1 \in 1..n
    BY <2>1
  <2>5. ASSUME NEW x \in Nums(q)
        PROVE  x \in {q[1].seq} \cup Nums(m)
    <3>1. PICK i \in 1..n : x = q[i].seq
      BY <2>1, <2>5 DEF Nums
    <3>2. QED
      BY <2>1, <2>2, <3>1 DEF Nums
  <2>6. ASSUME NEW x \in Nums(m)
        PROVE  x \in Nums(q)
    <3>1. PICK i \in 1..(n - 1) : x = m[i].seq
      BY <2>1, <2>6 DEF Nums
    <3>2. QED
      BY <2>1, <2>3, <3>1 DEF Nums
  <2>7. q[1].seq \in Nums(q)
    BY <2>1, <2>4 DEF Nums
  <2>8. Nums(q) = {q[1].seq} \cup Nums(m)
    BY <2>5, <2>6, <2>7
  <2>9. QED
    BY <2>1, <2>8 DEF m
<1>3. QED
  BY <1>1, <1>2

\* A subscription that does not exist yet refers to nothing.
LEMMA UnknownHoldsNothing ==
    ASSUME Base, NEW s \in Subscribers, ~Known(s)
    PROVE  Holds(s) = {} /\ sub[s].queue.items = <<>> /\ sub[s].worker = "none"
<1>1. accepted[s] = <<>>
  BY BaseParts DEF StatsInv, LogShape
<1>2. \A i \in DOMAIN sub[s].queue.items : sub[s].queue.items[i] \in {}
  BY <1>1, BaseParts, ToSetEmpty DEF LineShape, Line
<1>3. sub[s].queue.items \in Seq(Envelope)
  BY BaseParts, FourTypes
<1>4. sub[s].queue.items = <<>>
  <2> DEFINE l == sub[s].queue.items
  <2>1. l \in Seq(Envelope) /\ Len(l) \in Nat /\ DOMAIN l = 1..Len(l)
    BY <1>3
  <2>2. \A i \in DOMAIN l : FALSE
    BY <1>2
  <2> HIDE DEF l
  <2>3. ~(1 \in 1..Len(l))
    BY <2>1, <2>2
  <2>4. Len(l) = 0
    BY <2>1, <2>3
  <2>5. l = <<>>
    BY <2>1, <2>4
  <2>6. QED
    BY <2>5 DEF l
<1>5. sub[s].worker = "none"
  BY WorkersKnown
<1>6. QED
  BY <1>4, <1>5 DEF Holds, Nums

\* What a step does to the messages that s refers to.
LEMMA HoldsKinds ==
    ASSUME Setting, [BenchNext]_benchVars, NEW s \in Subscribers
    PROVE  \/ Holds(s)' = Holds(s)
           \/ /\ publishing /\ push_target(main_thread) /\ s = Head(Mine.targets)
              /\ Mine.env.seq \in Holds(s)' /\ Holds(s)' \subseteq Holds(s) \cup {Mine.env.seq}
              /\ \E k : Holds(s) \ Holds(s)' \subseteq {k}
           \/ /\ callback(s) /\ Holds(s)' \subseteq Holds(s)
              /\ \E k : Holds(s) \ Holds(s)' \subseteq {k}
<1>1. SubKind(s)
  BY SubKinds
<1>2. sub[s] \in SubRec /\ sub[s].queue \in Queue(Envelope) /\ taken[s] \in Seq(TakenRec)
      /\ sub[s].queue.items \in Seq(Envelope) /\ sub[s].held \in Envelope
      /\ Len(sub[s].queue.items) <= sub[s].queue.capacity
  BY BaseParts, FourTypes DEF Setting
<1>3. CASE SubKeeps(s)
  BY <1>3 DEF SubKeeps, SameWorker, LogSame, Holds
<1>4. CASE /\ publishing /\ push_target(main_thread) /\ s = Head(Mine.targets) /\ Receives(s, Mine.env)
  <2> DEFINE items == sub[s].queue.items
             e == Mine.env
             kept == IF IsFull(sub[s].queue) THEN Tail(items) ELSE items
  <2>1. e \in Envelope
    BY BaseParts, PubTypes, MineNext, SMTT(40) DEF Setting, Mine
  <2>2. sub'[s].queue.items = Append(kept, e) /\ SameWorker(sub'[s], sub[s]) /\ taken'[s] = taken[s]
    <3>1. Stored(sub[s].queue, e).items = Append(kept, e)
      BY <1>2, <2>1, StoredProperties, ZenonT(60)
    <3>2. QED
      BY <1>4, <3>1, ZenonT(60) DEF Receives
  <2>3. IsFull(sub[s].queue) => items # <<>>
    BY <1>2, FullIsNotEmpty
  <2>4. /\ kept \in Seq(Envelope) /\ Nums(kept) \subseteq Nums(items)
        /\ \E k : Nums(items) \ Nums(kept) \subseteq {k}
    BY <1>2, <2>1, <2>3, QueuedChanges
  <2> HIDE DEF kept, items
  <2>5. Nums(sub'[s].queue.items) = Nums(kept) \cup {e.seq}
    BY <2>1, <2>2, <2>4, QueuedChanges
  <2> DEFINE rest == (IF sub[s].worker = "judge" THEN {sub[s].held.seq} ELSE {})
                       \cup (IF sub[s].worker = "callback" THEN {Last(taken[s]).env.seq} ELSE {})
  <2>6. Holds(s) = Nums(items) \cup rest
    BY DEF Holds, items
  <2>7. Holds(s)' = Nums(kept) \cup {e.seq} \cup rest
    BY <2>2, <2>5 DEF Holds, SameWorker
  <2> HIDE DEF rest
  <2>8. PICK k : Nums(items) \ Nums(kept) \subseteq {k}
    BY <2>4
  <2>9. Holds(s) \ Holds(s)' \subseteq {k} /\ e.seq \in Holds(s)' /\ Holds(s)' \subseteq Holds(s) \cup {e.seq}
    BY <2>4, <2>6, <2>7, <2>8
  <2>10. QED
    BY <1>4, <2>9
<1>5. CASE Subscribes(s, Mine.topic, Mine.type, Mine.qos)
  <2>1. ~Known(s)
    BY <1>5 DEF Subscribes, Known
  <2>2. Holds(s) = {}
    BY <2>1, UnknownHoldsNothing DEF Setting
  <2>3. sub'[s].queue.items = <<>> /\ sub'[s].worker = "none"
    BY <1>5 DEF Subscribes, SameWorker, Subscription0
  <2>4. Nums(<<>>) = {}
    BY DEF Nums
  <2>5. QED
    BY <2>2, <2>3, <2>4 DEF Holds
<1>6. CASE Starts(s)
  <2>1. owner[s].pc = "replay"
    BY <1>6 DEF Starts
  <2>2. sub[s].worker = "none"
    BY <2>1, BaseParts DEF Setting, QuietInv, WorkerShape, Past
  <2>3. QED
    BY <1>6, <2>2 DEF Starts, SameQueue, Holds
<1>7. CASE Pops(s)
  <2>1. /\ sub'[s].queue.items = Tail(sub[s].queue.items) /\ sub[s].queue.items # <<>>
        /\ sub[s].worker = "pop" /\ sub'[s].worker = "judge" /\ sub'[s].held = Head(sub[s].queue.items)
    BY <1>2, <1>7, DequeueProperties DEF Pops
  <2>2. Nums(sub[s].queue.items) = {Head(sub[s].queue.items).seq} \cup Nums(Tail(sub[s].queue.items))
    BY <1>2, <2>1, QueuedChanges
  <2>3. Holds(s) = Nums(sub[s].queue.items)
    BY <2>1 DEF Holds
  <2>4. Holds(s)' = Nums(Tail(sub[s].queue.items)) \cup {Head(sub[s].queue.items).seq}
    BY <2>1 DEF Holds
  <2>5. QED
    BY <2>2, <2>3, <2>4
<1>8. CASE Delivers(s)
  <2>1. Last(taken'[s]).env = sub[s].held
    BY <1>8, LastTaken DEF Setting
  <2>2. QED
    BY <1>8, <2>1 DEF Delivers, SameQueue, Holds
<1>9. CASE Exits(s)
  BY <1>9 DEF Exits, SameQueue, Holds
<1>10. CASE callback(s) /\ Returns(s)
  <2>1. Holds(s)' = Nums(sub[s].queue.items)
    BY <1>10 DEF Returns, SameQueue, Holds
  <2>2. Holds(s) = Nums(sub[s].queue.items) \cup {Last(taken[s]).env.seq}
    BY <1>10 DEF Returns, Holds
  <2>3. Holds(s)' \subseteq Holds(s) /\ Holds(s) \ Holds(s)' \subseteq {Last(taken[s]).env.seq}
    BY <2>1, <2>2
  <2>4. QED
    BY <1>10, <2>3
<1>11. QED
  BY <1>1, <1>3, <1>4, <1>5, <1>6, <1>7, <1>8, <1>9, <1>10 DEF SubKind

\* After a step, too.
LEMMA ReferencedNext == HeldTypes' => Referenced' = Held'
<1> DEFINE Same == Referenced = Held
<1>1. HeldTypes => Same
  BY ReferencedIs
<1> HIDE DEF Same
<1>2. HeldTypes' => Same'
  BY <1>1, PTL
<1>3. QED
  BY <1>2 DEF Same

\* publish() refers to the newest message until it returns.
LEMMA InPublishIs ==
    ASSUME Setting, [BenchNext]_benchVars
    PROVE  /\ InPublish <=> main.pc \in {"publish", "publishing"}
           /\ InPublish' <=> main'.pc \in {"publish", "publishing"}
<1>1. ControlShape /\ ControlShape'
  BY ControlStep DEF Setting
<1>2. Mine = pub[main_thread] /\ Mine' = pub'[main_thread]
  BY MineNext DEF Mine
<1>3. QED
  BY <1>1, <1>2 DEF ControlShape, InPublish

\* The types that Held needs.
LEMMA HeldTyped ==
    ASSUME Setting, NumberOK, [BenchNext]_benchVars
    PROVE  HeldTypes /\ HeldTypes'
<1>1. TypeInv /\ QuietInv /\ PromiseInv /\ [Next]_vars
  BY BaseParts, BenchIsBusStep DEF Setting
<1>2. PromiseInv'
  BY <1>1, PromiseStep
<1>3. cargo \in Seq(CargoRec) /\ cargo' \in Seq(CargoRec)
  BY NumberOKStep DEF NumberOK
<1>4. \A s \in Subscribers : sub[s].queue.items \in Seq(Envelope)
  BY <1>1, FourTypes
<1>5. \A s \in Subscribers : sub'[s].queue.items \in Seq(Envelope)
  <2>1. \A s \in Subscribers : sub'[s] \in SubRec
    BY <1>1, SubscriberSteps DEF SubSteps, SubStepTyped
  <2>2. QED
    BY <2>1 DEF SubRec, Queue
<1>6. QED
  BY <1>1, <1>2, <1>3, <1>4, <1>5 DEF HeldTypes, PromiseInv

\* No callback returns in a step of publish().
LEMMA CallbackApart ==
    ASSUME Setting, publishing, NEW s \in Subscribers
    PROVE  ~callback(s)
<1>1. TypeInv /\ sub'[s].worker = sub[s].worker
  BY BaseParts, PublishFrame, MineNext DEF Setting, publishing
<1>2. sub \in [Subscribers -> SubRec]
  BY <1>1, FourTypes
<1>3. ASSUME callback(s)
      PROVE  FALSE
  <2>1. sub[s].worker = "callback" /\ sub' = [sub EXCEPT ![s].worker = "pop", ![s].delivered = @ + 1]
    BY <1>3 DEF callback, callback_returns
  <2>2. sub'[s].worker = "pop"
    BY <1>2, <2>1 DEF SubRec
  <2>3. QED
    BY <1>1, <2>1, <2>2
<1>4. QED
  BY <1>3

\* What a step does to the messages somebody refers to.
RefKinds ==
    \/ pool' = pool /\ cargo' = cargo /\ Referenced' = Referenced
    \/ acquire /\ pool.free = <<>> /\ Referenced' = Referenced
    \/ acquire /\ pool.free # <<>> /\ Referenced' = Referenced \cup {Len(cargo) + 1}
    \/ /\ ReturnBuffers /\ cargo' = cargo /\ Referenced' \subseteq Referenced
       /\ \E k : Referenced \ Referenced' \subseteq {k}

\* publish() drops at most one message: the one a queue drops for the new one, or the new
\* one, when nobody has got it.
LEMMA RefPublishing ==
    ASSUME Setting, NumberOK, [BenchNext]_benchVars, publishing
    PROVE  RefKinds
<1>1. HeldTypes /\ HeldTypes'
  BY HeldTyped
<1>2. Referenced = Held /\ Referenced' = Held'
  BY <1>1, ReferencedIs, ReferencedNext
<1>3. main.pc = "publishing" /\ cargo' = cargo /\ ReturnBuffers
  BY BenchPublishes DEF publishing
<1>4. InPublish
  BY <1>3, InPublishIs
<1>5. push_target(main_thread) => Mine.env.seq = Len(cargo)
  BY DEF push_target, Mine, NumberOK
<1>6. \A s \in Subscribers :
         \/ Holds(s)' = Holds(s)
         \/ /\ s = Head(Mine.targets)
            /\ Len(cargo) \in Holds(s)' /\ Holds(s)' \subseteq Holds(s) \cup {Len(cargo)}
            /\ \E k : Holds(s) \ Holds(s)' \subseteq {k}
  BY <1>5, HoldsKinds, CallbackApart
<1>7. Held' \subseteq Held
  BY <1>3, <1>4, <1>6 DEF Held
<1>8. \E k : Held \ Held' \subseteq {k}
  <2>1. CASE \A s \in Subscribers : Holds(s)' = Holds(s)
    <3>1. Held \ Held' \subseteq {Len(cargo)}
      BY <1>3, <2>1 DEF Held
    <3>2. QED
      BY <3>1
  <2>2. CASE \E s \in Subscribers : Holds(s)' # Holds(s)
    <3>1. PICK s \in Subscribers : Holds(s)' # Holds(s)
      BY <2>2
    <3>2. /\ Len(cargo) \in Holds(s)' /\ \A u \in Subscribers : u # s => Holds(u)' = Holds(u)
      BY <1>6, <3>1
    <3>3. PICK k : Holds(s) \ Holds(s)' \subseteq {k}
      BY <1>6, <3>1
    <3>4. Held \ Held' \subseteq {k}
      BY <1>3, <3>2, <3>3 DEF Held
    <3>5. QED
      BY <3>4
  <2>3. QED
    BY <2>1, <2>2
<1>9. QED
  BY <1>2, <1>3, <1>7, <1>8 DEF RefKinds

\* A callback drops at most the message it was called with.
LEMMA RefCallback ==
    ASSUME Setting, NumberOK, [BenchNext]_benchVars, NEW u \in Subscribers, callback(u)
    PROVE  RefKinds
<1>1. HeldTypes /\ HeldTypes'
  BY HeldTyped
<1>2. Referenced = Held /\ Referenced' = Held'
  BY <1>1, ReferencedIs, ReferencedNext
<1>3. /\ main' = main /\ cargo' = cargo /\ ReturnBuffers
      /\ \A s \in Subscribers : s # u => sub'[s] = sub[s] /\ taken'[s] = taken[s]
  BY WorkersApart DEF callback
<1>4. InPublish' <=> InPublish
  BY <1>3, InPublishIs
<1>5. \A s \in Subscribers : s # u => Holds(s)' = Holds(s)
  BY <1>3 DEF Holds
<1>6. Holds(u)' \subseteq Holds(u) /\ \E k : Holds(u) \ Holds(u)' \subseteq {k}
  <2>1. ~publishing
    BY CallbackApart
  <2>2. CASE Holds(u)' = Holds(u)
    BY <2>2
  <2>3. QED
    BY <2>1, <2>2, HoldsKinds
<1>7. PICK k : Holds(u) \ Holds(u)' \subseteq {k}
  BY <1>6
<1>8. Held' \subseteq Held /\ Held \ Held' \subseteq {k}
  BY <1>3, <1>4, <1>5, <1>6, <1>7 DEF Held
<1>9. QED
  BY <1>2, <1>3, <1>8 DEF RefKinds

\* Every step is of one of these kinds.
LEMMA ReferencedKinds ==
    ASSUME Setting, NumberOK, [BenchNext]_benchVars
    PROVE  RefKinds
<1>1. HeldTypes /\ HeldTypes' /\ main \in MainRec
  BY HeldTyped, BaseParts DEF Setting
<1>2. Referenced = Held /\ Referenced' = Held'
  BY <1>1, ReferencedIs, ReferencedNext
<1>3. SUFFICES ASSUME ~publishing, \A s \in Subscribers : ~callback(s)
               PROVE  RefKinds
  BY RefPublishing, RefCallback
<1>4. \A s \in Subscribers : Holds(s)' = Holds(s)
  BY <1>3, HoldsKinds
<1>5. CASE acquire
  <2>1. /\ starts \in Seq(Nat) /\ pool \in PoolRec /\ cargo \in Seq(CargoRec)
    BY BaseParts DEF Setting, Base, TickerTypes, NumberOK
  <2>2. main.pc = "loop"
    BY <1>5 DEF acquire
  <2>3. ~InPublish
    BY <2>2, InPublishIs
  <2>4. CASE pool.free = <<>>
    <3>1. cargo' = cargo /\ main'.pc = "sleep"
      BY <1>1, <1>5, <2>1, <2>4, AcquireFields
    <3>2. ~InPublish'
      BY <3>1, InPublishIs
    <3>3. Held' = Held
      BY <1>4, <2>3, <3>1, <3>2 DEF Held
    <3>4. QED
      BY <1>2, <1>5, <2>4, <3>3 DEF RefKinds
  <2>5. CASE pool.free # <<>>
    <3> DEFINE n == Len(cargo)
    <3>1. /\ cargo' = Append(cargo, [buffer |-> Acquired(pool), seq |-> Len(starts)])
          /\ main'.pc = "publish" /\ cargo' \in Seq(CargoRec)
          /\ [buffer |-> Acquired(pool), seq |-> Len(starts)] \in CargoRec
      BY <1>1, <1>5, <2>1, <2>5, AcquireFields DEF CargoRec
    <3>2. InPublish'
      BY <3>1, InPublishIs
    <3>3. n \in Nat /\ DOMAIN cargo = 1..n /\ DOMAIN cargo' = 1..(n + 1) /\ Len(cargo') = n + 1
      BY <2>1, <3>1
    <3> HIDE DEF n
    <3>4. 1..(n + 1) = 1..n \cup {n + 1}
      BY <3>3
    <3>5. Held' = Held \cup {n + 1}
      BY <1>4, <2>3, <3>2, <3>3, <3>4 DEF Held
    <3>6. QED
      BY <1>2, <1>5, <2>5, <3>5 DEF RefKinds, n
  <2>6. QED
    BY <2>4, <2>5
<1>6. CASE ~acquire
  <2>1. cargo' = cargo
    BY <1>6, CargoFrame
  <2>2. pool' = pool
    BY <1>3, <1>6 DEF BenchNext, benchVars, ownVars, advertise_bench, subscribe_bench, start_ticker,
       publish_sample, sleep_until_next, wake_up, wait_for_idle_bench, shutdown_bench, deliver, clock_runs
  <2>3. main'.pc \in {"publish", "publishing"} <=> main.pc \in {"publish", "publishing"}
    <3>1. CASE main' = main
      BY <3>1
    <3>2. ASSUME NEW qos \in Offered, advertise_bench(qos)
          PROVE  main' = main
      BY <3>2 DEF advertise_bench, ownVars
    <3>3. ASSUME NEW s \in Subscribers, subscribe_bench(s) \/ deliver(s)
          PROVE  main' = main
      BY <3>3 DEF subscribe_bench, deliver, ownVars
    <3>4. CASE start_ticker
      BY <1>1, <3>4 DEF start_ticker, MainRec
    <3>5. CASE BusStill /\ (sleep_until_next \/ wake_up \/ clock_runs \/ wait_for_idle_bench)
      BY <1>6, <3>5, MovesOn
    <3>6. CASE publish_sample
      BY <1>1, <3>6 DEF publish_sample, Go, MainRec
    <3>7. CASE shutdown_bench
      BY <3>7, BenchStops
    <3>8. CASE ownVars' = ownVars
      BY <3>1, <3>8 DEF ownVars
    <3>9. QED
      BY <1>3, <1>6, <3>1, <3>2, <3>3, <3>4, <3>5, <3>6, <3>7, <3>8, BenchKinds
  <2>4. InPublish' <=> InPublish
    BY <2>3, InPublishIs
  <2>5. Held' = Held
    BY <1>4, <2>1, <2>4 DEF Held
  <2>6. QED
    BY <1>2, <2>1, <2>2, <2>5 DEF RefKinds
<1>7. QED
  BY <1>5, <1>6

-----------------------------------------------------------------------------
(* The buffers. *)

\* A buffer is in the pool or belongs to one message somebody refers to.
PoolOK(p, c, R) ==
    /\ Distinct(p.free) /\ ToSet(p.free) \subseteq 1..p.total
    /\ \A k \in R : c[k].buffer \in 1..p.total /\ c[k].buffer \notin ToSet(p.free)
    /\ \A j, k \in R : c[j].buffer = c[k].buffer => j = k
    /\ \A b \in 1..p.total : b \in ToSet(p.free) \/ \E k \in R : c[k].buffer = b
PoolShape == PoolOK(pool, cargo, Referenced)

\* The last reference to a message goes, and its buffer comes back.
LEMMA PoolReleases ==
    ASSUME NEW p \in PoolRec, NEW c, NEW R, NEW k \in R, PoolOK(p, c, R)
    PROVE  PoolOK(Release(p, c[k].buffer), c, R \ {k})
<1> DEFINE b == c[k].buffer
           q == Release(p, b)
<1>1. p.free \in Seq(Nat) /\ p.total \in Nat
  BY DEF PoolRec
<1>2. b \in 1..p.total /\ b \notin ToSet(p.free) /\ b \in Nat
  BY <1>1 DEF PoolOK
<1> HIDE DEF b
<1>3. q.free = Append(p.free, b) /\ q.total = p.total
  BY <1>2, ReleaseFields
<1>4. Distinct(q.free) /\ ToSet(q.free) = ToSet(p.free) \cup {b}
  BY <1>1, <1>2, <1>3, DistinctAppend, ToSetAppend DEF PoolOK
<1> HIDE DEF q
<1>5. \A j \in R \ {k} : c[j].buffer # b
  BY DEF PoolOK, b
<1>6. b = c[k].buffer
  BY DEF b
<1>7. QED
  BY <1>2, <1>3, <1>4, <1>5, <1>6 DEF PoolOK, q, b

\* A new message takes its buffer from the pool.
LEMMA PoolAcquires ==
    ASSUME NEW p \in PoolRec, NEW c \in Seq(CargoRec), NEW R \in SUBSET (DOMAIN c), PoolOK(p, c, R),
           p.free # <<>>, NEW n \in Nat, NEW q, q.total = p.total,
           q.free = SubSeq(p.free, 1, Len(p.free) - 1)
    PROVE  PoolOK(q, Append(c, [buffer |-> Acquired(p), seq |-> n]), R \cup {Len(c) + 1})
<1> DEFINE b == Acquired(p)
           x == [buffer |-> b, seq |-> n]
           d == Append(c, x)
           m == Len(c)
<1>1. p.free \in Seq(Nat) /\ p.total \in Nat /\ Distinct(p.free)
  BY DEF PoolRec, PoolOK
<1>2. /\ Distinct(q.free) /\ b \in Nat /\ b \in ToSet(p.free) /\ ToSet(q.free) = ToSet(p.free) \ {b}
  BY <1>1, ToSetFront DEF Acquired
<1> HIDE DEF b
<1>3. x \in CargoRec /\ x.buffer = b
  BY <1>2 DEF CargoRec
<1> HIDE DEF x
<1>4. m \in Nat /\ DOMAIN c = 1..m /\ d[m + 1] = x /\ \A k \in 1..m : d[k] = c[k]
  BY <1>3
<1> HIDE DEF d, m
<1>5. (\A k \in R : d[k] = c[k]) /\ m + 1 \notin R /\ d[m + 1].buffer = b
  BY <1>3, <1>4
<1>6. \A k \in R : c[k].buffer # b
  BY <1>2 DEF PoolOK
<1>7. ToSet(q.free) \subseteq 1..q.total /\ b \in 1..q.total
  BY <1>2 DEF PoolOK
<1>8. \A k \in R \cup {m + 1} : d[k].buffer \in 1..q.total /\ d[k].buffer \notin ToSet(q.free)
  BY <1>2, <1>5, <1>6, <1>7 DEF PoolOK
<1>9. \A j, k \in R \cup {m + 1} : d[j].buffer = d[k].buffer => j = k
  BY <1>5, <1>6 DEF PoolOK
<1>10. ASSUME NEW a \in 1..q.total
       PROVE  a \in ToSet(q.free) \/ \E k \in R \cup {m + 1} : d[k].buffer = a
  <2>1. CASE a = b
    BY <1>5, <2>1
  <2>2. CASE a # b
    BY <1>2, <1>5, <2>2 DEF PoolOK
  <2>3. QED
    BY <2>1, <2>2
<1>11. PoolOK(q, d, R \cup {m + 1})
  BY <1>2, <1>7, <1>8, <1>9, <1>10 DEF PoolOK
<1>12. QED
  BY <1>11 DEF d, x, b, m

\* As many buffers are out as messages are referred to.
LEMMA PoolCounts ==
    ASSUME NEW p \in PoolRec, NEW c, NEW R, PoolOK(p, c, R)
    PROVE  /\ IsFiniteSet(R) /\ Cardinality(R) = in_use(p)
           /\ Cardinality(ToSet(p.free)) = Len(p.free)
<1> DEFINE F == ToSet(p.free)
           U == 1..p.total
<1>1. p.free \in Seq(Nat) /\ p.total \in Nat /\ Distinct(p.free) /\ Len(p.free) \in Nat
  BY DEF PoolRec, PoolOK
<1> DEFINE Up(n) == IsFiniteSet(1..n) /\ Cardinality(1..n) = n
<1>0. \A n \in Nat : Up(n)
  <2> SUFFICES ASSUME NEW n \in Nat
               PROVE  Up(n)
    OBVIOUS
  <2>1. IsFiniteSet(1..n) /\ Cardinality(1..n) = IF 1 > n THEN 0 ELSE n - 1 + 1
    BY FS_Interval
  <2>2. QED
    BY <2>1
<1>2. IsFiniteSet(U) /\ Cardinality(U) = p.total
  BY <1>0, <1>1
<1>3. F \subseteq U
  BY DEF PoolOK
<1>4. IsFiniteSet(F) /\ Cardinality(F) = Len(p.free)
  <2> DEFINE D == 1..Len(p.free)
             g == [i \in D |-> p.free[i]]
  <2>1. IsFiniteSet(D) /\ Cardinality(D) = Len(p.free)
    BY <1>0, <1>1
  <2>2. \A e : e \in F <=> \E i \in D : p.free[i] = e
    BY <1>1, InToSet
  <2>3. DOMAIN p.free = D
    BY <1>1
  <2>4. g \in [D -> F]
    BY <2>2
  <2>5. \A i, j \in D : g[i] = g[j] => i = j
    BY <1>1, <2>3 DEF Distinct
  <2>6. \A e \in F : \E i \in D : g[i] = e
    BY <2>2
  <2>7. g \in Bijection(D, F)
    BY <2>4, <2>5, <2>6 DEF Bijection, Injection, Surjection, IsInjective
  <2>8. QED
    BY <2>1, <2>7, FS_Bijection DEF ExistsBijection
<1>5. IsFiniteSet(U \ F) /\ Cardinality(U \ F) = p.total - Len(p.free)
  <2>1. IsFiniteSet(U \ F) /\ Cardinality(U \ F) = Cardinality(U) - Cardinality(U \cap F)
    BY <1>2, FS_Difference
  <2>2. U \cap F = F
    BY <1>3
  <2>3. QED
    BY <1>2, <1>4, <2>1, <2>2
<1>6. IsFiniteSet(R) /\ Cardinality(R) = Cardinality(U \ F)
  <2> DEFINE g == [k \in R |-> c[k].buffer]
  <2>1. g \in [R -> U \ F] /\ (\A j, k \in R : g[j] = g[k] => j = k)
    BY DEF PoolOK
  <2>2. \A b \in U \ F : \E k \in R : g[k] = b
    BY DEF PoolOK
  <2> HIDE DEF g
  <2>3. g \in Bijection(R, U \ F)
    BY <2>1, <2>2 DEF Bijection, Injection, Surjection, IsInjective
  <2>4. g \in Injection(R, U \ F)
    BY <2>3 DEF Bijection
  <2>5. IsFiniteSet(R)
    BY <1>5, <2>4, FS_Injection
  <2>6. QED
    BY <2>3, <2>5, FS_Bijection DEF ExistsBijection
<1>7. QED
  BY <1>4, <1>5, <1>6 DEF in_use

\* A step keeps PoolShape.
LEMMA PoolShapeStep == ASSUME Setting, NumberOK, PoolShape, [BenchNext]_benchVars PROVE PoolShape'
<1>1. /\ pool \in PoolRec /\ cargo \in Seq(CargoRec) /\ starts \in Seq(Nat) /\ main \in MainRec
      /\ Referenced \subseteq DOMAIN cargo
  BY BaseParts DEF Setting, Base, TickerTypes, NumberOK, Referenced
<1>2. RefKinds
  BY ReferencedKinds
<1>3. CASE pool' = pool /\ cargo' = cargo /\ Referenced' = Referenced
  BY <1>3 DEF PoolShape
<1>4. CASE acquire /\ pool.free = <<>> /\ Referenced' = Referenced
  <2>1. pool'.free = pool.free /\ pool'.total = pool.total /\ cargo' = cargo
    BY <1>1, <1>4, AcquireFields
  <2>2. QED
    BY <1>4, <2>1 DEF PoolShape, PoolOK
<1>5. CASE acquire /\ pool.free # <<>> /\ Referenced' = Referenced \cup {Len(cargo) + 1}
  <2>1. /\ cargo' = Append(cargo, [buffer |-> Acquired(pool), seq |-> Len(starts)])
        /\ pool'.free = SubSeq(pool.free, 1, Len(pool.free) - 1) /\ pool'.total = pool.total
    BY <1>1, <1>5, AcquireFields
  <2>2. Len(starts) \in Nat
    BY <1>1
  <2>3. PoolOK(pool', Append(cargo, [buffer |-> Acquired(pool), seq |-> Len(starts)]),
               Referenced \cup {Len(cargo) + 1})
    BY <1>1, <1>5, <2>1, <2>2, PoolAcquires DEF PoolShape
  <2>4. QED
    BY <1>5, <2>1, <2>3 DEF PoolShape
<1>6. CASE /\ ReturnBuffers /\ cargo' = cargo /\ Referenced' \subseteq Referenced
           /\ \E k : Referenced \ Referenced' \subseteq {k}
  <2> DEFINE gone == Referenced \ Referenced'
             k == CHOOSE x \in gone : TRUE
  <2>1. pool' = IF gone = {} THEN pool ELSE Release(pool, cargo[k].buffer)
    BY <1>6 DEF ReturnBuffers
  <2>2. gone # {} => k \in gone
    OBVIOUS
  <2> HIDE DEF k
  <2>3. CASE gone = {}
    <3>1. Referenced' = Referenced /\ pool' = pool
      BY <1>6, <2>1, <2>3
    <3>2. QED
      BY <1>6, <3>1 DEF PoolShape
  <2>4. CASE gone # {}
    <3>1. Referenced' = Referenced \ {k} /\ k \in Referenced
      BY <1>6, <2>2, <2>4
    <3>2. PoolOK(Release(pool, cargo[k].buffer), cargo, Referenced \ {k})
      BY <1>1, <3>1, PoolReleases DEF PoolShape
    <3>3. QED
      BY <1>6, <2>1, <2>4, <3>1, <3>2 DEF PoolShape
  <2>5. QED
    BY <2>3, <2>4
<1>7. QED
  BY <1>2, <1>3, <1>4, <1>5, <1>6 DEF RefKinds

-----------------------------------------------------------------------------
(* The rounds of the loop. *)

\* Every round has got a buffer or has been counted, and the numbers in the messages grow.
Growing(c, n) ==
    /\ \A k \in DOMAIN c : c[k].seq < n
    /\ \A j, k \in DOMAIN c : j < k => c[j].seq < c[k].seq
RoundShape ==
    /\ Len(cargo) + pool.exhausted = Len(starts)
    /\ main.pc \in {"idle", "stop"} => Len(starts) = Count
    /\ Growing(cargo, Len(starts))

\* What a step that is no acquire() leaves alone.
LEMMA RoundFrame ==
    ASSUME Setting, NumberOK, [BenchNext]_benchVars, ~acquire
    PROVE  UNCHANGED <<cargo, starts>> /\ pool'.exhausted = pool.exhausted
<1>1. UNCHANGED <<cargo, starts>>
  BY DEF BenchNext, benchVars, ownVars, advertise_bench, subscribe_bench, start_ticker, publish_sample,
       publishing, sleep_until_next, wake_up, wait_for_idle_bench, shutdown_bench, deliver, callback, clock_runs
<1>2. CASE pool' = pool
  BY <1>1, <1>2
<1>3. CASE ReturnBuffers
  <2> DEFINE gone == Referenced \ Referenced'
             k == CHOOSE x \in gone : TRUE
  <2>1. pool' = IF gone = {} THEN pool ELSE Release(pool, cargo[k].buffer)
    BY <1>3 DEF ReturnBuffers
  <2>2. gone # {} => k \in DOMAIN cargo
    BY DEF Referenced
  <2> HIDE DEF gone, k
  <2>3. CASE gone # {}
    <3>1. cargo[k] \in CargoRec
      BY <2>2, <2>3 DEF NumberOK
    <3>2. cargo[k].buffer \in Nat
      BY <3>1 DEF CargoRec
    <3>3. QED
      BY <1>1, <2>1, <2>3, <3>2, ReleaseFields DEF NumberOK
  <2>4. QED
    BY <1>1, <2>1, <2>3
<1>4. QED
  BY <1>2, <1>3, ReferencedKinds DEF RefKinds

\* A step keeps RoundShape.
LEMMA RoundShapeStep == ASSUME Setting, NumberOK, RoundShape, [BenchNext]_benchVars PROVE RoundShape'
<1>1. /\ pool \in PoolRec /\ cargo \in Seq(CargoRec) /\ starts \in Seq(Nat) /\ main \in MainRec
      /\ Len(starts) \in Nat /\ Len(cargo) \in Nat /\ pool.exhausted \in Nat
  BY BaseParts DEF Setting, Base, TickerTypes, NumberOK, PoolRec
<1>2. \A k \in DOMAIN cargo : cargo[k].seq \in Nat
  <2>1. \A k \in DOMAIN cargo : cargo[k] \in CargoRec
    BY <1>1
  <2>2. QED
    BY <2>1 DEF CargoRec
<1>3. CASE ~acquire
  <2>1. UNCHANGED <<cargo, starts>> /\ pool'.exhausted = pool.exhausted
    BY <1>3, RoundFrame
  <2>2. main'.pc \in {"idle", "stop"} => main.pc \in {"idle", "stop"} \/ Len(starts) = Count
    <3>1. CASE main' = main
      BY <3>1
    <3>2. CASE wait_for_idle_bench
      BY <3>2 DEF wait_for_idle_bench
    <3>3. CASE shutdown_bench
      BY <3>3, BenchStops
    <3>4. CASE start_ticker \/ wake_up \/ sleep_until_next
      <4>1. main'.pc \in {"loop", "asleep"}
        <5>1. CASE start_ticker
          BY <1>1, <5>1 DEF start_ticker, MainRec
        <5>2. CASE wake_up
          BY <1>1, <5>2 DEF wake_up, Go, MainRec
        <5>3. CASE sleep_until_next
          <6>1. Go("asleep") \/ main' = [main EXCEPT !.pc = "loop", !.missed = @ + 1]
            BY <5>3 DEF sleep_until_next
          <6>2. QED
            BY <1>1, <6>1 DEF Go, MainRec
        <5>4. QED
          BY <3>4, <5>1, <5>2, <5>3
      <4>2. QED
        BY <4>1
    <3>5. CASE publish_sample
      BY <1>1, <3>5 DEF publish_sample, Go, MainRec
    <3>6. CASE publishing
      <4>1. main' = main \/ main'.pc = "sleep"
        BY <3>6, BenchPublishes, SendSteps
      <4>2. QED
        BY <4>1
    <3>7. QED
      BY <1>3, <3>1, <3>2, <3>3, <3>4, <3>5, <3>6 DEF BenchNext, benchVars, ownVars, advertise_bench,
         subscribe_bench, deliver, callback, clock_runs
  <2>3. QED
    BY <2>1, <2>2 DEF RoundShape
<1>4. CASE acquire
  <2>1. starts' = Append(starts, clock) /\ clock \in Nat
    BY <1>4, BaseParts DEF acquire, Setting, Base, TickerTypes
  <2>2. Len(starts') = Len(starts) + 1
    BY <1>1, <2>1
  <2>3. CASE pool.free = <<>>
    <3>1. cargo' = cargo /\ main'.pc = "sleep" /\ pool'.exhausted = pool.exhausted + 1
      BY <1>1, <1>4, <2>3, AcquireFields
    <3>2. \A k \in DOMAIN cargo : cargo[k].seq < Len(starts) + 1
      <4> SUFFICES ASSUME NEW k \in DOMAIN cargo
                   PROVE  cargo[k].seq < Len(starts) + 1
        OBVIOUS
      <4>1. cargo[k].seq < Len(starts) /\ cargo[k].seq \in Nat
        BY <1>2 DEF RoundShape, Growing
      <4>2. QED
        BY <1>1, <4>1
    <3>3. Growing(cargo', Len(starts'))
      BY <2>2, <3>1, <3>2 DEF RoundShape, Growing
    <3>4. QED
      BY <1>1, <2>2, <3>1, <3>3 DEF RoundShape
  <2>4. CASE pool.free # <<>>
    <3> DEFINE x == [buffer |-> Acquired(pool), seq |-> Len(starts)]
               n == Len(cargo)
    <3>1. /\ cargo' = Append(cargo, x) /\ main'.pc = "publish" /\ pool'.exhausted = pool.exhausted
          /\ x \in CargoRec /\ x.seq = Len(starts)
      BY <1>1, <1>4, <2>4, AcquireFields DEF CargoRec
    <3> HIDE DEF x
    <3>2. /\ n \in Nat /\ DOMAIN cargo = 1..n /\ DOMAIN cargo' = 1..(n + 1) /\ Len(cargo') = n + 1
          /\ cargo'[n + 1] = x /\ \A k \in 1..n : cargo'[k] = cargo[k] /\ cargo[k].seq \in Nat
      BY <1>1, <1>2, <3>1
    <3> HIDE DEF n
    <3>3. Growing(cargo, Len(starts))
      BY DEF RoundShape
    <3>4. \A k \in 1..(n + 1) : k = n + 1 \/ k \in 1..n
      BY <3>2
    <3>5. Growing(cargo', Len(starts'))
      BY <1>1, <2>2, <3>1, <3>2, <3>3, <3>4 DEF Growing
    <3>6. Len(cargo') + pool'.exhausted = Len(starts')
      BY <1>1, <2>2, <3>1, <3>2 DEF RoundShape, n
    <3>7. QED
      BY <3>1, <3>5, <3>6 DEF RoundShape
  <2>5. QED
    BY <2>3, <2>4
<1>5. QED
  BY <1>3, <1>4

-----------------------------------------------------------------------------
(* What the callbacks have seen. *)

\* The numbers the callback of s has seen have grown.
StateRec == [received: Nat, out_of_order: Nat, last_seq: Nat]
SeenOK(s) ==
    /\ state[s].received = sub[s].delivered /\ state[s].out_of_order = 0
    /\ \/ state[s].last_seq = 0
       \/ taken[s] # <<>> /\ state[s].last_seq <= cargo[Last(taken[s]).env.seq].seq
SeenShape == state \in [Subscribers -> StateRec] /\ \A s \in Subscribers : SeenOK(s)

\* What s has got was published by the main thread, after it was loaded.
Loaded(e) == e.from = main_thread /\ e.seq \in DOMAIN cargo

\* It is so for everything in the queue.
LEMMA AcceptedLoaded ==
    ASSUME Setting, NumberOK, NEW s \in Subscribers, NEW e \in ToSet(accepted[s])
    PROVE  Known(s) /\ Loaded(e)
<1>1. TypeInv /\ StatsInv /\ OnceInv /\ OffersInv /\ GapInv
  BY BaseParts DEF Setting
<1>2. Known(s)
  BY <1>1, ToSetEmpty DEF StatsInv, LogShape
<1>3. e \in Got(s) /\ e \in Envelope
  BY <1>1, FourTypes, ToSetType DEF Got
<1>4. e.seq \in Nat /\ e.seq > 0
  BY <1>1, <1>3, SetsAssumption DEF GapInv, NumberShape, Envelope
<1>5. sub[s].topic = Mine.topic /\ Mine.topic \in Topics /\ topics[Mine.topic].published \in Nat
  BY <1>2, SentTypes DEF Setting, HandleShape, Handle
<1>6. e.seq <= topics[Mine.topic].published
  BY <1>1, <1>2, <1>3, <1>5 DEF OnceInv, OnceShape
<1>7. topics[Mine.topic].published <= Len(cargo) /\ DOMAIN cargo = 1..Len(cargo) /\ Len(cargo) \in Nat
  <2>1. topics[Mine.topic].published + Early = Len(cargo) /\ cargo \in Seq(CargoRec)
    BY <1>2, SentTypes DEF NumberOK
  <2>2. Early \in Nat
    BY DEF Early
  <2>3. Len(cargo) \in Nat /\ DOMAIN cargo = 1..Len(cargo)
    BY <2>1
  <2>4. \A a, b \in Nat : a <= a + b
    OBVIOUS
  <2>5. QED
    BY <1>5, <2>1, <2>2, <2>3, <2>4
<1>8. e.from \in Publishers
  BY <1>1, <1>2, PlainQos DEF OffersInv, VolatileShape
<1>9. e.from = main_thread
  BY <1>8, MainPublishes
<1>10. QED
  BY <1>2, <1>4, <1>5, <1>6, <1>7, <1>9 DEF Loaded

\* And for what the worker has taken.
LEMMA TakenLoaded ==
    ASSUME Setting, NumberOK, NEW s \in Subscribers
    PROVE  /\ \A i \in DOMAIN taken[s] : Known(s) /\ Loaded(taken[s][i].env)
           /\ sub[s].worker = "judge" => Known(s) /\ Loaded(sub[s].held)
           /\ \A i \in DOMAIN sub[s].queue.items : Known(s) /\ Loaded(sub[s].queue.items[i])
<1>1. Line(taken[s], sub[s], ToSet(accepted[s]))
  BY BaseParts DEF Setting, LineShape
<1>2. \A e \in ToSet(accepted[s]) : Known(s) /\ Loaded(e)
  BY AcceptedLoaded
<1>3. QED
  BY <1>1, <1>2 DEF Line

\* The last message taken.
LEMMA LastLoaded ==
    ASSUME Setting, NumberOK, NEW s \in Subscribers, taken[s] # <<>>
    PROVE  /\ Len(taken[s]) \in DOMAIN taken[s] /\ Last(taken[s]) = taken[s][Len(taken[s])]
           /\ Loaded(Last(taken[s]).env) /\ cargo[Last(taken[s]).env.seq].seq \in Nat
<1>1. taken[s] \in Seq(TakenRec) /\ cargo \in Seq(CargoRec)
  BY BaseParts, FourTypes DEF Setting, NumberOK
<1>2. Len(taken[s]) \in DOMAIN taken[s] /\ Last(taken[s]) = taken[s][Len(taken[s])]
  BY <1>1 DEF Last
<1>3. Loaded(Last(taken[s]).env)
  BY <1>2, TakenLoaded
<1>4. cargo[Last(taken[s]).env.seq] \in CargoRec
  BY <1>1, <1>3 DEF Loaded
<1>5. QED
  BY <1>2, <1>3, <1>4 DEF CargoRec

\* What the worker takes next was loaded later.
LEMMA NextIsLater ==
    ASSUME Setting, NumberOK, RoundShape, NEW s \in Subscribers, taken[s] # <<>>,
           sub[s].worker = "judge"
    PROVE  cargo[Last(taken[s]).env.seq].seq < cargo[sub[s].held.seq].seq
<1>1. /\ Len(taken[s]) \in DOMAIN taken[s] /\ Last(taken[s]) = taken[s][Len(taken[s])]
      /\ Loaded(Last(taken[s]).env)
  BY LastLoaded
<1>2. Known(s) /\ Loaded(sub[s].held)
  BY TakenLoaded
<1>3. Ordered(taken[s], sub[s])
  BY <1>2, PlainQos, BaseParts DEF Setting, OrderShape
<1>4. Before(Last(taken[s]).env, sub[s].held)
  BY <1>1, <1>3 DEF Ordered
<1>5. Last(taken[s]).env.seq < sub[s].held.seq
  BY <1>1, <1>2, <1>4 DEF Before, Loaded
<1>6. QED
  BY <1>1, <1>2, <1>5 DEF RoundShape, Growing, Loaded

\* A step keeps SeenShape.
LEMMA SeenShapeStep ==
    ASSUME Setting, NumberOK, QueueShape, RoundShape, SeenShape, [BenchNext]_benchVars
    PROVE  SeenShape'
<1>1. TypeInv /\ StatsInv /\ main \in MainRec /\ starts \in Seq(Nat)
  BY BaseParts DEF Setting, Base, TickerTypes
<1>2. \A k \in DOMAIN cargo : cargo'[k] = cargo[k]
  <2>1. CASE cargo' = cargo
    BY <2>1
  <2>2. CASE acquire /\ pool.free # <<>>
    <3> DEFINE x == [buffer |-> Acquired(pool), seq |-> Len(starts)]
    <3>1. cargo' = Append(cargo, x) /\ x \in CargoRec /\ cargo \in Seq(CargoRec)
      BY <1>1, <2>2, AcquireFields DEF NumberOK, CargoRec
    <3> HIDE DEF x
    <3>2. QED
      BY <3>1
  <2>3. QED
    BY <2>1, <2>2, CargoFrame DEF acquire
<1>3. ASSUME NEW s \in Subscribers, ~callback(s), state'[s] = state[s]
      PROVE  SeenOK(s)'
  <2>1. SubKind(s) /\ SeenOK(s)
    BY SubKinds DEF SeenShape
  <2>2. taken[s] # <<>> => /\ cargo'[Last(taken[s]).env.seq] = cargo[Last(taken[s]).env.seq]
                           /\ cargo[Last(taken[s]).env.seq].seq \in Nat
    BY <1>2, LastLoaded DEF Loaded
  <2>3. ASSUME sub'[s].delivered = sub[s].delivered, taken'[s] = taken[s]
        PROVE  SeenOK(s)'
    BY <1>3, <2>1, <2>2, <2>3 DEF SeenOK
  <2>4. CASE SubKeeps(s)
    BY <2>3, <2>4 DEF SubKeeps, SameCounts, LogSame
  <2>5. CASE Receives(s, Mine.env)
    BY <2>3, <2>5 DEF Receives, SameCounts
  <2>6. CASE Subscribes(s, Mine.topic, Mine.type, Mine.qos)
    <3>1. ~Known(s)
      BY <2>6 DEF Subscribes, Known
    <3>2. sub[s].queue.items = <<>> /\ sub[s].worker = "none"
      BY <3>1, UnknownHoldsNothing DEF Setting
    <3>3. accepted[s] = <<>> /\ Balanced(accepted[s], sub[s])
      BY <1>1, <3>1 DEF StatsInv, LogShape
    <3>4. sub[s] \in SubRec
      BY <1>1, FourTypes
    <3>5. sub[s].delivered \in Nat /\ sub[s].expired \in Nat /\ sub[s].queue.dropped \in Nat
      BY <3>4 DEF SubRec, Queue
    <3>6. sub[s].delivered = 0
      <4>1. 0 = sub[s].delivered + 0 + sub[s].expired + sub[s].queue.dropped + 0
        BY <3>2, <3>3 DEF Balanced, InHand
      <4>2. \A a, b, c \in Nat : 0 = a + 0 + b + c + 0 => a = 0
        OBVIOUS
      <4>3. QED
        BY <3>5, <4>1, <4>2
    <3>7. sub'[s].delivered = 0
      BY <2>6 DEF Subscribes, SameCounts, Subscription0
    <3>8. QED
      BY <2>3, <2>6, <3>6, <3>7 DEF Subscribes, LogSame
  <2>7. CASE Starts(s)
    BY <2>3, <2>7 DEF Starts, SameCounts, LogSame
  <2>8. CASE Pops(s)
    BY <2>3, <2>8 DEF Pops, SameCounts, LogSame
  <2>9. CASE Exits(s)
    BY <2>3, <2>9 DEF Exits, SameCounts, LogSame
  <2>10. CASE Delivers(s)
    <3>1. sub'[s].delivered = sub[s].delivered /\ sub[s].worker = "judge"
      BY <2>10 DEF Delivers
    <3>2. taken'[s] # <<>> /\ Last(taken'[s]).env = sub[s].held
      BY <2>10, LastTaken DEF Setting
    <3>3. Loaded(sub[s].held)
      BY <3>1, TakenLoaded
    <3>4. cargo'[sub[s].held.seq] = cargo[sub[s].held.seq] /\ cargo[sub[s].held.seq].seq \in Nat
      <4>1. cargo[sub[s].held.seq] \in CargoRec
        BY <3>3 DEF Loaded, NumberOK
      <4>2. QED
        BY <1>2, <3>3, <4>1 DEF Loaded, CargoRec
    <3>5. taken[s] # <<>> => cargo[Last(taken[s]).env.seq].seq < cargo[sub[s].held.seq].seq
      BY <3>1, NextIsLater
    <3>6. state[s].last_seq \in Nat
      BY DEF SeenShape, StateRec
    <3>7. state[s].last_seq = 0 \/ state[s].last_seq <= cargo[sub[s].held.seq].seq
      BY <2>1, <2>2, <3>4, <3>5, <3>6 DEF SeenOK
    <3>8. QED
      BY <1>3, <2>1, <3>1, <3>2, <3>4, <3>7 DEF SeenOK
  <2>11. QED
    BY <1>3, <2>1, <2>4, <2>5, <2>6, <2>7, <2>8, <2>9, <2>10 DEF SubKind
<1>4. CASE state' = state /\ \A s \in Subscribers : ~callback(s)
  BY <1>3, <1>4 DEF SeenShape
<1>5. ASSUME NEW u \in Subscribers, callback(u)
      PROVE  SeenShape'
  <2> DEFINE k == cargo[Last(taken[u]).env.seq].seq
             n == [received |-> state[u].received + 1, last_seq |-> k,
                   out_of_order |-> IF k < state[u].last_seq THEN state[u].out_of_order + 1
                                    ELSE state[u].out_of_order]
  <2>1. /\ callback_returns(u) /\ sub[u].worker = "callback" /\ cargo' = cargo /\ taken' = taken
        /\ state' = [state EXCEPT ![u] = n]
    BY <1>5 DEF callback, callback_returns, historyVars
  <2>2. state[u] \in StateRec /\ SeenOK(u)
    BY DEF SeenShape
  <2>3. taken[u] # <<>>
    BY <2>1 DEF QueueShape, QueueOK
  <2>4. k \in Nat
    BY <2>3, LastLoaded
  <2> HIDE DEF k
  <2>5. ~(k < state[u].last_seq)
    BY <2>2, <2>3, <2>4 DEF SeenOK, StateRec, k
  <2>6. n.received = state[u].received + 1 /\ n.last_seq = k /\ n.out_of_order = 0 /\ n \in StateRec
    BY <2>2, <2>4, <2>5 DEF SeenOK, StateRec
  <2> HIDE DEF n
  <2>7. state' \in [Subscribers -> StateRec] /\ state'[u] = n
        /\ \A s \in Subscribers : s # u => state'[s] = state[s]
    BY <2>1, <2>6 DEF SeenShape
  <2>8. sub'[u].delivered = sub[u].delivered + 1
    BY <1>1, <2>1, FourTypes DEF callback_returns, SubRec
  <2>9. SeenOK(u)'
    BY <2>1, <2>2, <2>3, <2>4, <2>6, <2>7, <2>8 DEF SeenOK, k
  <2>10. ASSUME NEW s \in Subscribers, s # u
         PROVE  SeenOK(s)'
    <3>1. sub'[s] = sub[s] /\ taken'[s] = taken[s] /\ state'[s] = state[s]
      BY <1>5, <2>7, <2>10, WorkersApart
    <3>2. QED
      BY <2>1, <3>1 DEF SeenShape, SeenOK
  <2>11. QED
    BY <2>7, <2>9, <2>10 DEF SeenShape
<1>6. QED
  <2>1. state' = state \/ \E s \in Subscribers : callback(s)
    BY DEF BenchNext, benchVars, ownVars, advertise_bench, subscribe_bench, start_ticker, publish_sample,
       publishing, sleep_until_next, wake_up, wait_for_idle_bench, shutdown_bench, deliver, clock_runs, acquire
  <2>2. QED
    BY <1>4, <1>5, <2>1

-----------------------------------------------------------------------------
(* How much can be held back. *)

\* What a subscriber has room for: its queue, and one message in the worker.
Rooms == [s \in Subscribed |-> 1 + sub[s].queue.capacity]

\* The sum that BackpressureBounded takes over the subscribers counts these places.
LEMMA RoomsSum ==
    ASSUME TypeInv
    PROVE  /\ Rooms \in [Subscribed -> Nat] /\ IsFiniteSet(Subscribed)
           /\ MapThenSumSet(LAMBDA s : 1 + sub[s].queue.capacity, Subscribed)
                = Cardinality(Units(Rooms, Subscribed))
<1> DEFINE f == Rooms
           S == Subscribed
           Rec(h) == h = [T \in SUBSET S |->
                            IF T = {} THEN 0
                            ELSE (1 + sub[CHOOSE x \in T : TRUE].queue.capacity)
                                   + h[T \ {CHOOSE x \in T : TRUE}]]
           k == CHOOSE h : Rec(h)
<1>1. f \in [S -> Nat] /\ IsFiniteSet(S)
  <2>1. S \in SUBSET Subscribers
    BY DEF Subscribed
  <2>2. \A s \in Subscribers : 1 + sub[s].queue.capacity \in Nat
    BY FourTypes DEF SubRec, Queue
  <2>3. IsFiniteSet(S)
    BY <2>1, SetsAssumption, FS_Subset
  <2>4. QED
    BY <2>1, <2>2, <2>3 DEF Rooms
<1>2. \A T \in SUBSET S : T # {} =>
          f[CHOOSE x \in T : TRUE] = 1 + sub[CHOOSE x \in T : TRUE].queue.capacity
  BY DEF Rooms
<1>0. MapThenSumSet(LAMBDA s : 1 + sub[s].queue.capacity, S) = k[S]
  BY DEF MapThenSumSet, MapThenFoldSet
<1> HIDE DEF f, S
<1>3. PICK h : SumFn(h, f, S)
  BY <1>1, SumDefined
<1>4. ASSUME NEW g
      PROVE  Rec(g) <=> SumFn(g, f, S)
  <2> DEFINE A(T) == IF T = {} THEN 0
                     ELSE (1 + sub[CHOOSE x \in T : TRUE].queue.capacity)
                            + g[T \ {CHOOSE x \in T : TRUE}]
             B(T) == IF T = {} THEN 0
                     ELSE f[CHOOSE x \in T : TRUE] + g[T \ {CHOOSE x \in T : TRUE}]
  <2>1. ASSUME NEW T \in SUBSET S
        PROVE  A(T) = B(T)
    <3> DEFINE x == CHOOSE x \in T : TRUE
               rest == g[T \ {x}]
               room == 1 + sub[x].queue.capacity
    <3>1. A(T) = IF T = {} THEN 0 ELSE room + rest
      OBVIOUS
    <3>2. B(T) = IF T = {} THEN 0 ELSE f[x] + rest
      OBVIOUS
    <3>3. T # {} => f[x] = room
      BY <1>2
    <3> HIDE DEF A, B, x, rest, room
    <3>4. QED
      BY <3>1, <3>2, <3>3
  <2>2. Rec(g) <=> g = [T \in SUBSET S |-> A(T)]
    OBVIOUS
  <2>3. SumFn(g, f, S) <=> g = [T \in SUBSET S |-> B(T)]
    BY DEF SumFn
  <2> HIDE DEF A, B, Rec
  <2>4. [T \in SUBSET S |-> A(T)] = [T \in SUBSET S |-> B(T)]
    BY <2>1
  <2>5. QED
    BY <2>2, <2>3, <2>4
<1>6. Rec(k)
  <2>1. Rec(h)
    BY <1>3, <1>4
  <2> HIDE DEF Rec
  <2>2. QED
    BY <2>1
<1> HIDE DEF k, Rec
<1>7. SumFn(k, f, S)
  BY <1>4, <1>6
<1>8. k[S] = Cardinality(Units(f, S))
  BY <1>1, <1>7, SumCounts
<1>9. MapThenSumSet(LAMBDA s : 1 + sub[s].queue.capacity, S) = Cardinality(Units(f, S))
  BY <1>0, <1>8, Zenon
<1>10. QED
  BY <1>1, <1>9, Zenon DEF f, S

\* The message in place u[2] of subscriber u[1]: the queue's, then the worker's.
Place(u) ==
    IF u[2] \in DOMAIN sub[u[1]].queue.items THEN sub[u[1]].queue.items[u[2]].seq
    ELSE IF sub[u[1]].worker = "judge" THEN sub[u[1]].held.seq
    ELSE Last(taken[u[1]]).env.seq

\* Each message that a subscriber holds is in one of its places.
LEMMA HeldInPlace ==
    ASSUME TypeInv, NEW s \in Subscribed, NEW k \in Holds(s)
    PROVE  \E u \in Units(Rooms, Subscribed) : Place(u) = k
<1> DEFINE q == sub[s].queue
           n == Len(q.items)
<1>1. /\ q.items \in Seq(Envelope) /\ n \in Nat /\ q.capacity \in Nat /\ n <= q.capacity
      /\ DOMAIN q.items = 1..n
  BY FourTypes DEF Subscribed, SubRec, Queue
<1>2. Rooms[s] = 1 + q.capacity
  BY DEF Rooms
<1>3. ASSUME NEW i \in Nat, 1 <= i, i <= n + 1
      PROVE  <<s, i>> \in Units(Rooms, Subscribed)
  <2>1. i <= 1 + q.capacity
    BY <1>1, <1>3
  <2>2. QED
    BY <1>2, <1>3, <2>1 DEF Units
<1>4. CASE k \in Nums(q.items)
  <2>1. PICK i \in 1..n : k = q.items[i].seq
    BY <1>1, <1>4 DEF Nums
  <2>2. <<s, i>> \in Units(Rooms, Subscribed)
    BY <1>1, <1>3, <2>1
  <2>3. Place(<<s, i>>) = k
    BY <1>1, <2>1 DEF Place
  <2>4. QED
    BY <2>2, <2>3
<1>5. CASE k \notin Nums(q.items)
  <2> DEFINE m == n + 1
  <2>0. m \in Nat /\ 1 <= m /\ m <= n + 1 /\ m \notin 1..n
    <3>1. \A x \in Nat : x + 1 \in Nat /\ 1 <= x + 1 /\ x + 1 \notin 1..x
      OBVIOUS
    <3> HIDE DEF n
    <3>2. QED
      BY <1>1, <3>1
  <2> HIDE DEF m
  <2>1. <<s, m>> \in Units(Rooms, Subscribed)
    BY <1>3, <2>0
  <2>2. m \notin DOMAIN q.items
    BY <1>1, <2>0
  <2>3. Place(<<s, m>>) =
          IF sub[s].worker = "judge" THEN sub[s].held.seq ELSE Last(taken[s]).env.seq
    BY <2>2 DEF Place
  <2>4. IF sub[s].worker = "judge" THEN k = sub[s].held.seq ELSE k = Last(taken[s]).env.seq
    BY <1>5 DEF Holds
  <2>5. QED
    BY <2>1, <2>3, <2>4
<1>6. QED
  BY <1>4, <1>5

\* Who holds a message has subscribed, and there are messages only after the setup.
LEMMA HoldersSubscribed ==
    ASSUME Setting, NEW s \in Subscribers, cargo # <<>>, s \notin Subscribed
    PROVE  Holds(s) = {}
<1>1. main.pc # "setup"
  BY DEF Setting, ControlShape
<1>2. owner[s].pc # "replay"
  BY <1>1 DEF Setting, ControlShape
<1>3. ~Known(s)
  BY <1>2 DEF Setting, HandleShape, Handle, Known, Subscribed
<1>4. QED
  BY <1>3, UnknownHoldsNothing DEF Setting

\* What Referenced is, in the states of the program.
LEMMA ReferencedHeld ==
    ASSUME Setting, NumberOK
    PROVE  Referenced = Held
<1>1. TypeInv /\ PromiseInv
  BY BaseParts DEF Setting
<1>2. \A s \in Subscribers : sub[s].queue.items \in Seq(Envelope)
  BY <1>1, FourTypes
<1>3. HeldTypes
  BY <1>1, <1>2 DEF HeldTypes, PromiseInv, NumberOK
<1>4. QED
  BY <1>3, ReferencedIs

\* There are no more messages than places to hold them.
LEMMA ReferencedBounded ==
    ASSUME Setting, NumberOK
    PROVE  /\ IsFiniteSet(Referenced) /\ Cardinality(Units(Rooms, Subscribed)) \in Nat
           /\ Cardinality(Referenced)
                <= (IF InPublish THEN 1 ELSE 0) + Cardinality(Units(Rooms, Subscribed))
<1> DEFINE U == Units(Rooms, Subscribed)
           T == {Place(u) : u \in U}
           g == [u \in U |-> Place(u)]
           extra == IF InPublish THEN 1 ELSE 0
           R == Referenced
           n == Len(cargo)
<1>1. TypeInv /\ R = Held
  BY BaseParts, ReferencedHeld DEF Setting
<1>2. IsFiniteSet(U)
  <2> DEFINE S == Subscribed
             f == Rooms
  <2>1. f \in [S -> Nat] /\ IsFiniteSet(S)
    BY <1>1, RoomsSum, Zenon
  <2> HIDE DEF f, S
  <2>2. IsFiniteSet(Units(f, S))
    BY <2>1, UnitsFinite
  <2>3. QED
    BY <2>2 DEF f, S
<1>3. R \subseteq IF InPublish THEN T \cup {n} ELSE T
  <2> SUFFICES ASSUME NEW k \in R, ~(InPublish /\ k = n)
               PROVE  k \in T
    BY <1>1 DEF Held
  <2>1. k \in DOMAIN cargo
    BY <1>1 DEF Held
  <2>2. cargo # <<>>
    BY <2>1
  <2>3. PICK s \in Subscribers : k \in Holds(s)
    BY <1>1 DEF Held
  <2>4. s \in Subscribed
    BY <2>2, <2>3, HoldersSubscribed
  <2>5. \E u \in U : Place(u) = k
    BY <1>1, <2>3, <2>4, HeldInPlace
  <2>6. QED
    BY <2>5
<1>4. g \in Surjection(U, T)
  BY DEF Surjection
<1> HIDE DEF g, T, U, R, n
<1>5. IsFiniteSet(T) /\ Cardinality(T) <= Cardinality(U)
  BY <1>2, <1>4, FS_Surjection
<1>6. Cardinality(U) \in Nat /\ Cardinality(T) \in Nat
  BY <1>2, <1>5, FS_CardinalityType
<1>7. CASE InPublish
  <2>1. R \in SUBSET (T \cup {n})
    BY <1>3, <1>7
  <2>2. IsFiniteSet(T \cup {n}) /\ Cardinality(T \cup {n}) = (IF n \in T THEN Cardinality(T) ELSE Cardinality(T) + 1)
    BY <1>5, FS_AddElement
  <2> DEFINE V == T \cup {n}
  <2>3. IsFiniteSet(V) /\ Cardinality(V) <= Cardinality(T) + 1 /\ Cardinality(V) \in Nat /\ R \in SUBSET V
    BY <1>6, <2>1, <2>2
  <2> HIDE DEF V
  <2>4. IsFiniteSet(R) /\ Cardinality(R) <= Cardinality(V)
    BY <2>3, FS_Subset
  <2>5. Cardinality(R) \in Nat
    BY <2>4, FS_CardinalityType
  <2>6. Cardinality(R) <= 1 + Cardinality(U)
    BY <1>5, <1>6, <2>3, <2>4, <2>5
  <2>7. QED
    BY <1>6, <1>7, <2>4, <2>6 DEF R, U
<1>8. CASE ~InPublish
  <2>1. R \in SUBSET T
    BY <1>3, <1>8
  <2>2. IsFiniteSet(R) /\ Cardinality(R) <= Cardinality(T)
    BY <1>5, <2>1, FS_Subset
  <2>3. Cardinality(R) \in Nat
    BY <2>2, FS_CardinalityType
  <2>4. Cardinality(R) <= 0 + Cardinality(U)
    BY <1>5, <1>6, <2>2, <2>3
  <2>5. QED
    BY <1>6, <1>8, <2>2, <2>4 DEF R, U
<1>9. QED
  BY <1>7, <1>8

\* The buffers out of the pool are those of the messages somebody holds.
LEMMA BoundFollows ==
    ASSUME Setting, NumberOK, PoolShape
    PROVE  BackpressureBounded
<1> DEFINE sum == MapThenSumSet(LAMBDA s : 1 + sub[s].queue.capacity, Subscribed)
           R == Referenced
           extra == IF InPublish THEN 1 ELSE 0
           c == Cardinality(Units(Rooms, Subscribed))
<1>1. Cardinality(R) = in_use(pool)
  BY PoolCounts DEF PoolShape, NumberOK
<1>2. Cardinality(R) <= extra + c
  BY ReferencedBounded
<1>3. sum = c
  BY BaseParts, RoomsSum, Zenon DEF Setting
<1>4. BackpressureBounded <=> in_use(pool) <= extra + sum
  BY Zenon DEF BackpressureBounded
<1> HIDE DEF sum, R, extra, c
<1>5. QED
  BY <1>1, <1>2, <1>3, <1>4

-----------------------------------------------------------------------------
(* At the end. *)

\* Once shutdown() has returned, the workers have left with nothing in their hands or behind.
LEMMA EndedIsQuiet ==
    ASSUME Setting, Ended, NEW s \in Subscribers
    PROVE  /\ Holds(s) = {} /\ sub[s].queue.items = <<>>
           /\ sub[s].worker \notin {"judge", "callback"}
<1>1. TypeInv /\ QuietInv
  BY BaseParts DEF Setting
<1>2. CASE ~Known(s)
  BY <1>2, UnknownHoldsNothing DEF Setting
<1>3. CASE Known(s)
  <2>1. s \in stop.ready
    BY <1>3 DEF Setting, HandleShape, Handle, Ended
  <2>2. s \notin ToSet(stop.all)
    BY <1>1, ToSetEmpty DEF TypeInv, StopShape, Ended
  <2>3. sub[s].worker = "exited"
    BY <1>1, <2>1, <2>2 DEF QuietInv, ReadyShape, Ended
  <2>4. sub[s].queue.items = <<>>
    BY <1>1, <2>3 DEF QuietInv, WorkerShape
  <2>5. QED
    BY <2>3, <2>4 DEF Holds, Nums
<1>4. QED
  BY <1>2, <1>3

\* Then every buffer is back, once.
LEMMA EndedPool ==
    ASSUME Setting, NumberOK, PoolShape, Ended
    PROVE  in_use(pool) = 0 /\ Cardinality(ToSet(pool.free)) = pool.total
<1>1. ~InPublish
  BY MineNext DEF Setting, ControlShape, Ended, InPublish, Mine
<1>2. Referenced = {}
  BY <1>1, ReferencedHeld, EndedIsQuiet DEF Held
<1>3. in_use(pool) = 0
  BY <1>2, PoolCounts, FS_EmptySet DEF PoolShape, NumberOK
<1>4. Cardinality(ToSet(pool.free)) = Len(pool.free)
  BY PoolCounts DEF PoolShape, NumberOK
<1>5. Len(pool.free) \in Nat /\ pool.total \in Nat
  BY DEF NumberOK, PoolRec
<1>6. QED
  BY <1>3, <1>4, <1>5 DEF in_use

\* Then what was accepted was delivered or dropped, and what was not accepted was reported.
LEMMA EndedCounts ==
    ASSUME Setting, NumberOK, QueueShape, SentShape, Ended, NEW s \in Subscribers, Known(s)
    PROVE  IF sub[s].qos.reliability = "Reliable"
           THEN sub[s].delivered \in Len(cargo) - main.failed .. Len(cargo)
           ELSE main.failed = 0 /\ sub[s].delivered + sub[s].queue.dropped = Len(cargo)
<1> DEFINE a == Len(accepted[s])
           n == Len(cargo)
           r == sub[s]
           d == sub[s].delivered
           x == sub[s].queue.dropped
           failed == main.failed
<1>1. TypeInv /\ StatsInv /\ PromiseInv /\ main \in MainRec /\ ControlShape
  BY BaseParts DEF Setting
<1>2. a \in Nat /\ n \in Nat /\ d \in Nat /\ x \in Nat /\ failed \in Nat
  BY <1>1, FourTypes, SMTT(40) DEF NumberOK, SubRec, Queue, MainRec
<1>3. a = d + x
  <2>1. InHand(r) = 0 /\ r.expired = 0 /\ Len(r.queue.items) = 0
    BY EndedIsQuiet DEF InHand, QueueShape, QueueOK
  <2>2. a = d + InHand(r) + r.expired + x + Len(r.queue.items)
    BY <1>1 DEF StatsInv, Balanced
  <2> HIDE DEF a, d, x, r
  <2>3. a = d + 0 + 0 + x + 0
    BY <2>1, <2>2
  <2>4. QED
    BY <1>2, <2>3
<1>4. Mine.pc \notin {"none", "lock", "push"} /\ Mine.targets = <<>> /\ Early = 0
  <2>1. Mine.pc \notin {"lock", "push", "report"} /\ main.pc # "publish"
    BY <1>1 DEF ControlShape, Ended
  <2>2. Mine.targets = <<>>
    BY <1>1, <2>1, MineNext DEF TypeInv, PublisherShape, Mine
  <2>3. Mine.pc # "none"
    BY DEF Setting, HandleShape, Handle
  <2>4. QED
    BY <2>1, <2>2, <2>3 DEF Early
<1>5. Given(s) = n /\ Missing(s) = failed
  <2>1. s \notin ToSet(Mine.targets)
    BY <1>4, ToSetEmpty
  <2>2. topics[Mine.topic].published \in Nat
    <3>1. Mine.topic \in Topics
      BY <1>1, <1>4, PubTypes, MineNext DEF Mine
    <3>2. QED
      BY <1>1, <3>1, PubTypes, SetsAssumption
  <2>3. topics[Mine.topic].published + 0 = n
    BY <1>4 DEF NumberOK
  <2>4. Given(s) = topics[Mine.topic].published - 0 /\ Missing(s) = failed + 0
    BY <1>4, <2>1 DEF Given, Missing
  <2> HIDE DEF failed, n
  <2>5. QED
    BY <1>2, <2>2, <2>3, <2>4
<1>6. a <= n /\ n <= a + failed
  <2>1. Len(accepted[s]) <= Given(s) /\ Given(s) <= Len(accepted[s]) + Missing(s)
    BY DEF SentShape, SentOK
  <2> HIDE DEF n, failed
  <2>2. QED
    BY <1>5, <2>1
<1>7. CASE r.qos.reliability = "Reliable"
  <2>1. x = 0
    BY <1>1, <1>7 DEF PromiseInv, PolicyShape, QueueShape, QueueOK
  <2> HIDE DEF a, d, x, n, failed
  <2>2. d \in n - failed .. n
    BY <1>2, <1>3, <1>6, <2>1
  <2>3. QED
    BY <1>7, <2>2 DEF d, n, failed
<1>8. CASE r.qos.reliability # "Reliable"
  <2>1. Mine.qos = r.qos
    BY DEF Setting, HandleShape, Handle
  <2>2. r.qos.reliability = "BestEffort"
    <3>1. r.qos \in QoS
      BY <1>1, FourTypes DEF SubRec
    <3>2. QED
      BY <1>8, <3>1 DEF QoS, Reliability
  <2>3. failed = 0
    BY <1>4, <2>1, <2>2 DEF SentShape, NoneFails
  <2> HIDE DEF a, d, x, n, failed
  <2>4. d + x = n
    BY <1>2, <1>3, <1>6, <2>3
  <2>5. QED
    BY <1>8, <2>3, <2>4 DEF d, n, failed, x
<1>9. QED
  BY <1>7, <1>8

\* So the report is complete.
LEMMA ReportFollows ==
    ASSUME Setting, NumberOK, QueueShape, SentShape, PoolShape, RoundShape, SeenShape
    PROVE  ReportComplete
<1> SUFFICES ASSUME Ended
             PROVE  /\ in_use(pool) = 0 /\ Cardinality(ToSet(pool.free)) = pool.total
                    /\ Len(cargo) + pool.exhausted = Count
                    /\ \A s \in Subscribed :
                         /\ state[s].received = sub[s].delivered /\ state[s].out_of_order = 0
                         /\ IF sub[s].qos.reliability = "Reliable"
                            THEN sub[s].delivered \in Len(cargo) - main.failed .. Len(cargo)
                            ELSE main.failed = 0 /\ sub[s].delivered + sub[s].queue.dropped = Len(cargo)
  BY Zenon DEF ReportComplete
<1>1. in_use(pool) = 0 /\ Cardinality(ToSet(pool.free)) = pool.total
  BY EndedPool
<1>2. Len(cargo) + pool.exhausted = Count
  BY DEF RoundShape, Ended
<1>3. ASSUME NEW s \in Subscribed
      PROVE  /\ state[s].received = sub[s].delivered /\ state[s].out_of_order = 0
             /\ IF sub[s].qos.reliability = "Reliable"
                THEN sub[s].delivered \in Len(cargo) - main.failed .. Len(cargo)
                ELSE main.failed = 0 /\ sub[s].delivered + sub[s].queue.dropped = Len(cargo)
  <2>1. s \in Subscribers /\ Known(s)
    BY DEF Subscribed, Known
  <2>2. state[s].received = sub[s].delivered /\ state[s].out_of_order = 0
    BY <2>1 DEF SeenShape, SeenOK
  <2>3. QED
    BY <2>1, <2>2, EndedCounts
<1>4. QED
  BY <1>1, <1>2, <1>3

-----------------------------------------------------------------------------
(* The two results. *)

\* On top of Base, this is inductive.
BenchInv ==
    /\ ControlShape /\ HandleShape /\ NumberOK /\ QueueShape /\ SentShape
    /\ PoolShape /\ RoundShape /\ SeenShape

\* A step keeps it.
LEMMA BenchInvStep == Base /\ BenchInv /\ [BenchNext]_benchVars => BenchInv'
<1> SUFFICES ASSUME Base, BenchInv, [BenchNext]_benchVars
             PROVE  BenchInv'
  OBVIOUS
<1>1. Setting /\ NumberOK /\ QueueShape /\ SentShape /\ PoolShape /\ RoundShape /\ SeenShape
  BY DEF BenchInv, Setting
<1>2. ControlShape' /\ HandleShape' /\ NumberOK' /\ QueueShape'
  BY <1>1, ControlStep, HandleStep, NumberOKStep, QueueShapeStep
<1>3. SentShape' /\ PoolShape' /\ RoundShape' /\ SeenShape'
  BY <1>1, SentShapeStep, PoolShapeStep, RoundShapeStep, SeenShapeStep
<1>4. QED
  BY <1>2, <1>3 DEF BenchInv

\* The pool as it is made.
LEMMA PoolInit ==
    ASSUME NEW n \in Nat, NEW c
    PROVE  NewPool(n) \in PoolRec /\ NewPool(n).exhausted = 0 /\ PoolOK(NewPool(n), c, {})
<1> DEFINE total == IF n = 0 THEN 1 ELSE n
           free == [i \in 1..total |-> i]
           p == NewPool(n)
<1>1. total \in Nat
  OBVIOUS
<1>2. p = [free |-> free, total |-> total, exhausted |-> 0]
  BY DEF NewPool
<1> HIDE DEF total
<1>3. free \in Seq(Nat) /\ DOMAIN free = 1..total /\ \A i \in 1..total : free[i] = i
  BY <1>1
<1>4. Distinct(free) /\ ToSet(free) = 1..total
  BY <1>3 DEF Distinct, ToSet
<1> HIDE DEF free
<1>5. p \in PoolRec /\ p.free = free /\ p.total = total /\ p.exhausted = 0
  BY <1>1, <1>2, <1>3 DEF PoolRec
<1> HIDE DEF p
<1>6. PoolOK(p, c, {})
  BY <1>4, <1>5 DEF PoolOK
<1>7. QED
  BY <1>5, <1>6 DEF p

\* It holds when main() begins.
LEMMA BenchInvInit == BenchInit => BenchInv
<1> SUFFICES ASSUME BenchInit
             PROVE  BenchInv
  OBVIOUS
<1>1. /\ main = [pc |-> "setup", failed |-> 0, missed |-> 0, start |-> 0]
      /\ cargo = <<>> /\ starts = <<>> /\ state = [s \in Subscribers |-> State0]
      /\ Mine = Publisher0 /\ stop.pc = "idle"
      /\ \A t \in Topics : topics[t] = Entry0
      /\ \A s \in Subscribers : /\ sub[s] = Subscription0 /\ owner[s].pc = "idle"
                                /\ accepted[s] = <<>> /\ taken[s] = <<>>
  BY MineNext DEF BenchInit, Init, Mine
<1>2. main.pc = "setup" /\ main.failed = 0
  BY <1>1
<1>3. Publisher0.pc = "none" /\ \A s \in Subscribers : ~Known(s)
  BY <1>1 DEF Publisher0, Known
<1>4. ControlShape /\ HandleShape
  BY <1>1, <1>2, <1>3 DEF ControlShape, HandleShape, Handle
<1>5. PICK n \in Nat : pool = NewPool(n)
  BY BenchAssumption DEF BenchInit
<1>6. pool \in PoolRec /\ pool.exhausted = 0 /\ PoolOK(pool, cargo, {})
  BY <1>5, PoolInit
<1>7. NumberOK
  BY <1>1, <1>2, <1>3, <1>6 DEF NumberOK, Early
<1>8. /\ Subscription0.expired = 0 /\ Subscription0.worker = "none"
      /\ Subscription0.delivered = 0
  BY DEF Subscription0
<1>9. Subscription0.queue.dropped = 0
  BY DEF Subscription0, NewQueue
<1>10. QueueShape
  BY <1>1, <1>3, <1>8, <1>9 DEF QueueShape, QueueOK
<1>11. SentShape
  BY <1>1, <1>3 DEF SentShape, SentOK, NoneFails
<1>12. Referenced = {}
  BY <1>1 DEF Referenced
<1>13. PoolShape
  BY <1>6, <1>12 DEF PoolShape
<1>14. RoundShape
  BY <1>1, <1>2, <1>6 DEF RoundShape, Growing
<1>15. SeenShape
  BY <1>1, <1>8 DEF SeenShape, SeenOK, State0, StateRec
<1>16. QED
  BY <1>4, <1>7, <1>10, <1>11, <1>13, <1>14, <1>15 DEF BenchInv

\* So it holds throughout.
LEMMA BenchInvariant == BenchSpec => [](Base /\ BenchInv)
<1>1. BenchSpec => []TickerInv
  BY TickerInit, TickerStep, PTL DEF BenchSpec
<1>2. TickerInv => TickerTypes
  BY DEF TickerInv
<1>3. BenchSpec => []Base
  <2>1. (BusFacts /\ AdShape) /\ TickerTypes => Base
    BY DEF Base
  <2>2. QED
    BY <1>1, <1>2, <2>1, BenchBusFacts, PTL
<1>4. QED
  BY <1>3, BenchInvInit, BenchInvStep, PTL DEF BenchSpec

\* However fast the program publishes and however slow its callbacks are, the buffers out
\* of the pool are at most the message in publish(), one message in each worker and the
\* depth of each queue.
THEOREM BackpressureHolds == BenchSpec => []BackpressureBounded
<1>1. Base /\ BenchInv => BackpressureBounded
  BY BoundFollows DEF BenchInv, Setting
<1>2. QED
  BY <1>1, BenchInvariant, PTL

\* When the program prints its report, every buffer is back in the pool, once, every round
\* is accounted for, and every subscriber has got each message, in order, but for those
\* that publish() said had failed or its queue counts as dropped.
THEOREM ReportIsComplete == BenchSpec => []ReportComplete
<1>1. Base /\ BenchInv => ReportComplete
  BY ReportFollows DEF BenchInv, Setting
<1>2. QED
  BY <1>1, BenchInvariant, PTL
=============================================================================
