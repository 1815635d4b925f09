----------------------------- MODULE RingBench -----------------------------
(***************************************************************************)
(* run_spsc_ring of bench/bench_queue_throughput.cpp: the main thread      *)
(* pushes the numbers from 0 on and then sets a flag; the consumer pops    *)
(* until it has seen them all, or gives up when the flag is set and the    *)
(* ring is empty.                                                          *)
(***************************************************************************)
EXTENDS SpscRing

CONSTANT Count   \* the argument count

ASSUME CountAssumption == Count \in Nat \ {0} /\ Values = 0..(Count - 1)

VARIABLES
    sent, done,   \* i of the main loop, the flag
    loop,         \* where the consumer's loop is
    seen,         \* the consumer's count
    saw_done      \* has its acquire load of the flag returned true

benchVars == <<sent, done, loop, seen, saw_done>>
allVars   == <<vars, benchVars>>

BenchInit ==
    /\ Init
    /\ sent = 0 /\ done = FALSE
    /\ loop = "pop" /\ seen = 0 /\ saw_done = FALSE

\* while (!ring.push(i)) yield(): a refused push is tried again.
producer_loop ==
    /\ \/ sent < Count /\ push(sent)
       \/ push_reload \/ push_fill \/ push_publish
    /\ sent' = IF write' # write THEN sent + 1 ELSE sent
    /\ UNCHANGED <<done, loop, seen, saw_done>>

\* The release store of the flag.
set_done ==
    /\ ppc = "idle" /\ sent = Count /\ ~done
    /\ done' = TRUE
    /\ UNCHANGED <<vars, sent, loop, seen, saw_done>>

\* Variant: the flag is loaded with memory_order_relaxed.
Unsynchronised == TRUE

\* A load of write_ that comes after an acquire load of the set flag returns
\* what the producer stored last.
Synchronised == saw_done /\ cpc = "reload" => write_cache' = write

\* The two ring.pop() of the loop: the first is followed by a look at the flag
\* when it fails, the second by break.
consumer_pop ==
    /\ loop \in {"pop", "last"}
    /\ \/ seen < Count /\ pop
       \/ pop_reload \/ pop_take \/ pop_release
    /\ Synchronised
    /\ seen' = IF read' # read THEN seen + 1 ELSE seen
    /\ loop' = IF cpc = "reload" /\ cpc' = "idle"
               THEN IF loop = "pop" THEN "flag" ELSE "exited"
               ELSE IF cpc' = "idle" THEN "pop" ELSE loop
    /\ UNCHANGED <<sent, done, saw_done>>

\* done.load(acquire), which may lag like any other; false is followed by yield.
load_done ==
    /\ loop = "flag"
    /\ saw_done' \in IF saw_done THEN {TRUE} ELSE {FALSE, done}
    /\ loop' = IF saw_done' THEN "last" ELSE "pop"
    /\ UNCHANGED <<vars, sent, done, seen>>

\* The condition of the while loop.
consumer_ends ==
    /\ loop = "pop" /\ cpc = "idle" /\ seen = Count
    /\ loop' = "exited"
    /\ UNCHANGED <<vars, sent, done, seen, saw_done>>

Main     == producer_loop \/ set_done
Consumer == consumer_pop \/ load_done \/ consumer_ends

BenchNext == Main \/ Consumer

BenchSpec == BenchInit /\ [][BenchNext]_allVars

\* Both threads are scheduled, and a store becomes visible after finitely many
\* loads that missed it.
BenchFairness ==
    /\ WF_allVars(Main) /\ WF_allVars(Consumer)
    /\ SF_allVars(producer_loop /\ ppc = "reload" /\ read_cache' = read)
    /\ SF_allVars(consumer_pop /\ cpc = "reload" /\ write_cache' = write)
    /\ SF_allVars(load_done /\ saw_done' = done)

FairBenchSpec == BenchSpec /\ BenchFairness
-----------------------------------------------------------------------------
(* Properties. *)

\* The benchmark ends, and the consumer does not give up too early: it has seen
\* every number when it leaves its loop.  A failed pop, the flag and the second pop
\* are three looks at two variables that the producer moves in between.
BenchEnds == <>(done /\ loop = "exited" /\ seen = Count)
=============================================================================
