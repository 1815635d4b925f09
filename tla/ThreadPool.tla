----------------------------- MODULE ThreadPool -----------------------------
(***************************************************************************)
(* rdb::ThreadPool (concurrency/thread_pool.h), built on BoundedQueue with *)
(* its waits and wakeups: Consumers are the workers, Producers the threads *)
(* that post, Closers the threads that call stop() (the destructor calls   *)
(* stop(true)).  A worker that is also a producer posts from its tasks.    *)
(* The n-th task posted is the value n.                                    *)
(***************************************************************************)
EXTENDS BoundedQueue, SequencesExt

\* The constructor starts one worker when it is asked for none.
ASSUME WorkersAssumption == Consumers # {} /\ Consumers \cap Closers = {}

VARIABLES
    stopping,   \* stopping_, with the argument of the stop() that set it
    spc,        \* where stop() is, by calling thread
    wpc, task,  \* where run() is, by worker, and the task in its hands
    completed,  \* completed_
    \* history
    submitted,  \* tasks behind a future
    finished,   \* tasks whose call has returned
    discarded   \* tasks that clear() destroyed: their futures are broken

stopVars == <<stopping, spc>>
runVars  == <<wpc, task, completed>>
taskVars == <<submitted, finished, discarded>>
poolVars == <<vars, stopVars, runVars, taskVars>>

PoolInit ==
    /\ Init /\ q.policy = "Block"
    /\ stopping = "no" /\ spc = [k \in Closers |-> "idle"]
    /\ wpc = [w \in Consumers |-> "pop"] /\ task = [w \in Consumers |-> 0]
    /\ completed = 0
    /\ submitted = {} /\ finished = {} /\ discarded = {}

-----------------------------------------------------------------------------
(* post, try_post and submit. *)

\* A worker posts from inside a task only.
MayPost(p) == p \in Consumers => wpc[p] = "task"

post(p) ==
    /\ MayPost(p) /\ push_until(p, "push")
    /\ UNCHANGED <<stopVars, runVars, taskVars>>

try_post(p) ==
    /\ MayPost(p) /\ push_until(p, "try_push")
    /\ UNCHANGED <<stopVars, runVars, taskVars>>

\* post() with a packaged_task.  The future is given to the caller if post()
\* succeeds, and dropped otherwise.
submit(p) ==
    /\ MayPost(p) /\ push_until(p, "push")
    /\ submitted' = submitted \cup {issued'}
    /\ UNCHANGED <<stopVars, runVars, finished, discarded>>

\* A post() that waited for a free slot goes on.
post_resumes(p) ==
    /\ wait_for_space(p)
    /\ UNCHANGED <<stopVars, runVars, taskVars>>

-----------------------------------------------------------------------------
(* run: the loop of a worker. *)

\* Variant: a worker throws away what it takes once the pool is stopping.
RunDropsTask(w) ==
    LET taken == popped' > popped IN
    /\ wpc[w] = "pop" /\ (pop_until(w, "pop") \/ wait_for_item(w))
    /\ task' = [task EXCEPT ![w] = IF taken THEN Head(q.items) ELSE 0]
    /\ wpc' = [wpc EXCEPT ![w] = IF taken /\ stopping = "no" THEN "task" ELSE
                                 IF ~taken /\ cpc'[w] = "idle" THEN "exited" ELSE @]
    /\ UNCHANGED <<stopVars, completed, taskVars>>

\* queue_.pop(): a task, or the end of a closed and drained queue, or a wait.
run(w) ==
    LET taken == popped' > popped IN
    /\ wpc[w] = "pop" /\ (pop_until(w, "pop") \/ wait_for_item(w))
    /\ task' = [task EXCEPT ![w] = IF taken THEN Head(q.items) ELSE 0]
    /\ wpc' = [wpc EXCEPT ![w] = IF taken THEN "task" ELSE
                                 IF cpc'[w] = "idle" THEN "exited" ELSE @]
    /\ UNCHANGED <<stopVars, completed, taskVars>>

\* (*task)() returns, which makes the future of a submitted task ready.
task_returns(w) ==
    /\ wpc[w] = "task" /\ (w \in Producers => ppc[w] = "idle")
    /\ wpc' = [wpc EXCEPT ![w] = "count"]
    /\ finished' = finished \cup {task[w]}
    /\ UNCHANGED <<vars, stopVars, task, completed, submitted, discarded>>

count_completed(w) ==
    /\ wpc[w] = "count"
    /\ completed' = completed + 1
    /\ wpc' = [wpc EXCEPT ![w] = "pop"] /\ task' = [task EXCEPT ![w] = 0]
    /\ UNCHANGED <<vars, stopVars, taskVars>>

-----------------------------------------------------------------------------
(* stop *)

\* The exchange of stopping_: only the first caller goes on.
stop(k, drain) ==
    /\ spc[k] = "idle"
    /\ \/ /\ stopping = "no"
          /\ stopping' = IF drain THEN "drain" ELSE "discard"
          /\ spc' = [spc EXCEPT ![k] = IF drain THEN "close" ELSE "clear"]
       \/ /\ stopping # "no"
          /\ spc' = [spc EXCEPT ![k] = "ignored"] /\ UNCHANGED stopping
    /\ UNCHANGED <<vars, runVars, taskVars>>

stop_clear(k) ==
    /\ spc[k] = "clear" /\ clear
    /\ spc' = [spc EXCEPT ![k] = "close"]
    /\ discarded' = discarded \cup ToSet(q.items)
    /\ UNCHANGED <<stopping, runVars, submitted, finished>>

\* queue_.close(), in the three steps of BoundedQueue.
stop_close(k) ==
    /\ \/ spc[k] = "close" /\ close(k)
       \/ spc[k] = "notify" /\ (close_notify_empty(k) \/ close_notify_full(k))
    /\ spc' = [spc EXCEPT ![k] = IF kpc'[k] = "idle" THEN "join" ELSE "notify"]
    /\ UNCHANGED <<stopping, runVars, taskVars>>

\* Variant: the workers are not waited for.
StopWithoutJoin(k) ==
    /\ spc[k] = "join"
    /\ spc' = [spc EXCEPT ![k] = "returned"]
    /\ UNCHANGED <<vars, stopping, runVars, taskVars>>

\* Every worker is joined.
stop_join(k) ==
    /\ spc[k] = "join" /\ \A w \in Consumers : wpc[w] = "exited"
    /\ spc' = [spc EXCEPT ![k] = "returned"]
    /\ UNCHANGED <<vars, stopping, runVars, taskVars>>

Stopping(k) == stop_clear(k) \/ stop_close(k) \/ stop_join(k)

PoolNext ==
    \/ \E p \in Producers : post(p) \/ try_post(p) \/ submit(p) \/ post_resumes(p)
    \/ \E w \in Consumers : run(w) \/ task_returns(w) \/ count_completed(w)
    \/ \E k \in Closers : Stopping(k) \/ \E drain \in BOOLEAN : stop(k, drain)
    \/ SpuriousWakeup /\ UNCHANGED <<stopVars, runVars, taskVars>>

PoolSpec == PoolInit /\ [][PoolNext]_poolVars

\* A thread inside the pool or the queue is scheduled.  Nobody has to post or
\* to stop, and a task may stay in user code for ever.
PoolFairness ==
    /\ \A p \in Producers : WF_poolVars(post_resumes(p))
    /\ \A w \in Consumers : WF_poolVars(run(w) \/ count_completed(w))
    /\ \A k \in Closers : WF_poolVars(Stopping(k))

FairPoolSpec == PoolSpec /\ PoolFairness
-----------------------------------------------------------------------------
(* Properties. *)

\* Every member has its type.
PoolTypeOK ==
    /\ TypeOK
    /\ stopping \in {"no", "drain", "discard"}
    /\ spc \in [Closers -> {"idle", "clear", "close", "notify", "join", "returned", "ignored"}]
    /\ wpc \in [Consumers -> {"pop", "task", "count", "exited"}]
    /\ task \in [Consumers -> 0..MaxPush] /\ completed \in 0..MaxPush
    /\ UNION {submitted, finished, discarded} \subseteq Ids

\* A task that post() accepted is in exactly one place: queued, in the hands of
\* one worker, finished, or discarded by stop(false).  None runs twice, none
\* runs after it was discarded, none disappears, whatever a producer stores
\* between the clear() and the close() of stop(false).
TasksOnce ==
    /\ PoolTypeOK
    /\ \A n \in ToSet(accepted) :
         LET places == <<n \in ToSet(q.items), n \in finished, n \in discarded,
                         \E w \in Consumers : wpc[w] = "task" /\ task[w] = n>>
         IN  /\ \E i \in DOMAIN places : places[i]
             /\ \A i, j \in DOMAIN places : places[i] /\ places[j] => i = j

\* When the stop() that did the work has returned, the pool is at rest: no worker
\* runs, nothing is queued, each accepted task ran to its end and is counted or
\* was discarded, and stop(true) discarded none.
StoppedMeansDone ==
    (\E k \in Closers : spc[k] = "returned") =>
        /\ \A w \in Consumers : wpc[w] = "exited"
        /\ ToSet(accepted) = finished \cup discarded
        /\ completed = Cardinality(finished)
        /\ stopping = "drain" => discarded = {}

\* Tasks end, but for those that wait in a post() of their own.
TasksReturn ==
    \A w \in Consumers : []<>(wpc[w] # "task" \/ (w \in Producers /\ ppc[w] # "idle"))

\* The deadlock that tasks can bring on the pool: all workers wait for a free slot.
WorkersStuck == \A w \in Consumers : w \in Producers /\ ppc[w] = "wait"

\* Every future that submit() handed out becomes ready or broken, unless the
\* tasks block all workers by posting to their own full pool.
FuturesSettle ==
    TasksReturn =>
        \A n \in Ids : (n \in submitted /\ outcome[n] = "Ok")
                          ~> (n \in finished \cup discarded \/ WorkersStuck)

\* stop() returns, from that deadlock too: close() wakes the workers, whose
\* post() is refused, and the queue drains.  Whatever the tasks do, no thread
\* stays blocked on the closed queue.
PoolStopReturns ==
    /\ CloseReleasesAll
    /\ TasksReturn =>
         \A k \in Closers : spc[k] # "idle" ~> spc[k] \in {"returned", "ignored"}
=============================================================================
