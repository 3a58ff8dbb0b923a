----------------------------- MODULE ThreadPool -----------------------------
(***************************************************************************)
(* util::ThreadPool: workers that take tasks from a queue under a mutex,   *)
(* one application thread that drains, stops and destroys the pool, and    *)
(* tasks that come from anywhere.                                          *)
(***************************************************************************)
EXTENDS Naturals, Sequences, FiniteSets

CONSTANTS
  Worker,   \* hardware_concurrency() threads
  Task,     \* tasks; each is enqueued once at most
  NoTask

ASSUME PoolAssumption == NoTask \notin Task

VARIABLES
  tasks, stopped,
  wpc,       \* a worker: check, pop, sleep, run, exited
  wtask,     \* the task it has taken
  accepted,  \* tasks Enqueue has returned OK for
  done,      \* how often a task has been run
  drain,     \* Drain: idle, spinning, returned
  dtor       \* the destructor: alive, joining, gone

workerVars == <<wpc, wtask, done>>
vars == <<tasks, stopped, workerVars, accepted, drain, dtor>>

\* The queue holds tasks and a worker has one exactly while it runs it.
TypeOK ==
  /\ tasks \in Seq(Task) /\ stopped \in BOOLEAN
  /\ wpc \in [Worker -> {"check", "pop", "sleep", "run", "exited"}]
  /\ wtask \in [Worker -> Task \cup {NoTask}]
  /\ \A w \in Worker : wpc[w] = "run" <=> wtask[w] # NoTask
  /\ accepted \subseteq Task /\ done \in [Task -> Nat]
  /\ drain \in {"idle", "spinning", "returned"}
  /\ dtor \in {"alive", "joining", "gone"}

Init ==
  /\ tasks = <<>> /\ stopped = FALSE
  /\ wpc = [w \in Worker |-> "check"] /\ wtask = [w \in Worker |-> NoTask]
  /\ accepted = {} /\ done = [t \in Task |-> 0]
  /\ drain = "idle" /\ dtor = "alive"

-----------------------------------------------------------------------------
(* Calls                                                                   *)

\* drain_ is never set, so nothing is refused.
Enqueue(t) ==
  /\ dtor = "alive" /\ t \notin accepted
  /\ tasks' = Append(tasks, t)
  /\ accepted' = accepted \cup {t}
  /\ UNCHANGED <<stopped, workerVars, drain, dtor>>

Stop ==
  /\ dtor = "alive" /\ drain # "spinning" /\ ~stopped
  /\ stopped' = TRUE
  /\ UNCHANGED <<tasks, workerVars, accepted, drain, dtor>>

Drain ==
  /\ dtor = "alive" /\ drain = "idle"
  /\ drain' = "spinning"
  /\ UNCHANGED <<tasks, stopped, workerVars, accepted, dtor>>

\* The loop reads tasks_ without the mutex and has no effect: it ends when the
\* queue is empty, or at once when the compiler has left it out.
DrainReturn ==
  /\ drain = "spinning"
  /\ drain' = "returned" /\ stopped' = TRUE
  /\ UNCHANGED <<tasks, workerVars, accepted, dtor>>

Destroy ==
  /\ dtor = "alive" /\ drain # "spinning"
  /\ dtor' = "joining"
  /\ UNCHANGED <<tasks, stopped, workerVars, accepted, drain>>

DestroyReturn ==
  /\ dtor = "joining" /\ \A w \in Worker : wpc[w] = "exited"
  /\ dtor' = "gone"
  /\ UNCHANGED <<tasks, stopped, workerVars, accepted, drain>>

-----------------------------------------------------------------------------
(* RunThread                                                               *)

\* while (!stopped_)
WorkerCheck(w) ==
  /\ wpc[w] = "check"
  /\ wpc' = [wpc EXCEPT ![w] = IF stopped THEN "exited" ELSE "pop"]
  /\ UNCHANGED <<tasks, stopped, wtask, done, accepted, drain, dtor>>

\* Mutant of WorkerPop: the task is read and left where it is.
PopKeepsTask(w) ==
  /\ wpc[w] = "pop" /\ tasks # <<>>
  /\ wtask' = [wtask EXCEPT ![w] = Head(tasks)]
  /\ wpc' = [wpc EXCEPT ![w] = "run"]
  /\ UNCHANGED <<tasks, stopped, done, accepted, drain, dtor>>

\* Under the mutex: take the first task ...
WorkerPop(w) ==
  /\ wpc[w] = "pop" /\ tasks # <<>>
  /\ wtask' = [wtask EXCEPT ![w] = Head(tasks)]
  /\ tasks' = Tail(tasks)
  /\ wpc' = [wpc EXCEPT ![w] = "run"]
  /\ UNCHANGED <<stopped, done, accepted, drain, dtor>>

\* Mutant of WorkerEmpty: a worker that finds nothing ends.
EmptyEnds(w) ==
  /\ wpc[w] = "pop" /\ tasks = <<>>
  /\ wpc' = [wpc EXCEPT ![w] = "exited"]
  /\ UNCHANGED <<tasks, stopped, wtask, done, accepted, drain, dtor>>

\* ... or find that there is none, and sleep.
WorkerEmpty(w) ==
  /\ wpc[w] = "pop" /\ tasks = <<>>
  /\ wpc' = [wpc EXCEPT ![w] = "sleep"]
  /\ UNCHANGED <<tasks, stopped, wtask, done, accepted, drain, dtor>>

\* Mutant of WorkerWake: it goes back to the queue and not to the flag.
WakesToQueue(w) ==
  /\ wpc[w] = "sleep"
  /\ wpc' = [wpc EXCEPT ![w] = "pop"]
  /\ UNCHANGED <<tasks, stopped, wtask, done, accepted, drain, dtor>>

WorkerWake(w) ==
  /\ wpc[w] = "sleep"
  /\ wpc' = [wpc EXCEPT ![w] = "check"]
  /\ UNCHANGED <<tasks, stopped, wtask, done, accepted, drain, dtor>>

\* task.second(), without the mutex.
WorkerRun(w) ==
  /\ wpc[w] = "run"
  /\ done' = [done EXCEPT ![wtask[w]] = @ + 1]
  /\ wtask' = [wtask EXCEPT ![w] = NoTask]
  /\ wpc' = [wpc EXCEPT ![w] = "check"]
  /\ UNCHANGED <<tasks, stopped, accepted, drain, dtor>>

-----------------------------------------------------------------------------

WorkerStep(w) == \/ WorkerCheck(w) \/ WorkerPop(w) \/ WorkerEmpty(w)
                 \/ WorkerWake(w) \/ WorkerRun(w)

Next ==
  \/ \E t \in Task : Enqueue(t)
  \/ Stop \/ Drain \/ DrainReturn \/ Destroy \/ DestroyReturn
  \/ \E w \in Worker : \/ WorkerCheck(w) \/ WorkerPop(w) \/ WorkerEmpty(w)
                       \/ WorkerWake(w) \/ WorkerRun(w)

Spec == Init /\ [][Next]_vars

\* Workers run, and so does the destructor; nobody has to stop the pool.
FairSpec ==
  Spec /\ WF_vars(DestroyReturn) /\ \A w \in Worker : WF_vars(WorkerStep(w))

-----------------------------------------------------------------------------

Copies(t) ==
  Cardinality({k \in 1 .. Len(tasks) : tasks[k] = t}) +
  Cardinality({w \in Worker : wtask[w] = t}) + done[t]

\* A task that was accepted is in one place: in the queue, with one worker, or
\* done; it is neither lost nor run twice, with many workers and also while the
\* pool is stopped.
EveryTaskOnce == \A t \in accepted : Copies(t) = 1

\* A task that was accepted runs, unless the pool is stopped before.
TasksRun == \A t \in Task : t \in accepted ~> done[t] = 1 \/ stopped

\* The destructor of a pool that has been stopped returns.
DestructorReturns == dtor = "joining" /\ stopped ~> dtor = "gone"
=============================================================================
