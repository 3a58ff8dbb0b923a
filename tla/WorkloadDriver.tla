--------------------------- MODULE WorkloadDriver ---------------------------
(***************************************************************************)
(* WorkloadDriver: for every driver a run thread that pulls operations from *)
(* a stream and applies them to a client, and an owner that calls Start,    *)
(* Stop and the destructor.  Drivers may share a QpsController, whose       *)
(* operations and state come from module QpsController.  Streams may be     *)
(* endless; operations, counters and samples are left out.                  *)
(***************************************************************************)
EXTENDS QpsController

CONSTANTS
  Driver,
  Controlled,   \* drivers that have a QpsController (they share one)
  Fails         \* what may return an error: Start, Apply, Stop, Stream

ASSUME DriverAssumption ==
  /\ NoCaller \notin Driver
  /\ Controlled \subseteq Driver
  /\ Fails \subseteq {"Start", "Apply", "Stop", "Stream"}

VARIABLES
  terminated, running,
  app,      \* the owner: idle, starting, stopping, joining, gone, threw
  ret,      \* what its last call returned
  run,      \* the run thread
  status,   \* its result, so far
  future,   \* run_status_: none, pending, ready, taken
  client    \* the client adaptor: new, active, stopped

ownerVars == <<app, ret>>
runVars == <<run, status, client>>
vars == <<terminated, running, future, ownerVars, runVars, bucketVars>>

Statuses == {"OK", "StartError", "ApplyError", "StopError", "StreamError"}

\* Program counters and flags have their ranges; the end of a stream is never
\* the status of a run.
TypeOK ==
  /\ terminated \in [Driver -> BOOLEAN] /\ running \in [Driver -> BOOLEAN]
  /\ app \in [Driver -> {"idle", "starting", "stopping", "joining", "gone", "threw"}]
  /\ ret \in [Driver -> {"none", "OK", "Unavailable"}]
  /\ run \in [Driver -> {"none", "start", "check", "wait", "waiting", "next",
                         "apply", "clientStop", "done"}]
  /\ status \in [Driver -> Statuses]
  /\ future \in [Driver -> {"none", "pending", "ready", "taken"}]
  /\ client \in [Driver -> {"new", "active", "stopped"}]
  /\ mutex \in Driver \cup {NoCaller} /\ tokens \in Nat /\ elapsed \in 0 .. MaxElapsed

Init ==
  /\ terminated = [d \in Driver |-> FALSE] /\ running = [d \in Driver |-> FALSE]
  /\ app = [d \in Driver |-> "idle"] /\ ret = [d \in Driver |-> "none"]
  /\ run = [d \in Driver |-> "none"] /\ status = [d \in Driver |-> "OK"]
  /\ future = [d \in Driver |-> "none"] /\ client = [d \in Driver |-> "new"]
  /\ BucketInit

Goto(d, label) == run' = [run EXCEPT ![d] = label]
AppGoto(d, label) == app' = [app EXCEPT ![d] = label]
Returns(d, s) == ret' = [ret EXCEPT ![d] = s]

-----------------------------------------------------------------------------
(* The owner.  It starts a driver once, and destroys what it has started.  *)

\* Create the thread, then spin until it runs.
Start(d) ==
  /\ app[d] = "idle" /\ ~terminated[d] /\ run[d] = "none"
  /\ future' = [future EXCEPT ![d] = "pending"]
  /\ Goto(d, "start")
  /\ AppGoto(d, "starting")
  /\ UNCHANGED <<terminated, running, ret, status, client, bucketVars>>

StartReturn(d) ==
  /\ app[d] = "starting" /\ running[d]
  /\ AppGoto(d, "idle") /\ Returns(d, "OK")
  /\ UNCHANGED <<terminated, running, future, runVars, bucketVars>>

\* Start and Stop of a driver that has been terminated.
RefusedCall(d) ==
  /\ app[d] = "idle" /\ terminated[d]
  /\ Returns(d, "Unavailable")
  /\ UNCHANGED <<terminated, running, future, app, runVars, bucketVars>>

Stop(d) ==
  /\ app[d] = "idle" /\ ~terminated[d] /\ run[d] # "none"
  /\ terminated' = [terminated EXCEPT ![d] = TRUE]
  /\ AppGoto(d, "stopping")
  /\ UNCHANGED <<running, future, ret, runVars, bucketVars>>

\* Mutant of StopReturn: the thread is not waited for.
StopReturnsAtOnce(d) ==
  /\ app[d] = "stopping"
  /\ AppGoto(d, "idle") /\ Returns(d, "OK")
  /\ UNCHANGED <<terminated, running, future, runVars, bucketVars>>

\* The future is ready.  It is asked for the status, which empties it, and asked
\* again when that is an error, which throws.
StopReturn(d) ==
  /\ app[d] = "stopping" /\ future[d] = "ready"
  /\ future' = [future EXCEPT ![d] = "taken"]
  /\ \/ status[d] = "OK" /\ AppGoto(d, "idle") /\ Returns(d, "OK")
     \/ status[d] # "OK" /\ AppGoto(d, "threw") /\ UNCHANGED ret
  /\ UNCHANGED <<terminated, running, runVars, bucketVars>>

Destroy(d) ==
  /\ app[d] = "idle" /\ run[d] # "none"
  /\ terminated' = [terminated EXCEPT ![d] = TRUE]
  /\ AppGoto(d, "joining")
  /\ UNCHANGED <<running, future, ret, runVars, bucketVars>>

DestroyReturn(d) ==
  /\ app[d] = "joining" /\ run[d] = "done"
  /\ AppGoto(d, "gone")
  /\ UNCHANGED <<terminated, running, future, ret, runVars, bucketVars>>

-----------------------------------------------------------------------------
(* Run                                                                     *)

\* client_->Start(); an error is returned before running_ is set.
RunStart(d) ==
  /\ run[d] = "start"
  /\ \/ /\ client' = [client EXCEPT ![d] = "active"]
        /\ running' = [running EXCEPT ![d] = TRUE]
        /\ Goto(d, "check")
        /\ UNCHANGED <<status, future>>
     \/ /\ "Start" \in Fails
        /\ status' = [status EXCEPT ![d] = "StartError"]
        /\ future' = [future EXCEPT ![d] = "ready"]
        /\ Goto(d, "done")
        /\ UNCHANGED <<client, running>>
  /\ UNCHANGED <<terminated, ownerVars, bucketVars>>

\* while (!terminated_)
RunCheck(d) ==
  /\ run[d] = "check"
  /\ Goto(d, IF terminated[d] THEN "clientStop"
             ELSE IF d \in Controlled THEN "wait" ELSE "next")
  /\ UNCHANGED <<terminated, running, future, ownerVars, status, client, bucketVars>>

\* qps_controller_->Wait(): its mutex is taken, and released with a token.
WaitEnter(d) ==
  /\ run[d] = "wait" /\ Enter(d)
  /\ Goto(d, "waiting")
  /\ UNCHANGED <<terminated, running, future, ownerVars, status, client>>

WaitSpin(d) ==
  /\ run[d] = "waiting" /\ Spin(d)
  /\ UNCHANGED <<terminated, running, future, ownerVars, runVars>>

WaitLeave(d) ==
  /\ run[d] = "waiting" /\ Leave(d)
  /\ Goto(d, "next")
  /\ UNCHANGED <<terminated, running, future, ownerVars, status, client>>

ClockTick == Tick /\ UNCHANGED <<terminated, running, future, ownerVars, runVars>>

\* An operation, the end of the stream, or an error.
RunNext(d) ==
  /\ run[d] = "next"
  /\ \/ Goto(d, "apply") /\ UNCHANGED status
     \/ Goto(d, "clientStop") /\ UNCHANGED status
     \/ /\ "Stream" \in Fails
        /\ status' = [status EXCEPT ![d] = "StreamError"]
        /\ Goto(d, "clientStop")
  /\ UNCHANGED <<terminated, running, future, ownerVars, client, bucketVars>>

\* Mutant of RunApply: an error is returned from where it is.
ReturnsApplyError(d) ==
  /\ run[d] = "apply"
  /\ \/ Goto(d, "check") /\ UNCHANGED <<status, future>>
     \/ /\ "Apply" \in Fails
        /\ status' = [status EXCEPT ![d] = "ApplyError"]
        /\ future' = [future EXCEPT ![d] = "ready"]
        /\ Goto(d, "done")
  /\ UNCHANGED <<terminated, running, ownerVars, client, bucketVars>>

RunApply(d) ==
  /\ run[d] = "apply"
  /\ \/ Goto(d, "check") /\ UNCHANGED status
     \/ /\ "Apply" \in Fails
        /\ status' = [status EXCEPT ![d] = "ApplyError"]
        /\ Goto(d, "clientStop")
  /\ UNCHANGED <<terminated, running, future, ownerVars, client, bucketVars>>

\* status = client_->Stop(), whatever status was; the future becomes ready.
RunClientStop(d) ==
  /\ run[d] = "clientStop"
  /\ client' = [client EXCEPT ![d] = "stopped"]
  /\ \E s \in {"OK"} \cup (IF "Stop" \in Fails THEN {"StopError"} ELSE {}) :
       status' = [status EXCEPT ![d] = s]
  /\ future' = [future EXCEPT ![d] = "ready"]
  /\ Goto(d, "done")
  /\ UNCHANGED <<terminated, running, ownerVars, bucketVars>>

-----------------------------------------------------------------------------

OwnerStep(d) == StartReturn(d) \/ StopReturn(d) \/ DestroyReturn(d)
RunStep(d) == \/ RunStart(d) \/ RunCheck(d) \/ WaitLeave(d) \/ RunNext(d)
              \/ RunApply(d) \/ RunClientStop(d)

Next == ClockTick \/ \E d \in Driver :
  \/ Start(d) \/ StartReturn(d) \/ RefusedCall(d) \/ Stop(d) \/ StopReturn(d)
  \/ Destroy(d) \/ DestroyReturn(d)
  \/ RunStart(d) \/ RunCheck(d) \/ WaitEnter(d) \/ WaitSpin(d) \/ WaitLeave(d) \/ RunNext(d)
  \/ RunApply(d) \/ RunClientStop(d)

Spec == Init /\ [][Next]_vars

\* Threads run, the client's calls return, time passes, and absl::Mutex lets
\* everybody in who queues for it.
FairSpec ==
  /\ Spec /\ WF_vars(ClockTick)
  /\ \A d \in Driver : /\ WF_vars(OwnerStep(d)) /\ WF_vars(RunStep(d))
                       /\ SF_vars(WaitEnter(d))

-----------------------------------------------------------------------------

\* "After joining the thread, it is guaranteed that no new operations are
\* passed to the client": once Stop, or the destructor, has returned, the run
\* thread is over, wherever it was when it was told to stop.
QuietAfterStop ==
  \A d \in Driver :
    terminated[d] /\ app[d] \in {"idle", "gone"} => run[d] = "done"

\* A client that has been started is stopped before the thread ends, on every
\* way out of the loop.
StartedClientIsStopped ==
  \A d \in Driver : run[d] = "done" => client[d] # "active"

\* Start returns unless the client's Start has failed, which leaves its caller
\* waiting for running_; Stop and the destructor return (Stop by an exception
\* after a failed run), with an endless stream too, and with another driver that
\* keeps using the controller.
OwnerReturns ==
  \A d \in Driver :
    /\ app[d] = "starting" ~> app[d] # "starting" \/ status[d] = "StartError"
    /\ app[d] \in {"stopping", "joining"} ~> app[d] \in {"idle", "gone", "threw"}
=============================================================================
