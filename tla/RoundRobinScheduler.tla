------------------------ MODULE RoundRobinScheduler ------------------------
(***************************************************************************)
(* util::RoundRobinScheduler: a circular, doubly linked list of coroutines *)
(* that one thread resumes in turn.  Coroutines are scheduled before Run   *)
(* and by coroutines while they run; another thread may cancel.  The       *)
(* broker runs its event loop as a coroutine of such a scheduler.          *)
(***************************************************************************)
EXTENDS Integers, FiniteSets

CONSTANTS
  Coro,     \* coroutines
  Null,
  Resumes   \* [Coro -> Nat]: how often a coroutine is resumed until it is done

ASSUME SchedulerAssumption ==
  /\ Null \notin Coro
  /\ Resumes \in [Coro -> Nat]

VARIABLES
  next, prev,       \* links of the wrappers
  curr, last,       \* curr_, last_
  task_count, canceled,
  listed,           \* coroutines whose wrapper exists
  left,             \* resumes left; handle.done() when there are none
  running,          \* Run has been called
  cancel,           \* Cancel: idle, spinning, returned
  passed            \* who was resumed since a coroutine last had its turn

links == <<next, prev, curr, last, task_count, listed>>
vars == <<links, canceled, left, running, cancel, passed>>

\* Links lead from wrappers that exist to wrappers that exist.
TypeOK ==
  /\ next \in [Coro -> Coro \cup {Null}] /\ prev \in [Coro -> Coro \cup {Null}]
  /\ curr \in listed \cup {Null} /\ last \in listed \cup {Null}
  /\ \A c \in listed : next[c] \in listed /\ prev[c] \in listed
  /\ task_count \in Nat /\ canceled \in BOOLEAN /\ running \in BOOLEAN
  /\ listed \subseteq Coro /\ left \in [Coro -> Int]
  /\ cancel \in {"idle", "spinning", "returned"}
  /\ passed \in [Coro -> SUBSET Coro]

Init ==
  /\ next = [c \in Coro |-> Null] /\ prev = [c \in Coro |-> Null]
  /\ curr = Null /\ last = Null /\ task_count = 0 /\ listed = {}
  /\ canceled = FALSE /\ running = FALSE /\ cancel = "idle"
  /\ left = Resumes /\ passed = [c \in Coro |-> {}]

-----------------------------------------------------------------------------

\* A coroutine that has not been scheduled yet.
Fresh(c) == c \notin listed /\ left[c] = Resumes[c] /\ next[c] = Null

\* What Schedule(c) does to the list: c goes behind last_.
Link(c) ==
  /\ IF curr = Null
       THEN /\ next' = [next EXCEPT ![c] = c]
            /\ prev' = [prev EXCEPT ![c] = c]
       ELSE /\ next' = [next EXCEPT ![c] = next[last], ![last] = c]
            /\ prev' = [prev EXCEPT ![c] = last, ![next[last]] = c]
  /\ last' = c
  /\ listed' = listed \cup {c}
  /\ task_count' = task_count + 1

\* Schedule(c) before Run.
Schedule(c) ==
  /\ ~running /\ Fresh(c) /\ ~canceled
  /\ Link(c)
  /\ curr' = IF curr = Null THEN c ELSE curr
  /\ UNCHANGED <<canceled, left, running, cancel, passed>>

\* Run is called with something to run.
Run ==
  /\ ~running /\ curr # Null
  /\ running' = TRUE
  /\ UNCHANGED <<links, canceled, left, cancel, passed>>

\* Who has been passed by whom, after x has had its turn.
Passed(x) == [c \in Coro |-> IF c = x THEN {}
                             ELSE IF c \in listed THEN passed[c] \cup {x}
                             ELSE passed[c]]

\* Mutant of Advance: it goes on behind last_.
AdvanceFromLast(nx) == IF nx[last] = curr THEN nx[curr] ELSE nx[last]

\* curr_ = curr_->next, with the links as they are after the resume.
Advance(nx) == nx[curr]

\* resume() of a coroutine that suspends again, or ends, and schedules nothing.
RunResume ==
  /\ running /\ curr # Null /\ left[curr] > 0
  /\ left' = [left EXCEPT ![curr] = @ - 1]
  /\ passed' = Passed(curr)
  /\ curr' = Advance(next)
  /\ UNCHANGED <<next, prev, last, task_count, listed, canceled, running, cancel>>

\* The same, and it has called Schedule(c) before.
RunResumeSchedules(c) ==
  /\ running /\ curr # Null /\ left[curr] > 0
  /\ Fresh(c) /\ ~canceled
  /\ Link(c)
  /\ left' = [left EXCEPT ![curr] = @ - 1]
  /\ passed' = Passed(curr)
  /\ curr' = Advance(next')
  /\ UNCHANGED <<canceled, running, cancel>>

Done(c) == left[c] = 0

\* Mutant of RunLast: the end is told from task_count_, before it is lowered.
EndsAtCountZero ==
  /\ running /\ curr # Null /\ Done(curr) /\ task_count = 0
  /\ task_count' = task_count - 1 /\ listed' = listed \ {curr}
  /\ last' = Null /\ curr' = Null
  /\ UNCHANGED <<next, prev, canceled, left, running, cancel, passed>>

\* The coroutine is done and no other is left: Run returns.
RunLast ==
  /\ running /\ curr # Null /\ Done(curr) /\ next[curr] = curr
  /\ task_count' = task_count - 1 /\ listed' = listed \ {curr}
  /\ last' = Null /\ curr' = Null
  /\ UNCHANGED <<next, prev, canceled, left, running, cancel, passed>>

\* Mutant of RunUnlink: the predecessor is not told.
UnlinkHalf ==
  /\ running /\ curr # Null /\ Done(curr) /\ next[curr] # curr
  /\ prev' = [prev EXCEPT ![next[curr]] = prev[curr]]
  /\ last' = IF last = curr THEN prev[curr] ELSE last
  /\ curr' = next[curr]
  /\ task_count' = task_count - 1 /\ listed' = listed \ {curr}
  /\ UNCHANGED <<next, canceled, left, running, cancel, passed>>

\* Otherwise its wrapper is unlinked and deleted.
RunUnlink ==
  /\ running /\ curr # Null /\ Done(curr) /\ next[curr] # curr
  /\ next' = [next EXCEPT ![prev[curr]] = next[curr]]
  /\ prev' = [prev EXCEPT ![next[curr]] = prev[curr]]
  /\ last' = IF last = curr THEN prev[curr] ELSE last
  /\ curr' = next[curr]
  /\ task_count' = task_count - 1 /\ listed' = listed \ {curr}
  /\ UNCHANGED <<canceled, left, running, cancel, passed>>

\* Cancel, on another thread.
Cancel ==
  /\ cancel = "idle"
  /\ canceled' = TRUE /\ cancel' = "spinning"
  /\ UNCHANGED <<links, left, running, passed>>

\* Its loop reads curr_, which is not atomic, and has no effect: it ends when
\* curr_ is null, or at once when the compiler has left it out.
CancelReturn ==
  /\ cancel = "spinning"
  /\ cancel' = "returned"
  /\ UNCHANGED <<links, canceled, left, running, passed>>

RunStep == RunResume \/ RunLast \/ RunUnlink \/ \E c \in Coro : RunResumeSchedules(c)

Next ==
  \/ \E c \in Coro : Schedule(c) \/ RunResumeSchedules(c)
  \/ Run \/ RunResume \/ RunLast \/ RunUnlink
  \/ Cancel \/ CancelReturn

Spec == Init /\ [][Next]_vars

FairSpec == Spec /\ WF_vars(RunStep)

-----------------------------------------------------------------------------

\* The wrapper that is k links away from curr_.
Walk[k \in Nat] == IF k = 0 THEN curr ELSE next[Walk[k - 1]]

\* The list is one circle: from curr_ its links lead through every wrapper that
\* exists and back, in both directions, task_count_ counts them, and last_ is
\* one of them, after any order of insertions and deletions.
OneCircle ==
  /\ task_count = Cardinality(listed)
  /\ (curr = Null) <=> (listed = {})
  /\ listed # {} =>
       /\ last \in listed
       /\ listed = {Walk[k] : k \in 0 .. task_count - 1}
       /\ Walk[task_count] = curr
       /\ \A c \in listed : prev[next[c]] = c

\* Nobody has two turns while another coroutine that is not done waits for its
\* first or next one, whatever was scheduled in between.
NobodyOvertakes ==
  [][\A c \in listed :
       left'[c] # left[c] =>
         \A d \in listed \ {c} : left[d] > 0 => c \notin passed[d]]_vars

\* Run returns once all coroutines are done, those they scheduled included.
RunReturns == running ~> curr = Null
=============================================================================
