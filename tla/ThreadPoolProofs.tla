-------------------------- MODULE ThreadPoolProofs --------------------------
(***************************************************************************)
(* No task is lost or run twice, for every set of workers and of tasks.    *)
(***************************************************************************)
EXTENDS ThreadPool, FiniteSetTheorems, TLAPS

Place == 1 .. Len(tasks)

\* A task that nobody has enqueued is nowhere.
NoStrangers ==
  \A t \in Task \ accepted :
    done[t] = 0 /\ (\A k \in Place : tasks[k] # t) /\ (\A w \in Worker : wtask[w] # t)

\* No task is in two places.
NoDuplicates ==
  /\ \A j, k \in Place : tasks[j] = tasks[k] => j = k
  /\ \A v, w \in Worker : wtask[v] = wtask[w] /\ wtask[v] # NoTask => v = w
  /\ \A k \in Place : done[tasks[k]] = 0 /\ \A w \in Worker : wtask[w] # tasks[k]
  /\ \A w \in Worker : wtask[w] # NoTask => done[wtask[w]] = 0

\* A task that has been accepted is somewhere.
NoLosses ==
  \A t \in accepted :
    (\E k \in Place : tasks[k] = t) \/ (\E w \in Worker : wtask[w] = t) \/ done[t] = 1

\* The inductive invariant: the multiset of tasks, told place by place.
Accounted == TypeOK /\ NoStrangers /\ NoDuplicates /\ NoLosses

-----------------------------------------------------------------------------

\* Enqueue puts the task behind the others.
LEMMA AppendPlaces ==
  ASSUME NEW s \in Seq(Task), NEW t \in Task
  PROVE  /\ Append(s, t) \in Seq(Task) /\ Len(Append(s, t)) = Len(s) + 1
         /\ Len(s) \in Nat
         /\ \A k \in 1 .. Len(s) : Append(s, t)[k] = s[k]
         /\ Append(s, t)[Len(s) + 1] = t
PROOF OBVIOUS

\* A pop moves every other task one place forward.
LEMMA TailPlaces ==
  ASSUME NEW s \in Seq(Task), s # <<>>
  PROVE  /\ Tail(s) \in Seq(Task) /\ Len(Tail(s)) = Len(s) - 1
         /\ Len(s) \in Nat /\ Len(s) > 0
         /\ \A k \in 1 .. Len(Tail(s)) : Tail(s)[k] = s[k + 1]
         /\ Head(s) = s[1] /\ Head(s) \in Task
         /\ \A k \in 1 .. Len(s) : s[k] \in Task
PROOF OBVIOUS

\* A set with one element counts one, an empty one nothing.
LEMMA CountsOne ==
  ASSUME NEW S, NEW x \in S, \A y \in S : y = x
  PROVE  Cardinality(S) = 1
<1>1. S = {x}
  OBVIOUS
<1> QED BY <1>1, FS_Singleton

LEMMA CountsNone ==
  ASSUME NEW S, \A y \in S : FALSE
  PROVE  Cardinality(S) = 0
<1>1. S = {}
  OBVIOUS
<1> QED BY <1>1, FS_EmptySet

-----------------------------------------------------------------------------

LEMMA AccountedInit ==
  ASSUME Init PROVE Accounted
<1>1. tasks = <<>> /\ Len(tasks) = 0 /\ Place = {}
  BY DEF Init, Place
<1>2. TypeOK
  <2>1. tasks \in Seq(Task)
    BY <1>1
  <2>2. /\ wpc \in [Worker -> {"check", "pop", "sleep", "run", "exited"}]
        /\ wtask \in [Worker -> Task \cup {NoTask}]
        /\ \A w \in Worker : wpc[w] = "run" <=> wtask[w] # NoTask
        /\ accepted \subseteq Task /\ done \in [Task -> Nat]
    BY DEF Init
  <2>3. stopped \in BOOLEAN
    BY Zenon DEF Init
  <2> QED BY <2>1, <2>2, <2>3, Zenon DEF Init, TypeOK
<1>3. NoStrangers /\ NoDuplicates /\ NoLosses
  BY <1>1, PoolAssumption DEF Init, NoStrangers, NoDuplicates, NoLosses
<1> QED BY <1>2, <1>3 DEF Accounted

LEMMA AccountedEnqueue ==
  ASSUME Accounted, NEW t \in Task, Enqueue(t)
  PROVE  Accounted'
<1> USE PoolAssumption DEF Accounted, Enqueue, workerVars
<1>1. /\ tasks' \in Seq(Task) /\ Len(tasks') = Len(tasks) + 1 /\ Len(tasks) \in Nat
      /\ \A k \in Place : tasks'[k] = tasks[k]
      /\ tasks'[Len(tasks) + 1] = t
  BY AppendPlaces DEF TypeOK, Place
<1>2. /\ Place \subseteq Place'
      /\ \A k \in Place' : k \in Place \/ (k = Len(tasks) + 1 /\ tasks'[k] = t)
      /\ Len(tasks) + 1 \in Place'
  BY <1>1 DEF Place
<1>3. /\ done[t] = 0 /\ (\A k \in Place : tasks[k] # t)
      /\ \A w \in Worker : wtask[w] # t
  BY DEF NoStrangers
<1>4. TypeOK'
  BY <1>1 DEF TypeOK
<1>5. NoStrangers'
  BY <1>1, <1>2 DEF NoStrangers
<1>6. NoDuplicates'
  <2> HIDE DEF Enqueue
  <2>1. UNCHANGED <<wtask, done>>
    BY DEF Enqueue
  <2>2. \A j, k \in Place' : tasks'[j] = tasks'[k] => j = k
    BY <1>1, <1>2, <1>3 DEF NoDuplicates
  <2>3. ASSUME NEW k \in Place'
        PROVE  done[tasks'[k]] = 0 /\ \A w \in Worker : wtask[w] # tasks'[k]
    <3>1. CASE k \in Place
      BY <1>1, <3>1 DEF NoDuplicates
    <3>2. CASE tasks'[k] = t
      BY <1>3, <3>2
    <3> QED BY <1>2, <3>1, <3>2
  <2> QED BY <2>1, <2>2, <2>3 DEF NoDuplicates
<1>7. NoLosses'
  <2>1. accepted' = accepted \cup {t} /\ wtask' = wtask /\ done' = done
    OBVIOUS
  <2> HIDE DEF Enqueue
  <2>2. ASSUME NEW u \in accepted
        PROVE  \/ \E k \in Place' : tasks'[k] = u
               \/ \E w \in Worker : wtask[w] = u
               \/ done[u] = 1
    <3>1. CASE \E k \in Place : tasks[k] = u
      BY <1>1, <1>2, <3>1
    <3> QED BY <3>1 DEF NoLosses
  <2>3. \E k \in Place' : tasks'[k] = t
    BY <1>1, <1>2
  <2> QED BY <2>1, <2>2, <2>3 DEF NoLosses
<1> QED BY <1>4, <1>5, <1>6, <1>7

LEMMA AccountedPop ==
  ASSUME Accounted, NEW w \in Worker, WorkerPop(w)
  PROVE  Accounted'
<1> USE PoolAssumption DEF Accounted
<1>1. /\ tasks' \in Seq(Task) /\ Len(tasks') = Len(tasks) - 1
      /\ Len(tasks) \in Nat /\ Len(tasks) > 0
      /\ \A k \in Place' : tasks'[k] = tasks[k + 1]
      /\ Head(tasks) = tasks[1] /\ Head(tasks) \in Task
      /\ \A k \in Place : tasks[k] \in Task
  BY TailPlaces DEF TypeOK, Place, WorkerPop
<1>2. /\ \A k \in Place' : k + 1 \in Place /\ k + 1 # 1
      /\ \A k \in Place : k # 1 => k - 1 \in Place' /\ tasks'[k - 1] = tasks[k]
      /\ 1 \in Place
      /\ \A j, k \in Place' : j + 1 = k + 1 => j = k
  <2>1. \A k \in Place : k # 1 => k - 1 \in Place' /\ (k - 1) + 1 = k
    BY <1>1 DEF Place
  <2>2. \A k \in Place : k # 1 => tasks'[k - 1] = tasks[k]
    BY <1>1, <2>1
  <2> QED BY <1>1, <2>1, <2>2 DEF Place
<1>3. /\ wtask[w] = NoTask /\ wtask'[w] = tasks[1] /\ tasks[1] # NoTask
      /\ \A v \in Worker \ {w} : wtask'[v] = wtask[v]
      /\ \A v \in Worker : wpc'[v] = IF v = w THEN "run" ELSE wpc[v]
  BY <1>1, <1>2 DEF TypeOK, WorkerPop
<1>4. UNCHANGED <<stopped, done, accepted, drain, dtor>>
  BY DEF WorkerPop
<1>5. TypeOK'
  <2>1. /\ wpc' \in [Worker -> {"check", "pop", "sleep", "run", "exited"}]
        /\ wtask' \in [Worker -> Task \cup {NoTask}]
    BY <1>1 DEF TypeOK, WorkerPop
  <2>2. \A v \in Worker : wpc'[v] = "run" <=> wtask'[v] # NoTask
    BY <1>3 DEF TypeOK
  <2> QED BY <1>1, <1>4, <2>1, <2>2 DEF TypeOK
<1>6. NoStrangers'
  BY <1>1, <1>2, <1>3, <1>4 DEF NoStrangers
<1>7. NoDuplicates'
  <2>1. \A j, k \in Place' : tasks'[j] = tasks'[k] => j = k
    <3> SUFFICES ASSUME NEW j \in Place', NEW k \in Place', tasks'[j] = tasks'[k]
                 PROVE  j = k
      OBVIOUS
    <3>1. j + 1 \in Place /\ k + 1 \in Place /\ tasks[j + 1] = tasks[k + 1]
      BY <1>1, <1>2
    <3>2. j + 1 = k + 1
      BY <3>1 DEF NoDuplicates
    <3> QED BY <1>2, <3>2
  <2>2. \A u, v \in Worker : wtask'[u] = wtask'[v] /\ wtask'[u] # NoTask => u = v
    BY <1>2, <1>3 DEF NoDuplicates
  <2>3. \A k \in Place' : done'[tasks'[k]] = 0 /\ \A v \in Worker : wtask'[v] # tasks'[k]
    <3> SUFFICES ASSUME NEW k \in Place'
                 PROVE  /\ done[tasks'[k]] = 0
                        /\ \A v \in Worker : wtask'[v] # tasks'[k]
      BY <1>4
    <3>1. k + 1 \in Place /\ k + 1 # 1 /\ tasks'[k] = tasks[k + 1]
      BY <1>1, <1>2
    <3>2. tasks[k + 1] # tasks[1]
      BY <1>2, <3>1 DEF NoDuplicates
    <3> QED BY <1>3, <3>1, <3>2 DEF NoDuplicates
  <2>4. \A v \in Worker : wtask'[v] # NoTask => done'[wtask'[v]] = 0
    <3>1. done[tasks[1]] = 0
      BY <1>2 DEF NoDuplicates
    <3>2. \A v \in Worker \ {w} : wtask[v] # NoTask => done[wtask[v]] = 0
      BY DEF NoDuplicates
    <3> QED BY <1>3, <1>4, <3>1, <3>2
  <2> QED BY <2>1, <2>2, <2>3, <2>4 DEF NoDuplicates
<1>8. NoLosses'
  <2> SUFFICES ASSUME NEW t \in accepted
               PROVE  \/ \E k \in Place' : tasks'[k] = t
                      \/ \E v \in Worker : wtask'[v] = t
                      \/ done[t] = 1
    BY <1>4 DEF NoLosses
  <2>1. CASE \E k \in Place : tasks[k] = t
    BY <2>1, <1>2, <1>3
  <2>2. CASE \E v \in Worker : wtask[v] = t
    BY <2>2, <1>3 DEF TypeOK
  <2> QED BY <2>1, <2>2 DEF NoLosses
<1> QED BY <1>5, <1>6, <1>7, <1>8

LEMMA AccountedRun ==
  ASSUME Accounted, NEW w \in Worker, WorkerRun(w)
  PROVE  Accounted'
<1> USE PoolAssumption DEF Accounted, WorkerRun
<1> DEFINE t == wtask[w]
<1>1. t \in Task /\ done[t] = 0 /\ t \in accepted
  BY DEF TypeOK, NoStrangers, NoDuplicates
<1>2. /\ done' \in [Task -> Nat] /\ done'[t] = 1
      /\ \A s \in Task \ {t} : done'[s] = done[s]
  BY <1>1 DEF TypeOK
<1>3. /\ wtask'[w] = NoTask
      /\ \A v \in Worker \ {w} : wtask'[v] = wtask[v]
      /\ \A v \in Worker : wpc'[v] = IF v = w THEN "check" ELSE wpc[v]
  BY DEF TypeOK
<1>4. TypeOK'
  <2>1. /\ wpc' \in [Worker -> {"check", "pop", "sleep", "run", "exited"}]
        /\ wtask' \in [Worker -> Task \cup {NoTask}]
    BY DEF TypeOK
  <2>2. \A v \in Worker : wpc'[v] = "run" <=> wtask'[v] # NoTask
    BY <1>3 DEF TypeOK
  <2> QED BY <1>2, <2>1, <2>2 DEF TypeOK
<1>5. Place' = Place /\ tasks' = tasks /\ \A k \in Place : tasks[k] \in Task
  BY DEF Place, TypeOK
<1>6. NoStrangers'
  BY <1>1, <1>2, <1>3, <1>5 DEF NoStrangers, TypeOK
<1>7. NoDuplicates'
  <2>1. \A u, v \in Worker : wtask'[u] = wtask'[v] /\ wtask'[u] # NoTask => u = v
    BY <1>3 DEF NoDuplicates
  <2>2. \A k \in Place : tasks[k] # t
    BY DEF NoDuplicates
  <2>3. \A k \in Place : done'[tasks[k]] = 0 /\ \A v \in Worker : wtask'[v] # tasks[k]
    BY <1>2, <1>3, <1>5, <2>2 DEF NoDuplicates
  <2>4. \A v \in Worker : wtask'[v] # NoTask => done'[wtask'[v]] = 0
    <3> SUFFICES ASSUME NEW v \in Worker, wtask'[v] # NoTask PROVE done'[wtask'[v]] = 0
      OBVIOUS
    <3>1. v # w /\ wtask'[v] = wtask[v] /\ wtask[v] \in Task /\ wtask[v] # t
      BY <1>3 DEF TypeOK, NoDuplicates
    <3> QED BY <1>2, <3>1 DEF NoDuplicates
  <2> QED BY <1>5, <2>1, <2>3, <2>4 DEF NoDuplicates
<1>8. NoLosses'
  BY <1>1, <1>2, <1>3, <1>5 DEF NoLosses, TypeOK
<1> QED BY <1>4, <1>6, <1>7, <1>8

\* Every other step leaves the tasks where they are.
LEMMA AccountedElsewhere ==
  ASSUME Accounted,
         \/ Stop \/ Drain \/ DrainReturn \/ Destroy \/ DestroyReturn
         \/ \E w \in Worker : WorkerCheck(w) \/ WorkerEmpty(w) \/ WorkerWake(w)
         \/ UNCHANGED vars
  PROVE  Accounted'
<1> USE DEF Accounted
<1>1. UNCHANGED <<tasks, wtask, done, accepted>>
  BY DEF Stop, Drain, DrainReturn, Destroy, DestroyReturn, WorkerCheck, WorkerEmpty,
         WorkerWake, vars, workerVars
<1>2. NoStrangers' /\ NoDuplicates' /\ NoLosses'
  BY <1>1 DEF NoStrangers, NoDuplicates, NoLosses, Place
<1>3. TypeOK'
  <2>1. CASE Stop \/ Drain \/ DrainReturn \/ Destroy \/ DestroyReturn \/ UNCHANGED vars
    BY <2>1 DEF TypeOK, Stop, Drain, DrainReturn, Destroy, DestroyReturn, vars, workerVars
  <2>2. ASSUME NEW w \in Worker, WorkerCheck(w) \/ WorkerEmpty(w) \/ WorkerWake(w)
        PROVE  TypeOK'
    <3>1. /\ wpc' \in [Worker -> {"check", "pop", "sleep", "run", "exited"}]
          /\ wpc[w] # "run" /\ wpc'[w] # "run"
          /\ \A v \in Worker \ {w} : wpc'[v] = wpc[v]
      BY <2>2 DEF TypeOK, WorkerCheck, WorkerEmpty, WorkerWake
    <3>2. \A v \in Worker : wpc'[v] = "run" <=> wtask'[v] # NoTask
      BY <1>1, <3>1 DEF TypeOK
    <3>3. UNCHANGED <<stopped, drain, dtor>>
      BY <2>2 DEF WorkerCheck, WorkerEmpty, WorkerWake
    <3> QED BY <1>1, <3>1, <3>2, <3>3 DEF TypeOK
  <2> QED BY <2>1, <2>2
<1> QED BY <1>2, <1>3

LEMMA AccountedNext ==
  ASSUME Accounted, [Next]_vars
  PROVE  Accounted'
BY AccountedEnqueue, AccountedPop, AccountedRun, AccountedElsewhere DEF Next

LEMMA AccountedAlways == Spec => []Accounted
BY AccountedInit, AccountedNext, PTL DEF Spec

\* In every state of the invariant a task that was accepted counts one.
LEMMA AccountedCounts ==
  ASSUME Accounted PROVE EveryTaskOnce
<1> SUFFICES ASSUME NEW t \in accepted PROVE Copies(t) = 1
  BY DEF EveryTaskOnce
<1> USE PoolAssumption DEF Accounted
<1> DEFINE Q == {k \in Place : tasks[k] = t}
           W == {w \in Worker : wtask[w] = t}
<1>1. t \in Task /\ t # NoTask /\ done[t] \in Nat
  BY DEF TypeOK
<1>2. Copies(t) = Cardinality(Q) + Cardinality(W) + done[t]
  BY DEF Copies, Place
<1>3. CASE \E k \in Place : tasks[k] = t
  <2>1. PICK k \in Place : tasks[k] = t
    BY <1>3
  <2>2. k \in Q /\ \A j \in Q : j = k
    BY <2>1 DEF NoDuplicates
  <2>3. done[t] = 0 /\ \A w \in W : FALSE
    BY <2>1 DEF NoDuplicates
  <2>4. Cardinality(Q) = 1
    BY <2>2, CountsOne
  <2>5. Cardinality(W) = 0
    BY <2>3, CountsNone
  <2> QED BY <1>2, <2>3, <2>4, <2>5
<1>4. CASE \E w \in Worker : wtask[w] = t
  <2>1. PICK w \in Worker : wtask[w] = t
    BY <1>4
  <2>2. w \in W /\ \A v \in W : v = w
    BY <1>1, <2>1 DEF NoDuplicates
  <2>3. done[t] = 0 /\ \A k \in Q : FALSE
    BY <1>1, <2>1 DEF NoDuplicates
  <2>4. Cardinality(W) = 1
    BY <2>2, CountsOne
  <2>5. Cardinality(Q) = 0
    BY <2>3, CountsNone
  <2> QED BY <1>2, <2>3, <2>4, <2>5
<1>5. CASE done[t] = 1
  <2>1. \A k \in Q : FALSE
    BY <1>5 DEF NoDuplicates
  <2>2. \A w \in W : FALSE
    BY <1>1, <1>5 DEF NoDuplicates
  <2>3. Cardinality(Q) = 0 /\ Cardinality(W) = 0
    BY <2>1, <2>2, CountsNone
  <2> QED BY <1>2, <1>5, <2>3
<1> QED BY <1>3, <1>4, <1>5 DEF NoLosses

-----------------------------------------------------------------------------

\* The state of the pool is well formed: in RunThread a worker holds a task
\* exactly between its pop and the end of task.second().
THEOREM PoolTypeCorrect == Spec => []TypeOK
<1>1. Accounted => TypeOK
  BY DEF Accounted
<1> QED BY <1>1, AccountedAlways, PTL

\* However many workers pop from the queue at once, and whenever the pool is
\* drained, stopped or destroyed, a task that Enqueue accepted is in the queue,
\* with one worker or done, and only one of these.
THEOREM NoTaskLostOrRunTwice == Spec => []EveryTaskOnce
<1>1. Accounted => EveryTaskOnce
  BY AccountedCounts
<1> QED BY <1>1, AccountedAlways, PTL
=============================================================================
