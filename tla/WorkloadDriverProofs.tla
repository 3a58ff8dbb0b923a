------------------------ MODULE WorkloadDriverProofs ------------------------
(***************************************************************************)
(* What Stop and the destructor of a WorkloadDriver guarantee, and the rate *)
(* at which the drivers are let through by the controller they share, for   *)
(* every set of drivers, every choice of the ones that share a controller,  *)
(* every rate and every set of failures.                                    *)
(***************************************************************************)
EXTENDS WorkloadDriver, TLAPS

VARIABLES
  now,        \* the time since the controller was created
  granted     \* the tokens it has handed out

\* The future is ready when the thread has returned.
FutureNamesEnd ==
  \A d \in Driver : future[d] \in {"ready", "taken"} => run[d] = "done"

\* Before client_->Start() has returned the client is as it was made.
ClientStartsNew ==
  \A d \in Driver : run[d] \in {"none", "start"} => client[d] = "new"

\* A driver is not told to stop while its owner is in Start.
StartsOnce == \A d \in Driver : app[d] = "starting" => ~terminated[d]

\* The inductive invariant.
DriverInv == /\ TypeOK /\ FutureNamesEnd /\ ClientStartsNew /\ StartsOnce
             /\ QuietAfterStop /\ StartedClientIsStopped

\* What a look at the clock leaves in the bucket.
LEMMA RefreshedType ==
  ASSUME TypeOK
  PROVE  Refreshed \in Nat /\ SinceRefill \in 0 .. MaxElapsed
<1> USE QpsAssumption
<1>1. \A a \in Nat, s \in Nat \ {0} : a \div s \in Nat
  BY SMT
<1>2. \A n, q \in Nat : n * q \in Nat
  BY SMT
<1>3. Deposit \in Nat
  BY <1>1, <1>2 DEF Deposit, TypeOK
<1> QED BY <1>3 DEF Refreshed, SinceRefill, Larger, TypeOK

LEMMA InitEstablishes == Init => DriverInv
<1> SUFFICES ASSUME Init PROVE DriverInv
  OBVIOUS
<1> USE QpsAssumption DEF Init, BucketInit
<1>1. TypeOK
  BY DEF TypeOK, Statuses
<1>2. FutureNamesEnd /\ ClientStartsNew /\ StartsOnce
  BY DEF FutureNamesEnd, ClientStartsNew, StartsOnce
<1>3. QuietAfterStop /\ StartedClientIsStopped
  BY DEF QuietAfterStop, StartedClientIsStopped
<1> QED BY <1>1, <1>2, <1>3 DEF DriverInv

\* A step of the owner of driver d.
LEMMA OwnerPreserves ==
  ASSUME DriverInv, NEW d \in Driver,
         \/ Start(d) \/ StartReturn(d) \/ RefusedCall(d) \/ Stop(d)
         \/ StopReturn(d) \/ Destroy(d) \/ DestroyReturn(d)
  PROVE  DriverInv'
<1> USE DEF DriverInv, TypeOK, FutureNamesEnd, ClientStartsNew, StartsOnce,
            QuietAfterStop, StartedClientIsStopped, Goto, AppGoto, Returns, runVars, ownerVars, bucketVars
<1>1. CASE Start(d)
  BY <1>1 DEF Start
<1>2. CASE StartReturn(d)
  BY <1>2 DEF StartReturn
<1>3. CASE RefusedCall(d)
  BY <1>3 DEF RefusedCall
<1>4. CASE Stop(d)
  BY <1>4 DEF Stop
<1>5. CASE StopReturn(d)
  BY <1>5 DEF StopReturn
<1>6. CASE Destroy(d)
  BY <1>6 DEF Destroy
<1>7. CASE DestroyReturn(d)
  BY <1>7 DEF DestroyReturn
<1> QED BY <1>1, <1>2, <1>3, <1>4, <1>5, <1>6, <1>7

\* A step of the run thread of driver d.
LEMMA RunPreserves ==
  ASSUME DriverInv, NEW d \in Driver,
         \/ RunStart(d) \/ RunCheck(d) \/ WaitEnter(d) \/ WaitSpin(d)
         \/ WaitLeave(d) \/ RunNext(d) \/ RunApply(d) \/ RunClientStop(d)
  PROVE  DriverInv'
<1>0. Refreshed \in Nat /\ SinceRefill \in 0 .. MaxElapsed
  BY RefreshedType DEF DriverInv
<1> USE DEF DriverInv, TypeOK, FutureNamesEnd, ClientStartsNew, StartsOnce,
            QuietAfterStop, StartedClientIsStopped, Goto, Statuses, runVars, ownerVars, bucketVars
<1>1. CASE RunStart(d)
  <2>1. CASE /\ client' = [client EXCEPT ![d] = "active"]
             /\ running' = [running EXCEPT ![d] = TRUE]
             /\ Goto(d, "check")
             /\ UNCHANGED <<status, future>>
    BY <1>1, <2>1 DEF RunStart
  <2>2. CASE /\ status' = [status EXCEPT ![d] = "StartError"]
             /\ future' = [future EXCEPT ![d] = "ready"]
             /\ Goto(d, "done")
             /\ UNCHANGED <<client, running>>
    BY <1>1, <2>2 DEF RunStart
  <2> QED BY <1>1, <2>1, <2>2 DEF RunStart
<1>2. CASE RunCheck(d)
  BY <1>2 DEF RunCheck
<1>3. CASE WaitEnter(d)
  BY <1>3 DEF WaitEnter, Enter
<1>4. CASE WaitSpin(d)
  BY <1>0, <1>4 DEF WaitSpin, Spin
<1>5. CASE WaitLeave(d)
  BY <1>0, <1>5 DEF WaitLeave, Leave
<1>6. CASE RunNext(d)
  BY <1>6 DEF RunNext
<1>7. CASE RunApply(d)
  BY <1>7 DEF RunApply
<1>8. CASE RunClientStop(d)
  BY <1>8 DEF RunClientStop
<1> QED BY <1>1, <1>2, <1>3, <1>4, <1>5, <1>6, <1>7, <1>8

LEMMA StepPreserves == DriverInv /\ [Next]_vars => DriverInv'
<1> SUFFICES ASSUME DriverInv, [Next]_vars PROVE DriverInv'
  OBVIOUS
<1>1. CASE ClockTick
  BY <1>1, QpsAssumption
     DEF ClockTick, Tick, DriverInv, TypeOK, FutureNamesEnd, ClientStartsNew, StartsOnce,
         QuietAfterStop, StartedClientIsStopped, runVars, ownerVars
<1>2. CASE UNCHANGED vars
  BY <1>2 DEF vars, DriverInv, TypeOK, FutureNamesEnd, ClientStartsNew, StartsOnce,
              QuietAfterStop, StartedClientIsStopped, runVars, ownerVars, bucketVars
<1> QED BY <1>1, <1>2, OwnerPreserves, RunPreserves DEF Next

LEMMA DriverInvariant == Spec => []DriverInv
BY InitEstablishes, StepPreserves, PTL DEF Spec

-----------------------------------------------------------------------------

\* Once Stop, or the destructor, has returned, no operation is passed to the
\* client, whatever the thread was doing when terminated_ was set.
THEOREM NothingAfterStop == Spec => []QuietAfterStop
BY DriverInvariant, PTL DEF DriverInv

\* On every way out of Run the client that was started has been stopped.
THEOREM ClientIsStopped == Spec => []StartedClientIsStopped
BY DriverInvariant, PTL DEF DriverInv

-----------------------------------------------------------------------------
(* The rate.  The drivers run as before; time and tokens are counted.       *)

CountedInit == Init /\ now = 0 /\ granted = 0

CountedNext ==
  /\ Next
  /\ now' = IF ClockTick THEN now + 1 ELSE now
  /\ granted' = IF \E d \in Driver : WaitLeave(d) THEN granted + 1 ELSE granted

CountedSpec == CountedInit /\ [][CountedNext]_<<vars, now, granted>>

\* However many drivers wait, and however long nobody did, no more than max_qps
\* operations have been let through for every second since the creation, and
\* max_qps more: what TryRefreshTokens cuts off is never granted twice.
RateHolds == (granted - max_qps) * Second <= max_qps * now

\* The inductive invariant: the bound holds at the time of the last refill, and
\* counts what is still in the bucket.
Bounded ==
  /\ tokens \in Nat /\ elapsed \in Nat /\ granted \in Nat /\ now \in Nat
  /\ elapsed <= now
  /\ (granted + tokens - max_qps) * Second <= max_qps * (now - elapsed)

\* duration_cast never rounds up.
LEMMA DivisionCutsOff ==
  ASSUME NEW a \in Nat, NEW s \in Nat \ {0}
  PROVE  a \div s \in Nat /\ (a \div s) * s <= a
PROOF BY SMT

\* The refill pays for the seconds that have passed, and for no more.
LEMMA DepositIsPaidFor ==
  ASSUME elapsed \in Nat
  PROVE  /\ Deposit \in Nat
         /\ Deposit * Second <= max_qps * elapsed
<1> DEFINE k == elapsed \div Second
<1>1. k \in Nat /\ k * Second <= elapsed
  BY DivisionCutsOff, QpsAssumption
<1>2. \A q, e, s, n \in Nat : n * s <= e => (n * q) * s <= q * e /\ n * q \in Nat
  OBVIOUS
<1> QED BY <1>1, <1>2, QpsAssumption DEF Deposit

\* A look at the clock does not break the bound.
LEMMA RefreshIsBounded ==
  ASSUME Bounded
  PROVE  /\ Refreshed \in Nat /\ SinceRefill \in Nat /\ SinceRefill <= now
         /\ (granted + Refreshed - max_qps) * Second <= max_qps * (now - SinceRefill)
<1> USE QpsAssumption DEF Bounded
<1>1. Deposit \in Nat /\ Deposit * Second <= max_qps * elapsed
  BY DepositIsPaidFor
<1>2. CASE Deposit = 0
  BY <1>2 DEF Refreshed, SinceRefill
<1>3. CASE Deposit > 0
  <2>1. Deposit >= max_qps
    <3> DEFINE k == elapsed \div Second
    <3>1. k \in Nat
      BY DivisionCutsOff
    <3>2. k # 0
      BY <1>3 DEF Deposit
    <3>3. \A n, q \in Nat : n # 0 => n * q >= q
      OBVIOUS
    <3> QED BY <3>1, <3>2, <3>3 DEF Deposit
  <2>2. Refreshed = tokens + Deposit /\ SinceRefill = 0
    BY <1>1, <1>3, <2>1 DEF Refreshed, SinceRefill, Larger
  <2>3. (granted + (tokens + Deposit) - max_qps) * Second
          = (granted + tokens - max_qps) * Second + Deposit * Second
    BY <1>1
  <2>4. max_qps * (now - elapsed) + max_qps * elapsed = max_qps * (now - 0)
    OBVIOUS
  <2> QED BY <1>1, <2>2, <2>3, <2>4
<1> QED BY <1>1, <1>2, <1>3

\* To the controller, a step of the drivers is a tick, a look at the clock, with
\* or without a token taken, or none of its business.
LEMMA DriversStepBucket ==
  ASSUME Bounded, Next
  PROVE  \/ /\ Tick /\ ClockTick /\ ~ \E d \in Driver : WaitLeave(d)
         \/ /\ tokens' = Refreshed - 1 /\ elapsed' = SinceRefill /\ Refreshed # 0
            /\ ~ ClockTick /\ \E d \in Driver : WaitLeave(d)
         \/ /\ tokens' = Refreshed /\ elapsed' = SinceRefill
            /\ ~ ClockTick /\ ~ \E d \in Driver : WaitLeave(d)
         \/ /\ UNCHANGED <<tokens, elapsed>>
            /\ ~ ClockTick /\ ~ \E d \in Driver : WaitLeave(d)
<1> DEFINE Grant == \E d \in Driver : WaitLeave(d)
<1>0. SinceRefill \in Nat /\ SinceRefill <= elapsed /\ elapsed \in Nat
  BY DepositIsPaidFor DEF SinceRefill, Bounded
<1>1. ClockTick => elapsed' = elapsed + 1 /\ mutex' = mutex
  BY DEF ClockTick, Tick
<1>2. Grant => mutex \in Driver /\ mutex' = NoCaller /\ tokens' = Refreshed - 1
               /\ elapsed' = SinceRefill /\ Refreshed # 0
  BY DEF WaitLeave, Leave
<1>3. ~ (ClockTick /\ Grant)
  BY <1>0, <1>1, <1>2
<1>4. CASE ClockTick
  BY <1>3, <1>4 DEF ClockTick
<1>5. CASE Grant
  BY <1>2, <1>3, <1>5
<1>6. ASSUME NEW d \in Driver, WaitEnter(d)
      PROVE  UNCHANGED <<tokens, elapsed>> /\ ~ ClockTick /\ ~ Grant
  BY <1>0, <1>1, <1>2, <1>6, DriverAssumption DEF WaitEnter, Enter
<1>7. ASSUME NEW d \in Driver, WaitSpin(d)
      PROVE  tokens' = Refreshed /\ elapsed' = SinceRefill /\ ~ ClockTick /\ ~ Grant
  BY <1>0, <1>1, <1>2, <1>7, DriverAssumption DEF WaitSpin, Spin
<1>8. ASSUME UNCHANGED bucketVars
      PROVE  UNCHANGED <<tokens, elapsed>> /\ ~ ClockTick /\ ~ Grant
  BY <1>0, <1>1, <1>2, <1>8, DriverAssumption DEF bucketVars
<1>9. ASSUME NEW d \in Driver,
             \/ Start(d) \/ StartReturn(d) \/ RefusedCall(d) \/ Stop(d) \/ StopReturn(d)
             \/ Destroy(d) \/ DestroyReturn(d) \/ RunStart(d) \/ RunCheck(d)
             \/ RunNext(d) \/ RunApply(d) \/ RunClientStop(d)
      PROVE  UNCHANGED bucketVars
  BY <1>9 DEF Start, StartReturn, RefusedCall, Stop, StopReturn, Destroy, DestroyReturn,
              RunStart, RunCheck, RunNext, RunApply, RunClientStop
<1> HIDE DEF Grant
<1>10. ClockTick \/ Grant \/ (\E d \in Driver : WaitEnter(d)) \/ (\E d \in Driver : WaitSpin(d))
       \/ UNCHANGED bucketVars
  BY <1>9 DEF Next, Grant
<1> QED BY <1>4, <1>5, <1>6, <1>7, <1>8, <1>10 DEF Grant

\* The bound is inductive.
LEMMA RateStep == Bounded /\ [CountedNext]_<<vars, now, granted>> => Bounded'
<1> SUFFICES ASSUME Bounded, [CountedNext]_<<vars, now, granted>> PROVE Bounded'
  OBVIOUS
<1> USE QpsAssumption
<1>1. /\ Refreshed \in Nat /\ SinceRefill \in Nat /\ SinceRefill <= now
      /\ (granted + Refreshed - max_qps) * Second <= max_qps * (now - SinceRefill)
  BY RefreshIsBounded
<1>2. CASE Tick /\ now' = now + 1 /\ granted' = granted
  BY <1>2 DEF Tick, Bounded
<1>3. CASE /\ tokens' = Refreshed - 1 /\ elapsed' = SinceRefill /\ Refreshed # 0
           /\ now' = now /\ granted' = granted + 1
  <2>1. granted' + tokens' = granted + Refreshed /\ tokens' \in Nat
    BY <1>1, <1>3 DEF Bounded
  <2> QED BY <1>1, <1>3, <2>1 DEF Bounded
<1>4. CASE /\ tokens' = Refreshed /\ elapsed' = SinceRefill
           /\ now' = now /\ granted' = granted
  BY <1>1, <1>4 DEF Bounded
<1>5. CASE UNCHANGED <<tokens, elapsed, now, granted>>
  BY <1>5 DEF Bounded
<1>6. CASE CountedNext
  <2>1. Next /\ now' = (IF ClockTick THEN now + 1 ELSE now)
        /\ granted' = (IF \E d \in Driver : WaitLeave(d) THEN granted + 1 ELSE granted)
    BY <1>6 DEF CountedNext
  <2> QED BY <2>1, <1>2, <1>3, <1>4, <1>5, DriversStepBucket
<1>7. CASE UNCHANGED <<vars, now, granted>>
  BY <1>5, <1>7 DEF vars, bucketVars
<1> QED BY <1>6, <1>7

\* RateHolds is an invariant of drivers that share a controller.
THEOREM RateIsBounded == CountedSpec => []RateHolds
<1> USE QpsAssumption
<1>1. CountedInit => Bounded
  BY DEF CountedInit, Init, BucketInit, Bounded
<1>3. Bounded => RateHolds
  <2> SUFFICES ASSUME Bounded PROVE RateHolds
    OBVIOUS
  <2>1. (granted - max_qps) * Second <= (granted + tokens - max_qps) * Second
    <3>1. \A x, y \in Int, s \in Nat : x <= y => x * s <= y * s
      OBVIOUS
    <3> QED BY <3>1 DEF Bounded
  <2>2. max_qps * (now - elapsed) <= max_qps * now
    <3>1. \A x, y \in Int, s \in Nat : x <= y => s * x <= s * y
      OBVIOUS
    <3> QED BY <3>1 DEF Bounded
  <2> QED BY <2>1, <2>2 DEF Bounded, RateHolds
<1> QED BY <1>1, RateStep, <1>3, PTL DEF CountedSpec
=============================================================================
