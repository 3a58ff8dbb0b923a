--------------------------- MODULE QpsController ---------------------------
(***************************************************************************)
(* LeakyTokenBucketQpsController: callers of Wait take a mutex and, with   *)
(* it, look at the clock again and again until a token is there.  Module   *)
(* WorkloadDriver composes it with its callers.                            *)
(*                                                                         *)
(* Time is counted in ticks, Second of them to a second, from the last     *)
(* refill.                                                                 *)
(***************************************************************************)
EXTENDS Integers

CONSTANTS
  NoCaller,
  max_qps,
  Second,
  MaxElapsed,   \* bound on the time between refills
  MaxTokens     \* time stands still while the bucket holds so much

ASSUME QpsAssumption ==
  max_qps \in Nat \ {0} /\ Second \in Nat \ {0} /\ MaxElapsed \in Nat /\ MaxTokens \in Nat

VARIABLES
  tokens,
  elapsed,      \* Clock::now() - last_refill_
  mutex         \* who holds mu_

bucketVars == <<tokens, elapsed, mutex>>

BucketInit == tokens = max_qps /\ elapsed = 0 /\ mutex = NoCaller

Tick == /\ elapsed < MaxElapsed /\ tokens < MaxTokens
        /\ elapsed' = elapsed + 1
        /\ UNCHANGED <<tokens, mutex>>

\* duration_cast<seconds> cuts off; what it cuts off is lost with last_refill_.
Deposit == (elapsed \div Second) * max_qps

\* std::max
Larger(a, b) == IF a > b THEN a ELSE b

\* What is in the bucket when TryRefreshTokens has looked at the clock.
Refreshed == IF Deposit > 0 THEN Larger(tokens + Deposit, max_qps) ELSE tokens

\* Mutant of SinceRefill: the time of every look at the clock is noted.
AlwaysNoted == 0

\* The time since the last refill when TryRefreshTokens has looked at the clock.
SinceRefill == IF Deposit > 0 THEN 0 ELSE elapsed

\* Wait takes the lock.
Enter(c) == mutex = NoCaller /\ mutex' = c /\ UNCHANGED <<tokens, elapsed>>

\* A turn of the loop in Wait that finds no token ...
Spin(c) == /\ mutex = c /\ Refreshed = 0
           /\ tokens' = Refreshed /\ elapsed' = SinceRefill
           /\ UNCHANGED mutex

\* ... and one that takes a token and releases the lock.
Leave(c) == /\ mutex = c /\ Refreshed # 0
            /\ tokens' = Refreshed - 1 /\ elapsed' = SinceRefill
            /\ mutex' = NoCaller
=============================================================================
