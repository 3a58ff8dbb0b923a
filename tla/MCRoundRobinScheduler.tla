----------------------- MODULE MCRoundRobinScheduler -----------------------
(* A small instance of RoundRobinScheduler for TLC.                        *)
EXTENDS RoundRobinScheduler

CONSTANTS c1, c2, c3, c4

\* One that ends at once, and others that suspend first.
Various == [c \in Coro |-> IF c = c1 THEN 1 ELSE 2]
=============================================================================
