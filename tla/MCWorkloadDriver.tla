-------------------------- MODULE MCWorkloadDriver --------------------------
(* A small instance of WorkloadDriver for TLC: two drivers.                *)
EXTENDS WorkloadDriver

CONSTANTS d1, d2
=============================================================================
