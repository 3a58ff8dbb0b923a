---------------------------- MODULE MCThreadPool ----------------------------
(* A small instance of ThreadPool for TLC.                                 *)
EXTENDS ThreadPool

CONSTANTS w1, w2, a, b, c
=============================================================================
