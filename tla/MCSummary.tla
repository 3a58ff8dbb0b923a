----------------------------- MODULE MCSummary -----------------------------
(* A small instance of Summary for TLC.                                    *)
EXTENDS Summary
=============================================================================
