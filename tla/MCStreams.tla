----------------------------- MODULE MCStreams -----------------------------
(* A small instance of Streams for TLC.                                    *)
EXTENDS Streams

ThreeInputs == <<5, 3, 5>>
=============================================================================
