------------------------ MODULE MCTwoSidedMessenger ------------------------
(* Small instances of TwoSidedMessenger for TLC.                           *)
EXTENDS TwoSidedMessenger, TLC

CONSTANTS a, b, c

\* One byte, as long as a piece allows, and exactly a piece.
Sizes == (a :> 1) @@ (b :> kRecvMaxBytes - 1) @@ (c :> kRecvMaxBytes)
=============================================================================
