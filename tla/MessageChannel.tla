--------------------------- MODULE MessageChannel ---------------------------
(* What one direction of a two-sided channel promises: a reliable FIFO queue. *)
(* A message that SendMessage has been given is either accepted, once and in  *)
(* order, or the channel breaks and accepts nothing any more.  What has been  *)
(* accepted is delivered, also after the channel broke, before TryDeliver     *)
(* says that the channel is aborted.                                          *)
EXTENDS Sequences

CONSTANTS Message, None

VARIABLES
  sending,  \* the message SendMessage is busy with, or None
  queue,    \* accepted and not delivered
  broken,   \* nothing more is accepted
  result    \* what TryDeliver has returned: a message or the name of an error

vars == <<sending, queue, broken, result>>

Errors == {"Unavailable", "Aborted"}

Init == sending = None /\ queue = <<>> /\ broken = FALSE /\ result = None

Submit(m) == /\ sending = None
             /\ sending' = m
             /\ UNCHANGED <<queue, broken, result>>

Accept == /\ sending # None /\ ~broken
          /\ queue' = Append(queue, sending)
          /\ sending' = None
          /\ UNCHANGED <<broken, result>>

\* The channel breaks; a message that is being sent may be lost by that.
Break == /\ broken' = TRUE
         /\ sending' \in {sending, None}
         /\ UNCHANGED <<queue, result>>

Deliver == /\ queue # <<>>
           /\ result' = Head(queue)
           /\ queue' = Tail(queue)
           /\ UNCHANGED <<sending, broken>>

\* An error is an answer only while nothing is left to be delivered.
NothingToDeliver == /\ queue = <<>>
                    /\ result' \in IF broken THEN Errors ELSE {"Unavailable"}
                    /\ UNCHANGED <<sending, queue, broken>>

Next == \/ \E m \in Message : Submit(m)
        \/ Accept \/ Break \/ Deliver \/ NothingToDeliver

Spec == Init /\ [][Next]_vars
=============================================================================
