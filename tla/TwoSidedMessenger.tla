------------------------- MODULE TwoSidedMessenger -------------------------
(***************************************************************************)
(* TwoSidedRdmaMessenger: one direction of the send/receive traffic of a   *)
(* connection, with the queue pair below it.                               *)
(*                                                                         *)
(* The sender copies a message into its send buffer, posts it and waits    *)
(* for the completion.  The receiver posts all of its receive buffer, cut  *)
(* into pieces of kRecvMaxBytes, and posts it again when every piece has   *)
(* been used.  The hardware moves a message into the first piece posted,   *)
(* at any time in between, and tells the sender when none is posted.       *)
(* Addresses are offsets from send_base_ and recv_base_.                   *)
(***************************************************************************)
EXTENDS Integers, Sequences

CONSTANTS
  Message,        \* what is sent
  Size,           \* [Message -> Nat]: msg.length
  None,
  kCapacity,      \* bytes of the two buffers together
  kRecvMaxBytes,
  RnrRetry,       \* rnr_retry_count of the connection
  TotalMod,       \* recv_total_ wraps at 2^32; here at TotalMod
  MayDisconnect   \* whether the connection may be torn down

Capacity == kCapacity \div 2          \* send_capacity_, recv_capacity_
Pieces == Capacity \div kRecvMaxBytes

\* The capacities are powers of two in every use of the class.  recv_total_ may
\* wrap only because the number of pieces then divides 2^32.
ASSUME MessengerAssumption ==
  /\ None \notin Message
  /\ Size \in [Message -> Nat]
  /\ kCapacity \in Nat /\ kCapacity % 2 = 0
  /\ kRecvMaxBytes \in Nat \ {0} /\ kRecvMaxBytes <= Capacity
  /\ RnrRetry \in Nat
  /\ TotalMod \in Nat \ {0} /\ TotalMod % Pieces = 0
  /\ MayDisconnect \in BOOLEAN

Messages == Message \cup {None}
Addresses == 0 .. Capacity

VARIABLES
  spc,        \* SendMessage: idle, posted (it waits for the completion)
  msg,        \* its argument
  sendNext,
  status,     \* what SendMessage has returned last
  wc,         \* send completion: none, SUCCESS, RNR_RETRY_EXC, WR_FLUSH
  rnr,        \* retries left for the message on the wire
  sqp, rqp,   \* state of the sender's and the receiver's queue pair
  rq,         \* posted receives
  rcq,        \* receive completions: <<status, byte_len>>
  rpc,        \* the receiver: prepare, idle, copy, abort
  curr,       \* loop variable of PrepareRecvBuffer
  rwc,        \* the completion TryDeliverMessage has taken
  recvNext, recvTotal, recvBuf,
  result      \* what TryDeliverMessage has returned last

senderVars == <<spc, msg, sendNext, status>>
wireVars == <<wc, rnr, sqp, rqp>>
receiverVars == <<rpc, curr, rwc, recvNext, recvTotal, result>>
vars == <<senderVars, wireVars, rq, rcq, receiverVars, recvBuf>>

Completions == {"SUCCESS", "WR_FLUSH"} \X Nat

\* Offsets stay inside the buffers (recv_next_ may point behind the last piece)
\* and every queue holds what the verbs put there.
TypeOK ==
  /\ spc \in {"idle", "posted"} /\ msg \in Messages
  /\ sendNext \in Addresses
  /\ status \in {"none", "OK", "ResourceExhausted", "Internal"}
  /\ wc \in {"none", "SUCCESS", "RNR_RETRY_EXC", "WR_FLUSH"} /\ rnr \in 0 .. RnrRetry
  /\ sqp \in {"RTS", "ERR"} /\ rqp \in {"RTS", "ERR"}
  /\ rq \in Seq(Addresses) /\ rcq \in Seq(Completions)
  /\ rpc \in {"prepare", "idle", "copy", "abort"}
  /\ curr \in Addresses /\ rwc \in Completions
  /\ recvNext \in Addresses /\ recvTotal \in 0 .. TotalMod - 1
  /\ recvBuf \in [Addresses -> Messages]
  /\ result \in Messages \cup {"Unavailable", "Aborted"}

\* The connection exists; the receiver's constructor is about to post its
\* buffer (on the connecting side it runs after the connection is up).
Init ==
  /\ spc = "idle" /\ msg = None /\ status = "none"
  /\ sendNext = 0
  /\ wc = "none" /\ rnr = 0 /\ sqp = "RTS" /\ rqp = "RTS"
  /\ rq = <<>> /\ rcq = <<>>
  /\ rpc = "prepare" /\ curr = 0 /\ rwc = <<"SUCCESS", 0>>
  /\ recvNext = 0 /\ recvTotal = 0 /\ recvBuf = [a \in Addresses |-> None]
  /\ result = None

-----------------------------------------------------------------------------
(* SendMessage                                                             *)

\* The length check: the piece of the receiver has to be larger.
Fits(m) == Size[m] < kRecvMaxBytes

SendTooLarge(m) ==
  /\ spc = "idle" /\ ~Fits(m)
  /\ msg' = m
  /\ status' = "ResourceExhausted"
  /\ UNCHANGED <<spc, sendNext, wireVars, rq, rcq, receiverVars, recvBuf>>

\* Where the copy goes: the head pointer, or the beginning if the message does
\* not fit in the memory that remains.
SendAddress(m) == IF sendNext + Size[m] > Capacity THEN 0 ELSE sendNext

\* The copy at sendNext is msg until SendMessage returns, which it does after the
\* hardware is done with it: the contents of the send buffer need no variable.
SendPost(m) ==
  /\ spc = "idle" /\ Fits(m)
  /\ sendNext' = SendAddress(m)
  /\ msg' = m
  /\ spc' = "posted"
  /\ rnr' = RnrRetry
  /\ UNCHANGED <<status, wc, sqp, rqp, rq, rcq, receiverVars, recvBuf>>

\* Mutant of SendReturn: it polls until a send has succeeded.
PollsForSuccess ==
  /\ spc = "posted" /\ wc = "SUCCESS"
  /\ sendNext' = sendNext + Size[msg]
  /\ status' = "OK" /\ spc' = "idle" /\ wc' = "none"
  /\ UNCHANGED <<msg, rnr, sqp, rqp, rq, rcq, receiverVars, recvBuf>>

\* The completion: only after a success is the memory left behind.
SendReturn ==
  /\ spc = "posted" /\ wc # "none"
  /\ \/ /\ wc = "SUCCESS"
        /\ sendNext' = sendNext + Size[msg]
        /\ status' = "OK"
     \/ /\ wc # "SUCCESS"
        /\ status' = "Internal"
        /\ UNCHANGED sendNext
  /\ spc' = "idle" /\ wc' = "none"
  /\ UNCHANGED <<msg, rnr, sqp, rqp, rq, rcq, receiverVars, recvBuf>>

-----------------------------------------------------------------------------
(* The queue pair                                                          *)

\* A message is on the wire.
OnWire == spc = "posted" /\ wc = "none" /\ sqp = "RTS"

\* It is put where the first posted receive says.
Transmit ==
  /\ OnWire /\ rqp = "RTS" /\ rq # <<>>
  /\ recvBuf' = [recvBuf EXCEPT ![Head(rq)] = msg]
  /\ rcq' = Append(rcq, <<"SUCCESS", Size[msg]>>)
  /\ rq' = Tail(rq)
  /\ wc' = "SUCCESS"
  /\ UNCHANGED <<senderVars, rnr, sqp, rqp, receiverVars>>

\* No receive is posted: the sender is told to try again, RnrRetry times.
ReceiverNotReady ==
  /\ OnWire /\ rqp = "RTS" /\ rq = <<>>
  /\ \/ /\ rnr > 0
        /\ rnr' = rnr - 1
        /\ UNCHANGED <<wc, sqp>>
     \/ /\ rnr = 0
        /\ wc' = "RNR_RETRY_EXC" /\ sqp' = "ERR"
        /\ UNCHANGED rnr
  /\ UNCHANGED <<senderVars, rqp, rq, rcq, receiverVars, recvBuf>>

\* A queue pair in the error state flushes what is posted to it.
FlushSend ==
  /\ spc = "posted" /\ wc = "none" /\ sqp = "ERR"
  /\ wc' = "WR_FLUSH"
  /\ UNCHANGED <<senderVars, rnr, sqp, rqp, rq, rcq, receiverVars, recvBuf>>

FlushRecv ==
  /\ rqp = "ERR" /\ rq # <<>>
  /\ rq' = Tail(rq)
  /\ rcq' = Append(rcq, <<"WR_FLUSH", 0>>)
  /\ UNCHANGED <<senderVars, wireVars, receiverVars, recvBuf>>

Disconnect ==
  /\ MayDisconnect /\ rqp = "RTS"
  /\ sqp' = "ERR" /\ rqp' = "ERR"
  /\ UNCHANGED <<senderVars, wc, rnr, rq, rcq, receiverVars, recvBuf>>

-----------------------------------------------------------------------------
(* TryDeliverMessage and PrepareRecvBuffer                                 *)

\* Mutant of PostRecv: recv_next_ is posted in every turn.
PostsRecvNext ==
  /\ rpc = "prepare"
  /\ rq' = Append(rq, recvNext)
  /\ IF curr + kRecvMaxBytes <= Capacity - kRecvMaxBytes
       THEN curr' = curr + kRecvMaxBytes /\ UNCHANGED <<rpc, recvNext>>
       ELSE curr' = 0 /\ rpc' = "idle" /\ recvNext' = 0
  /\ UNCHANGED <<senderVars, wireVars, rcq, rwc, recvTotal, recvBuf, result>>

\* One turn of the posting loop; the last one resets recv_next_.
PostRecv ==
  /\ rpc = "prepare"
  /\ rq' = Append(rq, curr)
  /\ IF curr + kRecvMaxBytes <= Capacity - kRecvMaxBytes
       THEN curr' = curr + kRecvMaxBytes /\ UNCHANGED <<rpc, recvNext>>
       ELSE curr' = 0 /\ rpc' = "idle" /\ recvNext' = 0
  /\ UNCHANGED <<senderVars, wireVars, rcq, rwc, recvTotal, recvBuf, result>>

\* EAGAIN: no completion.
TryDeliverUnavailable ==
  /\ rpc = "idle" /\ rcq = <<>>
  /\ result' = "Unavailable"
  /\ UNCHANGED <<senderVars, wireVars, rq, rcq, rpc, curr, rwc, recvNext,
                 recvTotal, recvBuf>>

\* Mutant of TryDeliverMessage: once the queue pair has failed, completions that
\* came before that are not looked at.
LooksAtStateFirst ==
  /\ rpc = "idle" /\ rcq # <<>>
  /\ \/ /\ rqp = "RTS"
        /\ rcq' = Tail(rcq) /\ rwc' = Head(rcq) /\ rpc' = "copy"
        /\ UNCHANGED result
     \/ /\ rqp = "ERR" /\ result' = "Aborted"
        /\ UNCHANGED <<rcq, rwc, rpc>>
  /\ UNCHANGED <<senderVars, wireVars, rq, curr, recvNext, recvTotal, recvBuf>>

\* A completion is taken from the receive queue.
TryDeliverMessage ==
  /\ rpc = "idle" /\ rcq # <<>>
  /\ rcq' = Tail(rcq)
  /\ \/ /\ Head(rcq)[1] = "SUCCESS"
        /\ rwc' = Head(rcq) /\ rpc' = "copy"
        /\ UNCHANGED result
     \/ /\ Head(rcq)[1] = "WR_FLUSH"
        /\ result' = "Aborted"
        /\ UNCHANGED <<rwc, rpc>>
  /\ UNCHANGED <<senderVars, wireVars, rq, curr, recvNext, recvTotal, recvBuf>>

\* Mutant of AllConsumed: the memory behind the last piece is waited for.
OnePieceLate(next) == next > Capacity

\* All posted receives have been consumed.
AllConsumed(next) == next > Capacity - kRecvMaxBytes

\* A copy of byte_len bytes is the message only if that is its length.
Copied(m, len) == IF m \in Message /\ Size[m] = len THEN m ELSE "Garbled"

\* The message is copied out; the last piece starts PrepareRecvBuffer, whose
\* assertion compares the completions with what was posted.
CopyOut ==
  LET next == recvNext + kRecvMaxBytes
      total == (recvTotal + 1) % TotalMod
  IN /\ rpc = "copy"
     /\ result' = Copied(recvBuf[recvNext], rwc[2])
     /\ recvTotal' = total
     /\ recvNext' = next
     /\ rpc' = IF ~AllConsumed(next) THEN "idle"
               ELSE IF total % Pieces = 0 THEN "prepare" ELSE "abort"
     /\ UNCHANGED <<senderVars, wireVars, rq, rcq, curr, rwc, recvBuf>>

-----------------------------------------------------------------------------

Sender == SendReturn
Wire == Transmit \/ ReceiverNotReady \/ FlushSend \/ FlushRecv
Receiver == PostRecv \/ TryDeliverMessage \/ CopyOut

Next ==
  \/ \E m \in Message : SendTooLarge(m) \/ SendPost(m)
  \/ SendReturn
  \/ Transmit \/ ReceiverNotReady \/ FlushSend \/ FlushRecv \/ Disconnect
  \/ PostRecv \/ TryDeliverUnavailable \/ TryDeliverMessage \/ CopyOut

Spec == Init /\ [][Next]_vars

\* The hardware makes progress, SendMessage returns, and the receiver polls.
FairSpec == Spec /\ WF_vars(Sender) /\ WF_vars(Wire) /\ WF_vars(Receiver)

-----------------------------------------------------------------------------

\* The address the next completion in rcq belongs to.  It is in no work
\* completion: the receiver infers it from the order of the posts.  While the
\* buffer is posted anew recv_next_ still points behind it.
Base == IF rpc = "prepare" THEN 0 ELSE recvNext

\* What TryDeliverMessage has ahead: messages taken or completed.
Waiting ==
  LET ahead == IF rpc = "copy" THEN 1 ELSE 0
      ok == {k \in 1 .. Len(rcq) : rcq[k][1] = "SUCCESS"}
      last == IF ok = {} THEN 0 ELSE CHOOSE k \in ok : \A j \in ok : j <= k
  IN [k \in 1 .. ahead + last |-> recvBuf[Base + (k - 1) * kRecvMaxBytes]]

\* The messenger implements MessageChannel: every message accepted is delivered
\* once, in order and with its contents, although the receiver guesses from the
\* order of completions where a message lies and the hardware fills the buffer
\* while it reads.
Channel == INSTANCE MessageChannel WITH
  sending <- IF spc = "posted" /\ wc = "none" THEN msg ELSE None,
  queue <- Waiting,
  broken <- sqp = "ERR",
  result <- result
ImplementsChannel == Channel!Spec

\* "This should only be called when all posted receives have corresponding
\* completions, otherwise there may be a race on memory by posted recvs": no
\* piece is posted twice, and none that still holds an undelivered message is
\* posted.
PiecesAreExclusive ==
  /\ \A j, k \in 1 .. Len(rq) : rq[j] = rq[k] => j = k
  /\ \A k \in 1 .. Len(Waiting) : \A j \in 1 .. Len(rq) :
       rq[j] # Base + (k - 1) * kRecvMaxBytes

\* SendMessage returns, whatever happens to the connection: every path of the
\* queue pair ends in a completion its polling loop sees.
SendReturns == spc = "posted" ~> spc = "idle"

\* Messages accepted are all delivered, also those that were received before
\* the connection failed.
EverythingIsDelivered == Len(Waiting) > 0 ~> Len(Waiting) = 0

\* A receiver that has run out of posted pieces posts them again, although
\* recv_next_ never reaches the end of a buffer the pieces do not fill.
ReceiverRecovers ==
  rq = <<>> /\ rqp = "RTS" ~> rq # <<>> \/ rqp = "ERR"
=============================================================================
