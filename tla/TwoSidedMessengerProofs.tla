---------------------- MODULE TwoSidedMessengerProofs ----------------------
(***************************************************************************)
(* TwoSidedMessenger implements MessageChannel, for every capacity, piece  *)
(* size, set of messages and number of retries; the pieces of the receive  *)
(* buffer are never posted while they are in use.                          *)
(***************************************************************************)
EXTENDS TwoSidedMessenger, TLAPS

USE MessengerAssumption

\* Where the k-th piece of the receive buffer begins, counted from 0.
Start(k) == k * kRecvMaxBytes

\* Whether TryDeliverMessage has taken a completion.
Ahead == IF rpc = "copy" THEN 1 ELSE 0

\* Piece b is the next to be delivered and l pieces have been posted in this
\* round: those between are taken, completed (s of them with a message) and
\* posted, in this order and without a gap unless receives were flushed.
Window(b, l, s) ==
  /\ rpc = "prepare" => b = 0 /\ curr = Start(l) /\ l < Pieces
  /\ rpc # "prepare" => recvNext = Start(b) /\ l = Pieces /\ curr = 0
  /\ \A k \in 1 .. Len(rcq) : rcq[k][1] = "SUCCESS" <=> k <= s
  /\ b + Ahead + Len(rcq) + Len(rq) <= l
  /\ rqp = "RTS" => s = Len(rcq) /\ b + Ahead + Len(rcq) + Len(rq) = l
  /\ \A k \in 1 .. Len(rq) : rq[k] = Start(l - Len(rq) + k - 1)
  /\ recvTotal % Pieces = b

\* A completion tells the length of the message that lies where it belongs.
Contents(b, s) ==
  /\ rpc = "copy" => /\ recvBuf[Start(b)] \in Message
                     /\ rwc[2] = Size[recvBuf[Start(b)]]
  /\ \A k \in 1 .. s : LET m == recvBuf[Start(b + Ahead + k - 1)]
                       IN m \in Message /\ rcq[k][2] = Size[m]

\* SendMessage: its copy is inside the send buffer, a completion waits for it
\* only, and a broken connection is broken for both ends.
SenderOK ==
  /\ spc = "posted" => /\ msg \in Message /\ Fits(msg)
                       /\ sendNext + Size[msg] <= Capacity
  /\ spc = "idle" => wc = "none"
  /\ rqp = "ERR" => sqp = "ERR"
  /\ rpc # "abort"

ReceiverOK == \E b \in 0 .. Pieces - 1, l \in 0 .. Pieces, s \in 0 .. Len(rcq) :
                Window(b, l, s) /\ Contents(b, s)

MessengerInv == TypeOK /\ SenderOK /\ ReceiverOK

-----------------------------------------------------------------------------
(* Arithmetic                                                              *)

LEMMA Sizes ==
  /\ Capacity \in Nat /\ Pieces \in Nat \ {0}
  /\ Pieces * kRecvMaxBytes <= Capacity
  /\ Capacity < (Pieces + 1) * kRecvMaxBytes
<1>1. Capacity \in Nat
  BY DEF Capacity
<1>2. ASSUME NEW c \in Nat, NEW m \in Nat \ {0}, m <= c
      PROVE  /\ c \div m \in Nat \ {0} /\ (c \div m) * m <= c /\ c < ((c \div m) + 1) * m
  <2>1. PICK q \in Int, r \in Nat : q = c \div m /\ c = m * q + r /\ r < m
    <3>1. c \div m \in Int /\ c % m \in Nat /\ c = m * (c \div m) + (c % m) /\ c % m < m
      OBVIOUS
    <3> QED
      BY <3>1
  <2>2. q > 0
    <3>1. ASSUME q <= 0 PROVE m * q <= 0
      BY <3>1
    <3> QED
      BY <1>2, <2>1, <3>1
  <2>3. q * m <= c /\ (q + 1) * m = m * q + m /\ m * q \in Int
    BY <2>1
  <2> QED
    BY <2>1, <2>2, <2>3
<1> QED
  BY <1>1, <1>2 DEF Pieces

LEMMA Monotone ==
  ASSUME NEW j \in Nat, NEW k \in Nat, NEW m \in Nat \ {0}, j < k
  PROVE  j * m + m <= k * m
<1>1. PICK d \in Nat : k = j + 1 + d
  <2>1. k - j - 1 \in Nat /\ k = j + 1 + (k - j - 1)
    OBVIOUS
  <2> QED
    BY <2>1
<1>2. k * m = j * m + m + d * m /\ d * m \in Nat /\ j * m \in Nat
  BY <1>1
<1> QED
  BY <1>2

\* The pieces are one after the other, and inside the buffer.
LEMMA Starts ==
  /\ Start(0) = 0
  /\ \A k \in Nat : Start(k) \in Nat /\ Start(k + 1) = Start(k) + kRecvMaxBytes
  /\ \A j, k \in Nat : Start(j) = Start(k) => j = k
  /\ \A k \in Nat : Start(k) <= Capacity <=> k <= Pieces
  /\ \A b, k \in Nat : Start(b) + k * kRecvMaxBytes = Start(b + k)
<1>1. Start(0) = 0
  BY DEF Start
<1>2. \A k \in Nat : Start(k) \in Nat /\ Start(k + 1) = Start(k) + kRecvMaxBytes
  BY DEF Start
<1>3. \A j, k \in Nat : j < k => Start(j) + kRecvMaxBytes <= Start(k)
  BY Monotone DEF Start
<1>4. \A j, k \in Nat : Start(j) = Start(k) => j = k
  <2> SUFFICES ASSUME NEW j \in Nat, NEW k \in Nat, j # k PROVE Start(j) # Start(k)
    OBVIOUS
  <2>1. j < k \/ k < j
    OBVIOUS
  <2>2. Start(j) \in Nat /\ Start(k) \in Nat
    BY <1>2
  <2> QED
    BY <1>3, <2>1, <2>2
<1>5. ASSUME NEW k \in Nat PROVE Start(k) <= Capacity <=> k <= Pieces
  <2>1. Start(Pieces) <= Capacity /\ Capacity < Start(Pieces + 1)
        /\ Start(Pieces + 1) \in Nat /\ Start(Pieces) \in Nat /\ Start(k) \in Nat
    BY Sizes, <1>2 DEF Start
  <2>2. CASE k <= Pieces
    BY Sizes, <1>3, <2>1, <2>2
  <2>3. CASE k > Pieces
    <3>1. k = Pieces + 1 \/ Pieces + 1 < k
      BY Sizes, <2>3
    <3> QED
      BY Sizes, <1>3, <2>1, <2>3, <3>1
  <2> QED
    BY Sizes, <2>2, <2>3
<1>6. \A b, k \in Nat : Start(b) + k * kRecvMaxBytes = Start(b + k)
  BY DEF Start
<1> QED
  BY <1>1, <1>2, <1>4, <1>5, <1>6

\* When the loops of PrepareRecvBuffer and of the consumer end.
LEMMA LastPiece ==
  ASSUME NEW k \in Nat
  PROVE  /\ (Start(k) + kRecvMaxBytes <= Capacity - kRecvMaxBytes <=> k + 2 <= Pieces)
         /\ (AllConsumed(Start(k)) <=> k + 1 > Pieces)
<1>1. /\ Start(k + 1) = Start(k) + kRecvMaxBytes /\ Start(k) \in Nat
      /\ (Start(k + 1) <= Capacity <=> k + 1 <= Pieces)
  <2>1. k + 1 \in Nat
    OBVIOUS
  <2> QED
    BY <2>1, Starts
<1>2. /\ Start(k + 2) = Start(k + 1) + kRecvMaxBytes
      /\ (Start(k + 2) <= Capacity <=> k + 2 <= Pieces)
  <2>1. k + 1 \in Nat /\ k + 2 \in Nat /\ (k + 1) + 1 = k + 2
    OBVIOUS
  <2>2. Start((k + 1) + 1) = Start(k + 1) + kRecvMaxBytes
    BY <2>1, Starts
  <2> QED
    BY <2>1, <2>2, Starts
<1> QED
  BY <1>1, <1>2, Sizes DEF AllConsumed

\* recv_total_ counts the pieces of a round, also when it wraps.
LEMMA TotalCounts ==
  ASSUME NEW x \in 0 .. TotalMod - 1
  PROVE  /\ (x + 1) % TotalMod \in 0 .. TotalMod - 1
         /\ ((x + 1) % TotalMod) % Pieces
              = IF (x % Pieces) + 1 = Pieces THEN 0 ELSE (x % Pieces) + 1
<1> DEFINE p == Pieces
           t == TotalMod
<1>1. p \in Nat \ {0} /\ t \in Nat \ {0} /\ t % p = 0
  BY Sizes
<1>2. x \in 0 .. t - 1
  OBVIOUS
<1> HIDE MessengerAssumption DEF p, t
<1>3. ((x + 1) % t) % p = (x + 1) % p /\ (x + 1) % t \in 0 .. t - 1
  <2>1. CASE x + 1 < t
    BY <1>1, <1>2, <2>1
  <2>2. CASE x + 1 = t
    <3>1. (x + 1) % t = 0
      BY <1>1, <2>2
    <3>2. 0 % p = 0 /\ (x + 1) % p = 0
      BY <1>1, <2>2
    <3> QED
      BY <1>1, <3>1, <3>2
  <2> QED
    BY <1>1, <1>2, <2>1, <2>2
<1>4. PICK d \in Nat, r \in Nat : x = p * d + r /\ r < p /\ r = x % p
  <2>1. x \div p \in Nat /\ x % p \in Nat /\ x = p * (x \div p) + (x % p) /\ x % p < p
    BY <1>1, <1>2
  <2> QED
    BY <2>1
<1>5. CASE r + 1 < p
  <2>1. x + 1 = p * d + (r + 1) /\ r + 1 \in Nat
    BY <1>1, <1>4
  <2>2. (p * d + (r + 1)) % p = r + 1
    BY <1>1, <1>5
  <2>3. (x + 1) % p = r + 1
    BY <2>1, <2>2
  <2>4. ((x + 1) % t) % p = IF (x % p) + 1 = p THEN 0 ELSE (x % p) + 1
    BY <1>1, <1>3, <1>4, <1>5, <2>3
  <2> QED
    BY <1>3, <2>4 DEF p, t
<1>6. CASE r + 1 = p
  <2>1. x + 1 = p * (d + 1) /\ d + 1 \in Nat
    BY <1>1, <1>4, <1>6
  <2>2. (p * (d + 1)) % p = 0
    BY <1>1, <2>1
  <2>3. (x + 1) % p = 0
    BY <2>1, <2>2
  <2>4. ((x + 1) % t) % p = IF (x % p) + 1 = p THEN 0 ELSE (x % p) + 1
    BY <1>1, <1>3, <1>4, <1>6, <2>3
  <2> QED
    BY <1>3, <2>4 DEF p, t
<1> QED
  BY <1>1, <1>4, <1>5, <1>6

-----------------------------------------------------------------------------
(* What is waiting                                                         *)

\* Successes come first: the last of them tells how many there are.
LEMMA LastSuccess ==
  ASSUME NEW ok, NEW s \in Nat, ok = 1 .. s
  PROVE  (IF ok = {} THEN 0 ELSE CHOOSE k \in ok : \A j \in ok : j <= k) = s
<1>1. CASE s = 0
  BY <1>1
<1>2. CASE s # 0
  <2>1. s \in ok /\ \A j \in ok : j <= s
    BY <1>2
  <2>2. ASSUME NEW k \in ok, \A j \in ok : j <= k PROVE k = s
    BY <2>1, <2>2
  <2>3. (CHOOSE k \in ok : \A j \in ok : j <= k) = s
    BY <2>1, <2>2
  <2> QED
    BY <2>1, <2>3
<1> QED
  BY <1>1, <1>2

\* Waiting is the window without the pieces that are still posted.
WaitingKnown ==
  \A b \in 0 .. Pieces - 1, l \in 0 .. Pieces, s \in Nat :
    TypeOK /\ s <= Len(rcq) /\ Window(b, l, s)
      => /\ Waiting \in [1 .. Ahead + s -> Messages]
         /\ \A k \in 1 .. Ahead + s : /\ Base + (k - 1) * kRecvMaxBytes = Start(b + k - 1)
                                      /\ Waiting[k] = recvBuf[Start(b + k - 1)]

LEMMA WaitingIs == WaitingKnown
<1> SUFFICES ASSUME NEW b \in 0 .. Pieces - 1, NEW l \in 0 .. Pieces, NEW s \in Nat,
                    TypeOK, s <= Len(rcq), Window(b, l, s)
             PROVE  /\ Waiting \in [1 .. Ahead + s -> Messages]
                    /\ \A k \in 1 .. Ahead + s :
                         /\ Base + (k - 1) * kRecvMaxBytes = Start(b + k - 1)
                         /\ Waiting[k] = recvBuf[Start(b + k - 1)]
  BY DEF WaitingKnown
<1>1. Base = Start(b) /\ b \in Nat
  <2>1. b \in Nat
    BY Sizes
  <2>2. CASE rpc = "prepare"
    BY <2>1, <2>2, Starts DEF Base, Window
  <2>3. CASE rpc # "prepare"
    BY <2>1, <2>3 DEF Base, Window
  <2> QED
    BY <2>2, <2>3
<1>2. {k \in 1 .. Len(rcq) : rcq[k][1] = "SUCCESS"} = 1 .. s
  BY DEF Window, TypeOK
<1>3. Waiting = [k \in 1 .. Ahead + s |-> recvBuf[Base + (k - 1) * kRecvMaxBytes]]
  <2> DEFINE ok == {k \in 1 .. Len(rcq) : rcq[k][1] = "SUCCESS"}
             last == IF ok = {} THEN 0 ELSE CHOOSE k \in ok : \A j \in ok : j <= k
  <2>1. ok = 1 .. s
    BY <1>2
  <2>2. last = s
    <3> HIDE DEF ok
    <3> QED
      BY <2>1, LastSuccess
  <2>3. Waiting = [k \in 1 .. Ahead + last |-> recvBuf[Base + (k - 1) * kRecvMaxBytes]]
    BY DEF Waiting, Ahead
  <2> HIDE DEF last
  <2> QED
    BY <2>2, <2>3
<1>4. ASSUME NEW k \in 1 .. Ahead + s
      PROVE  Base + (k - 1) * kRecvMaxBytes = Start(b + k - 1)
  <2>1. k - 1 \in Nat /\ b + (k - 1) = b + k - 1
    BY <1>1 DEF Ahead
  <2>2. Start(b) + (k - 1) * kRecvMaxBytes = Start(b + (k - 1))
    BY <1>1, <2>1, Starts
  <2> QED
    BY <1>1, <2>1, <2>2
<1>5. Waiting = [k \in 1 .. Ahead + s |-> recvBuf[Start(b + k - 1)]]
  BY <1>3, <1>4
<1>6. ASSUME NEW k \in 1 .. Ahead + s PROVE recvBuf[Start(b + k - 1)] \in Messages
  <2>1. b + Ahead + s <= Pieces
    <3>1. Len(rcq) \in Nat /\ Len(rq) \in Nat /\ Ahead \in Nat
      BY DEF TypeOK, Ahead
    <3> QED
      BY <1>1, <3>1, Sizes DEF Window
  <2>2. b + k - 1 \in Nat /\ b + k - 1 <= Pieces
    BY <1>1, <2>1, Sizes DEF Ahead
  <2>3. Start(b + k - 1) \in Addresses
    <3> DEFINE n == b + k - 1
    <3>1. n \in Nat /\ n <= Pieces
      BY <2>2
    <3> HIDE DEF n
    <3>2. Start(n) \in Nat /\ Start(n) <= Capacity
      BY <3>1, Starts
    <3>3. Start(n) \in Addresses
      BY <3>2, Sizes DEF Addresses
    <3> QED
      BY <3>3 DEF n
  <2> QED
    BY <2>3 DEF TypeOK
<1> QED
  BY <1>4, <1>5, <1>6

LEMMA WaitingWas == WaitingKnown'
BY WaitingIs, PTL

-----------------------------------------------------------------------------
(* The steps                                                               *)

\* The window of a state, with its contents.
Held(b, l, s) == s <= Len(rcq) /\ Window(b, l, s) /\ Contents(b, s)

HeldSome == \E b \in 0 .. Pieces - 1, l \in 0 .. Pieces, s \in Nat : Held(b, l, s)

LEMMA HeldIs == TypeOK => (ReceiverOK <=> HeldSome)
<1> SUFFICES ASSUME TypeOK PROVE ReceiverOK <=> HeldSome
  OBVIOUS
<1>1. Len(rcq) \in Nat
  BY DEF TypeOK
<1>2. \A s \in Nat : s <= Len(rcq) <=> s \in 0 .. Len(rcq)
  BY <1>1
<1>3. \A s \in 0 .. Len(rcq) : s \in Nat
  BY <1>1
<1> QED
  BY <1>2, <1>3, Zenon DEF ReceiverOK, HeldSome, Held

LEMMA InitOK == Init => MessengerInv
<1> SUFFICES ASSUME Init PROVE MessengerInv
  OBVIOUS
<1>1. 0 \in Addresses
  BY Sizes DEF Addresses
<1>2. TypeOK
  BY <1>1 DEF Init, TypeOK, Messages, Completions
<1>3. SenderOK
  BY DEF Init, SenderOK
<1>4. 0 % Pieces = 0
  BY Sizes
<1>5. Window(0, 0, 0) /\ Contents(0, 0)
  BY <1>4, Starts, Sizes DEF Init, Window, Contents, Ahead
<1>6. 0 \in 0 .. Pieces - 1 /\ 0 \in 0 .. Pieces /\ 0 \in 0 .. Len(rcq)
  BY Sizes DEF Init
<1> QED
  BY <1>2, <1>3, <1>5, <1>6 DEF MessengerInv, ReceiverOK

\* What the sender and the wire leave alone.
Untouched == UNCHANGED <<rq, rcq, receiverVars, recvBuf>>

\* A window that nobody touches stays, also when the connection breaks.
LEMMA UntouchedHeld ==
  ASSUME NEW b, NEW l, NEW s, Held(b, l, s), Untouched, rqp' \in {rqp, "ERR"}
  PROVE  Held(b, l, s)'
<1>1. /\ rq' = rq /\ rcq' = rcq /\ rpc' = rpc /\ curr' = curr /\ rwc' = rwc
      /\ recvNext' = recvNext /\ recvTotal' = recvTotal /\ recvBuf' = recvBuf
  BY DEF Untouched, receiverVars
<1>2. Ahead' = Ahead
  BY <1>1 DEF Ahead
<1>3. Window(b, l, s)'
  BY <1>1, <1>2 DEF Held, Window
<1>4. Contents(b, s)'
  BY <1>1, <1>2 DEF Held, Contents
<1> QED
  BY <1>1, <1>3, <1>4 DEF Held

LEMMA SendTooLargeOK ==
  ASSUME NEW m \in Message, TypeOK, SenderOK, SendTooLarge(m)
  PROVE  TypeOK' /\ SenderOK' /\ Untouched /\ rqp' \in {rqp, "ERR"}
<1>1. TypeOK'
  BY DEF TypeOK, SendTooLarge, wireVars, receiverVars, Messages
<1>2. SenderOK'
  BY DEF SenderOK, SendTooLarge, wireVars, receiverVars
<1> QED
  BY <1>1, <1>2 DEF SendTooLarge, wireVars, Untouched

LEMMA SendPostOK ==
  ASSUME NEW m \in Message, TypeOK, SenderOK, SendPost(m)
  PROVE  TypeOK' /\ SenderOK' /\ Untouched /\ rqp' \in {rqp, "ERR"}
<1>1. Size[m] \in Nat /\ Size[m] <= Capacity /\ sendNext \in Nat
      /\ sendNext <= Capacity /\ Capacity \in Nat
  BY Sizes DEF SendPost, Fits, TypeOK, Addresses
<1>2. sendNext' \in Addresses /\ sendNext' + Size[m] <= Capacity
  BY <1>1 DEF SendPost, SendAddress, Addresses
<1>3. TypeOK'
  BY <1>2 DEF TypeOK, SendPost, receiverVars, Messages
<1>4. SenderOK'
  BY <1>2 DEF SenderOK, SendPost, receiverVars, Fits
<1> QED
  BY <1>3, <1>4 DEF SendPost, Untouched

LEMMA SendReturnOK ==
  ASSUME TypeOK, SenderOK, SendReturn
  PROVE  TypeOK' /\ SenderOK' /\ Untouched /\ rqp' \in {rqp, "ERR"}
<1>1. sendNext' \in Addresses
  <2>1. msg \in Message /\ sendNext + Size[msg] <= Capacity
    BY DEF SenderOK, SendReturn
  <2>2. Size[msg] \in Nat /\ sendNext \in Nat /\ Capacity \in Nat
    BY <2>1, Sizes DEF TypeOK, Addresses
  <2>3. CASE wc = "SUCCESS"
    BY <2>1, <2>2, <2>3 DEF SendReturn, Addresses
  <2>4. CASE wc # "SUCCESS"
    BY <2>4 DEF SendReturn, TypeOK
  <2> QED
    BY <2>3, <2>4
<1>2. status' \in {"OK", "Internal"}
  BY DEF SendReturn
<1>3. TypeOK'
  BY <1>1, <1>2 DEF TypeOK, SendReturn, receiverVars
<1>4. SenderOK'
  BY DEF SenderOK, SendReturn, receiverVars
<1> QED
  BY <1>3, <1>4 DEF SendReturn, Untouched

LEMMA ReceiverNotReadyOK ==
  ASSUME TypeOK, SenderOK, ReceiverNotReady
  PROVE  TypeOK' /\ SenderOK' /\ Untouched /\ rqp' \in {rqp, "ERR"}
<1>1. rnr' \in 0 .. RnrRetry /\ wc' \in {wc, "RNR_RETRY_EXC"} /\ sqp' \in {sqp, "ERR"}
  BY DEF ReceiverNotReady, TypeOK
<1>2. TypeOK'
  BY <1>1 DEF TypeOK, ReceiverNotReady, senderVars, receiverVars
<1>3. SenderOK'
  BY <1>1 DEF SenderOK, ReceiverNotReady, OnWire, senderVars, receiverVars
<1> QED
  BY <1>2, <1>3 DEF ReceiverNotReady, Untouched

LEMMA FlushSendOK ==
  ASSUME TypeOK, SenderOK, FlushSend
  PROVE  TypeOK' /\ SenderOK' /\ Untouched /\ rqp' \in {rqp, "ERR"}
<1>1. TypeOK'
  BY DEF TypeOK, FlushSend, senderVars, receiverVars
<1>2. SenderOK'
  BY DEF SenderOK, FlushSend, senderVars, receiverVars
<1> QED
  BY <1>1, <1>2 DEF FlushSend, Untouched

LEMMA DisconnectOK ==
  ASSUME TypeOK, SenderOK, Disconnect
  PROVE  TypeOK' /\ SenderOK' /\ Untouched /\ rqp' \in {rqp, "ERR"}
<1>1. TypeOK'
  BY DEF TypeOK, Disconnect, senderVars, receiverVars
<1>2. SenderOK'
  BY DEF SenderOK, Disconnect, senderVars, receiverVars
<1> QED
  BY <1>1, <1>2 DEF Disconnect, Untouched

\* A message arrives in the first piece posted, behind those that wait.
LEMMA TransmitOK ==
  ASSUME TypeOK, SenderOK, Transmit,
         NEW b \in 0 .. Pieces - 1, NEW l \in 0 .. Pieces, NEW s \in Nat, Held(b, l, s)
  PROVE  /\ TypeOK' /\ SenderOK' /\ Held(b, l, s + 1)'
         /\ Head(rq) = Start(b + Ahead + s)
         /\ \A k \in 1 .. Ahead + s : Start(b + k - 1) # Head(rq)
<1>1. /\ msg \in Message /\ Size[msg] \in Nat
      /\ rpc' = rpc /\ curr' = curr /\ rwc' = rwc /\ recvNext' = recvNext
      /\ recvTotal' = recvTotal /\ rqp' = rqp /\ rqp = "RTS" /\ Ahead' = Ahead
      /\ Ahead \in {0, 1}
  BY DEF Transmit, OnWire, SenderOK, receiverVars, Ahead
<1> HIDE MessengerAssumption
<1>2. /\ rq \in Seq(Addresses) /\ rq # <<>> /\ rcq \in Seq(Completions)
      /\ rq' = Tail(rq) /\ rcq' = Append(rcq, <<"SUCCESS", Size[msg]>>)
  BY DEF TypeOK, Transmit
<1>3. /\ Len(rq) \in Nat \ {0} /\ Len(rcq) \in Nat /\ Len(rq') = Len(rq) - 1
      /\ rq' \in Seq(Addresses) /\ Len(rcq') = Len(rcq) + 1
      /\ Head(rq) = rq[1] /\ rq[1] \in Addresses
      /\ \A k \in 1 .. Len(rq') : rq'[k] = rq[k + 1] /\ k + 1 \in 1 .. Len(rq)
  BY <1>2
<1>4. /\ \A k \in 1 .. Len(rcq) : rcq'[k] = rcq[k]
      /\ rcq'[Len(rcq) + 1] = <<"SUCCESS", Size[msg]>>
  BY <1>2
<1>5. <<"SUCCESS", Size[msg]>> \in Completions
  BY <1>1 DEF Completions
<1>6. rcq' \in Seq(Completions)
  BY <1>2, <1>5
<1>7. recvBuf' = [recvBuf EXCEPT ![rq[1]] = msg] /\ recvBuf \in [Addresses -> Messages]
  BY <1>3 DEF Transmit, TypeOK
<1>8. TypeOK'
  BY <1>1, <1>3, <1>6, <1>7 DEF TypeOK, Transmit, senderVars, receiverVars, Messages
<1>9. SenderOK'
  BY DEF SenderOK, Transmit, OnWire, senderVars, receiverVars
<1>10. b \in Nat /\ l \in Nat
  BY Sizes
<1>11. /\ s = Len(rcq) /\ b + Ahead + Len(rcq) + Len(rq) = l
       /\ \A k \in 1 .. Len(rq) : rq[k] = Start(l - Len(rq) + k - 1)
  BY <1>1 DEF Held, Window
<1>12. rq[1] = Start(b + Ahead + s)
  <2>1. l - Len(rq) + 1 - 1 = b + Ahead + s /\ 1 \in 1 .. Len(rq)
    BY <1>1, <1>3, <1>10, <1>11
  <2> QED
    BY <2>1, <1>11
<1>13. Window(b, l, s + 1)'
  <2>1. /\ rpc' = "prepare" => b = 0 /\ curr' = Start(l) /\ l < Pieces
        /\ rpc' # "prepare" => recvNext' = Start(b) /\ l = Pieces /\ curr' = 0
        /\ recvTotal' % Pieces = b
    BY <1>1 DEF Held, Window
  <2>2. \A k \in 1 .. Len(rcq') : rcq'[k][1] = "SUCCESS" <=> k <= s + 1
    <3> SUFFICES ASSUME NEW k \in 1 .. Len(rcq') PROVE rcq'[k][1] = "SUCCESS" /\ k <= s + 1
      OBVIOUS
    <3>1. CASE k \in 1 .. Len(rcq)
      BY <3>1, <1>3, <1>4, <1>11 DEF Held, Window
    <3>2. CASE k = Len(rcq) + 1
      BY <3>2, <1>3, <1>4, <1>11
    <3> QED
      BY <1>3, <3>1, <3>2
  <2>3. b + Ahead' + Len(rcq') + Len(rq') = l /\ s + 1 = Len(rcq')
    <3>1. Len(rcq') + Len(rq') = Len(rcq) + Len(rq) /\ s + 1 = Len(rcq')
      BY <1>3, <1>11
    <3>2. /\ Len(rcq') \in Nat /\ Len(rq') \in Nat /\ Len(rcq) \in Nat
          /\ Len(rq) \in Nat /\ Ahead \in Nat
      BY <1>1, <1>3
    <3>3. b + Ahead + Len(rcq) + Len(rq) = l /\ Len(rcq') = Len(rcq) + 1
          /\ Len(rq') = Len(rq) - 1
      BY <1>3, <1>11
    <3>4. b + Ahead + (Len(rcq) + 1) + (Len(rq) - 1) = l
      BY <1>10, <3>2, <3>3
    <3> QED
      BY <1>1, <3>1, <3>3, <3>4
  <2>4. \A k \in 1 .. Len(rq') : rq'[k] = Start(l - Len(rq') + k - 1)
    <3> SUFFICES ASSUME NEW k \in 1 .. Len(rq') PROVE rq'[k] = Start(l - Len(rq') + k - 1)
      OBVIOUS
    <3>1. rq'[k] = Start(l - Len(rq) + (k + 1) - 1)
      BY <1>3, <1>11
    <3>2. l - Len(rq) + (k + 1) - 1 = l - Len(rq') + k - 1
      BY <1>3, <1>10
    <3> QED
      BY <3>1, <3>2
  <2>5. b + Ahead' + Len(rcq') + Len(rq') <= l
    BY <1>10, <2>3
  <2> QED
    BY <2>1, <2>2, <2>3, <2>4, <2>5, Zenon DEF Window
<1>14. \A k \in 1 .. Ahead + s : Start(b + k - 1) # rq[1]
  <2> SUFFICES ASSUME NEW k \in 1 .. Ahead + s PROVE Start(b + k - 1) # rq[1]
    OBVIOUS
  <2> DEFINE x == b + k - 1
             y == b + Ahead + s
  <2>1. x \in Nat /\ y \in Nat /\ x # y
    BY <1>1, <1>10
  <2>2. rq[1] = Start(y)
    BY <1>12
  <2> HIDE DEF x, y
  <2>3. Start(x) # rq[1]
    BY <2>1, <2>2, Starts
  <2> QED
    BY <2>3 DEF x
<1>15. \A k \in 1 .. Ahead + s : recvBuf'[Start(b + k - 1)] = recvBuf[Start(b + k - 1)]
  BY <1>7, <1>14
<1>16. recvBuf'[Start(b + Ahead + s)] = msg
  BY <1>3, <1>7, <1>12
<1>17. Contents(b, s + 1)'
  <2>1. ASSUME rpc' = "copy"
        PROVE  recvBuf'[Start(b)] \in Message /\ rwc'[2] = Size[recvBuf'[Start(b)]]
    <3>1. 1 \in 1 .. Ahead + s /\ b + 1 - 1 = b
      BY <1>1, <1>10, <2>1 DEF Ahead
    <3>2. recvBuf'[Start(b)] = recvBuf[Start(b)]
      BY <1>15, <3>1
    <3> QED
      BY <1>1, <2>1, <3>2 DEF Held, Contents
  <2>2. ASSUME NEW k \in 1 .. s + 1
        PROVE  /\ recvBuf'[Start(b + Ahead' + k - 1)] \in Message
               /\ rcq'[k][2] = Size[recvBuf'[Start(b + Ahead' + k - 1)]]
    <3>1. CASE k \in 1 .. s
      <4>1. Ahead + k \in 1 .. Ahead + s /\ b + (Ahead + k) - 1 = b + Ahead + k - 1
        BY <1>1, <1>10, <3>1
      <4>2. recvBuf'[Start(b + Ahead + k - 1)] = recvBuf[Start(b + Ahead + k - 1)]
        BY <1>15, <4>1
      <4>3. rcq'[k] = rcq[k]
        BY <1>4, <1>11, <3>1
      <4> QED
        BY <1>1, <3>1, <4>2, <4>3 DEF Held, Contents
    <3>2. CASE k = s + 1
      <4>1. b + Ahead + k - 1 = b + Ahead + s
        BY <1>1, <1>10, <3>2
      <4>2. rcq'[k] = <<"SUCCESS", Size[msg]>>
        BY <1>4, <1>11, <3>2
      <4> QED
        BY <1>1, <1>16, <4>1, <4>2
    <3> QED
      BY <3>1, <3>2
  <2> QED
    BY <2>1, <2>2 DEF Contents
<1> QED
  BY <1>3, <1>8, <1>9, <1>11, <1>12, <1>13, <1>14, <1>17 DEF Held

\* A flushed receive is behind every success.
LEMMA FlushRecvOK ==
  ASSUME TypeOK, SenderOK, FlushRecv,
         NEW b \in 0 .. Pieces - 1, NEW l \in 0 .. Pieces, NEW s \in Nat, Held(b, l, s)
  PROVE  TypeOK' /\ SenderOK' /\ Held(b, l, s)'
<1>1. /\ rpc' = rpc /\ curr' = curr /\ rwc' = rwc /\ recvNext' = recvNext
      /\ recvTotal' = recvTotal /\ rqp' = rqp /\ rqp = "ERR" /\ Ahead' = Ahead
      /\ Ahead \in {0, 1} /\ recvBuf' = recvBuf
  BY DEF FlushRecv, receiverVars, wireVars, Ahead
<1> HIDE MessengerAssumption
<1>2. /\ rq \in Seq(Addresses) /\ rq # <<>> /\ rcq \in Seq(Completions)
      /\ rq' = Tail(rq) /\ rcq' = Append(rcq, <<"WR_FLUSH", 0>>)
  BY DEF TypeOK, FlushRecv
<1>3. /\ Len(rq) \in Nat \ {0} /\ Len(rcq) \in Nat /\ Len(rq') = Len(rq) - 1
      /\ rq' \in Seq(Addresses) /\ Len(rcq') = Len(rcq) + 1
      /\ \A k \in 1 .. Len(rq') : rq'[k] = rq[k + 1] /\ k + 1 \in 1 .. Len(rq)
  BY <1>2
<1>4. /\ \A k \in 1 .. Len(rcq) : rcq'[k] = rcq[k]
      /\ rcq'[Len(rcq) + 1] = <<"WR_FLUSH", 0>>
  BY <1>2
<1>5. <<"WR_FLUSH", 0>> \in Completions
  BY DEF Completions
<1>6. rcq' \in Seq(Completions)
  BY <1>2, <1>5
<1>7. TypeOK'
  BY <1>1, <1>3, <1>6 DEF TypeOK, FlushRecv, senderVars, wireVars, receiverVars
<1>8. SenderOK'
  BY DEF SenderOK, FlushRecv, senderVars, wireVars, receiverVars
<1>9. b \in Nat /\ l \in Nat /\ s <= Len(rcq)
  BY Sizes DEF Held
<1>10. Window(b, l, s)'
  <2>1. /\ rpc' = "prepare" => b = 0 /\ curr' = Start(l) /\ l < Pieces
        /\ rpc' # "prepare" => recvNext' = Start(b) /\ l = Pieces /\ curr' = 0
        /\ recvTotal' % Pieces = b
    BY <1>1 DEF Held, Window
  <2>2. \A k \in 1 .. Len(rcq') : rcq'[k][1] = "SUCCESS" <=> k <= s
    <3> SUFFICES ASSUME NEW k \in 1 .. Len(rcq') PROVE rcq'[k][1] = "SUCCESS" <=> k <= s
      OBVIOUS
    <3>1. CASE k \in 1 .. Len(rcq)
      BY <3>1, <1>3, <1>4 DEF Held, Window
    <3>2. CASE k = Len(rcq) + 1
      BY <3>2, <1>3, <1>4, <1>9
    <3> QED
      BY <1>3, <3>1, <3>2
  <2>3. b + Ahead' + Len(rcq') + Len(rq') <= l
    <3>1. b + Ahead + Len(rcq) + Len(rq) <= l
      BY DEF Held, Window
    <3>2. b + Ahead + (Len(rcq) + 1) + (Len(rq) - 1) <= l
      BY <1>1, <1>3, <1>9, <3>1
    <3> QED
      BY <1>1, <1>3, <3>2
  <2>4. \A k \in 1 .. Len(rq') : rq'[k] = Start(l - Len(rq') + k - 1)
    <3> SUFFICES ASSUME NEW k \in 1 .. Len(rq') PROVE rq'[k] = Start(l - Len(rq') + k - 1)
      OBVIOUS
    <3>1. rq'[k] = Start(l - Len(rq) + (k + 1) - 1)
      BY <1>3 DEF Held, Window
    <3>2. l - Len(rq) + (k + 1) - 1 = l - Len(rq') + k - 1
      BY <1>3, <1>9
    <3> QED
      BY <3>1, <3>2
  <2> QED
    BY <2>1, <2>2, <2>3, <2>4, <1>1 DEF Window
<1>11. Contents(b, s)'
  <2>1. \A k \in 1 .. s : rcq'[k] = rcq[k]
    BY <1>3, <1>4, <1>9
  <2> QED
    BY <1>1, <2>1 DEF Held, Contents
<1> QED
  BY <1>3, <1>7, <1>8, <1>9, <1>10, <1>11 DEF Held

\* One turn of the loop posts the piece behind those posted before.
LEMMA PostRecvOK ==
  ASSUME TypeOK, SenderOK, PostRecv,
         NEW b \in 0 .. Pieces - 1, NEW l \in 0 .. Pieces, NEW s \in Nat, Held(b, l, s)
  PROVE  /\ TypeOK' /\ SenderOK' /\ Held(b, l + 1, s)' /\ l + 1 \in 0 .. Pieces
         /\ Ahead = 0 /\ Ahead' = 0
<1>1. /\ rpc = "prepare" /\ rcq' = rcq /\ rwc' = rwc /\ recvTotal' = recvTotal
      /\ recvBuf' = recvBuf /\ rqp' = rqp /\ rpc' \in {"prepare", "idle"}
      /\ Ahead = 0 /\ Ahead' = 0
  BY DEF PostRecv, wireVars, Ahead
<1>2. /\ rq \in Seq(Addresses) /\ curr \in Addresses /\ rq' = Append(rq, curr)
      /\ rcq \in Seq(Completions)
  BY DEF TypeOK, PostRecv
<1>3. /\ Len(rq) \in Nat /\ Len(rcq) \in Nat /\ Len(rq') = Len(rq) + 1
      /\ rq' \in Seq(Addresses) /\ rq'[Len(rq) + 1] = curr
      /\ \A k \in 1 .. Len(rq) : rq'[k] = rq[k]
  BY <1>2
<1>4. /\ b = 0 /\ curr = Start(l) /\ l < Pieces /\ l \in Nat /\ l + 1 \in Nat
      /\ Pieces \in Nat /\ l + 1 <= Pieces
  BY <1>1, Sizes DEF Held, Window
<1>5. /\ Start(l + 1) = curr + kRecvMaxBytes /\ Start(l + 1) \in Addresses
      /\ (curr + kRecvMaxBytes <= Capacity - kRecvMaxBytes <=> l + 2 <= Pieces)
      /\ 0 \in Addresses
  <2>1. Start(l + 1) = Start(l) + kRecvMaxBytes /\ Start(l + 1) \in Nat
    BY <1>4, Starts
  <2>2. Start(l + 1) <= Capacity
    BY <1>4, Starts
  <2> QED
    BY <1>4, <2>1, <2>2, LastPiece, Sizes DEF Addresses
<1>6. \/ /\ l + 1 < Pieces /\ curr' = Start(l + 1) /\ rpc' = "prepare"
         /\ recvNext' = recvNext
      \/ /\ l + 1 = Pieces /\ curr' = 0 /\ rpc' = "idle" /\ recvNext' = 0
  <2>1. CASE l + 2 <= Pieces
    BY <1>1, <1>4, <1>5, <2>1 DEF PostRecv
  <2>2. CASE ~(l + 2 <= Pieces)
    BY <1>4, <1>5, <2>2 DEF PostRecv
  <2> QED
    BY <2>1, <2>2
<1>7. TypeOK'
  <2>1. curr' \in Addresses /\ recvNext' \in Addresses
    BY <1>5, <1>6 DEF TypeOK
  <2> QED
    BY <1>1, <1>3, <2>1 DEF TypeOK, PostRecv, senderVars, wireVars
<1>8. SenderOK'
  BY <1>1 DEF SenderOK, PostRecv, senderVars, wireVars
<1>9. Window(b, l + 1, s)'
  <2>1. /\ rpc' = "prepare" => b = 0 /\ curr' = Start(l + 1) /\ l + 1 < Pieces
        /\ rpc' # "prepare" => recvNext' = Start(b) /\ l + 1 = Pieces /\ curr' = 0
    BY <1>4, <1>6, Starts
  <2>2. recvTotal' % Pieces = b
    BY <1>1 DEF Held, Window
  <2>3. \A k \in 1 .. Len(rcq') : rcq'[k][1] = "SUCCESS" <=> k <= s
    BY <1>1 DEF Held, Window
  <2>4. /\ b + Ahead' + Len(rcq') + Len(rq') <= l + 1
        /\ rqp' = "RTS" => s = Len(rcq') /\ b + Ahead' + Len(rcq') + Len(rq') = l + 1
    <3>1. /\ Len(rcq) + Len(rq) <= l
          /\ rqp = "RTS" => s = Len(rcq) /\ Len(rcq) + Len(rq) = l
      BY <1>1, <1>3, <1>4 DEF Held, Window
    <3> QED
      BY <1>1, <1>3, <1>4, <3>1
  <2>5. \A k \in 1 .. Len(rq') : rq'[k] = Start((l + 1) - Len(rq') + k - 1)
    <3> SUFFICES ASSUME NEW k \in 1 .. Len(rq') PROVE rq'[k] = Start((l + 1) - Len(rq') + k - 1)
      OBVIOUS
    <3>1. (l + 1) - Len(rq') + k - 1 = l - Len(rq) + k - 1
      BY <1>3, <1>4
    <3>2. CASE k \in 1 .. Len(rq)
      BY <1>3, <3>1, <3>2 DEF Held, Window
    <3>3. CASE k = Len(rq) + 1
      <4>1. l - Len(rq) + k - 1 = l
        BY <1>3, <1>4, <3>3
      <4> QED
        BY <1>3, <1>4, <3>1, <3>3, <4>1
    <3> QED
      BY <1>3, <3>2, <3>3
  <2> QED
    BY <2>1, <2>2, <2>3, <2>4, <2>5 DEF Window
<1>10. Contents(b, s)'
  BY <1>1 DEF Held, Contents, Ahead
<1> QED
  BY <1>1, <1>4, <1>7, <1>8, <1>9, <1>10 DEF Held

LEMMA TryDeliverUnavailableOK ==
  ASSUME TypeOK, SenderOK, TryDeliverUnavailable,
         NEW b \in 0 .. Pieces - 1, NEW l \in 0 .. Pieces, NEW s \in Nat, Held(b, l, s)
  PROVE  /\ TypeOK' /\ SenderOK' /\ Held(b, l, s)'
         /\ s = 0 /\ Ahead = 0 /\ Ahead' = 0
<1>1. TypeOK'
  BY DEF TypeOK, TryDeliverUnavailable, senderVars, wireVars
<1>2. SenderOK'
  BY DEF SenderOK, TryDeliverUnavailable, senderVars, wireVars
<1>3. /\ rpc' = rpc /\ curr' = curr /\ rwc' = rwc /\ recvNext' = recvNext
      /\ recvTotal' = recvTotal /\ rqp' = rqp /\ Ahead' = Ahead
      /\ Ahead = 0 /\ recvBuf' = recvBuf /\ rq' = rq /\ rcq' = rcq
  BY DEF TryDeliverUnavailable, wireVars, Ahead
<1>4. s = 0
  BY DEF TryDeliverUnavailable, Held
<1>5. Window(b, l, s)'
  BY <1>3 DEF Held, Window
<1>6. Contents(b, s)'
  BY <1>3 DEF Held, Contents
<1> QED
  BY <1>1, <1>2, <1>3, <1>4, <1>5, <1>6 DEF Held

\* A success is taken, or what waits is nothing but flushed receives.
LEMMA TryDeliverMessageOK ==
  ASSUME TypeOK, SenderOK, TryDeliverMessage,
         NEW b \in 0 .. Pieces - 1, NEW l \in 0 .. Pieces, NEW s \in Nat, Held(b, l, s)
  PROVE  /\ TypeOK' /\ SenderOK' /\ Ahead = 0
         /\ \/ s > 0 /\ Held(b, l, s - 1)' /\ Ahead' = 1 /\ result' = result
            \/ /\ s = 0 /\ Held(b, l, 0)' /\ Ahead' = 0 /\ rqp = "ERR"
               /\ result' = "Aborted"
<1>1. /\ rpc = "idle" /\ curr' = curr /\ recvNext' = recvNext
      /\ recvTotal' = recvTotal /\ rqp' = rqp /\ Ahead = 0
      /\ recvBuf' = recvBuf /\ rq' = rq
  BY DEF TryDeliverMessage, wireVars, Ahead
<1>2. rcq \in Seq(Completions) /\ rcq # <<>> /\ rcq' = Tail(rcq) /\ rq \in Seq(Addresses)
  BY DEF TypeOK, TryDeliverMessage
<1>3. /\ Len(rcq) \in Nat \ {0} /\ Len(rcq') = Len(rcq) - 1 /\ Len(rq) \in Nat
      /\ rcq' \in Seq(Completions) /\ Head(rcq) = rcq[1] /\ rcq[1] \in Completions
      /\ \A k \in 1 .. Len(rcq') : rcq'[k] = rcq[k + 1] /\ k + 1 \in 1 .. Len(rcq)
  BY <1>2
<1>4. b \in Nat /\ l \in Nat /\ s <= Len(rcq) /\ 1 \in 1 .. Len(rcq)
  BY <1>3, Sizes DEF Held
<1>5. rcq[1][1] = "SUCCESS" <=> 1 <= s
  BY <1>4 DEF Held, Window
<1>6. \/ rcq[1][1] = "SUCCESS" /\ rwc' = rcq[1] /\ rpc' = "copy" /\ result' = result
      \/ rcq[1][1] = "WR_FLUSH" /\ rwc' = rwc /\ rpc' = "idle" /\ result' = "Aborted"
  BY <1>1, <1>3 DEF TryDeliverMessage
<1>7. TypeOK'
  <2>1. /\ rwc' \in Completions /\ rpc' \in {"copy", "idle"}
        /\ result' \in Messages \cup {"Unavailable", "Aborted"}
    BY <1>3, <1>6 DEF TypeOK
  <2> QED
    BY <1>1, <1>3, <2>1 DEF TypeOK, TryDeliverMessage, senderVars, wireVars
<1>8. SenderOK'
  <2>1. rpc' # "abort"
    BY <1>6
  <2> QED
    BY <2>1 DEF SenderOK, TryDeliverMessage, senderVars, wireVars
<1>9. /\ b + Len(rcq) + Len(rq) <= l
      /\ rqp = "RTS" => s = Len(rcq) /\ b + Len(rcq) + Len(rq) = l
  BY <1>1, <1>3, <1>4 DEF Held, Window
<1>10. CASE s > 0
  <2>1. rpc' = "copy" /\ rwc' = rcq[1] /\ Ahead' = 1 /\ result' = result
    BY <1>4, <1>5, <1>6, <1>10 DEF Ahead
  <2>2. \A k \in 1 .. Len(rcq') : rcq'[k][1] = "SUCCESS" <=> k <= s - 1
    <3> SUFFICES ASSUME NEW k \in 1 .. Len(rcq') PROVE rcq'[k][1] = "SUCCESS" <=> k <= s - 1
      OBVIOUS
    <3>1. rcq'[k][1] = "SUCCESS" <=> k + 1 <= s
      BY <1>3 DEF Held, Window
    <3> QED
      BY <1>3, <3>1
  <2>3. /\ b + Ahead' + Len(rcq') + Len(rq') <= l
        /\ rqp' = "RTS" => s - 1 = Len(rcq') /\ b + Ahead' + Len(rcq') + Len(rq') = l
    BY <1>1, <1>3, <1>4, <1>9, <2>1
  <2>4. Window(b, l, s - 1)'
    <3>1. /\ recvNext' = Start(b) /\ l = Pieces /\ curr' = 0 /\ recvTotal' % Pieces = b
          /\ \A k \in 1 .. Len(rq') : rq'[k] = Start(l - Len(rq') + k - 1)
      BY <1>1 DEF Held, Window
    <3> QED
      BY <2>1, <2>2, <2>3, <3>1 DEF Window
  <2>5. Contents(b, s - 1)'
    <3>1. \A k \in 1 .. s : LET m == recvBuf[Start(b + 0 + k - 1)]
                           IN m \in Message /\ rcq[k][2] = Size[m]
      BY <1>1 DEF Held, Contents
    <3>2. recvBuf'[Start(b)] \in Message /\ rwc'[2] = Size[recvBuf'[Start(b)]]
      <4>1. 1 \in 1 .. s /\ b + 0 + 1 - 1 = b
        BY <1>4, <1>10
      <4> QED
        BY <1>1, <2>1, <3>1, <4>1
    <3>3. ASSUME NEW k \in 1 .. s - 1
          PROVE  /\ recvBuf'[Start(b + 1 + k - 1)] \in Message
                 /\ rcq'[k][2] = Size[recvBuf'[Start(b + 1 + k - 1)]]
      <4>1. k + 1 \in 1 .. s /\ b + 0 + (k + 1) - 1 = b + 1 + k - 1 /\ k \in 1 .. Len(rcq')
        BY <1>3, <1>4, <3>3
      <4>2. rcq'[k] = rcq[k + 1]
        BY <1>3, <4>1
      <4> QED
        BY <1>1, <3>1, <4>1, <4>2
    <3> QED
      BY <2>1, <3>2, <3>3 DEF Contents
  <2>6. s - 1 <= Len(rcq')
    BY <1>3, <1>4
  <2> QED
    BY <1>1, <1>7, <1>8, <1>10, <2>1, <2>4, <2>5, <2>6 DEF Held
<1>11. CASE s = 0
  <2>1. /\ rpc' = "idle" /\ rwc' = rwc /\ Ahead' = 0 /\ rqp = "ERR"
        /\ result' = "Aborted"
    BY <1>3, <1>5, <1>6, <1>9, <1>11 DEF Ahead, TypeOK
  <2>2. \A k \in 1 .. Len(rcq') : rcq'[k][1] = "SUCCESS" <=> k <= 0
    <3> SUFFICES ASSUME NEW k \in 1 .. Len(rcq') PROVE rcq'[k][1] # "SUCCESS" /\ ~(k <= 0)
      OBVIOUS
    <3>1. rcq'[k][1] = "SUCCESS" <=> k + 1 <= 0
      BY <1>3, <1>11 DEF Held, Window
    <3> QED
      BY <1>3, <3>1
  <2>3. b + Ahead' + Len(rcq') + Len(rq') <= l /\ rqp' # "RTS"
    BY <1>1, <1>3, <1>4, <1>9, <2>1
  <2>4. Window(b, l, 0)'
    <3>1. /\ recvNext' = Start(b) /\ l = Pieces /\ curr' = 0 /\ recvTotal' % Pieces = b
          /\ \A k \in 1 .. Len(rq') : rq'[k] = Start(l - Len(rq') + k - 1)
      BY <1>1 DEF Held, Window
    <3> QED
      BY <2>1, <2>2, <2>3, <3>1 DEF Window
  <2>5. Contents(b, 0)' /\ 0 <= Len(rcq')
    BY <1>3, <2>1 DEF Contents
  <2> QED
    BY <1>1, <1>7, <1>8, <1>11, <2>1, <2>4, <2>5 DEF Held
<1> QED
  BY <1>10, <1>11

\* The message lies in the piece recv_next_ points to; behind the last piece
\* nothing is left, and the assertion holds.
LEMMA CopyOutOK ==
  ASSUME TypeOK, SenderOK, CopyOut,
         NEW b \in 0 .. Pieces - 1, NEW l \in 0 .. Pieces, NEW s \in Nat, Held(b, l, s)
  PROVE  /\ TypeOK' /\ SenderOK' /\ Ahead = 1 /\ Ahead' = 0
         /\ result' = recvBuf[Start(b)]
         /\ \/ b + 1 \in 0 .. Pieces - 1 /\ Held(b + 1, l, s)'
            \/ s = 0 /\ Held(0, 0, 0)'
<1>1. /\ rpc = "copy" /\ curr' = curr /\ rwc' = rwc /\ rqp' = rqp /\ Ahead = 1
      /\ recvBuf' = recvBuf /\ rq' = rq /\ rcq' = rcq
  BY DEF CopyOut, wireVars, Ahead
<1>2. /\ recvNext = Start(b) /\ l = Pieces /\ curr = 0 /\ recvTotal % Pieces = b
      /\ b + 1 + Len(rcq) + Len(rq) <= l
      /\ rqp = "RTS" => s = Len(rcq) /\ b + 1 + Len(rcq) + Len(rq) = l
  BY <1>1 DEF Held, Window
<1>3. b \in Nat /\ b + 1 \in Nat /\ Pieces \in Nat /\ b + 1 <= Pieces /\ s <= Len(rcq)
  BY Sizes DEF Held
<1>4. Len(rcq) \in Nat /\ Len(rq) \in Nat
  BY DEF TypeOK
<1>5. /\ recvBuf[Start(b)] \in Message /\ rwc[2] = Size[recvBuf[Start(b)]]
      /\ \A k \in 1 .. s : LET m == recvBuf[Start(b + 1 + k - 1)]
                           IN m \in Message /\ rcq[k][2] = Size[m]
  BY <1>1 DEF Held, Contents
<1>6. result' = recvBuf[Start(b)]
  BY <1>2, <1>5 DEF CopyOut, Copied
<1>7. /\ recvNext' = Start(b + 1) /\ Start(b + 1) \in Addresses
      /\ (AllConsumed(Start(b + 1)) <=> b + 2 > Pieces)
  <2>1. Start(b + 1) = Start(b) + kRecvMaxBytes /\ Start(b + 1) \in Nat
        /\ Start(b + 1) <= Capacity
    BY <1>3, Starts
  <2>2. AllConsumed(Start(b + 1)) <=> (b + 1) + 1 > Pieces
    BY <1>3, LastPiece
  <2> QED
    BY <1>2, <1>3, <2>1, <2>2, Sizes DEF CopyOut, Addresses
<1>8. /\ recvTotal' \in 0 .. TotalMod - 1
      /\ recvTotal' % Pieces = IF b + 1 = Pieces THEN 0 ELSE b + 1
      /\ recvTotal' = (recvTotal + 1) % TotalMod
  BY <1>2, TotalCounts DEF CopyOut, TypeOK
<1>9. rpc' = IF b + 1 = Pieces THEN "prepare" ELSE "idle"
  <2>1. rpc' = IF ~AllConsumed(Start(b + 1)) THEN "idle"
               ELSE IF recvTotal' % Pieces = 0 THEN "prepare" ELSE "abort"
    BY <1>7, <1>8 DEF CopyOut
  <2>2. CASE b + 1 = Pieces
    BY <1>3, <1>7, <1>8, <2>1, <2>2
  <2>3. CASE b + 1 # Pieces
    BY <1>3, <1>7, <2>1, <2>3
  <2> QED
    BY <2>2, <2>3
<1>10. rpc' \in {"prepare", "idle"} /\ Ahead' = 0
  BY <1>9 DEF Ahead
<1>11. TypeOK'
  BY <1>1, <1>5, <1>6, <1>7, <1>8, <1>10 DEF TypeOK, CopyOut, senderVars, wireVars, Messages
<1>12. SenderOK'
  BY <1>10 DEF SenderOK, CopyOut, senderVars, wireVars
<1>13. CASE b + 1 # Pieces
  <2>1. rpc' = "idle" /\ recvTotal' % Pieces = b + 1 /\ b + 1 \in 0 .. Pieces - 1
    BY <1>3, <1>8, <1>9, <1>13
  <2>2. /\ (b + 1) + Ahead' + Len(rcq') + Len(rq') <= l
        /\ rqp' = "RTS" => s = Len(rcq') /\ (b + 1) + Ahead' + Len(rcq') + Len(rq') = l
    BY <1>1, <1>2, <1>3, <1>4, <1>10
  <2>3. Window(b + 1, l, s)'
    <3>1. /\ \A k \in 1 .. Len(rcq') : rcq'[k][1] = "SUCCESS" <=> k <= s
          /\ \A k \in 1 .. Len(rq') : rq'[k] = Start(l - Len(rq') + k - 1)
      BY <1>1 DEF Held, Window
    <3> QED
      BY <1>1, <1>2, <1>7, <2>1, <2>2, <3>1 DEF Window
  <2>4. Contents(b + 1, s)'
    <3>1. ASSUME NEW k \in 1 .. s
          PROVE  /\ recvBuf'[Start((b + 1) + 0 + k - 1)] \in Message
                 /\ rcq'[k][2] = Size[recvBuf'[Start((b + 1) + 0 + k - 1)]]
      <4>1. (b + 1) + 0 + k - 1 = b + 1 + k - 1
        BY <1>3
      <4> QED
        BY <1>1, <1>5, <4>1
    <3> QED
      BY <1>10, <2>1, <3>1 DEF Contents
  <2> QED
    BY <1>1, <1>3, <1>6, <1>10, <1>11, <1>12, <2>1, <2>3, <2>4 DEF Held
<1>14. CASE b + 1 = Pieces
  <2>1. rpc' = "prepare" /\ recvTotal' % Pieces = 0
    BY <1>8, <1>9, <1>14
  <2>2. Len(rcq) = 0 /\ Len(rq) = 0 /\ s = 0
    BY <1>2, <1>3, <1>4, <1>14
  <2>3. Window(0, 0, 0)' /\ Contents(0, 0)'
    BY <1>1, <1>2, <1>10, <2>1, <2>2, Starts, Sizes DEF Window, Contents
  <2> QED
    BY <1>1, <1>6, <1>10, <1>11, <1>12, <2>2, <2>3 DEF Held
<1> QED
  BY <1>13, <1>14

-----------------------------------------------------------------------------
(* The invariant                                                           *)

LEMMA HeldWas == (TypeOK => (ReceiverOK <=> HeldSome))'
BY HeldIs, PTL

LEMMA NextOK == MessengerInv /\ [Next]_vars => MessengerInv'
<1> SUFFICES ASSUME MessengerInv, [Next]_vars PROVE TypeOK' /\ SenderOK' /\ HeldSome'
  BY HeldWas DEF MessengerInv
<1>1. TypeOK /\ SenderOK
  BY DEF MessengerInv
<1>2. PICK b \in 0 .. Pieces - 1, l \in 0 .. Pieces, s \in Nat : Held(b, l, s)
  BY HeldIs DEF MessengerInv, HeldSome
<1>3. \A b2 \in 0 .. Pieces - 1, l2 \in 0 .. Pieces, s2 \in Nat :
        Held(b2, l2, s2)' => HeldSome'
  BY DEF HeldSome
<1>4. ASSUME Untouched, rqp' \in {rqp, "ERR"} PROVE HeldSome'
  BY <1>2, <1>3, <1>4, UntouchedHeld
<1>5. ASSUME NEW m \in Message, SendTooLarge(m) PROVE TypeOK' /\ SenderOK' /\ HeldSome'
  BY <1>1, <1>4, <1>5, SendTooLargeOK
<1>6. ASSUME NEW m \in Message, SendPost(m) PROVE TypeOK' /\ SenderOK' /\ HeldSome'
  BY <1>1, <1>4, <1>6, SendPostOK
<1>7. CASE SendReturn
  BY <1>1, <1>4, <1>7, SendReturnOK
<1>8. CASE Transmit
  <2>1. s + 1 \in Nat
    OBVIOUS
  <2> QED
    BY <1>1, <1>2, <1>3, <1>8, <2>1, TransmitOK
<1>9. CASE ReceiverNotReady
  BY <1>1, <1>4, <1>9, ReceiverNotReadyOK
<1>10. CASE FlushSend
  BY <1>1, <1>4, <1>10, FlushSendOK
<1>11. CASE FlushRecv
  BY <1>1, <1>2, <1>3, <1>11, FlushRecvOK
<1>12. CASE Disconnect
  BY <1>1, <1>4, <1>12, DisconnectOK
<1>13. CASE PostRecv
  BY <1>1, <1>2, <1>3, <1>13, PostRecvOK
<1>14. CASE TryDeliverUnavailable
  BY <1>1, <1>2, <1>3, <1>14, TryDeliverUnavailableOK
<1>15. CASE TryDeliverMessage
  <2>1. s > 0 => s - 1 \in Nat
    OBVIOUS
  <2> QED
    BY <1>1, <1>2, <1>3, <1>15, <2>1, TryDeliverMessageOK
<1>16. CASE CopyOut
  <2>1. 0 \in 0 .. Pieces - 1 /\ 0 \in 0 .. Pieces /\ 0 \in Nat
    BY Sizes
  <2> QED
    BY <1>1, <1>2, <1>3, <1>16, <2>1, CopyOutOK
<1>17. CASE UNCHANGED vars
  <2>1. Untouched /\ rqp' = rqp
    BY <1>17 DEF vars, Untouched, wireVars
  <2>2. TypeOK'
    BY <1>1, <1>17 DEF TypeOK, vars, senderVars, wireVars, receiverVars
  <2>3. SenderOK'
    BY <1>1, <1>17 DEF SenderOK, vars, senderVars, wireVars, receiverVars
  <2> QED
    BY <1>4, <2>1, <2>2, <2>3
<1> QED
  BY <1>5, <1>6, <1>7, <1>8, <1>9, <1>10, <1>11, <1>12, <1>13, <1>14, <1>15, <1>16,
     <1>17 DEF Next

LEMMA MessengerInvHolds == Spec => []MessengerInv
BY InitOK, NextOK, PTL DEF Spec

\* Offsets stay inside the two buffers, whatever their sizes and whatever the
\* order in which messages arrive, are taken and fail.
THEOREM MessengerTypeCorrect == Spec => []TypeOK
<1>1. MessengerInv => TypeOK
  BY DEF MessengerInv
<1> QED
  BY <1>1, MessengerInvHolds, PTL

\* ROME_ASSERT(recv_total_ % (recv_capacity_ / kRecvMaxBytes) == 0) of
\* PrepareRecvBuffer never fails: the buffer is posted again only when every
\* piece has been delivered, also after recv_total_ has wrapped.
THEOREM AssertionNeverFails == Spec => [](rpc # "abort")
<1>1. MessengerInv => rpc # "abort"
  BY DEF MessengerInv, SenderOK
<1> QED
  BY <1>1, MessengerInvHolds, PTL

\* No piece of the receive buffer is posted twice, and none that holds a message
\* TryDeliverMessage has not copied out yet.
THEOREM PiecesPostedOnce == Spec => []PiecesAreExclusive
<1>1. MessengerInv => PiecesAreExclusive
  <2> SUFFICES ASSUME MessengerInv PROVE PiecesAreExclusive
    OBVIOUS
  <2>1. TypeOK
    BY DEF MessengerInv
  <2>2. PICK b \in 0 .. Pieces - 1, l \in 0 .. Pieces, s \in Nat : Held(b, l, s)
    BY HeldIs DEF MessengerInv, HeldSome
  <2>3. b \in Nat /\ l \in Nat /\ Len(rq) \in Nat /\ Len(rcq) \in Nat /\ Ahead \in Nat
    BY <2>1, Sizes DEF TypeOK, Ahead
  <2>4. s <= Len(rcq) /\ b + Ahead + Len(rcq) + Len(rq) <= l
    BY <2>2 DEF Held, Window
  <2>5. \A k \in 1 .. Len(rq) : /\ rq[k] = Start(l - Len(rq) + k - 1)
                                /\ l - Len(rq) + k - 1 \in Nat
    <3>1. \A k \in 1 .. Len(rq) : l - Len(rq) + k - 1 \in Nat
      BY <2>3, <2>4
    <3> QED
      BY <2>2, <3>1 DEF Held, Window
  <2>6. ASSUME NEW j \in 1 .. Len(rq), NEW k \in 1 .. Len(rq), rq[j] = rq[k] PROVE j = k
    <3>1. l - Len(rq) + j - 1 = l - Len(rq) + k - 1
      <4> DEFINE x == l - Len(rq) + j - 1
                 y == l - Len(rq) + k - 1
      <4>1. rq[j] = Start(x) /\ rq[k] = Start(y) /\ x \in Nat /\ y \in Nat
        BY <2>5
      <4> HIDE DEF x, y
      <4>2. x = y
        BY <2>6, <4>1, Starts
      <4> QED
        BY <4>2 DEF x, y
    <3> QED
      BY <2>3, <3>1
  <2>7. /\ Waiting \in [1 .. Ahead + s -> Messages]
        /\ \A k \in 1 .. Ahead + s : Base + (k - 1) * kRecvMaxBytes = Start(b + k - 1)
    BY <2>1, <2>2, WaitingIs DEF WaitingKnown, Held
  <2>8. Len(Waiting) = Ahead + s
    BY <2>3, <2>7
  <2>9. ASSUME NEW k \in 1 .. Len(Waiting), NEW j \in 1 .. Len(rq)
        PROVE  rq[j] # Base + (k - 1) * kRecvMaxBytes
    <3>1. k \in 1 .. Ahead + s
      BY <2>8
    <3>2. b + k - 1 \in Nat /\ b + k - 1 # l - Len(rq) + j - 1
      BY <2>3, <2>4, <3>1
    <3>3. Base + (k - 1) * kRecvMaxBytes = Start(b + k - 1)
      BY <2>7, <3>1
    <3>4. rq[j] = Start(l - Len(rq) + j - 1) /\ l - Len(rq) + j - 1 \in Nat
      BY <2>5
    <3>5. Start(b + k - 1) # Start(l - Len(rq) + j - 1)
      BY <3>2, <3>4, Starts
    <3> QED
      BY <3>3, <3>4, <3>5
  <2> QED
    BY <2>6, <2>9 DEF PiecesAreExclusive
<1> QED
  BY <1>1, MessengerInvHolds, PTL

-----------------------------------------------------------------------------
(* The refinement of MessageChannel                                        *)

\* Sequences given as functions.
LEMMA SameQueue ==
  ASSUME NEW S, NEW n \in Nat, NEW p \in [1 .. n -> S], NEW q \in [1 .. n -> S],
         \A k \in 1 .. n : q[k] = p[k]
  PROVE  q = p
OBVIOUS

LEMMA EmptyQueue ==
  ASSUME NEW S, NEW p \in [1 .. 0 -> S]
  PROVE  p = <<>>
OBVIOUS

LEMMA LongerQueue ==
  ASSUME NEW S, NEW n \in Nat, NEW p \in [1 .. n -> S], NEW q \in [1 .. n + 1 -> S],
         \A k \in 1 .. n : q[k] = p[k]
  PROVE  q = Append(p, q[n + 1])
<1>1. q \in Seq(S) /\ p \in Seq(S) /\ Len(q) = n + 1 /\ Len(p) = n
  OBVIOUS
<1> QED
  BY <1>1

LEMMA ShorterQueue ==
  ASSUME NEW S, NEW n \in Nat, NEW p \in [1 .. n + 1 -> S], NEW q \in [1 .. n -> S],
         \A k \in 1 .. n : q[k] = p[k + 1]
  PROVE  p # <<>> /\ Head(p) = p[1] /\ Tail(p) = q
<1>1. q \in Seq(S) /\ p \in Seq(S) /\ Len(p) = n + 1 /\ Len(q) = n
  OBVIOUS
<1> QED
  BY <1>1

\* What is waiting, before and after a step.
LEMMA QueueIs ==
  ASSUME TypeOK, NEW b \in 0 .. Pieces - 1, NEW l \in 0 .. Pieces, NEW s \in Nat,
         Held(b, l, s)
  PROVE  /\ Waiting \in [1 .. Ahead + s -> Messages]
         /\ \A k \in 1 .. Ahead + s : Waiting[k] = recvBuf[Start(b + k - 1)]
         /\ Ahead + s \in Nat
BY WaitingIs DEF WaitingKnown, Held, Ahead

LEMMA QueueWas ==
  ASSUME TypeOK', NEW b \in 0 .. Pieces - 1, NEW l \in 0 .. Pieces, NEW s \in Nat,
         Held(b, l, s)'
  PROVE  /\ Waiting' \in [1 .. Ahead' + s -> Messages]
         /\ \A k \in 1 .. Ahead' + s : Waiting'[k] = recvBuf'[Start(b + k - 1)]
         /\ Ahead' + s \in Nat
BY WaitingWas DEF WaitingKnown, Held, Ahead

Sending == IF spc = "posted" /\ wc = "none" THEN msg ELSE None

LEMMA UntouchedQueue == Untouched => Waiting' = Waiting /\ result' = result
BY DEF Untouched, receiverVars, Waiting, Base

LEMMA StutterIs == (Sending' = Sending /\ Waiting' = Waiting /\ sqp' = sqp /\ result' = result)
                     => UNCHANGED Channel!vars
BY DEF Channel!vars, Sending

\* One lemma per action that is a step of the channel.
LEMMA SendPostRefines ==
  ASSUME NEW m \in Message, SenderOK, SendPost(m), Untouched
  PROVE  Channel!Next
<1>1. Waiting' = Waiting /\ result' = result
  BY UntouchedQueue
<1>2. Channel!Submit(m)
  BY <1>1 DEF SendPost, SenderOK, Channel!Submit
<1> QED
  BY <1>2 DEF Channel!Next

LEMMA BreakRefines ==
  ASSUME Waiting' = Waiting, result' = result, sqp' = "ERR", Sending' \in {Sending, None}
  PROVE  Channel!Next
<1>1. Channel!Break
  BY DEF Channel!Break, Sending
<1> QED
  BY <1>1 DEF Channel!Next

LEMMA TransmitRefines ==
  ASSUME TypeOK, SenderOK, Transmit,
         NEW b \in 0 .. Pieces - 1, NEW l \in 0 .. Pieces, NEW s \in Nat, Held(b, l, s)
  PROVE  Channel!Next
<1>1. /\ TypeOK' /\ Held(b, l, s + 1)' /\ Head(rq) = Start(b + Ahead + s)
      /\ \A k \in 1 .. Ahead + s : Start(b + k - 1) # Head(rq)
  BY TransmitOK
<1>2. Ahead' = Ahead /\ b \in Nat /\ Ahead \in {0, 1}
  BY Sizes DEF Transmit, receiverVars, Ahead
<1> DEFINE n == Ahead + s
<1>3. n \in Nat /\ Ahead + (s + 1) = n + 1 /\ b + (n + 1) - 1 = b + Ahead + s
  BY <1>2
<1>4. /\ Waiting \in [1 .. n -> Messages]
      /\ \A k \in 1 .. n : Waiting[k] = recvBuf[Start(b + k - 1)]
  BY QueueIs
<1>5. /\ Waiting' \in [1 .. n + 1 -> Messages]
      /\ \A k \in 1 .. n + 1 : Waiting'[k] = recvBuf'[Start(b + k - 1)]
  <2>1. s + 1 \in Nat
    OBVIOUS
  <2> QED
    BY <1>1, <1>2, <1>3, <2>1, QueueWas
<1>6. recvBuf' = [recvBuf EXCEPT ![Head(rq)] = msg]
  BY DEF Transmit
<1>7. \A k \in 1 .. n : Waiting'[k] = Waiting[k]
  <2> SUFFICES ASSUME NEW k \in 1 .. n PROVE Waiting'[k] = Waiting[k]
    OBVIOUS
  <2>1. Waiting[k] = recvBuf[Start(b + k - 1)]
    BY <1>4
  <2>2. k \in 1 .. n + 1
    BY <1>3
  <2>3. Waiting'[k] = recvBuf'[Start(b + k - 1)]
    BY <1>5, <2>2
  <2>4. Start(b + k - 1) # Head(rq)
    BY <1>1
  <2>5. recvBuf'[Start(b + k - 1)] = recvBuf[Start(b + k - 1)]
    BY <1>6, <2>4 DEF TypeOK
  <2> QED
    BY <2>1, <2>3, <2>5
<1>8. Waiting'[n + 1] = msg
  <2>1. Waiting'[n + 1] = recvBuf'[Head(rq)]
    BY <1>1, <1>3, <1>5
  <2>2. Head(rq) \in Addresses
    BY DEF TypeOK, Transmit
  <2> QED
    BY <1>6, <2>1, <2>2 DEF TypeOK
<1>9. Waiting' = Append(Waiting, msg)
  <2> HIDE DEF n
  <2> QED
    BY <1>3, <1>4, <1>5, <1>7, <1>8, LongerQueue
<1>10. Channel!Accept
  BY <1>9 DEF Transmit, OnWire, SenderOK, senderVars, receiverVars, Channel!Accept
<1> QED
  BY <1>10 DEF Channel!Next

LEMMA CopyOutRefines ==
  ASSUME TypeOK, SenderOK, CopyOut,
         NEW b \in 0 .. Pieces - 1, NEW l \in 0 .. Pieces, NEW s \in Nat, Held(b, l, s)
  PROVE  Channel!Next
<1>1. /\ TypeOK' /\ Ahead = 1 /\ Ahead' = 0 /\ result' = recvBuf[Start(b)]
      /\ \/ b + 1 \in 0 .. Pieces - 1 /\ Held(b + 1, l, s)'
         \/ s = 0 /\ Held(0, 0, 0)'
  BY CopyOutOK
<1>2. b \in Nat /\ 1 + s = s + 1 /\ 0 + s = s /\ recvBuf' = recvBuf
  BY Sizes DEF CopyOut
<1>3. /\ Waiting \in [1 .. s + 1 -> Messages]
      /\ \A k \in 1 .. s + 1 : Waiting[k] = recvBuf[Start(b + k - 1)]
  BY <1>1, <1>2, QueueIs
<1>4. /\ Waiting' \in [1 .. s -> Messages]
      /\ \A k \in 1 .. s : Waiting'[k] = Waiting[k + 1]
  <2>1. CASE b + 1 \in 0 .. Pieces - 1 /\ Held(b + 1, l, s)'
    <3>1. /\ Waiting' \in [1 .. s -> Messages]
          /\ \A k \in 1 .. s : Waiting'[k] = recvBuf[Start((b + 1) + k - 1)]
      BY <1>1, <1>2, <2>1, QueueWas
    <3>2. ASSUME NEW k \in 1 .. s PROVE Waiting'[k] = Waiting[k + 1]
      <4>1. k + 1 \in 1 .. s + 1 /\ (b + 1) + k - 1 = b + (k + 1) - 1
        BY <1>2
      <4> QED
        BY <1>3, <3>1, <4>1
    <3> QED
      BY <3>1, <3>2
  <2>2. CASE s = 0 /\ Held(0, 0, 0)'
    <3>1. 0 \in 0 .. Pieces - 1 /\ 0 \in 0 .. Pieces /\ 0 \in Nat /\ 0 + 0 = 0
      BY Sizes
    <3>2. Waiting' \in [1 .. 0 -> Messages]
      BY <1>1, <2>2, <3>1, QueueWas
    <3> QED
      BY <2>2, <3>2
  <2> QED
    BY <1>1, <2>1, <2>2
<1>5. Waiting # <<>> /\ Head(Waiting) = Waiting[1] /\ Tail(Waiting) = Waiting'
  <2> HIDE MessengerAssumption
  <2> QED
    BY <1>3, <1>4, ShorterQueue
<1>6. Waiting[1] = recvBuf[Start(b)]
  <2>1. 1 \in 1 .. s + 1 /\ b + 1 - 1 = b
    BY <1>2
  <2> QED
    BY <1>3, <2>1
<1>7. Channel!Deliver
  BY <1>1, <1>5, <1>6 DEF CopyOut, senderVars, wireVars, Channel!Deliver
<1> QED
  BY <1>7 DEF Channel!Next

\* Nothing waits: the error is the answer.
LEMMA NothingRefines ==
  ASSUME TypeOK, TypeOK', Ahead = 0, Ahead' = 0,
         NEW b \in 0 .. Pieces - 1, NEW l \in 0 .. Pieces, Held(b, l, 0), Held(b, l, 0)',
         UNCHANGED <<senderVars, wireVars>>,
         \/ result' = "Unavailable"
         \/ result' = "Aborted" /\ sqp = "ERR"
  PROVE  Channel!Next
<1>1. Waiting \in [1 .. 0 -> Messages]
  <2>1. 0 \in Nat /\ 0 + 0 = 0
    OBVIOUS
  <2> QED
    BY <2>1, QueueIs
<1>2. Waiting' \in [1 .. 0 -> Messages]
  <2>1. 0 \in Nat /\ 0 + 0 = 0
    OBVIOUS
  <2> QED
    BY <2>1, QueueWas
<1>3. Waiting = <<>> /\ Waiting' = <<>>
  BY <1>1, <1>2, EmptyQueue
<1>4. Channel!NothingToDeliver
  BY <1>3 DEF senderVars, wireVars, Channel!NothingToDeliver, Channel!Errors
<1> QED
  BY <1>4 DEF Channel!Next

\* The steps of the receiver and of the wire that the channel does not see.
LEMMA QuietQueue ==
  ASSUME TypeOK, TypeOK', recvBuf' = recvBuf, NEW b \in 0 .. Pieces - 1,
         NEW l1 \in 0 .. Pieces, NEW l2 \in 0 .. Pieces, NEW s1 \in Nat, NEW s2 \in Nat,
         Held(b, l1, s1), Held(b, l2, s2)', Ahead + s1 = Ahead' + s2
  PROVE  Waiting' = Waiting
<1> DEFINE n == Ahead + s1
<1>1. /\ n \in Nat /\ Waiting \in [1 .. n -> Messages]
      /\ \A k \in 1 .. n : Waiting[k] = recvBuf[Start(b + k - 1)]
  BY QueueIs
<1>2. /\ Waiting' \in [1 .. n -> Messages]
      /\ \A k \in 1 .. n : Waiting'[k] = recvBuf[Start(b + k - 1)]
  BY QueueWas
<1> HIDE DEF n
<1>3. \A k \in 1 .. n : Waiting'[k] = Waiting[k]
  BY <1>1, <1>2
<1> QED
  BY <1>1, <1>2, <1>3, SameQueue

LEMMA StepRefines == MessengerInv /\ [Next]_vars => [Channel!Next]_(Channel!vars)
<1> SUFFICES ASSUME MessengerInv, [Next]_vars
             PROVE  Channel!Next \/ UNCHANGED Channel!vars
  OBVIOUS
<1>1. TypeOK /\ SenderOK
  BY DEF MessengerInv
<1>2. PICK b \in 0 .. Pieces - 1, l \in 0 .. Pieces, s \in Nat : Held(b, l, s)
  BY HeldIs DEF MessengerInv, HeldSome
<1>3. ASSUME NEW m \in Message, SendTooLarge(m) PROVE UNCHANGED Channel!vars
  <2>1. Waiting' = Waiting /\ result' = result
    BY <1>1, <1>3, SendTooLargeOK, UntouchedQueue
  <2>2. Sending' = Sending /\ sqp' = sqp
    BY <1>3 DEF SendTooLarge, wireVars, Sending
  <2> QED
    BY <2>1, <2>2, StutterIs
<1>4. ASSUME NEW m \in Message, SendPost(m) PROVE Channel!Next
  BY <1>1, <1>4, SendPostOK, SendPostRefines
<1>5. CASE SendReturn
  <2>1. Waiting' = Waiting /\ result' = result
    BY <1>1, <1>5, SendReturnOK, UntouchedQueue
  <2>2. Sending' = Sending /\ sqp' = sqp
    BY <1>5 DEF SendReturn, Sending
  <2> QED
    BY <2>1, <2>2, StutterIs
<1>6. CASE Transmit
  BY <1>1, <1>2, <1>6, TransmitRefines
<1>7. CASE ReceiverNotReady
  <2>1. Waiting' = Waiting /\ result' = result
    BY <1>1, <1>7, ReceiverNotReadyOK, UntouchedQueue
  <2>2. spc' = spc /\ msg' = msg
    BY <1>7 DEF ReceiverNotReady, senderVars
  <2>3. CASE wc' = wc /\ sqp' = sqp
    <3>1. Sending' = Sending
      BY <2>2, <2>3 DEF Sending
    <3> QED
      BY <2>1, <2>3, <3>1, StutterIs
  <2>4. CASE wc' = "RNR_RETRY_EXC" /\ sqp' = "ERR"
    <3>1. Sending' = None
      BY <2>4 DEF Sending
    <3> QED
      BY <2>1, <2>4, <3>1, BreakRefines
  <2> QED
    BY <1>7, <2>3, <2>4 DEF ReceiverNotReady
<1>8. CASE FlushSend
  <2>1. Waiting' = Waiting /\ result' = result
    BY <1>1, <1>8, FlushSendOK, UntouchedQueue
  <2>2. Sending' = None /\ sqp' = "ERR"
    BY <1>8 DEF FlushSend, Sending
  <2> QED
    BY <2>1, <2>2, BreakRefines
<1>9. CASE FlushRecv
  <2>1. /\ Sending' = Sending /\ sqp' = sqp /\ result' = result
        /\ recvBuf' = recvBuf /\ Ahead' = Ahead
    BY <1>9 DEF FlushRecv, senderVars, wireVars, receiverVars, Sending, Ahead
  <2>2. TypeOK' /\ Held(b, l, s)'
    BY <1>1, <1>2, <1>9, FlushRecvOK
  <2>3. Waiting' = Waiting
    BY <1>1, <1>2, <2>1, <2>2, QuietQueue
  <2> QED
    BY <2>1, <2>3, StutterIs
<1>10. CASE Disconnect
  <2>1. Waiting' = Waiting /\ result' = result
    BY <1>1, <1>10, DisconnectOK, UntouchedQueue
  <2>2. Sending' = Sending /\ sqp' = "ERR"
    BY <1>10 DEF Disconnect, senderVars, Sending
  <2> QED
    BY <2>1, <2>2, BreakRefines
<1>11. CASE PostRecv
  <2>1. /\ Sending' = Sending /\ sqp' = sqp /\ result' = result /\ recvBuf' = recvBuf
    BY <1>11 DEF PostRecv, senderVars, wireVars, Sending
  <2>2. TypeOK' /\ Held(b, l + 1, s)' /\ l + 1 \in 0 .. Pieces /\ Ahead' = Ahead
    BY <1>1, <1>2, <1>11, PostRecvOK
  <2>3. Waiting' = Waiting
    BY <1>1, <1>2, <2>1, <2>2, QuietQueue
  <2> QED
    BY <2>1, <2>3, StutterIs
<1>12. CASE TryDeliverUnavailable
  <2>1. TypeOK' /\ Held(b, l, s)' /\ s = 0 /\ Ahead = 0 /\ Ahead' = 0
    BY <1>1, <1>2, <1>12, TryDeliverUnavailableOK
  <2>2. UNCHANGED <<senderVars, wireVars>> /\ result' = "Unavailable"
    BY <1>12 DEF TryDeliverUnavailable
  <2> QED
    BY <1>1, <1>2, <2>1, <2>2, NothingRefines
<1>13. CASE TryDeliverMessage
  <2>1. UNCHANGED <<senderVars, wireVars>> /\ recvBuf' = recvBuf
    BY <1>13 DEF TryDeliverMessage
  <2>2. /\ TypeOK' /\ Ahead = 0
        /\ \/ s > 0 /\ Held(b, l, s - 1)' /\ Ahead' = 1 /\ result' = result
           \/ /\ s = 0 /\ Held(b, l, 0)' /\ Ahead' = 0 /\ rqp = "ERR"
              /\ result' = "Aborted"
    BY <1>1, <1>2, <1>13, TryDeliverMessageOK
  <2>3. CASE s > 0 /\ Held(b, l, s - 1)' /\ Ahead' = 1 /\ result' = result
    <3>1. s - 1 \in Nat /\ Ahead + s = Ahead' + (s - 1)
      BY <2>2, <2>3
    <3>2. Waiting' = Waiting
      BY <1>1, <1>2, <2>1, <2>2, <2>3, <3>1, QuietQueue
    <3>3. Sending' = Sending /\ sqp' = sqp
      BY <2>1 DEF senderVars, wireVars, Sending
    <3> QED
      BY <2>3, <3>2, <3>3, StutterIs
  <2>4. CASE s = 0 /\ Held(b, l, 0)' /\ Ahead' = 0 /\ rqp = "ERR" /\ result' = "Aborted"
    <3>1. sqp = "ERR"
      BY <1>1, <2>4 DEF SenderOK
    <3> QED
      BY <1>1, <1>2, <2>1, <2>2, <2>4, <3>1, NothingRefines
  <2> QED
    BY <2>2, <2>3, <2>4
<1>14. CASE CopyOut
  BY <1>1, <1>2, <1>14, CopyOutRefines
<1>15. CASE UNCHANGED vars
  <2>1. Untouched /\ Sending' = Sending /\ sqp' = sqp
    BY <1>15 DEF vars, Untouched, senderVars, wireVars, Sending
  <2> QED
    BY <2>1, UntouchedQueue, StutterIs
<1> QED
  BY <1>3, <1>4, <1>5, <1>6, <1>7, <1>8, <1>9, <1>10, <1>11, <1>12, <1>13, <1>14,
     <1>15 DEF Next

LEMMA InitRefines == Init => Channel!Init
<1> SUFFICES ASSUME Init PROVE Channel!Init
  OBVIOUS
<1>1. Len(rcq) = 0 /\ rpc = "prepare"
  BY DEF Init
<1>2. Waiting = <<>>
  <2>1. {k \in 1 .. Len(rcq) : rcq[k][1] = "SUCCESS"} = {}
    BY <1>1
  <2> QED
    BY <1>1, <2>1 DEF Waiting
<1> QED
  BY <1>2 DEF Init, Channel!Init

\* The messenger is a reliable FIFO channel, for every size of the buffers, every
\* length of the messages and every number of retries: what the hardware has
\* accepted is delivered once, in order and with its contents, also when the
\* connection breaks while it waits, and an error is reported only when nothing
\* is left.
THEOREM MessengerImplementsChannel == Spec => ImplementsChannel
<1>1. Init /\ [][Next]_vars /\ []MessengerInv => Channel!Init /\ [][Channel!Next]_(Channel!vars)
  BY InitRefines, StepRefines, PTL
<1> QED
  BY <1>1, MessengerInvHolds, PTL DEF Spec, ImplementsChannel, Channel!Spec

=============================================================================
