-------------------------- MODULE MemoryPoolProofs --------------------------
(***************************************************************************)
(* What the pools guarantee to their callers, for every set of nodes and    *)
(* lists of peers, every number of requests in a batch, all programs, any   *)
(* amount of local memory and any number of abandoned calls.                *)
(*                                                                         *)
(* There are two layers.  What is on the wire is in order whatever the      *)
(* callers do, also after a call was abandoned (WireInv).  On top of that,  *)
(* a pool none of whose calls was abandoned gets from each call what it     *)
(* asked for (PoolInv).                                                     *)
(***************************************************************************)
EXTENDS MemoryPool, FiniteSetTheorems, TLAPS

\* Keys are not mixed up: what a node has sent, and what others know of it, is its
\* own key, and the loop over the peers has the keys of those it has left behind.
KeysOK ==
  /\ \A p, n \in Node : \A k \in 1 .. Len(chan[p][n]) : chan[p][n][k] = p
  /\ \A n, p \in Node : conn_info[n][p] \in {None, p}
  /\ \A n \in Node : at[n] <= Len(Peers[n])
  /\ \A n \in Node : ipc[n] = "deliver" =>
       \A k \in 1 .. at[n] - 1 : conn_info[n][Peers[n][k]] = Peers[n][k]
  /\ \A n \in Node : ipc[n] = "ready" => conn_info[n][Home] = Home

-----------------------------------------------------------------------------
(* What is on the wire.                                                    *)

\* A request has the key of the node of the words, so it succeeds, is about the word
\* that goes with its operation, and has local memory for its answer.
RightRequest(wr) ==
  /\ wr.rkey = Home /\ (wr.done => wr.ok)
  /\ wr.op = "CAS" => wr.raddr = "swapped"
  /\ wr.op # "CAS" => wr.raddr = "data"
  /\ wr.laddr \in Buffer \cup {"prev"}

\* A pool is as many completions behind as it has abandoned calls, and waits for one
\* more during a call.
Lag(n) == Outstanding(n) = abandoned[n] + IF pc[n] = "poll" THEN 1 ELSE 0

\* What a pool has sent, or is going to send, and what has come back.
SentOK(n) ==
  /\ \A p \in Node \ {Home} : sq[n][p] = <<>> /\ cq[n][p] = <<>>
  /\ \A k \in 1 .. Len(cq[n][Home]) : cq[n][Home][k]
  /\ \A k \in 1 .. Len(sq[n][Home]) : RightRequest(sq[n][Home][k])
  /\ Len(batch[n]) <= NumOps
  /\ \A k \in 1 .. Len(batch[n]) :
       RightRequest(batch[n][k]) /\ (batch[n][k].signaled <=> k = NumOps)
  /\ pc[n] = "poll" => ipc[n] = "ready"
  /\ call[n].own => call[n].local \in Buffer
  /\ Lag(n)

\* Who reads sees what the word holds.
DataSeen ==
  \A n \in Node : pc[n] = "poll" /\ call[n].kind \in {"Read", "Execute"} =>
    mem[Home]["data"] \in during[n]

\* The inductive invariant of the first layer.
WireInv == /\ TypeOK /\ KeysOK /\ DataSeen
           /\ \A n \in Node : SentOK(n)

-----------------------------------------------------------------------------
(* A pool none of whose calls was abandoned.                               *)

\* A batch refers to memory that is allocated, each request to its own, and only
\* the last of NumOps requests is signaled.
BatchOK(n) ==
  /\ Len(batch[n]) <= NumOps
  /\ \A k \in 1 .. Len(batch[n]) :
       /\ batch[n][k].op \in {"READ", "WRITE"} /\ batch[n][k].raddr = "data"
       /\ batch[n][k].rkey = Home /\ ~batch[n][k].done
       /\ batch[n][k].laddr \in Buffer \ free[n]
       /\ batch[n][k].signaled <=> k = NumOps
  /\ \A j, k \in 1 .. Len(batch[n]) : j # k => batch[n][j].laddr # batch[n][k].laddr

Swaps == {"AtomicSwap", "CompareAndSwap"}
Copies == {"Read", "Write"}

\* Where the requests of a call read from or write to.
Locals(n) ==
  IF call[n].kind = "Execute" THEN {batch[n][k].laddr : k \in 1 .. NumOps}
  ELSE IF call[n].kind \in Copies THEN {call[n].local} ELSE {}

\* What a call in progress is: only reads and batches may be abandoned, the buffer
\* a write frees is nobody else's, and a batch is full when it is executed.
CallOK(n) ==
  /\ held[n] \cap free[n] = {}
  /\ pc[n] = "idle" => call[n] = NoCall
  /\ pc[n] # "idle" => ipc[n] = "ready"
  /\ call[n].kind \in Copies => call[n].local \in Buffer
  /\ call[n].mortal => call[n].kind \in {"Read", "Execute"}
  /\ call[n].own => /\ call[n].kind = "Write" /\ call[n].local \in Buffer
                    /\ call[n].local \notin held[n] \cup free[n]
                    /\ ~InBatch(n, call[n].local)
  /\ call[n].kind = "Write" => mem[n][call[n].local] = call[n].val
  /\ call[n].kind \in Swaps => call[n].val = hand[n]
  /\ call[n].kind = "Execute" => Len(batch[n]) = NumOps

\* A request under way has the right key and local memory of its own, which is not
\* free; the payload of a write is there until it is fetched.
RequestOK(n, wr) ==
  /\ wr.rkey = Home /\ (wr.done => wr.ok)
  /\ wr.op = "CAS" => wr.raddr = "swapped" /\ wr.laddr = "prev"
  /\ wr.op # "CAS" => wr.raddr = "data" /\ wr.laddr \in Buffer \ free[n]
  /\ wr.op = "WRITE" /\ ~wr.done => mem[n][wr.laddr] = wr.swap
  /\ wr.op = "READ" => call[n].kind \in {"Read", "Execute"}
  /\ wr.op = "CAS" <=> call[n].kind \in Swaps
  /\ wr.op = "CAS" => wr.cmp = call[n].cmp /\ wr.swap = hand[n]

\* There are requests under way, and the last one will be completed, or there is
\* the completion of the last one, or nobody waits.
QueueOK(n) ==
  /\ \A p \in Node \ {Home} : sq[n][p] = <<>> /\ cq[n][p] = <<>>
  /\ pc[n] = "idle" => sq[n][Home] = <<>> /\ cq[n][Home] = <<>>
  /\ pc[n] # "idle" =>
       cq[n][Home] = IF sq[n][Home] = <<>> THEN <<TRUE>> ELSE <<>>
  /\ \A k \in 1 .. Len(sq[n][Home]) :
       /\ RequestOK(n, sq[n][Home][k])
       /\ sq[n][Home][k].signaled <=> k = Len(sq[n][Home])
  /\ \A j, k \in 1 .. Len(sq[n][Home]) :
       j # k => sq[n][Home][j].laddr # sq[n][Home][k].laddr
  /\ call[n].kind \in Swaps => Len(sq[n][Home]) <= 1

\* What the call was made for has happened at the word, as far as its requests have
\* been executed, and has arrived, as far as they have been answered.
EffectOK(n) ==
  pc[n] = "poll" =>
    /\ \A k \in 1 .. Len(sq[n][Home]) :
         LET wr == sq[n][Home][k]
         IN /\ wr.op = "READ" /\ wr.done => wr.resp \in during[n]
            /\ wr.op = "WRITE" /\ wr.done => mem[n][wr.laddr] \in during[n]
    /\ \A a \in Locals(n) :
         \/ mem[n][a] \in during[n]
         \/ \E k \in 1 .. Len(sq[n][Home]) : sq[n][Home][k].laddr = a

PoolOK(n) == BatchOK(n) /\ CallOK(n) /\ QueueOK(n) /\ EffectOK(n)

-----------------------------------------------------------------------------
(* The two words.                                                          *)

\* The swap of n has happened, although n may not know yet.
Traded(n) ==
  /\ pc[n] = "poll" /\ call[n].kind \in Swaps
  /\ IF sq[n][Home] = <<>> THEN mem[n]["prev"] = call[n].cmp
     ELSE sq[n][Home][1].done /\ sq[n][Home][1].resp = call[n].cmp

\* The token that is n's.
Owned(n) == IF Traded(n) THEN call[n].cmp ELSE hand[n]

\* At every moment, also while swaps are under way, a token has one place.
TokensOK ==
  /\ mem[Home]["swapped"] \in Token
  /\ \A n \in Node :
       /\ Owned(n) \in Token /\ Owned(n) # mem[Home]["swapped"]
       /\ \A m \in Node \ {n} : Owned(m) # Owned(n)

\* The inductive invariant.
PoolInv == /\ WireInv
           /\ \A n \in Node : Patient(n) => PoolOK(n)
           /\ (\A n \in Node : Patient(n)) => TokensOK

-----------------------------------------------------------------------------
(* MemoryPool::Init                                                        *)

\* The part of TypeOK about Init.
InitTypeOK ==
  /\ ipc \in [Node -> {"start", "connect", "send", "deliver", "ready", "failed", "down"}]
  /\ at \in [Node -> Nat \ {0}]
  /\ conn \subseteq SUBSET Node
  /\ chan \in [Node -> [Node -> Seq(Node)]]
  /\ conn_info \in [Node -> [Node -> Keys]]
  /\ uses \in Programs

LEMMA PeerFacts ==
  ASSUME InitTypeOK, KeysOK, NEW n \in Node
  PROVE  /\ Peers[n] \in Seq(Node) /\ Len(Peers[n]) \in Nat
         /\ at[n] \in 1 .. Len(Peers[n]) /\ Peer(n) \in Node
<1>1. Peers[n] \in Seq(Node) /\ Len(Peers[n]) \in Nat
  BY PoolAssumption
<1>2. at[n] \in 1 .. Len(Peers[n])
  BY <1>1 DEF InitTypeOK, KeysOK
<1> QED BY <1>1, <1>2 DEF Peer

\* What Advance does, when the loop is at its last peer and when it is not.
LEMMA AdvanceFacts ==
  ASSUME InitTypeOK, KeysOK, NEW n \in Node,
         NEW next \in {"send", "deliver", "ready"}, Advance(n, next)
  PROVE  /\ at' \in [Node -> Nat \ {0}] /\ \A m \in Node : at'[m] <= Len(Peers[m])
         /\ ipc' \in [Node -> {"start", "connect", "send", "deliver", "ready", "failed", "down"}]
         /\ \A m \in Node \ {n} : at'[m] = at[m] /\ ipc'[m] = ipc[m]
         /\ \/ at[n] < Len(Peers[n]) /\ at'[n] = at[n] + 1 /\ ipc'[n] = ipc[n]
            \/ at[n] = Len(Peers[n]) /\ at'[n] = 1 /\ ipc'[n] = next
<1>1. at[n] \in 1 .. Len(Peers[n]) /\ Len(Peers[n]) \in Nat /\ at[n] \in Nat
  BY PeerFacts
<1>2. at \in [Node -> Nat \ {0}] /\ \A m \in Node : at[m] <= Len(Peers[m])
  BY DEF InitTypeOK, KeysOK
<1>3. CASE at[n] < Len(Peers[n])
  <2>1. at' = [at EXCEPT ![n] = at[n] + 1] /\ ipc' = ipc
    BY <1>3 DEF Advance
  <2>2. at' \in [Node -> Nat \ {0}] /\ at'[n] = at[n] + 1 /\ \A m \in Node \ {n} : at'[m] = at[m]
    BY <1>1, <1>2, <2>1
  <2>3. \A m \in Node : at'[m] <= Len(Peers[m])
    BY <1>1, <1>2, <1>3, <2>2
  <2> QED BY <1>3, <2>1, <2>2, <2>3 DEF InitTypeOK
<1>4. CASE ~(at[n] < Len(Peers[n]))
  <2>1. at[n] = Len(Peers[n]) /\ 1 <= Len(Peers[n])
    BY <1>1, <1>4
  <2>2. at' = [at EXCEPT ![n] = 1] /\ ipc' = [ipc EXCEPT ![n] = next]
    BY <1>4 DEF Advance
  <2>3. at' \in [Node -> Nat \ {0}] /\ at'[n] = 1 /\ \A m \in Node \ {n} : at'[m] = at[m]
    BY <1>2, <2>2
  <2>4. \A m \in Node : at'[m] <= Len(Peers[m])
    BY <1>2, <2>1, <2>3
  <2>5. /\ ipc' \in [Node -> {"start", "connect", "send", "deliver", "ready", "failed", "down"}]
        /\ ipc'[n] = next /\ \A m \in Node \ {n} : ipc'[m] = ipc[m]
    BY <2>2 DEF InitTypeOK
  <2> QED BY <2>1, <2>3, <2>4, <2>5
<1> QED BY <1>3, <1>4

LEMMA InitConnectKeys ==
  ASSUME InitTypeOK, KeysOK, NEW n \in Node, InitConnect(n)
  PROVE  InitTypeOK' /\ KeysOK'
<1>1. /\ Advance(n, "send") /\ UNCHANGED <<uses, chan, conn_info>>
      /\ ipc[n] = "connect" /\ conn' = conn \cup {{n, Peer(n)}}
  BY DEF InitConnect
<1>2. Peer(n) \in Node
  BY PeerFacts
<1>3. conn' \subseteq SUBSET Node
  BY <1>1, <1>2 DEF InitTypeOK
<1>4. InitTypeOK'
  BY <1>1, <1>3, AdvanceFacts DEF InitTypeOK
<1>5. /\ \A m \in Node : at'[m] <= Len(Peers[m])
      /\ ipc'[n] \in {"connect", "send"}
      /\ \A m \in Node \ {n} : at'[m] = at[m] /\ ipc'[m] = ipc[m]
  BY <1>1, AdvanceFacts
<1>6. UNCHANGED <<chan, conn_info>>
  BY <1>1
<1>7. KeysOK'
  <2>1. \A m \in Node : ipc'[m] = "deliver" => (\A k \in 1 .. at'[m] - 1 :
           conn_info'[m][Peers[m][k]] = Peers[m][k])
    <3>1. SUFFICES ASSUME NEW m \in Node, ipc'[m] = "deliver"
                   PROVE  \A k \in 1 .. at'[m] - 1 : conn_info'[m][Peers[m][k]] = Peers[m][k]
      OBVIOUS
    <3>2. m # n
      BY <1>5, <3>1
    <3>3. at'[m] = at[m] /\ ipc[m] = "deliver"
      BY <1>5, <3>1, <3>2
    <3> QED BY <1>6, <3>3 DEF KeysOK
  <2>2. \A m \in Node : ipc'[m] = "ready" => conn_info'[m][Home] = Home
    BY <1>5, <1>6 DEF KeysOK
  <2> QED BY <1>5, <1>6, <2>1, <2>2 DEF KeysOK
<1> QED BY <1>4, <1>7

LEMMA InitSendKeys ==
  ASSUME InitTypeOK, KeysOK, NEW n \in Node, InitSend(n)
  PROVE  InitTypeOK' /\ KeysOK'
<1> DEFINE p == Peer(n)
<1>1. /\ Advance(n, "deliver") /\ UNCHANGED <<uses, conn, conn_info>>
      /\ ipc[n] = "send" /\ chan' = [chan EXCEPT ![n][p] = Append(@, n)]
  BY DEF InitSend
<1>2. p \in Node /\ at[n] \in 1 .. Len(Peers[n])
  BY PeerFacts
<1> HIDE DEF p
<1>3. chan[n][p] \in Seq(Node) /\ Append(chan[n][p], n) \in Seq(Node)
  BY <1>2 DEF InitTypeOK
<1>4. chan' \in [Node -> [Node -> Seq(Node)]]
  BY <1>1, <1>2, <1>3 DEF InitTypeOK
<1>5. InitTypeOK'
  BY <1>1, <1>4, AdvanceFacts DEF InitTypeOK
<1>6. ASSUME NEW a \in Node, NEW b \in Node, NEW k \in 1 .. Len(chan'[a][b])
      PROVE  chan'[a][b][k] = a
  <2>1. CASE a = n /\ b = p
    <3>1. chan'[a][b] = Append(chan[n][p], n)
      BY <1>1, <1>2, <2>1 DEF InitTypeOK
    <3>2. \A j \in 1 .. Len(chan[n][p]) : chan[n][p][j] = n
      BY <1>2 DEF KeysOK
    <3> QED BY <1>3, <1>6, <2>1, <3>1, <3>2
  <2>2. CASE ~(a = n /\ b = p)
    <3>1. chan'[a][b] = chan[a][b]
      BY <1>1, <1>2, <2>2 DEF InitTypeOK
    <3> QED BY <1>6, <3>1 DEF KeysOK
  <2> QED BY <2>1, <2>2
<1>7. ipc'[n] = "send" \/ (ipc'[n] = "deliver" /\ at'[n] = 1)
  BY <1>1, AdvanceFacts
<1>8. ASSUME NEW m \in Node, ipc'[m] = "deliver"
      PROVE  \A k \in 1 .. at'[m] - 1 : conn_info'[m][Peers[m][k]] = Peers[m][k]
  <2>1. CASE m = n
    BY <1>7, <1>8, <2>1
  <2>2. CASE m # n
    <3>1. at'[m] = at[m] /\ ipc'[m] = ipc[m] /\ conn_info' = conn_info
      BY <1>1, <2>2, AdvanceFacts
    <3> QED BY <1>8, <3>1 DEF KeysOK
  <2> QED BY <2>1, <2>2
<1>9. ASSUME NEW m \in Node, ipc'[m] = "ready" PROVE conn_info'[m][Home] = Home
  <2>1. ipc[m] = "ready" /\ conn_info' = conn_info
    BY <1>1, <1>7, <1>9, AdvanceFacts
  <2> QED BY <2>1 DEF KeysOK
<1>10. \A m \in Node : at'[m] <= Len(Peers[m])
  BY <1>1, AdvanceFacts
<1>11. \A m, q \in Node : conn_info'[m][q] \in {None, q}
  BY <1>1 DEF KeysOK
<1> QED BY <1>5, <1>6, <1>8, <1>9, <1>10, <1>11 DEF KeysOK

LEMMA InitDeliverKeys ==
  ASSUME InitTypeOK, KeysOK, NEW n \in Node, InitDeliver(n)
  PROVE  InitTypeOK' /\ KeysOK'
<1> DEFINE p == Peer(n)
<1>1. /\ Advance(n, "ready") /\ UNCHANGED <<uses, conn>>
      /\ ipc[n] = "deliver" /\ chan[p][n] # <<>>
      /\ chan' = [chan EXCEPT ![p][n] = Tail(@)]
      /\ conn_info' = [conn_info EXCEPT ![n][p] = IF @ = None THEN Head(chan[p][n]) ELSE @]
  BY DEF InitDeliver
<1>2. p \in Node /\ at[n] \in 1 .. Len(Peers[n]) /\ Len(Peers[n]) \in Nat /\ p = Peers[n][at[n]]
  BY PeerFacts DEF Peer
<1> HIDE DEF p
<1>3. /\ chan[p][n] \in Seq(Node) /\ Tail(chan[p][n]) \in Seq(Node)
      /\ Len(chan[p][n]) \in Nat \ {0} /\ Len(Tail(chan[p][n])) = Len(chan[p][n]) - 1
      /\ \A k \in 1 .. Len(Tail(chan[p][n])) : Tail(chan[p][n])[k] = chan[p][n][k + 1]
      /\ Head(chan[p][n]) = chan[p][n][1]
  <2>1. chan[p][n] \in Seq(Node)
    BY <1>2 DEF InitTypeOK
  <2> QED BY <1>1, <2>1
<1>4. Head(chan[p][n]) = p
  BY <1>2, <1>3 DEF KeysOK
<1>5. chan' \in [Node -> [Node -> Seq(Node)]]
  BY <1>1, <1>2, <1>3 DEF InitTypeOK
<1>6. /\ conn_info'[n][p] = p
      /\ \A a, b \in Node : ~(a = n /\ b = p) => conn_info'[a][b] = conn_info[a][b]
      /\ conn_info' \in [Node -> [Node -> Keys]]
  <2>1. conn_info' = [conn_info EXCEPT ![n][p] = p]
    <3>1. conn_info[n][p] \in {None, p}
      BY <1>2 DEF KeysOK
    <3> QED BY <1>1, <1>2, <1>4, <3>1 DEF InitTypeOK
  <2> QED BY <1>2, <2>1 DEF InitTypeOK, Keys
<1>7. InitTypeOK'
  BY <1>1, <1>5, <1>6, AdvanceFacts DEF InitTypeOK
<1>8. ASSUME NEW a \in Node, NEW b \in Node, NEW k \in 1 .. Len(chan'[a][b])
      PROVE  chan'[a][b][k] = a
  <2>1. CASE a = p /\ b = n
    <3>1. chan'[a][b] = Tail(chan[p][n])
      BY <1>1, <1>2, <2>1 DEF InitTypeOK
    <3>2. k \in 1 .. Len(Tail(chan[p][n])) /\ k + 1 \in 1 .. Len(chan[p][n])
      BY <1>3, <1>8, <3>1
    <3>3. chan[p][n][k + 1] = p
      BY <1>2, <3>2 DEF KeysOK
    <3> QED BY <1>3, <2>1, <3>1, <3>2, <3>3
  <2>2. CASE ~(a = p /\ b = n)
    <3>1. chan'[a][b] = chan[a][b]
      BY <1>1, <1>2, <2>2 DEF InitTypeOK
    <3> QED BY <1>8, <3>1 DEF KeysOK
  <2> QED BY <2>1, <2>2
<1>9. \A k \in 1 .. at[n] : conn_info'[n][Peers[n][k]] = Peers[n][k]
  <2> SUFFICES ASSUME NEW k \in 1 .. at[n] PROVE conn_info'[n][Peers[n][k]] = Peers[n][k]
    OBVIOUS
  <2>1. Peers[n][k] \in Node
    BY <1>2, PeerFacts
  <2>2. CASE Peers[n][k] = p
    BY <1>6, <2>2
  <2>3. CASE Peers[n][k] # p
    <3>1. k \in 1 .. at[n] - 1
      BY <1>2, <2>3
    <3> QED BY <1>1, <1>6, <2>1, <2>3, <3>1 DEF KeysOK
  <2> QED BY <2>2, <2>3
<1>10. ASSUME NEW m \in Node, ipc'[m] = "deliver"
       PROVE  \A k \in 1 .. at'[m] - 1 : conn_info'[m][Peers[m][k]] = Peers[m][k]
  <2>1. CASE m = n
    <3>1. at'[n] - 1 = at[n]
      BY <1>1, <1>2, <1>10, <2>1, AdvanceFacts
    <3> QED BY <1>9, <2>1, <3>1
  <2>2. CASE m # n
    <3>1. at'[m] = at[m] /\ ipc'[m] = ipc[m]
      BY <1>1, <2>2, AdvanceFacts
    <3>2. ASSUME NEW k \in 1 .. at[m] - 1 PROVE Peers[m][k] \in Node
      <4>1. Peers[m] \in Seq(Node) /\ at[m] \in 1 .. Len(Peers[m]) /\ Len(Peers[m]) \in Nat
        BY PeerFacts
      <4>2. k \in 1 .. Len(Peers[m])
        BY <3>2, <4>1
      <4> QED BY <4>1, <4>2
    <3> QED BY <1>6, <1>10, <2>2, <3>1, <3>2 DEF KeysOK
  <2> QED BY <2>1, <2>2
<1>11. ASSUME NEW m \in Node, ipc'[m] = "ready" PROVE conn_info'[m][Home] = Home
  <2>1. CASE m = n
    <3>1. at[n] = Len(Peers[n])
      BY <1>1, <1>11, <2>1, AdvanceFacts
    <3>2. PICK k \in 1 .. Len(Peers[n]) : Peers[n][k] = Home
      BY PoolAssumption
    <3> QED BY <1>9, <2>1, <3>1, <3>2
  <2>2. CASE m # n
    <3>1. ipc[m] = "ready"
      BY <1>1, <1>11, <2>2, AdvanceFacts
    <3> QED BY <1>6, <2>2, <3>1, PoolAssumption DEF KeysOK
  <2> QED BY <2>1, <2>2
<1>12. \A m \in Node : at'[m] <= Len(Peers[m])
  BY <1>1, AdvanceFacts
<1>13. \A m, q \in Node : conn_info'[m][q] \in {None, q}
  BY <1>6 DEF KeysOK
<1> QED BY <1>7, <1>8, <1>10, <1>11, <1>12, <1>13 DEF KeysOK

LEMMA InitStepKeys ==
  ASSUME InitTypeOK, KeysOK, NEW n \in Node, InitStep(n) \/ InitFails(n)
  PROVE  InitTypeOK' /\ KeysOK'
<1>1. CASE InitStart(n) \/ InitFails(n)
  <2>1. /\ UNCHANGED <<uses, at, conn, chan, conn_info>>
        /\ \E s \in {"connect", "failed", "down"} : ipc' = [ipc EXCEPT ![n] = s]
    BY <1>1 DEF InitStart, InitFails
  <2>2. /\ ipc' \in [Node -> {"start", "connect", "send", "deliver", "ready", "failed", "down"}]
        /\ ipc'[n] \notin {"deliver", "ready"} /\ \A m \in Node \ {n} : ipc'[m] = ipc[m]
    BY <2>1 DEF InitTypeOK
  <2>3. InitTypeOK'
    BY <2>1, <2>2 DEF InitTypeOK
  <2>4. \A m \in Node : ipc'[m] \in {"deliver", "ready"} => ipc'[m] = ipc[m]
    BY <2>2
  <2> QED BY <2>1, <2>3, <2>4 DEF KeysOK
<1> QED BY <1>1, InitConnectKeys, InitSendKeys, InitDeliverKeys DEF InitStep

-----------------------------------------------------------------------------
(* Completions to come.                                                    *)

\* Counting the completions to come.
LEMMA SignaledIsFinite ==
  ASSUME NEW q \in Seq(Request)
  PROVE  IsFiniteSet(Signaled(q)) /\ Cardinality(Signaled(q)) \in Nat
<1>1. Len(q) \in Int /\ 1 \in Int
  OBVIOUS
<1>2. IsFiniteSet(1 .. Len(q))
  BY <1>1, FS_Interval
<1>3. Signaled(q) \in SUBSET (1 .. Len(q))
  BY DEF Signaled
<1>4. IsFiniteSet(Signaled(q))
  BY <1>2, <1>3, FS_Subset
<1> QED BY <1>4, FS_CardinalityType

\* A list of requests of which only the last is signaled.
OneSignal(w) ==
  /\ w \in Seq(Request) /\ Len(w) \in Nat \ {0}
  /\ \A k \in 1 .. Len(w) : w[k].signaled <=> k = Len(w)

LEMMA Concatenation ==
  ASSUME NEW q \in Seq(Request), NEW w \in Seq(Request)
  PROVE  /\ q \o w \in Seq(Request) /\ Len(q \o w) = Len(q) + Len(w)
         /\ \A k \in 1 .. Len(q) : (q \o w)[k] = q[k]
         /\ \A k \in 1 .. Len(w) : (q \o w)[Len(q) + k] = w[k]
         /\ \A k \in 1 .. Len(q \o w) :
              k \in 1 .. Len(q) \/ \E j \in 1 .. Len(w) : k = Len(q) + j
<1>1. q \o w \in Seq(Request) /\ Len(q \o w) = Len(q) + Len(w)
  OBVIOUS
<1>2. \A k \in 1 .. Len(q) : (q \o w)[k] = q[k]
  OBVIOUS
<1>3. \A k \in 1 .. Len(w) : (q \o w)[Len(q) + k] = w[k]
  OBVIOUS
<1>4. ASSUME NEW k \in 1 .. Len(q \o w), k \notin 1 .. Len(q)
      PROVE  \E j \in 1 .. Len(w) : k = Len(q) + j
  <2>1. k - Len(q) \in 1 .. Len(w) /\ k = Len(q) + (k - Len(q))
    BY <1>1, <1>4
  <2> QED BY <2>1
<1> QED BY <1>1, <1>2, <1>3, <1>4

LEMMA PostSignals ==
  ASSUME NEW q \in Seq(Request), NEW w, OneSignal(w)
  PROVE  Cardinality(Signaled(q \o w)) = Cardinality(Signaled(q)) + 1
<1>1. /\ Len(q) \in Nat /\ Len(w) \in Nat \ {0} /\ w \in Seq(Request)
      /\ \A k \in 1 .. Len(w) : w[k].signaled <=> k = Len(w)
  BY DEF OneSignal
<1>2. PICK r : r = q \o w
  OBVIOUS
<1>3. /\ Len(r) = Len(q) + Len(w) /\ \A k \in 1 .. Len(q) : r[k] = q[k]
      /\ \A k \in 1 .. Len(w) : r[Len(q) + k] = w[k]
      /\ \A k \in 1 .. Len(r) :
           k \in 1 .. Len(q) \/ \E j \in 1 .. Len(w) : k = Len(q) + j
  BY <1>1, <1>2, Concatenation
<1>4. PICK z : z = Len(q) + Len(w)
  OBVIOUS
<1>5. z \in 1 .. Len(r) /\ z \notin 1 .. Len(q) /\ r[z].signaled
  <2>1. Len(w) \in 1 .. Len(w)
    BY <1>1
  <2>2. r[z] = w[Len(w)] /\ w[Len(w)].signaled
    BY <1>1, <1>3, <1>4, <2>1
  <2> QED BY <1>1, <1>3, <1>4, <2>2
<1>6. ASSUME NEW k \in 1 .. Len(r) PROVE r[k].signaled <=> (k \in Signaled(q) \/ k = z)
  <2>1. CASE k \in 1 .. Len(q)
    <3>1. r[k] = q[k] /\ k # z
      BY <1>3, <1>5, <2>1
    <3> QED BY <2>1, <3>1 DEF Signaled
  <2>2. ASSUME NEW j \in 1 .. Len(w), k = Len(q) + j
        PROVE  r[k].signaled <=> (k \in Signaled(q) \/ k = z)
    <3>1. r[k] = w[j] /\ (w[j].signaled <=> j = Len(w))
      BY <1>1, <1>3, <2>2
    <3>2. j = Len(w) <=> k = z
      BY <1>1, <1>4, <2>2
    <3>3. k \notin Signaled(q)
      BY <1>1, <2>2 DEF Signaled
    <3> QED BY <3>1, <3>2, <3>3
  <2> QED BY <1>3, <1>6, <2>1, <2>2
<1>7. Signaled(r) = Signaled(q) \cup {z} /\ z \notin Signaled(q)
  <2>1. \A k \in Signaled(q) : k \in 1 .. Len(r)
    BY <1>1, <1>3 DEF Signaled
  <2>2. z \notin Signaled(q)
    BY <1>5 DEF Signaled
  <2>3. \A k : k \in Signaled(r) <=> k \in 1 .. Len(r) /\ r[k].signaled
    BY DEF Signaled
  <2> QED BY <1>5, <1>6, <2>1, <2>2, <2>3
<1> QED BY <1>2, <1>7, SignaledIsFinite, FS_AddElement

LEMMA TailSignals ==
  ASSUME NEW q \in Seq(Request), q # <<>>
  PROVE  /\ q[1].signaled => Cardinality(Signaled(q)) = Cardinality(Signaled(Tail(q))) + 1
         /\ ~q[1].signaled => Cardinality(Signaled(q)) = Cardinality(Signaled(Tail(q)))
<1>1. PICK t : t = Tail(q)
  OBVIOUS
<1>2. Len(q) \in Nat \ {0} /\ t \in Seq(Request) /\ Len(t) = Len(q) - 1
  BY <1>1
<1>3. \A k \in 1 .. Len(t) : t[k] = q[k + 1]
  BY <1>1
<1>4. PICK S : S = Signaled(t)
  OBVIOUS
<1>5. PICK T : T = Signaled(q) \ {1}
  OBVIOUS
<1>6. \A k : k \in S <=> k \in 1 .. Len(t) /\ q[k + 1].signaled
  BY <1>3, <1>4 DEF Signaled
<1>7. \A k : k \in T <=> k \in 1 .. Len(q) /\ k # 1 /\ q[k].signaled
  BY <1>5 DEF Signaled
<1>8. ExistsBijection(S, T)
  <2> DEFINE f == [k \in S |-> k + 1]
  <2>1. ASSUME NEW k \in S PROVE k + 1 \in T
    BY <1>2, <1>6, <1>7
  <2>2. f \in [S -> T]
    BY <2>1
  <2>3. \A a, b \in S : f[a] = f[b] => a = b
    BY <1>6
  <2>4. ASSUME NEW j \in T PROVE \E k \in S : f[k] = j
    <3>1. j \in 2 .. Len(q) /\ q[j].signaled
      BY <1>2, <1>7
    <3>2. j - 1 \in 1 .. Len(t) /\ (j - 1) + 1 = j
      BY <1>2, <3>1
    <3>3. j - 1 \in S
      BY <1>6, <3>1, <3>2
    <3> QED BY <3>2, <3>3
  <2> HIDE DEF f
  <2>5. f \in Bijection(S, T)
    BY <2>2, <2>3, <2>4 DEF Bijection, Injection, Surjection, IsInjective
  <2> QED BY <2>5 DEF ExistsBijection
<1>9. IsFiniteSet(S) /\ IsFiniteSet(Signaled(q)) /\ Cardinality(Signaled(q)) \in Nat
  BY <1>2, <1>4, SignaledIsFinite
<1>10. Cardinality(T) = Cardinality(S)
  BY <1>8, <1>9, FS_Bijection
<1>11. Cardinality(T) = IF 1 \in Signaled(q) THEN Cardinality(Signaled(q)) - 1
                                             ELSE Cardinality(Signaled(q))
  BY <1>5, <1>9, FS_RemoveElement
<1>12. 1 \in Signaled(q) <=> q[1].signaled
  BY <1>2 DEF Signaled
<1> QED BY <1>1, <1>4, <1>9, <1>10, <1>11, <1>12

-----------------------------------------------------------------------------
(* Facts about constants and types, and what does not concern a pool.       *)

LEMMA Addresses ==
  /\ Buffer \subseteq Address /\ {"swapped", "data", "prev"} \subseteq Address
  /\ \A b \in Buffer : b # "swapped" /\ b # "data" /\ b # "prev"
  /\ Home \in Node /\ Token \subseteq Value /\ Datum \subseteq Value /\ Zero \in Value
BY PoolAssumption DEF Address, Value

LEMMA NoCallFacts ==
  /\ NoCall \in Call /\ NoCall.kind = "none" /\ ~NoCall.own /\ ~NoCall.mortal
<1>1. Zero \in Value /\ "prev" \in Address /\ Home \in Node
  BY PoolAssumption DEF Value, Address
<1> QED BY <1>1 DEF NoCall, Call

\* The part of TypeOK about operations and hardware.
OpTypeOK ==
  /\ abandoned \in [Node -> Nat]
  /\ pc \in [Node -> {"idle", "poll"}]
  /\ call \in [Node -> Call] /\ batch \in [Node -> Seq(Request)]
  /\ hand \in [Node -> Value]
  /\ held \in [Node -> SUBSET Buffer] /\ free \in [Node -> SUBSET Buffer]
  /\ mem \in [Node -> [Address -> Value]]
  /\ sq \in [Node -> [Node -> Seq(Request)]]
  /\ cq \in [Node -> [Node -> Seq(BOOLEAN)]]
  /\ during \in [Node -> SUBSET Value]

LEMMA TypeOKParts == TypeOK <=> InitTypeOK /\ OpTypeOK
BY DEF TypeOK, InitTypeOK, OpTypeOK

LEMMA WireTypes == WireInv => OpTypeOK /\ InitTypeOK /\ KeysOK
BY TypeOKParts DEF WireInv

LEMMA WireStarts == Init => WireInv
<1> SUFFICES ASSUME Init PROVE WireInv
  OBVIOUS
<1>1. TypeOK
  <2>1. \A n \in Node, a \in Address :
          (CASE n = Home /\ a = "swapped" -> HomeToken
             [] n = Home /\ a = "data" -> HomeDatum
             [] OTHER -> Zero) \in Value
    BY PoolAssumption DEF Value
  <2>2. mem \in [Node -> [Address -> Value]]
    BY <2>1 DEF Init
  <2>3. call \in [Node -> Call]
    BY NoCallFacts DEF Init
  <2>4. /\ chan \in [Node -> [Node -> Seq(Node)]] /\ batch \in [Node -> Seq(Request)]
        /\ sq \in [Node -> [Node -> Seq(Request)]] /\ cq \in [Node -> [Node -> Seq(BOOLEAN)]]
    BY DEF Init
  <2>5. conn_info \in [Node -> [Node -> Keys]]
    BY DEF Init, Keys
  <2>6. /\ held \in [Node -> SUBSET Buffer] /\ free \in [Node -> SUBSET Buffer]
        /\ during \in [Node -> SUBSET Value] /\ conn \subseteq SUBSET Node
    BY DEF Init
  <2>7. hand \in [Node -> Value] /\ uses \in Programs
    BY PoolAssumption, Addresses DEF Init
  <2>8. /\ ipc \in [Node -> {"start", "connect", "send", "deliver", "ready", "failed", "down"}]
        /\ at \in [Node -> Nat \ {0}] /\ pc \in [Node -> {"idle", "poll"}]
        /\ abandoned \in [Node -> Nat]
    BY DEF Init
  <2> QED BY <2>2, <2>3, <2>4, <2>5, <2>6, <2>7, <2>8 DEF TypeOK
<1>2. KeysOK
  <2>1. \A n \in Node : Len(Peers[n]) \in Nat /\ Len(Peers[n]) >= 1
    <3> SUFFICES ASSUME NEW n \in Node PROVE Len(Peers[n]) \in Nat /\ Len(Peers[n]) >= 1
      OBVIOUS
    <3>1. Peers[n] \in Seq(Node)
      BY PoolAssumption
    <3>2. PICK k \in 1 .. Len(Peers[n]) : Peers[n][k] = Home
      BY PoolAssumption
    <3>3. Len(Peers[n]) \in Nat
      BY <3>1
    <3> QED BY <3>2, <3>3
  <2> QED BY <2>1 DEF Init, KeysOK
<1>3. DataSeen
  BY DEF Init, DataSeen
<1>4. ASSUME NEW n \in Node PROVE SentOK(n)
  <2>1. /\ pc[n] = "idle" /\ call[n] = NoCall /\ batch[n] = <<>> /\ abandoned[n] = 0
        /\ \A p \in Node : sq[n][p] = <<>> /\ cq[n][p] = <<>>
    BY DEF Init
  <2>2. sq[n][Home] = <<>> /\ cq[n][Home] = <<>> /\ ~call[n].own
    BY <2>1, NoCallFacts, Addresses
  <2>3. Len(sq[n][Home]) = 0 /\ Len(cq[n][Home]) = 0 /\ Len(batch[n]) = 0
    BY <2>1, <2>2
  <2>4. Signaled(sq[n][Home]) = {}
    BY <2>3 DEF Signaled
  <2>5. Lag(n)
    BY <2>1, <2>3, <2>4, FS_EmptySet DEF Lag, Outstanding
  <2>6. /\ \A k \in 1 .. Len(cq[n][Home]) : cq[n][Home][k]
        /\ \A k \in 1 .. Len(sq[n][Home]) : RightRequest(sq[n][Home][k])
        /\ \A k \in 1 .. Len(batch[n]) :
             RightRequest(batch[n][k]) /\ (batch[n][k].signaled <=> k = NumOps)
    <3>1. 1 .. 0 = {}
      OBVIOUS
    <3> QED BY <2>3, <3>1, Zenon
  <2>7. Len(batch[n]) <= NumOps /\ pc[n] # "poll"
    BY <2>1, <2>3, PoolAssumption
  <2> QED BY <2>1, <2>2, <2>5, <2>6, <2>7, Zenon DEF SentOK
<1> QED BY <1>1, <1>2, <1>3, <1>4 DEF WireInv

\* Pool m is as it was, but may have seen more of the word.
Same(m) ==
  /\ pc'[m] = pc[m] /\ call'[m] = call[m] /\ batch'[m] = batch[m] /\ hand'[m] = hand[m]
  /\ held'[m] = held[m] /\ free'[m] = free[m] /\ sq'[m] = sq[m] /\ cq'[m] = cq[m]
  /\ abandoned'[m] = abandoned[m]
  /\ \A a \in Buffer \cup {"prev"} : mem'[m][a] = mem[m][a]
  /\ during[m] \subseteq during'[m]
  /\ ipc[m] = "ready" => ipc'[m] = "ready"

LEMMA SameIsSent ==
  ASSUME NEW m \in Node, SentOK(m), Same(m)
  PROVE  SentOK(m)'
<1>1. Outstanding(m)' = Outstanding(m)
  BY DEF Same, Outstanding
<1>2. Lag(m)'
  BY <1>1 DEF Same, SentOK, Lag
<1> QED BY <1>2 DEF Same, SentOK

LEMMA SameIsOK ==
  ASSUME NEW m \in Node, PoolOK(m), Same(m)
  PROVE  PoolOK(m)'
<1>1. BatchOK(m)'
  BY DEF PoolOK, BatchOK, Same
<1>2. InBatch(m, call[m].local)' <=> InBatch(m, call[m].local)
  BY DEF Same, InBatch
<1>3. CallOK(m)'
  <2>1. call[m].kind = "Write" => mem'[m][call[m].local] = mem[m][call[m].local]
    BY DEF PoolOK, CallOK, Same, Copies
  <2> QED BY <1>2, <2>1 DEF PoolOK, CallOK, Same
<1>4. ASSUME NEW wr, RequestOK(m, wr) PROVE RequestOK(m, wr)'
  BY <1>4 DEF Same, RequestOK
<1>5. QueueOK(m)'
  BY <1>4 DEF PoolOK, QueueOK, Same
<1>6. EffectOK(m)'
  <2>1. Locals(m)' = Locals(m) /\ Locals(m) \subseteq Buffer
    BY DEF Same, Locals, PoolOK, BatchOK, CallOK
  <2>2. \A a \in Locals(m) : mem'[m][a] = mem[m][a]
    BY <2>1 DEF Same
  <2>3. ASSUME pc[m] = "poll", NEW k \in 1 .. Len(sq[m][Home])
        PROVE  LET wr == sq[m][Home][k]
               IN /\ wr.op = "READ" /\ wr.done => wr.resp \in during'[m]
                  /\ wr.op = "WRITE" /\ wr.done => mem'[m][wr.laddr] \in during'[m]
    <3>1. sq[m][Home][k].op = "WRITE" => sq[m][Home][k].laddr \in Buffer
      BY DEF PoolOK, QueueOK, RequestOK
    <3> QED BY <2>3, <3>1 DEF Same, PoolOK, EffectOK
  <2> QED BY <2>1, <2>2, <2>3 DEF Same, PoolOK, EffectOK
<1> QED BY <1>1, <1>3, <1>5, <1>6 DEF PoolOK

LEMMA SameOwned ==
  ASSUME NEW m \in Node, Same(m)
  PROVE  Owned(m)' = Owned(m)
<1>1. Traded(m)' <=> Traded(m)
  BY DEF Same, Traded
<1> QED BY <1>1 DEF Same, Owned

\* Nothing changes for anybody else, and the words stay as they are.
Aside(n) ==
  /\ \A m \in Node \ {n} : Same(m)
  /\ mem'[Home]["data"] = mem[Home]["data"]
  /\ mem'[Home]["swapped"] = mem[Home]["swapped"]

\* What a step of n does that leaves the words alone: the wire stays in order, nobody
\* else is concerned, and n has what it asked for if it had so far.
Keeps(n) ==
  /\ WireInv' /\ Aside(n)
  /\ PoolOK(n) => PoolOK(n)' /\ Owned(n)' = Owned(n)

LEMMA AsideIsSent ==
  ASSUME WireInv, NEW n \in Node, InitTypeOK', KeysOK', OpTypeOK', Aside(n), SentOK(n)',
         pc'[n] = "poll" /\ call'[n].kind \in {"Read", "Execute"} =>
           mem[Home]["data"] \in during'[n]
  PROVE  WireInv'
<1>1. TypeOK'
  <2>1. (TypeOK <=> InitTypeOK /\ OpTypeOK)'
    BY TypeOKParts, PTL
  <2> QED BY <2>1
<1>2. \A m \in Node : SentOK(m)'
  BY SameIsSent DEF WireInv, Aside
<1>3. DataSeen'
  BY DEF WireInv, DataSeen, Aside, Same
<1> QED BY <1>1, <1>2, <1>3 DEF WireInv

LEMMA InitKept ==
  ASSUME WireInv, UNCHANGED <<uses, ipc, at, conn, chan, conn_info>>
  PROVE  InitTypeOK' /\ KeysOK'
<1>1. InitTypeOK'
  BY WireTypes DEF InitTypeOK
<1>2. KeysOK'
  BY WireTypes DEF KeysOK
<1> QED BY <1>1, <1>2

LEMMA InitStepKeeps ==
  ASSUME WireInv, NEW n \in Node, InitStep(n) \/ InitFails(n)
  PROVE  Keeps(n) /\ abandoned' = abandoned
<1>1. UNCHANGED <<callVars, wireVars, abandoned>>
  BY DEF InitStep, InitFails, InitStart, InitConnect, InitSend, InitDeliver
<1>2. \A m \in Node : Same(m)
  <2>1. \A m \in Node : ipc[m] = "ready" => ipc'[m] = "ready"
    BY WireTypes
       DEF InitStep, InitFails, InitStart, InitConnect, InitSend, InitDeliver, Advance, InitTypeOK
  <2> QED BY <1>1, <2>1 DEF callVars, wireVars, Same
<1>3. InitTypeOK' /\ KeysOK'
  BY WireTypes, InitStepKeys
<1>4. OpTypeOK'
  BY <1>1, WireTypes DEF callVars, wireVars, OpTypeOK
<1>5. mem' = mem
  BY <1>1 DEF wireVars
<1>6. Aside(n) /\ SentOK(n)'
  BY <1>2, <1>5, SameIsSent DEF Aside, WireInv
<1>7. pc'[n] = "poll" /\ call'[n].kind \in {"Read", "Execute"} =>
         mem[Home]["data"] \in during'[n]
  BY <1>2 DEF WireInv, DataSeen, Same
<1>8. WireInv'
  BY <1>3, <1>4, <1>6, <1>7, AsideIsSent
<1>9. PoolOK(n) => PoolOK(n)' /\ Owned(n)' = Owned(n)
  BY <1>2, SameIsOK, SameOwned
<1> QED BY <1>1, <1>6, <1>8, <1>9 DEF Keeps

\* The key a request is posted with.
LEMMA KeyIsHome ==
  ASSUME WireInv, NEW n \in Node, ipc[n] = "ready"
  PROVE  conn_info[n][Home] = Home /\ Home \in Keys
BY WireTypes, Addresses DEF KeysOK, Keys

-----------------------------------------------------------------------------
(* Posting.                                                                *)

\* What a call does to local memory before it posts.
Touches(n) ==
  /\ held' \in [Node -> SUBSET Buffer] /\ free' \in [Node -> SUBSET Buffer]
  /\ mem' \in [Node -> [Address -> Value]] /\ during' \in [Node -> SUBSET Value]
  /\ \A m \in Node \ {n} : /\ held'[m] = held[m] /\ free'[m] = free[m]
                           /\ mem'[m] = mem[m] /\ during'[m] = during[m]
  /\ free'[n] \subseteq free[n]
  /\ \A a \in {"swapped", "data", "prev"} : mem'[n][a] = mem[n][a]

LEMMA PostFacts ==
  ASSUME OpTypeOK, NEW n \in Node, NEW w \in Seq(Request), Post(n, w)
  PROVE  /\ sq' \in [Node -> [Node -> Seq(Request)]]
         /\ sq'[n][Home] = sq[n][Home] \o w
         /\ \A p \in Node \ {Home} : sq'[n][p] = sq[n][p]
         /\ \A m \in Node \ {n} : sq'[m] = sq[m]
<1>1. sq[n][Home] \in Seq(Request)
  BY Addresses DEF OpTypeOK
<1>2. sq[n][Home] \o w \in Seq(Request)
  BY <1>1, Concatenation
<1> QED BY <1>2, Addresses DEF Post, OpTypeOK

\* The queue of completions after a completion was taken, if the pool was polling.
Taken(n) ==
  /\ cq' \in [Node -> [Node -> Seq(BOOLEAN)]]
  /\ \A m \in Node \ {n} : cq'[m] = cq[m]
  /\ \A p \in Node \ {Home} : cq'[n][p] = cq[n][p]
  /\ \A k \in 1 .. Len(cq'[n][Home]) : cq'[n][Home][k]
  /\ pc[n] = "idle" => Len(cq'[n][Home]) = Len(cq[n][Home])
  /\ pc[n] = "poll" => Len(cq[n][Home]) = Len(cq'[n][Home]) + 1

\* The requests of a call are posted, or that of AtomicSwap's next attempt.
LEMMA WirePost ==
  ASSUME WireInv, NEW n \in Node, ipc[n] = "ready", UNCHANGED <<initVars, batch, hand>>,
         Touches(n), Taken(n), NEW w, OneSignal(w),
         \A k \in 1 .. Len(w) : RightRequest(w[k]), Post(n, w),
         NEW c \in Call, call' = [call EXCEPT ![n] = c], pc' = [pc EXCEPT ![n] = "poll"],
         c.own => c.local \in Buffer,
         c.kind \in {"Read", "Execute"} => mem[Home]["data"] \in during'[n]
  PROVE  WireInv' /\ Aside(n)
<1>1. OpTypeOK /\ SentOK(n) /\ w \in Seq(Request)
  BY WireTypes DEF WireInv, OneSignal
<1>2. /\ sq' \in [Node -> [Node -> Seq(Request)]] /\ sq'[n][Home] = sq[n][Home] \o w
      /\ \A p \in Node \ {Home} : sq'[n][p] = sq[n][p]
      /\ \A m \in Node \ {n} : sq'[m] = sq[m]
  BY <1>1, PostFacts
<1>3. /\ pc' \in [Node -> {"idle", "poll"}] /\ call' \in [Node -> Call]
      /\ pc'[n] = "poll" /\ call'[n] = c
      /\ \A m \in Node \ {n} : pc'[m] = pc[m] /\ call'[m] = call[m]
  BY <1>1 DEF OpTypeOK
<1>4. UNCHANGED <<uses, ipc, at, conn, chan, conn_info, abandoned>>
  BY DEF initVars
<1>5. OpTypeOK'
  BY <1>1, <1>2, <1>3, <1>4 DEF OpTypeOK, Touches, Taken
<1>6. Aside(n)
  <2>1. ASSUME NEW m \in Node \ {n} PROVE Same(m)
    BY <1>2, <1>3, <1>4, <2>1 DEF Touches, Taken, Same
  <2>2. mem'[Home]["data"] = mem[Home]["data"] /\ mem'[Home]["swapped"] = mem[Home]["swapped"]
    BY Addresses DEF Touches
  <2> QED BY <2>1, <2>2 DEF Aside
<1>7. PICK q \in Seq(Request) : q = sq[n][Home]
  BY <1>1, Addresses DEF OpTypeOK
<1>8. ASSUME NEW k \in 1 .. Len(sq'[n][Home]) PROVE RightRequest(sq'[n][Home][k])
  <2>1. \A j \in 1 .. Len(q) : RightRequest(q[j])
    BY <1>1, <1>7 DEF SentOK
  <2>2. sq'[n][Home] = q \o w
    BY <1>2, <1>7
  <2>3. CASE k \in 1 .. Len(q)
    BY <1>1, <2>1, <2>2, <2>3, Concatenation
  <2>4. ASSUME NEW j \in 1 .. Len(w), k = Len(q) + j PROVE RightRequest(sq'[n][Home][k])
    BY <1>1, <2>2, <2>4, Concatenation
  <2> QED BY <1>1, <1>8, <2>2, <2>3, <2>4, Concatenation
<1>9. Lag(n)'
  <2>1. Cardinality(Signaled(sq'[n][Home])) = Cardinality(Signaled(sq[n][Home])) + 1
    BY <1>2, <1>7, PostSignals
  <2>2. /\ Cardinality(Signaled(sq[n][Home])) \in Nat /\ abandoned[n] \in Nat
        /\ Len(cq[n][Home]) \in Nat /\ Len(cq'[n][Home]) \in Nat
    <3>1. cq \in [Node -> [Node -> Seq(BOOLEAN)]] /\ cq' \in [Node -> [Node -> Seq(BOOLEAN)]]
      BY <1>1, Zenon DEF OpTypeOK, Taken
    <3>2. Len(cq[n][Home]) \in Nat /\ Len(cq'[n][Home]) \in Nat
      BY <3>1, Addresses
    <3>3. abandoned[n] \in Nat
      BY <1>1 DEF OpTypeOK
    <3> QED BY <1>7, <3>2, <3>3, SignaledIsFinite
  <2>3. Lag(n) /\ abandoned'[n] = abandoned[n] /\ pc[n] \in {"idle", "poll"}
    BY <1>1, <1>4 DEF SentOK, OpTypeOK
  <2>4. PICK l \in Nat : l = Len(cq[n][Home])
    BY <2>2
  <2>5. PICK j \in Nat : j = Len(cq'[n][Home])
    BY <2>2
  <2>6. PICK s \in Nat : s = Cardinality(Signaled(sq[n][Home]))
    BY <2>2
  <2>7. Outstanding(n) = l + s
    BY <2>4, <2>6 DEF Outstanding
  <2>8. Outstanding(n)' = j + (s + 1)
    BY <2>1, <2>5, <2>6 DEF Outstanding
  <2>9. PICK z \in Nat : z = abandoned[n]
    BY <2>2
  <2>10. Outstanding(n)' = z + 1
    <3>1. CASE pc[n] = "idle"
      <4>1. j = l
        BY <2>4, <2>5, <3>1 DEF Taken
      <4>2. l + s = z
        BY <2>3, <2>7, <2>9, <3>1 DEF Lag
      <4> QED BY <2>8, <4>1, <4>2
    <3>2. CASE pc[n] = "poll"
      <4>1. l = j + 1
        BY <2>4, <2>5, <3>2 DEF Taken
      <4>2. l + s = z + 1
        BY <2>3, <2>7, <2>9, <3>2 DEF Lag
      <4> QED BY <2>8, <4>1, <4>2
    <3> QED BY <2>3, <3>1, <3>2
  <2> QED BY <1>3, <2>3, <2>9, <2>10 DEF Lag
<1>10. SentOK(n)'
  <2>1. \A p \in Node \ {Home} : sq'[n][p] = <<>> /\ cq'[n][p] = <<>>
    BY <1>1, <1>2 DEF SentOK, Taken
  <2>2. /\ Len(batch'[n]) <= NumOps
        /\ \A k \in 1 .. Len(batch'[n]) :
             RightRequest(batch'[n][k]) /\ (batch'[n][k].signaled <=> k = NumOps)
    BY <1>1 DEF SentOK
  <2>3. \A k \in 1 .. Len(cq'[n][Home]) : cq'[n][Home][k]
    BY DEF Taken
  <2> QED BY <1>3, <1>4, <1>8, <1>9, <2>1, <2>2, <2>3 DEF SentOK
<1>11. InitTypeOK' /\ KeysOK'
  BY <1>4, InitKept
<1>12. WireInv'
  BY <1>3, <1>5, <1>6, <1>10, <1>11, AsideIsSent
<1> QED BY <1>6, <1>12

-----------------------------------------------------------------------------
(* Calls with one request: Read, Write, AtomicSwap, CompareAndSwap.         *)

\* What is true of a pool between calls.
LEMMA IdleFacts ==
  ASSUME OpTypeOK, NEW n \in Node, PoolOK(n), pc[n] = "idle"
  PROVE  /\ call[n] = NoCall /\ sq[n][Home] = <<>> /\ cq[n][Home] = <<>>
         /\ held[n] \cap free[n] = {} /\ Owned(n) = hand[n]
<1>1. Owned(n) = hand[n]
  BY DEF Owned, Traded
<1> QED BY <1>1 DEF PoolOK, QueueOK, CallOK

\* Nothing is taken from the queue of completions when a call starts.
LEMMA NothingTaken ==
  ASSUME WireInv, NEW n \in Node, pc[n] = "idle", cq' = cq
  PROVE  Taken(n)
<1>1. OpTypeOK /\ SentOK(n)
  BY WireTypes DEF WireInv
<1>2. cq \in [Node -> [Node -> Seq(BOOLEAN)]]
  BY <1>1 DEF OpTypeOK
<1>3. \A k \in 1 .. Len(cq[n][Home]) : cq[n][Home][k]
  BY <1>1 DEF SentOK
<1> QED BY <1>2, <1>3, Zenon DEF Taken

\* The single request of a call.
LEMMA JustOne ==
  ASSUME NEW wr \in Request, wr.signaled, RightRequest(wr)
  PROVE  OneSignal(<<wr>>) /\ \A k \in 1 .. Len(<<wr>>) : RightRequest(<<wr>>[k])
<1>1. <<wr>> \in Seq(Request) /\ Len(<<wr>>) = 1 /\ <<wr>>[1] = wr
  OBVIOUS
<1>2. \A k \in 1 .. 1 : k = 1
  OBVIOUS
<1> QED BY <1>1, <1>2 DEF OneSignal

LEMMA QueueOfOne ==
  ASSUME NEW n \in Node, NEW wr, sq'[n][Home] = <<wr>>, wr.signaled, RequestOK(n, wr)',
         \A p \in Node \ {Home} : sq'[n][p] = <<>> /\ cq'[n][p] = <<>>,
         cq'[n][Home] = <<>>, pc'[n] = "poll"
  PROVE  QueueOK(n)'
<1>1. Len(sq'[n][Home]) = 1 /\ sq'[n][Home][1] = wr /\ sq'[n][Home] # <<>>
  OBVIOUS
<1>2. \A k \in 1 .. Len(sq'[n][Home]) : k = 1
  BY <1>1
<1> QED BY <1>1, <1>2, Addresses DEF QueueOK

LEMMA CallStarts ==
  ASSUME WireInv, NEW n \in Node, ipc[n] = "ready", UNCHANGED <<initVars, batch, hand>>,
         Touches(n), Taken(n),
         NEW wr \in Request, Post(n, <<wr>>), wr.signaled, ~wr.done, RightRequest(wr),
         NEW c \in Call, call' = [call EXCEPT ![n] = c], pc' = [pc EXCEPT ![n] = "poll"],
         c.own => c.local \in Buffer,
         c.kind # "Execute", c.kind \in Copies => c.local = wr.laddr,
         c.kind = "Read" => mem[Home]["data"] \in during'[n],
         PoolOK(n) => /\ sq[n][Home] = <<>> /\ cq'[n][Home] = <<>> /\ Owned(n) = hand[n]
                      /\ RequestOK(n, wr)' /\ CallOK(n)'
  PROVE  Keeps(n)
<1>1. OneSignal(<<wr>>) /\ \A k \in 1 .. Len(<<wr>>) : RightRequest(<<wr>>[k])
  BY JustOne
<1>2. WireInv' /\ Aside(n)
  BY <1>1, WirePost
<1>3. ASSUME PoolOK(n) PROVE PoolOK(n)' /\ Owned(n)' = Owned(n)
  <2>1. /\ sq[n][Home] = <<>> /\ cq'[n][Home] = <<>> /\ Owned(n) = hand[n]
        /\ RequestOK(n, wr)' /\ CallOK(n)' /\ OpTypeOK /\ SentOK(n)'
    BY <1>2, <1>3, WireTypes DEF WireInv
  <2>2. sq'[n][Home] = <<wr>>
    <3>1. <<wr>> \in Seq(Request) /\ <<>> \o <<wr>> = <<wr>>
      OBVIOUS
    <3> QED BY <2>1, <3>1, PostFacts
  <2>3. pc'[n] = "poll" /\ call'[n] = c
    BY <2>1 DEF OpTypeOK
  <2>4. sq'[n][Home] # <<>> /\ Len(sq'[n][Home]) = 1 /\ sq'[n][Home][1] = wr
    BY <2>2
  <2>5. Owned(n)' = Owned(n)
    <3>1. ~Traded(n)'
      BY <2>4 DEF Traded
    <3> QED BY <2>1, <3>1 DEF Owned
  <2>6. BatchOK(n)'
    BY <1>3 DEF PoolOK, BatchOK, Touches
  <2>7. QueueOK(n)'
    <3>1. \A p \in Node \ {Home} : sq'[n][p] = <<>> /\ cq'[n][p] = <<>>
      BY <2>1, Zenon DEF SentOK
    <3> QED BY <2>1, <2>2, <2>3, <3>1, QueueOfOne
  <2>8. EffectOK(n)'
    <3>1. \A k \in 1 .. Len(sq'[n][Home]) : sq'[n][Home][k] = wr
      BY <2>4
    <3>2. \A a \in Locals(n)' : \E k \in 1 .. Len(sq'[n][Home]) : sq'[n][Home][k].laddr = a
      <4>1. \A a \in Locals(n)' : a = wr.laddr
        BY <2>3 DEF Locals
      <4>2. 1 \in 1 .. Len(sq'[n][Home])
        BY <2>4
      <4> QED BY <2>4, <4>1, <4>2
    <3> QED BY <3>1, <3>2 DEF EffectOK
  <2> QED BY <2>1, <2>5, <2>6, <2>7, <2>8 DEF PoolOK
<1> QED BY <1>2, <1>3 DEF Keeps

\* The memory a call gets is its own.
LEMMA AllocatesFacts ==
  ASSUME OpTypeOK, NEW n \in Node, NEW b, Allocates(n, b)
  PROVE  /\ b \in free[n] /\ b \in Buffer /\ free' \in [Node -> SUBSET Buffer]
         /\ free'[n] = free[n] \ {b} /\ \A m \in Node \ {n} : free'[m] = free[m]
<1>1. b \in free[n] /\ free' = [free EXCEPT ![n] = @ \ {b}]
  BY DEF Allocates
<1> QED BY <1>1 DEF OpTypeOK

LEMMA PreallocFacts ==
  ASSUME OpTypeOK, NEW n \in Node, NEW b, Prealloc(n, b)
  PROVE  b \in held[n] /\ free' = free /\ free' \in [Node -> SUBSET Buffer]
BY DEF OpTypeOK, Prealloc

LEMMA StoredFacts ==
  ASSUME OpTypeOK, NEW n \in Node, NEW b \in Buffer, NEW v \in Value, Stored(n, b, v)
  PROVE  /\ mem' \in [Node -> [Address -> Value]] /\ mem'[n][b] = v
         /\ \A a \in Address \ {b} : mem'[n][a] = mem[n][a]
         /\ \A m \in Node \ {n} : mem'[m] = mem[m]
BY Addresses DEF OpTypeOK, Stored

LEMMA ReadStartKeeps ==
  ASSUME WireInv, NEW n \in Node, NEW b \in Buffer, NEW mortal \in BOOLEAN,
         ReadStart(n, b, mortal)
  PROVE  Keeps(n)
<1>1. /\ ipc[n] = "ready" /\ pc[n] = "idle"
      /\ (Allocates(n, b) /\ Stored(n, b, Zero)) \/ (Prealloc(n, b) /\ UNCHANGED mem)
      /\ held' = [held EXCEPT ![n] = @ \cup {b}]
      /\ during' = [during EXCEPT ![n] = {mem[Home]["data"]}]
      /\ UNCHANGED <<initVars, batch, hand, cq>>
  BY DEF ReadStart, May, Idle
<1>2. OpTypeOK
  BY WireTypes
<1>3. PICK wr \in Request :
        /\ wr = WorkRequest(n, "READ", "data", b, Zero, Zero, TRUE, TRUE)
        /\ wr.op = "READ" /\ wr.raddr = "data" /\ wr.laddr = b
        /\ wr.signaled = TRUE /\ wr.rkey = Home /\ wr.done = FALSE
  <2>1. "data" \in Address /\ b \in Address /\ Zero \in Value
    BY Addresses
  <2>2. WorkRequest(n, "READ", "data", b, Zero, Zero, TRUE, TRUE) \in Request
    BY <1>1, <2>1, KeyIsHome DEF WorkRequest, Request
  <2> QED BY <1>1, <2>2, KeyIsHome DEF WorkRequest
<1>4. PICK c \in Call :
        /\ c = [NoCall EXCEPT !.kind = "Read", !.local = b, !.mortal = mortal]
        /\ c.kind = "Read" /\ c.local = b /\ c.own = FALSE
  <2>1. b \in Address /\ Zero \in Value /\ "prev" \in Address /\ Home \in Node
    BY Addresses
  <2>2. [NoCall EXCEPT !.kind = "Read", !.local = b, !.mortal = mortal] \in Call
    BY <2>1 DEF NoCall, Call, Kinds
  <2> QED BY <2>2 DEF NoCall
<1>5. Post(n, <<wr>>) /\ call' = [call EXCEPT ![n] = c] /\ pc' = [pc EXCEPT ![n] = "poll"]
  BY <1>3, <1>4 DEF ReadStart, Calls
<1>6. call'[n] = c /\ pc'[n] = "poll" /\ mem[Home]["data"] \in during'[n]
  BY <1>1, <1>2, <1>5 DEF OpTypeOK
<1>7. Touches(n) /\ (b \notin free'[n] \/ (b \in held[n] /\ free' = free))
  <2>1. /\ held' \in [Node -> SUBSET Buffer] /\ during' \in [Node -> SUBSET Value]
        /\ \A m \in Node \ {n} : held'[m] = held[m] /\ during'[m] = during[m]
    <3>1. mem[Home]["data"] \in Value
      BY <1>2, Addresses DEF OpTypeOK
    <3> QED BY <1>1, <1>2, <3>1 DEF OpTypeOK
  <2>2. CASE Allocates(n, b) /\ Stored(n, b, Zero)
    <3>1. /\ free' \in [Node -> SUBSET Buffer] /\ free'[n] = free[n] \ {b}
          /\ \A m \in Node \ {n} : free'[m] = free[m]
      BY <1>2, <2>2, AllocatesFacts
    <3>2. /\ mem' \in [Node -> [Address -> Value]]
          /\ \A a \in Address \ {b} : mem'[n][a] = mem[n][a]
          /\ \A m \in Node \ {n} : mem'[m] = mem[m]
      BY <1>2, <2>2, StoredFacts, Addresses
    <3> QED BY <2>1, <3>1, <3>2, Addresses DEF Touches
  <2>3. CASE Prealloc(n, b) /\ UNCHANGED mem
    <3>1. b \in held[n] /\ free' = free /\ free' \in [Node -> SUBSET Buffer]
      BY <1>2, <2>3, PreallocFacts
    <3>2. mem' = mem /\ mem' \in [Node -> [Address -> Value]]
      BY <1>2, <2>3 DEF OpTypeOK
    <3> QED BY <2>1, <3>1, <3>2 DEF Touches
  <2> QED BY <1>1, <2>2, <2>3
<1>8. RightRequest(wr)
  BY <1>3 DEF RightRequest
<1>9. ASSUME PoolOK(n)
      PROVE  /\ sq[n][Home] = <<>> /\ cq'[n][Home] = <<>> /\ Owned(n) = hand[n]
             /\ RequestOK(n, wr)' /\ CallOK(n)'
  <2>1. /\ sq[n][Home] = <<>> /\ cq[n][Home] = <<>> /\ Owned(n) = hand[n]
        /\ held[n] \cap free[n] = {}
    BY <1>1, <1>2, <1>9, IdleFacts
  <2>2. b \notin free'[n]
    BY <1>7, <2>1
  <2>3. RequestOK(n, wr)'
    BY <1>3, <1>4, <1>6, <2>2 DEF RequestOK, Swaps
  <2>4. held'[n] \cap free'[n] = {}
    <3>1. held'[n] = held[n] \cup {b}
      BY <1>1, <1>2 DEF OpTypeOK
    <3> QED BY <1>7, <2>1, <2>2, <3>1 DEF Touches
  <2>5. ipc'[n] = "ready"
    BY <1>1 DEF initVars
  <2>6. CallOK(n)'
    BY <1>4, <1>6, <2>4, <2>5 DEF CallOK, Swaps
  <2> QED BY <1>1, <2>1, <2>3, <2>6
<1>10. Taken(n)
  BY <1>1, NothingTaken
<1>11. /\ wr \in Request /\ wr.signaled /\ ~wr.done
       /\ c \in Call /\ c.kind # "Execute" /\ c.kind = "Read" /\ c.local = wr.laddr /\ ~c.own
  BY <1>3, <1>4
<1>12. ipc[n] = "ready" /\ UNCHANGED <<initVars, batch, hand>>
  BY <1>1
<1> QED BY <1>5, <1>6, <1>7, <1>8, <1>9, <1>10, <1>11, <1>12, CallStarts

LEMMA WriteStartKeeps ==
  ASSUME WireInv, NEW n \in Node, NEW b \in Buffer, NEW v \in Datum, WriteStart(n, b, v)
  PROVE  Keeps(n)
<1>1. /\ ipc[n] = "ready" /\ pc[n] = "idle"
      /\ Allocates(n, b) \/ Prealloc(n, b)
      /\ Stored(n, b, v) /\ held' = held
      /\ during' = [during EXCEPT ![n] = {}]
      /\ UNCHANGED <<initVars, batch, hand, cq>>
  BY DEF WriteStart, May, Idle
<1>2. OpTypeOK /\ v \in Value
  BY WireTypes, Addresses
<1>3. PICK wr \in Request :
        /\ wr = WorkRequest(n, "WRITE", "data", b, Zero, v, TRUE, TRUE)
        /\ wr.op = "WRITE" /\ wr.raddr = "data" /\ wr.laddr = b /\ wr.swap = v
        /\ wr.signaled = TRUE /\ wr.rkey = Home /\ wr.done = FALSE
  <2>1. "data" \in Address /\ b \in Address /\ Zero \in Value
    BY Addresses
  <2>2. WorkRequest(n, "WRITE", "data", b, Zero, v, TRUE, TRUE) \in Request
    BY <1>1, <1>2, <2>1, KeyIsHome DEF WorkRequest, Request
  <2> QED BY <1>1, <2>2, KeyIsHome DEF WorkRequest
<1>4. PICK c \in Call :
        /\ c = [NoCall EXCEPT !.kind = "Write", !.local = b, !.val = v, !.own = b \in free[n]]
        /\ c.kind = "Write" /\ c.local = b /\ c.val = v /\ c.mortal = FALSE
        /\ c.own <=> b \in free[n]
  <2>1. b \in Address /\ Zero \in Value /\ "prev" \in Address /\ Home \in Node
    BY Addresses
  <2>2. PICK own \in BOOLEAN : own <=> b \in free[n]
    OBVIOUS
  <2>3. [NoCall EXCEPT !.kind = "Write", !.local = b, !.val = v, !.own = own] \in Call
    BY <1>2, <2>1 DEF NoCall, Call, Kinds
  <2>4. own = (b \in free[n])
    BY <2>2
  <2> QED BY <2>2, <2>3, <2>4 DEF NoCall
<1>5. Post(n, <<wr>>) /\ call' = [call EXCEPT ![n] = c] /\ pc' = [pc EXCEPT ![n] = "poll"]
  BY <1>3, <1>4 DEF WriteStart, Calls
<1>6. call'[n] = c /\ pc'[n] = "poll"
  BY <1>2, <1>5 DEF OpTypeOK
<1>7. /\ b \notin free'[n] \/ (b \in held[n] /\ free' = free)
      /\ free' \in [Node -> SUBSET Buffer] /\ free'[n] \subseteq free[n]
      /\ \A m \in Node \ {n} : free'[m] = free[m]
  <2>1. CASE Allocates(n, b)
    BY <1>2, <2>1, AllocatesFacts
  <2>2. CASE Prealloc(n, b)
    BY <1>2, <2>2, PreallocFacts
  <2> QED BY <1>1, <2>1, <2>2
<1>8. /\ mem' \in [Node -> [Address -> Value]] /\ mem'[n][b] = v
      /\ \A a \in Address \ {b} : mem'[n][a] = mem[n][a]
      /\ \A m \in Node \ {n} : mem'[m] = mem[m]
  BY <1>1, <1>2, StoredFacts
<1>9. Touches(n)
  <2>1. during' \in [Node -> SUBSET Value] /\ \A m \in Node \ {n} : during'[m] = during[m]
    BY <1>1, <1>2 DEF OpTypeOK
  <2>2. held' \in [Node -> SUBSET Buffer]
    BY <1>1, <1>2 DEF OpTypeOK
  <2> QED BY <1>1, <1>7, <1>8, <2>1, <2>2, Addresses DEF Touches
<1>10. RightRequest(wr)
  BY <1>3 DEF RightRequest
<1>11. ASSUME PoolOK(n)
       PROVE  /\ sq[n][Home] = <<>> /\ cq'[n][Home] = <<>> /\ Owned(n) = hand[n]
              /\ RequestOK(n, wr)' /\ CallOK(n)'
  <2>1. /\ sq[n][Home] = <<>> /\ cq[n][Home] = <<>> /\ Owned(n) = hand[n]
        /\ held[n] \cap free[n] = {}
    BY <1>1, <1>2, <1>11, IdleFacts
  <2>2. b \notin free'[n] /\ held'[n] \cap free'[n] = {}
    BY <1>1, <1>7, <2>1
  <2>3. RequestOK(n, wr)'
    BY <1>3, <1>4, <1>6, <1>8, <2>2 DEF RequestOK, Swaps
  <2>4. ~InBatch(n, b)' \/ b \notin free[n]
    BY <1>1, <1>11 DEF InBatch, PoolOK, BatchOK
  <2>5. c.own => b \notin held'[n] \cup free'[n] /\ ~InBatch(n, b)'
    BY <1>1, <1>4, <2>1, <2>2, <2>4
  <2>6. ipc'[n] = "ready"
    BY <1>1 DEF initVars
  <2>7. CallOK(n)'
    BY <1>4, <1>6, <1>8, <2>2, <2>5, <2>6 DEF CallOK, Swaps
  <2> QED BY <1>1, <2>1, <2>3, <2>7
<1>12. Taken(n)
  BY <1>1, NothingTaken
<1>13. /\ wr \in Request /\ wr.signaled /\ ~wr.done
       /\ c \in Call /\ c.kind # "Execute" /\ c.kind # "Read" /\ c.local = wr.laddr
       /\ c.local \in Buffer
  BY <1>3, <1>4
<1>14. ipc[n] = "ready" /\ UNCHANGED <<initVars, batch, hand>>
  BY <1>1
<1> QED BY <1>5, <1>9, <1>10, <1>11, <1>12, <1>13, <1>14, CallStarts

\* AtomicSwap and CompareAndSwap, and the next attempt of the former.
LEMMA CompareStarts ==
  ASSUME WireInv, NEW n \in Node, ipc[n] = "ready", NEW cmp \in Value, NEW val \in Value,
         NEW kind \in Swaps, UNCHANGED <<initVars, batch, hand, held, free, mem>>,
         Taken(n), during' = during, Post(n, <<CompareRequest(n, cmp, val)>>),
         NEW c \in Call, call' = [call EXCEPT ![n] = c], pc' = [pc EXCEPT ![n] = "poll"],
         c.kind = kind, c.cmp = cmp, c.val = val, c.own => c.local \in Buffer,
         PoolOK(n) => /\ sq[n][Home] = <<>> /\ cq'[n][Home] = <<>>
                      /\ Owned(n) = hand[n] /\ val = hand[n] /\ ~c.mortal /\ ~c.own
  PROVE  Keeps(n)
<1>1. OpTypeOK
  BY WireTypes
<1>2. PICK wr \in Request :
        /\ wr = CompareRequest(n, cmp, val)
        /\ wr.op = "CAS" /\ wr.raddr = "swapped" /\ wr.laddr = "prev"
        /\ wr.cmp = cmp /\ wr.swap = val
        /\ wr.signaled = TRUE /\ wr.rkey = Home /\ wr.done = FALSE
  <2>1. "swapped" \in Address /\ "prev" \in Address /\ Zero \in Value
    BY Addresses
  <2>2. CompareRequest(n, cmp, val) \in Request
    BY <2>1, KeyIsHome DEF CompareRequest, WorkRequest, Request
  <2> QED BY <2>2, KeyIsHome DEF CompareRequest, WorkRequest
<1>3. call'[n] = c /\ pc'[n] = "poll" /\ hand'[n] = hand[n]
  BY <1>1 DEF OpTypeOK
<1>4. Touches(n)
  BY <1>1 DEF OpTypeOK, Touches
<1>5. ASSUME PoolOK(n)
      PROVE  /\ sq[n][Home] = <<>> /\ cq'[n][Home] = <<>> /\ Owned(n) = hand[n]
             /\ RequestOK(n, wr)' /\ CallOK(n)'
  <2>1. /\ sq[n][Home] = <<>> /\ cq'[n][Home] = <<>> /\ Owned(n) = hand[n] /\ val = hand[n]
        /\ ~c.mortal /\ ~c.own
    BY <1>5
  <2>2. RequestOK(n, wr)'
    BY <1>2, <1>3, <2>1 DEF RequestOK, Swaps
  <2>3. held'[n] \cap free'[n] = {}
    BY <1>5 DEF PoolOK, CallOK
  <2>4. ipc'[n] = "ready"
    BY DEF initVars
  <2>5. CallOK(n)'
    BY <1>3, <2>1, <2>3, <2>4 DEF CallOK, Swaps, Copies
  <2> QED BY <2>1, <2>2, <2>5
<1>6. c.kind \notin Copies \cup {"Execute", "Read"}
  BY DEF Swaps, Copies
<1>7. RightRequest(wr)
  BY <1>2 DEF RightRequest
<1> QED BY <1>2, <1>4, <1>5, <1>6, <1>7, CallStarts

LEMMA SwapStartKeeps ==
  ASSUME WireInv, NEW n \in Node,
         \/ \E t \in Token : CompareAndSwapStart(n, t)
         \/ \E t \in Hint : AtomicSwapStart(n, t)
  PROVE  Keeps(n)
<1>1. PICK kind \in Swaps, cmp \in Value :
        /\ ipc[n] = "ready" /\ pc[n] = "idle"
        /\ Post(n, <<CompareRequest(n, cmp, hand[n])>>)
        /\ call' = [call EXCEPT ![n] = [NoCall EXCEPT !.kind = kind, !.cmp = cmp, !.val = hand[n]]]
        /\ pc' = [pc EXCEPT ![n] = "poll"]
        /\ UNCHANGED <<initVars, batch, hand, held, free, during, mem, cq>>
  <2>1. CASE \E t \in Token : CompareAndSwapStart(n, t)
    BY <2>1, Addresses DEF CompareAndSwapStart, May, Idle, Calls, Swaps
  <2>2. CASE \E t \in Hint : AtomicSwapStart(n, t)
    BY <2>2, Addresses, PoolAssumption DEF AtomicSwapStart, May, Idle, Calls, Swaps
  <2> QED BY <2>1, <2>2
<1>2. OpTypeOK /\ hand[n] \in Value
  BY WireTypes DEF OpTypeOK
<1>3. PoolOK(n) => /\ sq[n][Home] = <<>> /\ cq'[n][Home] = <<>> /\ Owned(n) = hand[n]
  BY <1>1, <1>2, IdleFacts
<1>4. PICK c \in Call :
        /\ c = [NoCall EXCEPT !.kind = kind, !.cmp = cmp, !.val = hand[n]]
        /\ c.kind = kind /\ c.cmp = cmp /\ c.val = hand[n] /\ c.mortal = FALSE
        /\ c.own = FALSE
  <2>1. Zero \in Value /\ "prev" \in Address /\ Home \in Node
    BY Addresses
  <2>2. [NoCall EXCEPT !.kind = kind, !.cmp = cmp, !.val = hand[n]] \in Call
    BY <1>2, <2>1 DEF NoCall, Call, Kinds, Swaps
  <2> QED BY <2>2 DEF NoCall
<1>5. call' = [call EXCEPT ![n] = c] /\ c.kind = kind /\ c.cmp = cmp /\ c.val = hand[n]
      /\ ~c.mortal /\ ~c.own
  BY <1>1, <1>4
<1>6. Taken(n)
  BY <1>1, NothingTaken
<1> QED BY <1>1, <1>2, <1>3, <1>5, <1>6, CompareStarts

-----------------------------------------------------------------------------
(* Between calls: batches are built, memory is given back.                  *)

LEMMA BetweenCalls ==
  ASSUME WireInv, NEW n \in Node, pc[n] = "idle",
         UNCHANGED <<initVars, pc, call, hand, during, sq, cq>>,
         batch' \in [Node -> Seq(Request)], \A m \in Node \ {n} : batch'[m] = batch[m],
         held' \in [Node -> SUBSET Buffer], \A m \in Node \ {n} : held'[m] = held[m],
         free' \in [Node -> SUBSET Buffer], \A m \in Node \ {n} : free'[m] = free[m],
         mem' \in [Node -> [Address -> Value]], \A m \in Node \ {n} : mem'[m] = mem[m],
         \A a \in {"swapped", "data", "prev"} : mem'[n][a] = mem[n][a],
         Len(batch'[n]) <= NumOps,
         \A k \in 1 .. Len(batch'[n]) :
           RightRequest(batch'[n][k]) /\ (batch'[n][k].signaled <=> k = NumOps),
         PoolOK(n) => BatchOK(n)' /\ held'[n] \cap free'[n] = {}
  PROVE  Keeps(n)
<1>1. UNCHANGED <<uses, ipc, at, conn, chan, conn_info, abandoned>>
  BY DEF initVars
<1>2. OpTypeOK /\ OpTypeOK' /\ SentOK(n)
  BY <1>1, WireTypes DEF OpTypeOK, WireInv
<1>3. Aside(n)
  <2>1. \A m \in Node \ {n} : Same(m)
    BY <1>1 DEF Same
  <2> QED BY <2>1, Addresses DEF Aside
<1>4. SentOK(n)'
  <2>1. Outstanding(n)' = Outstanding(n)
    BY DEF Outstanding
  <2>2. Lag(n)'
    BY <1>1, <1>2, <2>1 DEF SentOK, Lag
  <2> QED BY <1>1, <1>2, <2>2 DEF SentOK
<1>5. InitTypeOK' /\ KeysOK'
  BY <1>1, InitKept
<1>6. WireInv'
  BY <1>2, <1>3, <1>4, <1>5, AsideIsSent
<1>7. ASSUME PoolOK(n) PROVE PoolOK(n)' /\ Owned(n)' = Owned(n)
  <2>1. /\ call'[n] = NoCall /\ pc'[n] = "idle" /\ sq'[n][Home] = <<>> /\ cq'[n][Home] = <<>>
    BY <1>2, <1>7, IdleFacts
  <2>2. CallOK(n)'
    BY <1>7, <2>1, NoCallFacts DEF CallOK, Swaps, Copies
  <2>3. QueueOK(n)'
    <3>1. Len(sq'[n][Home]) = 0
      BY <2>1
    <3> QED BY <1>4, <2>1, <3>1 DEF QueueOK, SentOK
  <2>4. EffectOK(n)'
    BY <2>1 DEF EffectOK
  <2>5. Owned(n)' = Owned(n)
    BY <2>1 DEF Owned, Traded
  <2> QED BY <1>7, <2>2, <2>3, <2>4, <2>5 DEF PoolOK
<1> QED BY <1>3, <1>6, <1>7 DEF Keeps

\* A request is added to a batch.
LEMMA AddedFacts ==
  ASSUME WireInv, NEW n \in Node, NEW wr \in Request, Added(n, wr),
         wr.op \in {"READ", "WRITE"}, wr.raddr = "data", wr.rkey = Home, ~wr.done,
         wr.laddr \in Buffer, free'[n] \subseteq free[n],
         PoolOK(n) => ~InBatch(n, wr.laddr) /\ wr.laddr \notin free'[n]
  PROVE  /\ batch' \in [Node -> Seq(Request)] /\ \A m \in Node \ {n} : batch'[m] = batch[m]
         /\ Len(batch'[n]) <= NumOps
         /\ \A k \in 1 .. Len(batch'[n]) :
              RightRequest(batch'[n][k]) /\ (batch'[n][k].signaled <=> k = NumOps)
         /\ PoolOK(n) => BatchOK(n)'
<1>1. OpTypeOK /\ SentOK(n)
  BY WireTypes DEF WireInv
<1> DEFINE L == Len(batch[n])
<1>2. batch[n] \in Seq(Request) /\ L \in Nat /\ L < NumOps /\ NumOps \in Nat
  BY <1>1, PoolAssumption DEF OpTypeOK, Added
<1>3. PICK w \in Request :
        /\ batch' = [batch EXCEPT ![n] = Append(@, w)]
        /\ w.op = wr.op /\ w.raddr = wr.raddr /\ w.rkey = wr.rkey
        /\ w.laddr = wr.laddr /\ (w.done <=> wr.done)
        /\ w.signaled <=> L + 1 = NumOps
  <2>1. PICK sg \in BOOLEAN : sg = (L + 1 = NumOps)
    OBVIOUS
  <2> DEFINE w == [wr EXCEPT !.signaled = sg]
  <2>2. w \in Request
    BY DEF Request
  <2>3. /\ w.op = wr.op /\ w.raddr = wr.raddr /\ w.rkey = wr.rkey
        /\ w.laddr = wr.laddr /\ w.done = wr.done /\ w.signaled = sg
    BY DEF Request
  <2>4. batch' = [batch EXCEPT ![n] = Append(@, w)]
    BY <2>1 DEF Added
  <2> HIDE DEF w
  <2>5. w.signaled <=> L + 1 = NumOps
    BY <2>1, <2>3
  <2> QED BY <2>2, <2>3, <2>4, <2>5
<1>4. Append(batch[n], w) \in Seq(Request)
  BY <1>2
<1>5. /\ batch' \in [Node -> Seq(Request)] /\ batch'[n] = Append(batch[n], w)
      /\ \A m \in Node \ {n} : batch'[m] = batch[m]
  BY <1>1, <1>3, <1>4 DEF OpTypeOK
<1>6. /\ Len(batch'[n]) = L + 1 /\ batch'[n][L + 1] = w
      /\ \A k \in 1 .. L : batch'[n][k] = batch[n][k]
  BY <1>2, <1>5
<1>7. \A k \in 1 .. L + 1 : k = L + 1 \/ (k \in 1 .. L /\ k # NumOps)
  BY <1>2
<1>8. L + 1 <= NumOps
  BY <1>2
<1> HIDE DEF L
<1>9. RightRequest(w)
  BY <1>3 DEF RightRequest
<1>10. ASSUME NEW k \in 1 .. L + 1
       PROVE  RightRequest(batch'[n][k]) /\ (batch'[n][k].signaled <=> k = NumOps)
  <2>1. CASE k = L + 1
    BY <1>3, <1>6, <1>9, <2>1
  <2>2. CASE k \in 1 .. L
    BY <1>1, <1>6, <2>2 DEF SentOK, L
  <2> QED BY <1>7, <2>1, <2>2
<1>11. ASSUME PoolOK(n) PROVE BatchOK(n)'
  <2>1. BatchOK(n) /\ ~InBatch(n, wr.laddr) /\ wr.laddr \notin free'[n]
    BY <1>11 DEF PoolOK
  <2>2. ASSUME NEW k \in 1 .. L
        PROVE  /\ batch[n][k].op \in {"READ", "WRITE"} /\ batch[n][k].raddr = "data"
               /\ batch[n][k].rkey = Home /\ ~batch[n][k].done
               /\ batch[n][k].laddr \in Buffer \ free'[n] /\ batch[n][k].laddr # wr.laddr
               /\ batch[n][k].signaled <=> k = NumOps
    BY <2>1, <2>2 DEF BatchOK, InBatch, L
  <2>3. \A j, k \in 1 .. L : j # k => batch[n][j].laddr # batch[n][k].laddr
    BY <2>1 DEF BatchOK, L
  <2>4. ASSUME NEW k \in 1 .. L + 1
        PROVE  /\ batch'[n][k].op \in {"READ", "WRITE"} /\ batch'[n][k].raddr = "data"
               /\ batch'[n][k].rkey = Home /\ ~batch'[n][k].done
               /\ batch'[n][k].laddr \in Buffer \ free'[n]
               /\ batch'[n][k].signaled <=> k = NumOps
    <3>1. CASE k = L + 1
      BY <1>3, <1>6, <2>1, <3>1
    <3>2. CASE k \in 1 .. L
      BY <1>6, <2>2, <3>2
    <3> QED BY <1>7, <3>1, <3>2
  <2>5. ASSUME NEW j \in 1 .. L + 1, NEW k \in 1 .. L + 1, j # k
        PROVE  batch'[n][j].laddr # batch'[n][k].laddr
    BY <1>3, <1>6, <1>7, <2>2, <2>3, <2>5
  <2> QED BY <1>6, <1>8, <2>4, <2>5 DEF BatchOK
<1> QED BY <1>5, <1>6, <1>8, <1>10, <1>11

LEMMA AddReadKeeps ==
  ASSUME WireInv, NEW n \in Node, NEW b \in Buffer, AddRead(n, b)
  PROVE  Keeps(n)
<1>1. /\ ipc[n] = "ready" /\ pc[n] = "idle" /\ Allocates(n, b) /\ Stored(n, b, Zero)
      /\ held' = [held EXCEPT ![n] = @ \cup {b}]
      /\ UNCHANGED <<initVars, pc, call, hand, during, sq, cq>>
  BY DEF AddRead, May, Idle
<1>2. OpTypeOK /\ b \in Address /\ Zero \in Value /\ "data" \in Address
  BY WireTypes, Addresses
<1>3. PICK wr \in Request :
        /\ wr = WorkRequest(n, "READ", "data", b, Zero, Zero, FALSE, FALSE)
        /\ wr.op = "READ" /\ wr.raddr = "data" /\ wr.laddr = b
        /\ wr.rkey = Home /\ wr.done = FALSE
  <2>1. WorkRequest(n, "READ", "data", b, Zero, Zero, FALSE, FALSE) \in Request
    BY <1>1, <1>2, KeyIsHome DEF WorkRequest, Request
  <2> QED BY <1>1, <2>1, KeyIsHome DEF WorkRequest
<1>4. Added(n, wr)
  BY <1>3 DEF AddRead
<1>5. /\ b \in free[n] /\ free' \in [Node -> SUBSET Buffer]
      /\ free'[n] = free[n] \ {b} /\ \A m \in Node \ {n} : free'[m] = free[m]
  BY <1>1, <1>2, AllocatesFacts
<1>6. /\ mem' \in [Node -> [Address -> Value]]
      /\ \A a \in Address \ {b} : mem'[n][a] = mem[n][a]
      /\ \A m \in Node \ {n} : mem'[m] = mem[m]
  BY <1>1, <1>2, StoredFacts
<1>7. PoolOK(n) => ~InBatch(n, b)
  BY <1>5 DEF InBatch, PoolOK, BatchOK
<1>8. /\ batch' \in [Node -> Seq(Request)] /\ \A m \in Node \ {n} : batch'[m] = batch[m]
      /\ Len(batch'[n]) <= NumOps
      /\ \A k \in 1 .. Len(batch'[n]) :
           RightRequest(batch'[n][k]) /\ (batch'[n][k].signaled <=> k = NumOps)
      /\ PoolOK(n) => BatchOK(n)'
  <2>1. /\ wr.op \in {"READ", "WRITE"} /\ wr.raddr = "data" /\ wr.rkey = Home /\ ~wr.done
        /\ wr.laddr \in Buffer /\ wr \in Request /\ free'[n] \subseteq free[n]
        /\ PoolOK(n) => ~InBatch(n, wr.laddr) /\ wr.laddr \notin free'[n]
    BY <1>3, <1>5, <1>7
  <2> QED BY <1>4, <2>1, AddedFacts
<1>9. held' \in [Node -> SUBSET Buffer] /\ \A m \in Node \ {n} : held'[m] = held[m]
  BY <1>1, <1>2 DEF OpTypeOK
<1>10. PoolOK(n) => held'[n] \cap free'[n] = {}
  BY <1>1, <1>2, <1>5, IdleFacts DEF OpTypeOK
<1>11. \A a \in {"swapped", "data", "prev"} : mem'[n][a] = mem[n][a]
  BY <1>6, Addresses
<1>12. pc[n] = "idle" /\ UNCHANGED <<initVars, pc, call, hand, during, sq, cq>>
  BY <1>1
<1> QED BY <1>5, <1>6, <1>8, <1>9, <1>10, <1>11, <1>12, BetweenCalls

LEMMA AddWriteKeeps ==
  ASSUME WireInv, NEW n \in Node, NEW b \in Buffer, NEW v \in Datum, AddWrite(n, b, v)
  PROVE  Keeps(n)
<1>1. /\ ipc[n] = "ready" /\ pc[n] = "idle" /\ (Allocates(n, b) \/ Prealloc(n, b))
      /\ Stored(n, b, v) /\ held' = held /\ ~InBatch(n, b)
      /\ UNCHANGED <<initVars, pc, call, hand, during, sq, cq>>
  BY DEF AddWrite, May, Idle
<1>2. /\ OpTypeOK /\ b \in Address /\ Zero \in Value /\ v \in Value
      /\ "data" \in Address
  BY WireTypes, Addresses
<1>3. PICK wr \in Request :
        /\ wr = WorkRequest(n, "WRITE", "data", b, Zero, v, FALSE, FALSE)
        /\ wr.op = "WRITE" /\ wr.raddr = "data" /\ wr.laddr = b
        /\ wr.rkey = Home /\ wr.done = FALSE
  <2>1. WorkRequest(n, "WRITE", "data", b, Zero, v, FALSE, FALSE) \in Request
    BY <1>1, <1>2, KeyIsHome DEF WorkRequest, Request
  <2> QED BY <1>1, <2>1, KeyIsHome DEF WorkRequest
<1>4. Added(n, wr)
  BY <1>3 DEF AddWrite
<1>5. /\ b \notin free'[n] \/ (b \in held[n] /\ free' = free)
      /\ free' \in [Node -> SUBSET Buffer] /\ free'[n] \subseteq free[n]
      /\ \A m \in Node \ {n} : free'[m] = free[m]
  <2>1. CASE Allocates(n, b)
    BY <1>2, <2>1, AllocatesFacts
  <2>2. CASE Prealloc(n, b)
    BY <1>2, <2>2, PreallocFacts
  <2> QED BY <1>1, <2>1, <2>2
<1>6. /\ mem' \in [Node -> [Address -> Value]]
      /\ \A a \in Address \ {b} : mem'[n][a] = mem[n][a]
      /\ \A m \in Node \ {n} : mem'[m] = mem[m]
  BY <1>1, <1>2, StoredFacts
<1>7. PoolOK(n) => b \notin free'[n] /\ held'[n] \cap free'[n] = {}
  BY <1>1, <1>2, <1>5, IdleFacts
<1>8. /\ batch' \in [Node -> Seq(Request)] /\ \A m \in Node \ {n} : batch'[m] = batch[m]
      /\ Len(batch'[n]) <= NumOps
      /\ \A k \in 1 .. Len(batch'[n]) :
           RightRequest(batch'[n][k]) /\ (batch'[n][k].signaled <=> k = NumOps)
      /\ PoolOK(n) => BatchOK(n)'
  <2>1. /\ wr.op \in {"READ", "WRITE"} /\ wr.raddr = "data" /\ wr.rkey = Home /\ ~wr.done
        /\ wr.laddr \in Buffer /\ wr \in Request /\ free'[n] \subseteq free[n]
        /\ PoolOK(n) => ~InBatch(n, wr.laddr) /\ wr.laddr \notin free'[n]
    BY <1>1, <1>3, <1>5, <1>7
  <2> QED BY <1>4, <2>1, AddedFacts
<1>9. held' \in [Node -> SUBSET Buffer] /\ \A m \in Node \ {n} : held'[m] = held[m]
  BY <1>1, <1>2 DEF OpTypeOK
<1>10. \A a \in {"swapped", "data", "prev"} : mem'[n][a] = mem[n][a]
  BY <1>6, Addresses
<1>11. pc[n] = "idle" /\ UNCHANGED <<initVars, pc, call, hand, during, sq, cq>>
  BY <1>1
<1> QED BY <1>5, <1>6, <1>7, <1>8, <1>9, <1>10, <1>11, BetweenCalls

LEMMA GivingBackKeeps ==
  ASSUME WireInv, NEW n \in Node, DestroyBatch(n) \/ \E b \in Buffer : Deallocate(n, b)
  PROVE  Keeps(n)
<1>1. OpTypeOK /\ SentOK(n)
  BY WireTypes DEF WireInv
<1>2. CASE DestroyBatch(n)
  <2>1. /\ pc[n] = "idle" /\ batch' = [batch EXCEPT ![n] = <<>>]
        /\ UNCHANGED <<initVars, pc, call, hand, held, free, during, mem, sq, cq>>
    BY <1>2 DEF DestroyBatch, Idle, wireVars
  <2>2. /\ batch' \in [Node -> Seq(Request)] /\ batch'[n] = <<>>
        /\ \A m \in Node \ {n} : batch'[m] = batch[m]
    BY <1>1, <2>1 DEF OpTypeOK
  <2>3. Len(batch'[n]) = 0 /\ Len(batch'[n]) <= NumOps /\ 1 .. 0 = {}
    BY <2>2, PoolAssumption
  <2>4. \A k \in 1 .. Len(batch'[n]) :
           RightRequest(batch'[n][k]) /\ (batch'[n][k].signaled <=> k = NumOps)
    BY <2>3, Zenon
  <2>5. BatchOK(n)'
    BY <2>2, PoolAssumption DEF BatchOK
  <2>6. PoolOK(n) => held'[n] \cap free'[n] = {}
    BY <1>1, <2>1, IdleFacts
  <2>7. /\ held' \in [Node -> SUBSET Buffer] /\ free' \in [Node -> SUBSET Buffer]
        /\ mem' \in [Node -> [Address -> Value]]
    BY <1>1, <2>1 DEF OpTypeOK
  <2> QED BY <2>1, <2>2, <2>3, <2>4, <2>5, <2>6, <2>7, BetweenCalls
<1>3. ASSUME NEW b \in Buffer, Deallocate(n, b) PROVE Keeps(n)
  <2>1. /\ pc[n] = "idle" /\ b \in held[n] /\ ~InBatch(n, b)
        /\ held' = [held EXCEPT ![n] = @ \ {b}]
        /\ free' = [free EXCEPT ![n] = @ \cup {b}]
        /\ UNCHANGED <<initVars, pc, call, batch, hand, during, mem, sq, cq>>
    BY <1>3 DEF Deallocate, Idle, wireVars
  <2>2. /\ held' \in [Node -> SUBSET Buffer] /\ free' \in [Node -> SUBSET Buffer]
        /\ held'[n] = held[n] \ {b} /\ free'[n] = free[n] \cup {b}
        /\ \A m \in Node \ {n} : held'[m] = held[m] /\ free'[m] = free[m]
    BY <1>1, <2>1 DEF OpTypeOK
  <2>3. /\ Len(batch'[n]) <= NumOps
        /\ \A k \in 1 .. Len(batch'[n]) :
             RightRequest(batch'[n][k]) /\ (batch'[n][k].signaled <=> k = NumOps)
    BY <1>1, <2>1 DEF SentOK
  <2>4. PoolOK(n) => BatchOK(n)'
    BY <2>1, <2>2 DEF PoolOK, BatchOK, InBatch
  <2>5. PoolOK(n) => held'[n] \cap free'[n] = {}
    BY <1>1, <2>1, <2>2, IdleFacts
  <2>6. mem' \in [Node -> [Address -> Value]] /\ batch' \in [Node -> Seq(Request)]
    BY <1>1, <2>1 DEF OpTypeOK
  <2> QED BY <2>1, <2>2, <2>3, <2>4, <2>5, <2>6, BetweenCalls
<1> QED BY <1>2, <1>3

-----------------------------------------------------------------------------
(* Execute posts a full batch.                                             *)

LEMMA ExecuteStartKeeps ==
  ASSUME WireInv, NEW n \in Node, NEW mortal \in BOOLEAN, ExecuteStart(n, mortal)
  PROVE  Keeps(n)
<1> DEFINE q == [k \in 1 .. NumOps |->
                  [batch[n][k] EXCEPT !.swap = mem[n][batch[n][k].laddr]]]
<1>1. /\ ipc[n] = "ready" /\ pc[n] = "idle" /\ Len(batch[n]) = NumOps
      /\ Post(n, q)
      /\ during' = [during EXCEPT ![n] = {mem[Home]["data"]}]
      /\ UNCHANGED <<initVars, batch, hand, held, free, mem, cq>>
  BY DEF ExecuteStart, Idle, Full
<1>2. OpTypeOK /\ SentOK(n) /\ NumOps \in Nat \ {0}
  BY WireTypes, PoolAssumption DEF WireInv
<1>3. ASSUME NEW k \in 1 .. NumOps
      PROVE  /\ q[k] \in Request /\ q[k].op = batch[n][k].op
             /\ q[k].raddr = batch[n][k].raddr /\ q[k].laddr = batch[n][k].laddr
             /\ q[k].rkey = batch[n][k].rkey /\ q[k].done = batch[n][k].done
             /\ q[k].signaled = batch[n][k].signaled /\ q[k].ok = batch[n][k].ok
             /\ q[k].swap = mem[n][batch[n][k].laddr]
  <2>1. batch[n] \in Seq(Request) /\ batch[n][k] \in Request
    BY <1>1, <1>2 DEF OpTypeOK
  <2>2. batch[n][k].laddr \in Address
    BY <2>1 DEF Request
  <2>3. mem[n][batch[n][k].laddr] \in Value
    BY <1>2, <2>2 DEF OpTypeOK
  <2>4. q[k] = [batch[n][k] EXCEPT !.swap = mem[n][batch[n][k].laddr]]
    OBVIOUS
  <2> HIDE DEF q
  <2> QED BY <2>1, <2>3, <2>4 DEF Request
<1>4. PICK r \in Seq(Request) :
        /\ r = q /\ Len(r) = NumOps
        /\ \A k \in 1 .. NumOps :
             /\ r[k].op = batch[n][k].op
             /\ r[k].raddr = batch[n][k].raddr /\ r[k].laddr = batch[n][k].laddr
             /\ r[k].rkey = batch[n][k].rkey /\ r[k].done = batch[n][k].done
             /\ r[k].signaled = batch[n][k].signaled /\ r[k].ok = batch[n][k].ok
             /\ r[k].swap = mem[n][batch[n][k].laddr]
  <2>1. q \in [1 .. NumOps -> Request]
    BY <1>3
  <2>2. q \in Seq(Request) /\ Len(q) = NumOps
    <3> HIDE DEF q
    <3> QED BY <1>2, <2>1
  <2> HIDE DEF q
  <2> QED BY <1>3, <2>2, Zenon
<1>5. Post(n, r)
  BY <1>1, <1>4
<1> HIDE DEF q
<1>6. PICK c \in Call :
        /\ c = [NoCall EXCEPT !.kind = "Execute", !.mortal = mortal]
        /\ c.kind = "Execute" /\ c.own = FALSE
  <2>1. Zero \in Value /\ "prev" \in Address /\ Home \in Node
    BY Addresses
  <2>2. [NoCall EXCEPT !.kind = "Execute", !.mortal = mortal] \in Call
    BY <2>1 DEF NoCall, Call, Kinds
  <2> QED BY <2>2 DEF NoCall
<1>7. /\ call' = [call EXCEPT ![n] = c] /\ call'[n] = c
      /\ pc' = [pc EXCEPT ![n] = "poll"] /\ pc'[n] = "poll"
  BY <1>2, <1>6 DEF ExecuteStart, Calls, OpTypeOK
<1>8. ASSUME NEW k \in 1 .. NumOps
      PROVE  RightRequest(r[k]) /\ (r[k].signaled <=> k = NumOps)
  <2>1. RightRequest(batch[n][k]) /\ (batch[n][k].signaled <=> k = NumOps)
    BY <1>1, <1>2, <1>8 DEF SentOK
  <2>2. RightRequest(r[k])
    BY <1>4, <1>8, <2>1 DEF RightRequest
  <2>3. r[k].signaled = batch[n][k].signaled
    BY <1>4, <1>8
  <2> QED BY <2>1, <2>2, <2>3
<1>9. OneSignal(r) /\ \A k \in 1 .. Len(r) : RightRequest(r[k])
  BY <1>2, <1>4, <1>8 DEF OneSignal
<1>10. /\ during' \in [Node -> SUBSET Value] /\ mem[Home]["data"] \in during'[n]
       /\ \A m \in Node \ {n} : during'[m] = during[m]
  <2>1. mem[Home]["data"] \in Value
    BY <1>2, Addresses DEF OpTypeOK
  <2> QED BY <1>1, <1>2, <2>1 DEF OpTypeOK
<1>11. Touches(n) /\ Taken(n)
  <2>1. Taken(n)
    BY <1>1, NothingTaken
  <2>2. /\ held' \in [Node -> SUBSET Buffer] /\ free' \in [Node -> SUBSET Buffer]
        /\ mem' \in [Node -> [Address -> Value]]
    BY <1>1, <1>2 DEF OpTypeOK
  <2> QED BY <1>1, <1>10, <2>1, <2>2 DEF Touches
<1>12. WireInv' /\ Aside(n)
  <2>1. ipc[n] = "ready" /\ UNCHANGED <<initVars, batch, hand>> /\ ~c.own
    BY <1>1, <1>6
  <2> QED BY <1>5, <1>7, <1>9, <1>10, <1>11, <2>1, WirePost
<1>13. ASSUME PoolOK(n) PROVE PoolOK(n)' /\ Owned(n)' = Owned(n)
  <2>1. /\ sq[n][Home] = <<>> /\ cq'[n][Home] = <<>> /\ Owned(n) = hand[n]
        /\ held[n] \cap free[n] = {}
    BY <1>1, <1>2, <1>13, IdleFacts
  <2>2. sq'[n][Home] = r
    <3>1. <<>> \o r = r
      OBVIOUS
    <3> QED BY <1>2, <1>5, <2>1, <3>1, PostFacts
  <2>3. BatchOK(n)'
    BY <1>1, <1>13 DEF PoolOK, BatchOK
  <2>4. CallOK(n)'
    <3>1. ipc'[n] = "ready"
      BY <1>1 DEF initVars
    <3> QED BY <1>1, <1>6, <1>7, <2>1, <3>1 DEF CallOK, Swaps, Copies
  <2>5. ASSUME NEW k \in 1 .. NumOps
        PROVE  RequestOK(n, r[k])' /\ r[k].laddr = batch[n][k].laddr /\ ~r[k].done
    <3>1. /\ batch[n][k].op \in {"READ", "WRITE"} /\ batch[n][k].raddr = "data"
          /\ batch[n][k].rkey = Home /\ ~batch[n][k].done
          /\ batch[n][k].laddr \in Buffer \ free[n]
      BY <1>1, <1>13, <2>5 DEF PoolOK, BatchOK
    <3>2. /\ r[k].op \in {"READ", "WRITE"} /\ r[k].raddr = "data"
          /\ r[k].rkey = Home /\ ~r[k].done
          /\ r[k].laddr \in Buffer \ free[n] /\ r[k].laddr = batch[n][k].laddr
          /\ r[k].swap = mem[n][r[k].laddr]
      BY <1>4, <2>5, <3>1
    <3>3. RequestOK(n, r[k])'
      BY <1>1, <1>6, <1>7, <3>2 DEF RequestOK, Swaps
    <3> QED BY <3>2, <3>3
  <2>6. QueueOK(n)'
    <3>1. sq'[n][Home] # <<>> /\ Len(sq'[n][Home]) = NumOps
      BY <1>2, <1>4, <2>2
    <3>2. \A j, k \in 1 .. NumOps : j # k => r[j].laddr # r[k].laddr
      BY <1>1, <1>13, <2>5 DEF PoolOK, BatchOK
    <3>3. call'[n].kind \notin Swaps
      BY <1>6, <1>7 DEF Swaps
    <3>4. \A k \in 1 .. NumOps :
            RequestOK(n, sq[n][Home][k])' /\ (sq'[n][Home][k].signaled <=> k = NumOps)
      BY <1>8, <2>2, <2>5
    <3>5. \A p \in Node \ {Home} : sq'[n][p] = <<>> /\ cq'[n][p] = <<>>
      BY <1>12 DEF WireInv, SentOK
    <3> QED BY <1>7, <2>1, <2>2, <3>1, <3>2, <3>3, <3>4, <3>5 DEF QueueOK
  <2>7. EffectOK(n)'
    <3>1. Locals(n)' = {batch[n][k].laddr : k \in 1 .. NumOps}
      BY <1>1, <1>6, <1>7 DEF Locals
    <3>2. Len(sq'[n][Home]) = NumOps /\ \A k \in 1 .. NumOps : sq'[n][Home][k] = r[k]
      BY <1>4, <2>2
    <3>3. \A k \in 1 .. NumOps : ~sq'[n][Home][k].done
      BY <2>5, <3>2
    <3>4. ASSUME NEW a \in Locals(n)'
          PROVE  \E k \in 1 .. NumOps : sq'[n][Home][k].laddr = a
      <4>1. PICK k \in 1 .. NumOps : a = batch[n][k].laddr
        BY <3>1, <3>4
      <4> QED BY <2>5, <3>2, <4>1
    <3> QED BY <3>2, <3>3, <3>4 DEF EffectOK
  <2>8. Owned(n)' = Owned(n)
    <3>1. ~Traded(n)'
      BY <1>6, <1>7 DEF Traded, Swaps
    <3> QED BY <1>1, <2>1, <3>1 DEF Owned
  <2> QED BY <2>3, <2>4, <2>6, <2>7, <2>8 DEF PoolOK
<1> QED BY <1>12, <1>13 DEF Keeps

-----------------------------------------------------------------------------
(* Calls return.                                                           *)

\* A completion is taken, and what is left in the queue are successful ones.
LEMMA CompletionTaken ==
  ASSUME WireInv, NEW n \in Node, pc[n] = "poll", Completion(n)
  PROVE  Taken(n)
<1>1. OpTypeOK /\ SentOK(n)
  BY WireTypes DEF WireInv
<1>2. PICK q \in Seq(BOOLEAN) : q = cq[n][Home]
  BY <1>1, Addresses DEF OpTypeOK
<1>3. q # <<>> /\ cq' = [cq EXCEPT ![n][Home] = Tail(q)]
  BY <1>2 DEF Completion
<1>4. Tail(q) \in Seq(BOOLEAN) /\ Len(q) \in Nat \ {0} /\ Len(Tail(q)) = Len(q) - 1
  BY <1>3
<1>5. /\ cq' \in [Node -> [Node -> Seq(BOOLEAN)]] /\ cq'[n][Home] = Tail(q)
      /\ \A m \in Node \ {n} : cq'[m] = cq[m]
      /\ \A p \in Node \ {Home} : cq'[n][p] = cq[n][p]
  BY <1>1, <1>3, <1>4, Addresses DEF OpTypeOK
<1>6. ASSUME NEW k \in 1 .. Len(Tail(q)) PROVE Tail(q)[k]
  <2>1. k + 1 \in 1 .. Len(q) /\ Tail(q)[k] = q[k + 1]
    BY <1>3, <1>4
  <2>2. q[k + 1]
    BY <1>1, <1>2, <2>1 DEF SentOK
  <2> QED BY <2>1, <2>2
<1>7. Len(cq[n][Home]) = Len(cq'[n][Home]) + 1
  BY <1>2, <1>4, <1>5
<1>8. \A k \in 1 .. Len(cq'[n][Home]) : cq'[n][Home][k]
  BY <1>5, <1>6
<1> QED BY <1>5, <1>7, <1>8 DEF Taken

\* In a pool that never abandoned a call the completion is the call's, and the last.
LEMMA CompletionFacts ==
  ASSUME OpTypeOK, NEW n \in Node, PoolOK(n), pc[n] = "poll", Completion(n)
  PROVE  sq[n][Home] = <<>> /\ cq'[n][Home] = <<>>
<1>1. cq[n][Home] # <<>> /\ cq' = [cq EXCEPT ![n][Home] = Tail(cq[n][Home])]
  BY DEF Completion
<1>2. sq[n][Home] = <<>> /\ cq[n][Home] = <<TRUE>>
  BY <1>1 DEF PoolOK, QueueOK
<1>3. Tail(<<TRUE>>) = <<>>
  OBVIOUS
<1>4. cq' = [cq EXCEPT ![n][Home] = <<>>]
  BY <1>1, <1>2, <1>3
<1> QED BY <1>2, <1>4, Addresses DEF OpTypeOK

\* The pool is one completion less behind, and nothing else on the wire changes.
LEMMA WireReturn ==
  ASSUME WireInv, NEW n \in Node, pc[n] = "poll", Completion(n), Returns(n),
         UNCHANGED <<initVars, batch, held, mem, sq>>,
         hand' \in [Node -> Value], \A m \in Node \ {n} : hand'[m] = hand[m],
         free' \in [Node -> SUBSET Buffer], \A m \in Node \ {n} : free'[m] = free[m]
  PROVE  WireInv' /\ Aside(n)
<1>1. OpTypeOK /\ SentOK(n) /\ Taken(n)
  BY WireTypes, CompletionTaken DEF WireInv
<1>2. /\ pc' \in [Node -> {"idle", "poll"}] /\ pc'[n] = "idle"
      /\ call' \in [Node -> Call] /\ call'[n] = NoCall
      /\ during' \in [Node -> SUBSET Value]
      /\ \A m \in Node \ {n} : pc'[m] = pc[m] /\ call'[m] = call[m] /\ during'[m] = during[m]
  BY <1>1, NoCallFacts DEF Returns, OpTypeOK
<1>3. UNCHANGED <<uses, ipc, at, conn, chan, conn_info, abandoned>>
  BY DEF initVars
<1>4. /\ cq' \in [Node -> [Node -> Seq(BOOLEAN)]] /\ \A m \in Node \ {n} : cq'[m] = cq[m]
      /\ Len(cq[n][Home]) = Len(cq'[n][Home]) + 1
  BY <1>1 DEF Taken
<1>5. OpTypeOK'
  BY <1>1, <1>2, <1>3, <1>4 DEF OpTypeOK
<1>6. Aside(n)
  <2>1. \A m \in Node \ {n} : Same(m)
    BY <1>2, <1>3, <1>4 DEF Same
  <2> QED BY <2>1 DEF Aside
<1>7. Lag(n)'
  <2>1. PICK s : s = Cardinality(Signaled(sq[n][Home]))
    OBVIOUS
  <2>2. s \in Nat
    <3>1. sq[n][Home] \in Seq(Request)
      BY <1>1, Addresses DEF OpTypeOK
    <3> QED BY <2>1, <3>1, SignaledIsFinite
  <2>3. PICK j \in Nat : j = Len(cq'[n][Home])
    <3>1. cq'[n][Home] \in Seq(BOOLEAN)
      BY <1>4, Addresses
    <3> QED BY <3>1
  <2>4. PICK z \in Nat : z = abandoned[n]
    BY <1>1 DEF OpTypeOK
  <2>5. (j + 1) + s = z + 1
    BY <1>1, <1>4, <2>1, <2>3, <2>4 DEF SentOK, Lag, Outstanding
  <2>6. j + s = z
    BY <2>2, <2>5
  <2>7. Outstanding(n)' = j + s
    BY <2>1, <2>3 DEF Outstanding
  <2>8. abandoned'[n] = z /\ z = z + 0
    BY <1>3, <2>4
  <2> QED BY <1>2, <2>6, <2>7, <2>8 DEF Lag
<1>8. SentOK(n)'
  <2>1. \A p \in Node \ {Home} : sq'[n][p] = <<>> /\ cq'[n][p] = <<>>
    BY <1>1 DEF SentOK, Taken
  <2>2. /\ Len(batch'[n]) <= NumOps
        /\ \A k \in 1 .. Len(batch'[n]) :
             RightRequest(batch'[n][k]) /\ (batch'[n][k].signaled <=> k = NumOps)
        /\ \A k \in 1 .. Len(sq'[n][Home]) : RightRequest(sq'[n][Home][k])
    BY <1>1 DEF SentOK
  <2>3. \A k \in 1 .. Len(cq'[n][Home]) : cq'[n][Home][k]
    BY <1>1 DEF Taken
  <2> QED BY <1>2, <1>7, <2>1, <2>2, <2>3, NoCallFacts DEF SentOK
<1>9. InitTypeOK' /\ KeysOK'
  BY <1>3, InitKept
<1> QED BY <1>2, <1>5, <1>6, <1>8, <1>9, AsideIsSent

\* The caller has what it traded for, and the memory of the call is given back.
LEMMA CallReturns ==
  ASSUME WireInv, NEW n \in Node, pc[n] = "poll", Completion(n), Returns(n),
         UNCHANGED <<initVars, batch, held, mem, sq>>,
         NEW t \in Value, hand' = [hand EXCEPT ![n] = t],
         free' \in [Node -> SUBSET Buffer], \A m \in Node \ {n} : free'[m] = free[m],
         PoolOK(n) => t = Owned(n) /\ BatchOK(n)' /\ held[n] \cap free'[n] = {}
  PROVE  Keeps(n)
<1>1. OpTypeOK
  BY WireTypes
<1>2. /\ hand' \in [Node -> Value] /\ hand'[n] = t
      /\ \A m \in Node \ {n} : hand'[m] = hand[m]
  BY <1>1 DEF OpTypeOK
<1>3. WireInv' /\ Aside(n)
  BY <1>2, WireReturn
<1>4. ASSUME PoolOK(n) PROVE PoolOK(n)' /\ Owned(n)' = Owned(n)
  <2>1. sq'[n][Home] = <<>> /\ cq'[n][Home] = <<>> /\ Len(sq'[n][Home]) = 0
    <3>1. sq[n][Home] = <<>> /\ cq'[n][Home] = <<>>
      BY <1>1, <1>4, CompletionFacts
    <3> QED BY <3>1
  <2>2. pc'[n] = "idle" /\ call'[n] = NoCall
    BY <1>1 DEF Returns, OpTypeOK
  <2>3. CallOK(n)'
    BY <1>4, <2>2, NoCallFacts DEF CallOK, Swaps, Copies
  <2>4. QueueOK(n)'
    <3>1. \A p \in Node \ {Home} : sq'[n][p] = <<>> /\ cq'[n][p] = <<>>
      BY <1>3 DEF WireInv, SentOK
    <3> QED BY <2>1, <2>2, <3>1, NoCallFacts DEF QueueOK, Swaps
  <2>5. EffectOK(n)'
    BY <2>2 DEF EffectOK
  <2>6. Owned(n)' = Owned(n)
    BY <1>2, <1>4, <2>2 DEF Owned, Traded
  <2> QED BY <1>4, <2>3, <2>4, <2>5, <2>6 DEF PoolOK
<1> QED BY <1>3, <1>4 DEF Keeps

\* Between the answer to a swap and its return, Swapped tells whether it happened.
LEMMA SwappedIsTraded ==
  ASSUME NEW n \in Node, pc[n] = "poll", sq[n][Home] = <<>>
  PROVE  /\ call[n].kind \in Swaps => Owned(n) = IF Swapped(n) THEN call[n].cmp ELSE hand[n]
         /\ call[n].kind \notin Swaps => Owned(n) = hand[n]
BY DEF Owned, Traded, Swapped

\* The next attempt of AtomicSwap.
LEMMA RetryKeeps ==
  ASSUME WireInv, NEW n \in Node, AtomicSwapRetry(n)
  PROVE  Keeps(n)
<1>1. /\ pc[n] = "poll" /\ call[n].kind = "AtomicSwap" /\ ~Swapped(n) /\ Completion(n)
      /\ call' = [call EXCEPT ![n].cmp = mem[n]["prev"]]
      /\ Post(n, <<CompareRequest(n, mem[n]["prev"], call[n].val)>>)
      /\ UNCHANGED <<initVars, pc, batch, hand, held, free, during, mem>>
  BY DEF AtomicSwapRetry, Polling
<1>2. /\ OpTypeOK /\ mem[n]["prev"] \in Value /\ call[n] \in Call /\ call[n].val \in Value
      /\ ipc[n] = "ready" /\ Taken(n)
  <2>1. OpTypeOK /\ SentOK(n) /\ Taken(n)
    BY <1>1, WireTypes, CompletionTaken DEF WireInv
  <2>2. call[n] \in Call /\ mem[n]["prev"] \in Value
    BY <2>1, Addresses DEF OpTypeOK
  <2> QED BY <1>1, <2>1, <2>2 DEF SentOK, Call
<1>3. call[n].own => call[n].local \in Buffer
  BY DEF WireInv, SentOK
<1>4. PICK c \in Call : /\ c = [call[n] EXCEPT !.cmp = mem[n]["prev"]]
                        /\ c.kind = "AtomicSwap" /\ c.cmp = mem[n]["prev"]
                        /\ c.val = call[n].val /\ c.mortal = call[n].mortal
                        /\ c.own = call[n].own /\ c.local = call[n].local
  <2>1. [call[n] EXCEPT !.cmp = mem[n]["prev"]] \in Call
    BY <1>2 DEF Call
  <2>2. /\ [call[n] EXCEPT !.cmp = mem[n]["prev"]].kind = call[n].kind
        /\ [call[n] EXCEPT !.cmp = mem[n]["prev"]].cmp = mem[n]["prev"]
        /\ [call[n] EXCEPT !.cmp = mem[n]["prev"]].val = call[n].val
        /\ [call[n] EXCEPT !.cmp = mem[n]["prev"]].mortal = call[n].mortal
        /\ [call[n] EXCEPT !.cmp = mem[n]["prev"]].own = call[n].own
        /\ [call[n] EXCEPT !.cmp = mem[n]["prev"]].local = call[n].local
    BY <1>2 DEF Call
  <2> QED BY <1>1, <2>1, <2>2
<1>5. call' = [call EXCEPT ![n] = c] /\ pc' = [pc EXCEPT ![n] = "poll"]
  BY <1>1, <1>2, <1>4 DEF OpTypeOK
<1>6. PoolOK(n) => /\ sq[n][Home] = <<>> /\ cq'[n][Home] = <<>>
                   /\ Owned(n) = hand[n] /\ call[n].val = hand[n]
                   /\ ~c.mortal /\ ~c.own
  <2> SUFFICES ASSUME PoolOK(n)
               PROVE  /\ sq[n][Home] = <<>> /\ cq'[n][Home] = <<>>
                      /\ Owned(n) = hand[n] /\ call[n].val = hand[n]
                      /\ ~c.mortal /\ ~c.own
    OBVIOUS
  <2>1. sq[n][Home] = <<>> /\ cq'[n][Home] = <<>>
    BY <1>1, <1>2, CompletionFacts
  <2>2. Owned(n) = hand[n] /\ call[n].val = hand[n]
    BY <1>1, <2>1, SwappedIsTraded DEF PoolOK, CallOK, Swaps
  <2>3. ~call[n].mortal /\ ~call[n].own
    BY <1>1 DEF PoolOK, CallOK
  <2> QED BY <1>4, <2>1, <2>2, <2>3
<1>7. "AtomicSwap" \in Swaps /\ c.kind = "AtomicSwap" /\ c.cmp = mem[n]["prev"]
      /\ c.val = call[n].val /\ (c.own => c.local \in Buffer)
  BY <1>3, <1>4 DEF Swaps
<1>8. PICK cmp \in Value, val \in Value : cmp = mem[n]["prev"] /\ val = call[n].val
  BY <1>2
<1>9. /\ UNCHANGED <<initVars, batch, hand, held, free, mem>> /\ during' = during
      /\ Post(n, <<CompareRequest(n, cmp, val)>>) /\ ipc[n] = "ready" /\ Taken(n)
      /\ c.kind = "AtomicSwap" /\ c.cmp = cmp /\ c.val = val /\ (c.own => c.local \in Buffer)
  BY <1>1, <1>2, <1>7, <1>8
<1>10. PoolOK(n) => /\ sq[n][Home] = <<>> /\ cq'[n][Home] = <<>>
                    /\ Owned(n) = hand[n] /\ val = hand[n] /\ ~c.mortal /\ ~c.own
  BY <1>6, <1>8
<1> QED BY <1>5, <1>7, <1>9, <1>10, CompareStarts

LEMMA ReturnKeeps ==
  ASSUME WireInv, NEW n \in Node, CallStep(n)
  PROVE  Keeps(n)
<1>1. pc[n] = "poll" /\ Completion(n)
  BY DEF CallStep, ReadReturn, WriteReturn, AtomicSwapReturn, AtomicSwapRetry,
         CompareAndSwapReturn, ExecuteReturn, Polling
<1>2. OpTypeOK /\ SentOK(n)
  BY WireTypes DEF WireInv
<1>3. hand = [hand EXCEPT ![n] = hand[n]] /\ hand[n] \in Value
  BY <1>2 DEF OpTypeOK
<1>4. PoolOK(n) => sq[n][Home] = <<>>
  BY <1>1, <1>2, CompletionFacts
<1>5. ASSUME UNCHANGED <<batch, free>>, PoolOK(n)
      PROVE  BatchOK(n)' /\ held[n] \cap free'[n] = {}
  BY <1>5 DEF PoolOK, BatchOK, CallOK
<1>6. CASE ReadReturn(n) \/ ExecuteReturn(n)
  <2>1. /\ call[n].kind \notin Swaps /\ Returns(n)
        /\ UNCHANGED <<initVars, batch, hand, held, free, mem, sq>>
    BY <1>6 DEF ReadReturn, ExecuteReturn, Polling, Swaps
  <2>2. hand' = [hand EXCEPT ![n] = hand[n]]
    BY <1>3, <2>1
  <2>3. free' \in [Node -> SUBSET Buffer] /\ \A m \in Node \ {n} : free'[m] = free[m]
    BY <1>2, <2>1 DEF OpTypeOK
  <2>4. PoolOK(n) => /\ hand[n] = Owned(n) /\ BatchOK(n)' /\ held[n] \cap free'[n] = {}
    BY <1>1, <1>4, <1>5, <2>1, SwappedIsTraded
  <2> QED BY <1>1, <1>3, <2>1, <2>2, <2>3, <2>4, CallReturns
<1>7. CASE WriteReturn(n)
  <2>1. /\ call[n].kind \notin Swaps /\ Returns(n)
        /\ free' = IF call[n].own THEN [free EXCEPT ![n] = @ \cup {call[n].local}] ELSE free
        /\ UNCHANGED <<initVars, batch, hand, held, mem, sq>>
    BY <1>7 DEF WriteReturn, Polling, Swaps
  <2>2. hand' = [hand EXCEPT ![n] = hand[n]] /\ (PoolOK(n) => hand[n] = Owned(n))
    BY <1>1, <1>3, <1>4, <2>1, SwappedIsTraded
  <2>3. CASE call[n].own
    <3>1. call[n].local \in Buffer
      BY <1>2, <2>3 DEF SentOK
    <3>2. /\ free' \in [Node -> SUBSET Buffer] /\ free'[n] = free[n] \cup {call[n].local}
          /\ \A m \in Node \ {n} : free'[m] = free[m]
      BY <1>2, <2>1, <2>3, <3>1 DEF OpTypeOK
    <3>3. ASSUME PoolOK(n) PROVE BatchOK(n)' /\ held[n] \cap free'[n] = {}
      <4>1. /\ call[n].local \notin held[n] /\ ~InBatch(n, call[n].local)
            /\ held[n] \cap free[n] = {}
        BY <2>3, <3>3 DEF PoolOK, CallOK
      <4>2. BatchOK(n)'
        BY <2>1, <3>2, <3>3, <4>1 DEF PoolOK, BatchOK, InBatch
      <4> QED BY <3>2, <4>1, <4>2
    <3>4. UNCHANGED <<initVars, batch, held, mem, sq>> /\ Returns(n)
      BY <2>1
    <3> QED BY <1>1, <1>3, <2>2, <3>2, <3>3, <3>4, CallReturns
  <2>4. CASE ~call[n].own
    <3>1. UNCHANGED <<initVars, batch, held, free, mem, sq>> /\ Returns(n)
      BY <2>1, <2>4
    <3>2. free' \in [Node -> SUBSET Buffer] /\ \A m \in Node \ {n} : free'[m] = free[m]
      BY <1>2, <3>1 DEF OpTypeOK
    <3>3. PoolOK(n) => BatchOK(n)' /\ held[n] \cap free'[n] = {}
      BY <1>5, <3>1
    <3> QED BY <1>1, <1>3, <2>2, <3>1, <3>2, <3>3, CallReturns
  <2> QED BY <2>3, <2>4
<1>8. CASE AtomicSwapReturn(n) \/ CompareAndSwapReturn(n)
  <2>1. /\ call[n].kind \in Swaps /\ Returns(n)
        /\ hand' = IF Swapped(n) THEN [hand EXCEPT ![n] = call[n].cmp] ELSE hand
        /\ UNCHANGED <<initVars, batch, held, free, mem, sq>>
    BY <1>8 DEF AtomicSwapReturn, CompareAndSwapReturn, Polling, Swapped, Swaps
  <2>2. PICK t \in Value : t = IF Swapped(n) THEN call[n].cmp ELSE hand[n]
    <3>1. call[n] \in Call
      BY <1>2 DEF OpTypeOK
    <3>2. call[n].cmp \in Value
      BY <3>1 DEF Call
    <3> QED BY <1>3, <3>2
  <2>3. hand' = [hand EXCEPT ![n] = t]
    BY <1>3, <2>1, <2>2
  <2>4. free' \in [Node -> SUBSET Buffer] /\ \A m \in Node \ {n} : free'[m] = free[m]
    BY <1>2, <2>1 DEF OpTypeOK
  <2>5. PoolOK(n) => t = Owned(n) /\ BatchOK(n)' /\ held[n] \cap free'[n] = {}
    BY <1>1, <1>4, <1>5, <2>1, <2>2, SwappedIsTraded
  <2> QED BY <1>1, <2>1, <2>3, <2>4, <2>5, CallReturns
<1> QED BY <1>6, <1>7, <1>8, RetryKeeps DEF CallStep

\* An abandoned call leaves its requests and its completion where they are.
LEMMA AbandonLeaves ==
  ASSUME WireInv, NEW n \in Node, Abandon(n)
  PROVE  WireInv' /\ Aside(n) /\ ~Patient(n)'
<1>1. /\ pc[n] = "poll" /\ Returns(n) /\ abandoned' = [abandoned EXCEPT ![n] = @ + 1]
      /\ UNCHANGED <<uses, ipc, at, conn, chan, conn_info, batch, hand, held, free, mem, sq, cq>>
  BY DEF Abandon, wireVars
<1>2. OpTypeOK /\ SentOK(n)
  BY WireTypes DEF WireInv
<1>3. /\ pc' \in [Node -> {"idle", "poll"}] /\ pc'[n] = "idle"
      /\ call' \in [Node -> Call] /\ call'[n] = NoCall
      /\ during' \in [Node -> SUBSET Value]
      /\ \A m \in Node \ {n} : pc'[m] = pc[m] /\ call'[m] = call[m] /\ during'[m] = during[m]
  BY <1>1, <1>2, NoCallFacts DEF Returns, OpTypeOK
<1>4. /\ abandoned' \in [Node -> Nat] /\ abandoned'[n] = abandoned[n] + 1
      /\ abandoned[n] \in Nat /\ \A m \in Node \ {n} : abandoned'[m] = abandoned[m]
  BY <1>1, <1>2 DEF OpTypeOK
<1>5. OpTypeOK'
  BY <1>1, <1>2, <1>3, <1>4 DEF OpTypeOK
<1>6. Aside(n)
  <2>1. \A m \in Node \ {n} : Same(m)
    BY <1>1, <1>3, <1>4 DEF Same
  <2> QED BY <1>1, <2>1 DEF Aside
<1>7. Lag(n)'
  <2>1. Outstanding(n)' = Outstanding(n)
    BY <1>1 DEF Outstanding
  <2>2. Outstanding(n) = abandoned[n] + 1
    BY <1>1, <1>2 DEF SentOK, Lag
  <2> QED BY <1>3, <1>4, <2>1, <2>2 DEF Lag
<1>8. SentOK(n)'
  BY <1>1, <1>2, <1>3, <1>7, NoCallFacts DEF SentOK
<1>9. InitTypeOK' /\ KeysOK'
  BY <1>1, InitKept
<1>10. WireInv'
  BY <1>3, <1>5, <1>6, <1>8, <1>9, AsideIsSent
<1>11. ~Patient(n)'
  BY <1>4 DEF Patient
<1> QED BY <1>6, <1>10, <1>11

-----------------------------------------------------------------------------
(* The queue pair.                                                         *)

\* There are requests only on the way to the node of the words.
LEMMA OnlyHome ==
  ASSUME WireInv, NEW n \in Node, NEW p \in Node, sq[n][p] # <<>>
  PROVE  p = Home
<1>1. SentOK(n)
  BY DEF WireInv
<1> QED BY <1>1 DEF SentOK

\* What is known of a request under way.
LEMMA RequestFacts ==
  ASSUME WireInv, NEW n \in Node, NEW k \in 1 .. Len(sq[n][Home])
  PROVE  LET wr == sq[n][Home][k]
         IN /\ wr \in Request /\ RightRequest(wr)
            /\ wr.laddr \in Address /\ wr.raddr \in Address
            /\ wr.laddr \in Buffer \cup {"prev"} /\ wr.raddr \in {"swapped", "data"}
            /\ wr.op \in {"READ", "WRITE", "CAS"} /\ wr.swap \in Value
            /\ wr.done \in BOOLEAN /\ wr.ok \in BOOLEAN /\ wr.resp \in Value
            /\ wr.signaled \in BOOLEAN
            /\ PoolOK(n) => RequestOK(n, wr)
<1>1. sq[n][Home] \in Seq(Request) /\ SentOK(n)
  <2>1. OpTypeOK /\ SentOK(n)
    BY WireTypes DEF WireInv
  <2> QED BY <2>1, Addresses DEF OpTypeOK
<1>2. sq[n][Home][k] \in Request
  BY <1>1
<1>3. RightRequest(sq[n][Home][k])
  BY <1>1 DEF SentOK
<1>4. LET wr == sq[n][Home][k]
      IN /\ wr.laddr \in Address /\ wr.raddr \in Address
         /\ wr.op \in {"READ", "WRITE", "CAS"} /\ wr.swap \in Value
         /\ wr.done \in BOOLEAN /\ wr.ok \in BOOLEAN /\ wr.resp \in Value
         /\ wr.signaled \in BOOLEAN
  BY <1>2 DEF Request
<1>5. sq[n][Home][k].laddr \in Buffer \cup {"prev"} /\ sq[n][Home][k].raddr \in {"swapped", "data"}
  BY <1>3 DEF RightRequest
<1>6. PoolOK(n) => RequestOK(n, sq[n][Home][k])
  BY DEF PoolOK, QueueOK
<1> QED BY <1>2, <1>3, <1>4, <1>5, <1>6

\* An answer arrives: it is put where the call wants it, and the last one is
\* completed.
LEMMA RespondKeeps ==
  ASSUME WireInv, NEW n \in Node, NEW p \in Node, QpRespond(n, p)
  PROVE  Keeps(n)
<1>0. p = Home
  BY OnlyHome DEF QpRespond
<1>1. PICK q : q = sq[n][Home]
  OBVIOUS
<1>2. PICK wr : wr = q[1]
  OBVIOUS
<1>3. OpTypeOK /\ SentOK(n)
  BY WireTypes DEF WireInv
<1>4. q \in Seq(Request) /\ q # <<>> /\ Len(q) \in Nat \ {0} /\ Head(q) = wr
  <2>1. q \in Seq(Request) /\ q # <<>>
    BY <1>0, <1>1, <1>3, Addresses DEF OpTypeOK, QpRespond
  <2> QED BY <1>2, <2>1
<1>5. /\ wr.done /\ sq' = [sq EXCEPT ![n][Home] = Tail(q)]
      /\ mem' = IF wr.ok /\ wr.op # "WRITE"
                  THEN [mem EXCEPT ![n][wr.laddr] = wr.resp] ELSE mem
      /\ cq' = IF wr.signaled \/ ~wr.ok
                 THEN [cq EXCEPT ![n][Home] = Append(@, wr.ok)] ELSE cq
      /\ UNCHANGED <<initVars, pc, call, batch, hand, held, free, during>>
  BY <1>0, <1>1, <1>4 DEF QpRespond, callVars
<1>6. /\ wr \in Request /\ RightRequest(wr) /\ (PoolOK(n) => RequestOK(n, wr))
      /\ wr.laddr \in Address /\ wr.laddr \in Buffer \cup {"prev"}
      /\ wr.op \in {"READ", "WRITE", "CAS"} /\ wr.resp \in Value
  <2>1. 1 \in 1 .. Len(sq[n][Home])
    BY <1>1, <1>4
  <2> QED BY <1>1, <1>2, <2>1, RequestFacts
<1>7. wr.ok = TRUE
  <2>1. wr.ok \in BOOLEAN
    BY <1>6 DEF Request
  <2> QED BY <1>5, <1>6, <2>1 DEF RightRequest
<1>8. /\ Tail(q) \in Seq(Request) /\ Len(Tail(q)) = Len(q) - 1
      /\ \A k \in 1 .. Len(q) - 1 : Tail(q)[k] = q[k + 1]
      /\ (Len(q) = 1 <=> Tail(q) = <<>>)
  <2>1. Tail(q) \in Seq(Request)
    BY <1>4
  <2>2. Len(Tail(q)) = Len(q) - 1
    BY <1>4
  <2>3. \A k \in 1 .. Len(q) - 1 : Tail(q)[k] = q[k + 1]
    BY <1>4
  <2>4. Len(Tail(q)) = 0 <=> Tail(q) = <<>>
    <3>1. \A t \in Seq(Request) : Len(t) = 0 <=> t = <<>>
      OBVIOUS
    <3> QED BY <2>1, <3>1
  <2> QED BY <1>4, <2>1, <2>2, <2>3, <2>4
<1>9. /\ sq' \in [Node -> [Node -> Seq(Request)]] /\ sq'[n][Home] = Tail(q)
      /\ \A m \in Node \ {n} : sq'[m] = sq[m]
      /\ \A r \in Node \ {Home} : sq'[n][r] = sq[n][r]
  BY <1>3, <1>5, <1>8, Addresses DEF OpTypeOK
<1>10. /\ mem' \in [Node -> [Address -> Value]] /\ \A m \in Node \ {n} : mem'[m] = mem[m]
       /\ \A a \in Address \ {wr.laddr} : mem'[n][a] = mem[n][a]
       /\ wr.op # "WRITE" => mem'[n][wr.laddr] = wr.resp
       /\ wr.op = "WRITE" => mem' = mem
  <2>1. CASE wr.op # "WRITE"
    <3>1. mem' = [mem EXCEPT ![n][wr.laddr] = wr.resp]
      BY <1>5, <1>7, <2>1
    <3> QED BY <1>3, <1>6, <2>1, <3>1 DEF OpTypeOK
  <2>2. CASE wr.op = "WRITE"
    BY <1>3, <1>5, <2>2 DEF OpTypeOK
  <2> QED BY <2>1, <2>2
<1>11. PICK d \in Seq(BOOLEAN) : d = cq[n][Home]
  BY <1>3, Addresses DEF OpTypeOK
<1>12. /\ cq' \in [Node -> [Node -> Seq(BOOLEAN)]] /\ \A m \in Node \ {n} : cq'[m] = cq[m]
       /\ \A r \in Node \ {Home} : cq'[n][r] = cq[n][r]
       /\ wr.signaled => cq'[n][Home] = Append(d, TRUE)
       /\ ~wr.signaled => cq'[n][Home] = d
  <2>1. Append(d, TRUE) \in Seq(BOOLEAN)
    OBVIOUS
  <2>2. CASE wr.signaled
    <3>1. cq' = [cq EXCEPT ![n][Home] = Append(d, TRUE)]
      BY <1>5, <1>7, <1>11, <2>2
    <3> QED BY <1>3, <2>1, <2>2, <3>1, Addresses DEF OpTypeOK
  <2>3. CASE ~wr.signaled
    <3>1. cq' = cq
      BY <1>5, <1>7, <2>3
    <3> QED BY <1>3, <1>11, <2>3, <3>1 DEF OpTypeOK
  <2> QED BY <2>2, <2>3
<1>13. UNCHANGED <<uses, ipc, at, conn, chan, conn_info, abandoned>>
  BY <1>5 DEF initVars
<1>14. OpTypeOK'
  BY <1>3, <1>5, <1>9, <1>10, <1>12, <1>13 DEF OpTypeOK
<1>15. Aside(n)
  <2>1. \A m \in Node \ {n} : Same(m)
    BY <1>5, <1>9, <1>10, <1>12, <1>13 DEF Same
  <2>2. wr.laddr # "data" /\ wr.laddr # "swapped" /\ "data" \in Address /\ "swapped" \in Address
    BY <1>6, Addresses
  <2>3. mem'[Home]["data"] = mem[Home]["data"] /\ mem'[Home]["swapped"] = mem[Home]["swapped"]
    BY <1>10, <2>2, Addresses
  <2> QED BY <2>1, <2>3 DEF Aside
<1>16. \A k \in 1 .. Len(cq'[n][Home]) : cq'[n][Home][k]
  <2>1. \A k \in 1 .. Len(d) : d[k]
    BY <1>3, <1>11 DEF SentOK
  <2>2. CASE wr.signaled
    <3>1. Len(Append(d, TRUE)) = Len(d) + 1 /\ Append(d, TRUE)[Len(d) + 1] = TRUE
      OBVIOUS
    <3>2. \A k \in 1 .. Len(d) : Append(d, TRUE)[k] = d[k]
      OBVIOUS
    <3>3. \A k \in 1 .. Len(d) + 1 : k \in 1 .. Len(d) \/ k = Len(d) + 1
      OBVIOUS
    <3>4. \A k \in 1 .. Len(d) + 1 : Append(d, TRUE)[k]
      BY <2>1, <3>1, <3>2, <3>3, Zenon
    <3> QED BY <1>12, <2>2, <3>1, <3>4, Zenon
  <2>3. CASE ~wr.signaled
    BY <1>12, <2>1, <2>3, Zenon
  <2> QED BY <2>2, <2>3
<1>17. Lag(n)'
  <2>1. PICK s \in Nat : s = Cardinality(Signaled(q))
    BY <1>4, SignaledIsFinite
  <2>2. PICK t \in Nat : t = Cardinality(Signaled(Tail(q)))
    BY <1>8, SignaledIsFinite
  <2>3. (wr.signaled => s = t + 1) /\ (~wr.signaled => s = t)
    BY <1>2, <1>4, <2>1, <2>2, TailSignals
  <2>4. PICK l \in Nat : l = Len(d)
    OBVIOUS
  <2>5. PICK j : j = Len(cq'[n][Home])
    OBVIOUS
  <2>6. (wr.signaled => j = l + 1) /\ (~wr.signaled => j = l)
    <3>1. Len(Append(d, TRUE)) = Len(d) + 1
      OBVIOUS
    <3> QED BY <1>12, <2>4, <2>5, <3>1
  <2>7. j + t = l + s
    BY <2>3, <2>6
  <2>8. Outstanding(n) = l + s
    BY <1>1, <1>11, <2>1, <2>4 DEF Outstanding
  <2>9. Outstanding(n)' = j + t
    BY <1>9, <2>2, <2>5 DEF Outstanding
  <2>10. Lag(n) /\ pc'[n] = pc[n] /\ abandoned'[n] = abandoned[n]
    BY <1>3, <1>5, <1>13 DEF SentOK
  <2> QED BY <2>7, <2>8, <2>9, <2>10 DEF Lag
<1>18. SentOK(n)'
  <2>1. \A r \in Node \ {Home} : sq'[n][r] = <<>> /\ cq'[n][r] = <<>>
    BY <1>3, <1>9, <1>12 DEF SentOK
  <2>2. \A k \in 1 .. Len(sq'[n][Home]) : RightRequest(sq'[n][Home][k])
    <3> SUFFICES ASSUME NEW k \in 1 .. Len(q) - 1 PROVE RightRequest(q[k + 1])
      BY <1>8, <1>9
    <3>1. k + 1 \in 1 .. Len(q)
      BY <1>4
    <3> QED BY <1>1, <1>3, <3>1 DEF SentOK
  <2>3. /\ Len(batch'[n]) <= NumOps
        /\ \A k \in 1 .. Len(batch'[n]) :
             RightRequest(batch'[n][k]) /\ (batch'[n][k].signaled <=> k = NumOps)
    BY <1>3, <1>5 DEF SentOK
  <2>4. (pc'[n] = "poll" => ipc'[n] = "ready") /\ (call'[n].own => call'[n].local \in Buffer)
    BY <1>3, <1>5, <1>13 DEF SentOK
  <2> QED BY <1>16, <1>17, <2>1, <2>2, <2>3, <2>4, Zenon DEF SentOK
<1>19. pc'[n] = "poll" /\ call'[n].kind \in {"Read", "Execute"} =>
         mem[Home]["data"] \in during'[n]
  BY <1>5 DEF WireInv, DataSeen
<1>20. WireInv'
  <2>1. InitTypeOK' /\ KeysOK'
    BY <1>13, InitKept
  <2> QED BY <1>14, <1>15, <1>18, <1>19, <2>1, AsideIsSent
<1>21. ASSUME PoolOK(n) PROVE PoolOK(n)' /\ Owned(n)' = Owned(n)
  <2>1. pc[n] # "idle" /\ RequestOK(n, wr)
    BY <1>1, <1>4, <1>6, <1>21 DEF PoolOK, QueueOK
  <2>2. cq'[n][Home] = IF Tail(q) = <<>> THEN <<TRUE>> ELSE <<>>
    <3>1. d = <<>>
      BY <1>1, <1>4, <1>11, <1>21, <2>1 DEF PoolOK, QueueOK
    <3>2. wr.signaled <=> Tail(q) = <<>>
      <4>1. 1 \in 1 .. Len(q)
        BY <1>4
      <4>2. q[1].signaled <=> 1 = Len(q)
        BY <1>1, <1>21, <4>1 DEF PoolOK, QueueOK
      <4> QED BY <1>2, <1>8, <4>2
    <3>3. Append(<<>>, TRUE) = <<TRUE>>
      OBVIOUS
    <3> QED BY <1>12, <3>1, <3>2, <3>3
  <2>3. BatchOK(n)'
    BY <1>5, <1>21 DEF PoolOK, BatchOK
  <2>4. CallOK(n)'
    <3>1. InBatch(n, call[n].local)' <=> InBatch(n, call[n].local)
      BY <1>5 DEF InBatch
    <3>2. ASSUME call[n].kind = "Write" PROVE mem'[n][call[n].local] = call[n].val
      <4>1. wr.op = "WRITE"
        BY <1>6, <2>1, <3>2 DEF RequestOK, Swaps
      <4> QED BY <1>10, <1>21, <3>2, <4>1 DEF PoolOK, CallOK
    <3>3. pc[n] # "idle" => ipc'[n] = "ready"
      BY <1>13, <1>21 DEF PoolOK, CallOK
    <3> QED BY <1>5, <1>21, <3>1, <3>2, <3>3 DEF PoolOK, CallOK
  <2>5. ASSUME NEW k \in 1 .. Len(q) - 1
        PROVE  /\ k + 1 \in 1 .. Len(q) /\ Tail(q)[k] = q[k + 1]
               /\ q[k + 1].laddr # wr.laddr /\ q[k + 1].laddr \in Address
               /\ mem'[n][q[k + 1].laddr] = mem[n][q[k + 1].laddr]
               /\ RequestOK(n, q[k + 1]) /\ RequestOK(n, q[k + 1])'
    <3>1. k + 1 \in 1 .. Len(q) /\ 1 \in 1 .. Len(q) /\ k + 1 # 1
      BY <1>4, <2>5
    <3>2. q[k + 1].laddr # wr.laddr
      BY <1>1, <1>2, <1>21, <3>1 DEF PoolOK, QueueOK
    <3>3. RequestOK(n, q[k + 1]) /\ q[k + 1].laddr \in Address
      BY <1>1, <1>21, <3>1, RequestFacts
    <3>4. mem'[n][q[k + 1].laddr] = mem[n][q[k + 1].laddr]
      BY <1>10, <3>2, <3>3
    <3>5. PICK w : w = q[k + 1]
      OBVIOUS
    <3>6. RequestOK(n, w)'
      BY <1>5, <3>3, <3>4, <3>5 DEF RequestOK
    <3> QED BY <1>8, <2>5, <3>1, <3>2, <3>3, <3>4, <3>5, <3>6
  <2>6. QueueOK(n)'
    <3>1. \A k \in 1 .. Len(sq'[n][Home]) :
            /\ RequestOK(n, sq[n][Home][k])'
            /\ sq'[n][Home][k].signaled <=> k = Len(sq'[n][Home])
      <4> SUFFICES ASSUME NEW k \in 1 .. Len(sq'[n][Home])
                   PROVE  /\ RequestOK(n, sq[n][Home][k])'
                          /\ sq'[n][Home][k].signaled <=> k = Len(sq'[n][Home])
        OBVIOUS
      <4>1. k \in 1 .. Len(q) - 1 /\ Len(sq'[n][Home]) = Len(q) - 1
        BY <1>8, <1>9
      <4>2. sq'[n][Home][k] = q[k + 1] /\ k + 1 \in 1 .. Len(q)
        BY <1>9, <2>5, <4>1
      <4>3. q[k + 1].signaled <=> k + 1 = Len(q)
        BY <1>1, <1>21, <4>2 DEF PoolOK, QueueOK
      <4>4. k + 1 = Len(q) <=> k = Len(q) - 1
        BY <1>4, <4>1
      <4>5. RequestOK(n, sq[n][Home][k])'
        BY <2>5, <4>1, <4>2
      <4> QED BY <4>1, <4>2, <4>3, <4>4, <4>5
    <3>2. \A j, k \in 1 .. Len(sq'[n][Home]) :
            j # k => sq'[n][Home][j].laddr # sq'[n][Home][k].laddr
      <4> SUFFICES ASSUME NEW j \in 1 .. Len(q) - 1, NEW k \in 1 .. Len(q) - 1, j # k
                   PROVE  q[j + 1].laddr # q[k + 1].laddr
        BY <1>8, <1>9, <2>5
      <4>1. j + 1 # k + 1 /\ j + 1 \in 1 .. Len(q) /\ k + 1 \in 1 .. Len(q)
        BY <1>4
      <4> QED BY <1>1, <1>21, <4>1 DEF PoolOK, QueueOK
    <3>3. call'[n].kind \in Swaps => Len(sq'[n][Home]) <= 1
      <4>1. call[n].kind \in Swaps => Len(q) <= 1
        BY <1>1, <1>21 DEF PoolOK, QueueOK
      <4> QED BY <1>4, <1>5, <1>8, <1>9, <4>1
    <3>4. \A r \in Node \ {Home} : sq'[n][r] = <<>> /\ cq'[n][r] = <<>>
      BY <1>18 DEF SentOK
    <3>5. pc'[n] # "idle" /\ cq'[n][Home] = IF sq'[n][Home] = <<>> THEN <<TRUE>> ELSE <<>>
      BY <1>5, <1>9, <2>1, <2>2
    <3> QED BY <3>1, <3>2, <3>3, <3>4, <3>5 DEF QueueOK
  <2>7. EffectOK(n)'
    <3> SUFFICES ASSUME pc[n] = "poll" PROVE EffectOK(n)'
      BY <1>5 DEF EffectOK
    <3>1. ASSUME NEW k \in 1 .. Len(q)
          PROVE  /\ q[k].op = "READ" /\ q[k].done => q[k].resp \in during[n]
                 /\ q[k].op = "WRITE" /\ q[k].done => mem[n][q[k].laddr] \in during[n]
      BY <1>1, <1>21, <3>1 DEF PoolOK, EffectOK
    <3>2. \A k \in 1 .. Len(sq'[n][Home]) :
            LET w == sq'[n][Home][k]
            IN /\ w.op = "READ" /\ w.done => w.resp \in during'[n]
               /\ w.op = "WRITE" /\ w.done => mem'[n][w.laddr] \in during'[n]
      <4> SUFFICES ASSUME NEW k \in 1 .. Len(q) - 1
                   PROVE  LET w == q[k + 1]
                          IN /\ w.op = "READ" /\ w.done => w.resp \in during[n]
                             /\ w.op = "WRITE" /\ w.done => mem'[n][w.laddr] \in during[n]
        BY <1>5, <1>8, <1>9, <2>5
      <4> QED BY <2>5, <3>1
    <3>3. Locals(n)' = Locals(n) /\ Locals(n) \subseteq Buffer
      BY <1>5, <1>21 DEF Locals, PoolOK, BatchOK, CallOK
    <3>4. ASSUME NEW a \in Locals(n)
          PROVE  \/ mem'[n][a] \in during'[n]
                 \/ \E k \in 1 .. Len(sq'[n][Home]) : sq'[n][Home][k].laddr = a
      <4>1. a \in Address /\ a # "prev"
        BY <3>3, <3>4, Addresses
      <4>2. CASE a = wr.laddr
        <5>1. 1 \in 1 .. Len(q)
          BY <1>4
        <5>2. wr.op # "CAS"
          BY <2>1, <4>1, <4>2 DEF RequestOK
        <5>3. mem'[n][a] \in during[n]
          BY <1>2, <1>5, <1>6, <1>10, <3>1, <4>2, <5>1, <5>2
        <5> QED BY <1>5, <5>3
      <4>3. CASE a # wr.laddr /\ mem[n][a] \in during[n]
        BY <1>5, <1>10, <4>1, <4>3
      <4>4. CASE a # wr.laddr /\ \E k \in 1 .. Len(q) : q[k].laddr = a
        <5>1. PICK k \in 1 .. Len(q) : q[k].laddr = a
          BY <4>4
        <5>2. k # 1
          BY <1>2, <4>4, <5>1
        <5>3. PICK j \in 1 .. Len(q) - 1 : j + 1 = k
          BY <1>4, <5>2
        <5>4. j \in 1 .. Len(sq'[n][Home]) /\ sq'[n][Home][j] = q[k]
          BY <1>8, <1>9, <2>5, <5>3
        <5> QED BY <5>1, <5>4
      <4>5. mem[n][a] \in during[n] \/ \E k \in 1 .. Len(q) : q[k].laddr = a
        BY <1>1, <1>21, <3>4 DEF PoolOK, EffectOK
      <4> QED BY <4>2, <4>3, <4>4, <4>5
    <3> QED BY <3>2, <3>3, <3>4 DEF EffectOK
  <2>8. Owned(n)' = Owned(n)
    <3>1. CASE call[n].kind \in Swaps
      <4>1. Len(q) = 1 /\ Tail(q) = <<>>
        BY <1>1, <1>4, <1>8, <1>21, <3>1 DEF PoolOK, QueueOK
      <4>2. wr.op = "CAS" /\ wr.laddr = "prev"
        BY <2>1, <3>1 DEF RequestOK
      <4>3. mem'[n]["prev"] = wr.resp
        BY <1>10, <4>2
      <4>4. Traded(n)' <=> Traded(n)
        BY <1>1, <1>2, <1>4, <1>5, <1>9, <4>1, <4>3 DEF Traded
      <4> QED BY <1>5, <4>4 DEF Owned
    <3>2. CASE call[n].kind \notin Swaps
      BY <1>5, <3>2 DEF Owned, Traded
    <3> QED BY <3>1, <3>2
  <2> QED BY <2>3, <2>4, <2>6, <2>7, <2>8 DEF PoolOK
<1> QED BY <1>15, <1>20, <1>21 DEF Keeps

\* A request is executed.  It is the only step that changes the words.
LEMMA ExecuteKeeps ==
  ASSUME WireInv, NEW n \in Node, NEW p \in Node, QpExecute(n, p)
  PROVE  /\ WireInv' /\ abandoned' = abandoned
         /\ \A m \in Node : PoolOK(m) => PoolOK(m)'
         /\ (\A m \in Node : PoolOK(m)) /\ TokensOK => TokensOK'
<1>1. PICK q : q = sq[n][Home]
  OBVIOUS
<1>2. OpTypeOK /\ SentOK(n)
  BY WireTypes DEF WireInv
<1>3. p = Home
  <2>1. PICK k : k \in 1 .. Len(sq[n][p])
    BY Zenon DEF QpExecute
  <2>2. sq[n][p] # <<>>
    <3>1. 1 .. Len(<<>>) = {}
      OBVIOUS
    <3> QED BY <2>1, <3>1, Zenon
  <2> QED BY <2>2, OnlyHome
<1>4. q \in Seq(Request) /\ Len(q) \in Nat
  BY <1>1, <1>2, Addresses DEF OpTypeOK
<1> DEFINE New(w) == CASE w.op = "WRITE" -> mem[n][w.laddr]
                       [] w.op = "CAS" -> IF mem[Home][w.raddr] = w.cmp THEN w.swap
                                          ELSE mem[Home][w.raddr]
                       [] OTHER -> mem[Home][w.raddr]
<1>5. PICK k \in 1 .. Len(q) :
        /\ Eligible(q, k)
        /\ sq' = [sq EXCEPT ![n][Home][k] =
                    [@ EXCEPT !.done = TRUE, !.ok = (q[k].rkey = Home),
                              !.resp = mem[Home][q[k].raddr]]]
        /\ mem' = IF q[k].rkey = Home
                    THEN [mem EXCEPT ![Home][q[k].raddr] = New(q[k])] ELSE mem
        /\ during' = IF q[k].rkey = Home /\ q[k].raddr = "data" /\ q[k].op = "WRITE"
                       THEN [m \in Node |-> IF pc[m] = "poll" THEN during[m] \cup {New(q[k])}
                                                              ELSE during[m]]
                       ELSE during
        /\ UNCHANGED <<initVars, pc, call, batch, hand, held, free, cq>>
  <2>1. QpExecute(n, Home)
    BY <1>3
  <2>2. PICK k \in 1 .. Len(sq[n][Home]) :
          /\ Eligible(sq[n][Home], k)
          /\ sq' = [sq EXCEPT ![n][Home][k] =
                      [@ EXCEPT !.done = TRUE, !.ok = (sq[n][Home][k].rkey = Home),
                                !.resp = mem[Home][sq[n][Home][k].raddr]]]
          /\ mem' = IF sq[n][Home][k].rkey = Home
                      THEN [mem EXCEPT ![Home][sq[n][Home][k].raddr] = New(sq[n][Home][k])]
                      ELSE mem
          /\ during' = IF /\ sq[n][Home][k].rkey = Home /\ sq[n][Home][k].raddr = "data"
                          /\ sq[n][Home][k].op = "WRITE"
                         THEN [m \in Node |-> IF pc[m] = "poll"
                                                THEN during[m] \cup {New(sq[n][Home][k])}
                                                ELSE during[m]]
                         ELSE during
          /\ UNCHANGED <<initVars, pc, call, batch, hand, held, free, cq>>
    BY <2>1, Zenon DEF QpExecute
  <2> HIDE DEF New
  <2> QED BY <1>1, <2>2, Zenon
<1>6. PICK wr : wr = q[k]
  OBVIOUS
<1>7. /\ wr \in Request /\ RightRequest(wr) /\ (PoolOK(n) => RequestOK(n, wr))
      /\ wr.laddr \in Address /\ wr.raddr \in Address
      /\ wr.laddr \in Buffer \cup {"prev"} /\ wr.raddr \in {"swapped", "data"}
      /\ wr.op \in {"READ", "WRITE", "CAS"} /\ wr.swap \in Value
      /\ wr.rkey = Home /\ ~wr.done
  <2>1. /\ wr \in Request /\ RightRequest(wr) /\ (PoolOK(n) => RequestOK(n, wr))
        /\ wr.laddr \in Address /\ wr.raddr \in Address
        /\ wr.laddr \in Buffer \cup {"prev"} /\ wr.raddr \in {"swapped", "data"}
        /\ wr.op \in {"READ", "WRITE", "CAS"} /\ wr.swap \in Value
    BY <1>1, <1>5, <1>6, RequestFacts
  <2>2. ~wr.done
    BY <1>5, <1>6 DEF Eligible
  <2> QED BY <2>1, <2>2 DEF RightRequest
<1>8. PICK old \in Value : old = mem[Home][wr.raddr]
  BY <1>2, <1>7, Addresses DEF OpTypeOK
<1>9. PICK new \in Value :
        /\ new = New(wr)
        /\ wr.op = "WRITE" => new = mem[n][wr.laddr]
        /\ wr.op = "CAS" => new = IF old = wr.cmp THEN wr.swap ELSE old
        /\ wr.op = "READ" => new = old
  <2>1. mem[n][wr.laddr] \in Value
    BY <1>2, <1>7 DEF OpTypeOK
  <2> QED BY <1>7, <1>8, <2>1
<1>10. mem' = [mem EXCEPT ![Home][wr.raddr] = new]
  BY <1>5, <1>6, <1>7, <1>9
<1>11. /\ mem' \in [Node -> [Address -> Value]] /\ mem'[Home][wr.raddr] = new
       /\ \A m \in Node, a \in Address : ~(m = Home /\ a = wr.raddr) => mem'[m][a] = mem[m][a]
  BY <1>2, <1>7, <1>9, <1>10, Addresses DEF OpTypeOK
<1>12. \A m \in Node, a \in Buffer \cup {"prev"} : mem'[m][a] = mem[m][a]
  BY <1>7, <1>11, Addresses
<1>13. /\ during' \in [Node -> SUBSET Value] /\ \A m \in Node : during[m] \subseteq during'[m]
       /\ wr.op = "WRITE" => \A m \in Node : pc[m] = "poll" => new \in during'[m]
  <2>1. CASE wr.op = "WRITE"
    <3>1. during' = [m \in Node |-> IF pc[m] = "poll" THEN during[m] \cup {new} ELSE during[m]]
      BY <1>5, <1>6, <1>7, <1>9, <2>1 DEF RightRequest
    <3> QED BY <1>2, <1>9, <3>1 DEF OpTypeOK
  <2>2. CASE wr.op # "WRITE"
    BY <1>2, <1>5, <1>6, <2>2 DEF OpTypeOK
  <2> QED BY <2>1, <2>2
<1> HIDE DEF New
<1>14. PICK w \in Request :
         /\ w = [wr EXCEPT !.done = TRUE, !.ok = TRUE, !.resp = old]
         /\ w.op = wr.op /\ w.raddr = wr.raddr /\ w.laddr = wr.laddr /\ w.cmp = wr.cmp
         /\ w.swap = wr.swap /\ w.rkey = wr.rkey /\ w.signaled = wr.signaled
         /\ w.done /\ w.ok /\ w.resp = old
  <2>1. [wr EXCEPT !.done = TRUE, !.ok = TRUE, !.resp = old] \in Request
    BY <1>7, <1>8 DEF Request
  <2> QED BY <1>7, <2>1 DEF Request
<1>15. /\ sq' \in [Node -> [Node -> Seq(Request)]]
       /\ sq'[n][Home] = [q EXCEPT ![k] = w]
       /\ \A m \in Node \ {n} : sq'[m] = sq[m]
       /\ \A r \in Node \ {Home} : sq'[n][r] = sq[n][r]
  <2>1. sq' = [sq EXCEPT ![n][Home][k] =
                [@ EXCEPT !.done = TRUE, !.ok = TRUE, !.resp = old]]
    BY <1>5, <1>6, <1>7, <1>8
  <2>2. sq' = [sq EXCEPT ![n][Home] = [q EXCEPT ![k] = w]]
    BY <1>1, <1>2, <1>6, <1>14, <2>1, Addresses DEF OpTypeOK
  <2>3. [q EXCEPT ![k] = w] \in Seq(Request)
    BY <1>4, <1>14
  <2> QED BY <1>2, <2>2, <2>3, Addresses DEF OpTypeOK
<1>16. /\ Len(sq'[n][Home]) = Len(q) /\ sq'[n][Home][k] = w
       /\ \A j \in 1 .. Len(q) : j # k => sq'[n][Home][j] = q[j]
       /\ \A j \in 1 .. Len(q) : /\ sq'[n][Home][j].laddr = q[j].laddr
                                  /\ sq'[n][Home][j].signaled = q[j].signaled
  <2>1. sq'[n][Home] = [q EXCEPT ![k] = w] /\ k \in 1 .. Len(q)
    BY <1>5, <1>15
  <2>2. /\ Len(sq'[n][Home]) = Len(q) /\ sq'[n][Home][k] = w
        /\ \A j \in 1 .. Len(q) : j # k => sq'[n][Home][j] = q[j]
    BY <1>4, <2>1
  <2> QED BY <1>6, <1>14, <2>2
<1>17. UNCHANGED <<uses, ipc, at, conn, chan, conn_info, abandoned>>
  BY <1>5 DEF initVars
<1>18. OpTypeOK'
  BY <1>2, <1>5, <1>11, <1>13, <1>15, <1>17 DEF OpTypeOK
<1>19. \A m \in Node \ {n} : Same(m)
  BY <1>5, <1>12, <1>13, <1>15, <1>17 DEF Same
<1>20. SentOK(n)'
  <2>1. \A r \in Node \ {Home} : sq'[n][r] = <<>> /\ cq'[n][r] = <<>>
    BY <1>2, <1>5, <1>15 DEF SentOK
  <2>2. \A j \in 1 .. Len(cq'[n][Home]) : cq'[n][Home][j]
    BY <1>2, <1>5 DEF SentOK
  <2>3. \A j \in 1 .. Len(sq'[n][Home]) : RightRequest(sq'[n][Home][j])
    <3>1. RightRequest(w)
      BY <1>7, <1>14 DEF RightRequest
    <3>2. \A j \in 1 .. Len(q) : RightRequest(q[j])
      BY <1>1, <1>2 DEF SentOK
    <3> QED BY <1>16, <3>1, <3>2
  <2>4. Lag(n)'
    <3>1. Signaled(sq'[n][Home]) = Signaled(q)
      BY <1>16 DEF Signaled
    <3>2. Outstanding(n)' = Outstanding(n)
      BY <1>1, <1>5, <3>1 DEF Outstanding
    <3>3. Lag(n) /\ pc'[n] = pc[n] /\ abandoned'[n] = abandoned[n]
      BY <1>2, <1>5, <1>17 DEF SentOK
    <3> QED BY <3>2, <3>3 DEF Lag
  <2>5. /\ Len(batch'[n]) <= NumOps
        /\ \A j \in 1 .. Len(batch'[n]) :
             RightRequest(batch'[n][j]) /\ (batch'[n][j].signaled <=> j = NumOps)
    BY <1>2, <1>5 DEF SentOK
  <2>6. (pc'[n] = "poll" => ipc'[n] = "ready") /\ (call'[n].own => call'[n].local \in Buffer)
    BY <1>2, <1>5, <1>17 DEF SentOK
  <2> QED BY <2>1, <2>2, <2>3, <2>4, <2>5, <2>6, Zenon DEF SentOK
<1>21. DataSeen'
  <2> SUFFICES ASSUME NEW m \in Node, pc[m] = "poll", call[m].kind \in {"Read", "Execute"}
               PROVE  mem'[Home]["data"] \in during'[m]
    BY <1>5 DEF DataSeen
  <2>1. mem[Home]["data"] \in during'[m]
    BY <1>13 DEF WireInv, DataSeen
  <2>2. CASE wr.op = "WRITE"
    BY <1>7, <1>11, <1>13, <2>2 DEF RightRequest
  <2>3. CASE wr.op = "READ"
    BY <1>7, <1>8, <1>9, <1>11, <2>1, <2>3 DEF RightRequest
  <2>4. CASE wr.op = "CAS"
    <3>1. wr.raddr = "swapped"
      BY <1>7, <2>4 DEF RightRequest
    <3>2. mem'[Home]["data"] = mem[Home]["data"]
      BY <1>11, <3>1, Addresses
    <3> QED BY <2>1, <3>2
  <2> QED BY <1>7, <2>2, <2>3, <2>4
<1>22. WireInv'
  <2>1. TypeOK' /\ KeysOK'
    <3>1. InitTypeOK' /\ KeysOK'
      BY <1>17, InitKept
    <3>2. (TypeOK <=> InitTypeOK /\ OpTypeOK)'
      BY TypeOKParts, PTL
    <3> QED BY <1>18, <3>1, <3>2
  <2>2. \A m \in Node : SentOK(m)'
    BY <1>19, <1>20, SameIsSent DEF WireInv
  <2> QED BY <1>21, <2>1, <2>2 DEF WireInv
<1>23. ASSUME PoolOK(n) PROVE PoolOK(n)'
  <2>1. pc[n] # "idle" /\ RequestOK(n, wr)
    <3>1. q # <<>>
      BY <1>4, <1>5
    <3> QED BY <1>1, <1>7, <1>23, <3>1 DEF PoolOK, QueueOK
  <2>2. BatchOK(n)'
    BY <1>5, <1>23 DEF PoolOK, BatchOK
  <2>3. CallOK(n)'
    <3>1. InBatch(n, call[n].local)' <=> InBatch(n, call[n].local)
      BY <1>5 DEF InBatch
    <3>2. call[n].kind = "Write" => mem'[n][call[n].local] = call[n].val
      <4> SUFFICES ASSUME call[n].kind = "Write" PROVE mem'[n][call[n].local] = call[n].val
        OBVIOUS
      <4>1. call[n].local \in Buffer /\ mem[n][call[n].local] = call[n].val
        BY <1>23 DEF PoolOK, CallOK, Copies
      <4> QED BY <1>12, <4>1
    <3>3. pc[n] # "idle" => ipc'[n] = "ready"
      BY <1>17, <1>23 DEF PoolOK, CallOK
    <3> QED BY <1>5, <1>23, <3>1, <3>2, <3>3 DEF PoolOK, CallOK
  <2>4. ASSUME NEW j \in 1 .. Len(q) PROVE RequestOK(n, sq[n][Home][j])'
    <3>1. CASE j = k
      <4>1. RequestOK(n, w)'
        BY <1>5, <1>14, <2>1 DEF RequestOK
      <4> QED BY <1>16, <3>1, <4>1
    <3>2. CASE j # k
      <4>1. PICK u : u = q[j]
        OBVIOUS
      <4>2. RequestOK(n, u) /\ u.laddr \in Buffer \cup {"prev"}
        BY <1>1, <1>23, <2>4, <4>1, RequestFacts
      <4>3. mem'[n][u.laddr] = mem[n][u.laddr]
        BY <1>12, <4>2
      <4>4. RequestOK(n, u)'
        BY <1>5, <4>2, <4>3 DEF RequestOK
      <4> QED BY <1>16, <2>4, <3>2, <4>1, <4>4
    <3> QED BY <3>1, <3>2
  <2>5. QueueOK(n)'
    <3>1. \A j \in 1 .. Len(q) : sq'[n][Home][j].signaled <=> j = Len(q)
      BY <1>1, <1>16, <1>23 DEF PoolOK, QueueOK
    <3>2. \A i, j \in 1 .. Len(q) : i # j => sq'[n][Home][i].laddr # sq'[n][Home][j].laddr
      BY <1>1, <1>16, <1>23 DEF PoolOK, QueueOK
    <3>3. call'[n].kind \in Swaps => Len(sq'[n][Home]) <= 1
      BY <1>1, <1>5, <1>16, <1>23 DEF PoolOK, QueueOK
    <3>4. \A r \in Node \ {Home} : sq'[n][r] = <<>> /\ cq'[n][r] = <<>>
      BY <1>5, <1>15, <1>23 DEF PoolOK, QueueOK
    <3>5. q # <<>> /\ sq'[n][Home] # <<>> /\ cq[n][Home] = <<>>
      <4>1. q # <<>> /\ Len(q) # 0
        BY <1>4, <1>5
      <4>2. sq'[n][Home] # <<>>
        BY <1>16, <4>1
      <4> QED BY <1>1, <1>23, <2>1, <4>1, <4>2 DEF PoolOK, QueueOK
    <3> QED BY <1>5, <1>16, <2>1, <2>4, <3>1, <3>2, <3>3, <3>4, <3>5 DEF QueueOK
  <2>6. EffectOK(n)'
    <3> SUFFICES ASSUME pc[n] = "poll" PROVE EffectOK(n)'
      BY <1>5 DEF EffectOK
    <3>1. ASSUME NEW j \in 1 .. Len(q), j # k
          PROVE  /\ q[j].op = "READ" /\ q[j].done => q[j].resp \in during'[n]
                 /\ q[j].op = "WRITE" /\ q[j].done => mem'[n][q[j].laddr] \in during'[n]
      <4>1. /\ q[j].op = "READ" /\ q[j].done => q[j].resp \in during[n]
            /\ q[j].op = "WRITE" /\ q[j].done => mem[n][q[j].laddr] \in during[n]
        BY <1>1, <1>23, <3>1 DEF PoolOK, EffectOK
      <4>2. q[j].laddr \in Buffer \cup {"prev"}
        BY <1>1, <3>1, RequestFacts
      <4> QED BY <1>12, <1>13, <4>1, <4>2
    <3>2. /\ w.op = "READ" => w.resp \in during'[n]
          /\ w.op = "WRITE" => mem'[n][w.laddr] \in during'[n]
      <4>1. CASE w.op = "READ"
        <5>1. wr.raddr = "data" /\ call[n].kind \in {"Read", "Execute"}
          BY <1>14, <2>1, <4>1 DEF RequestOK
        <5>2. old \in during[n]
          BY <1>8, <5>1 DEF WireInv, DataSeen
        <5> QED BY <1>13, <1>14, <4>1, <5>2
      <4>2. CASE w.op = "WRITE"
        BY <1>7, <1>9, <1>12, <1>13, <1>14, <4>2
      <4> QED BY <4>1, <4>2
    <3>3. \A j \in 1 .. Len(sq'[n][Home]) :
            LET u == sq'[n][Home][j]
            IN /\ u.op = "READ" /\ u.done => u.resp \in during'[n]
               /\ u.op = "WRITE" /\ u.done => mem'[n][u.laddr] \in during'[n]
      BY <1>16, <3>1, <3>2
    <3>4. Locals(n)' = Locals(n) /\ Locals(n) \subseteq Buffer
      BY <1>5, <1>23 DEF Locals, PoolOK, BatchOK, CallOK
    <3>5. ASSUME NEW a \in Locals(n)
          PROVE  \/ mem'[n][a] \in during'[n]
                 \/ \E j \in 1 .. Len(sq'[n][Home]) : sq'[n][Home][j].laddr = a
      <4>1. mem[n][a] \in during[n] \/ \E j \in 1 .. Len(q) : q[j].laddr = a
        BY <1>1, <1>23, <3>5 DEF PoolOK, EffectOK
      <4>2. mem'[n][a] = mem[n][a]
        BY <1>12, <3>4, <3>5
      <4> QED BY <1>13, <1>16, <4>1, <4>2
    <3> QED BY <3>3, <3>4, <3>5 DEF EffectOK
  <2> QED BY <2>2, <2>3, <2>5, <2>6 DEF PoolOK
<1>24. \A m \in Node : PoolOK(m) => PoolOK(m)'
  BY <1>19, <1>23, SameIsOK
<1>25. \A m \in Node \ {n} : Owned(m)' = Owned(m)
  BY <1>19, SameOwned
<1>26. ASSUME PoolOK(n), TokensOK PROVE TokensOK'
  <2>1. CASE wr.op # "CAS"
    <3>1. wr.raddr = "data" /\ call[n].kind \notin Swaps
      BY <1>7, <1>26, <2>1 DEF RequestOK
    <3>2. mem'[Home]["swapped"] = mem[Home]["swapped"]
      BY <1>11, <3>1, Addresses
    <3>3. Owned(n)' = Owned(n)
      BY <1>5, <3>1 DEF Owned, Traded
    <3> QED BY <1>25, <1>26, <3>2, <3>3 DEF TokensOK
  <2>2. CASE wr.op = "CAS"
    <3>1. /\ wr.raddr = "swapped" /\ call[n].kind \in Swaps
          /\ wr.cmp = call[n].cmp /\ wr.swap = hand[n]
      BY <1>7, <1>26, <2>2 DEF RequestOK
    <3>2. pc[n] = "poll"
      <4>1. q # <<>>
        BY <1>4, <1>5
      <4>2. pc[n] # "idle"
        BY <1>1, <1>26, <4>1 DEF PoolOK, QueueOK
      <4> QED BY <1>2, <4>2 DEF OpTypeOK
    <3>3. Len(q) = 1 /\ k = 1
      <4>1. Len(q) <= 1
        BY <1>1, <1>26, <3>1 DEF PoolOK, QueueOK
      <4>2. k \in 1 .. Len(q)
        BY <1>5
      <4>3. \A l \in Nat : \A j \in 1 .. l : l <= 1 => l = 1 /\ j = 1
        OBVIOUS
      <4> QED BY <1>4, <4>1, <4>2, <4>3
    <3>4. Owned(n) = hand[n]
      <4>1. ~Traded(n)
        <5>1. q # <<>>
          BY <3>3
        <5> QED BY <1>1, <1>6, <1>7, <3>3, <5>1 DEF Traded
      <4> QED BY <4>1 DEF Owned
    <3>5. Owned(n)' = IF old = wr.cmp THEN old ELSE hand[n]
      <4>1. sq'[n][Home] # <<>> /\ sq'[n][Home][1] = w
        BY <1>16, <3>3
      <4>2. w.done /\ w.resp = old /\ call'[n] = call[n] /\ pc'[n] = pc[n]
        BY <1>5, <1>14
      <4>3. Traded(n)' <=> old = wr.cmp
        BY <3>1, <3>2, <4>1, <4>2 DEF Traded
      <4> QED BY <1>5, <3>1, <4>2, <4>3 DEF Owned
    <3>6. mem'[Home]["swapped"] = IF old = wr.cmp THEN hand[n] ELSE old
      BY <1>9, <1>11, <2>2, <3>1
    <3>7. old = mem[Home]["swapped"]
      BY <1>8, <3>1
    <3> QED BY <1>25, <1>26, <3>4, <3>5, <3>6, <3>7 DEF TokensOK
  <2> QED BY <2>1, <2>2
<1> QED BY <1>17, <1>22, <1>24, <1>26

-----------------------------------------------------------------------------
(* All steps.                                                              *)

\* A step of pool n that keeps it leaves the tokens where they are.
LEMMA KeepsPreserves ==
  ASSUME PoolInv, NEW n \in Node, Keeps(n), abandoned' = abandoned
  PROVE  PoolInv'
<1>1. \A m \in Node : Patient(m)' <=> Patient(m)
  BY DEF Patient
<1>2. WireInv' /\ Aside(n) /\ (PoolOK(n) => PoolOK(n)' /\ Owned(n)' = Owned(n))
  BY DEF Keeps
<1>3. \A m \in Node : Patient(m)' => PoolOK(m)'
  BY <1>1, <1>2, SameIsOK DEF PoolInv, Aside
<1>4. ASSUME \A m \in Node : Patient(m)' PROVE TokensOK'
  <2>1. TokensOK /\ PoolOK(n)
    BY <1>1, <1>4 DEF PoolInv
  <2>2. \A m \in Node : Owned(m)' = Owned(m)
    BY <1>2, <2>1, SameOwned DEF Aside
  <2>3. mem'[Home]["swapped"] = mem[Home]["swapped"]
    BY <1>2 DEF Aside
  <2> QED BY <2>1, <2>2, <2>3 DEF TokensOK
<1> QED BY <1>2, <1>3, <1>4 DEF PoolInv

\* From then on, nothing is said of a pool that abandons a call but what is on the
\* wire; the others do not notice.
LEMMA AbandonPreserves ==
  ASSUME PoolInv, NEW n \in Node, Abandon(n)
  PROVE  PoolInv'
<1>1. WireInv' /\ Aside(n) /\ ~Patient(n)'
  BY AbandonLeaves DEF PoolInv
<1>2. \A m \in Node \ {n} : Patient(m)' => Patient(m)
  BY <1>1 DEF Aside, Same, Patient
<1>3. \A m \in Node : Patient(m)' => PoolOK(m)'
  BY <1>1, <1>2, SameIsOK DEF PoolInv, Aside
<1> QED BY <1>1, <1>3 DEF PoolInv

LEMMA ExecutePreserves ==
  ASSUME PoolInv, NEW n \in Node, NEW p \in Node, QpExecute(n, p)
  PROVE  PoolInv'
<1>1. /\ WireInv' /\ abandoned' = abandoned
      /\ \A m \in Node : PoolOK(m) => PoolOK(m)'
      /\ (\A m \in Node : PoolOK(m)) /\ TokensOK => TokensOK'
  BY ExecuteKeeps DEF PoolInv
<1>2. \A m \in Node : Patient(m)' <=> Patient(m)
  BY <1>1 DEF Patient
<1> QED BY <1>1, <1>2 DEF PoolInv

LEMMA PoolStarts == Init => PoolInv
<1> SUFFICES ASSUME Init PROVE PoolInv
  OBVIOUS
<1>1. WireInv
  BY WireStarts
<1>2. TokensOK
  <2>1. \A n \in Node : Owned(n) = FirstToken[n]
    BY DEF Init, Owned, Traded
  <2>2. mem[Home]["swapped"] = HomeToken
    BY PoolAssumption DEF Init, Address
  <2> QED BY <2>1, <2>2, PoolAssumption DEF TokensOK
<1>3. ASSUME NEW n \in Node PROVE PoolOK(n)
  <2>1. /\ pc[n] = "idle" /\ call[n] = NoCall /\ batch[n] = <<>> /\ held[n] = {}
        /\ \A p \in Node : sq[n][p] = <<>> /\ cq[n][p] = <<>>
    BY DEF Init
  <2>2. BatchOK(n)
    BY <2>1, PoolAssumption DEF BatchOK
  <2>3. CallOK(n)
    BY <2>1, NoCallFacts DEF CallOK, Swaps, Copies
  <2>4. QueueOK(n)
    <3>1. sq[n][Home] = <<>> /\ cq[n][Home] = <<>> /\ call[n].kind \notin Swaps
      BY <2>1, NoCallFacts, PoolAssumption DEF Swaps
    <3>2. Len(sq[n][Home]) = 0
      BY <3>1
    <3> QED BY <2>1, <3>1, <3>2 DEF QueueOK
  <2>5. EffectOK(n)
    BY <2>1 DEF EffectOK
  <2> QED BY <2>2, <2>3, <2>4, <2>5 DEF PoolOK
<1> QED BY <1>1, <1>2, <1>3 DEF PoolInv

LEMMA StepPreserves == PoolInv /\ [Next]_vars => PoolInv'
<1> SUFFICES ASSUME PoolInv, [Next]_vars PROVE PoolInv'
  OBVIOUS
<1>1. WireInv
  BY DEF PoolInv
<1>2. CASE UNCHANGED vars
  <2>1. UNCHANGED <<initVars, callVars, wireVars>>
    BY <1>2 DEF vars
  <2>2. /\ UNCHANGED <<pc, call, batch, hand, held, free, during, mem, sq, cq>>
        /\ UNCHANGED <<uses, ipc, at, conn, chan, conn_info, abandoned>>
    BY <2>1 DEF initVars, callVars, wireVars
  <2>3. \A m \in Node : Same(m)
    BY <2>2 DEF Same
  <2>4. OpTypeOK'
    BY <1>1, <2>2, WireTypes DEF OpTypeOK
  <2>5. Aside(Home) /\ SentOK(Home)' /\ InitTypeOK' /\ KeysOK'
    BY <1>1, <2>2, <2>3, SameIsSent, InitKept, Addresses DEF Aside, WireInv
  <2>6. pc'[Home] = "poll" /\ call'[Home].kind \in {"Read", "Execute"} =>
          mem[Home]["data"] \in during'[Home]
    BY <1>1, <2>2, Addresses DEF WireInv, DataSeen
  <2>7. WireInv'
    BY <1>1, <2>4, <2>5, <2>6, AsideIsSent, Addresses
  <2>8. Keeps(Home)
    BY <2>3, <2>5, <2>7, SameIsOK, SameOwned, Addresses DEF Keeps
  <2> QED BY <2>2, <2>8, KeepsPreserves, Addresses
<1>3. CASE Next
  <2>1. ASSUME NEW n \in Node, NEW p \in Node, Hardware(n, p) PROVE PoolInv'
    <3>1. ASSUME QpRespond(n, p) PROVE abandoned' = abandoned
      BY <3>1 DEF QpRespond, initVars
    <3> QED BY <1>1, <2>1, <3>1, ExecutePreserves, RespondKeeps, KeepsPreserves DEF Hardware
  <2>2. ASSUME NEW n \in Node, NEW b \in Buffer, NEW mortal \in BOOLEAN, ReadStart(n, b, mortal)
        PROVE  PoolInv'
    <3>1. abandoned' = abandoned
      BY <2>2 DEF ReadStart, initVars
    <3> QED BY <1>1, <2>2, <3>1, ReadStartKeeps, KeepsPreserves
  <2>3. ASSUME NEW n \in Node, NEW mortal \in BOOLEAN, ExecuteStart(n, mortal)
        PROVE  PoolInv'
    <3>1. abandoned' = abandoned
      BY <2>3 DEF ExecuteStart, initVars
    <3> QED BY <1>1, <2>3, <3>1, ExecuteStartKeeps, KeepsPreserves
  <2>4. ASSUME NEW n \in Node, NEW b \in Buffer, NEW v \in Datum,
               WriteStart(n, b, v) \/ AddWrite(n, b, v)
        PROVE  PoolInv'
    <3>1. abandoned' = abandoned
      BY <2>4 DEF WriteStart, AddWrite, initVars
    <3> QED BY <1>1, <2>4, <3>1, WriteStartKeeps, AddWriteKeeps, KeepsPreserves
  <2>5. ASSUME NEW n \in Node, NEW b \in Buffer, AddRead(n, b) \/ Deallocate(n, b)
        PROVE  PoolInv'
    <3>1. abandoned' = abandoned
      BY <2>5 DEF AddRead, Deallocate, initVars
    <3> QED BY <1>1, <2>5, <3>1, AddReadKeeps, GivingBackKeeps, KeepsPreserves
  <2>6. ASSUME NEW n \in Node, CallStep(n) \/ DestroyBatch(n) PROVE PoolInv'
    <3>1. abandoned' = abandoned
      BY <2>6 DEF CallStep, ReadReturn, WriteReturn, AtomicSwapReturn, AtomicSwapRetry,
                  CompareAndSwapReturn, ExecuteReturn, DestroyBatch, initVars
    <3> QED BY <1>1, <2>6, <3>1, ReturnKeeps, GivingBackKeeps, KeepsPreserves
  <2>7. ASSUME NEW n \in Node,
               \/ \E t \in Token : CompareAndSwapStart(n, t)
               \/ \E t \in Hint : AtomicSwapStart(n, t)
        PROVE  PoolInv'
    <3>1. abandoned' = abandoned
      BY <2>7 DEF CompareAndSwapStart, AtomicSwapStart, initVars
    <3> QED BY <1>1, <2>7, <3>1, SwapStartKeeps, KeepsPreserves
  <2>8. ASSUME NEW n \in Node, InitStep(n) \/ InitFails(n) PROVE PoolInv'
    BY <1>1, <2>8, InitStepKeeps, KeepsPreserves
  <2> QED BY <1>3, <2>1, <2>2, <2>3, <2>4, <2>5, <2>6, <2>7, <2>8, AbandonPreserves DEF Next
<1> QED BY <1>2, <1>3

LEMMA PoolInvariant == Spec => []PoolInv
BY PoolStarts, StepPreserves, PTL DEF Spec

-----------------------------------------------------------------------------
(* What callers may rely on.                                               *)

\* Steps, queues and memory hold what the code and the hardware put there.
THEOREM MemoryPoolTypeCorrect == Spec => []TypeOK
<1>1. PoolInv => TypeOK
  BY DEF PoolInv, WireInv
<1> QED BY <1>1, PoolInvariant, PTL

\* Whatever the interleaving of the pools' compare-and-swap requests and of the
\* retries of AtomicSwap, no token is in two pools between calls, or in one and in
\* the word, as long as no pool abandons a call.
THEOREM TokensKeepTheirPlace == Spec => []TokensAreExchanged
<1>1. PoolInv => TokensAreExchanged
  <2> SUFFICES ASSUME PoolInv, \A n \in Node : Patient(n)
               PROVE  \A n \in Node : pc[n] # "poll" =>
                        /\ hand[n] # mem[Home]["swapped"]
                        /\ \A m \in Node \ {n} : pc[m] # "poll" => hand[m] # hand[n]
    BY DEF TokensAreExchanged
  <2>1. \A n \in Node : pc[n] # "poll" => Owned(n) = hand[n]
    BY DEF Owned, Traded
  <2>2. TokensOK
    BY DEF PoolInv
  <2> QED BY <2>1, <2>2 DEF TokensOK
<1> QED BY <1>1, PoolInvariant, PTL

\* Memory that a request under way reads or fills is not free, and the payload of
\* a write is what was asked for until it is fetched, in every pool none of whose
\* calls was abandoned.
THEOREM PayloadsStayIntact == Spec => []PayloadsIntact
<1>1. PoolInv => PayloadsIntact
  <2> SUFFICES ASSUME PoolInv, NEW n \in Node, NEW p \in Node, Patient(n),
                      NEW k \in 1 .. Len(sq[n][p])
               PROVE  /\ sq[n][p][k].laddr \notin free[n]
                      /\ sq[n][p][k].op = "WRITE" /\ ~sq[n][p][k].done =>
                           mem[n][sq[n][p][k].laddr] = sq[n][p][k].swap
    BY DEF PayloadsIntact
  <2>0. WireInv /\ PoolOK(n)
    BY DEF PoolInv
  <2>1. p = Home
    <3>1. sq[n][p] # <<>>
      OBVIOUS
    <3> QED BY <2>0, <3>1, OnlyHome
  <2>2. PICK wr : wr = sq[n][Home][k]
    OBVIOUS
  <2>3. RequestOK(n, wr)
    BY <2>0, <2>1, <2>2, RequestFacts
  <2>4. free[n] \subseteq Buffer
    BY <2>0, WireTypes DEF OpTypeOK
  <2>5. wr.laddr \notin free[n]
    BY <2>3, <2>4, Addresses DEF RequestOK
  <2> QED BY <2>1, <2>2, <2>3, <2>5 DEF RequestOK
<1> QED BY <1>1, PoolInvariant, PTL

\* The assertions on completions never fire, and between calls a pool is exactly as
\* many completions behind as it has abandoned calls: those calls leave one each,
\* which no later call gets rid of, and the others leave nothing.
THEOREM CompletionsAlwaysMatch == Spec => []CompletionsMatch
<1>1. PoolInv => CompletionsMatch
  <2> SUFFICES ASSUME PoolInv, NEW n \in Node
               PROVE  /\ \A p \in Node : \A k \in 1 .. Len(cq[n][p]) : cq[n][p][k]
                      /\ Idle(n) => /\ Outstanding(n) = abandoned[n]
                                    /\ Patient(n) => sq[n][Home] = <<>>
    BY DEF CompletionsMatch
  <2>1. OpTypeOK /\ SentOK(n) /\ (Patient(n) => PoolOK(n))
    BY WireTypes DEF PoolInv, WireInv
  <2>2. \A p \in Node : \A k \in 1 .. Len(cq[n][p]) : cq[n][p][k]
    <3> SUFFICES ASSUME NEW p \in Node, NEW k \in 1 .. Len(cq[n][p]) PROVE cq[n][p][k]
      OBVIOUS
    <3>1. cq[n][p] # <<>>
      <4>1. 1 .. Len(<<>>) = {}
        OBVIOUS
      <4> QED BY <4>1, Zenon
    <3>2. p = Home
      BY <2>1, <3>1 DEF SentOK
    <3> QED BY <2>1, <3>2, Zenon DEF SentOK
  <2>3. ASSUME Idle(n) PROVE Outstanding(n) = abandoned[n]
    BY <2>1, <2>3 DEF SentOK, Lag, Idle, OpTypeOK
  <2>4. ASSUME Idle(n), Patient(n) PROVE sq[n][Home] = <<>>
    BY <2>1, <2>4, IdleFacts DEF Idle
  <2> QED BY <2>2, <2>3, <2>4
<1> QED BY <1>1, PoolInvariant, PTL

\* A pool goes from a call to none only by one of the returns, or by abandoning it.
LEMMA OnlyReturnsReturn ==
  ASSUME PoolInv, Next, NEW n \in Node, pc[n] = "poll", pc'[n] = "idle", Patient(n)'
  PROVE  Completion(n) /\ Patient(n)
<1>1. OpTypeOK
  BY WireTypes DEF PoolInv
<1>2. ASSUME NEW m \in Node,
             \/ InitStep(m) \/ InitFails(m) \/ DestroyBatch(m) \/ AtomicSwapRetry(m)
             \/ \E b \in Buffer : \/ AddRead(m, b) \/ Deallocate(m, b)
                                   \/ \E v \in Datum : AddWrite(m, b, v)
      PROVE  pc' = pc
  BY <1>2 DEF InitStep, InitStart, InitConnect, InitSend, InitDeliver, InitFails,
              DestroyBatch, AtomicSwapRetry, AddRead, Deallocate, AddWrite, callVars
<1>3. ASSUME NEW m \in Node, NEW p \in Node, Hardware(m, p) PROVE pc' = pc
  BY <1>3 DEF Hardware, QpExecute, QpRespond, callVars
<1>4. ASSUME NEW m \in Node,
             \/ \E t \in Token : CompareAndSwapStart(m, t)
             \/ \E t \in Hint : AtomicSwapStart(m, t)
             \/ \E b \in Buffer, v \in Datum : WriteStart(m, b, v)
             \/ \E b \in Buffer, mortal \in BOOLEAN : ReadStart(m, b, mortal)
             \/ \E mortal \in BOOLEAN : ExecuteStart(m, mortal)
      PROVE  pc' = [pc EXCEPT ![m] = "poll"]
  BY <1>4 DEF CompareAndSwapStart, AtomicSwapStart, WriteStart, ReadStart, ExecuteStart, Calls
<1>5. ASSUME NEW m \in Node, Abandon(m)
      PROVE  pc' = [pc EXCEPT ![m] = "idle"] /\ ~Patient(m)'
  <2>1. ~Patient(m)'
    BY <1>5, AbandonLeaves DEF PoolInv
  <2> QED BY <1>5, <2>1 DEF Abandon, Returns
<1>6. ASSUME NEW m \in Node,
             \/ ReadReturn(m) \/ WriteReturn(m) \/ AtomicSwapReturn(m)
             \/ CompareAndSwapReturn(m) \/ ExecuteReturn(m)
      PROVE  /\ pc' = [pc EXCEPT ![m] = "idle"] /\ Completion(m)
             /\ Patient(m)' <=> Patient(m)
  BY <1>6 DEF ReadReturn, WriteReturn, AtomicSwapReturn, CompareAndSwapReturn,
              ExecuteReturn, Returns, Patient, initVars
<1>7. \/ pc' = pc
      \/ \E m \in Node : pc' = [pc EXCEPT ![m] = "poll"]
      \/ \E m \in Node : pc' = [pc EXCEPT ![m] = "idle"] /\ ~Patient(m)'
      \/ \E m \in Node : /\ pc' = [pc EXCEPT ![m] = "idle"] /\ Completion(m)
                         /\ Patient(m)' <=> Patient(m)
  BY <1>2, <1>3, <1>4, <1>5, <1>6 DEF Next, CallStep
<1> QED BY <1>1, <1>7 DEF OpTypeOK

\* What a call was made for has happened when it returns.
LEMMA AnsweredIsDone ==
  ASSUME OpTypeOK, NEW n \in Node, PoolOK(n), pc[n] = "poll", Completion(n)
  PROVE  TakesEffect(n)
<1>1. sq[n][Home] = <<>>
  BY CompletionFacts
<1>2. \A a \in Locals(n) : mem[n][a] \in during[n]
  <2>1. Len(sq[n][Home]) = 0
    BY <1>1
  <2> QED BY <1>1, <2>1 DEF PoolOK, EffectOK
<1>3. CASE call[n].kind = "Read"
  BY <1>2, <1>3 DEF TakesEffect, Locals, Copies
<1>4. CASE call[n].kind = "Write"
  <2>1. call[n].local \in Locals(n) /\ mem[n][call[n].local] = call[n].val
    BY <1>1, <1>4 DEF Locals, Copies, PoolOK, CallOK
  <2> QED BY <1>2, <1>4, <2>1 DEF TakesEffect
<1>5. CASE call[n].kind = "Execute"
  BY <1>2, <1>5 DEF TakesEffect, Locals
<1>6. CASE call[n].kind \notin {"Read", "Write", "Execute"}
  BY <1>6 DEF TakesEffect
<1> QED BY <1>3, <1>4, <1>5, <1>6

\* When Read or Execute returns, the local memory holds what the word held since the
\* call began, and what Write was given has been in the word, in every pool none of
\* whose calls was abandoned.
THEOREM OperationsHaveTakenEffect == Spec => OperationsTakeEffect
<1> DEFINE A == \A n \in Node :
                  pc[n] = "poll" /\ pc'[n] = "idle" /\ Patient(n)' => TakesEffect(n)
<1>1. PoolInv /\ [Next]_vars => [A]_vars
  <2> SUFFICES ASSUME PoolInv, Next, NEW n \in Node,
                      pc[n] = "poll", pc'[n] = "idle", Patient(n)'
               PROVE  TakesEffect(n)
    OBVIOUS
  <2>1. Completion(n) /\ Patient(n)
    BY OnlyReturnsReturn
  <2>2. OpTypeOK /\ PoolOK(n)
    BY <2>1, WireTypes DEF PoolInv
  <2> QED BY <2>1, <2>2, AnsweredIsDone
<1> QED BY <1>1, PoolInvariant, PTL DEF Spec, OperationsTakeEffect
=============================================================================
