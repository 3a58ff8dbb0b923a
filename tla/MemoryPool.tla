----------------------------- MODULE MemoryPool -----------------------------
(***************************************************************************)
(* MemoryPool: the start-up of the pools of several nodes, which exchange   *)
(* the keys of their memory, and then their one-sided operations: Read,     *)
(* Write, AtomicSwap, CompareAndSwap and batches built with                 *)
(* DoorbellBatchBuilder, each of which posts work requests to a queue pair  *)
(* and polls its completion queue.  The queue pairs execute requests while  *)
(* the callers wait.                                                        *)
(*                                                                         *)
(* The application keeps two words on the node Home: one that is only       *)
(* swapped, one that is read and written.  Every pool starts with a token   *)
(* of its own; AtomicSwap and CompareAndSwap trade it for the one in the    *)
(* word.  A pool is used by one thread, since prev_ and send_wr_ have no    *)
(* lock.  An object is one word, so a read has one chunk.                   *)
(***************************************************************************)
EXTENDS Naturals, Sequences, FiniteSets

CONSTANTS
  Node,        \* a node and its pool
  Home,        \* where the two words are
  Peers,       \* [Node -> Seq(Node)]: the peers given to Init
  Token,       \* what the swapped word may hold
  FirstToken,  \* [Node -> Token]: what a pool starts with
  HomeToken,   \* what the swapped word starts with
  HomeDatum,   \* what the other word starts with
  Hint,        \* what AtomicSwap is told the word may be; 0 by default
  Datum,       \* what Write is called with
  Zero,        \* fresh memory
  Buffer,      \* local memory of a pool, in words: bounds allocation
  NumOps,      \* num_ops of every DoorbellBatchBuilder
  MaxAbandoned, \* how many calls a pool may abandon: bounds its queues
  Programs,    \* what the applications may call: a subset of [Node -> SUBSET Uses]
  None

Kinds == {"Read", "Write", "AtomicSwap", "CompareAndSwap", "Execute"}
\* Batches are built with AddRead and AddWrite; kill: a kill switch is given.
Uses == (Kinds \ {"Execute"}) \cup {"AddRead", "AddWrite", "kill"}

ASSUME PoolAssumption ==
  /\ Home \in Node /\ None \notin Node
  /\ Peers \in [Node -> Seq(Node)]
  /\ \A n \in Node : \E k \in 1 .. Len(Peers[n]) : Peers[n][k] = Home
  /\ FirstToken \in [Node -> Token] /\ HomeToken \in Token /\ HomeDatum \in Datum
  /\ \A n \in Node : /\ FirstToken[n] # HomeToken
                     /\ \A m \in Node \ {n} : FirstToken[m] # FirstToken[n]
  /\ Buffer \cap {"swapped", "data", "prev"} = {}
  /\ Hint \subseteq Token \cup {Zero}
  /\ Zero \notin Token \cup Datum
  /\ NumOps \in Nat \ {0} /\ MaxAbandoned \in Nat
  /\ Programs \subseteq [Node -> SUBSET Uses]

VARIABLES
  \* Init
  ipc, at,     \* its step, and the peer it is at in the loop of that step
  conn,        \* established connections: sets of one or two nodes
  chan,        \* [from][to]: keys sent and not yet delivered
  conn_info,   \* [n][p]: the key of p that n knows, or None
  \* operations
  uses,        \* [Node -> SUBSET Uses]: what the applications call
  abandoned,   \* how many calls a pool has abandoned (history)
  pc, call,    \* of the caller: idle, poll
  batch,       \* the batch being built or executed
  hand,        \* the token the application holds
  held, free,  \* buffers the application holds; buffers to allocate
  \* hardware
  mem,         \* [n][address]
  sq, cq,      \* [n][p]: send queue and its completions, TRUE for success
  \* history
  during       \* what the read and written word held or got since the call

initVars == <<uses, abandoned, ipc, at, conn, chan, conn_info>>
callVars == <<pc, call, batch, hand, held, free, during>>
wireVars == <<mem, sq, cq>>
vars == <<initVars, callVars, wireVars>>

Address == {"swapped", "data", "prev"} \cup Buffer
Value == Token \cup Datum \cup {Zero}
Keys == Node \cup {None}      \* the key of a node's memory is named after it

\* A work request: fetched and answered by the hardware, see QpExecute and QpRespond.
Request == [op : {"READ", "WRITE", "CAS"}, raddr : Address, laddr : Address,
            cmp : Value, swap : Value, fence : BOOLEAN, signaled : BOOLEAN,
            rkey : Keys, done : BOOLEAN, ok : BOOLEAN, resp : Value]
Call == [kind : Kinds \cup {"none"},
         peer : Node, local : Address, own : BOOLEAN, mortal : BOOLEAN,
         cmp : Value, val : Value]

\* Steps, queues and memory hold what the code and the hardware put there.
TypeOK ==
  /\ ipc \in [Node -> {"start", "connect", "send", "deliver", "ready", "failed", "down"}]
  /\ at \in [Node -> Nat \ {0}]
  /\ conn \subseteq SUBSET Node
  /\ chan \in [Node -> [Node -> Seq(Node)]]
  /\ conn_info \in [Node -> [Node -> Keys]]
  /\ uses \in Programs
  /\ abandoned \in [Node -> Nat]
  /\ pc \in [Node -> {"idle", "poll"}]
  /\ call \in [Node -> Call] /\ batch \in [Node -> Seq(Request)]
  /\ hand \in [Node -> Value]
  /\ held \in [Node -> SUBSET Buffer] /\ free \in [Node -> SUBSET Buffer]
  /\ mem \in [Node -> [Address -> Value]]
  /\ sq \in [Node -> [Node -> Seq(Request)]]
  /\ cq \in [Node -> [Node -> Seq(BOOLEAN)]]
  /\ during \in [Node -> SUBSET Value]

NoCall == [kind |-> "none", peer |-> Home, local |-> "prev", own |-> FALSE,
           mortal |-> FALSE, cmp |-> Zero, val |-> Zero]

Init ==
  /\ ipc = [n \in Node |-> "start"] /\ at = [n \in Node |-> 1]
  /\ conn = {}
  /\ chan = [n \in Node |-> [p \in Node |-> <<>>]]
  /\ conn_info = [n \in Node |-> [p \in Node |-> None]]
  /\ uses \in Programs /\ abandoned = [n \in Node |-> 0]
  /\ pc = [n \in Node |-> "idle"] /\ call = [n \in Node |-> NoCall]
  /\ batch = [n \in Node |-> <<>>]
  /\ hand = FirstToken
  /\ held = [n \in Node |-> {}] /\ free = [n \in Node |-> Buffer]
  /\ mem = [n \in Node |-> [a \in Address |->
              CASE n = Home /\ a = "swapped" -> HomeToken
                [] n = Home /\ a = "data" -> HomeDatum
                [] OTHER -> Zero]]
  /\ sq = [n \in Node |-> [p \in Node |-> <<>>]]
  /\ cq = [n \in Node |-> [p \in Node |-> <<>>]]
  /\ during = [n \in Node |-> {}]

-----------------------------------------------------------------------------
(* MemoryPool::Init.  Connect, Send and TryDeliver are those of the modules *)
(* ConnectionManager and MessageChannel; a call that says Unavailable is    *)
(* made again.                                                              *)

Peer(n) == Peers[n][at[n]]

\* On to the next peer, or from the last one to the next loop.
Advance(n, next) ==
  IF at[n] < Len(Peers[n])
    THEN at' = [at EXCEPT ![n] = @ + 1] /\ UNCHANGED ipc
    ELSE at' = [at EXCEPT ![n] = 1] /\ ipc' = [ipc EXCEPT ![n] = next]

\* The connection manager is started, and memory registered and given a prev_.
InitStart(n) ==
  /\ ipc[n] = "start"
  /\ ipc' = [ipc EXCEPT ![n] = "connect"]
  /\ UNCHANGED <<uses, abandoned, at, conn, chan, conn_info, callVars, wireVars>>

\* A new connection, or the one the peer has made.
InitConnect(n) ==
  /\ ipc[n] = "connect" /\ ipc[Peer(n)] \notin {"start", "down"}
  /\ conn' = conn \cup {{n, Peer(n)}}
  /\ Advance(n, "send")
  /\ UNCHANGED <<uses, abandoned, chan, conn_info, callVars, wireVars>>

\* Mutant of InitSend: the last peer of the list is left out.
SendsButLast(n) ==
  /\ ipc[n] = "send" /\ {n, Peer(n)} \in conn
  /\ chan' = IF at[n] < Len(Peers[n])
               THEN [chan EXCEPT ![n][Peer(n)] = Append(@, n)] ELSE chan
  /\ Advance(n, "deliver")
  /\ UNCHANGED <<uses, abandoned, conn, conn_info, callVars, wireVars>>

\* The peer is told this node's key.
InitSend(n) ==
  /\ ipc[n] = "send" /\ {n, Peer(n)} \in conn
  /\ chan' = [chan EXCEPT ![n][Peer(n)] = Append(@, n)]
  /\ Advance(n, "deliver")
  /\ UNCHANGED <<uses, abandoned, conn, conn_info, callVars, wireVars>>

\* Mutant of InitDeliver: whichever message has arrived is taken for the one of
\* the peer that is next in the list.
DeliverFromAny(n) ==
  /\ ipc[n] = "deliver"
  /\ \E p \in Node :
       /\ chan[p][n] # <<>>
       /\ conn_info' = [conn_info EXCEPT ![n][Peer(n)] = Head(chan[p][n])]
       /\ chan' = [chan EXCEPT ![p][n] = Tail(@)]
  /\ Advance(n, "ready")
  /\ UNCHANGED <<uses, abandoned, conn, callVars, wireVars>>

\* TryDeliver is repeated until the peer's key is there; emplace keeps an entry.
InitDeliver(n) ==
  LET p == Peer(n)
  IN /\ ipc[n] = "deliver" /\ chan[p][n] # <<>>
     /\ conn_info' = [conn_info EXCEPT ![n][p] =
                        IF @ = None THEN Head(chan[p][n]) ELSE @]
     /\ chan' = [chan EXCEPT ![p][n] = Tail(@)]
     /\ Advance(n, "ready")
     /\ UNCHANGED <<uses, abandoned, conn, callVars, wireVars>>

\* Any other status of Start, Connect, Send or TryDeliver ends Init; after one of
\* Start nobody listens.
InitFails(n) ==
  /\ ipc[n] \in {"start", "connect", "send", "deliver"}
  /\ ipc' = [ipc EXCEPT ![n] = IF @ = "start" THEN "down" ELSE "failed"]
  /\ UNCHANGED <<uses, abandoned, at, conn, chan, conn_info, callVars, wireVars>>

-----------------------------------------------------------------------------
(* The queue pair from n to p.                                             *)

\* A request may be executed when those before it are; a write without a fence
\* may pass reads and atomics that are under way.
Eligible(q, k) ==
  /\ ~q[k].done
  /\ \A j \in 1 .. k - 1 :
       q[j].done \/ (q[k].op = "WRITE" /\ ~q[k].fence /\ q[j].op # "WRITE")

\* The effect at p: the payload of a write is fetched from n's memory, the answer
\* of a read or an atomic taken from p's.  A wrong key is refused.
QpExecute(n, p) ==
  \E k \in 1 .. Len(sq[n][p]) :
    LET wr == sq[n][p][k]
        old == mem[p][wr.raddr]
        new == CASE wr.op = "WRITE" -> mem[n][wr.laddr]
                 [] wr.op = "CAS" -> IF old = wr.cmp THEN wr.swap ELSE old
                 [] OTHER -> old
        ok == wr.rkey = p
    IN /\ Eligible(sq[n][p], k)
       /\ sq' = [sq EXCEPT ![n][p][k] = [@ EXCEPT !.done = TRUE, !.ok = ok, !.resp = old]]
       /\ mem' = IF ok THEN [mem EXCEPT ![p][wr.raddr] = new] ELSE mem
       /\ during' = IF ok /\ wr.raddr = "data" /\ wr.op = "WRITE"
                      THEN [m \in Node |-> IF pc[m] = "poll" THEN during[m] \cup {new}
                                                             ELSE during[m]]
                      ELSE during
       /\ UNCHANGED <<initVars, pc, call, batch, hand, held, free, cq>>

\* The answer arrives at n, and with it the completion if one was asked for.
QpRespond(n, p) ==
  LET wr == Head(sq[n][p])
  IN /\ sq[n][p] # <<>> /\ wr.done
     /\ sq' = [sq EXCEPT ![n][p] = Tail(@)]
     /\ mem' = IF wr.ok /\ wr.op # "WRITE"
                 THEN [mem EXCEPT ![n][wr.laddr] = wr.resp] ELSE mem
     /\ cq' = IF wr.signaled \/ ~wr.ok
                THEN [cq EXCEPT ![n][p] = Append(@, wr.ok)] ELSE cq
     /\ UNCHANGED <<initVars, callVars>>

-----------------------------------------------------------------------------
(* Calls.  Each posts its requests and then polls for one completion.       *)

Idle(n) == ipc[n] = "ready" /\ pc[n] = "idle"
May(n, kind) == Idle(n) /\ kind \in uses[n]

\* For a write, swap is the value that was asked for (history, see
\* PayloadsIntact).
WorkRequest(n, op, raddr, laddr, cmp, swap, fence, signaled) ==
  [op |-> op, raddr |-> raddr, laddr |-> laddr, cmp |-> cmp, swap |-> swap,
   fence |-> fence, signaled |-> signaled, rkey |-> conn_info[n][Home],
   done |-> FALSE, ok |-> FALSE, resp |-> Zero]

Post(n, wrs) == sq' = [sq EXCEPT ![n][Home] = @ \o wrs]

Calls(n, c) ==
  /\ call' = [call EXCEPT ![n] = c]
  /\ pc' = [pc EXCEPT ![n] = "poll"]

\* A call's local memory: newly allocated, which is zeroed when it is reused, or
\* given by the caller, who holds it.
Allocates(n, b) ==
  /\ free[n] # {} /\ b = CHOOSE x \in free[n] : TRUE
  /\ free' = [free EXCEPT ![n] = @ \ {b}]
Prealloc(n, b) == b \in held[n] /\ UNCHANGED free

Stored(n, b, v) == mem' = [mem EXCEPT ![n][b] = v]

ReadStart(n, b, mortal) ==
  /\ May(n, "Read") /\ (mortal => "kill" \in uses[n])
  /\ \/ Allocates(n, b) /\ Stored(n, b, Zero)
     \/ Prealloc(n, b) /\ UNCHANGED mem
  /\ held' = [held EXCEPT ![n] = @ \cup {b}]
  /\ Post(n, <<WorkRequest(n, "READ", "data", b, Zero, Zero, TRUE, TRUE)>>)
  /\ Calls(n, [NoCall EXCEPT !.kind = "Read", !.local = b, !.mortal = mortal])
  /\ during' = [during EXCEPT ![n] = {mem[Home]["data"]}]
  /\ UNCHANGED <<initVars, batch, hand, cq>>

WriteStart(n, b, v) ==
  /\ May(n, "Write")
  /\ Allocates(n, b) \/ Prealloc(n, b)
  /\ Stored(n, b, v)
  /\ Post(n, <<WorkRequest(n, "WRITE", "data", b, Zero, v, TRUE, TRUE)>>)
  /\ Calls(n, [NoCall EXCEPT !.kind = "Write", !.local = b, !.val = v,
                             !.own = b \in free[n]])
  /\ during' = [during EXCEPT ![n] = {}]
  /\ UNCHANGED <<initVars, batch, hand, held, cq>>

CompareRequest(n, cmp, swap) ==
  WorkRequest(n, "CAS", "swapped", "prev", cmp, swap, TRUE, TRUE)

AtomicSwapStart(n, hint) ==
  /\ May(n, "AtomicSwap")
  /\ Post(n, <<CompareRequest(n, hint, hand[n])>>)
  /\ Calls(n, [NoCall EXCEPT !.kind = "AtomicSwap", !.cmp = hint, !.val = hand[n]])
  /\ UNCHANGED <<initVars, batch, hand, held, free, during, mem, cq>>

CompareAndSwapStart(n, expected) ==
  /\ May(n, "CompareAndSwap")
  /\ Post(n, <<CompareRequest(n, expected, hand[n])>>)
  /\ Calls(n, [NoCall EXCEPT !.kind = "CompareAndSwap", !.cmp = expected,
                             !.val = hand[n]])
  /\ UNCHANGED <<initVars, batch, hand, held, free, during, mem, cq>>

-----------------------------------------------------------------------------
(* DoorbellBatchBuilder and Execute                                        *)

\* Mutant of Added: every request of the batch asks for a completion.
AddedSignaled(n, wr) ==
  /\ Idle(n) /\ Len(batch[n]) < NumOps
  /\ batch' = [batch EXCEPT ![n] = Append(@, [wr EXCEPT !.signaled = TRUE])]

\* The last request of a batch is the one that is signaled.
Added(n, wr) ==
  /\ Idle(n) /\ Len(batch[n]) < NumOps
  /\ batch' = [batch EXCEPT ![n] =
                 Append(@, [wr EXCEPT !.signaled = Len(batch[n]) + 1 = NumOps])]

\* Without a fence, which only rules behaviours out.
AddRead(n, b) ==
  /\ May(n, "AddRead")
  /\ Added(n, WorkRequest(n, "READ", "data", b, Zero, Zero, FALSE, FALSE))
  /\ Allocates(n, b) /\ Stored(n, b, Zero)
  /\ held' = [held EXCEPT ![n] = @ \cup {b}]
  /\ UNCHANGED <<initVars, pc, call, hand, during, sq, cq>>

InBatch(n, b) == \E k \in 1 .. Len(batch[n]) : batch[n][k].laddr = b

\* By value, when nobody frees the copy, or from memory the caller has filled,
\* which here is no other request's.
AddWrite(n, b, v) ==
  /\ May(n, "AddWrite") /\ ~InBatch(n, b)
  /\ Added(n, WorkRequest(n, "WRITE", "data", b, Zero, v, FALSE, FALSE))
  /\ Allocates(n, b) \/ Prealloc(n, b)
  /\ Stored(n, b, v)
  /\ UNCHANGED <<initVars, pc, call, hand, held, during, sq, cq>>

\* Build insists on a full batch, which may be executed again.
Full(n) == Len(batch[n]) = NumOps

ExecuteStart(n, mortal) ==
  /\ Idle(n) /\ Full(n) /\ (mortal => "kill" \in uses[n])
  /\ Post(n, [k \in 1 .. NumOps |->
               [batch[n][k] EXCEPT !.swap = mem[n][batch[n][k].laddr]]])
  /\ Calls(n, [NoCall EXCEPT !.kind = "Execute", !.mortal = mortal])
  /\ during' = [during EXCEPT ![n] = {mem[Home]["data"]}]
  /\ UNCHANGED <<initVars, batch, hand, held, free, mem, cq>>

DestroyBatch(n) ==
  /\ Idle(n) /\ batch[n] # <<>>
  /\ batch' = [batch EXCEPT ![n] = <<>>]
  /\ UNCHANGED <<initVars, pc, call, hand, held, free, during, wireVars>>

\* The application frees what no batch refers to.
Deallocate(n, b) ==
  /\ Idle(n) /\ b \in held[n]
  /\ ~InBatch(n, b)
  /\ held' = [held EXCEPT ![n] = @ \ {b}]
  /\ free' = [free EXCEPT ![n] = @ \cup {b}]
  /\ UNCHANGED <<initVars, pc, call, batch, hand, during, wireVars>>

-----------------------------------------------------------------------------
(* Completions.  Whichever comes first in the queue is taken for the call's. *)

Polling(n, kind) == pc[n] = "poll" /\ call[n].kind = kind

\* A successful completion is polled; any other fails an assertion.
Completion(n) ==
  /\ cq[n][Home] # <<>> /\ Head(cq[n][Home])
  /\ cq' = [cq EXCEPT ![n][Home] = Tail(@)]

Returns(n) ==
  /\ pc' = [pc EXCEPT ![n] = "idle"]
  /\ call' = [call EXCEPT ![n] = NoCall]
  /\ during' = [during EXCEPT ![n] = {}]

ReadReturn(n) ==
  /\ Polling(n, "Read") /\ Completion(n) /\ Returns(n)
  /\ UNCHANGED <<initVars, batch, hand, held, free, mem, sq>>

\* Mutant of WriteReturn: it does not wait for the completion of the write.
ReturnsPosted(n) ==
  /\ Polling(n, "Write") /\ Returns(n)
  /\ free' = IF call[n].own THEN [free EXCEPT ![n] = @ \cup {call[n].local}] ELSE free
  /\ UNCHANGED <<initVars, batch, hand, held, mem, sq, cq>>

WriteReturn(n) ==
  /\ Polling(n, "Write") /\ Completion(n) /\ Returns(n)
  /\ free' = IF call[n].own THEN [free EXCEPT ![n] = @ \cup {call[n].local}] ELSE free
  /\ UNCHANGED <<initVars, batch, hand, held, mem, sq>>

\* Mutant of Swapped: the swap has happened if the word now is what was wanted.
ComparesSwap(n) == mem[n]["prev"] = call[n].val

\* *prev_ is what the word was: the swap has happened if that was expected.
Swapped(n) == mem[n]["prev"] = call[n].cmp

AtomicSwapReturn(n) ==
  /\ Polling(n, "AtomicSwap") /\ Swapped(n) /\ Completion(n) /\ Returns(n)
  /\ hand' = [hand EXCEPT ![n] = mem[n]["prev"]]
  /\ UNCHANGED <<initVars, batch, held, free, mem, sq>>

\* Mutant of AtomicSwapRetry: the same comparison is made again.
RetriesHint(n) ==
  /\ Polling(n, "AtomicSwap") /\ ~Swapped(n) /\ Completion(n)
  /\ Post(n, <<CompareRequest(n, call[n].cmp, call[n].val)>>)
  /\ UNCHANGED <<initVars, callVars, mem>>

\* Otherwise it is tried again with what the word was.
AtomicSwapRetry(n) ==
  /\ Polling(n, "AtomicSwap") /\ ~Swapped(n) /\ Completion(n)
  /\ call' = [call EXCEPT ![n].cmp = mem[n]["prev"]]
  /\ Post(n, <<CompareRequest(n, mem[n]["prev"], call[n].val)>>)
  /\ UNCHANGED <<initVars, pc, batch, hand, held, free, during, mem>>

\* The caller compares the result with what it expected.
CompareAndSwapReturn(n) ==
  /\ Polling(n, "CompareAndSwap") /\ Completion(n) /\ Returns(n)
  /\ hand' = IF Swapped(n) THEN [hand EXCEPT ![n] = call[n].cmp] ELSE hand
  /\ UNCHANGED <<initVars, batch, held, free, mem, sq>>

ExecuteReturn(n) ==
  /\ Polling(n, "Execute") /\ Completion(n) /\ Returns(n)
  /\ UNCHANGED <<initVars, batch, hand, held, free, mem, sq>>

\* A read whose kill switch is set ends before it polls again, a batch that has
\* one when a poll finds nothing.  The call returns, its requests stay under way,
\* and the next call takes their completion for its own.
Abandon(n) ==
  /\ pc[n] = "poll" /\ call[n].mortal
  /\ abandoned[n] < MaxAbandoned
  /\ call[n].kind = "Execute" => cq[n][Home] = <<>>
  /\ Returns(n)
  /\ abandoned' = [abandoned EXCEPT ![n] = @ + 1]
  /\ UNCHANGED <<uses, ipc, at, conn, chan, conn_info, batch, hand, held, free, wireVars>>

-----------------------------------------------------------------------------

InitStep(n) == InitStart(n) \/ InitConnect(n) \/ InitSend(n) \/ InitDeliver(n)
Hardware(n, p) == QpExecute(n, p) \/ QpRespond(n, p)
CallStep(n) ==
  \/ ReadReturn(n) \/ WriteReturn(n) \/ AtomicSwapReturn(n) \/ AtomicSwapRetry(n)
  \/ CompareAndSwapReturn(n) \/ ExecuteReturn(n)

Next ==
  \/ \E n \in Node :
       \/ InitStep(n) \/ InitFails(n)
       \/ CallStep(n) \/ Abandon(n)
       \/ \E t \in Token : CompareAndSwapStart(n, t)
       \/ \E t \in Hint : AtomicSwapStart(n, t)
       \/ \E b \in Buffer :
            \/ AddRead(n, b) \/ Deallocate(n, b)
            \/ \E v \in Datum : WriteStart(n, b, v) \/ AddWrite(n, b, v)
            \/ \E mortal \in BOOLEAN : ReadStart(n, b, mortal)
       \/ \E mortal \in BOOLEAN : ExecuteStart(n, mortal)
       \/ DestroyBatch(n)
  \/ \E n, p \in Node : Hardware(n, p)

Spec == Init /\ [][Next]_vars

\* Init's loops are repeated until the peers answer, requests are executed and
\* answered, and callers keep polling.
FairSpec ==
  /\ Spec
  /\ \A n \in Node :
       /\ WF_vars(InitStep(n)) /\ WF_vars(CallStep(n))
       /\ WF_vars(\E p \in Node : Hardware(n, p))

-----------------------------------------------------------------------------

\* No call of the pool has been abandoned.
Patient(n) == abandoned[n] = 0

\* AtomicSwap and CompareAndSwap trade: whatever the interleaving of the pools'
\* compare-and-swap requests, of retries with other pools' swaps in between and of
\* equal values coming back (ABA), no token is in two pools that are between calls,
\* or in a pool and in the word, as long as no pool abandons a call.
TokensAreExchanged ==
  (\A n \in Node : Patient(n)) =>
    \A n \in Node : pc[n] # "poll" =>
      /\ hand[n] # mem[Home]["swapped"]
      /\ \A m \in Node \ {n} : pc[m] # "poll" => hand[m] # hand[n]

\* When Read or Execute returns, what lies in the local memory is what the word
\* held at some time since the call began, and what Write was given has been in
\* the word: in a pool none of whose calls was abandoned, no call returns on the
\* completion of another one, whatever other pools have abandoned.
TakesEffect(n) ==
  CASE call[n].kind = "Read" -> mem[n][call[n].local] \in during[n]
    [] call[n].kind = "Write" -> call[n].val \in during[n]
    [] call[n].kind = "Execute" ->
         \A k \in 1 .. NumOps : mem[n][batch[n][k].laddr] \in during[n]
    [] OTHER -> TRUE
OperationsTakeEffect ==
  [][\A n \in Node :
       pc[n] = "poll" /\ pc'[n] = "idle" /\ Patient(n)' => TakesEffect(n)]_vars

\* Memory that the hardware has yet to read or to fill is not given back to the
\* allocator, also by Write, which frees its buffer itself, and the payload of a
\* write is what was asked for until it is fetched, in a pool none of whose calls
\* was abandoned.
PayloadsIntact ==
  \A n, p \in Node : Patient(n) =>
    \A k \in 1 .. Len(sq[n][p]) :
      LET wr == sq[n][p][k]
      IN /\ wr.laddr \notin free[n]
         /\ wr.op = "WRITE" /\ ~wr.done => mem[n][wr.laddr] = wr.swap

\* Completions that are in the queue or still to come.
Signaled(q) == {k \in 1 .. Len(q) : q[k].signaled}
Outstanding(n) == Len(cq[n][Home]) + Cardinality(Signaled(sq[n][Home]))

\* The assertions on completions never fire: by the time a pool may be called, it
\* has every peer's own key, in whatever order the nodes start and their messages
\* arrive.  Each abandoned call leaves one completion for the next call to find,
\* and nothing ever takes it away: the pool is that many completions behind for the
\* rest of its life.  Every other call leaves neither completions nor requests.
CompletionsMatch ==
  \A n \in Node :
    /\ \A p \in Node : \A k \in 1 .. Len(cq[n][p]) : cq[n][p][k]
    /\ Idle(n) => /\ Outstanding(n) = abandoned[n]
                  /\ Patient(n) => sq[n][Home] = <<>>

\* Init returns at every node, in whatever order they start, unless it fails at
\* one of them, whose key the others then wait for.
InitReturns ==
  <>((\A n \in Node : ipc[n] = "ready") \/ (\E n \in Node : ipc[n] \in {"failed", "down"}))

\* Calls return.  AtomicSwap may be overtaken again and again, but then others
\* make progress: never are the same pools in the loop for ever and nobody else.
OperationsReturn ==
  /\ \A n \in Node :
       pc[n] = "poll" /\ call[n].kind # "AtomicSwap" ~> pc[n] # "poll"
  /\ \A S \in (SUBSET Node) \ {{}} : []<>({n \in Node : pc[n] = "poll"} # S)
=============================================================================
