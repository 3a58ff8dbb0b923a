------------------------- MODULE ConnectionManager -------------------------
(***************************************************************************)
(* rome::rdma::ConnectionManager together with the RdmaBroker thread that  *)
(* calls it back and the part of librdmacm both of them rely on.           *)
(*                                                                         *)
(* Every node runs application threads that call Connect, GetConnection,   *)
(* GetNumConnections, Shutdown and the destructor, and one broker thread   *)
(* that polls the listen channel and calls OnConnectRequest, OnEstablished *)
(* and OnDisconnect.  All of them share the table established_ and the     *)
(* lock word mu_.  mu_ holds kUnlocked, the node's own id (an application  *)
(* thread has it) or the id of a peer (the broker has it for that peer).   *)
(*                                                                         *)
(* An rdma_cm_id pair is one element of Id: the endpoint that called       *)
(* rdma_connect on from[i] and the endpoint the listener created for it on *)
(* to[i].  phase[i] is what the two kernels know of the connection.        *)
(***************************************************************************)
EXTENDS Integers, Sequences, FiniteSets

CONSTANTS
  Node,        \* node ids
  Thread,      \* application threads
  NodeOf,      \* [Thread -> Node]: the node whose manager a thread calls
  Targets,     \* [Thread -> SUBSET Node]: the nodes a thread's calls name
  Id,          \* connection ids (bounds how many are alive at one time)
  kUnlocked,   \* value of mu_ when nobody has the lock
  NoId,        \* no entry in established_
  Calls        \* calls the application makes and faults that may happen

AllCalls == {"Connect", "GetConnection", "GetNumConnections", "Shutdown",
             "Destroy", "LocalFailure", "CmTimeout"}

ASSUME ConstantsAssumption ==
  /\ Node # {}
  /\ NodeOf \in [Thread -> Node]
  /\ Targets \in [Thread -> SUBSET Node]
  /\ kUnlocked \notin Node
  /\ NoId \notin Id
  /\ Calls \subseteq AllCalls

\* What from[i] and to[i] say of an id that is not in use.
AnyNode == CHOOSE n \in Node : TRUE

VARIABLES
  mu,          \* ConnectionManager::mu_
  accepting,   \* ConnectionManager::accepting_
  established, \* ConnectionManager::established_ (requested_ is never filled)
  dpc,         \* progress of the destructor: alive, acquired, joining,
               \* closing, dead
  pc,          \* where an application thread is
  arg,         \* peer_id of the call in progress
  tid,         \* the rdma_cm_id the call in progress created
  it,          \* what the iterator `conn` refers to
  bpc,         \* where the broker thread is
  bid,         \* the id of the event the broker handles
  terminate,   \* RdmaBroker::terminate_
  listenOpen,  \* listen_channel_ and its listener exist
  numConn,     \* RdmaBroker::num_connections_
  unacked,     \* nodes whose listener has an event that was never acked
  phase, from, to,  \* librdmacm: the state and ends of a connection
  connq,       \* librdmacm: events on the private channel of a connecting id
  listenq      \* librdmacm: events on a broker's listen channel

managerVars == <<mu, accepting, established, dpc>>
threadVars == <<pc, arg, tid, it>>
brokerVars == <<bpc, bid, terminate, listenOpen, numConn, unacked>>
cmVars == <<phase, from, to, connq, listenq>>
vars == <<managerVars, threadVars, brokerVars, cmVars>>

Phases == {"free", "loopback", "request", "pending", "replied", "rejected",
           "refused", "connected", "dreqActive", "dreqPassive", "timedout",
           "orphan", "closed"}
CmEvents == {"CONNECT_REQUEST", "ESTABLISHED", "REJECTED", "UNREACHABLE",
             "DISCONNECTED"}
ThreadPcs == {"idle", "connect", "lookup", "open", "loopback", "wait",
              "insert", "waitDisconnect", "deref", "backoff", "get",
              "getLookup", "numRead", "abort"}
BrokerPcs == {"poll", "request", "reqAcquire", "reqFind", "reqAccept",
              "disconnect", "discErase", "discRelease", "exited", "abort"}

ManagerTypes ==
  /\ mu \in [Node -> Node \cup {kUnlocked}]
  /\ accepting \in [Node -> BOOLEAN]
  /\ established \in [Node -> [Node -> Id \cup {NoId}]]
  /\ dpc \in [Node -> {"alive", "acquired", "joining", "closing", "dead"}]
ThreadTypes ==
  /\ pc \in [Thread -> ThreadPcs]
  /\ arg \in [Thread -> Node]
  /\ tid \in [Thread -> Id \cup {NoId}]
  /\ it \in [Thread -> Id \cup {NoId}]
BrokerTypes ==
  /\ bpc \in [Node -> BrokerPcs]
  /\ bid \in [Node -> Id \cup {NoId}]
  /\ terminate \in [Node -> BOOLEAN]
  /\ listenOpen \in [Node -> BOOLEAN]
  /\ numConn \in [Node -> Int]
  /\ unacked \subseteq Node
CmTypes ==
  /\ phase \in [Id -> Phases]
  /\ from \in [Id -> Node]
  /\ to \in [Id -> Node]
  /\ connq \in [Id -> Seq(CmEvents)]
  /\ listenq \in [Node -> Seq(CmEvents \X Id)]

\* One invariant for the types: mu_ is a node id or kUnlocked, a table entry
\* is an id or empty, every channel carries connection-manager events only.
TypeOK == ManagerTypes /\ ThreadTypes /\ BrokerTypes /\ CmTypes

\* Every manager has been constructed and started.
Init ==
  /\ mu = [n \in Node |-> kUnlocked]
  /\ accepting = [n \in Node |-> TRUE]
  /\ established = [n \in Node |-> [p \in Node |-> NoId]]
  /\ dpc = [n \in Node |-> "alive"]
  /\ pc = [t \in Thread |-> "idle"]
  /\ arg = [t \in Thread |-> NodeOf[t]]
  /\ tid = [t \in Thread |-> NoId]
  /\ it = [t \in Thread |-> NoId]
  /\ bpc = [n \in Node |-> "poll"]
  /\ bid = [n \in Node |-> NoId]
  /\ terminate = [n \in Node |-> FALSE]
  /\ listenOpen = [n \in Node |-> TRUE]
  /\ numConn = [n \in Node |-> 0]
  /\ unacked = {}
  /\ phase = [i \in Id |-> "free"]
  /\ from = [i \in Id |-> AnyNode]
  /\ to = [i \in Id |-> AnyNode]
  /\ connq = [i \in Id |-> <<>>]
  /\ listenq = [n \in Node |-> <<>>]

-----------------------------------------------------------------------------
(* The lock.                                                               *)

\* Acquire(holder) succeeds: the compare-exchange finds kUnlocked.
Acquired(n, holder) == /\ mu[n] = kUnlocked
                       /\ mu' = [mu EXCEPT ![n] = holder]

\* Mutant of GaveUp: Acquire spins for every holder.
SpinsForever(n) == FALSE /\ UNCHANGED mu

\* Acquire(holder) returns false: the word holds this node's own id.
GaveUp(n) == mu[n] = n /\ UNCHANGED mu

\* Release() stores kUnlocked, whoever holds the lock.
Release(n) == mu' = [mu EXCEPT ![n] = kUnlocked]

\* ROME_FATAL and ROME_ASSERT end the process and all its threads.
Running(n) == /\ bpc[n] # "abort"
              /\ \A t \in Thread : NodeOf[t] = n => pc[t] # "abort"

\* Thread t, or the broker of n, is at the label and its process runs.
At(t, label) == pc[t] = label /\ Running(NodeOf[t])
BrokerAt(n, label) == bpc[n] = label /\ Running(n)

-----------------------------------------------------------------------------
(* librdmacm, as this code uses it.                                        *)

\* rdma_reject and rdma_accept on the listener's side of id i.
Reject(i) == phase' = [phase EXCEPT ![i] =
                         IF @ = "pending" THEN "rejected" ELSE "closed"]
Accept(i) == phase' = [phase EXCEPT ![i] =
                         IF @ = "pending" THEN "replied" ELSE "orphan"]

\* Node n disconnects and destroys every id of S.  One that is not confirmed
\* yet is turned down instead.
Disconnected(n, S) ==
  [i \in Id |->
     IF i \in S /\ phase[i] = "connected"
       THEN IF from[i] = n THEN "dreqActive" ELSE "dreqPassive"
     ELSE IF i \in S /\ phase[i] = "replied"
       THEN IF from[i] = n THEN "orphan" ELSE "rejected"
     ELSE phase[i]]

\* The listener of n goes away: the kernel rejects what it has not answered.
ListenerClosed(n, ph) ==
  [i \in Id |-> IF ph[i] = "pending" /\ to[i] = n THEN "rejected" ELSE ph[i]]

\* The connect request reaches the peer, or nobody listens there.
DeliverRequest(i) ==
  /\ phase[i] = "request"
  /\ \/ /\ listenOpen[to[i]]
        /\ phase' = [phase EXCEPT ![i] = "pending"]
        /\ listenq' = [listenq EXCEPT
             ![to[i]] = Append(@, <<"CONNECT_REQUEST", i>>)]
     \/ /\ ~listenOpen[to[i]]
        /\ phase' = [phase EXCEPT ![i] = "rejected"]
        /\ UNCHANGED listenq
  /\ UNCHANGED <<managerVars, threadVars, brokerVars, from, to, connq>>

\* The reply reaches the connecting node, which confirms it to the listener.
DeliverReply(i) ==
  /\ phase[i] = "replied"
  /\ phase' = [phase EXCEPT ![i] = "connected"]
  /\ connq' = [connq EXCEPT ![i] = Append(@, "ESTABLISHED")]
  /\ listenq' = [listenq EXCEPT ![to[i]] = Append(@, <<"ESTABLISHED", i>>)]
  /\ UNCHANGED <<managerVars, threadVars, brokerVars, from, to>>

DeliverReject(i) ==
  /\ phase[i] = "rejected"
  /\ phase' = [phase EXCEPT ![i] = "refused"]
  /\ connq' = [connq EXCEPT ![i] = Append(@, "REJECTED")]
  /\ UNCHANGED <<managerVars, threadVars, brokerVars, from, to, listenq>>

\* Both ends learn of a disconnect; the listener's end through its broker.
DeliverDisconnect(i) ==
  /\ phase[i] \in {"dreqActive", "dreqPassive"}
  /\ phase' = [phase EXCEPT ![i] = "closed"]
  /\ connq' = [connq EXCEPT ![i] = Append(@, "DISCONNECTED")]
  /\ IF phase[i] = "dreqActive" /\ listenOpen[to[i]]
       THEN listenq' = [listenq EXCEPT
                          ![to[i]] = Append(@, <<"DISCONNECTED", i>>)]
       ELSE UNCHANGED listenq
  /\ UNCHANGED <<managerVars, threadVars, brokerVars, from, to>>

\* A request that is not answered in time ends with UNREACHABLE.
CmTimeout(i) ==
  /\ "CmTimeout" \in Calls
  /\ phase[i] \in {"request", "pending"}
  /\ phase' = [phase EXCEPT ![i] = "timedout"]
  /\ connq' = [connq EXCEPT ![i] = Append(@, "UNREACHABLE")]
  /\ UNCHANGED <<managerVars, threadVars, brokerVars, from, to, listenq>>

\* A reply to a request that has timed out is never confirmed: it is the
\* listener's end that ends with UNREACHABLE.
ReplyTimeout(i) ==
  /\ phase[i] = "orphan"
  /\ phase' = [phase EXCEPT ![i] = "closed"]
  /\ IF listenOpen[to[i]]
       THEN listenq' = [listenq EXCEPT
                          ![to[i]] = Append(@, <<"UNREACHABLE", i>>)]
       ELSE UNCHANGED listenq
  /\ UNCHANGED <<managerVars, threadVars, brokerVars, from, to, connq>>

\* The process of n has aborted: the kernel closes what it had open.
ProcessCleanup(n) ==
  /\ ~Running(n) /\ listenOpen[n]
  /\ phase' = ListenerClosed(n, Disconnected(n, {i \in Id : n \in {from[i], to[i]}}))
  /\ listenOpen' = [listenOpen EXCEPT ![n] = FALSE]
  /\ listenq' = [listenq EXCEPT ![n] = <<>>]
  /\ UNCHANGED <<managerVars, threadVars, bpc, bid, terminate, numConn, unacked,
                 from, to, connq>>

Cm(i) == \/ DeliverRequest(i) \/ DeliverReply(i) \/ DeliverReject(i)
         \/ DeliverDisconnect(i) \/ CmTimeout(i) \/ ReplyTimeout(i)

-----------------------------------------------------------------------------
(* Connect, on thread t of node n == NodeOf[t].                            *)

Goto(t, label) == pc' = [pc EXCEPT ![t] = label]

\* A call returns: its locals are gone.
Return(t) == /\ pc' = [pc EXCEPT ![t] = "idle"]
             /\ arg' = [arg EXCEPT ![t] = NodeOf[t]]
             /\ tid' = [tid EXCEPT ![t] = NoId]
             /\ it' = [it EXCEPT ![t] = NoId]

\* Bound: a call that would need an id starts only if one is left for it and
\* for those before it; a call that finds an entry needs none, unless a peer
\* may remove the entry in between.
FreeIdsLeft(n, p) ==
  \/ established[n][p] # NoId /\ "Destroy" \notin Calls
  \/ Cardinality({u \in Thread : pc[u] \in {"connect", "lookup", "open"}}) <
     Cardinality({i \in Id : phase[i] = "free"})

Connect(t, p) ==
  /\ "Connect" \in Calls /\ FreeIdsLeft(NodeOf[t], p)
  /\ At(t, "idle") /\ dpc[NodeOf[t]] = "alive"
  /\ Goto(t, "connect")
  /\ arg' = [arg EXCEPT ![t] = p]
  /\ UNCHANGED <<managerVars, tid, it, brokerVars, cmVars>>

\* Acquire(my_id_), or Unavailable when this node has the lock already.
ConnectAcquire(t) ==
  /\ At(t, "connect")
  /\ \/ /\ Acquired(NodeOf[t], NodeOf[t])
        /\ Goto(t, "lookup")
        /\ UNCHANGED <<arg, tid, it>>
     \/ GaveUp(NodeOf[t]) /\ Return(t)
  /\ UNCHANGED <<accepting, established, dpc, brokerVars, cmVars>>

\* Mutant of ConnectLookup: a connection that exists is replaced by a new one.
LookupReconnects(t) ==
  LET n == NodeOf[t] IN
  /\ At(t, "lookup")
  /\ \/ /\ established[n][arg[t]] # NoId
        /\ \/ /\ Release(n)
              /\ it' = [it EXCEPT ![t] = established[n][arg[t]]]
              /\ Goto(t, "deref")
              /\ UNCHANGED established
           \/ /\ established' = [established EXCEPT ![n][arg[t]] = NoId]
              /\ Goto(t, "open")
              /\ UNCHANGED <<mu, it>>
     \/ /\ established[n][arg[t]] = NoId
        /\ Goto(t, "open")
        /\ UNCHANGED <<mu, it, established>>
  /\ UNCHANGED <<accepting, dpc, arg, tid, brokerVars, cmVars>>

\* A connection that exists is returned: the lock is released first and the
\* iterator is dereferenced afterwards (ConnectDeref).
ConnectLookup(t) ==
  LET n == NodeOf[t] IN
  /\ At(t, "lookup")
  /\ \/ /\ established[n][arg[t]] # NoId
        /\ Release(n)
        /\ it' = [it EXCEPT ![t] = established[n][arg[t]]]
        /\ Goto(t, "deref")
     \/ /\ established[n][arg[t]] = NoId
        /\ Goto(t, "open")
        /\ UNCHANGED <<mu, it>>
  /\ UNCHANGED <<accepting, established, dpc, arg, tid, brokerVars, cmVars>>

\* Resolve the address, create the endpoint and its channel, rdma_connect.
ConnectOpen(t) ==
  /\ At(t, "open") /\ arg[t] # NodeOf[t]
  /\ \E i \in Id :
       /\ phase[i] = "free"
       /\ phase' = [phase EXCEPT ![i] = "request"]
       /\ from' = [from EXCEPT ![i] = NodeOf[t]]
       /\ to' = [to EXCEPT ![i] = arg[t]]
       /\ tid' = [tid EXCEPT ![t] = i]
  /\ Goto(t, "wait")
  /\ UNCHANGED <<managerVars, arg, it, brokerVars, connq, listenq>>

\* rdma_create_ep for a connection to this node itself.
ConnectOpenLoopback(t) ==
  /\ At(t, "open") /\ arg[t] = NodeOf[t]
  /\ \E i \in Id :
       /\ phase[i] = "free"
       /\ phase' = [phase EXCEPT ![i] = "loopback"]
       /\ from' = [from EXCEPT ![i] = NodeOf[t]]
       /\ to' = [to EXCEPT ![i] = NodeOf[t]]
       /\ tid' = [tid EXCEPT ![t] = i]
  /\ Goto(t, "loopback")
  /\ UNCHANGED <<managerVars, arg, it, brokerVars, connq, listenq>>

\* rdma_create_ep fails: the lock is released.
ConnectCreateEpFails(t) ==
  /\ "LocalFailure" \in Calls
  /\ At(t, "open")
  /\ Release(NodeOf[t])
  /\ Return(t)
  /\ UNCHANGED <<accepting, established, dpc, brokerVars, cmVars>>

\* rdma_getaddrinfo or a call under RDMA_CM_CHECK fails: the error is
\* returned from where it is, with the lock.
ConnectCheckFails(t) ==
  /\ "LocalFailure" \in Calls
  /\ At(t, "open") \/ At(t, "loopback") \/ At(t, "insert")
  /\ Return(t)
  /\ UNCHANGED <<managerVars, brokerVars, cmVars>>

\* ConnectLoopback once its queue pair is ready to send.
ConnectLoopback(t) ==
  LET n == NodeOf[t] IN
  /\ At(t, "loopback")
  /\ IF established[n][n] = NoId
       THEN /\ established' = [established EXCEPT ![n][n] = tid[t]]
            /\ Release(n)
            /\ Return(t)
       ELSE /\ Goto(t, "abort")
            /\ UNCHANGED <<mu, established, arg, tid, it>>
  /\ UNCHANGED <<accepting, dpc, brokerVars, cmVars>>

\* ESTABLISHED, and somebody else has connected to the peer in between: give
\* this connection up.
ConnectDuplicate(t) ==
  LET n == NodeOf[t] IN
  /\ At(t, "wait")
  /\ connq[tid[t]] # <<>> /\ Head(connq[tid[t]]) = "ESTABLISHED"
  /\ established[n][arg[t]] # NoId
  /\ it' = [it EXCEPT ![t] = established[n][arg[t]]]
  /\ Release(n)
  /\ phase' = Disconnected(n, {tid[t]})
  /\ connq' = [connq EXCEPT ![tid[t]] = Tail(@)]
  /\ Goto(t, "waitDisconnect")
  /\ UNCHANGED <<accepting, established, dpc, arg, tid, brokerVars, from, to,
                 listenq>>

\* ESTABLISHED, and no connection to the peer is in the table.
ConnectEstablished(t) ==
  /\ At(t, "wait")
  /\ connq[tid[t]] # <<>> /\ Head(connq[tid[t]]) = "ESTABLISHED"
  /\ established[NodeOf[t]][arg[t]] = NoId
  /\ connq' = [connq EXCEPT ![tid[t]] = Tail(@)]
  /\ Goto(t, "insert")
  /\ UNCHANGED <<managerVars, arg, tid, it, brokerVars, phase, from, to,
                 listenq>>

\* Mutant of ConnectInsert: the connection is entered under this node's id.
InsertUnderMyId(t) ==
  LET n == NodeOf[t] IN
  /\ At(t, "insert")
  /\ established' = [established EXCEPT ![n][n] = tid[t]]
  /\ Release(n)
  /\ Return(t)
  /\ UNCHANGED <<accepting, dpc, brokerVars, cmVars>>

\* Create the channel and insert it; ROME_ASSERT(iter.second) aborts when the
\* table has got an entry since the lookup.
ConnectInsert(t) ==
  LET n == NodeOf[t] IN
  /\ At(t, "insert")
  /\ IF established[n][arg[t]] = NoId
       THEN /\ established' = [established EXCEPT ![n][arg[t]] = tid[t]]
            /\ Release(n)
            /\ Return(t)
       ELSE /\ Goto(t, "abort")
            /\ UNCHANGED <<mu, established, arg, tid, it>>
  /\ UNCHANGED <<accepting, dpc, brokerVars, cmVars>>

\* Mutant of ConnectRefused: only REJECTED ends the attempt.
RefusedByPeerOnly(t) ==
  LET i == tid[t] IN
  /\ At(t, "wait")
  /\ connq[i] # <<>> /\ Head(connq[i]) = "REJECTED"
  /\ Release(NodeOf[t])
  /\ connq' = [connq EXCEPT ![i] = <<>>]
  /\ Return(t)
  /\ UNCHANGED <<accepting, established, dpc, brokerVars, phase, from, to, listenq>>

\* Any other event ends the attempt: release, destroy the endpoint and, when
\* the peer rejected it, sleep before returning Unavailable.
ConnectRefused(t) ==
  LET i == tid[t] IN
  /\ At(t, "wait")
  /\ connq[i] # <<>> /\ Head(connq[i]) # "ESTABLISHED"
  /\ Release(NodeOf[t])
  /\ connq' = [connq EXCEPT ![i] = <<>>]
  /\ IF phase[i] = "refused"
       THEN /\ phase' = [phase EXCEPT ![i] = "free"]
            /\ from' = [from EXCEPT ![i] = AnyNode]
            /\ to' = [to EXCEPT ![i] = AnyNode]
       ELSE UNCHANGED <<phase, from, to>>
  /\ IF Head(connq[i]) = "REJECTED"
       THEN /\ Goto(t, "backoff")
            /\ tid' = [tid EXCEPT ![t] = NoId]
            /\ UNCHANGED <<arg, it>>
       ELSE Return(t)
  /\ UNCHANGED <<accepting, established, dpc, brokerVars, listenq>>

ConnectBackoff(t) ==
  /\ At(t, "backoff")
  /\ Return(t)
  /\ UNCHANGED <<managerVars, brokerVars, cmVars>>

\* The event of the disconnect this thread started; then the endpoint and its
\* channel are destroyed.
ConnectWaitDisconnect(t) ==
  /\ At(t, "waitDisconnect")
  /\ connq[tid[t]] # <<>>
  /\ connq' = [connq EXCEPT ![tid[t]] = <<>>]
  /\ Goto(t, "deref")
  /\ UNCHANGED <<managerVars, arg, tid, it, brokerVars, phase, from, to,
                 listenq>>

\* return conn->second.get(), after the lock has been released.
ConnectDeref(t) ==
  /\ At(t, "deref")
  /\ Return(t)
  /\ UNCHANGED <<managerVars, brokerVars, cmVars>>

-----------------------------------------------------------------------------
(* The other calls of an application thread.                               *)

GetConnection(t, p) ==
  /\ "GetConnection" \in Calls
  /\ At(t, "idle") /\ dpc[NodeOf[t]] = "alive"
  /\ Goto(t, "get")
  /\ arg' = [arg EXCEPT ![t] = p]
  /\ UNCHANGED <<managerVars, tid, it, brokerVars, cmVars>>

\* while (!Acquire(my_id_)) yield: waits for a thread of its own node too.
GetAcquire(t) ==
  /\ At(t, "get")
  /\ Acquired(NodeOf[t], NodeOf[t])
  /\ Goto(t, "getLookup")
  /\ UNCHANGED <<accepting, established, dpc, arg, tid, it, brokerVars, cmVars>>

\* The pointer, or NotFound; nothing but the lock changes.
GetLookup(t) ==
  /\ At(t, "getLookup")
  /\ Release(NodeOf[t])
  /\ Return(t)
  /\ UNCHANGED <<accepting, established, dpc, brokerVars, cmVars>>

\* Acquire's result is ignored, here and in the destructor.
GetNumConnections(t) ==
  /\ "GetNumConnections" \in Calls
  /\ At(t, "idle") /\ dpc[NodeOf[t]] = "alive"
  /\ Acquired(NodeOf[t], NodeOf[t]) \/ GaveUp(NodeOf[t])
  /\ Goto(t, "numRead")
  /\ UNCHANGED <<accepting, established, dpc, arg, tid, it, brokerVars, cmVars>>

NumRead(t) ==
  /\ At(t, "numRead")
  /\ Release(NodeOf[t])
  /\ Return(t)
  /\ UNCHANGED <<accepting, established, dpc, brokerVars, cmVars>>

Shutdown(n) ==
  /\ "Shutdown" \in Calls
  /\ Running(n) /\ dpc[n] = "alive" /\ accepting[n]
  /\ accepting' = [accepting EXCEPT ![n] = FALSE]
  /\ UNCHANGED <<mu, established, dpc, threadVars, brokerVars, cmVars>>

-----------------------------------------------------------------------------
(* ~ConnectionManager of node n; no call on it is in progress.             *)

DtorAcquire(n) ==
  /\ "Destroy" \in Calls
  /\ Running(n) /\ dpc[n] = "alive"
  /\ \A t \in Thread : NodeOf[t] = n => pc[t] = "idle"
  /\ Acquired(n, n) \/ GaveUp(n)
  /\ dpc' = [dpc EXCEPT ![n] = "acquired"]
  /\ UNCHANGED <<accepting, established, threadVars, brokerVars, cmVars>>

\* Shutdown(), then the first half of RdmaBroker::Stop.
DtorStop(n) ==
  /\ Running(n) /\ dpc[n] = "acquired"
  /\ accepting' = [accepting EXCEPT ![n] = FALSE]
  /\ terminate' = [terminate EXCEPT ![n] = TRUE]
  /\ dpc' = [dpc EXCEPT ![n] = "joining"]
  /\ UNCHANGED <<mu, established, threadVars, bpc, bid, listenOpen, numConn,
                 unacked, cmVars>>

\* The broker thread is joined; every connection but the loopback one is
\* disconnected and its channel drained; the lock is released; the members
\* (the table, the broker and its listener) are being destroyed: the kernel
\* has closed the listener when rdma_destroy_ep(listen_id_) starts to wait.
DtorCleanup(n) ==
  LET mine == {established[n][p] : p \in Node \ {n}} IN
  /\ dpc[n] = "joining"
  /\ BrokerAt(n, "exited")
  /\ phase' = ListenerClosed(n, Disconnected(n, mine))
  /\ connq' = [i \in Id |-> IF i \in mine /\ from[i] = n THEN <<>> ELSE connq[i]]
  /\ listenq' = [listenq EXCEPT ![n] = <<>>]
  /\ established' = [established EXCEPT ![n] = [p \in Node |-> NoId]]
  /\ listenOpen' = [listenOpen EXCEPT ![n] = FALSE]
  /\ Release(n)
  /\ dpc' = [dpc EXCEPT ![n] = "closing"]
  /\ UNCHANGED <<accepting, threadVars, bpc, bid, terminate, numConn, unacked, from,
                 to>>

\* rdma_destroy_ep returns when every event reported on listen_id_ has been
\* acknowledged.  One that OnConnectRequest has dropped never is.
DtorDestroy(n) ==
  /\ Running(n) /\ dpc[n] = "closing"
  /\ n \notin unacked
  /\ dpc' = [dpc EXCEPT ![n] = "dead"]
  /\ UNCHANGED <<mu, accepting, established, threadVars, brokerVars, cmVars>>

-----------------------------------------------------------------------------
(* The broker thread: RdmaBroker::HandleConnectionRequests.                *)

BrokerGoto(n, label) == bpc' = [bpc EXCEPT ![n] = label]

\* The handler of an event returns to the polling loop.
BrokerReturn(n) == /\ bpc' = [bpc EXCEPT ![n] = "poll"]
                   /\ bid' = [bid EXCEPT ![n] = NoId]

\* terminate_ is set, or the channel it reads does not exist any more.
BrokerExit(n) ==
  /\ BrokerAt(n, "poll")
  /\ terminate[n] \/ ~listenOpen[n]
  /\ BrokerGoto(n, "exited")
  /\ UNCHANGED <<managerVars, threadVars, bid, terminate, listenOpen, numConn,
                 unacked, cmVars>>

\* Where the switch over the event type leads.
HandlerOf(event) == IF event = "CONNECT_REQUEST" THEN "request"
                    ELSE IF event = "DISCONNECTED" THEN "disconnect"
                    ELSE IF event = "ESTABLISHED" THEN "poll"
                    ELSE "abort"

BrokerEvent(n) ==
  /\ BrokerAt(n, "poll")
  /\ ~terminate[n] /\ listenOpen[n]
  /\ listenq[n] # <<>>
  /\ LET event == Head(listenq[n])[1]
         i == Head(listenq[n])[2]
         handler == HandlerOf(event)
     IN /\ BrokerGoto(n, handler)
        /\ bid' = [bid EXCEPT ![n] = IF handler = "poll" THEN NoId ELSE i]
        /\ numConn' = [numConn EXCEPT
             ![n] = IF event = "ESTABLISHED" THEN @ + 1 ELSE @]
  /\ listenq' = [listenq EXCEPT ![n] = Tail(@)]
  /\ UNCHANGED <<managerVars, threadVars, terminate, listenOpen, unacked, phase,
                 from, to, connq>>

\* OnConnectRequest.  While accepting_ is false the request is dropped: it is
\* neither answered nor acknowledged, and counts as an open event of listen_id_.
OnConnectRequest(n) ==
  /\ BrokerAt(n, "request")
  /\ \/ accepting[n] /\ BrokerGoto(n, "reqAcquire") /\ UNCHANGED <<bid, unacked>>
     \/ ~accepting[n] /\ BrokerReturn(n) /\ unacked' = unacked \cup {n}
  /\ UNCHANGED <<managerVars, threadVars, terminate, listenOpen, numConn, cmVars>>

\* Mutant of OnConnectAcquire: the result of Acquire is ignored.
RequestIgnoresLock(n) ==
  /\ BrokerAt(n, "reqAcquire")
  /\ Acquired(n, from[bid[n]]) \/ GaveUp(n)
  /\ BrokerGoto(n, "reqFind")
  /\ UNCHANGED <<accepting, established, dpc, threadVars, bid, terminate,
                 listenOpen, numConn, unacked, cmVars>>

\* Acquire(peer_id); a connect in progress on this node rejects the peer's.
OnConnectAcquire(n) ==
  /\ BrokerAt(n, "reqAcquire")
  /\ \/ /\ Acquired(n, from[bid[n]])
        /\ BrokerGoto(n, "reqFind")
        /\ UNCHANGED <<bid, phase>>
     \/ /\ GaveUp(n)
        /\ Reject(bid[n])
        /\ BrokerReturn(n)
  /\ UNCHANGED <<accepting, established, dpc, threadVars, terminate, listenOpen,
                 numConn, unacked, from, to, connq, listenq>>

OnConnectFind(n) ==
  /\ BrokerAt(n, "reqFind")
  /\ \/ /\ established[n][from[bid[n]]] # NoId
        /\ Reject(bid[n])
        /\ Release(n)
        /\ BrokerReturn(n)
     \/ /\ established[n][from[bid[n]]] = NoId
        /\ BrokerGoto(n, "reqAccept")
        /\ UNCHANGED <<mu, phase, bid>>
  /\ UNCHANGED <<accepting, established, dpc, threadVars, terminate, listenOpen,
                 numConn, unacked, from, to, connq, listenq>>

\* Mutant of OnConnectAccept: it accepts and leaves the table for later.
AcceptWithoutEntry(n) ==
  /\ BrokerAt(n, "reqAccept")
  /\ Accept(bid[n])
  /\ Release(n)
  /\ BrokerReturn(n)
  /\ UNCHANGED <<accepting, established, dpc, threadVars, terminate, listenOpen,
                 numConn, unacked, from, to, connq, listenq>>

\* Insert the connection, accept it, release.  ROME_ASSERT_DEBUG(iter.second).
OnConnectAccept(n) ==
  LET p == from[bid[n]] IN
  /\ BrokerAt(n, "reqAccept")
  /\ IF established[n][p] = NoId
       THEN /\ established' = [established EXCEPT ![n][p] = bid[n]]
            /\ Accept(bid[n])
            /\ Release(n)
            /\ BrokerReturn(n)
       ELSE /\ BrokerGoto(n, "abort")
            /\ UNCHANGED <<mu, established, phase, bid>>
  /\ UNCHANGED <<accepting, dpc, threadVars, terminate, listenOpen, numConn,
                 unacked, from, to, connq, listenq>>

\* OnDisconnect: Acquire(peer_id), its result ignored ...
OnDisconnectAcquire(n) ==
  /\ BrokerAt(n, "disconnect")
  /\ Acquired(n, from[bid[n]]) \/ GaveUp(n)
  /\ BrokerGoto(n, "discErase")
  /\ UNCHANGED <<accepting, established, dpc, threadVars, bid, terminate,
                 listenOpen, numConn, unacked, cmVars>>

\* ... erase the connection if this id is the one in the table ...
OnDisconnectErase(n) ==
  LET p == from[bid[n]] IN
  /\ BrokerAt(n, "discErase")
  /\ established' = [established EXCEPT
       ![n][p] = IF @ = bid[n] THEN NoId ELSE @]
  /\ BrokerGoto(n, "discRelease")
  /\ UNCHANGED <<mu, accepting, dpc, threadVars, bid, terminate, listenOpen,
                 numConn, unacked, cmVars>>

\* ... release, and destroy the endpoint and the channel the id is on, which
\* for an id the listener created is the broker's listen channel.
OnDisconnectDestroy(n) ==
  /\ BrokerAt(n, "discRelease")
  /\ Release(n)
  /\ listenOpen' = [listenOpen EXCEPT ![n] = FALSE]
  /\ listenq' = [listenq EXCEPT ![n] = <<>>]
  /\ phase' = ListenerClosed(n, phase)
  /\ numConn' = [numConn EXCEPT ![n] = @ - 1]
  /\ BrokerReturn(n)
  /\ UNCHANGED <<accepting, established, dpc, threadVars, terminate, unacked,
                 from, to, connq>>

-----------------------------------------------------------------------------

\* Steps a thread takes on its own once a call has started.
ThreadStep(t) ==
  \/ ConnectAcquire(t) \/ ConnectLookup(t) \/ ConnectOpen(t)
  \/ ConnectOpenLoopback(t) \/ ConnectLoopback(t) \/ ConnectDuplicate(t)
  \/ ConnectEstablished(t) \/ ConnectInsert(t) \/ ConnectRefused(t)
  \/ ConnectBackoff(t) \/ ConnectWaitDisconnect(t) \/ ConnectDeref(t)
  \/ GetAcquire(t) \/ GetLookup(t) \/ NumRead(t)

ThreadFault(t) == ConnectCreateEpFails(t) \/ ConnectCheckFails(t)

ThreadCall(t) ==
  \/ \E p \in Targets[t] : Connect(t, p) \/ GetConnection(t, p)
  \/ GetNumConnections(t)

BrokerStep(n) ==
  \/ BrokerExit(n) \/ BrokerEvent(n) \/ OnConnectRequest(n)
  \/ OnConnectAcquire(n) \/ OnConnectFind(n) \/ OnConnectAccept(n)
  \/ OnDisconnectAcquire(n) \/ OnDisconnectErase(n) \/ OnDisconnectDestroy(n)

DtorStep(n) == DtorStop(n) \/ DtorCleanup(n) \/ DtorDestroy(n)

NodeCall(n) == DtorAcquire(n) \/ Shutdown(n)

Next ==
  \/ \E t \in Thread : ThreadStep(t) \/ ThreadFault(t) \/ ThreadCall(t)
  \/ \E n \in Node :
       BrokerStep(n) \/ DtorStep(n) \/ NodeCall(n) \/ ProcessCleanup(n)
  \/ \E i \in Id : Cm(i)

Spec == Init /\ [][Next]_vars

\* Running threads are scheduled and messages in flight arrive.  No call has
\* to be made and no fault has to happen.
Fairness ==
  /\ \A t \in Thread : WF_vars(ThreadStep(t))
  /\ \A n \in Node : /\ WF_vars(BrokerStep(n))
                     /\ WF_vars(DtorStep(n))
                     /\ WF_vars(ProcessCleanup(n))
  /\ \A i \in Id : WF_vars(Cm(i))

FairSpec == Spec /\ Fairness

-----------------------------------------------------------------------------
(* What the lock is for.                                                   *)

\* Threads and brokers that read or write established_ under the lock.
InConnect(t) == pc[t] \in {"lookup", "open", "loopback", "wait", "insert"}
InThreadSection(t) == InConnect(t) \/ pc[t] \in {"getLookup", "numRead"}
InBrokerSection(n) == bpc[n] \in {"reqFind", "reqAccept", "discErase",
                                  "discRelease"}

\* mu_ protects established_: on a node no two application threads, and no
\* thread together with the broker, are between an Acquire and its Release
\* (connection_manager_impl.h, every section that reads or changes the table).
MutualExclusion ==
  /\ \A t, u \in Thread :
       t # u /\ NodeOf[t] = NodeOf[u] =>
         ~(InThreadSection(t) /\ InThreadSection(u))
  /\ \A t \in Thread : ~(InThreadSection(t) /\ InBrokerSection(NodeOf[t]))

\* The lock word names its holder: it is the node's own id exactly while one of
\* its threads (or its destructor) is inside, and a peer's id exactly while the
\* broker handles that peer.  A peer's request is turned away only for that.
LockWordNamesHolder ==
  \A n \in Node :
    /\ mu[n] = n <=> \/ \E t \in Thread : NodeOf[t] = n /\ InThreadSection(t)
                     \/ dpc[n] \in {"acquired", "joining"}
    /\ mu[n] \notin {n, kUnlocked} <=> InBrokerSection(n)

\* ROME_ASSERT(iter.second) never fires: whoever inserts a connection finds
\* the place in the table still empty, on both sides.
InsertionSucceeds ==
  /\ \A t \in Thread : pc[t] # "abort"
  /\ \A n \in Node : bpc[n] # "abort"

\* "A connection manager only maintains a single connection per node": when two
\* nodes have each other in their tables they have the same connection, also
\* when both of them called Connect at the same time.
PeersAgree ==
  \A n, p \in Node :
    established[n][p] # NoId /\ established[p][n] # NoId =>
      established[n][p] = established[p][n]

\* The connecting side never has a connection the listening side has not
\* entered in its table first (OnConnectRequest inserts before rdma_accept), and
\* the listening side keeps it as long as its manager exists.
ListenerKnowsFirst ==
  \A n, p \in Node :
    LET i == established[n][p] IN
      i # NoId /\ from[i] = n /\ n # p /\ dpc[p] \notin {"closing", "dead"} =>
        established[p][n] = i

\* An entry of the table is a connection with that very peer.  This does not
\* rest on the lock: it survives the calls that break it.
EntriesMatchPeer ==
  \A n, p \in Node :
    LET i == established[n][p]
    IN Running(n) /\ i # NoId => {from[i], to[i]} = {n, p}

\* Once in the table a connection stays in it: no step replaces or drops an
\* entry while no manager is destroyed.
EntriesAreStable ==
  [][\A n, p \in Node : established[n][p] # NoId =>
       established'[n][p] = established[n][p]]_vars

\* "avoid distributed deadlock": a call that has started returns, although
\* Connect keeps the lock of its node until the peer has answered (or the
\* process has aborted).
CallsReturn ==
  \A t \in Thread :
    pc[t] # "idle" ~> pc[t] = "idle" \/ ~Running(NodeOf[t])

\* The destructor takes the lock and joins the broker while the broker may be
\* spinning on the same lock: Acquire gives up for the node's own id, so the
\* join ends, and the destructor finishes unless the process has aborted.  The
\* one exception is a request that OnConnectRequest dropped without an ack
\* (connection_manager_impl.h:118): then ~RdmaBroker waits for that ack in
\* rdma_destroy_ep (rdma_broker.cc:50), and it waits there and nowhere else.
DestructorFinishes ==
  \A n \in Node :
    dpc[n] = "acquired" ~>
      \/ dpc[n] = "dead"
      \/ ~Running(n)
      \/ dpc[n] = "closing" /\ n \in unacked
=============================================================================
