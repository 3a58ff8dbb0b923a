---------------------- MODULE ConnectionManagerProofs ----------------------
(* Proofs about ConnectionManager, for every number of nodes, threads and   *)
(* connection ids.                                                         *)
EXTENDS ConnectionManager, TLAPS

\* A thread that waits for events has an id, and so has a broker that handles
\* an event: what makes TypeOK inductive.
LocalsOK ==
  /\ \A t \in Thread :
       pc[t] \in {"loopback", "wait", "insert", "waitDisconnect"} => tid[t] \in Id
  /\ \A n \in Node :
       bpc[n] \in {"request", "reqAcquire", "reqFind", "reqAccept",
                   "disconnect", "discErase", "discRelease"} => bid[n] \in Id

TypeInv == TypeOK /\ LocalsOK

USE ConstantsAssumption

LEMMA AnyNodeIsNode == AnyNode \in Node
BY DEF AnyNode

LEMMA EventNames ==
  {"CONNECT_REQUEST", "ESTABLISHED", "REJECTED", "UNREACHABLE", "DISCONNECTED"}
    \subseteq CmEvents
BY DEF CmEvents

LEMMA TypeInit == Init => TypeInv
<1> SUFFICES ASSUME Init PROVE TypeInv
  OBVIOUS
<1>1. ManagerTypes /\ ThreadTypes
  BY DEF Init, ManagerTypes, ThreadTypes, ThreadPcs
<1>2. BrokerTypes /\ CmTypes
  BY AnyNodeIsNode DEF Init, BrokerTypes, BrokerPcs, CmTypes, Phases
<1>3. LocalsOK
  BY DEF Init, LocalsOK
<1> QED
  BY <1>1, <1>2, <1>3 DEF TypeInv, TypeOK

LEMMA TypeThread ==
  ASSUME TypeInv, NEW t \in Thread, ThreadStep(t)
  PROVE TypeInv'
<1> USE DEF TypeInv, TypeOK
<1>1. CASE ConnectAcquire(t)
  <2>1. ManagerTypes'
    BY <1>1 DEF ConnectAcquire, Acquired, GaveUp, ManagerTypes, At, LocalsOK,
       ThreadTypes
  <2>2. ThreadTypes'
    <3>1. CASE Goto(t, "lookup") /\ UNCHANGED <<arg, tid, it>>
      BY <3>1 DEF Goto, ThreadTypes, ThreadPcs
    <3>2. CASE Return(t)
      BY <3>2 DEF Return, ThreadTypes, ThreadPcs
    <3> QED
      BY <1>1, <3>1, <3>2 DEF ConnectAcquire
  <2>3. BrokerTypes' /\ CmTypes'
    BY <1>1 DEF ConnectAcquire, BrokerTypes, CmTypes, brokerVars, cmVars
  <2>4. LocalsOK'
    BY <1>1 DEF ConnectAcquire, Goto, Return, LocalsOK, ThreadTypes,
       BrokerTypes, brokerVars, At
  <2> QED
    BY <2>1, <2>2, <2>3, <2>4
<1>2. CASE ConnectLookup(t)
  <2>1. ManagerTypes'
    BY <1>2 DEF ConnectLookup, Release, ManagerTypes, At, LocalsOK,
       ThreadTypes
  <2>2. ThreadTypes'
    <3>1. established[NodeOf[t]][arg[t]] \in Id \cup {NoId}
      BY DEF ManagerTypes, ThreadTypes
    <3> QED
      BY <1>2, <3>1 DEF ConnectLookup, Goto, ThreadTypes, ThreadPcs
  <2>3. BrokerTypes' /\ CmTypes'
    BY <1>2 DEF ConnectLookup, BrokerTypes, CmTypes, brokerVars, cmVars
  <2>4. LocalsOK'
    BY <1>2 DEF ConnectLookup, Goto, LocalsOK, ThreadTypes, BrokerTypes,
       brokerVars, At
  <2> QED
    BY <2>1, <2>2, <2>3, <2>4
<1>3. CASE ConnectOpen(t)
  <2>1. ThreadTypes'
    BY <1>3 DEF ConnectOpen, Goto, ThreadTypes, ThreadPcs, At
  <2>2. CmTypes'
    BY <1>3 DEF ConnectOpen, CmTypes, Phases, CmEvents, At, LocalsOK,
       ThreadTypes
  <2>3. ManagerTypes' /\ BrokerTypes'
    BY <1>3 DEF ConnectOpen, ManagerTypes, BrokerTypes, managerVars,
       brokerVars
  <2>4. LocalsOK'
    BY <1>3 DEF ConnectOpen, Goto, LocalsOK, ThreadTypes, BrokerTypes,
       brokerVars, At
  <2> QED
    BY <2>1, <2>2, <2>3, <2>4
<1>4. CASE ConnectOpenLoopback(t)
  <2>1. ThreadTypes'
    BY <1>4 DEF ConnectOpenLoopback, Goto, ThreadTypes, ThreadPcs, At
  <2>2. CmTypes'
    BY <1>4 DEF ConnectOpenLoopback, CmTypes, Phases, CmEvents, At, LocalsOK,
       ThreadTypes
  <2>3. ManagerTypes' /\ BrokerTypes'
    BY <1>4 DEF ConnectOpenLoopback, ManagerTypes, BrokerTypes, managerVars,
       brokerVars
  <2>4. LocalsOK'
    BY <1>4 DEF ConnectOpenLoopback, Goto, LocalsOK, ThreadTypes, BrokerTypes,
       brokerVars, At
  <2> QED
    BY <2>1, <2>2, <2>3, <2>4
<1>5. CASE ConnectLoopback(t)
  <2>1. ManagerTypes'
    <3>1. tid[t] \in Id /\ arg[t] \in Node
      BY <1>5 DEF ConnectLoopback, At, LocalsOK, ThreadTypes
    <3>2. [established EXCEPT ![NodeOf[t]][NodeOf[t]] = tid[t]]
            \in [Node -> [Node -> Id \cup {NoId}]]
      BY <3>1 DEF ManagerTypes
    <3>3. mu' \in [Node -> Node \cup {kUnlocked}]
      BY <1>5 DEF ConnectLoopback, Release, ManagerTypes
    <3> QED
      BY <1>5, <3>2, <3>3 DEF ConnectLoopback, ManagerTypes
  <2>2. ThreadTypes'
    <3>1. CASE Return(t)
      BY <3>1 DEF Return, ThreadTypes, ThreadPcs
    <3>2. CASE Goto(t, "abort") /\ UNCHANGED <<arg, tid, it>>
      BY <3>2 DEF Goto, ThreadTypes, ThreadPcs
    <3> QED
      BY <1>5, <3>1, <3>2 DEF ConnectLoopback
  <2>3. BrokerTypes' /\ CmTypes'
    BY <1>5 DEF ConnectLoopback, BrokerTypes, CmTypes, brokerVars, cmVars
  <2>4. LocalsOK'
    BY <1>5 DEF ConnectLoopback, Goto, Return, LocalsOK, ThreadTypes,
       BrokerTypes, brokerVars, At
  <2> QED
    BY <2>1, <2>2, <2>3, <2>4
<1>6. CASE ConnectDuplicate(t)
  <2>1. ManagerTypes'
    BY <1>6 DEF ConnectDuplicate, Release, ManagerTypes, At, LocalsOK,
       ThreadTypes, CmTypes
  <2>2. ThreadTypes'
    BY <1>6 DEF ConnectDuplicate, Goto, ThreadTypes, ThreadPcs, At,
       ManagerTypes
  <2>3. CmTypes'
    BY <1>6 DEF ConnectDuplicate, Disconnected, CmTypes, Phases, CmEvents, At,
       LocalsOK, ThreadTypes
  <2>4. BrokerTypes'
    BY <1>6 DEF ConnectDuplicate, BrokerTypes, brokerVars
  <2>5. LocalsOK'
    BY <1>6 DEF ConnectDuplicate, Goto, LocalsOK, ThreadTypes, BrokerTypes,
       brokerVars, At
  <2> QED
    BY <2>1, <2>2, <2>3, <2>4, <2>5
<1>7. CASE ConnectEstablished(t)
  <2>1. ThreadTypes'
    BY <1>7 DEF ConnectEstablished, Goto, ThreadTypes, ThreadPcs, At,
       ManagerTypes
  <2>2. CmTypes'
    BY <1>7 DEF ConnectEstablished, CmTypes, Phases, CmEvents, At, LocalsOK,
       ThreadTypes
  <2>3. ManagerTypes' /\ BrokerTypes'
    BY <1>7 DEF ConnectEstablished, ManagerTypes, BrokerTypes, managerVars,
       brokerVars
  <2>4. LocalsOK'
    BY <1>7 DEF ConnectEstablished, Goto, LocalsOK, ThreadTypes, BrokerTypes,
       brokerVars, At
  <2> QED
    BY <2>1, <2>2, <2>3, <2>4
<1>8. CASE ConnectInsert(t)
  <2>1. ManagerTypes'
    <3>1. tid[t] \in Id /\ arg[t] \in Node
      BY <1>8 DEF ConnectInsert, At, LocalsOK, ThreadTypes
    <3>2. [established EXCEPT ![NodeOf[t]][arg[t]] = tid[t]]
            \in [Node -> [Node -> Id \cup {NoId}]]
      BY <3>1 DEF ManagerTypes
    <3>3. mu' \in [Node -> Node \cup {kUnlocked}]
      BY <1>8 DEF ConnectInsert, Release, ManagerTypes
    <3> QED
      BY <1>8, <3>2, <3>3 DEF ConnectInsert, ManagerTypes
  <2>2. ThreadTypes'
    <3>1. CASE Return(t)
      BY <3>1 DEF Return, ThreadTypes, ThreadPcs
    <3>2. CASE Goto(t, "abort") /\ UNCHANGED <<arg, tid, it>>
      BY <3>2 DEF Goto, ThreadTypes, ThreadPcs
    <3> QED
      BY <1>8, <3>1, <3>2 DEF ConnectInsert
  <2>3. BrokerTypes' /\ CmTypes'
    BY <1>8 DEF ConnectInsert, BrokerTypes, CmTypes, brokerVars, cmVars
  <2>4. LocalsOK'
    BY <1>8 DEF ConnectInsert, Goto, Return, LocalsOK, ThreadTypes,
       BrokerTypes, brokerVars, At
  <2> QED
    BY <2>1, <2>2, <2>3, <2>4
<1>9. CASE ConnectRefused(t)
  <2>1. ManagerTypes'
    BY <1>9 DEF ConnectRefused, Release, ManagerTypes, At, LocalsOK,
       ThreadTypes, CmTypes
  <2>2. ThreadTypes'
    <3>1. CASE Return(t)
      BY <3>1 DEF ThreadTypes, ThreadPcs, Return
    <3>2. CASE /\ Goto(t, "backoff")
               /\ tid' = [tid EXCEPT ![t] = NoId]
               /\ UNCHANGED <<arg, it>>
      BY <3>2 DEF ThreadTypes, ThreadPcs, Goto
    <3> QED
      BY <1>9, <3>1, <3>2 DEF ConnectRefused
  <2>3. CmTypes'
    <3>1. tid[t] \in Id
      BY <1>9 DEF ConnectRefused, At, LocalsOK
    <3>2. connq' \in [Id -> Seq(CmEvents)]
      BY <1>9, <3>1 DEF CmTypes, ConnectRefused
    <3>3. phase' \in [Id -> Phases]
      BY <1>9, <3>1 DEF CmTypes, ConnectRefused, Phases
    <3>4. from' \in [Id -> Node] /\ to' \in [Id -> Node]
      BY <1>9, <3>1, AnyNodeIsNode DEF CmTypes, ConnectRefused
    <3> QED
      BY <1>9, <3>2, <3>3, <3>4 DEF CmTypes, ConnectRefused
  <2>4. BrokerTypes'
    BY <1>9 DEF ConnectRefused, BrokerTypes, brokerVars
  <2>5. LocalsOK'
    BY <1>9 DEF ConnectRefused, Goto, Return, LocalsOK, ThreadTypes,
       BrokerTypes, brokerVars, At
  <2> QED
    BY <2>1, <2>2, <2>3, <2>4, <2>5
<1>10. CASE ConnectBackoff(t)
  <2>1. ThreadTypes'
    BY <1>10 DEF ConnectBackoff, Return, ThreadTypes, ThreadPcs, At
  <2>2. ManagerTypes' /\ BrokerTypes' /\ CmTypes'
    BY <1>10 DEF ConnectBackoff, ManagerTypes, BrokerTypes, CmTypes,
       managerVars, brokerVars, cmVars
  <2>3. LocalsOK'
    BY <1>10 DEF ConnectBackoff, Return, LocalsOK, ThreadTypes, BrokerTypes,
       brokerVars, At
  <2> QED
    BY <2>1, <2>2, <2>3
<1>11. CASE ConnectWaitDisconnect(t)
  <2>1. ThreadTypes'
    BY <1>11 DEF ConnectWaitDisconnect, Goto, ThreadTypes, ThreadPcs, At
  <2>2. CmTypes'
    BY <1>11 DEF ConnectWaitDisconnect, CmTypes, Phases, CmEvents, At,
       LocalsOK, ThreadTypes
  <2>3. ManagerTypes' /\ BrokerTypes'
    BY <1>11 DEF ConnectWaitDisconnect, ManagerTypes, BrokerTypes,
       managerVars, brokerVars
  <2>4. LocalsOK'
    BY <1>11 DEF ConnectWaitDisconnect, Goto, LocalsOK, ThreadTypes,
       BrokerTypes, brokerVars, At
  <2> QED
    BY <2>1, <2>2, <2>3, <2>4
<1>12. CASE ConnectDeref(t)
  <2>1. ThreadTypes'
    BY <1>12 DEF ConnectDeref, Return, ThreadTypes, ThreadPcs, At
  <2>2. ManagerTypes' /\ BrokerTypes' /\ CmTypes'
    BY <1>12 DEF ConnectDeref, ManagerTypes, BrokerTypes, CmTypes,
       managerVars, brokerVars, cmVars
  <2>3. LocalsOK'
    BY <1>12 DEF ConnectDeref, Return, LocalsOK, ThreadTypes, BrokerTypes,
       brokerVars, At
  <2> QED
    BY <2>1, <2>2, <2>3
<1>13. CASE GetAcquire(t)
  <2>1. ManagerTypes'
    BY <1>13 DEF GetAcquire, Acquired, ManagerTypes, At, LocalsOK, ThreadTypes
  <2>2. ThreadTypes'
    BY <1>13 DEF GetAcquire, Goto, ThreadTypes, ThreadPcs, At, ManagerTypes
  <2>3. BrokerTypes' /\ CmTypes'
    BY <1>13 DEF GetAcquire, BrokerTypes, CmTypes, brokerVars, cmVars
  <2>4. LocalsOK'
    BY <1>13 DEF GetAcquire, Goto, LocalsOK, ThreadTypes, BrokerTypes,
       brokerVars, At
  <2> QED
    BY <2>1, <2>2, <2>3, <2>4
<1>14. CASE GetLookup(t)
  <2>1. ManagerTypes'
    BY <1>14 DEF GetLookup, Release, ManagerTypes, At
  <2>2. ThreadTypes'
    BY <1>14 DEF GetLookup, Return, ThreadTypes, ThreadPcs, At, ManagerTypes
  <2>3. BrokerTypes' /\ CmTypes'
    BY <1>14 DEF GetLookup, BrokerTypes, CmTypes, brokerVars, cmVars
  <2>4. LocalsOK'
    BY <1>14 DEF GetLookup, Return, LocalsOK, ThreadTypes, BrokerTypes,
       brokerVars, At
  <2> QED
    BY <2>1, <2>2, <2>3, <2>4
<1>15. CASE NumRead(t)
  <2>1. ManagerTypes'
    BY <1>15 DEF NumRead, Release, ManagerTypes, At
  <2>2. ThreadTypes'
    BY <1>15 DEF NumRead, Return, ThreadTypes, ThreadPcs, At, ManagerTypes
  <2>3. BrokerTypes' /\ CmTypes'
    BY <1>15 DEF NumRead, BrokerTypes, CmTypes, brokerVars, cmVars
  <2>4. LocalsOK'
    BY <1>15 DEF NumRead, Return, LocalsOK, ThreadTypes, BrokerTypes,
       brokerVars, At
  <2> QED
    BY <2>1, <2>2, <2>3, <2>4
<1> QED
  BY <1>1, <1>2, <1>3, <1>4, <1>5, <1>6, <1>7, <1>8, <1>9, <1>10, <1>11,
     <1>12, <1>13, <1>14, <1>15 DEF ThreadStep

LEMMA TypeFault ==
  ASSUME TypeInv, NEW t \in Thread, ThreadFault(t)
  PROVE TypeInv'
<1> USE DEF TypeInv, TypeOK
<1>1. CASE ConnectCreateEpFails(t)
  <2>1. ManagerTypes'
    BY <1>1 DEF ConnectCreateEpFails, Release, ManagerTypes, At
  <2>2. ThreadTypes'
    BY <1>1 DEF ConnectCreateEpFails, Return, ThreadTypes, ThreadPcs, At,
       ManagerTypes
  <2>3. BrokerTypes' /\ CmTypes'
    BY <1>1 DEF ConnectCreateEpFails, BrokerTypes, CmTypes, brokerVars, cmVars
  <2>4. LocalsOK'
    BY <1>1 DEF ConnectCreateEpFails, Return, LocalsOK, ThreadTypes,
       BrokerTypes, brokerVars, At
  <2> QED
    BY <2>1, <2>2, <2>3, <2>4
<1>2. CASE ConnectCheckFails(t)
  <2>1. ThreadTypes'
    BY <1>2 DEF ConnectCheckFails, Return, ThreadTypes, ThreadPcs, At
  <2>2. ManagerTypes' /\ BrokerTypes' /\ CmTypes'
    BY <1>2 DEF ConnectCheckFails, ManagerTypes, BrokerTypes, CmTypes,
       managerVars, brokerVars, cmVars
  <2>3. LocalsOK'
    BY <1>2 DEF ConnectCheckFails, Return, LocalsOK, ThreadTypes, BrokerTypes,
       brokerVars, At
  <2> QED
    BY <2>1, <2>2, <2>3
<1> QED
  BY <1>1, <1>2 DEF ThreadFault

LEMMA TypeBroker ==
  ASSUME TypeInv, NEW n \in Node, BrokerStep(n)
  PROVE TypeInv'
<1> USE DEF TypeInv, TypeOK
<1>1. CASE BrokerExit(n)
  <2>1. BrokerTypes'
    BY <1>1 DEF BrokerExit, BrokerGoto, BrokerTypes, BrokerPcs, BrokerAt
  <2>2. ManagerTypes' /\ ThreadTypes' /\ CmTypes'
    BY <1>1 DEF BrokerExit, ManagerTypes, ThreadTypes, CmTypes, managerVars,
       threadVars, cmVars
  <2>3. LocalsOK'
    BY <1>1 DEF BrokerExit, BrokerGoto, LocalsOK, ThreadTypes, BrokerTypes,
       threadVars, BrokerAt
  <2> QED
    BY <2>1, <2>2, <2>3
<1>2. CASE BrokerEvent(n)
  <2> DEFINE event == Head(listenq[n])[1]
             i == Head(listenq[n])[2]
  <2>1. listenq[n] \in Seq(CmEvents \X Id) /\ listenq[n] # <<>>
    BY <1>2 DEF BrokerEvent, CmTypes
  <2>2. Head(listenq[n]) \in CmEvents \X Id /\ Tail(listenq[n]) \in Seq(CmEvents \X Id)
    BY <2>1
  <2>3. i \in Id
    BY <2>2
  <2>4. HandlerOf(event) \in {"request", "disconnect", "poll", "abort"}
    BY DEF HandlerOf
  <2>5. /\ bpc' = [bpc EXCEPT ![n] = HandlerOf(event)]
        /\ bid' = [bid EXCEPT ![n] = IF HandlerOf(event) = "poll" THEN NoId ELSE i]
        /\ numConn' = [numConn EXCEPT ![n] = IF event = "ESTABLISHED" THEN @ + 1 ELSE @]
        /\ listenq' = [listenq EXCEPT ![n] = Tail(@)]
        /\ UNCHANGED <<managerVars, threadVars, terminate, listenOpen, unacked, phase,
                       from, to, connq>>
    BY <1>2 DEF BrokerEvent, BrokerGoto
  <2> HIDE DEF event, i
  <2>6. BrokerTypes'
    BY <2>3, <2>4, <2>5 DEF BrokerTypes, BrokerPcs
  <2>7. CmTypes'
    BY <2>2, <2>5 DEF CmTypes
  <2>8. ManagerTypes' /\ ThreadTypes'
    BY <2>5 DEF ManagerTypes, ThreadTypes, managerVars, threadVars
  <2>9. LocalsOK'
    BY <2>3, <2>4, <2>5 DEF LocalsOK, ThreadTypes, BrokerTypes, threadVars
  <2> QED
    BY <2>6, <2>7, <2>8, <2>9
<1>3. CASE OnConnectRequest(n)
  <2>1. BrokerTypes'
    BY <1>3 DEF OnConnectRequest, BrokerGoto, BrokerReturn, BrokerTypes,
       BrokerPcs, BrokerAt
  <2>2. ManagerTypes' /\ ThreadTypes' /\ CmTypes'
    BY <1>3 DEF OnConnectRequest, ManagerTypes, ThreadTypes, CmTypes,
       managerVars, threadVars, cmVars
  <2>3. LocalsOK'
    BY <1>3 DEF OnConnectRequest, BrokerGoto, BrokerReturn, LocalsOK,
       ThreadTypes, BrokerTypes, threadVars, BrokerAt
  <2> QED
    BY <2>1, <2>2, <2>3
<1>4. CASE OnConnectAcquire(n)
  <2>1. ManagerTypes'
    <3>1. bid[n] \in Id
      BY <1>4 DEF OnConnectAcquire, BrokerAt, LocalsOK
    <3>2. from[bid[n]] \in Node
      BY <3>1 DEF CmTypes
    <3> QED
      BY <1>4, <3>2 DEF OnConnectAcquire, ManagerTypes, Acquired, GaveUp
  <2>2. BrokerTypes'
    BY <1>4 DEF OnConnectAcquire, BrokerGoto, BrokerReturn, BrokerTypes,
       BrokerPcs, BrokerAt, CmTypes, CmEvents
  <2>3. CmTypes'
    BY <1>4 DEF OnConnectAcquire, Reject, CmTypes, Phases, CmEvents, BrokerAt,
       LocalsOK
  <2>4. ThreadTypes'
    BY <1>4 DEF OnConnectAcquire, ThreadTypes, threadVars
  <2>5. LocalsOK'
    BY <1>4 DEF OnConnectAcquire, BrokerGoto, BrokerReturn, LocalsOK,
       ThreadTypes, BrokerTypes, threadVars, BrokerAt
  <2> QED
    BY <2>1, <2>2, <2>3, <2>4, <2>5
<1>5. CASE OnConnectFind(n)
  <2>1. ManagerTypes'
    BY <1>5 DEF OnConnectFind, Release, ManagerTypes, BrokerAt, LocalsOK,
       CmTypes
  <2>2. BrokerTypes'
    BY <1>5 DEF OnConnectFind, BrokerGoto, BrokerReturn, BrokerTypes,
       BrokerPcs, BrokerAt, CmTypes, CmEvents
  <2>3. CmTypes'
    BY <1>5 DEF OnConnectFind, Reject, CmTypes, Phases, CmEvents, BrokerAt,
       LocalsOK
  <2>4. ThreadTypes'
    BY <1>5 DEF OnConnectFind, ThreadTypes, threadVars
  <2>5. LocalsOK'
    BY <1>5 DEF OnConnectFind, BrokerGoto, BrokerReturn, LocalsOK,
       ThreadTypes, BrokerTypes, threadVars, BrokerAt
  <2> QED
    BY <2>1, <2>2, <2>3, <2>4, <2>5
<1>6. CASE OnConnectAccept(n)
  <2>1. ManagerTypes'
    <3>1. bid[n] \in Id /\ from[bid[n]] \in Node
      BY <1>6 DEF OnConnectAccept, BrokerAt, LocalsOK, CmTypes
    <3>2. [established EXCEPT ![n][from[bid[n]]] = bid[n]]
            \in [Node -> [Node -> Id \cup {NoId}]]
      BY <3>1 DEF ManagerTypes
    <3>3. mu' \in [Node -> Node \cup {kUnlocked}]
      BY <1>6 DEF OnConnectAccept, Release, ManagerTypes
    <3> QED
      BY <1>6, <3>2, <3>3 DEF OnConnectAccept, ManagerTypes
  <2>2. BrokerTypes'
    BY <1>6 DEF OnConnectAccept, BrokerGoto, BrokerReturn, BrokerTypes,
       BrokerPcs, BrokerAt, CmTypes, CmEvents
  <2>3. CmTypes'
    BY <1>6 DEF OnConnectAccept, Accept, CmTypes, Phases, CmEvents, BrokerAt,
       LocalsOK
  <2>4. ThreadTypes'
    BY <1>6 DEF OnConnectAccept, ThreadTypes, threadVars
  <2>5. LocalsOK'
    BY <1>6 DEF OnConnectAccept, BrokerGoto, BrokerReturn, LocalsOK,
       ThreadTypes, BrokerTypes, threadVars, BrokerAt
  <2> QED
    BY <2>1, <2>2, <2>3, <2>4, <2>5
<1>7. CASE OnDisconnectAcquire(n)
  <2>1. ManagerTypes'
    <3>1. from[bid[n]] \in Node
      BY <1>7 DEF OnDisconnectAcquire, BrokerAt, LocalsOK, CmTypes
    <3>2. mu' \in [Node -> Node \cup {kUnlocked}]
      BY <1>7, <3>1 DEF OnDisconnectAcquire, Acquired, GaveUp, ManagerTypes
    <3> QED
      BY <1>7, <3>2 DEF OnDisconnectAcquire, ManagerTypes
  <2>2. BrokerTypes'
    BY <1>7 DEF OnDisconnectAcquire, BrokerGoto, BrokerTypes, BrokerPcs,
       BrokerAt
  <2>3. ThreadTypes' /\ CmTypes'
    BY <1>7 DEF OnDisconnectAcquire, ThreadTypes, CmTypes, threadVars, cmVars
  <2>4. LocalsOK'
    BY <1>7 DEF OnDisconnectAcquire, BrokerGoto, LocalsOK, ThreadTypes,
       BrokerTypes, threadVars, BrokerAt
  <2> QED
    BY <2>1, <2>2, <2>3, <2>4
<1>8. CASE OnDisconnectErase(n)
  <2>1. ManagerTypes'
    BY <1>8 DEF OnDisconnectErase, ManagerTypes, BrokerAt, LocalsOK, CmTypes
  <2>2. BrokerTypes'
    BY <1>8 DEF OnDisconnectErase, BrokerGoto, BrokerTypes, BrokerPcs,
       BrokerAt
  <2>3. ThreadTypes' /\ CmTypes'
    BY <1>8 DEF OnDisconnectErase, ThreadTypes, CmTypes, threadVars, cmVars
  <2>4. LocalsOK'
    BY <1>8 DEF OnDisconnectErase, BrokerGoto, LocalsOK, ThreadTypes,
       BrokerTypes, threadVars, BrokerAt
  <2> QED
    BY <2>1, <2>2, <2>3, <2>4
<1>9. CASE OnDisconnectDestroy(n)
  <2>1. ManagerTypes'
    BY <1>9 DEF OnDisconnectDestroy, Release, ManagerTypes, BrokerAt, CmTypes
  <2>2. BrokerTypes'
    BY <1>9 DEF OnDisconnectDestroy, BrokerReturn, BrokerTypes, BrokerPcs,
       BrokerAt, CmTypes, CmEvents
  <2>3. CmTypes'
    BY <1>9 DEF OnDisconnectDestroy, ListenerClosed, CmTypes, Phases,
       CmEvents, BrokerAt
  <2>4. ThreadTypes'
    BY <1>9 DEF OnDisconnectDestroy, ThreadTypes, threadVars
  <2>5. LocalsOK'
    BY <1>9 DEF OnDisconnectDestroy, BrokerReturn, LocalsOK, ThreadTypes,
       BrokerTypes, threadVars, BrokerAt
  <2> QED
    BY <2>1, <2>2, <2>3, <2>4, <2>5
<1> QED
  BY <1>1, <1>2, <1>3, <1>4, <1>5, <1>6, <1>7, <1>8, <1>9 DEF BrokerStep

LEMMA TypeDtor ==
  ASSUME TypeInv, NEW n \in Node, DtorStep(n)
  PROVE TypeInv'
<1> USE DEF TypeInv, TypeOK
<1>1. CASE DtorStop(n)
  <2>1. ManagerTypes'
    BY <1>1 DEF DtorStop, ManagerTypes, LocalsOK
  <2>2. BrokerTypes'
    BY <1>1 DEF DtorStop, BrokerTypes, BrokerPcs
  <2>3. ThreadTypes' /\ CmTypes'
    BY <1>1 DEF DtorStop, ThreadTypes, CmTypes, threadVars, cmVars
  <2>4. LocalsOK'
    BY <1>1 DEF DtorStop, LocalsOK, ThreadTypes, BrokerTypes, threadVars
  <2> QED
    BY <2>1, <2>2, <2>3, <2>4
<1>2. CASE DtorCleanup(n)
  <2>1. ManagerTypes'
    BY <1>2 DEF DtorCleanup, Release, ManagerTypes, BrokerAt, LocalsOK,
       CmTypes
  <2>2. BrokerTypes'
    BY <1>2 DEF DtorCleanup, BrokerTypes, BrokerPcs, BrokerAt, CmTypes,
       CmEvents
  <2>3. CmTypes'
    BY <1>2 DEF DtorCleanup, Disconnected, ListenerClosed, CmTypes, Phases,
       CmEvents, BrokerAt, LocalsOK
  <2>4. ThreadTypes'
    BY <1>2 DEF DtorCleanup, ThreadTypes, threadVars
  <2>5. LocalsOK'
    BY <1>2 DEF DtorCleanup, LocalsOK, ThreadTypes, BrokerTypes, threadVars,
       BrokerAt
  <2> QED
    BY <2>1, <2>2, <2>3, <2>4, <2>5
<1>3. CASE DtorDestroy(n)
  <2>1. ManagerTypes'
    BY <1>3 DEF DtorDestroy, ManagerTypes
  <2>2. BrokerTypes' /\ ThreadTypes' /\ CmTypes'
    BY <1>3 DEF DtorDestroy, BrokerTypes, ThreadTypes, CmTypes, brokerVars, threadVars,
       cmVars
  <2>3. LocalsOK'
    BY <1>3 DEF DtorDestroy, LocalsOK, ThreadTypes, BrokerTypes, threadVars, brokerVars
  <2> QED
    BY <2>1, <2>2, <2>3
<1> QED
  BY <1>1, <1>2, <1>3 DEF DtorStep

LEMMA TypeNodeCall ==
  ASSUME TypeInv, NEW n \in Node, NodeCall(n)
  PROVE TypeInv'
<1> USE DEF TypeInv, TypeOK
<1>1. CASE DtorAcquire(n)
  <2>1. ManagerTypes'
    BY <1>1 DEF DtorAcquire, Acquired, GaveUp, ManagerTypes
  <2>2. ThreadTypes' /\ BrokerTypes' /\ CmTypes'
    BY <1>1 DEF DtorAcquire, ThreadTypes, BrokerTypes, CmTypes, threadVars,
       brokerVars, cmVars
  <2>3. LocalsOK'
    BY <1>1 DEF DtorAcquire, LocalsOK, ThreadTypes, BrokerTypes, threadVars,
       brokerVars
  <2> QED
    BY <2>1, <2>2, <2>3
<1>2. CASE Shutdown(n)
  <2>1. ManagerTypes'
    BY <1>2 DEF Shutdown, ManagerTypes
  <2>2. ThreadTypes' /\ BrokerTypes' /\ CmTypes'
    BY <1>2 DEF Shutdown, ThreadTypes, BrokerTypes, CmTypes, threadVars,
       brokerVars, cmVars
  <2>3. LocalsOK'
    BY <1>2 DEF Shutdown, LocalsOK, ThreadTypes, BrokerTypes, threadVars,
       brokerVars
  <2> QED
    BY <2>1, <2>2, <2>3
<1> QED
  BY <1>1, <1>2 DEF NodeCall

LEMMA TypeCm ==
  ASSUME TypeInv, NEW i \in Id, Cm(i)
  PROVE TypeInv'
<1> USE DEF TypeInv, TypeOK
<1>1. CASE DeliverRequest(i)
  <2>1. CmTypes'
    <3>1. to[i] \in Node
      BY DEF CmTypes
    <3>2. Append(listenq[to[i]], <<"CONNECT_REQUEST", i>>) \in Seq(CmEvents \X Id)
      BY <3>1, EventNames DEF CmTypes
    <3>3. listenq' \in [Node -> Seq(CmEvents \X Id)]
      BY <1>1, <3>1, <3>2 DEF DeliverRequest, CmTypes
    <3>4. phase' \in [Id -> Phases]
      <4>1. PICK p \in {"pending", "rejected"} : phase' = [phase EXCEPT ![i] = p]
        BY <1>1 DEF DeliverRequest
      <4> QED
        BY <4>1 DEF CmTypes, Phases
    <3> QED
      BY <1>1, <3>3, <3>4 DEF DeliverRequest, CmTypes
  <2>2. ManagerTypes' /\ ThreadTypes' /\ BrokerTypes'
    BY <1>1 DEF DeliverRequest, ManagerTypes, ThreadTypes, BrokerTypes,
       managerVars, threadVars, brokerVars
  <2>3. LocalsOK'
    BY <1>1 DEF DeliverRequest, LocalsOK, ThreadTypes, BrokerTypes,
       threadVars, brokerVars
  <2> QED
    BY <2>1, <2>2, <2>3
<1>2. CASE DeliverReply(i)
  <2>1. CmTypes'
    <3>1. to[i] \in Node
      BY DEF CmTypes
    <3>2. Append(listenq[to[i]], <<"ESTABLISHED", i>>) \in Seq(CmEvents \X Id)
      BY <3>1, EventNames DEF CmTypes
    <3>3. listenq' \in [Node -> Seq(CmEvents \X Id)]
      BY <1>2, <3>1, <3>2 DEF DeliverReply, CmTypes
    <3>4. Append(connq[i], "ESTABLISHED") \in Seq(CmEvents)
      BY EventNames DEF CmTypes
    <3>5. connq' \in [Id -> Seq(CmEvents)]
      BY <1>2, <3>4 DEF DeliverReply, CmTypes
    <3>6. phase' \in [Id -> Phases]
      BY <1>2 DEF DeliverReply, CmTypes, Phases
    <3> QED
      BY <1>2, <3>3, <3>5, <3>6 DEF DeliverReply, CmTypes
  <2>2. ManagerTypes' /\ ThreadTypes' /\ BrokerTypes'
    BY <1>2 DEF DeliverReply, ManagerTypes, ThreadTypes, BrokerTypes,
       managerVars, threadVars, brokerVars
  <2>3. LocalsOK'
    BY <1>2 DEF DeliverReply, LocalsOK, ThreadTypes, BrokerTypes, threadVars,
       brokerVars
  <2> QED
    BY <2>1, <2>2, <2>3
<1>3. CASE DeliverReject(i)
  <2>1. CmTypes'
    <3>1. Append(connq[i], "REJECTED") \in Seq(CmEvents)
      BY EventNames DEF CmTypes
    <3>2. connq' \in [Id -> Seq(CmEvents)]
      BY <1>3, <3>1 DEF DeliverReject, CmTypes
    <3> QED
      BY <1>3, <3>2 DEF DeliverReject, CmTypes, Phases
  <2>2. ManagerTypes' /\ ThreadTypes' /\ BrokerTypes'
    BY <1>3 DEF DeliverReject, ManagerTypes, ThreadTypes, BrokerTypes,
       managerVars, threadVars, brokerVars
  <2>3. LocalsOK'
    BY <1>3 DEF DeliverReject, LocalsOK, ThreadTypes, BrokerTypes, threadVars,
       brokerVars
  <2> QED
    BY <2>1, <2>2, <2>3
<1>4. CASE DeliverDisconnect(i)
  <2>1. CmTypes'
    <3>1. to[i] \in Node
      BY DEF CmTypes
    <3>2. Append(listenq[to[i]], <<"DISCONNECTED", i>>) \in Seq(CmEvents \X Id)
      BY <3>1, EventNames DEF CmTypes
    <3>3. listenq' \in [Node -> Seq(CmEvents \X Id)]
      BY <1>4, <3>1, <3>2 DEF DeliverDisconnect, CmTypes
    <3>4. Append(connq[i], "DISCONNECTED") \in Seq(CmEvents)
      BY EventNames DEF CmTypes
    <3>5. connq' \in [Id -> Seq(CmEvents)]
      BY <1>4, <3>4 DEF DeliverDisconnect, CmTypes
    <3>6. phase' \in [Id -> Phases]
      BY <1>4 DEF DeliverDisconnect, CmTypes, Phases
    <3> QED
      BY <1>4, <3>3, <3>5, <3>6 DEF DeliverDisconnect, CmTypes
  <2>2. ManagerTypes' /\ ThreadTypes' /\ BrokerTypes'
    BY <1>4 DEF DeliverDisconnect, ManagerTypes, ThreadTypes, BrokerTypes,
       managerVars, threadVars, brokerVars
  <2>3. LocalsOK'
    BY <1>4 DEF DeliverDisconnect, LocalsOK, ThreadTypes, BrokerTypes,
       threadVars, brokerVars
  <2> QED
    BY <2>1, <2>2, <2>3
<1>5. CASE CmTimeout(i)
  <2>1. CmTypes'
    <3>1. Append(connq[i], "UNREACHABLE") \in Seq(CmEvents)
      BY EventNames DEF CmTypes
    <3>2. connq' \in [Id -> Seq(CmEvents)]
      BY <1>5, <3>1 DEF CmTimeout, CmTypes
    <3> QED
      BY <1>5, <3>2 DEF CmTimeout, CmTypes, Phases
  <2>2. ManagerTypes' /\ ThreadTypes' /\ BrokerTypes'
    BY <1>5 DEF CmTimeout, ManagerTypes, ThreadTypes, BrokerTypes,
       managerVars, threadVars, brokerVars
  <2>3. LocalsOK'
    BY <1>5 DEF CmTimeout, LocalsOK, ThreadTypes, BrokerTypes, threadVars,
       brokerVars
  <2> QED
    BY <2>1, <2>2, <2>3
<1>6. CASE ReplyTimeout(i)
  <2>1. CmTypes'
    <3>1. to[i] \in Node
      BY DEF CmTypes
    <3>2. Append(listenq[to[i]], <<"UNREACHABLE", i>>) \in Seq(CmEvents \X Id)
      BY <3>1, EventNames DEF CmTypes
    <3>3. listenq' \in [Node -> Seq(CmEvents \X Id)]
      BY <1>6, <3>1, <3>2 DEF ReplyTimeout, CmTypes
    <3>4. phase' \in [Id -> Phases]
      BY <1>6 DEF ReplyTimeout, CmTypes, Phases
    <3> QED
      BY <1>6, <3>3, <3>4 DEF ReplyTimeout, CmTypes
  <2>2. ManagerTypes' /\ ThreadTypes' /\ BrokerTypes'
    BY <1>6 DEF ReplyTimeout, ManagerTypes, ThreadTypes, BrokerTypes,
       managerVars, threadVars, brokerVars
  <2>3. LocalsOK'
    BY <1>6 DEF ReplyTimeout, LocalsOK, ThreadTypes, BrokerTypes, threadVars,
       brokerVars
  <2> QED
    BY <2>1, <2>2, <2>3
<1> QED
  BY <1>1, <1>2, <1>3, <1>4, <1>5, <1>6 DEF Cm

LEMMA TypeCall ==
  ASSUME TypeInv, NEW t \in Thread, ThreadCall(t)
  PROVE TypeInv'
<1> USE DEF TypeInv, TypeOK
<1>1. ASSUME NEW p \in Targets[t], Connect(t, p) \/ GetConnection(t, p)
      PROVE TypeInv'
  <2>1. p \in Node
    BY <1>1
  <2>2. ThreadTypes'
    BY <1>1, <2>1 DEF Connect, GetConnection, Goto, ThreadTypes, ThreadPcs
  <2>3. ManagerTypes' /\ BrokerTypes' /\ CmTypes'
    BY <1>1 DEF Connect, GetConnection, ManagerTypes, BrokerTypes, CmTypes,
       managerVars, brokerVars, cmVars
  <2>4. LocalsOK'
    BY <1>1 DEF Connect, GetConnection, Goto, LocalsOK, ThreadTypes, brokerVars
  <2> QED
    BY <2>2, <2>3, <2>4
<1>2. CASE GetNumConnections(t)
  <2>1. ManagerTypes'
    BY <1>2 DEF GetNumConnections, Acquired, GaveUp, ManagerTypes
  <2>2. ThreadTypes'
    BY <1>2 DEF GetNumConnections, Goto, ThreadTypes, ThreadPcs
  <2>3. BrokerTypes' /\ CmTypes'
    BY <1>2 DEF GetNumConnections, BrokerTypes, CmTypes, brokerVars, cmVars
  <2>4. LocalsOK'
    BY <1>2 DEF GetNumConnections, Goto, LocalsOK, ThreadTypes, brokerVars
  <2> QED
    BY <2>1, <2>2, <2>3, <2>4
<1> QED
  BY <1>1, <1>2 DEF ThreadCall

LEMMA TypeCleanup ==
  ASSUME TypeInv, NEW n \in Node, ProcessCleanup(n)
  PROVE TypeInv'
<1> USE DEF TypeInv, TypeOK
<1>1. CmTypes'
  BY DEF ProcessCleanup, ListenerClosed, Disconnected, CmTypes, Phases
<1>2. BrokerTypes'
  BY DEF ProcessCleanup, BrokerTypes
<1>3. ManagerTypes' /\ ThreadTypes'
  BY DEF ProcessCleanup, ManagerTypes, ThreadTypes, managerVars, threadVars
<1>4. LocalsOK'
  BY DEF ProcessCleanup, LocalsOK, threadVars
<1> QED
  BY <1>1, <1>2, <1>3, <1>4

\* Every step of the system keeps TypeInv.
LEMMA TypeNext == TypeInv /\ [Next]_vars => TypeInv'
<1> SUFFICES ASSUME TypeInv, [Next]_vars PROVE TypeInv'
  OBVIOUS
<1>1. CASE Next
  BY <1>1, TypeThread, TypeFault, TypeCall, TypeBroker, TypeDtor, TypeNodeCall,
     TypeCleanup, TypeCm DEF Next
<1>2. CASE UNCHANGED vars
  BY <1>2 DEF vars, managerVars, threadVars, brokerVars, cmVars, TypeInv, TypeOK,
     ManagerTypes, ThreadTypes, BrokerTypes, CmTypes, LocalsOK
<1> QED
  BY <1>1, <1>2

\* TypeOK holds in every reachable state, whatever is called and whatever fails:
\* the lock word, the table and the channels keep the values the code declares.
THEOREM TypeCorrect == Spec => []TypeOK
<1>1. TypeInv => TypeOK
  BY DEF TypeInv
<1> QED
  BY TypeInit, TypeNext, <1>1, PTL DEF Spec

-----------------------------------------------------------------------------
(* The entries of the table.                                               *)

\* A connection that has been confirmed once.
Confirmed == {"connected", "dreqActive", "dreqPassive", "closed"}

\* No id is used by two calls.
TidsOK ==
  /\ \A t \in Thread : tid[t] # NoId => phase[tid[t]] # "free"
  /\ \A t, u \in Thread : tid[t] = tid[u] /\ tid[t] # NoId => t = u

\* The id of a call connects its node to the peer it names.
WaiterOK(t) ==
  /\ pc[t] \in {"wait", "insert"} => from[tid[t]] = NodeOf[t] /\ to[tid[t]] = arg[t]
  /\ pc[t] = "insert" => phase[tid[t]] \in Confirmed
  /\ pc[t] = "loopback" => /\ phase[tid[t]] = "loopback"
                           /\ from[tid[t]] = NodeOf[t] /\ to[tid[t]] = NodeOf[t]
WaitersOK == \A t \in Thread : WaiterOK(t)

\* A connecting id learns of its answer once, and of nothing before it.
ChannelOK(i) ==
  /\ phase[i] \in {"free", "loopback", "request", "pending", "replied", "rejected"} =>
       connq[i] = <<>>
  /\ phase[i] = "connected" => \A k \in 1 .. Len(connq[i]) : connq[i][k] = "ESTABLISHED"
  /\ phase[i] \notin Confirmed =>
       \A k \in 1 .. Len(connq[i]) : connq[i][k] # "ESTABLISHED"
ChannelsOK == \A i \in Id : ChannelOK(i)

\* Id i asks node n for a connection, or has done so in vain.
Asks(i, n) == phase[i] \in {"pending", "timedout"} /\ to[i] = n

\* A request is announced once to its node, and not while it is handled.
Queued(n) == {k \in 1 .. Len(listenq[n]) : listenq[n][k][1] = "CONNECT_REQUEST"}
Handling(n) == Running(n) /\ bpc[n] \in {"request", "reqAcquire", "reqFind", "reqAccept"}
RequestOK(n) ==
  /\ \A k \in Queued(n) : Asks(listenq[n][k][2], n)
  /\ \A j, k \in Queued(n) : listenq[n][j][2] = listenq[n][k][2] => j = k
  /\ Handling(n) => /\ Asks(bid[n], n)
                    /\ \A k \in Queued(n) : listenq[n][k][2] # bid[n]
RequestsOK == \A n \in Node : RequestOK(n)

\* An entry is a loopback connection, one that this node has opened and the
\* peer confirmed, or one that this node has accepted.
EntryOK(n, p) ==
  LET i == established[n][p] IN
  i # NoId =>
    \/ n = p /\ phase[i] = "loopback" /\ from[i] = n /\ to[i] = n
    \/ from[i] = n /\ to[i] = p /\ phase[i] \in Confirmed
    \/ from[i] = p /\ to[i] = n /\ phase[i] \in Confirmed \cup {"replied", "orphan"}
TableOK == \A n, p \in Node : Running(n) => EntryOK(n, p)

MatchInv == TypeInv /\ TidsOK /\ WaitersOK /\ ChannelsOK /\ RequestsOK /\ TableOK

\* What librdmacm does to an id that is in use: it is freed once its call has
\* been refused, and until then its ends stay the same.
Orderly ==
  \A i \in Id : phase[i] # "free" =>
    \/ phase[i] = "refused" /\ phase'[i] = "free"
    \/ /\ phase'[i] # "free" /\ from'[i] = from[i] /\ to'[i] = to[i]
       /\ phase[i] \in Confirmed => phase'[i] \in Confirmed
       /\ phase[i] = "loopback" => phase'[i] = "loopback"

\* A process that runs has been running.
StillRuns == \A n \in Node : Running(n)' => Running(n)

-----------------------------------------------------------------------------

LEMMA TidsKept ==
  ASSUME TypeInv, TidsOK,
         \A t \in Thread : tid'[t] \in {tid[t], NoId},
         \A i \in Id : phase[i] # "free" => phase'[i] # "free"
  PROVE TidsOK'
<1>1. \A t \in Thread : tid[t] \in Id \cup {NoId}
  BY DEF TypeInv, TypeOK, ThreadTypes
<1> QED
  BY <1>1 DEF TidsOK

LEMMA WaitersKept ==
  ASSUME TypeInv, TidsOK, TidsOK', WaitersOK, Orderly,
         \A t \in Thread : \/ WaiterOK(t)'
                           \/ pc'[t] = pc[t] /\ tid'[t] = tid[t] /\ arg'[t] = arg[t]
  PROVE WaitersOK'
<1> SUFFICES ASSUME NEW t \in Thread,
                    pc'[t] = pc[t], tid'[t] = tid[t], arg'[t] = arg[t],
                    pc[t] \in {"wait", "insert", "loopback"}
             PROVE WaiterOK(t)'
  BY DEF WaitersOK, WaiterOK
<1> DEFINE i == tid[t]
<1>1. i \in Id /\ i # NoId
  BY DEF TypeInv, LocalsOK
<1>2. phase[i] # "free" /\ phase'[i] # "free"
  BY <1>1 DEF TidsOK
<1>3. /\ from'[i] = from[i] /\ to'[i] = to[i]
      /\ phase[i] \in Confirmed => phase'[i] \in Confirmed
      /\ phase[i] = "loopback" => phase'[i] = "loopback"
  BY <1>1, <1>2 DEF Orderly
<1>4. WaiterOK(t)
  BY DEF WaitersOK
<1> HIDE DEF i
<1> QED
  BY <1>3, <1>4 DEF WaiterOK, i

LEMMA TableKept ==
  ASSUME TypeInv, TableOK, Orderly, StillRuns,
         \A n, p \in Node : Running(n)' =>
           EntryOK(n, p)' \/ established'[n][p] \in {established[n][p], NoId},
         \A n, p \in Node : LET i == established[n][p] IN
           (/\ Running(n)' /\ established'[n][p] = i /\ i # NoId
            /\ to[i] = n /\ phase[i] \in {"replied", "orphan"}) =>
             phase'[i] \in Confirmed \cup {"replied", "orphan"}
  PROVE TableOK'
<1> SUFFICES ASSUME NEW n \in Node, NEW p \in Node, Running(n)',
                    established'[n][p] = established[n][p], established[n][p] # NoId
             PROVE EntryOK(n, p)'
  BY DEF TableOK, EntryOK
<1> DEFINE i == established[n][p]
<1>1. i \in Id /\ EntryOK(n, p)
  BY DEF TypeInv, TypeOK, ManagerTypes, TableOK, StillRuns
<1>2. phase[i] \in Confirmed \cup {"replied", "orphan", "loopback"}
  BY <1>1 DEF EntryOK
<1>3. phase[i] \notin {"free", "refused"}
  BY <1>2 DEF Confirmed
<1>4. /\ from'[i] = from[i] /\ to'[i] = to[i]
      /\ phase[i] \in Confirmed => phase'[i] \in Confirmed
      /\ phase[i] = "loopback" => phase'[i] = "loopback"
  BY <1>1, <1>3 DEF Orderly
<1>5. to[i] = n /\ phase[i] \in {"replied", "orphan"} =>
        phase'[i] \in Confirmed \cup {"replied", "orphan"}
  OBVIOUS
<1> HIDE DEF i
<1> QED
  BY <1>1, <1>4, <1>5 DEF EntryOK, i

\* A node whose queue is left alone and whose broker goes on with what it has.
LEMMA RequestKept ==
  ASSUME TypeInv, NEW n \in Node, RequestOK(n), listenq'[n] = listenq[n],
         \A i \in Id : Asks(i, n) => Asks(i, n)',
         Handling(n)' => Handling(n) /\ bid'[n] = bid[n]
  PROVE RequestOK(n)'
<1>1. Queued(n)' = Queued(n)
  BY DEF Queued
<1>2. \A k \in Queued(n) : listenq[n][k][2] \in Id
  <2> SUFFICES ASSUME NEW k \in Queued(n) PROVE listenq[n][k][2] \in Id
    OBVIOUS
  <2>1. listenq[n] \in Seq(CmEvents \X Id) /\ k \in 1 .. Len(listenq[n])
    BY DEF TypeInv, TypeOK, CmTypes, Queued
  <2>2. listenq[n][k] \in CmEvents \X Id
    BY <2>1
  <2> QED
    BY <2>2
<1>3. \A k \in Queued(n) : Asks(listenq[n][k][2], n)'
  BY <1>2 DEF RequestOK, Asks
<1>4. Handling(n)' => bid[n] \in Id /\ Asks(bid[n], n)
  BY DEF RequestOK, Handling, TypeInv, LocalsOK
<1>5. Handling(n)' => Asks(bid[n], n)'
  BY <1>4 DEF Asks
<1> QED
  BY <1>1, <1>3, <1>5 DEF RequestOK, Asks

\* A node whose queue is gone.
LEMMA RequestGone ==
  ASSUME NEW n \in Node, listenq'[n] = <<>>, ~Handling(n)'
  PROVE RequestOK(n)'
<1>1. Queued(n)' = {}
  BY DEF Queued
<1> QED
  BY <1>1 DEF RequestOK

\* The broker of n answers request i, and nothing else happens to an id.
LEMMA RequestAnswered ==
  ASSUME TypeInv, RequestsOK, NEW n \in Node, Handling(n), BrokerReturn(n),
         listenq' = listenq, pc' = pc, to' = to,
         \A i \in Id \ {bid[n]} : phase'[i] = phase[i]
  PROVE RequestsOK'
<1>1. bpc'[n] = "poll" /\ \A m \in Node \ {n} : bpc'[m] = bpc[m] /\ bid'[m] = bid[m]
  BY DEF BrokerReturn, TypeInv, TypeOK, BrokerTypes
<1>2. bid[n] \in Id /\ Asks(bid[n], n)
  BY DEF RequestsOK, RequestOK, Handling, TypeInv, LocalsOK
<1>3. ASSUME NEW m \in Node, m # n PROVE RequestOK(m)'
  <2>1. \A i \in Id : Asks(i, m) => Asks(i, m)'
    BY <1>2, <1>3 DEF Asks
  <2>2. Handling(m)' => Handling(m) /\ bid'[m] = bid[m]
    BY <1>1, <1>3 DEF Handling, Running
  <2> QED
    BY <2>1, <2>2, RequestKept DEF RequestsOK
<1>4. RequestOK(n)'
  <2>1. Queued(n)' = Queued(n) /\ ~Handling(n)'
    BY <1>1 DEF Queued, Handling
  <2>2. ASSUME NEW k \in Queued(n) PROVE Asks(listenq[n][k][2], n)'
    <3>1. listenq[n] \in Seq(CmEvents \X Id) /\ k \in 1 .. Len(listenq[n])
      BY DEF TypeInv, TypeOK, CmTypes, Queued
    <3>2. listenq[n][k] \in CmEvents \X Id
      BY <3>1
    <3>3. listenq[n][k][2] \in Id /\ listenq[n][k][2] # bid[n]
      BY <3>2 DEF RequestsOK, RequestOK
    <3> QED
      BY <3>3 DEF RequestsOK, RequestOK, Asks
  <2> QED
    BY <2>1, <2>2 DEF RequestsOK, RequestOK, Asks
<1> QED
  BY <1>3, <1>4 DEF RequestsOK

\* A step of thread t that ends outside of an attempt to connect and touches
\* neither the table nor the connections.
LEMMA MatchThread ==
  ASSUME MatchInv, TypeInv', StillRuns, NEW t \in Thread,
         UNCHANGED <<established, bpc, bid, phase, from, to, connq, listenq>>,
         \A u \in Thread \ {t} : pc'[u] = pc[u] /\ arg'[u] = arg[u] /\ tid'[u] = tid[u],
         pc'[t] \notin {"wait", "insert", "loopback"},
         tid'[t] \in {tid[t], NoId}
  PROVE MatchInv'
<1> USE DEF MatchInv
<1>1. Orderly
  BY DEF Orderly
<1>2. TidsOK'
  BY TidsKept
<1>3. WaitersOK'
  BY <1>1, <1>2, WaitersKept DEF WaiterOK
<1>4. ChannelsOK'
  BY DEF ChannelsOK, ChannelOK
<1>5. RequestsOK'
  <2>1. ASSUME NEW n \in Node PROVE RequestOK(n)'
    <3>1. Handling(n)' => Handling(n)
      BY DEF StillRuns, Handling
    <3>2. \A i \in Id : Asks(i, n) => Asks(i, n)'
      BY DEF Asks
    <3> QED
      BY <3>1, <3>2, RequestKept DEF RequestsOK
  <2> QED
    BY <2>1 DEF RequestsOK
<1>6. TableOK'
  BY <1>1, TableKept
<1> QED
  BY <1>2, <1>3, <1>4, <1>5, <1>6

\* A step of the broker of n that answers nothing and inserts nothing.
LEMMA MatchBroker ==
  ASSUME MatchInv, TypeInv', StillRuns, NEW n \in Node,
         UNCHANGED <<pc, arg, tid, phase, from, to, connq, listenq>>,
         \A m, p \in Node : established'[m][p] \in {established[m][p], NoId},
         \A m \in Node \ {n} : bpc'[m] = bpc[m] /\ bid'[m] = bid[m],
         Handling(n)' => Handling(n) /\ bid'[n] = bid[n]
  PROVE MatchInv'
<1> USE DEF MatchInv
<1>1. Orderly
  BY DEF Orderly
<1>2. TidsOK'
  BY TidsKept
<1>3. WaitersOK'
  BY <1>1, <1>2, WaitersKept
<1>4. ChannelsOK'
  BY DEF ChannelsOK, ChannelOK
<1>5. RequestsOK'
  <2>1. ASSUME NEW m \in Node PROVE RequestOK(m)'
    <3>1. Handling(m)' => Handling(m) /\ bid'[m] = bid[m]
      BY DEF StillRuns, Handling
    <3>2. \A i \in Id : Asks(i, m) => Asks(i, m)'
      BY DEF Asks
    <3> QED
      BY <3>1, <3>2, RequestKept DEF RequestsOK
  <2> QED
    BY <2>1 DEF RequestsOK
<1>6. TableOK'
  BY <1>1, TableKept
<1> QED
  BY <1>2, <1>3, <1>4, <1>5, <1>6

\* What every step of a thread leaves alone.
LEMMA ThreadFrame ==
  ASSUME TypeInv, NEW t \in Thread, ThreadStep(t) \/ ThreadFault(t) \/ ThreadCall(t)
  PROVE /\ Running(NodeOf[t])
        /\ \A u \in Thread \ {t} : pc'[u] = pc[u] /\ arg'[u] = arg[u] /\ tid'[u] = tid[u]
        /\ bpc' = bpc /\ bid' = bid /\ listenq' = listenq /\ StillRuns
<1>1. Running(NodeOf[t])
  BY DEF ThreadStep, ThreadFault, ThreadCall, ConnectAcquire,
     ConnectLookup, ConnectOpen, ConnectOpenLoopback, ConnectLoopback, ConnectDuplicate,
     ConnectEstablished, ConnectInsert, ConnectRefused, ConnectBackoff,
     ConnectWaitDisconnect, ConnectDeref, GetAcquire, GetLookup, NumRead,
     ConnectCreateEpFails, ConnectCheckFails, Connect, GetConnection,
     GetNumConnections, At
<1>2. bpc' = bpc /\ bid' = bid /\ listenq' = listenq
  BY DEF ThreadStep, ThreadFault, ThreadCall, ConnectAcquire,
     ConnectLookup, ConnectOpen, ConnectOpenLoopback, ConnectLoopback, ConnectDuplicate,
     ConnectEstablished, ConnectInsert, ConnectRefused, ConnectBackoff,
     ConnectWaitDisconnect, ConnectDeref, GetAcquire, GetLookup, NumRead,
     ConnectCreateEpFails, ConnectCheckFails, Connect, GetConnection,
     GetNumConnections, brokerVars, cmVars
<1>3. ASSUME NEW u \in Thread \ {t}
      PROVE pc'[u] = pc[u] /\ arg'[u] = arg[u] /\ tid'[u] = tid[u]
  <2> USE DEF TypeInv, TypeOK, ThreadTypes
  <2>1. CASE ThreadCall(t)
    BY <2>1 DEF ThreadCall, Connect, GetConnection, GetNumConnections, Goto
  <2>2. CASE ThreadFault(t)
    BY <2>2 DEF ThreadFault, ConnectCreateEpFails, ConnectCheckFails, Return, threadVars
  <2>3. CASE ThreadStep(t)
    BY <2>3 DEF ThreadStep, ConnectAcquire,
       ConnectLookup, ConnectOpen, ConnectOpenLoopback, ConnectLoopback, ConnectDuplicate,
       ConnectEstablished, ConnectInsert, ConnectRefused, ConnectBackoff,
       ConnectWaitDisconnect, ConnectDeref, GetAcquire, GetLookup, NumRead, Goto, Return
  <2> QED
    BY <2>1, <2>2, <2>3
<1>4. StillRuns
  BY <1>1, <1>2, <1>3 DEF StillRuns, Running
<1> QED
  BY <1>1, <1>2, <1>3, <1>4

\* What every step of a broker leaves alone.
LEMMA BrokerFrame ==
  ASSUME TypeInv, NEW n \in Node, BrokerStep(n)
  PROVE /\ Running(n) /\ pc' = pc /\ arg' = arg /\ tid' = tid
        /\ from' = from /\ to' = to /\ connq' = connq
        /\ \A m \in Node \ {n} : /\ bpc'[m] = bpc[m] /\ bid'[m] = bid[m]
                                 /\ listenq'[m] = listenq[m]
        /\ StillRuns
<1>1. Running(n) /\ pc' = pc /\ arg' = arg /\ tid' = tid
      /\ from' = from /\ to' = to /\ connq' = connq
  BY DEF BrokerStep, BrokerExit, BrokerEvent, OnConnectRequest, OnConnectAcquire,
     OnConnectFind, OnConnectAccept, OnDisconnectAcquire, OnDisconnectErase,
     OnDisconnectDestroy, BrokerAt, threadVars, cmVars
<1>2. ASSUME NEW m \in Node \ {n}
      PROVE bpc'[m] = bpc[m] /\ bid'[m] = bid[m] /\ listenq'[m] = listenq[m]
  BY DEF BrokerStep, BrokerExit, BrokerEvent, OnConnectRequest, OnConnectAcquire,
     OnConnectFind, OnConnectAccept, OnDisconnectAcquire, OnDisconnectErase,
     OnDisconnectDestroy, BrokerGoto, BrokerReturn, cmVars, TypeInv, TypeOK,
     BrokerTypes, CmTypes
<1>3. StillRuns
  BY <1>1, <1>2 DEF StillRuns, Running
<1> QED
  BY <1>1, <1>2, <1>3

\* The calls and steps of a thread that are no part of opening a connection.
LEMMA MatchQuietThread ==
  ASSUME MatchInv, TypeInv', NEW t \in Thread,
         \/ ThreadCall(t) \/ ThreadFault(t)
         \/ ConnectAcquire(t) \/ ConnectLookup(t) \/ ConnectBackoff(t)
         \/ ConnectDeref(t) \/ GetAcquire(t) \/ GetLookup(t) \/ NumRead(t)
  PROVE MatchInv'
<1>1. /\ \A u \in Thread \ {t} : pc'[u] = pc[u] /\ arg'[u] = arg[u] /\ tid'[u] = tid[u]
      /\ bpc' = bpc /\ bid' = bid /\ listenq' = listenq /\ StillRuns
  BY ThreadFrame DEF MatchInv, ThreadStep
<1>2. UNCHANGED <<established, phase, from, to, connq>>
  BY DEF ThreadFault, ThreadCall, ConnectAcquire, ConnectLookup, ConnectBackoff,
     ConnectDeref, GetAcquire, GetLookup, NumRead, ConnectCreateEpFails,
     ConnectCheckFails, Connect, GetConnection, GetNumConnections, managerVars, cmVars
<1>3. pc'[t] \notin {"wait", "insert", "loopback"} /\ tid'[t] \in {tid[t], NoId}
  BY DEF ThreadFault, ThreadCall, ConnectAcquire, ConnectLookup, ConnectBackoff,
     ConnectDeref, GetAcquire, GetLookup, NumRead, ConnectCreateEpFails,
     ConnectCheckFails, Connect, GetConnection, GetNumConnections, Goto, Return,
     MatchInv, TypeInv, TypeOK, ThreadTypes
<1> QED
  BY <1>1, <1>2, <1>3, MatchThread

\* ConnectOpen and ConnectOpenLoopback take an id that nobody refers to.
LEMMA MatchOpen ==
  ASSUME MatchInv, TypeInv', NEW t \in Thread,
         ConnectOpen(t) \/ ConnectOpenLoopback(t)
  PROVE MatchInv'
<1> USE DEF MatchInv
<1>1. /\ \A u \in Thread \ {t} : pc'[u] = pc[u] /\ arg'[u] = arg[u] /\ tid'[u] = tid[u]
      /\ bpc' = bpc /\ bid' = bid /\ listenq' = listenq /\ StillRuns
  BY ThreadFrame DEF ThreadStep
<1>2. established' = established /\ connq' = connq
  BY DEF ConnectOpen, ConnectOpenLoopback, managerVars
<1>3. PICK i \in Id :
        /\ phase[i] = "free" /\ tid'[t] = i
        /\ from'[i] = NodeOf[t] /\ to'[i] = arg[t] /\ arg' = arg
        /\ \/ pc'[t] = "wait" /\ phase'[i] = "request"
           \/ pc'[t] = "loopback" /\ phase'[i] = "loopback" /\ arg[t] = NodeOf[t]
        /\ \A j \in Id \ {i} : phase'[j] = phase[j] /\ from'[j] = from[j] /\ to'[j] = to[j]
  BY DEF ConnectOpen, ConnectOpenLoopback, Goto, TypeInv, TypeOK, ThreadTypes, CmTypes
<1>4. Orderly
  BY <1>3 DEF Orderly
<1>5. TidsOK'
  <2>1. \A u \in Thread : tid[u] # i
    BY <1>3 DEF TidsOK
  <2>2. \A u \in Thread : tid[u] \in Id \cup {NoId}
    BY DEF TypeInv, TypeOK, ThreadTypes
  <2> QED
    BY <1>1, <1>3, <2>1, <2>2 DEF TidsOK
<1>6. WaitersOK'
  <2>1. WaiterOK(t)'
    BY <1>3 DEF WaiterOK
  <2> QED
    BY <1>1, <1>4, <1>5, <2>1, WaitersKept
<1>7. ChannelsOK'
  <2>1. ChannelOK(i)'
    BY <1>2, <1>3 DEF ChannelsOK, ChannelOK, Confirmed
  <2>2. \A j \in Id \ {i} : ChannelOK(j)'
    BY <1>2, <1>3 DEF ChannelsOK, ChannelOK
  <2> QED
    BY <2>1, <2>2 DEF ChannelsOK
<1>8. RequestsOK'
  <2>1. ASSUME NEW n \in Node PROVE RequestOK(n)'
    <3>1. Handling(n)' => Handling(n)
      BY <1>1 DEF StillRuns, Handling
    <3>2. \A j \in Id : Asks(j, n) => Asks(j, n)'
      BY <1>3 DEF Asks
    <3> QED
      BY <1>1, <3>1, <3>2, RequestKept DEF RequestsOK
  <2> QED
    BY <2>1 DEF RequestsOK
<1>9. TableOK'
  <2>1. \A n, p \in Node : LET j == established[n][p] IN
          j # NoId /\ phase[j] \in {"replied", "orphan"} => phase'[j] = phase[j]
    BY <1>3 DEF TypeInv, TypeOK, ManagerTypes
  <2> QED
    BY <1>1, <1>2, <1>4, <2>1, TableKept
<1> QED
  BY <1>5, <1>6, <1>7, <1>8, <1>9

\* The first event is taken and the others move on.
LEMMA TakesFirst ==
  ASSUME NEW S, NEW q \in Seq(S), q # <<>>
  PROVE /\ 1 \in 1 .. Len(q) /\ Head(q) = q[1]
        /\ \A k \in 1 .. Len(Tail(q)) : k + 1 \in 1 .. Len(q) /\ Tail(q)[k] = q[k + 1]
OBVIOUS

\* ConnectEstablished: the event says that the peer has confirmed.
LEMMA MatchEstablished ==
  ASSUME MatchInv, TypeInv', NEW t \in Thread,
         ConnectEstablished(t) \/ ConnectWaitDisconnect(t)
  PROVE MatchInv'
<1> USE DEF MatchInv
<1> DEFINE i == tid[t]
<1>1. /\ \A u \in Thread \ {t} : pc'[u] = pc[u] /\ arg'[u] = arg[u] /\ tid'[u] = tid[u]
      /\ bpc' = bpc /\ bid' = bid /\ listenq' = listenq /\ StillRuns
  BY ThreadFrame DEF ThreadStep
<1>2. /\ UNCHANGED <<established, phase, from, to, tid, arg>>
      /\ pc[t] \in {"wait", "waitDisconnect"} /\ i \in Id
      /\ connq[i] \in Seq(CmEvents) /\ connq[i] # <<>>
  BY DEF ConnectEstablished, ConnectWaitDisconnect, managerVars, At, TypeInv, LocalsOK,
     TypeOK, CmTypes
<1>3. /\ \A j \in Id \ {i} : connq'[j] = connq[j]
      /\ connq'[i] = <<>> \/ connq'[i] = Tail(connq[i])
  BY <1>2 DEF ConnectEstablished, ConnectWaitDisconnect, TypeInv, TypeOK, CmTypes
<1>4. Orderly
  BY <1>2 DEF Orderly
<1>5. TidsOK'
  BY <1>2, TidsKept
<1>6. WaitersOK'
  <2>1. CASE pc'[t] = "deref"
    BY <1>1, <1>2, <1>4, <1>5, <2>1, WaitersKept DEF WaiterOK
  <2>2. CASE pc'[t] = "insert" /\ pc[t] = "wait" /\ Head(connq[i]) = "ESTABLISHED"
    <3>1. 1 \in 1 .. Len(connq[i]) /\ connq[i][1] = "ESTABLISHED"
      BY <1>2, <2>2, TakesFirst
    <3>2. phase[i] \in Confirmed
      BY <1>2, <3>1 DEF ChannelsOK, ChannelOK
    <3>3. WaiterOK(t)'
      BY <1>2, <2>2, <3>2 DEF WaitersOK, WaiterOK
    <3> QED
      BY <1>1, <1>2, <1>4, <1>5, <3>3, WaitersKept
  <2> QED
    BY <2>1, <2>2 DEF ConnectEstablished, ConnectWaitDisconnect, Goto, At, TypeInv,
       TypeOK, ThreadTypes
<1>7. ChannelsOK'
  <2>1. ChannelOK(i)'
    <3>1. \A k \in 1 .. Len(connq'[i]) : k + 1 \in 1 .. Len(connq[i])
                                         /\ connq'[i][k] = connq[i][k + 1]
      <4>1. CASE connq'[i] = <<>>
        BY <4>1
      <4>2. CASE connq'[i] = Tail(connq[i])
        BY <1>2, <4>2, TakesFirst
      <4> QED
        BY <1>3, <4>1, <4>2
    <3>2. ChannelOK(i)
      BY <1>2 DEF ChannelsOK
    <3>3. phase[i] \notin {"free", "loopback", "request", "pending", "replied", "rejected"}
      BY <1>2, <3>2 DEF ChannelOK
    <3> QED
      BY <1>2, <3>1, <3>2, <3>3 DEF ChannelOK
  <2>2. \A j \in Id \ {i} : ChannelOK(j)'
    BY <1>2, <1>3 DEF ChannelsOK, ChannelOK
  <2> QED
    BY <1>2, <2>1, <2>2 DEF ChannelsOK, ChannelOK
<1>8. RequestsOK'
  <2>1. ASSUME NEW n \in Node PROVE RequestOK(n)'
    <3>1. Handling(n)' => Handling(n)
      BY <1>1 DEF StillRuns, Handling
    <3>2. \A j \in Id : Asks(j, n) => Asks(j, n)'
      BY <1>2 DEF Asks
    <3> QED
      BY <1>1, <3>1, <3>2, RequestKept DEF RequestsOK
  <2> QED
    BY <2>1 DEF RequestsOK
<1>9. TableOK'
  BY <1>1, <1>2, <1>4, TableKept
<1> QED
  BY <1>5, <1>6, <1>7, <1>8, <1>9

\* ConnectDuplicate: the endpoint that is given up was confirmed, and stays so.
LEMMA MatchDuplicate ==
  ASSUME MatchInv, TypeInv', NEW t \in Thread, ConnectDuplicate(t)
  PROVE MatchInv'
<1> USE DEF MatchInv
<1>1. /\ \A u \in Thread \ {t} : pc'[u] = pc[u] /\ arg'[u] = arg[u] /\ tid'[u] = tid[u]
      /\ bpc' = bpc /\ bid' = bid /\ listenq' = listenq /\ StillRuns
  BY ThreadFrame DEF ThreadStep
<1>2. PICK i \in Id : i = tid[t]
  BY DEF ConnectDuplicate, At, TypeInv, LocalsOK
<1>3. /\ UNCHANGED <<established, from, to, tid, arg>> /\ pc'[t] = "waitDisconnect"
      /\ connq[i] \in Seq(CmEvents) /\ connq[i] # <<>> /\ Head(connq[i]) = "ESTABLISHED"
      /\ connq'[i] = Tail(connq[i])
      /\ \A j \in Id \ {i} : connq'[j] = connq[j]
  BY <1>2 DEF ConnectDuplicate, Goto, TypeInv, TypeOK, ThreadTypes, CmTypes
<1>4. phase[i] \in Confirmed
  BY <1>3, TakesFirst DEF ChannelsOK, ChannelOK
<1>5. /\ \A j \in Id \ {i} : phase'[j] = phase[j]
      /\ phase'[i] = phase[i] \/ phase'[i] \in {"dreqActive", "dreqPassive"}
  BY <1>2, <1>4 DEF ConnectDuplicate, Disconnected, Confirmed
<1>6. phase'[i] \in Confirmed
  BY <1>4, <1>5 DEF Confirmed
<1>7. Orderly
  BY <1>3, <1>4, <1>5, <1>6 DEF Orderly, Confirmed
<1>8. TidsOK'
  <2>1. \A j \in Id : phase[j] # "free" => phase'[j] # "free"
    BY <1>5, <1>6 DEF Confirmed
  <2> QED
    BY <1>3, <2>1, TidsKept
<1>9. WaitersOK'
  BY <1>1, <1>3, <1>7, <1>8, WaitersKept DEF WaiterOK
<1>10. ChannelsOK'
  <2>1. ChannelOK(i)'
    <3>1. \A k \in 1 .. Len(connq'[i]) : k + 1 \in 1 .. Len(connq[i])
                                         /\ connq'[i][k] = connq[i][k + 1]
      BY <1>3, TakesFirst
    <3>2. phase'[i] = "connected" => phase[i] = "connected"
      BY <1>5
    <3>3. phase'[i] \notin {"free", "loopback", "request", "pending", "replied", "rejected"}
      BY <1>6 DEF Confirmed
    <3> QED
      BY <1>6, <3>1, <3>2, <3>3 DEF ChannelsOK, ChannelOK
  <2>2. \A j \in Id \ {i} : ChannelOK(j)'
    BY <1>3, <1>5 DEF ChannelsOK, ChannelOK
  <2> QED
    BY <2>1, <2>2 DEF ChannelsOK
<1>11. RequestsOK'
  <2>1. ASSUME NEW n \in Node PROVE RequestOK(n)'
    <3>1. Handling(n)' => Handling(n)
      BY <1>1 DEF StillRuns, Handling
    <3>2. \A j \in Id : Asks(j, n) => Asks(j, n)'
      BY <1>3, <1>4, <1>5 DEF Asks, Confirmed
    <3> QED
      BY <1>1, <3>1, <3>2, RequestKept DEF RequestsOK
  <2> QED
    BY <2>1 DEF RequestsOK
<1>12. TableOK'
  <2>1. \A n, p \in Node : LET j == established[n][p] IN
          j # NoId /\ phase[j] \in {"replied", "orphan"} => phase'[j] = phase[j]
    <3>1. phase[i] \notin {"replied", "orphan"}
      BY <1>4 DEF Confirmed
    <3>2. \A n, p \in Node : established[n][p] \in Id \cup {NoId}
      BY DEF TypeInv, TypeOK, ManagerTypes
    <3>3. \A j \in Id : phase[j] \in {"replied", "orphan"} => phase'[j] = phase[j]
      BY <1>5, <3>1
    <3> QED
      BY <3>2, <3>3
  <2> QED
    BY <1>1, <1>3, <1>7, <2>1, TableKept
<1> QED
  BY <1>8, <1>9, <1>10, <1>11, <1>12

\* ConnectRefused: the id is freed only when nobody else refers to it.
LEMMA MatchRefused ==
  ASSUME MatchInv, TypeInv', NEW t \in Thread, ConnectRefused(t)
  PROVE MatchInv'
<1> USE DEF MatchInv
<1>1. /\ \A u \in Thread \ {t} : pc'[u] = pc[u] /\ arg'[u] = arg[u] /\ tid'[u] = tid[u]
      /\ bpc' = bpc /\ bid' = bid /\ listenq' = listenq /\ StillRuns
  BY ThreadFrame DEF ThreadStep
<1>2. PICK i \in Id : i = tid[t]
  BY DEF ConnectRefused, At, TypeInv, LocalsOK
<1>3. /\ established' = established /\ pc'[t] \in {"backoff", "idle"} /\ tid'[t] = NoId
      /\ connq'[i] = <<>>
      /\ \A j \in Id \ {i} : /\ connq'[j] = connq[j] /\ phase'[j] = phase[j]
                             /\ from'[j] = from[j] /\ to'[j] = to[j]
      /\ \/ phase[i] = "refused" /\ phase'[i] = "free"
         \/ phase'[i] = phase[i] /\ from'[i] = from[i] /\ to'[i] = to[i]
  BY <1>2 DEF ConnectRefused, Goto, Return, TypeInv, TypeOK, ThreadTypes, CmTypes
<1>4. Orderly
  BY <1>3 DEF Orderly
<1>5. TidsOK'
  <2>1. \A u \in Thread \ {t} : tid[u] # i
    BY <1>2 DEF TidsOK
  <2>2. \A u \in Thread : tid[u] \in Id \cup {NoId}
    BY DEF TypeInv, TypeOK, ThreadTypes
  <2> QED
    BY <1>1, <1>3, <2>1, <2>2 DEF TidsOK
<1>6. WaitersOK'
  BY <1>1, <1>3, <1>4, <1>5, WaitersKept DEF WaiterOK
<1>7. ChannelsOK'
  <2>1. ChannelOK(i)'
    BY <1>3 DEF ChannelOK
  <2>2. \A j \in Id \ {i} : ChannelOK(j)'
    BY <1>3 DEF ChannelsOK, ChannelOK
  <2> QED
    BY <2>1, <2>2 DEF ChannelsOK
<1>8. RequestsOK'
  <2>1. ASSUME NEW n \in Node PROVE RequestOK(n)'
    <3>1. Handling(n)' => Handling(n)
      BY <1>1 DEF StillRuns, Handling
    <3>2. \A j \in Id : Asks(j, n) => Asks(j, n)'
      BY <1>3 DEF Asks
    <3> QED
      BY <1>1, <3>1, <3>2, RequestKept DEF RequestsOK
  <2> QED
    BY <2>1 DEF RequestsOK
<1>9. TableOK'
  <2>1. \A n, p \in Node : LET j == established[n][p] IN
          j # NoId /\ phase[j] \in {"replied", "orphan"} => phase'[j] = phase[j]
    BY <1>3 DEF TypeInv, TypeOK, ManagerTypes
  <2> QED
    BY <1>1, <1>3, <1>4, <2>1, TableKept
<1> QED
  BY <1>5, <1>6, <1>7, <1>8, <1>9

\* ConnectInsert and ConnectLoopback enter the id of the call.
LEMMA MatchInsert ==
  ASSUME MatchInv, TypeInv', NEW t \in Thread, ConnectInsert(t) \/ ConnectLoopback(t)
  PROVE MatchInv'
<1> USE DEF MatchInv
<1>1. /\ \A u \in Thread \ {t} : pc'[u] = pc[u] /\ arg'[u] = arg[u] /\ tid'[u] = tid[u]
      /\ bpc' = bpc /\ bid' = bid /\ listenq' = listenq /\ StillRuns
  BY ThreadFrame DEF ThreadStep
<1>2. /\ UNCHANGED <<phase, from, to, connq>> /\ pc[t] \in {"insert", "loopback"}
      /\ tid[t] \in Id /\ arg[t] \in Node
      /\ pc'[t] \in {"idle", "abort"} /\ tid'[t] \in {tid[t], NoId}
  BY DEF ConnectInsert, ConnectLoopback, At, Goto, Return, cmVars, TypeInv, TypeOK,
     ThreadTypes, LocalsOK
<1>3. Orderly
  BY <1>2 DEF Orderly
<1>4. TidsOK'
  <2>1. \A u \in Thread : tid'[u] \in {tid[u], NoId}
    BY <1>1, <1>2
  <2> QED
    BY <1>2, <2>1, TidsKept
<1>5. WaitersOK'
  BY <1>1, <1>2, <1>3, <1>4, WaitersKept DEF WaiterOK
<1>6. ChannelsOK'
  BY <1>2 DEF ChannelsOK, ChannelOK
<1>7. RequestsOK'
  <2>1. ASSUME NEW n \in Node PROVE RequestOK(n)'
    <3>1. Handling(n)' => Handling(n)
      BY <1>1 DEF StillRuns, Handling
    <3>2. \A j \in Id : Asks(j, n) => Asks(j, n)'
      BY <1>2 DEF Asks
    <3> QED
      BY <1>1, <3>1, <3>2, RequestKept DEF RequestsOK
  <2> QED
    BY <2>1 DEF RequestsOK
<1>8. TableOK'
  <2>1. PICK p \in Node :
          /\ \/ established' = [established EXCEPT ![NodeOf[t]][p] = tid[t]]
             \/ established' = established
          /\ \/ pc[t] = "insert" /\ p = arg[t]
             \/ pc[t] = "loopback" /\ p = NodeOf[t]
    BY <1>2 DEF ConnectInsert, ConnectLoopback, At
  <2>2. \A m, q \in Node : \/ established'[m][q] = established[m][q]
                           \/ m = NodeOf[t] /\ q = p /\ established'[m][q] = tid[t]
    BY <2>1 DEF TypeInv, TypeOK, ManagerTypes
  <2>3. WaiterOK(t)
    BY DEF WaitersOK
  <2>4. \/ from[tid[t]] = NodeOf[t] /\ to[tid[t]] = p /\ phase[tid[t]] \in Confirmed
        \/ /\ p = NodeOf[t] /\ phase[tid[t]] = "loopback"
           /\ from[tid[t]] = NodeOf[t] /\ to[tid[t]] = NodeOf[t]
    BY <2>1, <2>3 DEF WaiterOK
  <2>5. established'[NodeOf[t]][p] = tid[t] => EntryOK(NodeOf[t], p)'
    BY <1>2, <2>4 DEF EntryOK
  <2>6. \A m, q \in Node : EntryOK(m, q)' \/ established'[m][q] = established[m][q]
    BY <2>2, <2>5
  <2> QED
    BY <1>1, <1>2, <1>3, <2>6, TableKept
<1> QED
  BY <1>4, <1>5, <1>6, <1>7, <1>8

LEMMA MatchThreads ==
  ASSUME MatchInv, TypeInv', NEW t \in Thread,
         ThreadStep(t) \/ ThreadFault(t) \/ ThreadCall(t)
  PROVE MatchInv'
BY MatchQuietThread, MatchOpen, MatchEstablished, MatchDuplicate, MatchRefused,
   MatchInsert DEF ThreadStep

\* OnConnectAcquire and OnConnectFind: the request is turned down.
LEMMA MatchReject ==
  ASSUME MatchInv, TypeInv', NEW n \in Node, BrokerStep(n), Handling(n),
         Reject(bid[n]), BrokerReturn(n), listenq' = listenq, established' = established
  PROVE MatchInv'
<1> USE DEF MatchInv
<1>1. /\ pc' = pc /\ arg' = arg /\ tid' = tid /\ from' = from /\ to' = to /\ connq' = connq
      /\ StillRuns
  BY BrokerFrame
<1>2. PICK i \in Id : i = bid[n]
  BY DEF Handling, TypeInv, LocalsOK
<1>3. Asks(i, n)
  BY <1>2 DEF RequestsOK, RequestOK
<1>4. /\ phase[i] \in {"pending", "timedout"}
      /\ phase[i] = "pending" => phase'[i] = "rejected"
      /\ phase[i] = "timedout" => phase'[i] = "closed"
      /\ \A j \in Id \ {i} : phase'[j] = phase[j]
  BY <1>2, <1>3 DEF Asks, Reject, TypeInv, TypeOK, CmTypes
<1>5. Orderly
  BY <1>1, <1>4 DEF Orderly, Confirmed
<1>6. TidsOK'
  <2>1. \A j \in Id : phase[j] # "free" => phase'[j] # "free"
    BY <1>4
  <2> QED
    BY <1>1, <2>1, TidsKept
<1>7. WaitersOK'
  BY <1>1, <1>5, <1>6, WaitersKept
<1>8. ChannelsOK'
  <2>1. ChannelOK(i)'
    BY <1>1, <1>4 DEF ChannelsOK, ChannelOK, Confirmed
  <2>2. \A j \in Id \ {i} : ChannelOK(j)'
    BY <1>1, <1>4 DEF ChannelsOK, ChannelOK
  <2> QED
    BY <2>1, <2>2 DEF ChannelsOK
<1>9. RequestsOK'
  BY <1>1, <1>2, <1>4, RequestAnswered
<1>10. TableOK'
  <2>1. \A m, p \in Node : LET j == established[m][p] IN
          j # NoId /\ phase[j] \in {"replied", "orphan"} => phase'[j] = phase[j]
    BY <1>4 DEF TypeInv, TypeOK, ManagerTypes
  <2> QED
    BY <1>1, <1>5, <2>1, TableKept
<1> QED
  BY <1>6, <1>7, <1>8, <1>9, <1>10

\* OnConnectAccept: what is inserted is a request of that peer to this node.
LEMMA MatchAccept ==
  ASSUME MatchInv, TypeInv', NEW n \in Node, OnConnectAccept(n)
  PROVE MatchInv'
<1> USE DEF MatchInv
<1>1. /\ pc' = pc /\ arg' = arg /\ tid' = tid /\ from' = from /\ to' = to /\ connq' = connq
      /\ \A m \in Node \ {n} : bpc'[m] = bpc[m] /\ bid'[m] = bid[m]
      /\ StillRuns
  BY BrokerFrame DEF BrokerStep
<1>2. Handling(n) /\ listenq' = listenq
  BY DEF OnConnectAccept, BrokerAt, Handling
<1>3. PICK i \in Id : i = bid[n]
  BY <1>2 DEF Handling, TypeInv, LocalsOK
<1>4. Asks(i, n)
  BY <1>2, <1>3 DEF RequestsOK, RequestOK
<1>5. CASE bpc'[n] = "abort" /\ UNCHANGED <<established, phase>>
  <2>1. ~Handling(n)'
    BY <1>5 DEF Handling
  <2> QED
    BY <1>1, <1>2, <1>5, <2>1, MatchBroker
<1>6. CASE /\ established' = [established EXCEPT ![n][from[i]] = i]
           /\ Accept(i) /\ BrokerReturn(n)
  <2>1. /\ phase[i] \in {"pending", "timedout"}
        /\ phase[i] = "pending" => phase'[i] = "replied"
        /\ phase[i] = "timedout" => phase'[i] = "orphan"
        /\ \A j \in Id \ {i} : phase'[j] = phase[j]
    BY <1>4, <1>6 DEF Asks, Accept, TypeInv, TypeOK, CmTypes
  <2>2. Orderly
    BY <1>1, <2>1 DEF Orderly, Confirmed
  <2>3. TidsOK'
    <3>1. \A j \in Id : phase[j] # "free" => phase'[j] # "free"
      BY <2>1
    <3> QED
      BY <1>1, <3>1, TidsKept
  <2>4. WaitersOK'
    BY <1>1, <2>2, <2>3, WaitersKept
  <2>5. ChannelsOK'
    <3>1. ChannelOK(i)'
      BY <1>1, <2>1 DEF ChannelsOK, ChannelOK, Confirmed
    <3>2. \A j \in Id \ {i} : ChannelOK(j)'
      BY <1>1, <2>1 DEF ChannelsOK, ChannelOK
    <3> QED
      BY <3>1, <3>2 DEF ChannelsOK
  <2>6. RequestsOK'
    BY <1>1, <1>2, <1>3, <1>6, <2>1, RequestAnswered
  <2>7. TableOK'
    <3>1. from[i] \in Node
      BY DEF TypeInv, TypeOK, CmTypes
    <3>2. \A m, q \in Node : \/ established'[m][q] = established[m][q]
                             \/ m = n /\ q = from[i] /\ established'[m][q] = i
      BY <1>6, <3>1 DEF TypeInv, TypeOK, ManagerTypes
    <3>3. \A q \in Node : q = from[i] /\ established'[n][q] = i => EntryOK(n, q)'
      BY <1>1, <1>4, <2>1 DEF EntryOK, Asks
    <3>4. \A m, q \in Node : EntryOK(m, q)' \/ established'[m][q] = established[m][q]
      BY <3>2, <3>3
    <3>5. \A m, p \in Node : LET j == established[m][p] IN
            j # NoId /\ phase[j] \in {"replied", "orphan"} => phase'[j] = phase[j]
      BY <2>1 DEF TypeInv, TypeOK, ManagerTypes
    <3> QED
      BY <1>1, <2>2, <3>4, <3>5, TableKept
  <2> QED
    BY <2>3, <2>4, <2>5, <2>6, <2>7
<1> QED
  BY <1>3, <1>5, <1>6 DEF OnConnectAccept, BrokerGoto, TypeInv, TypeOK, BrokerTypes

\* BrokerEvent: a request that is taken from the queue is not announced again.
LEMMA MatchEvent ==
  ASSUME MatchInv, TypeInv', NEW n \in Node, BrokerEvent(n)
  PROVE MatchInv'
<1> USE DEF MatchInv
<1> DEFINE q == listenq[n]
<1>1. /\ pc' = pc /\ arg' = arg /\ tid' = tid /\ from' = from /\ to' = to /\ connq' = connq
      /\ \A m \in Node \ {n} : /\ bpc'[m] = bpc[m] /\ bid'[m] = bid[m]
                               /\ listenq'[m] = listenq[m]
      /\ StillRuns
  BY BrokerFrame DEF BrokerStep
<1>2. phase' = phase /\ established' = established
  BY DEF BrokerEvent, managerVars
<1>3. Orderly
  BY <1>1, <1>2 DEF Orderly
<1>4. TidsOK'
  BY <1>1, <1>2, TidsKept
<1>5. WaitersOK'
  BY <1>1, <1>3, <1>4, WaitersKept
<1>6. ChannelsOK'
  BY <1>1, <1>2 DEF ChannelsOK, ChannelOK
<1>7. TableOK'
  BY <1>1, <1>2, <1>3, TableKept
<1>8. ASSUME NEW m \in Node, m # n PROVE RequestOK(m)'
  <2>1. Handling(m)' => Handling(m)
    BY <1>1, <1>8 DEF StillRuns, Handling
  <2>2. \A j \in Id : Asks(j, m) => Asks(j, m)'
    BY <1>1, <1>2 DEF Asks
  <2> QED
    BY <1>1, <1>8, <2>1, <2>2, RequestKept DEF RequestsOK
<1>9. RequestOK(n)'
  <2>1. q \in Seq(CmEvents \X Id) /\ q # <<>> /\ listenq'[n] = Tail(q)
    BY DEF BrokerEvent, TypeInv, TypeOK, CmTypes
  <2>2. /\ 1 \in 1 .. Len(q) /\ Head(q) = q[1]
        /\ \A k \in 1 .. Len(listenq'[n]) : k + 1 \in 1 .. Len(q)
                                            /\ listenq'[n][k] = q[k + 1]
    BY <2>1, TakesFirst
  <2>3. \A k \in Queued(n)' : k + 1 \in Queued(n) /\ listenq'[n][k] = q[k + 1] /\ k + 1 # 1
    BY <2>2 DEF Queued
  <2>4. Handling(n)' => q[1][1] = "CONNECT_REQUEST" /\ bid'[n] = q[1][2]
    BY <2>2 DEF BrokerEvent, BrokerGoto, HandlerOf, Handling, TypeInv, TypeOK, BrokerTypes
  <2>5. q[1][1] = "CONNECT_REQUEST" => 1 \in Queued(n)
    BY <2>2 DEF Queued
  <2>6. RequestOK(n)
    BY DEF RequestsOK
  <2>7. ASSUME NEW k \in Queued(n)' PROVE Asks(listenq[n][k][2], n)'
    BY <1>1, <1>2, <2>3, <2>6 DEF RequestOK, Asks
  <2>8. ASSUME NEW j \in Queued(n)', NEW k \in Queued(n)',
               listenq'[n][j][2] = listenq'[n][k][2]
        PROVE j = k
    <3>1. j + 1 = k + 1
      BY <2>3, <2>6, <2>8 DEF RequestOK
    <3> QED
      BY <3>1 DEF Queued
  <2>9. ASSUME Handling(n)'
        PROVE Asks(bid[n], n)' /\ \A k \in Queued(n)' : listenq'[n][k][2] # bid'[n]
    <3>1. 1 \in Queued(n) /\ bid'[n] = q[1][2]
      BY <2>4, <2>5, <2>9
    <3>2. Asks(bid[n], n)'
      BY <1>1, <1>2, <2>6, <3>1 DEF RequestOK, Asks
    <3>3. \A k \in Queued(n)' : listenq'[n][k][2] # bid'[n]
      BY <2>3, <2>6, <3>1 DEF RequestOK
    <3> QED
      BY <3>2, <3>3
  <2> QED
    BY <2>7, <2>8, <2>9 DEF RequestOK
<1> QED
  BY <1>4, <1>5, <1>6, <1>7, <1>8, <1>9 DEF RequestsOK

\* Node n closes its listener and disconnects the ids of S, of which it is an
\* end; those it keeps no entry for.
LEMMA MatchClose ==
  ASSUME MatchInv, TypeInv', StillRuns, NEW n \in Node, NEW S,
         UNCHANGED <<pc, arg, tid, from, to>>,
         listenq' = [listenq EXCEPT ![n] = <<>>], ~Handling(n)',
         \A i \in Id :
           /\ connq'[i] \in {connq[i], <<>>}
           /\ i \in S => n \in {from[i], to[i]}
           /\ phase'[i] = ListenerClosed(n, Disconnected(n, S))[i],
         \A m \in Node \ {n} : bpc'[m] = bpc[m] /\ bid'[m] = bid[m],
         \A m, p \in Node : established'[m][p] \in {established[m][p], NoId},
         S = {} \/ ~Running(n)' \/ \A p \in Node : established'[n][p] = NoId
  PROVE MatchInv'
<1> USE DEF MatchInv
<1>1. ASSUME NEW i \in Id
      PROVE \/ i \in S /\ phase[i] = "connected" /\ phase'[i] \in {"dreqActive", "dreqPassive"}
            \/ i \in S /\ phase[i] = "replied" /\ from[i] = n /\ phase'[i] = "orphan"
            \/ i \in S /\ phase[i] = "replied" /\ from[i] # n /\ phase'[i] = "rejected"
            \/ to[i] = n /\ phase[i] = "pending" /\ phase'[i] = "rejected"
            \/ phase'[i] = phase[i] /\ ~(to[i] = n /\ phase[i] = "pending")
  BY DEF ListenerClosed, Disconnected
<1>2. \A i \in Id : /\ phase[i] \in Confirmed => phase'[i] \in Confirmed
                    /\ phase[i] # "free" => phase'[i] # "free"
                    /\ phase[i] = "loopback" => phase'[i] = "loopback"
  BY <1>1 DEF Confirmed
<1>3. Orderly
  BY <1>2 DEF Orderly
<1>4. TidsOK'
  BY <1>2, TidsKept
<1>5. WaitersOK'
  BY <1>3, <1>4, WaitersKept
<1>6. ChannelsOK'
  <2>1. ASSUME NEW i \in Id PROVE ChannelOK(i)'
    <3>1. ChannelOK(i) /\ connq'[i] \in {connq[i], <<>>}
      BY DEF ChannelsOK
    <3>2. CASE phase[i] = "connected" /\ phase'[i] \in {"dreqActive", "dreqPassive"}
      BY <3>1, <3>2 DEF ChannelOK, Confirmed
    <3>3. CASE phase[i] \in {"replied", "pending"} /\ phase'[i] \in {"orphan", "rejected"}
      BY <3>1, <3>3 DEF ChannelOK
    <3>4. CASE phase'[i] = phase[i]
      BY <3>1, <3>4 DEF ChannelOK
    <3> QED
      BY <1>1, <3>2, <3>3, <3>4
  <2> QED
    BY <2>1 DEF ChannelsOK
<1>7. RequestsOK'
  <2>1. RequestOK(n)'
    BY RequestGone DEF TypeInv, TypeOK, CmTypes
  <2>2. ASSUME NEW m \in Node, m # n PROVE RequestOK(m)'
    <3>1. listenq'[m] = listenq[m]
      BY <2>2 DEF TypeInv, TypeOK, CmTypes
    <3>2. Handling(m)' => Handling(m) /\ bid'[m] = bid[m]
      BY <2>2 DEF StillRuns, Handling
    <3>3. \A i \in Id : Asks(i, m) => Asks(i, m)'
      BY <1>1, <2>2 DEF Asks
    <3> QED
      BY <3>1, <3>2, <3>3, RequestKept DEF RequestsOK
  <2> QED
    BY <2>1, <2>2 DEF RequestsOK
<1>8. TableOK'
  <2>1. ASSUME NEW m \in Node, NEW p \in Node, NEW i \in Id,
               Running(m)', established'[m][p] = i, established[m][p] = i,
               to[i] = m, phase[i] \in {"replied", "orphan"}
        PROVE phase'[i] \in Confirmed \cup {"replied", "orphan"}
    <3>1. CASE m # n
      BY <1>1, <2>1, <3>1
    <3>2. CASE m = n
      <4>1. i \notin S
        BY <2>1, <3>2
      <4> QED
        BY <1>1, <2>1, <4>1
    <3> QED
      BY <3>1, <3>2
  <2>2. \A m, p \in Node : established[m][p] \in Id \cup {NoId}
    BY DEF TypeInv, TypeOK, ManagerTypes
  <2> QED
    BY <1>3, <2>1, <2>2, TableKept
<1> QED
  BY <1>4, <1>5, <1>6, <1>7, <1>8

LEMMA MatchDisconnect ==
  ASSUME MatchInv, TypeInv', NEW n \in Node, OnDisconnectDestroy(n)
  PROVE MatchInv'
<1>1. /\ pc' = pc /\ arg' = arg /\ tid' = tid /\ from' = from /\ to' = to /\ connq' = connq
      /\ \A m \in Node \ {n} : bpc'[m] = bpc[m] /\ bid'[m] = bid[m]
      /\ StillRuns
  BY BrokerFrame DEF BrokerStep, MatchInv
<1>2. /\ listenq' = [listenq EXCEPT ![n] = <<>>] /\ established' = established
      /\ phase' = ListenerClosed(n, phase)
  BY DEF OnDisconnectDestroy
<1>3. ~Handling(n)'
  BY DEF OnDisconnectDestroy, BrokerReturn, Handling, MatchInv, TypeInv, TypeOK, BrokerTypes
<1>4. \A i \in Id : phase'[i] = ListenerClosed(n, Disconnected(n, {}))[i]
  BY <1>2 DEF ListenerClosed, Disconnected
<1> QED
  BY <1>1, <1>2, <1>3, <1>4, MatchClose

LEMMA MatchBrokers ==
  ASSUME MatchInv, TypeInv', NEW n \in Node, BrokerStep(n)
  PROVE MatchInv'
<1>1. /\ pc' = pc /\ arg' = arg /\ tid' = tid /\ from' = from /\ to' = to /\ connq' = connq
      /\ \A m \in Node \ {n} : bpc'[m] = bpc[m] /\ bid'[m] = bid[m]
      /\ Running(n) /\ StillRuns
  BY BrokerFrame DEF MatchInv
<1>2. CASE \/ BrokerExit(n) \/ OnConnectRequest(n) \/ OnDisconnectAcquire(n)
           \/ OnConnectAcquire(n) /\ phase' = phase /\ bid' = bid
           \/ OnConnectFind(n) /\ phase' = phase /\ bid' = bid
  <2>1. UNCHANGED <<established, phase, listenq>>
    BY <1>2 DEF BrokerExit, OnConnectRequest, OnDisconnectAcquire, OnConnectAcquire,
       OnConnectFind, managerVars, cmVars
  <2>2. Handling(n)' => Handling(n) /\ bid'[n] = bid[n]
    BY <1>1, <1>2 DEF BrokerExit, OnConnectRequest, OnDisconnectAcquire, OnConnectAcquire,
       OnConnectFind, BrokerGoto, BrokerReturn, BrokerAt, Handling, MatchInv, TypeInv,
       TypeOK, BrokerTypes
  <2> QED
    BY <1>1, <2>1, <2>2, MatchBroker
<1>3. CASE OnDisconnectErase(n)
  <2>1. phase' = phase /\ listenq' = listenq /\ ~Handling(n)'
    BY <1>3 DEF OnDisconnectErase, BrokerGoto, Handling, cmVars, MatchInv, TypeInv, TypeOK,
       BrokerTypes
  <2>2. \A m, p \in Node : established'[m][p] \in {established[m][p], NoId}
    BY <1>3 DEF OnDisconnectErase, MatchInv, TypeInv, TypeOK, ManagerTypes
  <2> QED
    BY <1>1, <2>1, <2>2, MatchBroker
<1>4. CASE (OnConnectAcquire(n) \/ OnConnectFind(n)) /\ Reject(bid[n]) /\ BrokerReturn(n)
  <2>1. Handling(n) /\ listenq' = listenq /\ established' = established
    BY <1>1, <1>4 DEF OnConnectAcquire, OnConnectFind, BrokerAt, Handling
  <2> QED
    BY <1>4, <2>1, MatchReject
<1> QED
  BY <1>2, <1>3, <1>4, MatchAccept, MatchEvent, MatchDisconnect
     DEF BrokerStep, OnConnectAcquire, OnConnectFind

\* The destructor, and what the kernel does for a process that has aborted.
LEMMA MatchNode ==
  ASSUME MatchInv, TypeInv', NEW n \in Node,
         DtorStep(n) \/ NodeCall(n) \/ ProcessCleanup(n)
  PROVE MatchInv'
<1>1. UNCHANGED <<pc, arg, tid, bpc, bid, from, to>> /\ StillRuns
  BY DEF DtorStep, NodeCall, DtorStop, DtorCleanup, DtorDestroy, DtorAcquire, Shutdown, ProcessCleanup,
     threadVars, brokerVars, cmVars, StillRuns, Running
<1>2. CASE DtorStop(n) \/ DtorDestroy(n) \/ DtorAcquire(n) \/ Shutdown(n)
  <2>1. UNCHANGED <<established, phase, connq, listenq>>
    BY <1>2 DEF DtorStop, DtorDestroy, DtorAcquire, Shutdown, cmVars
  <2>2. Handling(n)' => Handling(n)
    BY <1>1 DEF Handling, StillRuns
  <2> QED
    BY <1>1, <2>1, <2>2, MatchBroker
<1>3. CASE DtorCleanup(n)
  <2> DEFINE mine == {established[n][p] : p \in Node \ {n}}
  <2>1. /\ phase' = ListenerClosed(n, Disconnected(n, mine))
        /\ connq' = [i \in Id |-> IF i \in mine /\ from[i] = n THEN <<>> ELSE connq[i]]
        /\ listenq' = [listenq EXCEPT ![n] = <<>>]
        /\ established' = [established EXCEPT ![n] = [p \in Node |-> NoId]]
        /\ Running(n) /\ bpc[n] = "exited"
    BY <1>3 DEF DtorCleanup, BrokerAt
  <2>2. ~Handling(n)'
    BY <1>1, <2>1 DEF Handling
  <2>3. \A i \in Id : i \in mine => n \in {from[i], to[i]}
    BY <2>1 DEF MatchInv, TableOK, EntryOK
  <2>4. \A m, p \in Node : established'[m][p] \in {established[m][p], NoId}
    BY <2>1 DEF MatchInv, TypeInv, TypeOK, ManagerTypes
  <2>5. \A p \in Node : established'[n][p] = NoId
    BY <2>1 DEF MatchInv, TypeInv, TypeOK, ManagerTypes
  <2>6. \A i \in Id : connq'[i] \in {connq[i], <<>>}
    BY <2>1
  <2> HIDE DEF mine
  <2> QED
    BY <1>1, <2>1, <2>2, <2>3, <2>4, <2>5, <2>6, MatchClose
<1>4. CASE ProcessCleanup(n)
  <2> DEFINE mine == {i \in Id : n \in {from[i], to[i]}}
  <2>1. /\ phase' = ListenerClosed(n, Disconnected(n, mine))
        /\ listenq' = [listenq EXCEPT ![n] = <<>>]
        /\ established' = established /\ connq' = connq /\ ~Running(n)
    BY <1>4 DEF ProcessCleanup, managerVars
  <2>2. ~Running(n)' /\ ~Handling(n)'
    BY <1>1, <2>1 DEF Handling, StillRuns
  <2>3. \A i \in Id : i \in mine => n \in {from[i], to[i]}
    OBVIOUS
  <2> HIDE DEF mine
  <2> QED
    BY <1>1, <2>1, <2>2, <2>3, MatchClose
<1> QED
  BY <1>2, <1>3, <1>4 DEF DtorStep, NodeCall

\* librdmacm moves id i on.
LEMMA MatchMoved ==
  ASSUME MatchInv, TypeInv', NEW i \in Id,
         UNCHANGED <<established, pc, arg, tid, bpc, bid, from, to>>,
         \A j \in Id \ {i} : phase'[j] = phase[j] /\ connq'[j] = connq[j],
         phase[i] \notin {"free", "loopback"}, phase'[i] # "free",
         phase[i] \in Confirmed \cup {"replied", "orphan"} => phase'[i] \in Confirmed,
         ChannelOK(i)', RequestsOK'
  PROVE MatchInv'
<1> USE DEF MatchInv
<1>1. Orderly
  BY DEF Orderly
<1>2. TidsOK'
  <2>1. \A j \in Id : phase[j] # "free" => phase'[j] # "free"
    OBVIOUS
  <2> QED
    BY <2>1, TidsKept
<1>3. WaitersOK'
  BY <1>1, <1>2, WaitersKept
<1>4. ChannelsOK'
  <2>1. \A j \in Id \ {i} : ChannelOK(j)'
    BY DEF ChannelsOK, ChannelOK
  <2> QED
    BY <2>1 DEF ChannelsOK
<1>5. TableOK'
  <2>1. StillRuns
    BY DEF StillRuns, Running
  <2>2. \A n, p \in Node : established[n][p] \in Id \cup {NoId}
    BY DEF TypeInv, TypeOK, ManagerTypes
  <2>3. \A j \in Id : phase[j] \in {"replied", "orphan"} =>
          phase'[j] \in Confirmed \cup {"replied", "orphan"}
    OBVIOUS
  <2> QED
    BY <1>1, <2>1, <2>2, <2>3, TableKept
<1> QED
  BY <1>2, <1>3, <1>4, <1>5

\* What an event adds to a channel.
LEMMA Appends ==
  ASSUME NEW S, NEW q \in Seq(S), NEW e \in S
  PROVE /\ Len(q) \in Nat /\ Len(Append(q, e)) = Len(q) + 1
        /\ \A k \in 1 .. Len(q) : Append(q, e)[k] = q[k]
        /\ Append(q, e)[Len(q) + 1] = e
OBVIOUS

\* A listen channel on which id i is announced, if at all, by another event
\* than a request.
LEMMA RequestNoise ==
  ASSUME TypeInv, NEW n \in Node, RequestOK(n), NEW i \in Id, NEW e \in CmEvents,
         e # "CONNECT_REQUEST",
         listenq'[n] = listenq[n] \/ listenq'[n] = Append(listenq[n], <<e, i>>),
         \A j \in Id : Asks(j, n) => Asks(j, n)',
         pc' = pc, bpc' = bpc, bid' = bid
  PROVE RequestOK(n)'
<1>1. Handling(n)' => Handling(n)
  BY DEF Handling, Running
<1>2. CASE listenq'[n] = listenq[n]
  BY <1>1, <1>2, RequestKept
<1>3. CASE listenq'[n] = Append(listenq[n], <<e, i>>)
  <2>1. listenq[n] \in Seq(CmEvents \X Id) /\ <<e, i>> \in CmEvents \X Id
    BY DEF TypeInv, TypeOK, CmTypes
  <2>2. /\ Len(listenq[n]) \in Nat /\ Len(listenq'[n]) = Len(listenq[n]) + 1
        /\ \A k \in 1 .. Len(listenq[n]) : listenq'[n][k] = listenq[n][k]
        /\ listenq'[n][Len(listenq[n]) + 1] = <<e, i>>
    BY <1>3, <2>1, Appends
  <2>3. Queued(n)' = Queued(n) /\ \A k \in Queued(n) : listenq'[n][k] = listenq[n][k]
    BY <2>2 DEF Queued
  <2>4. ASSUME NEW k \in Queued(n) PROVE listenq[n][k][2] \in Id
    <3>1. listenq[n][k] \in CmEvents \X Id
      BY <2>1 DEF Queued
    <3> QED
      BY <3>1
  <2>5. \A k \in Queued(n) : Asks(listenq[n][k][2], n)'
    BY <2>3, <2>4 DEF RequestOK, Asks
  <2>6. Handling(n)' => bid[n] \in Id /\ Asks(bid[n], n)
    BY <1>1 DEF RequestOK, Handling, TypeInv, LocalsOK
  <2>7. Handling(n)' => Asks(bid[n], n)'
    BY <2>6 DEF Asks
  <2> QED
    BY <1>1, <2>3, <2>5, <2>7 DEF RequestOK, Asks
<1> QED
  BY <1>2, <1>3

\* DeliverRequest announces an id that was not announced before.
LEMMA RequestNews ==
  ASSUME MatchInv, NEW i \in Id, DeliverRequest(i), phase'[i] = "pending"
  PROVE RequestsOK'
<1> USE DEF MatchInv
<1>0. /\ phase[i] = "request" /\ \A j \in Id \ {i} : phase'[j] = phase[j]
      /\ UNCHANGED <<to, pc, bpc, bid>>
      /\ \A n \in Node \ {to[i]} : listenq'[n] = listenq[n]
      /\ listenq'[to[i]] = Append(listenq[to[i]], <<"CONNECT_REQUEST", i>>)
  BY DEF DeliverRequest, TypeInv, TypeOK, CmTypes, threadVars, brokerVars
<1>1. \A n \in Node : Handling(n)' => Handling(n)
  BY <1>0 DEF Handling, Running
<1>2. \A n \in Node, j \in Id : Asks(j, n) => j # i /\ Asks(j, n)'
  BY <1>0 DEF Asks
<1>3. ASSUME NEW n \in Node, n # to[i] PROVE RequestOK(n)'
  BY <1>0, <1>1, <1>2, <1>3, RequestKept DEF RequestsOK
<1>4. ASSUME NEW n \in Node, n = to[i] PROVE RequestOK(n)'
  <2>1. /\ listenq[n] \in Seq(CmEvents \X Id) /\ <<"CONNECT_REQUEST", i>> \in CmEvents \X Id
        /\ listenq'[n] = Append(listenq[n], <<"CONNECT_REQUEST", i>>)
    BY <1>0, <1>4 DEF TypeInv, TypeOK, CmTypes, CmEvents
  <2>2. /\ Len(listenq[n]) \in Nat /\ Len(listenq'[n]) = Len(listenq[n]) + 1
        /\ \A k \in 1 .. Len(listenq[n]) : listenq'[n][k] = listenq[n][k]
        /\ listenq'[n][Len(listenq[n]) + 1] = <<"CONNECT_REQUEST", i>>
    BY <2>1, Appends
  <2>3. \A k \in Queued(n)' : \/ k = Len(listenq[n]) + 1 /\ listenq'[n][k][2] = i
                              \/ k \in Queued(n) /\ listenq'[n][k] = listenq[n][k]
    BY <2>2 DEF Queued
  <2>4. ASSUME NEW k \in Queued(n)
        PROVE listenq[n][k][2] \in Id /\ listenq[n][k][2] # i
              /\ Asks(listenq[n][k][2], n)
    <3>1. listenq[n][k] \in CmEvents \X Id
      BY <2>1 DEF Queued
    <3>2. listenq[n][k][2] \in Id /\ Asks(listenq[n][k][2], n)
      BY <3>1 DEF RequestsOK, RequestOK
    <3> QED
      BY <1>2, <3>2
  <2>5. phase'[i] = "pending" /\ to'[i] = n
    BY <1>0, <1>4
  <2>6. \A k \in Queued(n)' : Asks(listenq[n][k][2], n)'
    BY <1>2, <2>3, <2>4, <2>5 DEF Asks
  <2>7. \A j, k \in Queued(n)' : listenq'[n][j][2] = listenq'[n][k][2] => j = k
    BY <2>3, <2>4 DEF RequestsOK, RequestOK
  <2>8. Handling(n)' => bid[n] \in Id /\ Asks(bid[n], n)
    BY <1>1 DEF RequestsOK, RequestOK, Handling, TypeInv, LocalsOK
  <2>9. Handling(n)' => Asks(bid[n], n)' /\ \A k \in Queued(n)' : listenq'[n][k][2] # bid'[n]
    BY <1>0, <1>1, <1>2, <2>3, <2>8 DEF RequestsOK, RequestOK, Asks
  <2> QED
    BY <2>6, <2>7, <2>9 DEF RequestOK
<1> QED
  BY <1>3, <1>4 DEF RequestsOK

LEMMA MatchCm ==
  ASSUME MatchInv, TypeInv', NEW i \in Id, Cm(i)
  PROVE MatchInv'
<1> USE DEF MatchInv
<1>1. UNCHANGED <<established, pc, arg, tid, bpc, bid, from, to>>
  BY DEF Cm, DeliverRequest, DeliverReply, DeliverReject, DeliverDisconnect, CmTimeout,
     ReplyTimeout, managerVars, threadVars, brokerVars
<1>2. \A j \in Id \ {i} : phase'[j] = phase[j] /\ connq'[j] = connq[j]
  BY DEF Cm, DeliverRequest, DeliverReply, DeliverReject, DeliverDisconnect, CmTimeout,
     ReplyTimeout, TypeInv, TypeOK, CmTypes
<1>3. ChannelOK(i) /\ connq[i] \in Seq(CmEvents) /\ to[i] \in Node
  BY DEF ChannelsOK, TypeInv, TypeOK, CmTypes
<1>4. ASSUME NEW e \in CmEvents, e # "CONNECT_REQUEST",
             listenq' = listenq \/ listenq' = [listenq EXCEPT ![to[i]] = Append(@, <<e, i>>)],
             phase[i] = "pending" => phase'[i] = "timedout",
             phase[i] # "timedout"
      PROVE RequestsOK'
  <2>1. ASSUME NEW n \in Node PROVE RequestOK(n)'
    <3>1. listenq'[n] = listenq[n] \/ listenq'[n] = Append(listenq[n], <<e, i>>)
      BY <1>4 DEF TypeInv, TypeOK, CmTypes
    <3>2. \A j \in Id : Asks(j, n) => Asks(j, n)'
      BY <1>1, <1>2, <1>4 DEF Asks
    <3> QED
      BY <1>1, <1>4, <3>1, <3>2, RequestNoise DEF RequestsOK
  <2> QED
    BY <2>1 DEF RequestsOK
<1>5. ASSUME NEW e \in CmEvents, connq' = [connq EXCEPT ![i] = Append(@, e)]
      PROVE /\ Len(connq[i]) \in Nat /\ Len(connq'[i]) = Len(connq[i]) + 1
            /\ \A k \in 1 .. Len(connq[i]) : connq'[i][k] = connq[i][k]
            /\ connq'[i][Len(connq[i]) + 1] = e
  <2>1. connq'[i] = Append(connq[i], e)
    BY <1>5 DEF TypeInv, TypeOK, CmTypes
  <2> QED
    BY <1>3, <2>1, Appends
<1>6. CASE DeliverRequest(i)
  <2>1. /\ phase[i] = "request" /\ connq' = connq
        /\ \/ phase'[i] = "pending"
           \/ phase'[i] = "rejected" /\ listenq' = listenq
    BY <1>6 DEF DeliverRequest, TypeInv, TypeOK, CmTypes
  <2>2. ChannelOK(i)'
    BY <1>3, <2>1 DEF ChannelOK, Confirmed
  <2>3. RequestsOK'
    BY <1>4, <1>6, <2>1, RequestNews, EventNames
  <2> QED
    BY <1>1, <1>2, <2>1, <2>2, <2>3, MatchMoved DEF Confirmed
<1>7. CASE DeliverReply(i)
  <2>1. /\ phase[i] = "replied" /\ phase'[i] = "connected"
        /\ connq' = [connq EXCEPT ![i] = Append(@, "ESTABLISHED")]
        /\ listenq' = [listenq EXCEPT ![to[i]] = Append(@, <<"ESTABLISHED", i>>)]
    BY <1>7 DEF DeliverReply, TypeInv, TypeOK, CmTypes
  <2>2. ChannelOK(i)'
    <3>1. connq[i] = <<>>
      BY <1>3, <2>1 DEF ChannelOK
    <3>2. Len(connq[i]) = 0
      BY <3>1
    <3>3. /\ Len(connq'[i]) = Len(connq[i]) + 1
          /\ connq'[i][Len(connq[i]) + 1] = "ESTABLISHED"
      BY <1>5, <2>1, EventNames
    <3>4. Len(connq'[i]) = 1 /\ connq'[i][1] = "ESTABLISHED"
      BY <3>2, <3>3
    <3> QED
      BY <2>1, <3>4 DEF ChannelOK, Confirmed
  <2>3. RequestsOK'
    BY <1>4, <2>1, EventNames
  <2> QED
    BY <1>1, <1>2, <2>1, <2>2, <2>3, MatchMoved DEF Confirmed
<1>8. CASE DeliverReject(i) \/ CmTimeout(i)
  <2>1. /\ phase[i] \in {"rejected", "request", "pending"}
        /\ phase'[i] \in {"refused", "timedout"}
        /\ phase[i] = "pending" => phase'[i] = "timedout"
        /\ listenq' = listenq
    BY <1>8 DEF DeliverReject, CmTimeout, TypeInv, TypeOK, CmTypes
  <2>2. PICK e \in {"REJECTED", "UNREACHABLE"} : connq' = [connq EXCEPT ![i] = Append(@, e)]
    BY <1>8 DEF DeliverReject, CmTimeout
  <2>3. ChannelOK(i)'
    <3>1. connq[i] = <<>>
      BY <1>3, <2>1 DEF ChannelOK
    <3>2. Len(connq[i]) = 0
      BY <3>1
    <3>3. /\ Len(connq'[i]) = Len(connq[i]) + 1
          /\ connq'[i][Len(connq[i]) + 1] = e
      BY <1>5, <2>2, EventNames
    <3>4. Len(connq'[i]) = 1 /\ connq'[i][1] = e
      BY <3>2, <3>3
    <3> QED
      BY <2>1, <3>4 DEF ChannelOK
  <2>4. RequestsOK'
    BY <1>4, <2>1, EventNames
  <2> QED
    BY <1>1, <1>2, <2>1, <2>3, <2>4, MatchMoved DEF Confirmed
<1>9. CASE DeliverDisconnect(i) \/ ReplyTimeout(i)
  <2>1. phase[i] \in {"dreqActive", "dreqPassive", "orphan"} /\ phase'[i] = "closed"
    BY <1>9 DEF DeliverDisconnect, ReplyTimeout, TypeInv, TypeOK, CmTypes
  <2>2. PICK e \in {"DISCONNECTED", "UNREACHABLE"} :
          listenq' = listenq \/ listenq' = [listenq EXCEPT ![to[i]] = Append(@, <<e, i>>)]
    BY <1>9 DEF DeliverDisconnect, ReplyTimeout
  <2>3. ChannelOK(i)'
    BY <2>1 DEF ChannelOK, Confirmed
  <2>4. RequestsOK'
    BY <1>4, <2>1, <2>2, EventNames
  <2> QED
    BY <1>1, <1>2, <2>1, <2>3, <2>4, MatchMoved DEF Confirmed
<1> QED
  BY <1>6, <1>7, <1>8, <1>9 DEF Cm

LEMMA MatchInit == Init => MatchInv
<1> SUFFICES ASSUME Init PROVE MatchInv
  OBVIOUS
<1>1. TypeInv
  BY TypeInit
<1>2. TidsOK /\ WaitersOK /\ ChannelsOK
  BY DEF Init, TidsOK, WaitersOK, WaiterOK, ChannelsOK, ChannelOK, Confirmed
<1>3. RequestsOK
  BY DEF Init, RequestsOK, RequestOK, Queued, Handling
<1>4. TableOK
  BY DEF Init, TableOK, EntryOK
<1> QED
  BY <1>1, <1>2, <1>3, <1>4 DEF MatchInv

LEMMA MatchNext == MatchInv /\ [Next]_vars => MatchInv'
<1> SUFFICES ASSUME MatchInv, [Next]_vars PROVE MatchInv'
  OBVIOUS
<1>1. TypeInv'
  BY TypeNext DEF MatchInv
<1>2. CASE Next
  BY <1>1, <1>2, MatchThreads, MatchBrokers, MatchNode, MatchCm DEF Next
<1>3. CASE UNCHANGED vars
  <2>1. TidsOK' /\ WaitersOK' /\ ChannelsOK' /\ RequestsOK' /\ TableOK'
    BY <1>3 DEF vars, managerVars, threadVars, brokerVars, cmVars, MatchInv, TidsOK,
       WaitersOK, WaiterOK, ChannelsOK, ChannelOK, RequestsOK, RequestOK, Queued, Asks,
       Handling, TableOK, EntryOK, Running
  <2> QED
    BY <1>1, <2>1 DEF MatchInv
<1> QED
  BY <1>2, <1>3

LEMMA MatchInvariant == Spec => []MatchInv
BY MatchInit, MatchNext, PTL DEF Spec

\* Whatever calls are made and whatever fails, for every number of nodes, threads
\* and connection ids: what established_ holds for a peer is a connection between
\* this node and that peer, as long as the process runs.
THEOREM TableMatchesPeers == Spec => []EntriesMatchPeer
<1>1. MatchInv => EntriesMatchPeer
  BY DEF MatchInv, TableOK, EntryOK, EntriesMatchPeer
<1> QED
  BY <1>1, MatchInvariant, PTL

-----------------------------------------------------------------------------
(***************************************************************************)
(* The lock and the table it protects.  The application is assumed to      *)
(* connect, look connections up and shut down; GetNumConnections, the      *)
(* destructor and the failures break what is proved here (see the runs     *)
(* cm_num and cm_live).                                                    *)
(***************************************************************************)

\* The calls and faults under which the lock is sound.
Disciplined == Calls \subseteq {"Connect", "GetConnection", "Shutdown"}

\* No thread is where only an abort, a failure or GetNumConnections leads.
QuietThreads ==
  \A t \in Thread :
    pc[t] \in {"idle", "connect", "lookup", "open", "loopback", "wait", "insert",
               "deref", "backoff", "get", "getLookup"}

\* Nothing is being destroyed and no broker handles a disconnect.
QuietNodes ==
  \A n \in Node :
    /\ dpc[n] = "alive" /\ listenOpen[n] /\ ~terminate[n]
    /\ bpc[n] \in {"poll", "request", "reqAcquire", "reqFind", "reqAccept"}

\* No connection is disconnected, timed out or accepted too late, and only a
\* connection to another node goes through that node's listener.
QuietIds ==
  \A i \in Id :
    /\ phase[i] \in {"free", "loopback", "request", "pending", "replied",
                     "rejected", "refused", "connected"}
    /\ phase[i] \in {"request", "pending"} => from[i] # to[i]

\* Id i waits for node n to answer it.
Unanswered(i, n) == phase[i] = "pending" /\ to[i] = n /\ from[i] # n

\* A listen channel announces only requests that wait for an answer, each of
\* them once, and the broker handles one that is not announced any more.
EventsOK ==
  \A n \in Node :
    /\ \A k \in 1 .. Len(listenq[n]) :
         listenq[n][k][1] \in {"CONNECT_REQUEST", "ESTABLISHED"}
    /\ \A k \in Queued(n) : Unanswered(listenq[n][k][2], n)
    /\ \A j, k \in Queued(n) : listenq[n][j][2] = listenq[n][k][2] => j = k
    /\ bpc[n] # "poll" => /\ bid[n] \in Id /\ Unanswered(bid[n], n)
                          /\ \A k \in Queued(n) : listenq[n][k][2] # bid[n]

\* The lock word says who is inside.
LockOK ==
  /\ \A t \in Thread : InThreadSection(t) => mu[NodeOf[t]] = NodeOf[t]
  /\ \A t, u \in Thread :
       InThreadSection(t) /\ InThreadSection(u) /\ NodeOf[t] = NodeOf[u] => t = u
  /\ \A n \in Node :
       /\ mu[n] = n => \E t \in Thread : NodeOf[t] = n /\ InThreadSection(t)
       /\ mu[n] \notin {n, kUnlocked} <=> InBrokerSection(n)

\* What the lookup under the lock has found is still so.
EmptyOK ==
  /\ \A t \in Thread :
       /\ pc[t] \in {"open", "loopback", "wait", "insert"} =>
            established[NodeOf[t]][arg[t]] = NoId
       /\ pc[t] = "loopback" => arg[t] = NodeOf[t]
  /\ \A n \in Node : bpc[n] = "reqAccept" => established[n][from[bid[n]]] = NoId

LockInv ==
  TypeInv /\ QuietThreads /\ QuietNodes /\ QuietIds /\ EventsOK /\ LockOK /\ EmptyOK

USE ConstantsAssumption

\* A thread that stays inside, or outside, the lock keeps LockOK.
LEMMA ThreadMoves ==
  ASSUME TypeInv, LockOK, NEW t \in Thread, InThreadSection(t)' <=> InThreadSection(t),
         \A u \in Thread \ {t} : pc'[u] = pc[u],
         mu' = mu, bpc' = bpc
  PROVE LockOK'
<1>1. \A u \in Thread : InThreadSection(u)' <=> InThreadSection(u)
  BY DEF InThreadSection, InConnect
<1>2. \A n \in Node : InBrokerSection(n)' <=> InBrokerSection(n)
  BY DEF InBrokerSection
<1> QED
  BY <1>1, <1>2 DEF LockOK

\* A thread that finds kUnlocked and stores its node's id enters.
LEMMA ThreadEnters ==
  ASSUME TypeInv, LockOK, NEW t \in Thread, Acquired(NodeOf[t], NodeOf[t]),
         InThreadSection(t)', \A u \in Thread \ {t} : pc'[u] = pc[u], bpc' = bpc
  PROVE LockOK'
<1>1. \A u \in Thread \ {t} : InThreadSection(u)' <=> InThreadSection(u)
  BY DEF InThreadSection, InConnect
<1>2. \A n \in Node : InBrokerSection(n)' <=> InBrokerSection(n)
  BY DEF InBrokerSection
<1>3. /\ mu[NodeOf[t]] = kUnlocked /\ mu'[NodeOf[t]] = NodeOf[t]
      /\ \A n \in Node \ {NodeOf[t]} : mu'[n] = mu[n]
  BY DEF Acquired, TypeInv, TypeOK, ManagerTypes
<1> QED
  BY <1>1, <1>2, <1>3 DEF LockOK

LEMMA ThreadLeaves ==
  ASSUME TypeInv, LockOK, NEW t \in Thread, InThreadSection(t), Release(NodeOf[t]),
         ~InThreadSection(t)', \A u \in Thread \ {t} : pc'[u] = pc[u], bpc' = bpc
  PROVE LockOK'
<1>1. \A u \in Thread \ {t} : InThreadSection(u)' <=> InThreadSection(u)
  BY DEF InThreadSection, InConnect
<1>2. \A n \in Node : InBrokerSection(n)' <=> InBrokerSection(n)
  BY DEF InBrokerSection
<1>3. /\ mu[NodeOf[t]] = NodeOf[t] /\ mu'[NodeOf[t]] = kUnlocked
      /\ \A n \in Node \ {NodeOf[t]} : mu'[n] = mu[n]
  BY DEF Release, TypeInv, TypeOK, ManagerTypes, LockOK
<1> QED
  BY <1>1, <1>2, <1>3 DEF LockOK

LEMMA BrokerMoves ==
  ASSUME TypeInv, LockOK, NEW n \in Node, InBrokerSection(n)' <=> InBrokerSection(n),
         \A m \in Node \ {n} : bpc'[m] = bpc[m], mu' = mu, pc' = pc
  PROVE LockOK'
<1>1. \A u \in Thread : InThreadSection(u)' <=> InThreadSection(u)
  BY DEF InThreadSection, InConnect
<1>2. \A m \in Node : InBrokerSection(m)' <=> InBrokerSection(m)
  BY DEF InBrokerSection
<1> QED
  BY <1>1, <1>2 DEF LockOK

LEMMA BrokerEnters ==
  ASSUME TypeInv, LockOK, NEW n \in Node, NEW p \in Node, p # n, Acquired(n, p),
         InBrokerSection(n)', \A m \in Node \ {n} : bpc'[m] = bpc[m], pc' = pc
  PROVE LockOK'
<1>1. \A u \in Thread : InThreadSection(u)' <=> InThreadSection(u)
  BY DEF InThreadSection, InConnect
<1>2. \A m \in Node \ {n} : InBrokerSection(m)' <=> InBrokerSection(m)
  BY DEF InBrokerSection
<1>3. mu[n] = kUnlocked /\ mu'[n] = p /\ \A m \in Node \ {n} : mu'[m] = mu[m]
  BY DEF Acquired, TypeInv, TypeOK, ManagerTypes
<1> QED
  BY <1>1, <1>2, <1>3 DEF LockOK

LEMMA BrokerLeaves ==
  ASSUME TypeInv, LockOK, NEW n \in Node, InBrokerSection(n), Release(n),
         ~InBrokerSection(n)', \A m \in Node \ {n} : bpc'[m] = bpc[m], pc' = pc
  PROVE LockOK'
<1>1. \A u \in Thread : InThreadSection(u)' <=> InThreadSection(u)
  BY DEF InThreadSection, InConnect
<1>2. \A m \in Node \ {n} : InBrokerSection(m)' <=> InBrokerSection(m)
  BY DEF InBrokerSection
<1>3. /\ mu[n] \notin {n, kUnlocked} /\ mu'[n] = kUnlocked
      /\ \A m \in Node \ {n} : mu'[m] = mu[m]
  BY DEF Release, TypeInv, TypeOK, ManagerTypes, LockOK
<1> QED
  BY <1>1, <1>2, <1>3 DEF LockOK

\* Every event carries an id.
LEMMA EventIds ==
  ASSUME CmTypes, NEW n \in Node, NEW k \in 1 .. Len(listenq[n])
  PROVE listenq[n][k][2] \in Id
<1>1. listenq[n] \in Seq(CmEvents \X Id)
  BY DEF CmTypes
<1>2. listenq[n][k] \in CmEvents \X Id
  BY <1>1
<1> QED
  BY <1>2

\* EventsOK survives what leaves the queues and the unanswered requests alone.
LEMMA EventsFrame ==
  ASSUME TypeInv, EventsOK, listenq' = listenq,
         \A i \in Id : phase[i] = "pending" =>
           phase'[i] = "pending" /\ from'[i] = from[i] /\ to'[i] = to[i],
         \A n \in Node : \/ bpc'[n] = "poll"
                         \/ bpc[n] # "poll" /\ bid'[n] = bid[n]
  PROVE EventsOK'
<1> SUFFICES ASSUME NEW n \in Node
             PROVE /\ \A k \in Queued(n) : Unanswered(listenq[n][k][2], n)'
                   /\ bpc'[n] # "poll" =>
                        bid'[n] = bid[n] /\ bid[n] \in Id /\ Unanswered(bid[n], n)'
  BY DEF EventsOK, Queued
<1>1. \A i \in Id : Unanswered(i, n) => Unanswered(i, n)'
  BY DEF Unanswered
<1>2. \A k \in Queued(n) : listenq[n][k][2] \in Id
  BY EventIds DEF Queued, TypeInv, TypeOK
<1>3. \A k \in Queued(n) : Unanswered(listenq[n][k][2], n)'
  BY <1>1, <1>2 DEF EventsOK, Unanswered
<1>4. bpc'[n] # "poll" =>
        bid'[n] = bid[n] /\ bid[n] \in Id /\ Unanswered(bid[n], n)'
  BY <1>1 DEF EventsOK, Unanswered
<1> QED
  BY <1>3, <1>4

\* The broker answers the request it handles and polls again.
LEMMA EventsAnswered ==
  ASSUME TypeInv, EventsOK, NEW n \in Node, bpc[n] # "poll",
         BrokerReturn(n), listenq' = listenq, from' = from, to' = to,
         \A i \in Id \ {bid[n]} : phase'[i] = phase[i]
  PROVE EventsOK'
<1>1. bpc'[n] = "poll" /\ \A m \in Node \ {n} : bpc'[m] = bpc[m] /\ bid'[m] = bid[m]
  BY DEF BrokerReturn, TypeInv, TypeOK, BrokerTypes
<1>2. bid[n] \in Id /\ Unanswered(bid[n], n)
  BY DEF EventsOK
<1> SUFFICES ASSUME NEW m \in Node
             PROVE /\ \A k \in Queued(m) : Unanswered(listenq[m][k][2], m)'
                   /\ bpc'[m] # "poll" =>
                        bid'[m] = bid[m] /\ bid[m] \in Id /\ Unanswered(bid[m], m)'
  BY <1>1 DEF EventsOK, Queued
<1>3. \A i \in Id : i # bid[n] /\ Unanswered(i, m) => Unanswered(i, m)'
  BY DEF Unanswered
<1>4. \A k \in Queued(m) : listenq[m][k][2] \in Id
  BY EventIds DEF Queued, TypeInv, TypeOK
<1>5. \A k \in Queued(m) : listenq[m][k][2] # bid[n]
  BY <1>2 DEF EventsOK, Unanswered
<1>6. \A k \in Queued(m) : Unanswered(listenq[m][k][2], m)'
  BY <1>3, <1>4, <1>5 DEF EventsOK, Unanswered
<1>7. ASSUME bpc'[m] # "poll"
      PROVE bid'[m] = bid[m] /\ bid[m] \in Id /\ Unanswered(bid[m], m)'
  <2>1. m # n /\ bid'[m] = bid[m] /\ bid[m] \in Id /\ Unanswered(bid[m], m)
    BY <1>1, <1>7 DEF EventsOK
  <2>2. bid[m] # bid[n]
    BY <2>1, <1>2 DEF Unanswered
  <2> QED
    BY <1>3, <2>1, <2>2 DEF Unanswered
<1> QED
  BY <1>6, <1>7

\* A new request is announced to the node it is for.
LEMMA EventsRequest ==
  ASSUME TypeInv, QuietNodes, QuietIds, EventsOK, NEW i \in Id, DeliverRequest(i)
  PROVE EventsOK'
<1> USE DEF TypeInv, TypeOK
<1>1. /\ to[i] \in Node /\ listenOpen[to[i]]
      /\ phase[i] = "request" /\ phase'[i] = "pending"
      /\ \A j \in Id \ {i} : phase'[j] = phase[j]
      /\ from' = from /\ to' = to /\ bpc' = bpc /\ bid' = bid
  BY DEF DeliverRequest, QuietNodes, CmTypes, brokerVars
<1>2. /\ listenq'[to[i]] = Append(listenq[to[i]], <<"CONNECT_REQUEST", i>>)
      /\ \A m \in Node \ {to[i]} : listenq'[m] = listenq[m]
  BY <1>1 DEF DeliverRequest, CmTypes
<1>3. \A m \in Node, j \in Id : Unanswered(j, m) => j # i /\ Unanswered(j, m)'
  BY <1>1 DEF Unanswered
<1> SUFFICES ASSUME NEW m \in Node
             PROVE /\ \A k \in 1 .. Len(listenq'[m]) :
                        listenq'[m][k][1] \in {"CONNECT_REQUEST", "ESTABLISHED"}
                   /\ \A k \in Queued(m)' : Unanswered(listenq[m][k][2], m)'
                   /\ \A j, k \in Queued(m)' :
                        listenq'[m][j][2] = listenq'[m][k][2] => j = k
                   /\ bpc[m] # "poll" =>
                        /\ bid[m] \in Id /\ Unanswered(bid[m], m)'
                        /\ \A k \in Queued(m)' : listenq'[m][k][2] # bid[m]
  BY <1>1 DEF EventsOK
<1>4. \A k \in Queued(m) : listenq[m][k][2] \in Id
  BY EventIds DEF Queued
<1>5. bpc[m] # "poll" =>
        bid[m] \in Id /\ bid[m] # i /\ Unanswered(bid[m], m) /\ Unanswered(bid[m], m)'
  BY <1>1, <1>3 DEF EventsOK, Unanswered
<1>6. CASE m # to[i]
  <2>1. Queued(m)' = Queued(m) /\ listenq'[m] = listenq[m]
    BY <1>2, <1>6 DEF Queued
  <2>2. \A k \in Queued(m) : Unanswered(listenq[m][k][2], m)'
    BY <1>3, <1>4, <2>1 DEF EventsOK, Unanswered
  <2> QED
    BY <1>5, <2>1, <2>2 DEF EventsOK
<1>7. CASE m = to[i]
  <2> DEFINE len == Len(listenq[m])
  <2>0. listenq[m] \in Seq(CmEvents \X Id) /\ len \in Nat
    BY DEF CmTypes
  <2>1. /\ Len(listenq'[m]) = len + 1
        /\ \A k \in 1 .. len : listenq'[m][k] = listenq[m][k]
        /\ listenq'[m][len + 1] = <<"CONNECT_REQUEST", i>>
    <3>1. listenq'[m] = Append(listenq[m], <<"CONNECT_REQUEST", i>>)
      BY <1>2, <1>7
    <3>2. <<"CONNECT_REQUEST", i>> \in CmEvents \X Id
      BY DEF CmEvents
    <3> QED
      BY <2>0, <3>1, <3>2, Appends
  <2>2. \A k \in Queued(m)' : \/ k = len + 1 /\ listenq'[m][k][2] = i
                              \/ k \in Queued(m) /\ listenq'[m][k] = listenq[m][k]
    BY <2>0, <2>1 DEF Queued
  <2>3. \A k \in Queued(m) : listenq[m][k][2] # i /\ Unanswered(listenq[m][k][2], m)
    BY <1>3, <1>4 DEF EventsOK
  <2>4. phase'[i] = "pending" /\ to'[i] = m /\ from'[i] # m
    BY <1>1, <1>7 DEF QuietIds
  <2>5. \A k \in Queued(m)' : Unanswered(listenq[m][k][2], m)'
    BY <1>1, <1>4, <2>2, <2>3, <2>4 DEF Unanswered
  <2>6. \A j, k \in Queued(m)' : listenq'[m][j][2] = listenq'[m][k][2] => j = k
    BY <2>2, <2>3 DEF EventsOK
  <2>7. \A k \in 1 .. Len(listenq'[m]) :
          listenq'[m][k][1] \in {"CONNECT_REQUEST", "ESTABLISHED"}
    BY <2>0, <2>1 DEF EventsOK
  <2>8. bpc[m] # "poll" => \A k \in Queued(m)' : listenq'[m][k][2] # bid[m]
    BY <1>5, <2>2 DEF EventsOK
  <2> QED
    BY <1>5, <2>5, <2>6, <2>7, <2>8
<1> QED
  BY <1>6, <1>7

\* An ESTABLISHED event announces no request.
LEMMA EventsReply ==
  ASSUME TypeInv, EventsOK, NEW i \in Id, DeliverReply(i)
  PROVE EventsOK'
<1> USE DEF TypeInv, TypeOK
<1>1. /\ to[i] \in Node /\ phase[i] = "replied"
      /\ \A j \in Id \ {i} : phase'[j] = phase[j]
      /\ from' = from /\ to' = to /\ bpc' = bpc /\ bid' = bid
  BY DEF DeliverReply, CmTypes, brokerVars
<1>2. /\ listenq'[to[i]] = Append(listenq[to[i]], <<"ESTABLISHED", i>>)
      /\ \A m \in Node \ {to[i]} : listenq'[m] = listenq[m]
  BY <1>1 DEF DeliverReply, CmTypes
<1> SUFFICES ASSUME NEW m \in Node
             PROVE /\ \A k \in 1 .. Len(listenq'[m]) :
                        listenq'[m][k][1] \in {"CONNECT_REQUEST", "ESTABLISHED"}
                   /\ Queued(m)' = Queued(m)
                   /\ \A k \in Queued(m) : /\ listenq'[m][k] = listenq[m][k]
                                           /\ Unanswered(listenq[m][k][2], m)'
                   /\ bpc[m] # "poll" => bid[m] \in Id /\ Unanswered(bid[m], m)'
  BY <1>1 DEF EventsOK
<1>3. \A j \in Id : Unanswered(j, m) => Unanswered(j, m)'
  BY <1>1 DEF Unanswered
<1>4. bpc[m] # "poll" => bid[m] \in Id /\ Unanswered(bid[m], m)'
  BY <1>1, <1>3 DEF EventsOK, Unanswered
<1>5. /\ \A k \in 1 .. Len(listenq'[m]) :
           listenq'[m][k][1] \in {"CONNECT_REQUEST", "ESTABLISHED"}
      /\ Queued(m)' = Queued(m)
      /\ \A k \in Queued(m) : listenq'[m][k] = listenq[m][k]
  <2>1. CASE m # to[i]
    BY <1>2, <2>1 DEF Queued, EventsOK
  <2>2. CASE m = to[i]
    <3> DEFINE len == Len(listenq[m])
    <3>0. listenq[m] \in Seq(CmEvents \X Id) /\ len \in Nat
      BY DEF CmTypes
    <3>1. /\ Len(listenq'[m]) = len + 1
          /\ \A k \in 1 .. len : listenq'[m][k] = listenq[m][k]
          /\ listenq'[m][len + 1] = <<"ESTABLISHED", i>>
      <4>1. listenq'[m] = Append(listenq[m], <<"ESTABLISHED", i>>)
        BY <1>2, <2>2
      <4>2. <<"ESTABLISHED", i>> \in CmEvents \X Id
        BY DEF CmEvents
      <4> QED
        BY <3>0, <4>1, <4>2, Appends
    <3>2. Queued(m)' = Queued(m)
      BY <3>0, <3>1 DEF Queued
    <3>3. \A k \in 1 .. Len(listenq'[m]) :
            listenq'[m][k][1] \in {"CONNECT_REQUEST", "ESTABLISHED"}
      <4>1. \A k \in 1 .. len : listenq[m][k][1] \in {"CONNECT_REQUEST", "ESTABLISHED"}
        BY DEF EventsOK
      <4>2. 1 .. Len(listenq'[m]) = (1 .. len) \cup {len + 1}
        BY <3>0, <3>1
      <4> QED
        BY <3>1, <4>1, <4>2
    <3>4. \A k \in Queued(m) : listenq'[m][k] = listenq[m][k]
      BY <3>1 DEF Queued
    <3> QED
      BY <3>2, <3>3, <3>4
  <2> QED
    BY <2>1, <2>2
<1>6. \A k \in Queued(m) : listenq[m][k][2] \in Id
  BY EventIds DEF Queued
<1>7. \A k \in Queued(m) : Unanswered(listenq[m][k][2], m)'
  BY <1>3, <1>5, <1>6 DEF EventsOK, Unanswered
<1> QED
  BY <1>4, <1>5, <1>7

\* The broker takes the first event; a request it takes is announced no more.
LEMMA EventsTaken ==
  ASSUME TypeInv, QuietNodes, EventsOK, NEW n \in Node, BrokerEvent(n)
  PROVE EventsOK' /\ bpc'[n] \in {"poll", "request"}
<1> USE DEF TypeInv, TypeOK
<1> DEFINE q == listenq[n]
           len == Len(q)
<1>1. /\ phase' = phase /\ from' = from /\ to' = to
      /\ \A m \in Node \ {n} :
           bpc'[m] = bpc[m] /\ bid'[m] = bid[m] /\ listenq'[m] = listenq[m]
      /\ q # <<>> /\ listenq'[n] = Tail(q)
  BY DEF BrokerEvent, BrokerGoto, BrokerTypes, CmTypes
<1>2. q \in Seq(CmEvents \X Id) /\ len \in Nat /\ len > 0 /\ Head(q) = q[1]
  BY <1>1 DEF CmTypes
<1>3. /\ Len(listenq'[n]) = len - 1
      /\ \A k \in 1 .. len - 1 : listenq'[n][k] = q[k + 1]
  BY <1>1, <1>2
<1>4. q[1][1] \in {"CONNECT_REQUEST", "ESTABLISHED"} /\ q[1][2] \in Id
  BY <1>2, EventIds DEF EventsOK
<1>5. \/ q[1][1] = "CONNECT_REQUEST" /\ bpc'[n] = "request" /\ bid'[n] = q[1][2]
      \/ bpc'[n] = "poll"
  BY <1>2, <1>4 DEF BrokerEvent, BrokerGoto, HandlerOf, BrokerTypes
<1>6. \A k \in Queued(n)' : k + 1 \in Queued(n) /\ listenq'[n][k] = q[k + 1] /\ k # 0
  BY <1>2, <1>3 DEF Queued
<1>7. q[1][1] = "CONNECT_REQUEST" => 1 \in Queued(n)
  BY <1>2 DEF Queued
<1>8. \A m, j : Unanswered(j, m) => phase'[j] = "pending" /\ to'[j] = m /\ from'[j] # m
  BY <1>1 DEF Unanswered
<1>9. \A k \in 1 .. Len(listenq'[n]) :
        listenq'[n][k][1] \in {"CONNECT_REQUEST", "ESTABLISHED"}
  BY <1>2, <1>3 DEF EventsOK
<1>10. \A k \in Queued(n)' : Unanswered(listenq[n][k][2], n)'
  BY <1>6, <1>8 DEF EventsOK, Unanswered
<1>11. \A j, k \in Queued(n)' : listenq'[n][j][2] = listenq'[n][k][2] => j = k
  <2> SUFFICES ASSUME NEW j \in Queued(n)', NEW k \in Queued(n)',
                      listenq'[n][j][2] = listenq'[n][k][2]
               PROVE j = k
    OBVIOUS
  <2>1. j + 1 = k + 1
    BY <1>6 DEF EventsOK
  <2> QED
    BY <2>1 DEF Queued
<1>12. ASSUME bpc'[n] # "poll"
       PROVE /\ bid'[n] \in Id /\ Unanswered(bid[n], n)'
             /\ \A k \in Queued(n)' : listenq'[n][k][2] # bid'[n]
  <2>1. bid'[n] = q[1][2] /\ 1 \in Queued(n)
    BY <1>5, <1>7, <1>12
  <2>2. Unanswered(bid[n], n)'
    BY <1>8, <2>1 DEF EventsOK, Unanswered
  <2>3. ASSUME NEW k \in Queued(n)' PROVE listenq'[n][k][2] # bid'[n]
    <3>1. k + 1 # 1
      BY <1>6 DEF Queued
    <3> QED
      BY <1>6, <2>1, <3>1 DEF EventsOK
  <2> QED
    BY <1>4, <2>1, <2>2, <2>3
<1>13. ASSUME NEW m \in Node \ {n}
       PROVE /\ Queued(m)' = Queued(m)
             /\ \A k \in Queued(m) : Unanswered(listenq[m][k][2], m)'
             /\ bpc'[m] # "poll" => bid'[m] \in Id /\ Unanswered(bid[m], m)'
  BY <1>1, <1>13 DEF EventsOK, Queued, Unanswered
<1>14. EventsOK'
  <2> SUFFICES ASSUME NEW m \in Node
               PROVE /\ \A k \in 1 .. Len(listenq'[m]) :
                          listenq'[m][k][1] \in {"CONNECT_REQUEST", "ESTABLISHED"}
                     /\ \A k \in Queued(m)' : Unanswered(listenq[m][k][2], m)'
                     /\ \A j, k \in Queued(m)' :
                          listenq'[m][j][2] = listenq'[m][k][2] => j = k
                     /\ bpc'[m] # "poll" =>
                          /\ bid'[m] \in Id /\ Unanswered(bid[m], m)'
                          /\ \A k \in Queued(m)' : listenq'[m][k][2] # bid'[m]
    BY DEF EventsOK
  <2>1. CASE m = n
    BY <1>9, <1>10, <1>11, <1>12, <2>1
  <2>2. CASE m # n
    BY <1>1, <1>13, <2>2 DEF EventsOK
  <2> QED
    BY <2>1, <2>2
<1> QED
  BY <1>5, <1>14

\* EmptyOK survives a step of thread t that leaves the table alone.
LEMMA EmptyThread ==
  ASSUME EmptyOK, NEW t \in Thread,
         \A u \in Thread \ {t} : pc'[u] = pc[u] /\ arg'[u] = arg[u],
         established' = established, bpc' = bpc, bid' = bid,
         \A n \in Node : bpc[n] = "reqAccept" => from'[bid[n]] = from[bid[n]],
         pc'[t] \in {"open", "loopback", "wait", "insert"} =>
           established[NodeOf[t]][arg'[t]] = NoId,
         pc'[t] = "loopback" => arg'[t] = NodeOf[t]
  PROVE EmptyOK'
BY DEF EmptyOK

\* EmptyOK survives a step of the broker of n that leaves the table alone.
LEMMA EmptyBroker ==
  ASSUME EmptyOK, NEW n \in Node, pc' = pc, arg' = arg,
         established' = established, from' = from,
         \A m \in Node \ {n} : bpc'[m] = bpc[m] /\ bid'[m] = bid[m],
         bpc'[n] = "reqAccept" => established[n][from[bid'[n]]] = NoId
  PROVE EmptyOK'
BY DEF EmptyOK

\* Whoever inserts has the lock of the node, so nobody else has looked there.
LEMMA EmptyInsert ==
  ASSUME EmptyOK, NEW n \in Node,
         \A m \in Node \ {n} : established'[m] = established[m],
         from' = from,
         \A t \in Thread : \/ pc'[t] = pc[t] /\ arg'[t] = arg[t]
                           \/ pc'[t] = "idle",
         \A t \in Thread : NodeOf[t] = n => ~InThreadSection(t)',
         \A m \in Node : \/ bpc'[m] = bpc[m] /\ bid'[m] = bid[m]
                         \/ bpc'[m] = "poll",
         ~InBrokerSection(n)'
  PROVE EmptyOK'
<1>1. ASSUME NEW t \in Thread
      PROVE /\ pc'[t] \in {"open", "loopback", "wait", "insert"} =>
                 established'[NodeOf[t]][arg'[t]] = NoId
            /\ pc'[t] = "loopback" => arg'[t] = NodeOf[t]
  BY DEF EmptyOK, InThreadSection, InConnect
<1>2. ASSUME NEW m \in Node, bpc'[m] = "reqAccept"
      PROVE established'[m][from'[bid'[m]]] = NoId
  BY <1>2 DEF EmptyOK, InBrokerSection
<1> QED
  BY <1>1, <1>2 DEF EmptyOK

LEMMA LockThread ==
  ASSUME Disciplined, LockInv, NEW t \in Thread, ThreadStep(t)
  PROVE LockInv'
<1> USE DEF LockInv
<1>0. TypeInv'
  BY TypeThread
<1>1. CASE ConnectAcquire(t)
  <2>1. QuietThreads'
    BY <1>1 DEF ConnectAcquire, Goto, Return, At, QuietThreads, TypeInv,
       TypeOK, ThreadTypes
  <2>2. LockOK'
    <3>1. \A u \in Thread \ {t} : pc'[u] = pc[u]
      BY <1>1 DEF ConnectAcquire, Goto, Return, TypeInv, TypeOK, ThreadTypes
    <3>2. bpc' = bpc /\ ~InThreadSection(t)
      BY <1>1 DEF ConnectAcquire, At, brokerVars, InThreadSection, InConnect
    <3>3. CASE Acquired(NodeOf[t], NodeOf[t]) /\ Goto(t, "lookup")
      <4>1. InThreadSection(t)'
        BY <3>3 DEF Goto, InThreadSection, InConnect, TypeInv, TypeOK, ThreadTypes
      <4> QED
        BY <3>1, <3>2, <3>3, <4>1, ThreadEnters
    <3>4. CASE GaveUp(NodeOf[t]) /\ Return(t)
      <4>1. ~InThreadSection(t)' /\ mu' = mu
        BY <3>4 DEF GaveUp, Return, InThreadSection, InConnect, TypeInv, TypeOK,
           ThreadTypes
      <4> QED
        BY <3>1, <3>2, <4>1, ThreadMoves
    <3> QED
      BY <1>1, <3>3, <3>4 DEF ConnectAcquire
  <2>3. EmptyOK'
    BY <1>1 DEF ConnectAcquire, Goto, Return, At, EmptyOK, LocalsOK, TypeInv,
       TypeOK, ManagerTypes, ThreadTypes, BrokerTypes, CmTypes, brokerVars,
       cmVars
  <2>4. QuietNodes' /\ QuietIds' /\ EventsOK'
    BY <1>1 DEF ConnectAcquire, QuietNodes, QuietIds, EventsOK, Queued,
       Unanswered, brokerVars, cmVars
  <2> QED
    BY <1>0, <2>1, <2>2, <2>3, <2>4
<1>2. CASE ConnectLookup(t)
  <2>1. QuietThreads'
    BY <1>2 DEF ConnectLookup, Goto, At, QuietThreads, TypeInv, TypeOK,
       ThreadTypes
  <2>2. LockOK'
    <3>1. \A u \in Thread \ {t} : pc'[u] = pc[u]
      BY <1>2 DEF ConnectLookup, Goto, TypeInv, TypeOK, ThreadTypes
    <3>2. bpc' = bpc /\ InThreadSection(t)
      BY <1>2 DEF ConnectLookup, At, brokerVars, InThreadSection, InConnect
    <3>3. CASE Release(NodeOf[t]) /\ Goto(t, "deref")
      <4>1. ~InThreadSection(t)'
        BY <3>3 DEF Goto, InThreadSection, InConnect, TypeInv, TypeOK, ThreadTypes
      <4> QED
        BY <3>1, <3>2, <3>3, <4>1, ThreadLeaves
    <3>4. CASE mu' = mu /\ Goto(t, "open")
      <4>1. InThreadSection(t)'
        BY <3>4 DEF Goto, InThreadSection, InConnect, TypeInv, TypeOK, ThreadTypes
      <4> QED
        BY <3>1, <3>2, <3>4, <4>1, ThreadMoves
    <3> QED
      BY <1>2, <3>3, <3>4 DEF ConnectLookup
  <2>3. EmptyOK'
    BY <1>2 DEF ConnectLookup, Goto, At, EmptyOK, LocalsOK, TypeInv, TypeOK,
       ManagerTypes, ThreadTypes, BrokerTypes, CmTypes, brokerVars, cmVars
  <2>4. QuietNodes' /\ QuietIds' /\ EventsOK'
    BY <1>2 DEF ConnectLookup, QuietNodes, QuietIds, EventsOK, Queued,
       Unanswered, brokerVars, cmVars
  <2> QED
    BY <1>0, <2>1, <2>2, <2>3, <2>4
<1>3. CASE ConnectOpen(t)
  <2>1. QuietThreads'
    BY <1>3 DEF ConnectOpen, Goto, At, QuietThreads, TypeInv, TypeOK,
       ThreadTypes
  <2>2. QuietIds'
    BY <1>3 DEF ConnectOpen, At, QuietIds, LocalsOK, TypeInv, TypeOK, CmTypes
  <2>3. EventsOK'
    <3>1. \A i \in Id : phase[i] = "pending" =>
            phase'[i] = "pending" /\ from'[i] = from[i] /\ to'[i] = to[i]
      BY <1>3 DEF ConnectOpen, TypeInv, TypeOK, CmTypes
    <3>2. listenq' = listenq /\ bpc' = bpc /\ bid' = bid
      BY <1>3 DEF ConnectOpen, brokerVars
    <3> QED
      BY <3>1, <3>2, EventsFrame DEF EventsOK
  <2>4. LockOK'
    BY <1>3 DEF ConnectOpen, Goto, At, LockOK, InThreadSection, InConnect,
       InBrokerSection, TypeInv, TypeOK, ManagerTypes, ThreadTypes,
       BrokerTypes, managerVars, brokerVars
  <2>5. EmptyOK'
    <3>1. \A n \in Node :
            bpc[n] = "reqAccept" => bid[n] \in Id /\ phase[bid[n]] = "pending"
      BY DEF EventsOK, Unanswered
    <3>2. \A i \in Id : phase[i] = "pending" => from'[i] = from[i]
      BY <1>3 DEF ConnectOpen, TypeInv, TypeOK, CmTypes
    <3>3. \A u \in Thread \ {t} : pc'[u] = pc[u] /\ arg'[u] = arg[u]
      BY <1>3 DEF ConnectOpen, Goto, Return, TypeInv, TypeOK, ThreadTypes
    <3>4. /\ pc'[t] \in {"open", "loopback", "wait", "insert"} =>
               established[NodeOf[t]][arg'[t]] = NoId
          /\ pc'[t] = "loopback" => arg'[t] = NodeOf[t]
      BY <1>3 DEF ConnectOpen, Goto, Return, At, EmptyOK, TypeInv, TypeOK,
         ThreadTypes
    <3>5. established' = established /\ bpc' = bpc /\ bid' = bid
      BY <1>3 DEF ConnectOpen, managerVars, brokerVars
    <3> QED
      BY <3>1, <3>2, <3>3, <3>4, <3>5, EmptyThread
  <2>6. QuietNodes'
    BY <1>3 DEF ConnectOpen, QuietNodes, managerVars, brokerVars
  <2> QED
    BY <1>0, <2>1, <2>2, <2>3, <2>4, <2>5, <2>6
<1>4. CASE ConnectOpenLoopback(t)
  <2>1. QuietThreads'
    BY <1>4 DEF ConnectOpenLoopback, Goto, At, QuietThreads, TypeInv, TypeOK,
       ThreadTypes
  <2>2. QuietIds'
    BY <1>4 DEF ConnectOpenLoopback, At, QuietIds, LocalsOK, TypeInv, TypeOK,
       CmTypes
  <2>3. EventsOK'
    <3>1. \A i \in Id : phase[i] = "pending" =>
            phase'[i] = "pending" /\ from'[i] = from[i] /\ to'[i] = to[i]
      BY <1>4 DEF ConnectOpenLoopback, TypeInv, TypeOK, CmTypes
    <3>2. listenq' = listenq /\ bpc' = bpc /\ bid' = bid
      BY <1>4 DEF ConnectOpenLoopback, brokerVars
    <3> QED
      BY <3>1, <3>2, EventsFrame DEF EventsOK
  <2>4. LockOK'
    BY <1>4 DEF ConnectOpenLoopback, Goto, At, LockOK, InThreadSection,
       InConnect, InBrokerSection, TypeInv, TypeOK, ManagerTypes, ThreadTypes,
       BrokerTypes, managerVars, brokerVars
  <2>5. EmptyOK'
    <3>1. \A n \in Node :
            bpc[n] = "reqAccept" => bid[n] \in Id /\ phase[bid[n]] = "pending"
      BY DEF EventsOK, Unanswered
    <3>2. \A i \in Id : phase[i] = "pending" => from'[i] = from[i]
      BY <1>4 DEF ConnectOpenLoopback, TypeInv, TypeOK, CmTypes
    <3>3. \A u \in Thread \ {t} : pc'[u] = pc[u] /\ arg'[u] = arg[u]
      BY <1>4 DEF ConnectOpenLoopback, Goto, Return, TypeInv, TypeOK,
         ThreadTypes
    <3>4. /\ pc'[t] \in {"open", "loopback", "wait", "insert"} =>
               established[NodeOf[t]][arg'[t]] = NoId
          /\ pc'[t] = "loopback" => arg'[t] = NodeOf[t]
      BY <1>4 DEF ConnectOpenLoopback, Goto, Return, At, EmptyOK, TypeInv,
         TypeOK, ThreadTypes
    <3>5. established' = established /\ bpc' = bpc /\ bid' = bid
      BY <1>4 DEF ConnectOpenLoopback, managerVars, brokerVars
    <3> QED
      BY <3>1, <3>2, <3>3, <3>4, <3>5, EmptyThread
  <2>6. QuietNodes'
    BY <1>4 DEF ConnectOpenLoopback, QuietNodes, managerVars, brokerVars
  <2> QED
    BY <1>0, <2>1, <2>2, <2>3, <2>4, <2>5, <2>6
<1>5. CASE ConnectLoopback(t)
  <2>1. QuietThreads'
    <3>1. Return(t)
      BY <1>5 DEF ConnectLoopback, At, EmptyOK
    <3> QED
      BY <3>1 DEF Return, QuietThreads, TypeInv, TypeOK, ThreadTypes
  <2>2. LockOK'
    <3>1. Return(t) /\ Release(NodeOf[t]) /\ bpc' = bpc
      BY <1>5 DEF ConnectLoopback, At, EmptyOK, brokerVars
    <3>2. InThreadSection(t) /\ ~InThreadSection(t)'
      BY <1>5, <3>1 DEF ConnectLoopback, At, Return, InThreadSection,
         InConnect, TypeInv, TypeOK, ThreadTypes
    <3>3. \A u \in Thread \ {t} : pc'[u] = pc[u]
      BY <3>1 DEF Return, TypeInv, TypeOK, ThreadTypes
    <3> QED
      BY <3>1, <3>2, <3>3, ThreadLeaves
  <2>3. EmptyOK'
    <3>1. Return(t) /\ from' = from /\ bpc' = bpc /\ bid' = bid
      BY <1>5 DEF ConnectLoopback, At, EmptyOK, brokerVars, cmVars
    <3>2. \A m \in Node \ {NodeOf[t]} : established'[m] = established[m]
      BY <1>5 DEF ConnectLoopback, At, EmptyOK, TypeInv, TypeOK,
         ManagerTypes
    <3>3. /\ pc'[t] = "idle"
          /\ \A u \in Thread \ {t} : pc'[u] = pc[u] /\ arg'[u] = arg[u]
      BY <3>1 DEF Return, TypeInv, TypeOK, ThreadTypes
    <3>4. InThreadSection(t)
      BY <1>5 DEF ConnectLoopback, At, InThreadSection, InConnect
    <3>5. \A u \in Thread : NodeOf[u] = NodeOf[t] => ~InThreadSection(u)'
      BY <3>3, <3>4 DEF LockOK, InThreadSection, InConnect
    <3>6. ~InBrokerSection(NodeOf[t])'
      BY <3>1, <3>4 DEF LockOK, InBrokerSection
    <3> QED
      BY <3>1, <3>2, <3>3, <3>5, <3>6, EmptyInsert
  <2>4. QuietNodes' /\ QuietIds' /\ EventsOK'
    BY <1>5 DEF ConnectLoopback, QuietNodes, QuietIds, EventsOK, Queued,
       Unanswered, brokerVars, cmVars
  <2> QED
    BY <1>0, <2>1, <2>2, <2>3, <2>4
<1>6. CASE ConnectDuplicate(t)
  BY <1>6 DEF ConnectDuplicate, At, EmptyOK
<1>7. CASE ConnectEstablished(t)
  <2>1. QuietThreads'
    BY <1>7 DEF ConnectEstablished, Goto, At, QuietThreads, TypeInv, TypeOK,
       ThreadTypes
  <2>2. LockOK'
    BY <1>7 DEF ConnectEstablished, Goto, At, LockOK, InThreadSection,
       InConnect, InBrokerSection, TypeInv, TypeOK, ManagerTypes, ThreadTypes,
       BrokerTypes, managerVars, brokerVars
  <2>3. EmptyOK'
    BY <1>7 DEF ConnectEstablished, Goto, At, EmptyOK, LocalsOK, TypeInv,
       TypeOK, ManagerTypes, ThreadTypes, BrokerTypes, CmTypes, managerVars,
       brokerVars
  <2>4. QuietNodes' /\ QuietIds' /\ EventsOK'
    BY <1>7 DEF ConnectEstablished, QuietNodes, QuietIds, EventsOK, Queued,
       Unanswered, managerVars, brokerVars
  <2> QED
    BY <1>0, <2>1, <2>2, <2>3, <2>4
<1>8. CASE ConnectInsert(t)
  <2>1. QuietThreads'
    <3>1. Return(t)
      BY <1>8 DEF ConnectInsert, At, EmptyOK
    <3> QED
      BY <3>1 DEF Return, QuietThreads, TypeInv, TypeOK, ThreadTypes
  <2>2. LockOK'
    <3>1. Return(t) /\ Release(NodeOf[t]) /\ bpc' = bpc
      BY <1>8 DEF ConnectInsert, At, EmptyOK, brokerVars
    <3>2. InThreadSection(t) /\ ~InThreadSection(t)'
      BY <1>8, <3>1 DEF ConnectInsert, At, Return, InThreadSection,
         InConnect, TypeInv, TypeOK, ThreadTypes
    <3>3. \A u \in Thread \ {t} : pc'[u] = pc[u]
      BY <3>1 DEF Return, TypeInv, TypeOK, ThreadTypes
    <3> QED
      BY <3>1, <3>2, <3>3, ThreadLeaves
  <2>3. EmptyOK'
    <3>1. Return(t) /\ from' = from /\ bpc' = bpc /\ bid' = bid
      BY <1>8 DEF ConnectInsert, At, EmptyOK, brokerVars, cmVars
    <3>2. \A m \in Node \ {NodeOf[t]} : established'[m] = established[m]
      BY <1>8 DEF ConnectInsert, At, EmptyOK, TypeInv, TypeOK, ManagerTypes
    <3>3. /\ pc'[t] = "idle"
          /\ \A u \in Thread \ {t} : pc'[u] = pc[u] /\ arg'[u] = arg[u]
      BY <3>1 DEF Return, TypeInv, TypeOK, ThreadTypes
    <3>4. InThreadSection(t)
      BY <1>8 DEF ConnectInsert, At, InThreadSection, InConnect
    <3>5. \A u \in Thread : NodeOf[u] = NodeOf[t] => ~InThreadSection(u)'
      BY <3>3, <3>4 DEF LockOK, InThreadSection, InConnect
    <3>6. ~InBrokerSection(NodeOf[t])'
      BY <3>1, <3>4 DEF LockOK, InBrokerSection
    <3> QED
      BY <3>1, <3>2, <3>3, <3>5, <3>6, EmptyInsert
  <2>4. QuietNodes' /\ QuietIds' /\ EventsOK'
    BY <1>8 DEF ConnectInsert, QuietNodes, QuietIds, EventsOK, Queued,
       Unanswered, brokerVars, cmVars
  <2> QED
    BY <1>0, <2>1, <2>2, <2>3, <2>4
<1>9. CASE ConnectRefused(t)
  <2>1. QuietThreads'
    BY <1>9 DEF ConnectRefused, Goto, Return, At, QuietThreads, TypeInv,
       TypeOK, ThreadTypes
  <2>2. QuietIds'
    BY <1>9 DEF ConnectRefused, At, QuietIds, LocalsOK, TypeInv, TypeOK,
       CmTypes
  <2>3. EventsOK'
    <3>1. \A i \in Id : phase[i] = "pending" =>
            phase'[i] = "pending" /\ from'[i] = from[i] /\ to'[i] = to[i]
      BY <1>9 DEF ConnectRefused, TypeInv, TypeOK, CmTypes
    <3>2. listenq' = listenq /\ bpc' = bpc /\ bid' = bid
      BY <1>9 DEF ConnectRefused, brokerVars
    <3> QED
      BY <3>1, <3>2, EventsFrame DEF EventsOK
  <2>4. LockOK'
    <3>1. InThreadSection(t) /\ ~InThreadSection(t)'
      BY <1>9 DEF ConnectRefused, Goto, Return, At, InThreadSection,
         InConnect, TypeInv, TypeOK, ThreadTypes
    <3>2. \A u \in Thread \ {t} : pc'[u] = pc[u]
      BY <1>9 DEF ConnectRefused, Goto, Return, TypeInv, TypeOK, ThreadTypes
    <3>3. Release(NodeOf[t]) /\ bpc' = bpc
      BY <1>9 DEF ConnectRefused, brokerVars
    <3> QED
      BY <3>1, <3>2, <3>3, ThreadLeaves
  <2>5. EmptyOK'
    <3>1. \A n \in Node :
            bpc[n] = "reqAccept" => bid[n] \in Id /\ phase[bid[n]] = "pending"
      BY DEF EventsOK, Unanswered
    <3>2. \A i \in Id : phase[i] = "pending" => from'[i] = from[i]
      BY <1>9 DEF ConnectRefused, TypeInv, TypeOK, CmTypes
    <3>3. \A u \in Thread \ {t} : pc'[u] = pc[u] /\ arg'[u] = arg[u]
      BY <1>9 DEF ConnectRefused, Goto, Return, TypeInv, TypeOK, ThreadTypes
    <3>4. /\ pc'[t] \in {"open", "loopback", "wait", "insert"} =>
               established[NodeOf[t]][arg'[t]] = NoId
          /\ pc'[t] = "loopback" => arg'[t] = NodeOf[t]
      BY <1>9 DEF ConnectRefused, Goto, Return, At, EmptyOK, TypeInv,
         TypeOK, ThreadTypes
    <3>5. established' = established /\ bpc' = bpc /\ bid' = bid
      BY <1>9 DEF ConnectRefused, managerVars, brokerVars
    <3> QED
      BY <3>1, <3>2, <3>3, <3>4, <3>5, EmptyThread
  <2>6. QuietNodes'
    BY <1>9 DEF ConnectRefused, QuietNodes, brokerVars
  <2> QED
    BY <1>0, <2>1, <2>2, <2>3, <2>4, <2>5, <2>6
<1>10. CASE ConnectBackoff(t)
  <2>1. QuietThreads'
    BY <1>10 DEF ConnectBackoff, Return, At, QuietThreads, TypeInv, TypeOK,
       ThreadTypes
  <2>2. LockOK'
    <3>1. InThreadSection(t)' <=> InThreadSection(t)
      BY <1>10 DEF ConnectBackoff, Goto, Return, At, InThreadSection,
         InConnect, TypeInv, TypeOK, ThreadTypes
    <3>2. \A u \in Thread \ {t} : pc'[u] = pc[u]
      BY <1>10 DEF ConnectBackoff, Goto, Return, TypeInv, TypeOK, ThreadTypes
    <3>3. mu' = mu /\ bpc' = bpc
      BY <1>10 DEF ConnectBackoff, managerVars, brokerVars
    <3> QED
      BY <3>1, <3>2, <3>3, ThreadMoves
  <2>3. EmptyOK'
    BY <1>10 DEF ConnectBackoff, Return, At, EmptyOK, TypeInv, TypeOK,
       ManagerTypes, ThreadTypes, BrokerTypes, CmTypes, managerVars,
       brokerVars, cmVars
  <2>4. QuietNodes' /\ QuietIds' /\ EventsOK'
    BY <1>10 DEF ConnectBackoff, QuietNodes, QuietIds, EventsOK, Queued,
       Unanswered, managerVars, brokerVars, cmVars
  <2> QED
    BY <1>0, <2>1, <2>2, <2>3, <2>4
<1>11. CASE ConnectWaitDisconnect(t)
  BY <1>11 DEF ConnectWaitDisconnect, At, QuietThreads
<1>12. CASE ConnectDeref(t)
  <2>1. QuietThreads'
    BY <1>12 DEF ConnectDeref, Return, At, QuietThreads, TypeInv, TypeOK,
       ThreadTypes
  <2>2. LockOK'
    <3>1. InThreadSection(t)' <=> InThreadSection(t)
      BY <1>12 DEF ConnectDeref, Goto, Return, At, InThreadSection,
         InConnect, TypeInv, TypeOK, ThreadTypes
    <3>2. \A u \in Thread \ {t} : pc'[u] = pc[u]
      BY <1>12 DEF ConnectDeref, Goto, Return, TypeInv, TypeOK, ThreadTypes
    <3>3. mu' = mu /\ bpc' = bpc
      BY <1>12 DEF ConnectDeref, managerVars, brokerVars
    <3> QED
      BY <3>1, <3>2, <3>3, ThreadMoves
  <2>3. EmptyOK'
    BY <1>12 DEF ConnectDeref, Return, At, EmptyOK, TypeInv, TypeOK,
       ManagerTypes, ThreadTypes, BrokerTypes, CmTypes, managerVars,
       brokerVars, cmVars
  <2>4. QuietNodes' /\ QuietIds' /\ EventsOK'
    BY <1>12 DEF ConnectDeref, QuietNodes, QuietIds, EventsOK, Queued,
       Unanswered, managerVars, brokerVars, cmVars
  <2> QED
    BY <1>0, <2>1, <2>2, <2>3, <2>4
<1>13. CASE GetAcquire(t)
  <2>1. QuietThreads'
    BY <1>13 DEF GetAcquire, Goto, At, QuietThreads, TypeInv, TypeOK,
       ThreadTypes
  <2>2. LockOK'
    BY <1>13 DEF GetAcquire, Acquired, Goto, At, LockOK, InThreadSection,
       InConnect, InBrokerSection, TypeInv, TypeOK, ManagerTypes, ThreadTypes,
       BrokerTypes, brokerVars
  <2>3. EmptyOK'
    BY <1>13 DEF GetAcquire, Goto, At, EmptyOK, LocalsOK, TypeInv, TypeOK,
       ManagerTypes, ThreadTypes, BrokerTypes, CmTypes, brokerVars, cmVars
  <2>4. QuietNodes' /\ QuietIds' /\ EventsOK'
    BY <1>13 DEF GetAcquire, QuietNodes, QuietIds, EventsOK, Queued,
       Unanswered, brokerVars, cmVars
  <2> QED
    BY <1>0, <2>1, <2>2, <2>3, <2>4
<1>14. CASE GetLookup(t)
  <2>1. QuietThreads'
    BY <1>14 DEF GetLookup, Return, At, QuietThreads, TypeInv, TypeOK,
       ThreadTypes
  <2>2. LockOK'
    BY <1>14 DEF GetLookup, Release, Return, At, LockOK, InThreadSection,
       InConnect, InBrokerSection, TypeInv, TypeOK, ManagerTypes, ThreadTypes,
       BrokerTypes, brokerVars
  <2>3. EmptyOK'
    BY <1>14 DEF GetLookup, Return, At, EmptyOK, TypeInv, TypeOK,
       ManagerTypes, ThreadTypes, BrokerTypes, CmTypes, brokerVars, cmVars
  <2>4. QuietNodes' /\ QuietIds' /\ EventsOK'
    BY <1>14 DEF GetLookup, QuietNodes, QuietIds, EventsOK, Queued,
       Unanswered, brokerVars, cmVars
  <2> QED
    BY <1>0, <2>1, <2>2, <2>3, <2>4
<1>15. CASE NumRead(t)
  BY <1>15 DEF NumRead, At, QuietThreads
<1> QED
  BY <1>1, <1>2, <1>3, <1>4, <1>5, <1>6, <1>7, <1>8, <1>9, <1>10, <1>11,
     <1>12, <1>13, <1>14, <1>15 DEF ThreadStep

LEMMA LockBroker ==
  ASSUME Disciplined, LockInv, NEW n \in Node, BrokerStep(n)
  PROVE LockInv'
<1> USE DEF LockInv
<1>0. TypeInv'
  BY TypeBroker
<1>1. CASE BrokerExit(n)
  BY <1>1 DEF BrokerExit, QuietNodes
<1>2. CASE BrokerEvent(n)
  <2>1. QuietNodes'
    <3>1. bpc'[n] \in {"poll", "request"}
      BY <1>2, EventsTaken
    <3>2. \A m \in Node \ {n} : bpc'[m] = bpc[m]
      BY <1>2 DEF BrokerEvent, BrokerGoto, TypeInv, TypeOK, BrokerTypes
    <3> QED
      BY <1>2, <3>1, <3>2 DEF BrokerEvent, QuietNodes, managerVars
  <2>2. EventsOK'
    BY <1>2, EventsTaken
  <2>3. LockOK'
    <3>1. bpc'[n] \in {"poll", "request"}
      BY <1>2, EventsTaken
    <3>2. \A m \in Node \ {n} : bpc'[m] = bpc[m]
      BY <1>2 DEF BrokerEvent, BrokerGoto, TypeInv, TypeOK, BrokerTypes
    <3>3. InBrokerSection(n)' <=> InBrokerSection(n)
      BY <1>2, <3>1 DEF BrokerEvent, BrokerAt, InBrokerSection
    <3> QED
      BY <1>2, <3>2, <3>3, BrokerMoves DEF BrokerEvent, managerVars,
         threadVars
  <2>4. EmptyOK'
    <3>1. bpc'[n] \in {"poll", "request"}
      BY <1>2, EventsTaken
    <3>2. \A m \in Node \ {n} : bpc'[m] = bpc[m] /\ bid'[m] = bid[m]
      BY <1>2 DEF BrokerEvent, BrokerGoto, TypeInv, TypeOK, BrokerTypes
    <3> QED
      BY <1>2, <3>1, <3>2, EmptyBroker DEF BrokerEvent, managerVars,
         threadVars
  <2>5. QuietThreads' /\ QuietIds'
    BY <1>2 DEF BrokerEvent, QuietThreads, QuietIds, threadVars
  <2> QED
    BY <1>0, <2>1, <2>2, <2>3, <2>4, <2>5
<1>3. CASE OnConnectRequest(n)
  <2>1. QuietNodes'
    BY <1>3 DEF OnConnectRequest, BrokerGoto, BrokerReturn, BrokerAt,
       QuietNodes, TypeInv, TypeOK, BrokerTypes, ManagerTypes, managerVars
  <2>2. EventsOK'
    <3>1. bpc[n] # "poll" /\ listenq' = listenq /\ from' = from /\ to' = to
          /\ phase' = phase
      BY <1>3 DEF OnConnectRequest, BrokerAt, cmVars
    <3>2. CASE BrokerReturn(n)
      <4>1. /\ bpc'[n] = "poll"
            /\ \A m \in Node \ {n} : bpc'[m] = bpc[m] /\ bid'[m] = bid[m]
        BY <3>2 DEF BrokerReturn, TypeInv, TypeOK, BrokerTypes
      <4> QED
        BY <3>1, <4>1, EventsFrame
    <3>3. CASE BrokerGoto(n, "reqAcquire") /\ bid' = bid
      <4>1. \A m \in Node : \/ bpc'[m] = "poll"
                            \/ bpc[m] # "poll" /\ bid'[m] = bid[m]
        BY <3>1, <3>3 DEF BrokerGoto, TypeInv, TypeOK, BrokerTypes
      <4> QED
        BY <3>1, <4>1, EventsFrame
    <3> QED
      BY <1>3, <3>2, <3>3, Zenon DEF OnConnectRequest
  <2>3. LockOK'
    <3>1. \A m \in Node \ {n} : bpc'[m] = bpc[m]
      BY <1>3 DEF OnConnectRequest, BrokerGoto, BrokerReturn, TypeInv,
         TypeOK, BrokerTypes
    <3>2. ~InBrokerSection(n) /\ ~InBrokerSection(n)'
      BY <1>3 DEF OnConnectRequest, BrokerAt, BrokerGoto, BrokerReturn,
         InBrokerSection, TypeInv, TypeOK, BrokerTypes
    <3> QED
      BY <1>3, <3>1, <3>2, BrokerMoves DEF OnConnectRequest, managerVars,
         threadVars
  <2>4. EmptyOK'
    <3>1. \A m \in Node \ {n} : bpc'[m] = bpc[m] /\ bid'[m] = bid[m]
      BY <1>3 DEF OnConnectRequest, BrokerGoto, BrokerReturn, TypeInv,
         TypeOK, BrokerTypes
    <3>2. bpc'[n] # "reqAccept"
      BY <1>3 DEF OnConnectRequest, BrokerGoto, BrokerReturn, TypeInv,
         TypeOK, BrokerTypes
    <3> QED
      BY <1>3, <3>1, <3>2, EmptyBroker DEF OnConnectRequest, managerVars,
         threadVars, cmVars
  <2>5. QuietThreads' /\ QuietIds'
    BY <1>3 DEF OnConnectRequest, QuietThreads, QuietIds, threadVars, cmVars
  <2> QED
    BY <1>0, <2>1, <2>2, <2>3, <2>4, <2>5
<1>4. CASE OnConnectAcquire(n)
  <2>1. QuietNodes'
    BY <1>4 DEF OnConnectAcquire, BrokerGoto, BrokerReturn, BrokerAt,
       QuietNodes, TypeInv, TypeOK, BrokerTypes, ManagerTypes
  <2>2. QuietIds'
    <3>1. bid[n] \in Id /\ Unanswered(bid[n], n) /\ from[bid[n]] \in Node
      BY <1>4 DEF OnConnectAcquire, BrokerAt, EventsOK, TypeInv, TypeOK,
         CmTypes
    <3> QED
      BY <1>4, <3>1 DEF OnConnectAcquire, Reject, Unanswered, QuietIds,
         TypeInv, TypeOK, CmTypes
  <2>3. EventsOK'
    <3>1. bpc[n] # "poll" /\ listenq' = listenq /\ from' = from /\ to' = to
      BY <1>4 DEF OnConnectAcquire, BrokerAt
    <3>2. CASE Reject(bid[n]) /\ BrokerReturn(n)
      <4>1. \A i \in Id \ {bid[n]} : phase'[i] = phase[i]
        BY <3>2 DEF Reject, TypeInv, TypeOK, CmTypes
      <4> QED
        BY <3>1, <3>2, <4>1, EventsAnswered
    <3>3. CASE BrokerGoto(n, "reqFind") /\ bid' = bid /\ phase' = phase
      <4>1. \A m \in Node : \/ bpc'[m] = "poll"
                            \/ bpc[m] # "poll" /\ bid'[m] = bid[m]
        BY <3>1, <3>3 DEF BrokerGoto, TypeInv, TypeOK, BrokerTypes
      <4> QED
        BY <3>1, <3>3, <4>1, EventsFrame
    <3> QED
      BY <1>4, <3>2, <3>3 DEF OnConnectAcquire
  <2>4. LockOK'
    <3>1. bid[n] \in Id /\ Unanswered(bid[n], n) /\ from[bid[n]] \in Node
      BY <1>4 DEF OnConnectAcquire, BrokerAt, EventsOK, TypeInv, TypeOK, CmTypes
    <3>2. ~InBrokerSection(n) /\ pc' = pc
      BY <1>4 DEF OnConnectAcquire, BrokerAt, InBrokerSection, threadVars
    <3>3. \A m \in Node \ {n} : bpc'[m] = bpc[m]
      BY <1>4 DEF OnConnectAcquire, BrokerGoto, BrokerReturn, TypeInv, TypeOK,
         BrokerTypes
    <3>4. CASE Acquired(n, from[bid[n]]) /\ BrokerGoto(n, "reqFind")
      <4>1. InBrokerSection(n)'
        BY <3>4 DEF BrokerGoto, InBrokerSection, TypeInv, TypeOK, BrokerTypes
      <4>2. from[bid[n]] # n
        BY <3>1 DEF Unanswered
      <4> QED
        BY <3>1, <3>2, <3>3, <3>4, <4>1, <4>2, BrokerEnters
    <3>5. CASE GaveUp(n) /\ BrokerReturn(n)
      <4>1. ~InBrokerSection(n)' /\ mu' = mu
        BY <3>5 DEF GaveUp, BrokerReturn, InBrokerSection, TypeInv, TypeOK,
           BrokerTypes
      <4> QED
        BY <3>2, <3>3, <4>1, BrokerMoves
    <3> QED
      BY <1>4, <3>4, <3>5 DEF OnConnectAcquire
  <2>5. EmptyOK'
    <3>1. \A m \in Node \ {n} : bpc'[m] = bpc[m] /\ bid'[m] = bid[m]
      BY <1>4 DEF OnConnectAcquire, BrokerGoto, BrokerReturn, TypeInv,
         TypeOK, BrokerTypes
    <3>2. bpc'[n] = "reqAccept" => established[n][from[bid'[n]]] = NoId
      BY <1>4 DEF OnConnectAcquire, BrokerGoto, BrokerReturn, TypeInv,
         TypeOK, BrokerTypes
    <3> QED
      BY <1>4, <3>1, <3>2, EmptyBroker DEF OnConnectAcquire, threadVars
  <2>6. QuietThreads'
    BY <1>4 DEF OnConnectAcquire, QuietThreads, threadVars
  <2> QED
    BY <1>0, <2>1, <2>2, <2>3, <2>4, <2>5, <2>6
<1>5. CASE OnConnectFind(n)
  <2>1. QuietNodes'
    BY <1>5 DEF OnConnectFind, BrokerGoto, BrokerReturn, BrokerAt, QuietNodes,
       TypeInv, TypeOK, BrokerTypes, ManagerTypes
  <2>2. QuietIds'
    <3>1. bid[n] \in Id /\ Unanswered(bid[n], n) /\ from[bid[n]] \in Node
      BY <1>5 DEF OnConnectFind, BrokerAt, EventsOK, TypeInv, TypeOK,
         CmTypes
    <3> QED
      BY <1>5, <3>1 DEF OnConnectFind, Reject, Unanswered, QuietIds,
         TypeInv, TypeOK, CmTypes
  <2>3. EventsOK'
    <3>1. bpc[n] # "poll" /\ listenq' = listenq /\ from' = from /\ to' = to
      BY <1>5 DEF OnConnectFind, BrokerAt
    <3>2. CASE Reject(bid[n]) /\ BrokerReturn(n)
      <4>1. \A i \in Id \ {bid[n]} : phase'[i] = phase[i]
        BY <3>2 DEF Reject, TypeInv, TypeOK, CmTypes
      <4> QED
        BY <3>1, <3>2, <4>1, EventsAnswered
    <3>3. CASE BrokerGoto(n, "reqAccept") /\ bid' = bid /\ phase' = phase
      <4>1. \A m \in Node : \/ bpc'[m] = "poll"
                            \/ bpc[m] # "poll" /\ bid'[m] = bid[m]
        BY <3>1, <3>3 DEF BrokerGoto, TypeInv, TypeOK, BrokerTypes
      <4> QED
        BY <3>1, <3>3, <4>1, EventsFrame
    <3> QED
      BY <1>5, <3>2, <3>3 DEF OnConnectFind
  <2>4. LockOK'
    <3>1. InBrokerSection(n) /\ pc' = pc
      BY <1>5 DEF OnConnectFind, BrokerAt, InBrokerSection, threadVars
    <3>2. \A m \in Node \ {n} : bpc'[m] = bpc[m]
      BY <1>5 DEF OnConnectFind, BrokerGoto, BrokerReturn, TypeInv, TypeOK,
         BrokerTypes
    <3>3. CASE Release(n) /\ BrokerReturn(n)
      <4>1. ~InBrokerSection(n)'
        BY <3>3 DEF BrokerReturn, InBrokerSection, TypeInv, TypeOK, BrokerTypes
      <4> QED
        BY <3>1, <3>2, <3>3, <4>1, BrokerLeaves
    <3>4. CASE mu' = mu /\ BrokerGoto(n, "reqAccept")
      <4>1. InBrokerSection(n)'
        BY <3>4 DEF BrokerGoto, InBrokerSection, TypeInv, TypeOK, BrokerTypes
      <4> QED
        BY <3>1, <3>2, <3>4, <4>1, BrokerMoves
    <3> QED
      BY <1>5, <3>3, <3>4 DEF OnConnectFind
  <2>5. EmptyOK'
    <3>1. \A m \in Node \ {n} : bpc'[m] = bpc[m] /\ bid'[m] = bid[m]
      BY <1>5 DEF OnConnectFind, BrokerGoto, BrokerReturn, TypeInv, TypeOK,
         BrokerTypes
    <3>2. bpc'[n] = "reqAccept" => established[n][from[bid'[n]]] = NoId
      BY <1>5 DEF OnConnectFind, BrokerGoto, BrokerReturn, TypeInv, TypeOK,
         BrokerTypes
    <3> QED
      BY <1>5, <3>1, <3>2, EmptyBroker DEF OnConnectFind, threadVars
  <2>6. QuietThreads'
    BY <1>5 DEF OnConnectFind, QuietThreads, threadVars
  <2> QED
    BY <1>0, <2>1, <2>2, <2>3, <2>4, <2>5, <2>6
<1>6. CASE OnConnectAccept(n)
  <2>1. QuietNodes'
    <3>1. BrokerReturn(n)
      BY <1>6 DEF OnConnectAccept, BrokerAt, EmptyOK
    <3> QED
      BY <1>6, <3>1 DEF OnConnectAccept, BrokerReturn, QuietNodes, TypeInv,
         TypeOK, BrokerTypes
  <2>2. QuietIds'
    <3>1. bid[n] \in Id /\ Unanswered(bid[n], n) /\ from[bid[n]] \in Node
      BY <1>6 DEF OnConnectAccept, BrokerAt, EventsOK, TypeInv, TypeOK,
         CmTypes
    <3> QED
      BY <1>6, <3>1 DEF OnConnectAccept, Accept, Unanswered, QuietIds,
         TypeInv, TypeOK, CmTypes
  <2>3. EventsOK'
    <3>1. bpc[n] # "poll" /\ BrokerReturn(n) /\ Accept(bid[n])
      BY <1>6 DEF OnConnectAccept, BrokerAt, EmptyOK
    <3>2. \A i \in Id \ {bid[n]} : phase'[i] = phase[i]
      BY <3>1 DEF Accept, TypeInv, TypeOK, CmTypes
    <3> QED
      BY <1>6, <3>1, <3>2, EventsAnswered DEF OnConnectAccept
  <2>4. LockOK'
    <3>1. BrokerReturn(n) /\ Release(n) /\ pc' = pc
      BY <1>6 DEF OnConnectAccept, BrokerAt, EmptyOK, threadVars
    <3>2. InBrokerSection(n) /\ ~InBrokerSection(n)'
      BY <1>6, <3>1 DEF OnConnectAccept, BrokerAt, BrokerReturn,
         InBrokerSection, TypeInv, TypeOK, BrokerTypes
    <3>3. \A m \in Node \ {n} : bpc'[m] = bpc[m]
      BY <3>1 DEF BrokerReturn, TypeInv, TypeOK, BrokerTypes
    <3> QED
      BY <3>1, <3>2, <3>3, BrokerLeaves
  <2>5. EmptyOK'
    <3>1. BrokerReturn(n) /\ pc' = pc /\ arg' = arg /\ from' = from
      BY <1>6 DEF OnConnectAccept, BrokerAt, EmptyOK, threadVars
    <3>2. \A m \in Node \ {n} : established'[m] = established[m]
      BY <1>6 DEF OnConnectAccept, TypeInv, TypeOK, ManagerTypes
    <3>3. /\ bpc'[n] = "poll"
          /\ \A m \in Node \ {n} : bpc'[m] = bpc[m] /\ bid'[m] = bid[m]
      BY <3>1 DEF BrokerReturn, TypeInv, TypeOK, BrokerTypes
    <3>4. InBrokerSection(n) /\ ~InBrokerSection(n)'
      BY <1>6, <3>3 DEF OnConnectAccept, BrokerAt, InBrokerSection
    <3>5. \A t \in Thread : NodeOf[t] = n => ~InThreadSection(t)'
      BY <3>1, <3>4 DEF LockOK, InThreadSection, InConnect
    <3> QED
      BY <3>1, <3>2, <3>3, <3>4, <3>5, EmptyInsert
  <2>6. QuietThreads'
    BY <1>6 DEF OnConnectAccept, QuietThreads, threadVars
  <2> QED
    BY <1>0, <2>1, <2>2, <2>3, <2>4, <2>5, <2>6
<1>7. CASE OnDisconnectAcquire(n)
  BY <1>7 DEF OnDisconnectAcquire, BrokerAt, QuietNodes
<1>8. CASE OnDisconnectErase(n)
  BY <1>8 DEF OnDisconnectErase, BrokerAt, QuietNodes
<1>9. CASE OnDisconnectDestroy(n)
  BY <1>9 DEF OnDisconnectDestroy, BrokerAt, QuietNodes
<1> QED
  BY <1>1, <1>2, <1>3, <1>4, <1>5, <1>6, <1>7, <1>8, <1>9 DEF BrokerStep

LEMMA LockNodeCall ==
  ASSUME Disciplined, LockInv, NEW n \in Node, NodeCall(n)
  PROVE LockInv'
<1> USE DEF LockInv
<1>0. TypeInv'
  BY TypeNodeCall
<1>1. CASE DtorAcquire(n)
  BY <1>1 DEF DtorAcquire, Disciplined
<1>2. CASE Shutdown(n)
  <2>1. QuietThreads' /\ QuietNodes' /\ QuietIds'
    BY <1>2 DEF Shutdown, QuietThreads, QuietNodes, QuietIds, threadVars,
       brokerVars, cmVars
  <2>2. EventsOK' /\ LockOK' /\ EmptyOK'
    BY <1>2 DEF Shutdown, EventsOK, LockOK, EmptyOK, Queued, Unanswered,
       InThreadSection, InConnect, InBrokerSection, cmVars, brokerVars,
       threadVars
  <2> QED
    BY <1>0, <2>1, <2>2
<1> QED
  BY <1>1, <1>2 DEF NodeCall

LEMMA LockCm ==
  ASSUME Disciplined, LockInv, NEW i \in Id, Cm(i)
  PROVE LockInv'
<1> USE DEF LockInv
<1>0. TypeInv'
  BY TypeCm
<1>1. CASE DeliverRequest(i)
  <2>1. QuietIds'
    BY <1>1 DEF DeliverRequest, QuietIds, TypeInv, TypeOK, CmTypes
  <2>2. EventsOK'
    BY <1>1, EventsRequest
  <2>3. QuietThreads' /\ QuietNodes' /\ LockOK' /\ EmptyOK'
    BY <1>1 DEF DeliverRequest, QuietThreads, QuietNodes, LockOK, EmptyOK,
       InThreadSection, InConnect, InBrokerSection, threadVars, managerVars,
       brokerVars
  <2> QED
    BY <1>0, <2>1, <2>2, <2>3
<1>2. CASE DeliverReply(i)
  <2>1. QuietIds'
    BY <1>2 DEF DeliverReply, QuietIds, TypeInv, TypeOK, CmTypes
  <2>2. EventsOK'
    BY <1>2, EventsReply
  <2>3. QuietThreads' /\ QuietNodes' /\ LockOK' /\ EmptyOK'
    BY <1>2 DEF DeliverReply, QuietThreads, QuietNodes, LockOK, EmptyOK,
       InThreadSection, InConnect, InBrokerSection, threadVars, managerVars,
       brokerVars
  <2> QED
    BY <1>0, <2>1, <2>2, <2>3
<1>3. CASE DeliverReject(i)
  <2>1. QuietIds'
    BY <1>3 DEF DeliverReject, QuietIds, TypeInv, TypeOK, CmTypes
  <2>2. EventsOK'
    <3>1. \A j \in Id : phase[j] = "pending" =>
            phase'[j] = "pending" /\ from'[j] = from[j] /\ to'[j] = to[j]
      BY <1>3 DEF DeliverReject, TypeInv, TypeOK, CmTypes
    <3> QED
      BY <1>3, <3>1, EventsFrame DEF DeliverReject, brokerVars, EventsOK
  <2>3. QuietThreads' /\ QuietNodes' /\ LockOK' /\ EmptyOK'
    BY <1>3 DEF DeliverReject, QuietThreads, QuietNodes, LockOK, EmptyOK,
       InThreadSection, InConnect, InBrokerSection, threadVars, managerVars,
       brokerVars
  <2> QED
    BY <1>0, <2>1, <2>2, <2>3
<1>4. CASE DeliverDisconnect(i)
  BY <1>4 DEF DeliverDisconnect, QuietIds
<1>5. CASE CmTimeout(i)
  BY <1>5 DEF CmTimeout, Disciplined
<1>6. CASE ReplyTimeout(i)
  BY <1>6 DEF ReplyTimeout, QuietIds
<1> QED
  BY <1>1, <1>2, <1>3, <1>4, <1>5, <1>6 DEF Cm

LEMMA LockCall ==
  ASSUME Disciplined, LockInv, NEW t \in Thread, ThreadCall(t)
  PROVE LockInv'
<1> USE DEF LockInv
<1>0. TypeInv'
  BY TypeCall
<1>1. ASSUME NEW p \in Targets[t], Connect(t, p) \/ GetConnection(t, p)
      PROVE LockInv'
  <2>1. QuietThreads'
    BY <1>1 DEF Connect, GetConnection, Goto, QuietThreads, TypeInv, TypeOK,
       ThreadTypes
  <2>2. LockOK'
    BY <1>1 DEF Connect, GetConnection, Goto, At, LockOK, InThreadSection,
       InConnect, InBrokerSection, TypeInv, TypeOK, ThreadTypes, managerVars,
       brokerVars
  <2>3. EmptyOK'
    BY <1>1 DEF Connect, GetConnection, Goto, At, EmptyOK, TypeInv, TypeOK,
       ThreadTypes, managerVars, brokerVars, cmVars
  <2>4. QuietNodes' /\ QuietIds' /\ EventsOK'
    BY <1>1 DEF Connect, GetConnection, QuietNodes, QuietIds, EventsOK, Queued,
       Unanswered, managerVars, brokerVars, cmVars
  <2> QED
    BY <1>0, <2>1, <2>2, <2>3, <2>4
<1>2. CASE GetNumConnections(t)
  BY <1>2 DEF GetNumConnections, Disciplined
<1> QED
  BY <1>1, <1>2 DEF ThreadCall

LEMMA LockInit == Init => LockInv
<1> SUFFICES ASSUME Init PROVE LockInv
  OBVIOUS
<1>1. TypeInv
  BY TypeInit
<1>2. QuietThreads /\ QuietNodes /\ QuietIds /\ EventsOK /\ EmptyOK
  BY DEF Init, QuietThreads, QuietNodes, QuietIds, EventsOK, Queued, EmptyOK
<1>3. LockOK
  BY DEF Init, LockOK, InThreadSection, InConnect, InBrokerSection
<1> QED
  BY <1>1, <1>2, <1>3 DEF LockInv

\* Every step of a disciplined application keeps LockInv.
LEMMA LockNext == Disciplined /\ LockInv /\ [Next]_vars => LockInv'
<1> SUFFICES ASSUME Disciplined, LockInv, [Next]_vars PROVE LockInv'
  OBVIOUS
<1>1. ASSUME NEW t \in Thread, ThreadFault(t) PROVE FALSE
  BY <1>1 DEF ThreadFault, ConnectCreateEpFails, ConnectCheckFails, Disciplined
<1>2. ASSUME NEW n \in Node, DtorStep(n) PROVE FALSE
  BY <1>2 DEF DtorStep, DtorStop, DtorCleanup, DtorDestroy, LockInv, QuietNodes
<1>3. ASSUME NEW n \in Node, ProcessCleanup(n) PROVE FALSE
  BY <1>3 DEF ProcessCleanup, Running, LockInv, QuietNodes, QuietThreads
<1>4. CASE Next
  BY <1>1, <1>2, <1>3, <1>4, LockThread, LockCall, LockBroker, LockNodeCall,
     LockCm DEF Next
<1>5. CASE UNCHANGED vars
  <2>1. TypeInv'
    BY TypeNext DEF LockInv
  <2>2. QuietThreads' /\ QuietNodes' /\ QuietIds' /\ EventsOK'
    BY <1>5 DEF vars, managerVars, threadVars, brokerVars, cmVars, LockInv,
       QuietThreads, QuietNodes, QuietIds, EventsOK, Queued, Unanswered
  <2>3. LockOK' /\ EmptyOK'
    BY <1>5 DEF vars, managerVars, threadVars, brokerVars, cmVars, LockInv,
       LockOK, EmptyOK, InThreadSection, InConnect, InBrokerSection
  <2> QED
    BY <2>1, <2>2, <2>3 DEF LockInv
<1> QED
  BY <1>4, <1>5

LEMMA LockInvariant == ASSUME Disciplined PROVE Spec => []LockInv
<1>1. LockInv /\ [Next]_vars => LockInv'
  BY LockNext
<1> QED
  BY LockInit, <1>1, PTL DEF Spec

\* While the application is disciplined, whatever the number of nodes, threads
\* and connections: at most one thread or the broker of a node is between
\* Acquire and Release.
THEOREM LockIsExclusive == ASSUME Disciplined PROVE Spec => []MutualExclusion
<1>1. LockInv => MutualExclusion
  BY DEF LockInv, LockOK, MutualExclusion, TypeInv, TypeOK, ManagerTypes
<1> QED
  BY LockInvariant, <1>1, PTL

\* ... the lock word is the id of whoever is inside, so that a peer's request is
\* turned away only while this node is connecting ...
THEOREM LockNamesItsHolder ==
  ASSUME Disciplined PROVE Spec => []LockWordNamesHolder
<1>1. LockInv => LockWordNamesHolder
  BY DEF LockInv, LockOK, LockWordNamesHolder, QuietNodes
<1> QED
  BY LockInvariant, <1>1, PTL

\* ... no ROME_ASSERT(iter.second) fires and no event the broker does not expect
\* ends the process ...
THEOREM NoInsertionFails == ASSUME Disciplined PROVE Spec => []InsertionSucceeds
<1>1. LockInv => InsertionSucceeds
  BY DEF LockInv, InsertionSucceeds, QuietNodes, QuietThreads
<1> QED
  BY LockInvariant, <1>1, PTL

\* A step keeps every entry of the table.
Keeps == \A n, p \in Node : established[n][p] # NoId =>
           established'[n][p] = established[n][p]

\* Writing an entry that was empty keeps all others.
LEMMA EntryWritten ==
  ASSUME ManagerTypes, NEW a \in Node, NEW b \in Node, NEW v, established[a][b] = NoId,
         established' = [established EXCEPT ![a][b] = v]
  PROVE  Keeps
<1>1. ASSUME NEW n \in Node, NEW p \in Node, ~(n = a /\ p = b)
      PROVE  established'[n][p] = established[n][p]
  BY <1>1 DEF ManagerTypes
<1> QED
  BY <1>1 DEF Keeps

LEMMA EntriesKept == ASSUME LockInv, Next PROVE Keeps
<1> USE DEF Keeps, LockInv, TypeInv, TypeOK, ManagerTypes
<1>1. ASSUME NEW t \in Thread, ThreadStep(t) \/ ThreadFault(t) \/ ThreadCall(t)
      PROVE Keeps
  <2>1. CASE ConnectLoopback(t)
    <3>1. NodeOf[t] \in Node
      BY ConstantsAssumption
    <3>2. \/ /\ established[NodeOf[t]][NodeOf[t]] = NoId
             /\ established' = [established EXCEPT ![NodeOf[t]][NodeOf[t]] = tid[t]]
          \/ established' = established
      BY <2>1 DEF ConnectLoopback
    <3> QED
      BY <3>1, <3>2, EntryWritten
  <2>2. CASE ConnectInsert(t)
    <3>1. arg[t] \in Node /\ NodeOf[t] \in Node
      BY ConstantsAssumption DEF ThreadTypes
    <3>2. \/ /\ established[NodeOf[t]][arg[t]] = NoId
             /\ established' = [established EXCEPT ![NodeOf[t]][arg[t]] = tid[t]]
          \/ established' = established
      BY <2>2 DEF ConnectInsert
    <3> QED
      BY <3>1, <3>2, EntryWritten
  <2>3. ASSUME ~ConnectLoopback(t), ~ConnectInsert(t)
        PROVE established' = established
    BY <1>1, <2>3 DEF ThreadStep, ThreadFault, ThreadCall, ConnectAcquire,
       ConnectLookup, ConnectOpen, ConnectOpenLoopback, ConnectDuplicate,
       ConnectEstablished, ConnectRefused, ConnectBackoff,
       ConnectWaitDisconnect, ConnectDeref, GetAcquire, GetLookup, NumRead,
       ConnectCreateEpFails, ConnectCheckFails, Connect, GetConnection,
       GetNumConnections, managerVars
  <2> QED
    BY <2>1, <2>2, <2>3
<1>2. ASSUME NEW n \in Node, BrokerStep(n) PROVE Keeps
  <2>1. CASE OnConnectAccept(n)
    <3>1. \/ /\ established[n][from[bid[n]]] = NoId
             /\ established' = [established EXCEPT ![n][from[bid[n]]] = bid[n]]
          \/ established' = established
      BY <2>1 DEF OnConnectAccept
    <3>2. CASE from[bid[n]] \in Node
      BY <3>1, <3>2, EntryWritten
    <3>3. CASE from[bid[n]] \notin Node
      BY <3>1, <3>3
    <3> QED
      BY <3>2, <3>3
  <2>2. ASSUME ~OnConnectAccept(n) PROVE established' = established
    BY <1>2, <2>2 DEF BrokerStep, BrokerExit, BrokerEvent, OnConnectRequest,
       OnConnectAcquire, OnConnectFind, OnDisconnectAcquire,
       OnDisconnectErase, OnDisconnectDestroy, BrokerAt, QuietNodes,
       managerVars
  <2> QED
    BY <2>1, <2>2
<1>3. ASSUME NEW n \in Node, DtorStep(n) \/ NodeCall(n) \/ ProcessCleanup(n)
      PROVE established' = established
  BY <1>3 DEF DtorStep, NodeCall, DtorStop, DtorCleanup, DtorDestroy, DtorAcquire, Shutdown,
     ProcessCleanup, QuietNodes, managerVars
<1>4. ASSUME NEW i \in Id, Cm(i) PROVE established' = established
  BY <1>4 DEF Cm, DeliverRequest, DeliverReply, DeliverReject,
     DeliverDisconnect, CmTimeout, ReplyTimeout, managerVars
<1> QED
  BY <1>1, <1>2, <1>3, <1>4 DEF Next

\* ... and a connection stays in the table once it is there.
THEOREM TableIsStable == ASSUME Disciplined PROVE Spec => EntriesAreStable
<1>1. LockInv /\ [Next]_vars => [Keeps]_vars
  BY EntriesKept
<1> QED
  BY LockInvariant, <1>1, PTL DEF Spec, EntriesAreStable, Keeps

-----------------------------------------------------------------------------
(* The two ends of a connection.                                           *)

\* A connection the listener has answered is in the listener's table.
Answered == {"replied", "connected"}
AnsweredOK ==
  \A i \in Id : phase[i] \in Answered => established[to[i]][from[i]] = i

\* A request or connection belongs to the call that has opened it, until that
\* call has entered it in the table.
Alive == {"request", "pending", "replied", "connected"}
Opener(t, i) == pc[t] \in {"wait", "insert"} /\ tid[t] = i
OwnedOK ==
  \A i \in Id : phase[i] \in Alive =>
    (\E t \in Thread : Opener(t, i)) \/ established[from[i]][to[i]] = i

PeerInv == LockInv /\ MatchInv /\ AnsweredOK /\ OwnedOK

\* An id that is alive has been so, unless a call has just opened it.
NewIds ==
  \A i \in Id : phase'[i] \in Alive =>
    \/ phase[i] \in Alive /\ from'[i] = from[i] /\ to'[i] = to[i]
    \/ phase'[i] \notin Answered /\ \E t \in Thread : Opener(t, i)'

\* An answer comes with an entry in the table.
NewAnswers ==
  \A i \in Id : phase[i] \in Alive /\ phase'[i] \in Answered =>
    phase[i] \in Answered \/ established'[to[i]][from[i]] = i

\* A call leaves its id only to the table, or to nobody when it is dead.
Handover ==
  \A t \in Thread, i \in Id : Opener(t, i) /\ phase[i] \in Alive =>
    Opener(t, i)' \/ established'[from[i]][to[i]] = i

LEMMA PeersStep ==
  ASSUME PeerInv, Keeps, NewIds, NewAnswers, Handover
  PROVE AnsweredOK' /\ OwnedOK'
<1>1. \A i \in Id : i # NoId /\ from[i] \in Node /\ to[i] \in Node
  BY DEF PeerInv, LockInv, TypeInv, TypeOK, CmTypes
<1>2. \A i \in Id : established[from[i]][to[i]] = i => established'[from[i]][to[i]] = i
  BY <1>1 DEF Keeps
<1>3. \A i \in Id : established[to[i]][from[i]] = i => established'[to[i]][from[i]] = i
  BY <1>1 DEF Keeps
<1>4. ASSUME NEW i \in Id, phase'[i] \in Answered
      PROVE established'[to'[i]][from'[i]] = i
  <2>1. phase'[i] \in Alive
    BY <1>4 DEF Answered, Alive
  <2>2. phase[i] \in Alive /\ from'[i] = from[i] /\ to'[i] = to[i]
    BY <1>4, <2>1 DEF NewIds
  <2>3. CASE phase[i] \in Answered
    BY <1>3, <2>2, <2>3 DEF PeerInv, AnsweredOK
  <2>4. CASE phase[i] \notin Answered
    BY <1>4, <2>2, <2>4 DEF NewAnswers
  <2> QED
    BY <2>3, <2>4
<1>5. ASSUME NEW i \in Id, phase'[i] \in Alive
      PROVE (\E t \in Thread : Opener(t, i)') \/ established'[from'[i]][to'[i]] = i
  <2>1. CASE phase[i] \in Alive /\ from'[i] = from[i] /\ to'[i] = to[i]
    <3>1. CASE established[from[i]][to[i]] = i
      BY <1>2, <2>1, <3>1
    <3>2. CASE established[from[i]][to[i]] # i
      <4>1. PICK t \in Thread : Opener(t, i)
        BY <2>1, <3>2 DEF PeerInv, OwnedOK
      <4> QED
        BY <2>1, <4>1 DEF Handover
    <3> QED
      BY <3>1, <3>2
  <2> QED
    BY <1>5, <2>1 DEF NewIds
<1> QED
  BY <1>4, <1>5 DEF AnsweredOK, OwnedOK, Opener

\* A step that opens, answers and gives up nothing.
LEMMA PeersIdle ==
  ASSUME PeerInv, from' = from, to' = to,
         \A i \in Id : phase'[i] \in Alive => phase[i] \in Alive,
         \A i \in Id : phase[i] \in Alive /\ phase'[i] \in Answered => phase[i] \in Answered,
         \A t \in Thread : pc[t] \in {"wait", "insert"} =>
           pc'[t] \in {"wait", "insert"} /\ tid'[t] = tid[t]
  PROVE NewIds /\ NewAnswers /\ Handover
<1>1. NewIds
  BY DEF NewIds
<1>2. NewAnswers
  BY DEF NewAnswers
<1>3. Handover
  BY DEF Handover, Opener
<1> QED
  BY <1>1, <1>2, <1>3

LEMMA PeersThread ==
  ASSUME Disciplined, PeerInv, NEW t \in Thread, ThreadStep(t) \/ ThreadFault(t) \/ ThreadCall(t)
  PROVE NewIds /\ NewAnswers /\ Handover
<1> USE DEF PeerInv
<1>1. TypeInv /\ TidsOK /\ WaitersOK /\ ChannelsOK /\ QuietThreads /\ QuietIds /\ EmptyOK
  BY DEF MatchInv, LockInv
<1>2. /\ phase \in [Id -> Phases] /\ from \in [Id -> Node] /\ to \in [Id -> Node]
      /\ pc \in [Thread -> ThreadPcs] /\ tid \in [Thread -> Id \cup {NoId}]
      /\ arg \in [Thread -> Node] /\ connq \in [Id -> Seq(CmEvents)]
      /\ established \in [Node -> [Node -> Id \cup {NoId}]]
  BY <1>1 DEF TypeInv, TypeOK, CmTypes, ThreadTypes, ManagerTypes
<1>3. \A u \in Thread \ {t} : pc'[u] = pc[u] /\ arg'[u] = arg[u] /\ tid'[u] = tid[u]
  BY <1>1, ThreadFrame
<1>4. CASE ConnectOpen(t)
  <2>1. PICK i \in Id : /\ phase[i] = "free" /\ phase' = [phase EXCEPT ![i] = "request"]
                        /\ from' = [from EXCEPT ![i] = NodeOf[t]]
                        /\ to' = [to EXCEPT ![i] = arg[t]]
                        /\ tid' = [tid EXCEPT ![t] = i]
    BY <1>4 DEF ConnectOpen
  <2>2. pc[t] = "open" /\ pc'[t] = "wait" /\ tid'[t] = i /\ phase'[i] = "request"
    BY <1>4, <1>2, <2>1 DEF ConnectOpen, Goto, At
  <2>3. \A j \in Id \ {i} : phase'[j] = phase[j] /\ from'[j] = from[j] /\ to'[j] = to[j]
    BY <1>2, <2>1
  <2>4. Opener(t, i)'
    BY <2>2 DEF Opener
  <2>5. NewIds
    BY <2>2, <2>3, <2>4 DEF NewIds, Alive, Answered
  <2>6. NewAnswers
    BY <2>1, <2>3 DEF NewAnswers, Alive, Answered
  <2>7. Handover
    BY <1>3, <2>2 DEF Handover, Opener
  <2> QED
    BY <2>5, <2>6, <2>7
<1>5. CASE ConnectOpenLoopback(t)
  <2>1. PICK i \in Id : /\ phase[i] = "free" /\ phase' = [phase EXCEPT ![i] = "loopback"]
                        /\ from' = [from EXCEPT ![i] = NodeOf[t]]
                        /\ to' = [to EXCEPT ![i] = NodeOf[t]]
    BY <1>5 DEF ConnectOpenLoopback
  <2>2. pc[t] = "open" /\ phase'[i] = "loopback"
    BY <1>5, <1>2, <2>1 DEF ConnectOpenLoopback, At
  <2>3. \A j \in Id \ {i} : phase'[j] = phase[j] /\ from'[j] = from[j] /\ to'[j] = to[j]
    BY <1>2, <2>1
  <2>4. NewIds
    BY <2>2, <2>3 DEF NewIds, Alive
  <2>5. NewAnswers
    BY <2>1, <2>3 DEF NewAnswers, Alive, Answered
  <2>6. Handover
    BY <1>3, <2>2 DEF Handover, Opener
  <2> QED
    BY <2>4, <2>5, <2>6
<1>6. CASE ConnectInsert(t)
  <2>1. pc[t] = "insert" /\ arg[t] \in Node /\ NodeOf[t] \in Node
        /\ established[NodeOf[t]][arg[t]] = NoId
    BY <1>1, <1>6, <1>2 DEF ConnectInsert, At, EmptyOK
  <2>2. established' = [established EXCEPT ![NodeOf[t]][arg[t]] = tid[t]]
    BY <1>6, <2>1 DEF ConnectInsert
  <2>3. established'[NodeOf[t]][arg[t]] = tid[t]
    BY <1>2, <2>1, <2>2
  <2>4. from[tid[t]] = NodeOf[t] /\ to[tid[t]] = arg[t]
    BY <1>1, <2>1 DEF WaitersOK, WaiterOK
  <2>5. phase' = phase /\ from' = from /\ to' = to
    BY <1>6 DEF ConnectInsert, cmVars
  <2>6. Handover
    BY <1>3, <2>3, <2>4 DEF Handover, Opener
  <2> QED
    BY <2>5, <2>6 DEF NewIds, NewAnswers
<1>7. CASE ConnectRefused(t)
  <2>1. /\ pc[t] = "wait" /\ connq[tid[t]] # <<>>
        /\ Head(connq[tid[t]]) # "ESTABLISHED"
    BY <1>7 DEF ConnectRefused, At
  <2>2. PICK i \in Id : i = tid[t]
    BY <1>1, <2>1 DEF TypeInv, LocalsOK
  <2>3. connq[i] \in Seq(CmEvents) /\ connq[i] # <<>>
    BY <1>2, <2>1, <2>2
  <2>4. Len(connq[i]) \in Nat \ {0} /\ Head(connq[i]) = connq[i][1]
    BY <2>3
  <2>5. connq[i][1] # "ESTABLISHED" /\ 1 \in 1 .. Len(connq[i])
    BY <2>1, <2>2, <2>4
  <2>6. ChannelOK(i) /\ phase[i] # "free"
    BY <1>1, <2>2 DEF ChannelsOK, TidsOK
  <2>7. phase[i] = "refused"
    BY <1>1, <2>3, <2>5, <2>6 DEF ChannelOK, QuietIds
  <2>8. /\ phase' = [phase EXCEPT ![i] = "free"]
        /\ from' = [from EXCEPT ![i] = AnyNode] /\ to' = [to EXCEPT ![i] = AnyNode]
    BY <1>7, <2>2, <2>7 DEF ConnectRefused
  <2>9. phase'[i] = "free" /\ \A j \in Id \ {i} :
          phase'[j] = phase[j] /\ from'[j] = from[j] /\ to'[j] = to[j]
    BY <1>2, <2>8
  <2>10. NewIds
    BY <2>9 DEF NewIds, Alive
  <2>11. NewAnswers
    BY <2>7, <2>9 DEF NewAnswers, Alive
  <2>12. Handover
    BY <1>3, <2>2, <2>7 DEF Handover, Opener, Alive
  <2> QED
    BY <2>10, <2>11, <2>12
<1>8. CASE ConnectEstablished(t)
  <2>1. phase' = phase /\ from' = from /\ to' = to /\ tid' = tid /\ pc'[t] = "insert"
    BY <1>8, <1>2 DEF ConnectEstablished, Goto
  <2> QED
    BY <1>3, <2>1, PeersIdle
<1>9. ASSUME ~ConnectOpen(t), ~ConnectOpenLoopback(t), ~ConnectInsert(t),
             ~ConnectRefused(t), ~ConnectEstablished(t)
      PROVE NewIds /\ NewAnswers /\ Handover
  <2>1. ~ThreadFault(t) /\ ~ConnectDuplicate(t)
    BY <1>1 DEF ThreadFault, ConnectCreateEpFails, ConnectCheckFails, Disciplined,
       ConnectDuplicate, EmptyOK, At
  <2>2. phase' = phase /\ from' = from /\ to' = to
    BY <1>9, <2>1 DEF ThreadStep, ThreadCall, ConnectAcquire, ConnectLookup,
       ConnectLoopback, ConnectBackoff, ConnectWaitDisconnect, ConnectDeref, GetAcquire,
       GetLookup, NumRead, Connect, GetConnection, GetNumConnections, cmVars
  <2>3. pc[t] \notin {"wait", "insert"}
    BY <1>9, <2>1 DEF ThreadStep, ThreadCall, ConnectAcquire, ConnectLookup,
       ConnectLoopback, ConnectBackoff, ConnectWaitDisconnect, ConnectDeref, GetAcquire,
       GetLookup, NumRead, Connect, GetConnection, GetNumConnections, At
  <2> QED
    BY <1>3, <2>2, <2>3, PeersIdle
<1> QED
  BY <1>4, <1>5, <1>6, <1>7, <1>8, <1>9

LEMMA PeersBroker ==
  ASSUME PeerInv, NEW n \in Node, BrokerStep(n)
  PROVE NewIds /\ NewAnswers /\ Handover
<1>1. TypeInv /\ QuietNodes /\ EventsOK /\ EmptyOK /\ QuietIds
  BY DEF PeerInv, LockInv
<1>2. pc' = pc /\ tid' = tid /\ from' = from /\ to' = to
  BY <1>1, BrokerFrame
<1>3. bpc[n] # "poll" => bid[n] \in Id /\ phase[bid[n]] = "pending" /\ to[bid[n]] = n
                         /\ from[bid[n]] \in Node
  BY <1>1 DEF EventsOK, Unanswered, TypeInv, TypeOK, CmTypes
<1>4. CASE OnConnectAccept(n)
  <2>1. bpc[n] = "reqAccept" /\ established[n][from[bid[n]]] = NoId
    BY <1>1, <1>4 DEF OnConnectAccept, BrokerAt, EmptyOK
  <2>2. PICK i \in Id : i = bid[n]
    BY <1>3, <2>1
  <2>3. phase[i] = "pending" /\ to[i] = n /\ from[i] \in Node
    BY <1>3, <2>1, <2>2
  <2>4. /\ established' = [established EXCEPT ![n][from[i]] = i]
        /\ phase' = [phase EXCEPT ![i] = "replied"]
    BY <1>4, <2>1, <2>2, <2>3 DEF OnConnectAccept, Accept
  <2>5. established'[n][from[i]] = i
    BY <1>1, <2>3, <2>4 DEF TypeInv, TypeOK, ManagerTypes
  <2>6. \A j \in Id \ {i} : phase'[j] = phase[j]
    BY <1>1, <2>4 DEF TypeInv, TypeOK, CmTypes
  <2>7. NewIds
    BY <1>2, <2>3, <2>6 DEF NewIds, Alive
  <2>8. NewAnswers
    BY <2>3, <2>5, <2>6 DEF NewAnswers
  <2>9. Handover
    BY <1>2 DEF Handover, Opener
  <2> QED
    BY <2>7, <2>8, <2>9
<1>5. CASE OnConnectAcquire(n) \/ OnConnectFind(n)
  <2>1. bpc[n] # "poll"
    BY <1>5 DEF OnConnectAcquire, OnConnectFind, BrokerAt
  <2>2. PICK i \in Id : i = bid[n]
    BY <1>3, <2>1
  <2>3. phase' = phase \/ phase' = [phase EXCEPT ![i] = "rejected"]
    BY <1>3, <1>5, <2>1, <2>2 DEF OnConnectAcquire, OnConnectFind, Reject
  <2>4. \A j \in Id : phase'[j] = phase[j] \/ phase'[j] = "rejected"
    BY <1>1, <2>3 DEF TypeInv, TypeOK, CmTypes
  <2> QED
    BY <1>2, <2>4, PeersIdle DEF Alive, Answered
<1>6. ASSUME ~OnConnectAccept(n), ~OnConnectAcquire(n), ~OnConnectFind(n)
      PROVE phase' = phase
  BY <1>1, <1>6 DEF BrokerStep, BrokerExit, BrokerEvent, OnConnectRequest,
     OnDisconnectAcquire, OnDisconnectErase, OnDisconnectDestroy, BrokerAt, QuietNodes,
     cmVars
<1> QED
  BY <1>2, <1>4, <1>5, <1>6, PeersIdle

LEMMA PeersCm ==
  ASSUME PeerInv, NEW i \in Id, Cm(i)
  PROVE NewIds /\ NewAnswers /\ Handover
<1>1. phase \in [Id -> Phases] /\ QuietIds
  BY DEF PeerInv, LockInv, TypeInv, TypeOK, CmTypes
<1>2. pc' = pc /\ tid' = tid /\ from' = from /\ to' = to
  BY DEF Cm, DeliverRequest, DeliverReply, DeliverReject, DeliverDisconnect, CmTimeout,
     ReplyTimeout, threadVars
<1>3. \A j \in Id : phase'[j] \in Alive => phase[j] \in Alive
  BY <1>1 DEF Cm, DeliverRequest, DeliverReply, DeliverReject, DeliverDisconnect,
     CmTimeout, ReplyTimeout, Alive
<1>4. \A j \in Id : phase[j] \in Alive /\ phase'[j] \in Answered => phase[j] \in Answered
  BY <1>1 DEF Cm, DeliverRequest, DeliverReply, DeliverReject, DeliverDisconnect,
     CmTimeout, ReplyTimeout, Answered
<1> QED
  BY <1>2, <1>3, <1>4, PeersIdle

LEMMA PeersNext == Disciplined /\ PeerInv /\ [Next]_vars => PeerInv'
<1> SUFFICES ASSUME Disciplined, PeerInv, [Next]_vars PROVE PeerInv'
  OBVIOUS
<1>1. LockInv' /\ MatchInv'
  BY LockNext, MatchNext DEF PeerInv
<1>2. CASE UNCHANGED vars
  <2>1. AnsweredOK' /\ OwnedOK'
    BY <1>2 DEF vars, managerVars, threadVars, cmVars, PeerInv, AnsweredOK, OwnedOK, Opener
  <2> QED
    BY <1>1, <2>1 DEF PeerInv
<1>3. CASE Next
  <2>1. Keeps
    BY <1>3, EntriesKept DEF PeerInv
  <2>2. ASSUME NEW n \in Node, DtorStep(n) \/ NodeCall(n) \/ ProcessCleanup(n)
        PROVE NewIds /\ NewAnswers /\ Handover
    <3>1. phase' = phase /\ from' = from /\ to' = to /\ pc' = pc /\ tid' = tid
      BY <2>2 DEF DtorStep, NodeCall, DtorStop, DtorCleanup, DtorDestroy, DtorAcquire, Shutdown,
         ProcessCleanup, Running, PeerInv, LockInv, QuietNodes, QuietThreads, threadVars,
         cmVars
    <3> QED
      BY <3>1, PeersIdle
  <2>3. NewIds /\ NewAnswers /\ Handover
    BY <1>3, <2>2, PeersThread, PeersBroker, PeersCm DEF Next
  <2> QED
    BY <1>1, <2>1, <2>3, PeersStep DEF PeerInv
<1> QED
  BY <1>2, <1>3

LEMMA PeersInvariant == ASSUME Disciplined PROVE Spec => []PeerInv
<1>1. Init => PeerInv
  <2>1. Init => AnsweredOK /\ OwnedOK
    BY DEF Init, AnsweredOK, OwnedOK, Answered, Alive
  <2> QED
    BY <2>1, LockInit, MatchInit DEF PeerInv
<1>2. PeerInv /\ [Next]_vars => PeerInv'
  BY PeersNext
<1> QED
  BY <1>1, <1>2, PTL DEF Spec

\* Under a disciplined application an entry for another node is a connection
\* that one side has opened and the other has answered.
LEMMA EntryPhase ==
  ASSUME PeerInv, NEW n \in Node, NEW p \in Node, n # p, established[n][p] # NoId
  PROVE LET i == established[n][p] IN
          /\ i \in Id
          /\ phase[i] \in Answered
          /\ (from[i] = n /\ to[i] = p) \/ (from[i] = p /\ to[i] = n)
<1>1. Running(n)
  BY DEF PeerInv, LockInv, QuietNodes, QuietThreads, Running
<1>2. PICK i \in Id : i = established[n][p]
  BY DEF PeerInv, LockInv, TypeInv, TypeOK, ManagerTypes
<1>3. EntryOK(n, p)
  BY <1>1 DEF PeerInv, MatchInv, TableOK
<1>4. phase[i] \in Confirmed \cup {"replied", "orphan"}
      /\ ((from[i] = n /\ to[i] = p) \/ (from[i] = p /\ to[i] = n))
  BY <1>2, <1>3 DEF EntryOK
<1>5. phase[i] \in Answered
  BY <1>4 DEF PeerInv, LockInv, QuietIds, Confirmed, Answered
<1> QED
  BY <1>2, <1>4, <1>5

\* While the application is disciplined, for every number of nodes, threads and
\* ids: what the connecting side has in its table the listening side has too.
THEOREM ListenerIsFirst == ASSUME Disciplined PROVE Spec => []ListenerKnowsFirst
<1>1. PeerInv => ListenerKnowsFirst
  <2> SUFFICES ASSUME PeerInv, NEW n \in Node, NEW p \in Node,
                      established[n][p] # NoId, from[established[n][p]] = n, n # p
               PROVE established[p][n] = established[n][p]
    BY DEF ListenerKnowsFirst
  <2>1. PICK i \in Id : i = established[n][p]
    BY EntryPhase
  <2>2. phase[i] \in Answered /\ from[i] = n /\ to[i] = p
    BY <2>1, EntryPhase
  <2> QED
    BY <2>1, <2>2 DEF PeerInv, AnsweredOK
<1> QED
  BY <1>1, PeersInvariant, PTL

\* ... and two nodes that have each other in their tables have the same
\* connection, also when both have called Connect at the same time.
THEOREM OneConnectionPerPair == ASSUME Disciplined PROVE Spec => []PeersAgree
<1>1. PeerInv => PeersAgree
  <2> SUFFICES ASSUME PeerInv, NEW n \in Node, NEW p \in Node, n # p,
                      established[n][p] # NoId, established[p][n] # NoId
               PROVE established[n][p] = established[p][n]
    BY DEF PeersAgree
  <2>1. PICK i \in Id : i = established[n][p]
    BY EntryPhase
  <2>2. phase[i] \in Answered /\ ((from[i] = n /\ to[i] = p) \/ (from[i] = p /\ to[i] = n))
    BY <2>1, EntryPhase
  <2>3. CASE from[i] = n /\ to[i] = p
    BY <2>1, <2>2, <2>3 DEF PeerInv, AnsweredOK
  <2>4. CASE from[i] = p /\ to[i] = n
    <3>1. ASSUME NEW t \in Thread, Opener(t, i) PROVE FALSE
      <4>1. pc[t] \in {"wait", "insert"} /\ NodeOf[t] = p /\ arg[t] = n
        BY <2>4, <3>1 DEF Opener, PeerInv, MatchInv, WaitersOK, WaiterOK
      <4> QED
        BY <4>1 DEF PeerInv, LockInv, EmptyOK
    <3>2. phase[i] \in Alive
      BY <2>2 DEF Answered, Alive
    <3>3. established[p][n] = i
      BY <2>4, <3>1, <3>2 DEF PeerInv, OwnedOK
    <3> QED
      BY <2>1, <3>3
  <2> QED
    BY <2>2, <2>3, <2>4
<1> QED
  BY <1>1, PeersInvariant, PTL

=============================================================================
