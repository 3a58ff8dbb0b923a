# A TLA+ model of librome

librome is a C++20 library for distributed programs over RDMA: nodes set up
reliable connections with librdmacm, exchange messages over them, and read, write
and swap words of each other's registered memory.  Beside that it has a workload
driver ("colosseum"), a thread pool, a coroutine scheduler and small data
structures.  This directory models the concurrent parts and the statistics and streams
the workload driver uses, checks them with TLC on small instances and proves with
TLAPS, for every value of the constants, the safety of the connection manager, the
messenger, the allocator, the memory pool, the thread pool, the coroutine scheduler,
the streams, the token bucket and the workload driver.

Line numbers below refer to the files under `src/`; `PROJECT.json` has the exact
source range of every definition, the mutant that shows that a property can be
broken, and the list of hazards the properties are aimed at.

## 1. Inventory

| Component | State | Operations | Interaction and what is hard about it |
|---|---|---|---|
| `ConnectionManager` (`rdma/connection_manager/`) | table `established_`, lock word `mu_` (0, own id, or a peer's id), `accepting_`, a backoff | `Connect`, `GetConnection`, `GetNumConnections`, `Shutdown`, destructor; callbacks `OnConnectRequest`, `OnEstablished`, `OnDisconnect` | Application threads and the broker thread share the table; `Connect` keeps the lock over a network round trip; two nodes may connect to each other at once; the broker must not wait for its own node's `Connect`. |
| `RdmaBroker` (`rdma_broker.cc`) | `terminate_`, `num_connections_`, listen channel | event loop as a coroutine, `Stop` | Calls the manager back for CM events; is joined by the manager's destructor. |
| `TwoSidedRdmaMessenger` (`rdma/channel/`) | send ring, receive ring cut into pieces, `recv_total_`, cursors | `SendMessage`, `PrepareRecvBuffer`, `TryDeliverMessage` | The hardware fills the pieces in the order they were posted; the receiver infers addresses from that order and refills only an empty ring. |
| `RdmaChannel` | none of its own | serialise and forward | |
| `rdma_memory_resource`, `rdma_allocator` (`rmalloc.h`) | `head_`, thread-local free lists and alignment bits | `allocate`, `deallocate` | Threads race on `head_` by compare-exchange; free lists mix sizes of a class and alignments. |
| `MemoryPool` (`rdma/memory_pool/`) | peers' connections and keys, `prev_`, `send_wr_`, completion queues | `Init`, `Read`, `Write`, `AtomicSwap`, `CompareAndSwap`, doorbell batches | Posts work requests that the hardware executes later, polls for "a" completion, reuses buffers. |
| `remote_ptr`, `RdmaMemory`, `RdmaDevice`, `RdmaAccessor` | packed pointer; regions; protection domains; none | encodings and registration | sequential |
| `LeakyTokenBucketQpsController` (`qps_controller.h`) | tokens, `last_refill_`, mutex | `Wait` | Callers spin on the clock with the mutex held. |
| `WorkloadDriver` (`workload_driver.h`) | `terminated_`, `running_`, the run thread's future | `Start`, `Stop`, destructor, `Run` | The owner stops a thread that may be anywhere between the controller, the stream and the client; every one of them may fail. |
| `ThreadPool` (`thread_pool.cc`) | queue, `stopped_`, workers | `Enqueue`, `Stop`, `Drain`, destructor | Workers race for tasks while the pool is stopped and destroyed. |
| `RoundRobinScheduler` (`coroutine.h`) | circular list, `curr_`, `last_`, `task_count_` | `Schedule`, `Run`, `Cancel` | Coroutines end, and schedule others, while the list is traversed. |
| `Summary` (`metrics/summary.h`) on `ATree` (`internal/atree/atree.h`) | a search tree that counts the samples of a window; merged percentiles, mean and variance | `operator<<`, getters, `ToString`, `ToProto`, destructor | Every getter flushes the window, so the result depends on who asked when; ranks are cut off; cleared trees are kept until the end. |
| Streams (`colosseum/streams/`), distributions | `terminated_`, a cursor, the ring of the latest keys | `Next`, `Terminate` | A driver pulls from a stream until it ends; the ring runs backwards. |
| `FixedHeap`, `BitSet`, `MarkedPtr`, `Counter`, `Stopwatch` | sequential data | | |
| Logging, status, duration utilities, gladiators, test utilities, scripts | none | | |

What makes each of the concurrent parts correct:

* **ConnectionManager**: the lock excludes; a pair of nodes ends up with one
  connection that both tables name; an accepted connection is in the listener's
  table before the other side uses it; calls return although each side waits for
  the other; the destructor can join the broker.
* **Messenger**: a reliable FIFO channel, around any number of turns of the rings.
* **Rmalloc**: blocks are disjoint, aligned as asked and inside their arena; free lists hold
  only free memory; clearing touches nobody; the compare-exchange loop ends.
* **MemoryPool**: a swap exchanges atomically; a call returns the effect of its own
  request; what a call leaves in the queues is known; buffers are not reused under the
  hardware's hands; start-up and every operation return.
* **Colosseum and utilities**: the rate holds and nobody starves; no operation after
  `Stop`; every started client is stopped; every task runs once; the scheduler's
  list stays one circle and Run ends.
* **Metrics and streams**: the tree holds the window whatever its shape, a percentile
  is the sample of its rank, merged percentiles stay in order and keep the extremes,
  every node is deleted once; a stream that has ended stays ended, and what the ring of
  the latest keys returns are the latest.

## 2. Modules

Each module has the component's state as variables named after the members, one
action per atomic step of the code, and, next to a definition, its mutants (named
in a comment; no specification uses them).  `MC*` modules only give constants.

| Module | Models | Notes |
|---|---|---|
| `ConnectionManager` | manager, broker, the part of librdmacm both use | composes application threads, brokers, and the event queues of all nodes |
| `ConnectionManagerProofs` | | type correctness and what the table holds, all calls and faults; the locking protocol; the two ends of a connection |
| `MessageChannel` | what a channel promises (abstract) | |
| `TwoSidedMessenger` | one direction of a messenger with its queue pair | refines `MessageChannel` |
| `TwoSidedMessengerProofs` | | the refinement, the pieces, the assertion of `PrepareRecvBuffer` |
| `Rmalloc` | the memory resource | |
| `RmallocProofs` | | memory is handed out once, as asked |
| `MemoryPool` | pools, queue pairs and completion queues of several nodes | |
| `MemoryPoolProofs` | | tokens, payloads, completions, and what a call that returns has done |
| `QpsController` | the token bucket and the clock it looks at | operations only; composed by the next |
| `WorkloadDriver` | owner, run thread, client, stream | extends `QpsController`: several drivers share a bucket |
| `WorkloadDriverProofs` | | no operation after `Stop`; every started client is stopped; the rate of the drivers that share a bucket |
| `ATree` | the search tree as a value, with its visitors as operators | used by the next |
| `Summary` | the statistics, with the visitor and the accessor they give the tree | instantiates `ATree` with its visitor |
| `Streams` | the basic streams and the YCSB workloads | |
| `StreamsProofs` | | the ring of the latest keys; ended streams stay ended |
| `ThreadPool`, `RoundRobinScheduler` | the utilities | the broker runs on the scheduler |
| `ThreadPoolProofs` | | no task is lost or run twice |
| `RoundRobinSchedulerProofs` | | the list is one circle, and nobody is overtaken |

### ConnectionManager

`mu[n]`, `established[n]`, `accepting[n]` are the members of node n's manager.  An
application thread t has a program counter `pc[t]` and the locals of its call: the
argument `arg`, the new connection id `tid`, the iterator `it` it dereferences
after `Release()`.  A broker has `bpc`, `bid` (the event's id), `terminate`,
`listenOpen` (the listen channel exists) and `numConn`.  A pair of endpoints is one
element of `Id`: `from` connected, `to` listens, and `phase` is what the kernels
know (`free`, `pending`, `replied`, `connected`, ...).  `connq` and `listenq` are
the event channels.

Steps follow the code's atomic accesses: one compare-exchange of `Acquire`, one
table access, one CM call.  `Connect` (lines 259-407 of
`connection_manager_impl.h`) is `Connect`, `ConnectAcquire`, `ConnectLookup`,
`ConnectOpen...`, one action per event it may receive, and `ConnectInsert`; the
request handler (115-183) is `OnConnectRequest` to `OnConnectAccept`.  `Acquire`'s
rule that a caller whose own node's id is in the word gives up is `GaveUp`.

librdmacm is external: it is modelled as the code uses it.  Requests, replies and
rejections are delivered once, in any order between different ids; a connecting
side may time out while a reply is on its way (`CmTimeout`); a dead process's ids
are disconnected by the kernel (`ProcessCleanup`).  `ROME_FATAL` and `ROME_ASSERT`
stop the process (`abort`).  `rdma_destroy_ep` on the listener waits until every event
reported on it has been acknowledged: `unacked` has the nodes whose broker dropped a
request without that (`OnConnectRequest`, line 118), and the last step of the destructor,
`DtorDestroy`, is enabled for the others only.

`Calls` says which calls the applications make and which faults may happen:
`LocalFailure` is an error of a set-up call in `Connect`, which returns with the
lock held.  A manager is started once, as `MemoryPool::Init` does it.
`requested_` and `loopback_id_` have no variables as the code never sets them.

### TwoSidedMessenger

Offsets replace addresses.  Hardware moves a posted message into the first posted
piece at any time until the completion is polled (`Transmit`), reports a receiver
without pieces after `RnrRetry` attempts, and flushes both queues after a
disconnect.  `ImplementsChannel` maps the queue to the completed pieces, at the
addresses the receiver will read them from: it holds only if `recv_next_` and the
order of completions agree.  `recv_total_` is 32 bits wide and wraps at `TotalMod`.

### Rmalloc

`Request` is the set of <<size, alignment>> pairs the callers use; `live` is what
they hold; `overwritten` collects held blocks that another allocation cleared.  The free
lists are per thread, not per resource, as `static thread_local` says.  `rdma_allocator`
asks for alignment 64 whatever the size (`rmalloc.h:147-153`), so requests smaller than
their alignment are the rule: they are raised to it, but freed into the class of the size
that was asked for.  The instances scale 64 down to 4.

### MemoryPool

Every node has a pool with one thread.  The word `swapped` on node `Home` is only
traded: a pool holds a token and `AtomicSwap`/`CompareAndSwap` exchange it.  The
word `data` is read and written.  A queue pair executes its requests in order,
except that a write may pass a read that is not fenced; atomics are executed one at
a time at the memory.  Batches are modelled without the optional fences, which
allows more than the code with them.  An object is one word, so a read has one
chunk.  `Programs` is the set of what the applications may call, chosen at the
start: it keeps the state space to combinations that matter to each other.  A call
that its kill switch abandons returns to its caller; its requests stay under way, and
the next call of the pool takes their completion for its own.  `abandoned` counts these
calls (`MaxAbandoned` bounds them), for the properties.

### QpsController, WorkloadDriver, ThreadPool, RoundRobinScheduler

Time is in ticks, `Second` to a second, and only the time since `last_refill_` is a
variable (`elapsed`), so the clock need not end: it stands still at `MaxElapsed` or
`MaxTokens`, until a caller has looked at it or taken a token.  A caller spins with the mutex held (`WaitSpin`), and
`WaitLeave` takes the token.  `WorkloadDriver` keeps the order in which `Run` looks at
`terminated_`, waits for the controller, takes from the stream and applies.  `ThreadPool` separates a worker's look at `stopped_` from the
locked look at the queue; the busy wait of `Drain` reads the queue without the lock.
`RoundRobinScheduler` keeps both links of every wrapper.

### Summary and ATree

A tree is a record: `node` maps a key to its value, metadata and children, and
`cleared` counts the nodes of the trees that `Clear` has put aside.  The visitor, a
template parameter, is given by constant operators, which `Summary` instantiates;
`InsertOrUpdate` folds them over the path from the new node to the root, as the code
does with its stack.  `FindNthPercentile` is the
descent of the code, with its order of tests; it is `Null` where the code would
follow a null pointer.  Percentiles are per mille.  A double is a multiple of
1/`Unit`, and `Unit` is the factorial of `MaxSamples`: the merged percentiles are
divided by the number of all samples only, so every division that the code does is
exact, and an invariant cannot hold or fail by rounding.  Only the cut-off of the rank to
an integer, which the code asks for, is kept.  `mean_`, `squared_total_` and `variance_`
are left out: nothing depends on them, over exact numbers their formulas are identities,
and what can be wrong with them is the rounding.
`history`, `merged`, `allocated` and `deleted` are for the properties.

### Streams

One stream of each kind is built, asked for values, and may be terminated by its user
at any moment.  A random distribution is any value of its range.  The FNV hash of
`YcsbKeyGenerator` is any unsigned word (a signed `T` may make the remainder negative);
that the key is taken modulo `hi` and then moved by `lo` is kept.  `latest_` starts with
memory that nobody has written, and `LatestAt(i)` is what `Latest` returns for the offset
i it has drawn.

## 3. Runs

| Run | Instance | Checks |
|---|---|---|
| `cm_core` | 2 nodes, 3 threads, 5 ids, everybody connects to everybody and itself; `GetConnection`, `Shutdown` | `MutualExclusion`, `InsertionSucceeds`, `PeersAgree`, `ListenerKnowsFirst`, `EntriesAreStable` |
| `cm_live` | 2 nodes that connect to each other, 2 ids, a third thread that calls `GetNumConnections`; set-up failures, timeouts, destructors; fair | `EntriesMatchPeer`, `CallsReturn`, `DestructorFinishes` |
| `cm_num` | 2 nodes, 2 threads each, `GetNumConnections` | finding: `InsertionSucceeds` fails |
| `tsm` | messages of 1, 2 and 3 bytes, pieces of 3, rings of 7, counter modulo 4 | `PiecesAreExclusive`, `ImplementsChannel`, `SendReturns`, `EverythingIsDelivered`, `ReceiverRecovers` |
| `rm` | 2 threads, arena of 14 bytes, sizes 2, 3 and 8 at alignment 4 and 4 at 2 | `BlocksDisjoint`, `BlocksAsAsked`, `NothingOverwritten`, `FreeMemoryIsFree`, `AllocationsReturn` |
| `rm_overlap` | 1 thread, sizes 5 and 8 at alignment 4 | finding: `BlocksDisjoint` fails |
| `wd` | 2 drivers that share a bucket of rate 1, 2 ticks a second, every failure; fair | `QuietAfterStop`, `StartedClientIsStopped`, `OwnerReturns` |
| `tp` | 2 workers, 3 tasks | `EveryTaskOnce`, `TasksRun`, `DestructorReturns` |
| `rr` | 4 coroutines of one or two resumes | `OneCircle`, `NobodyOvertakes`, `RunReturns` |
| `mp` | 2 pools, one over loopback, 2 buffers, batches of 2, one abandoned call per pool | `TokensAreExchanged`, `PayloadsIntact`, `CompletionsMatch`, `OperationsTakeEffect`, `InitReturns`, `OperationsReturn` |
| `sum` | 4 values, windows of 4, up to 6 samples | `TreeHoldsWindow`, `RanksAreExact`, `PercentilesAreOrdered`, `ExtremesAreKept`, `EveryNodeDeleted` |
| `st` | every kind of stream, a ring of 4, keys below 3 | `LatestIsRecent`, `TerminatedForGood` |

**Why the bounds are enough for the cases of interest.** The manager's protocol is
pairwise: with two nodes every race of crossing connects, of two threads of one node, of
loopback against remote, and of a late answer happens; five ids give each thread a
connection, a retry and a loss. Rings of two pieces and a counter that wraps make the
messenger go around each of its boundaries: the end of the send ring, the last piece,
the wrap, and the state without pieces. An arena of 14 bytes holds one block of eight
and one of four, or three of four, and ends at no multiple of 4, where `head_` starts,
so threads meet exhaustion in the middle of the loop and the free lists are needed. The
sizes 2, 3 and 8 at alignment 4 are what 8, 40 and 128 are at 64: freed into a class
nobody looks in, into the class they are taken from, and larger than the alignment; 4 at
alignment 2 shares a class with 3 at 4, and its block need not do for it. One abandoned
call puts a pool a completion behind for all its later calls. A bucket of one token and
a clock of four ticks give the drivers an empty bucket, a wait within a second, and two
idle seconds that overfill the bucket. Six samples are a full window and the start of
another, or up to six windows of every length, since each getter ends one; four values
give every shape of a tree of up to four nodes, with repeated samples; windows of at
most four keep the product of a percentile and the size exact in doubles as well. In
such windows the 90th and all higher percentiles but the maximum have the same rank, so
`PercentilesAreOrdered` really compares four of the seven. A ring of four goes around
without end. Four coroutines allow removal of the first, the last, the only, and the one
behind the running one. Ids are symmetric in the safety runs of the manager; no liveness
run uses symmetry.

**Deadlock** is checked in `tsm`.  Elsewhere the system may stop: processes end or
abort, a request is dropped after `Shutdown` (`cm_core` has no timeouts), tasks are
used up, an arena is exhausted, or an object is destroyed.

**Fairness.**  Only threads that are running, and the network or hardware, are
assumed to make progress (weak fairness): OS threads are scheduled, librdmacm and
the queue pairs answer or time out.  No call has to be made and no fault has to
happen.  Strong fairness is used once, for entering the rate controller's mutex in
`WorkloadDriver`: `absl::Mutex` queues its waiters.  In `MemoryPool` weak fairness of
`InitStep` covers the loop that repeats `Connect` until the peer accepts; that
`Connect` itself returns is the `CallsReturn` of the manager.  Time passes
(`WF` of `ClockTick`); a turn of a spinning loop that finds nothing needs no fairness.

## 4. Theorems

**ConnectionManager**, for any set of nodes, threads and ids (`ConstantsAssumption`: at
least one node, `kUnlocked` is not a node's id, `NoId` not an id).

* `TypeCorrect` (`Spec => []TypeOK`), for every set of calls and faults.  `TypeOK`
  alone is not inductive, since steps write the thread's `tid` or the broker's `bid`
  into the table: `LocalsOK` says that at the program counters where they are used
  they are ids.
* `TableMatchesPeers` (`Spec => []EntriesMatchPeer`), also for every set of calls and
  faults.
* `LockIsExclusive`, `LockNamesItsHolder`, `NoInsertionFails`, `TableIsStable`,
  `ListenerIsFirst` and `OneConnectionPerPair`, under
  `Disciplined`: the applications call `Connect`, `GetConnection` and `Shutdown`, and
  none of the faults happens, as in the instance `cm_core`.  The others leak or break the lock, end connections or
  end a process (section 5), so the statements do not hold with all of them.

The inductive invariant of the locking theorems is `LockInv`.  `LockOK` says that the word holds the node's
own id exactly while one thread of the node is inside, and a peer's id exactly while
its broker is; this needs that a broker never acquires with its own id, which
depends on where its requests come from: `EventsOK` says that every queued
CONNECT_REQUEST, and the one in the handler's hands, belongs to a connection of
another node that is still unanswered, and that no two name the same one.
`EmptyOK` carries the fact that the entry was empty from the lookup to the
insertion: it survives the round trip since only a holder of the lock inserts.
`QuietThreads`, `QuietNodes` and `QuietIds` exclude the states that only the other
calls reach.  The proofs have one step per action and lemmas for the queues.

`TableMatchesPeers` rests on `MatchInv`.  An entry is written from the thread's `tid`
or the broker's `bid`, so it can only be right if these are: `TidsOK` says that no two
calls use the same id, `WaitersOK` that the id of a call goes from its node to the peer it
names and is confirmed when it is inserted, `RequestsOK` that a request is announced to
the node it is meant for, once, and not again while it is handled.  `ChannelsOK` is what
makes `insert` safe: the event ESTABLISHED is on the channel of an id only after the
peer's answer has been delivered.  `TableOK` then names the three ways an entry comes
about: loopback, opened here and confirmed, accepted here.

`ListenerIsFirst` and `OneConnectionPerPair` rest on `PeerInv`, which is `LockInv`,
`MatchInv`, that a connection the listener has answered is in its table (`AnsweredOK`;
`OnConnectAccept` writes the table with the lock held and `TableIsStable` keeps it),
and that a connection still alive belongs to the call that opened it or is in that
node's table (`OwnedOK`).  An entry for another node is a connection one side
opened and the other answered.  If this node opened it, `AnsweredOK` puts it in the
peer's table.  If the peer did, `OwnedOK` says that it is in the peer's table, or
that the peer's call has yet to insert it, and then `EmptyOK` says that the peer has no
other entry in its place.

**TwoSidedMessenger** (`MessengerAssumption`: there is at least one piece, and the
number of pieces divides the modulus of `recv_total_`, which the powers of two of every
use do), for every capacity, size of a piece, set of messages, number of retries, with
and without a disconnect.  The invariant is `MessengerInv`.  Its heart is `Window(b, l, s)`: piece b is
next, l pieces have been posted in this round, and the pieces from b on are, in this order and without
overlap, the one `TryDeliverMessage` has taken, those completed (s successes, then
flushed receives), and those posted; `recv_total_` is b modulo the number of pieces.
While the connection is up there is no gap between them, which is what entitles the
receiver to infer addresses from the order of completions.  `Contents` says that at these
addresses lie messages whose lengths are those of the completions, and `SenderOK` that a
posted copy is inside the send ring and that a broken connection is broken for both
ends.  The invariant gives `MessengerTypeCorrect`; `AssertionNeverFails`, since
behind the last piece the window is empty; `PiecesPostedOnce`, since the parts of the
window do not overlap; and `MessengerImplementsChannel`.  For the refinement, `WaitingIs`
shows that the abstract queue is the part of the window before the flushed receives:
`SendPost` is `Submit`, `Transmit` appends (`Accept`), `CopyOut` removes the head
(`Deliver`), the failures are `Break`, a poll without success is `NothingToDeliver`, and all other
steps leave the channel as it is.

**Rmalloc** (`RmallocAssumption`), for any number of threads.  The statements fail for some
of the sizes that `rdma_allocator` may be asked for, so each has the hypothesis on the set
of requests that it needs.  All have `WellSized`, which is

* `SingleResource`: the free lists belong to the thread, and a second resource would be served
  from the first one's memory (section 5); and
* `ReuseFits`: if a block freed after one request may be found by another one (`Meets`: they
  have a class in common, and the alignment is enough), it is as long as that one needs.  With
  alignment 64 this is so for all sizes up to 64, and for larger ones as long as no two of
  them are in one class; so for the 8 and the 80 bytes of `rmalloc_test.cc`, but not for
  80 and 128 together (`rm_overlap`).

`MemoryHandedOutOnce` and `FreeListsAreExclusive` need no more.  `MemoryIsAsAsked` needs
`SizesAligned`: a size, once raised to its alignment, is a multiple of it, as 8 at 64 and
128 at 64 are, and `AlignmentsNest`: a larger alignment is a multiple of a smaller one (true
of powers of two, which needs an induction over exponents, and is therefore assumed).
80 at 64 does not satisfy `SizesAligned`, and the theorem `OtherSizesMisalign` shows that
such a block is misaligned whenever it is cut from the arena.  `ZeroingIsPrivate` needs
`ZeroingFits`: what `memset` clears, the size of the class, is no longer than the freed block
was.  80 at 64 is excluded again, as its reuse clears 128 bytes.  The instance `rm`
satisfies all of these hypotheses.

`Spaced` is the invariant: blocks held by callers and slabs on free lists lie above
`head_` inside the arena (`HeldOK`, `ListedOK`), and any two of them, held or listed, do not
touch (`HeldApart`, `ListedApart`, `FreeApart`).  A held block is counted with what was
reserved for it (`Room`), a slab with the least that was reserved for any request filed in
its place (`Slab`), since a free list does not keep the size: there `ReuseFits` is used.
A successful compare-exchange moves `head_` below the new
block, whatever other threads did since it was read.  `Aligned` adds that blocks and slabs
are aligned as their record says.

**ThreadPool**, for any sets of workers and tasks: `PoolTypeCorrect` and
`NoTaskLostOrRunTwice`.  `EveryTaskOnce` counts places; the invariant `Accounted` says it place by
place: a task nobody enqueued is nowhere (`NoStrangers`), no task is in two places of
the queue, of the workers and of what is done (`NoDuplicates`), and every accepted task
is in one (`NoLosses`).

**Streams** (`StreamsAssumption`), for every size of the ring, range of keys and input.
`LatestReturnsRecentKeys` (`LatestIsRecent`) is proved from `Recent`: the key drawn i steps
ago is in the i-th place behind `newest_`, around a ring that leaves out place 0, which is
still garbage; and the constructor has filled the ring before anybody reads.  `Latest`
looks at `newest_ + i` modulo the full size instead: `OffsetsFind` says which key, or
place 0, it finds there, also behind the place where the ring closes.  `ReadsRecent` carries
that to what `YcsbD` has returned, since a later draw comes with a later result.  `EndedStreamsStayEnded` is the action property
`TerminatedForGood`, from the invariant that a stream which has reported its end is
terminated or at the end of its input (`EndedRightly`).

**MemoryPool** (`PoolAssumption`: every list of peers has `Home` in it, the tokens the
application starts with are all different, a buffer is neither of the words, and zeroed
memory looks like no token and no datum), for any number of pools, peers, buffers, tokens and
requests in a batch, and any programs.

The proof has two layers.  `WireInv` holds of every pool, whatever it has abandoned.
`KeysOK` carries the exchange of keys to the operations: what is on its way from a node,
and what others know of it, is its own key, and the loop that waits for keys has those of
the peers behind it; so a pool that may be called has the key of `Home`, and its
requests succeed.  `SentOK` says what has been sent and come back; its `Lag` counts: the
completions in the queue and those still to come are as many as calls were abandoned, and
one more during a call.  `CompletionsAlwaysMatch` follows, with `QueueOK` for the requests.

`PoolInv` adds what holds of pools that have abandoned nothing (`Patient`): a pool that is a
completion behind returns before its own request is executed, so no more can be said of
its calls.  `QueueOK` is the protocol of a queue pair: requests whose last one, and no
other, is signaled, or else the one completion of the last, or nobody waits.  `RequestOK`
says of each that its local memory is allocated and its own and that its payload is still
there, `BatchOK` the same of a batch under construction, where the allocator may run in
between, and `CallOK` relates the locals of the call to both: the buffer that `Write`
frees itself is neither held by the application nor part of a batch, which is what
`PayloadsStayIntact` rests on.

`TokensAreExchanged` speaks of pools between calls and is not inductive: a swap takes
place at the word long before its caller knows.  `TokensOK` therefore says what belongs to a pool at
every moment (`Owned`): once its request has been executed and has answered the expected
value, the token it expected, although `hand` is still the old one.  Only `QpExecute` exchanges
the places of two tokens; a failed compare-and-swap, the answer, the poll and the next attempt
with the value seen change nothing, whatever other pools do in between, equal values coming back included.
`TokensOK`, and so `TokensKeepTheirPlace`, is about all pools together, and holds until one of them abandons
a call: a swap that follows reads `prev_` before its own answer is there.

`OperationsHaveTakenEffect` is the action property.  `DataSeen` says that a reader's
`during` has what the word holds, and `EffectOK` that a local address of the call has a value from
`during`, or a request that will bring it.  When a call returns, the completion is
there and `QueueOK` leaves no request.  A step of one pool leaves what is said of the
others as it was (`Aside`, `Keeps`, `KeepsPreserves`), except for the two words.

**RoundRobinScheduler** (`SchedulerAssumption`), for any number of coroutines and of
their resumes.  `OneCircle` walks along `next` with a recursive function, about which an
invariant can say little.  `Circle` states instead that there is a numbering of the
wrappers, from `curr_` on, in which each is linked with the next one and the last with
the first (`Ring`).  What the code does to the list is an operation on numberings:
`Schedule` puts a new number behind the one of `last_` (`InsertRing`), a turn moves the first to the end
(`AdvanceRing`), and the end of a coroutine drops the first (`RemoveRing`).
`WalkIsRing` then shows that a walk of k links ends at number k modulo `task_count_`: the
numbering, repeated, satisfies the equation of `Walk`, and a least k at which they differ
is impossible.  `ListIsOneCircle` follows.  For `NobodyIsOvertaken` the
numbering is also `Ordered`: whoever has passed a coroutine comes behind it.  A new
coroutine, which the code inserts at any place of the circle, has passed nobody (`Unseen`); the one
that had its turn goes to the end; and the one whose turn it is comes first, hence
has passed nobody that still waits.  `SchedulerTypeCorrect` includes that links lead to wrappers that exist.

**WorkloadDriver** (`DriverAssumption`), for any set of drivers, with or without the
controller, and any failures.  `NothingAfterStop` and `ClientIsStopped` are proved from
`DriverInv`: besides the two properties and `TypeOK`, that the future is ready only when
the run thread has ended (`FutureNamesEnd`, which is why `Stop` may return), that a client is new
until the thread has called its `Start` (`ClientStartsNew`), and that a driver is
terminated only after it was started (`StartsOnce`).

`RateIsBounded` (`QpsAssumption`: rate and second are positive) is about the same
drivers, with two counters that no step reads: the time since the controller was made and the tokens it has
handed out (`CountedSpec`, whose steps are those of the drivers and the clock).  Up to
a time `now` the drivers have been let through at most `max_qps` times for
every second, and `max_qps` more (`RateHolds`).  `RateHolds` says nothing of what is
still in the bucket; the invariant `Bounded` counts it as if it had been handed out,
at the time of the last refill.  It is inductive since `duration_cast` never rounds up
(`DepositIsPaidFor`), and since the larger of the refilled bucket and `max_qps`, which
`std::max` takes, is always the refilled bucket (`RefreshIsBounded`).

Only checked by TLC.  Liveness and fairness are out of the prover's reach: `CallsReturn`,
`DestructorFinishes`, `SendReturns`, `EverythingIsDelivered`, `ReceiverRecovers`, `AllocationsReturn`, `OwnerReturns`,
`TasksRun`, `DestructorReturns`, `RunReturns`, `InitReturns` and `OperationsReturn`.  So is
induction over data: the invariants of `Summary` are about what recursive visitors
compute on a tree, and `Summary` reaches recursive operators, which the prover does not
accept.  Every other invariant and action property of a passing run is a theorem.

## 5. Where the code disagrees with itself

Shown by a run (`findings` in `PROJECT.json`):

* `GetNumConnections` ignores that `Acquire(my_id_)` may fail and then calls
  `Release()`: it unlocks another thread's `Connect`.  In `cm_num` a second `Connect` of the
  node to itself then gets the lock too, and the assertion at
  `connection_manager_impl.h:262` fires; between two nodes, when the locks of both are
  broken, the ones at 182 and 399 can.
* Rmalloc hands out new memory by exact size but keeps free lists by size class, so a
  freed block of 80 bytes at alignment 64 serves a request of 128 and overlaps its neighbour
  (`rm_overlap`, scaled to 5 and 8 bytes at alignment 4).

Met while modelling and kept in the models as the code has them:

* `Connect` returns errors of its set-up calls without `Release()`
  (`connection_manager_impl.h:301-304`, 320-322, 333, 388-393).  In `cm_live` these
  failures happen at any moment: calls and the destructor still return, but the node can
  neither connect nor accept from then on, and `GetConnection`, which tries again when
  `Acquire` gives up, would spin for ever; `cm_live` is therefore without it.
* `OnDisconnect` destroys the event channel of the id, which for an accepted id is
  the broker's listen channel (214-216): the node accepts nobody afterwards.
* `Connect` and `GetConnection` dereference an iterator after `Release()` (275-276,
  371); a disconnect in between may have erased it.
* A reply that comes after the connecting side gave up becomes an error event on the
  listen channel, on which the broker ends the process (`rdma_broker.cc:201-207`).
* A request that comes when `accepting_` is false is neither answered nor acknowledged
  (118).  `~RdmaBroker` then waits for that acknowledgement in `rdma_destroy_ep(listen_id_)`
  (`rdma_broker.cc:50`), for ever; it happens in `cm_live`, and `DestructorFinishes` says
  that the destructor waits in this case only, and nowhere else.
* The broker's loop ends with `terminate_` although the comment above it asks for
  "no connections left" (`rdma_broker.cc:147-149`).
* `rnr_retry_count = 1` is commented "Retry forever" (173); 7 would be.
* The messenger's size check is `<` and its message says "expected<="
  (`twosided_messenger_impl.h:46-48`): a message as long as a piece is refused.
* New memory is aligned before the size is subtracted (`rmalloc.h:88`): 80 bytes at 64, as
  `rmalloc_test.cc` asks for them, are misaligned, contrary to the comment at 56-57
  (`OtherSizesMisalign`), and their reuse clears 128 bytes (79): 48 behind the block, which
  may be the neighbour's, or lie behind the end of the memory.
  8 bytes at 64 are taken from the class of 64 but freed into that of 8, where no request
  at alignment 64 looks: they are never reused.
* Rmalloc's free lists are shared by all resources of a thread (`rmalloc.h:119-122`),
  which `rm`'s instance with one resource does not show.  An alignment bit can
  outlive the last block of its alignment (73, 78), which a debug assertion then
  meets (`AllocateAsserts`; it happens in `rm`).
* The token bucket takes `std::max` of the refill and one bucket
  (`qps_controller.h:58`): idle seconds add up to a burst; `RateHolds` counts from
  the start and allows it.  What `duration_cast` cuts off is lost, so the rate is below
  `max_qps` when callers look at the clock only now and then.
* `WorkloadDriver::Start` spins for ever if the client's `Start` fails (139).  `Stop` asks
  the future of a failed run a second time, which throws (155); a second `Stop` returns
  Unavailable.
* Nothing sets `ThreadPool::drain_` (`thread_pool.cc:30`, 41-45): `Drain` refuses no
  new tasks.  `TasksRun` therefore speaks of pools that are not stopped.  The destructor
  joins workers that nobody has told to stop (14-18); `DestructorReturns` speaks of pools
  that are.
* The scheduler inserts a new coroutine behind the last one, not as the next one
  (`coroutine.h:72`, 82-86); `Cancel` polls the non-atomic `curr_` (128-135).
* `MemoryPool::Execute` tests `*kill`, not `kill_switch_`
  (`memory_pool_impl.h:188`); if that compiles, it names kill(2) and is always true,
  so a batch with a kill switch returns at the first empty poll.  Like a `Read` that
  its kill switch ends (257-265), it leaves a completion behind for the next call, which
  leaves its own for the one after it: the pool is one completion behind for ever
  (`CompletionsMatch`), and its calls return before their requests are executed.
* If `Init` fails at one node, the others wait for its key for ever (143-164); `InitReturns`
  exempts this.
* `LatestStream` closes its ring one place early (`ycsb.h:44-48`): place 0 of `latest_` is
  never written, and `Latest` may return it (36), contrary to "a history of the last `_size`
  elements"; offset 0, the likeliest of the zipfian distribution, gives the oldest of the
  `_size` - 1 keys that are there, and 1 the newest (`LatestIsRecent`).
* A YCSB key is `hash % hi + lo` (`ycsb.h:107`), which is above `hi` for some `lo` > 0, and
  may be below `lo` if `T` is signed.
* The constructor of `YcsbRmw` leaves `key_stream_` null, and its first `Next`
  dereferences it (`ycsb.h:248`; `NextRmw`).
* `ATree::FindSuccessors` never advances `parent` (`atree.h:334-345`), so `Remove` takes
  every successor for the right child and links it below itself, and
  a node without right child takes its left subtree with it (356).  Nothing in the
  library calls `Remove`.
* `Summary::Accumulate` copies a summary whose tree owns raw pointers; it has no caller.
  `variance_` is a difference of doubles, so rounding may make it negative, and
  `value * value` is computed in the type of the samples (`summary.h:228-231`).
* `AddWrite` of a value leaks its buffer (64-70).  `prev_` and `send_wr_` are not
  protected: a pool is for one thread.

## 6. Not modelled

`RdmaChannel`, `RdmaAccessor`, `RdmaDevice`, logging, status and duration utilities:
no state, or I/O around a map.  Gladiators, fakes and scripts are not part of the
library.  `RdmaBroker::Init` is a sequence of library calls without concurrency.
Reads of several chunks are left out of `MemoryPool`, the running mean and variance of
`Summary`.  `ATree::Insert`, `Find` and `Remove` and `Summary::Accumulate` have no caller
outside tests.  How often a distribution draws which value, rounding of doubles, and
the width of a sample's type are abstracted.  A driver that is asked for its statistics
while it runs races with its run thread on a tree of pointers (`workload_driver.h:57`);
the repository's callers ask after `Stop`, and `Summary` has one thread.
`colosseum/streams.h` is an older copy of the classes in `colosseum/streams/`.

## 7. Plan

1. An abstract `ConnectionTable` (each pair is unconnected, or connected by one id
   for good) that `ConnectionManager` implements while nobody disconnects.
2. `RdmaMemory`'s regions, the packing of `remote_ptr`, the chunks of a partial read,
   `FixedHeap`: sequential, against reference definitions over bounded inputs.
3. Proofs: that `ConnectionManager` implements the abstract table, from `PeerInv`
   and `EntriesAreStable`.
