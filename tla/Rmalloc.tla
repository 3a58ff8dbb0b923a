------------------------------ MODULE Rmalloc ------------------------------
(***************************************************************************)
(* rdma_memory_resource: a bump allocator over registered memory, shared   *)
(* by all threads, with free lists in front of it that are thread_local    *)
(* and static, so one set per thread serves all memory resources.          *)
(*                                                                         *)
(* Addresses are offsets; arena r occupies Base[r] .. Base[r] + Bytes - 1  *)
(* and its first address has every alignment.  head_ moves downwards.      *)
(***************************************************************************)
EXTENDS Integers, Sequences, FiniteSets, SequencesExt

CONSTANTS
  Thread,
  Resource,       \* rdma_memory_resource objects
  Base,           \* [Resource -> Nat]: rdma_memory_->raw()
  Bytes,          \* size of an arena
  Request,        \* <<bytes, alignment>> pairs the callers ask for
  kMinSlabClass, kMaxSlabClass,
  WordBits        \* width of an element of alignments_

Alignments == {q[2] : q \in Request}
Class == kMinSlabClass .. kMaxSlabClass

\* Smallest r with 2^r >= x; the code finds it with a table of logarithms.
UpperLog2(x) == CHOOSE r \in 0 .. x : 2 ^ r >= x /\ \A s \in 0 .. r - 1 : 2 ^ s < x

SlabClass(bytes) ==
  IF UpperLog2(bytes) < kMinSlabClass THEN kMinSlabClass ELSE UpperLog2(bytes)

\* if (alignment > bytes) bytes = alignment
Needed(q) == IF q[2] > q[1] THEN q[2] ELSE q[1]

ASSUME RmallocAssumption ==
  /\ Base \in [Resource -> Nat] /\ Bytes \in Nat
  /\ Request \subseteq (Nat \ {0}) \X (Nat \ {0})
  /\ \A a \in Alignments : \E k \in 0 .. a : 2 ^ k = a
  /\ \A r \in Resource, a \in Alignments : Base[r] % a = 0
  \* Larger requests end in an assertion (lines 66-69).
  /\ \A q \in Request : SlabClass(Needed(q)) \in Class /\ SlabClass(q[1]) \in Class
  /\ \A a \in Alignments : a <= 2 ^ WordBits   \* kMaxAlignment

VARIABLES
  head,       \* head_
  bits,       \* alignments_: the alignments a free list says it has
  freelist,   \* freelists_: <<alignment, address>> pairs
  pc,         \* a thread: idle, bump (in the compare-exchange loop), abort
  req,        \* <<resource, bytes, alignment>> of the call in progress
  expected,   \* __e of the compare-exchange loop
  live,       \* what callers hold: records of resource, address and request
  overwritten \* blocks somebody held when another allocation zeroed them

threadVars == <<pc, req, expected>>
callerVars == <<live, overwritten>>
vars == <<head, bits, freelist, threadVars, callerVars>>

\* The bit of an alignment is lost when the word is too narrow for it.
Bit(a) == IF a < 2 ^ WordBits THEN {a} ELSE {}

Block == [res : Resource, addr : Nat, bytes : Nat, align : Alignments]

\* What a caller of allocate gets: it may use the bytes it asked for, and gives
\* back the same size and alignment (rdma_allocator: sizeof(T) * n and 64).
BlockOf(r, addr, q) == [res |-> r, addr |-> addr, bytes |-> q[1], align |-> q[2]]

\* The bytes of a block, and whether a range of addresses touches it.
Extent(b) == b.addr .. b.addr + b.bytes - 1
Touches(b, lo, len) == b.addr < lo + len /\ lo < b.addr + b.bytes

\* Free lists hold one entry per address and alignment, the heads stay in
\* their arenas, and what a thread computes is an address.
TypeOK ==
  /\ head \in [Resource -> Nat]
  /\ \A r \in Resource : head[r] \in Base[r] .. Base[r] + Bytes
  /\ bits \in [Thread -> [Class -> SUBSET Alignments]]
  /\ \A t \in Thread, c \in Class :
       freelist[t][c] \in Seq(Alignments \X Nat)
  /\ pc \in [Thread -> {"idle", "bump", "abort"}]
  /\ req \in [Thread -> Resource \X Request]
  /\ expected \in [Thread -> Nat]
  /\ live \subseteq Block /\ overwritten \subseteq Block

\* What req and expected say while no call is in progress.
NoRequest == CHOOSE x \in Resource \X Request : TRUE

Init ==
  /\ head = [r \in Resource |-> Base[r] + Bytes]
  /\ bits = [t \in Thread |-> [c \in Class |-> {}]]
  /\ freelist = [t \in Thread |-> [c \in Class |-> <<>>]]
  /\ pc = [t \in Thread |-> "idle"]
  /\ req = [t \in Thread |-> NoRequest]
  /\ expected = [t \in Thread |-> 0]
  /\ live = {} /\ overwritten = {}

-----------------------------------------------------------------------------
(* do_allocate                                                             *)

\* Mutant of Fitting: every entry will do.
AnyEntry(list, a) == 1 .. Len(list)

\* Positions of the free list whose alignment is enough.
Fitting(list, a) == {k \in 1 .. Len(list) : list[k][1] >= a}
FirstOf(S) == CHOOSE k \in S : \A j \in S : k <= j

\* Mutant of ZeroedBytes: the slab class is off by one.
ZeroesTwice(q) == 2 ^ (SlabClass(Needed(q)) + 1)

\* memset(ptr, 0, 1 << slabclass)
ZeroedBytes(q) == 2 ^ SlabClass(Needed(q))

\* Mutant of AllocateReuse: the entry is not erased.
ReuseKeepsEntry(t, r, q) ==
  LET c == SlabClass(Needed(q))
      list == freelist[t][c]
      k == FirstOf(Fitting(list, q[2]))
      ptr == list[k][2]
  IN
  /\ pc[t] = "idle"
  /\ q[2] \in bits[t][c] /\ Fitting(list, q[2]) # {}
  /\ bits' = [bits EXCEPT ![t][c] = IF k = Len(list) THEN @ \ {q[2]} ELSE @]
  /\ overwritten' = overwritten \cup {b \in live : Touches(b, ptr, ZeroedBytes(q))}
  /\ live' = live \cup {BlockOf(r, ptr, q)}
  /\ UNCHANGED <<head, freelist, threadVars>>

\* The free list of the class is looked at if it has the alignment's bit, and
\* its first entry that fits is taken.
AllocateReuse(t, r, q) ==
  LET c == SlabClass(Needed(q))
      list == freelist[t][c]
      k == FirstOf(Fitting(list, q[2]))
      ptr == list[k][2]
  IN
  /\ pc[t] = "idle"
  /\ q[2] \in bits[t][c] /\ Fitting(list, q[2]) # {}
  /\ freelist' = [freelist EXCEPT ![t][c] = RemoveAt(list, k)]
  /\ bits' = [bits EXCEPT ![t][c] = IF k = Len(list) THEN @ \ {q[2]} ELSE @]
  /\ overwritten' = overwritten \cup {b \in live : Touches(b, ptr, ZeroedBytes(q))}
  /\ live' = live \cup {BlockOf(r, ptr, q)}
  /\ UNCHANGED <<head, threadVars>>

\* ROME_ASSERT_DEBUG(!freelist->empty())
AllocateAsserts(t, r, q) ==
  LET c == SlabClass(Needed(q)) IN
  /\ pc[t] = "idle"
  /\ q[2] \in bits[t][c] /\ freelist[t][c] = <<>>
  /\ pc' = [pc EXCEPT ![t] = "abort"]
  /\ UNCHANGED <<head, bits, freelist, req, expected, callerVars>>

\* Nothing that fits, or no bit: the head is read.
AllocateMiss(t, r, q) ==
  LET c == SlabClass(Needed(q)) IN
  /\ pc[t] = "idle"
  /\ \/ q[2] \notin bits[t][c]
     \/ freelist[t][c] # <<>> /\ Fitting(freelist[t][c], q[2]) = {}
  /\ pc' = [pc EXCEPT ![t] = "bump"]
  /\ req' = [req EXCEPT ![t] = <<r, q>>]
  /\ expected' = [expected EXCEPT ![t] = head[r]]
  /\ UNCHANGED <<head, bits, freelist, callerVars>>

\* The call returns: its locals are gone.
Return(t) == /\ pc' = [pc EXCEPT ![t] = "idle"]
             /\ req' = [req EXCEPT ![t] = NoRequest]
             /\ expected' = [expected EXCEPT ![t] = 0]

\* __d: align the head downwards, then go down by the size.
Desired(t) == LET q == req[t][2]
              IN expected[t] - (expected[t] % q[2]) - Needed(q)

BumpOom(t) ==
  /\ pc[t] = "bump"
  /\ Desired(t) < Base[req[t][1]]
  /\ Return(t)
  /\ UNCHANGED <<head, bits, freelist, callerVars>>

\* Mutant of BumpSwap: the head is stored without comparing.
BumpStores(t) ==
  LET r == req[t][1] IN
  /\ pc[t] = "bump"
  /\ Desired(t) >= Base[r]
  /\ head' = [head EXCEPT ![r] = Desired(t)]
  /\ live' = live \cup {BlockOf(r, Desired(t), req[t][2])}
  /\ Return(t)
  /\ UNCHANGED <<bits, freelist, overwritten>>

\* The compare-exchange succeeds.
BumpSwap(t) ==
  LET r == req[t][1] IN
  /\ pc[t] = "bump"
  /\ Desired(t) >= Base[r] /\ head[r] = expected[t]
  /\ head' = [head EXCEPT ![r] = Desired(t)]
  /\ live' = live \cup {BlockOf(r, Desired(t), req[t][2])}
  /\ Return(t)
  /\ UNCHANGED <<bits, freelist, overwritten>>

\* Mutant of BumpRetry: __e keeps the value that was read first.
RetriesStale(t) ==
  LET r == req[t][1] IN
  /\ pc[t] = "bump"
  /\ Desired(t) >= Base[r] /\ head[r] # expected[t]
  /\ expected' = [expected EXCEPT ![t] = @]
  /\ UNCHANGED <<head, bits, freelist, pc, req, callerVars>>

\* It fails and leaves the head it found in __e.
BumpRetry(t) ==
  LET r == req[t][1] IN
  /\ pc[t] = "bump"
  /\ Desired(t) >= Base[r] /\ head[r] # expected[t]
  /\ expected' = [expected EXCEPT ![t] = head[r]]
  /\ UNCHANGED <<head, bits, freelist, pc, req, callerVars>>

-----------------------------------------------------------------------------
(* do_deallocate, by the holder of the block on any thread                 *)

Deallocate(t, b) ==
  LET c == SlabClass(b.bytes) IN
  /\ pc[t] = "idle" /\ b \in live
  /\ bits' = [bits EXCEPT ![t][c] = @ \cup Bit(b.align)]
  /\ freelist' = [freelist EXCEPT ![t][c] = Append(@, <<b.align, b.addr>>)]
  /\ live' = live \ {b}
  /\ overwritten' = overwritten \ {b}
  /\ UNCHANGED <<head, threadVars>>

-----------------------------------------------------------------------------

Running == \A t \in Thread : pc[t] # "abort"

Bump(t) == BumpOom(t) \/ BumpSwap(t) \/ BumpRetry(t)

Next ==
  /\ Running
  /\ \E t \in Thread :
       \/ \E r \in Resource, q \in Request :
            AllocateReuse(t, r, q) \/ AllocateAsserts(t, r, q) \/ AllocateMiss(t, r, q)
       \/ BumpOom(t) \/ BumpSwap(t) \/ BumpRetry(t)
       \/ \E b \in live : Deallocate(t, b)

Spec == Init /\ [][Next]_vars

FairSpec == Spec /\ \A t \in Thread : WF_vars(Running /\ Bump(t))

-----------------------------------------------------------------------------

\* Memory is handed out once: no two blocks that callers hold overlap, however
\* threads race on head_ and whatever went through the free lists.
BlocksDisjoint ==
  \A b, c \in live : b # c => ~Touches(b, c.addr, c.bytes)

\* A block has the alignment that was asked for and lies in the arena of the
\* resource it was allocated from, also when the arena runs out in the middle of
\* the compare-exchange loop: its caller uses that resource's memory region key.
BlocksAsAsked ==
  \A b \in live : /\ b.addr % b.align = 0
                  /\ Extent(b) \subseteq Base[b.res] .. Base[b.res] + Bytes - 1

\* An allocation zeroes memory of its own only.
NothingOverwritten == overwritten = {}

\* What is on a free list is nobody's block, and is on no other list: freed by
\* whichever thread, it comes back once.
FreeMemoryIsFree ==
  \A t, u \in Thread, c, d \in Class :
    \A j \in 1 .. Len(freelist[t][c]), k \in 1 .. Len(freelist[u][d]) :
      /\ freelist[t][c][j][2] = freelist[u][d][k][2] => <<t, c, j>> = <<u, d, k>>
      /\ \A b \in live : b.addr # freelist[t][c][j][2]

\* The compare-exchange loop ends: head_ only moves down, so a thread can lose
\* against others only as often as there is memory left (unless the process
\* aborts first).
AllocationsReturn == \A t \in Thread : pc[t] = "bump" ~> pc[t] # "bump" \/ ~Running
=============================================================================
