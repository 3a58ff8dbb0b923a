------------------------------ MODULE Summary ------------------------------
(***************************************************************************)
(* metrics::Summary: statistics of a stream of samples.  The samples of a  *)
(* window are kept in an ATree whose nodes count the samples under them;   *)
(* when the window is full, or somebody asks, its percentiles are merged   *)
(* into the statistics and the tree is cleared.                            *)
(*                                                                         *)
(* A percentile is a multiple of 1 / Unit; Unit is chosen so that every    *)
(* division of the code is exact.  Percentiles are given per mille.  mean_, *)
(* squared_total_ and variance_ are left out: nothing else depends on them, *)
(* and what can be wrong with them is the rounding of doubles.             *)
(***************************************************************************)
EXTENDS Integers, SequencesExt, Combinatorics

CONSTANTS
  Null,          \* nullptr
  Value,         \* what may be sampled
  window_size,
  MaxSamples     \* bound on the samples of a summary's life

ASSUME SummaryAssumption ==
  /\ Value \subseteq Nat /\ Null \notin Value
  /\ window_size \in Nat \ {0} /\ MaxSamples \in Nat

VARIABLES
  samples_,      \* the tree
  initialized_,
  stat,          \* min_, p50_, p90_, p95_, p99_, p999_ and max_
  total_samples_,
  alive,
  history,       \* all samples, in order
  merged,        \* how many of them are in the statistics
  allocated,     \* nodes: one for every distinct sample of a window
  deleted        \* nodes deleted by the destructor

vars == <<samples_, initialized_, stat, total_samples_, alive, history, merged,
          allocated, deleted>>

-----------------------------------------------------------------------------
(* SubtreeCountVisitor                                                     *)

Total(t, n) == IF n = Null THEN 0 ELSE t.node[n].metadata

\* Mutant of Visit: the samples of the node itself count once.
CountsNodes(n, t) ==
  [t EXCEPT !.node[n].metadata = Total(t, t.node[n].left) + Total(t, t.node[n].right) + 1]

Visit(n, t) ==
  [t EXCEPT !.node[n].metadata =
     Total(t, t.node[n].left) + Total(t, t.node[n].right) + t.node[n].value]

Update(n, t) == Visit(n, [t EXCEPT !.node[n].value = @ + 1])

INSTANCE ATree WITH OnInsert <- Visit, OnUpdate <- Visit, Update <- Update

-----------------------------------------------------------------------------

Percentile == {0, 500, 900, 950, 990, 999, 1000}
Unit == factorial[MaxSamples]

Init ==
  /\ samples_ = EmptyTree /\ initialized_ = FALSE
  /\ stat = [p \in Percentile |-> 0]
  /\ total_samples_ = 0
  /\ alive = TRUE /\ history = <<>> /\ merged = 0
  /\ allocated = 0 /\ deleted = 0

-----------------------------------------------------------------------------
(* PercentileAccessor                                                      *)

GetSize(t) == Total(t, t.root)

\* Mutant of FindNthPercentile: the rank is not made relative to the subtree.
KeepsRank(t, p) ==
  LET rank == IF p = 0 THEN 1 ELSE (p * GetSize(t)) \div 1000
      Descend[n \in DOMAIN t.node] ==
        LET left == t.node[n].left  right == t.node[n].right IN
        IF left = Null /\ right = Null THEN n
        ELSE IF t.node[n].metadata - Total(t, right) >= rank /\ Total(t, left) < rank THEN n
        ELSE IF left # Null /\ Total(t, left) >= rank THEN Descend[left]
        ELSE IF right = Null THEN Null ELSE Descend[right]
  IN Descend[t.root]

\* Null where the code would dereference a null pointer.
FindNthPercentile(t, p) ==
  LET Descend[n \in DOMAIN t.node, rank \in Int] ==
        LET left == t.node[n].left  right == t.node[n].right
            own == t.node[n].metadata - Total(t, right)  \* not in the right subtree
        IN IF left = Null /\ right = Null THEN n
           ELSE IF own >= rank /\ Total(t, left) < rank THEN n
           ELSE IF left # Null /\ Total(t, left) >= rank THEN Descend[left, rank]
           ELSE IF right = Null THEN Null ELSE Descend[right, rank - own]
  IN Descend[t.root, IF p = 0 THEN 1 ELSE (p * GetSize(t)) \div 1000]

-----------------------------------------------------------------------------

\* Mutant of UpdatePercentile: the extremes are averaged like the others.
AveragesExtremes(p) ==
  stat[p] + (Unit * FindNthPercentile(samples_, p) - stat[p]) \div total_samples_

\* Mutant of UpdatePercentile: the median is weighted by its window.
WeighsByWindow(p) ==
  LET value == Unit * FindNthPercentile(samples_, p) IN
  CASE p = 0    -> Min({stat[p], value})
    [] p = 1000 -> Max({stat[p], value})
    [] p = 500  -> stat[p] + (value - stat[p]) \div GetSize(samples_)
    [] OTHER    -> stat[p] + (value - stat[p]) \div total_samples_

UpdatePercentile(p) ==
  LET value == Unit * FindNthPercentile(samples_, p) IN
  CASE p = 0    -> Min({stat[p], value})
    [] p = 1000 -> Max({stat[p], value})
    [] OTHER    -> stat[p] + (value - stat[p]) \div total_samples_

\* The statistics after UpdatePercentilesAndClearSamples.
UpdatePercentiles ==
  [p \in Percentile |-> IF initialized_ THEN UpdatePercentile(p)
                        ELSE Unit * FindNthPercentile(samples_, p)]

\* Nothing happens with an empty tree.
UpdatePercentilesAndClearSamples ==
  /\ alive /\ GetSize(samples_) > 0
  /\ stat' = UpdatePercentiles /\ initialized_' = TRUE
  /\ samples_' = Clear(samples_)
  /\ merged' = Len(history)
  /\ UNCHANGED <<total_samples_, alive, history, allocated, deleted>>

\* GetMin ... GetMax: what is asked for is read after the update, and so are the
\* values that ToString and ToProto print.
GetPercentileInternal == UpdatePercentilesAndClearSamples
SummaryToString == UpdatePercentilesAndClearSamples
SummaryToProto == UpdatePercentilesAndClearSamples

\* operator<<.
Sample(value) ==
  LET full == GetSize(samples_) = window_size
  IN /\ alive /\ total_samples_ < MaxSamples
     /\ stat' = IF full THEN UpdatePercentiles ELSE stat
     /\ initialized_' = (initialized_ \/ full)
     /\ samples_' = InsertOrUpdate(IF full THEN Clear(samples_) ELSE samples_,
                                   value, 1, 1)
     /\ total_samples_' = total_samples_ + 1
     /\ history' = Append(history, value)
     /\ merged' = IF full THEN Len(history) ELSE merged
     /\ allocated' = IF value \in Range(SubSeq(history, merged' + 1, Len(history)))
                       THEN allocated ELSE allocated + 1
     /\ UNCHANGED <<alive, deleted>>

\* The destructor, with that of the tree.
Destroy == /\ alive /\ alive' = FALSE
           /\ deleted' = Deleted(samples_)
           /\ UNCHANGED <<samples_, initialized_, stat, total_samples_, history, merged,
                           allocated>>

Next == \/ \E value \in Value : Sample(value)
        \/ GetPercentileInternal \/ SummaryToString \/ SummaryToProto
        \/ Destroy

Spec == Init /\ [][Next]_vars

-----------------------------------------------------------------------------

\* The samples that are in the tree.
Window == SubSeq(history, merged + 1, Len(history))
Times(seq, v) == Cardinality({i \in DOMAIN seq : seq[i] = v})

\* Whatever the order in which they came, and how often, the tree holds the
\* samples of the window: every one is found from the root on the side where its
\* key belongs, and every node counts the samples under it.
TreeHoldsWindow ==
  LET node == samples_.node IN
  /\ Subtree(samples_, samples_.root) = Range(Window)
  /\ \A n \in DOMAIN node :
       /\ \A m \in Subtree(samples_, node[n].left) : m < n
       /\ \A m \in Subtree(samples_, node[n].right) : m > n
       /\ node[n].value = Times(Window, n)
       /\ node[n].metadata = MapThenSumSet(LAMBDA m : Times(Window, m), Subtree(samples_, n))

\* The descent by counts ends, and finds the sample of the wanted rank in the
\* sorted window, with duplicates, in every shape of the tree.
RanksAreExact ==
  Window # <<>> =>
    \A p \in Percentile :
      FindNthPercentile(samples_, p)
        = SortSeq(Window, <)[Max({1, (p * Len(Window)) \div 1000})]

\* The statistics of a higher percentile are never below those of a lower one,
\* although each is averaged on its own over windows of different lengths.
PercentilesAreOrdered ==
  \A p, q \in Percentile : p < q => stat[p] <= stat[q]

\* The smallest and the largest sample that were ever merged are never lost or
\* smoothed away, whatever windows have come and gone and whoever asked in between:
\* "EXPECT_EQ(summary.GetMin(), expected_min)", and so for the maximum, which the
\* getters return once they have merged the window.
ExtremesAreKept ==
  LET known == Range(SubSeq(history, 1, merged)) IN
  known # {} => stat[0] = Unit * Min(known) /\ stat[1000] = Unit * Max(known)

\* The destructor deletes every node that any window has allocated, once: what
\* Clear put aside is neither leaked nor deleted twice.
EveryNodeDeleted == ~alive => deleted = allocated
=============================================================================
