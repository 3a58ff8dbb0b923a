---------------------------- MODULE StreamsProofs ----------------------------
(***************************************************************************)
(* LatestStream returns the last keys, or the place it never writes, and a *)
(* stream that has ended stays ended, for every size of the ring, every    *)
(* range of keys and every input.                                          *)
(***************************************************************************)
EXTENDS Streams, TLAPS

\* Places 1 .. LastPlace of the ring are used, the first one never.
LastPlace == Size - 1

\* The place of the i-th latest key when the next one goes to place n.
Slot(n, i) == ((n - 1 + i) % LastPlace) + 1

\* Every key drawn so far, but for the oldest of a full ring, is in its place.
RingHolds ==
  \A i \in 1 .. LastPlace :
    i <= Len(drawn) => latest_[Slot(newest_, i)] = drawn[Len(drawn) + 1 - i]

\* The inductive invariant: the constructor is done when _size keys are drawn.
Recent ==
  /\ drawn \in Seq(Nat) /\ Len(drawn) <= Size
  /\ kind = "YcsbD" /\ built => Len(drawn) = Size
  /\ ~built => Len(drawn) < Size
  /\ DOMAIN latest_ = 0 .. LastPlace
  /\ newest_ \in 0 .. LastPlace
  /\ Size > 1 => newest_ # 0 /\ latest_[0] = Garbage
  /\ RingHolds

-----------------------------------------------------------------------------

\* Once around the ring at most.
LEMMA OnceAround ==
  ASSUME NEW m \in Nat \ {0}, NEW x \in Nat, x < 2 * m
  PROVE  x % m = IF x < m THEN x ELSE x - m
PROOF OBVIOUS

\* The places, without the remainder.
LEMMA SlotIs ==
  ASSUME Size > 1, NEW n \in 1 .. LastPlace, NEW i \in 1 .. LastPlace
  PROVE  Slot(n, i) = IF n + i <= LastPlace THEN n + i ELSE n + i - LastPlace
<1> USE StreamsAssumption DEF LastPlace
<1>1. LastPlace \in Nat \ {0} /\ n - 1 + i \in Nat /\ n - 1 + i < 2 * LastPlace
  OBVIOUS
<1>2. (n - 1 + i) % LastPlace = IF n - 1 + i < LastPlace THEN n - 1 + i ELSE (n - 1 + i) - LastPlace
  BY <1>1, OnceAround
<1> QED BY <1>2 DEF Slot

\* The next key goes where the latest is sought afterwards, the others move
\* one rank on, and none of them but the last is overwritten.
LEMMA SlotMoves ==
  ASSUME Size > 1, NEW n \in 1 .. LastPlace
  PROVE  /\ Back(n) \in 1 .. LastPlace
         /\ Slot(Back(n), 1) = n
         /\ \A i \in 2 .. LastPlace : /\ Slot(Back(n), i) = Slot(n, i - 1)
                                 /\ Slot(n, i - 1) \in 1 .. LastPlace
                                 /\ Slot(n, i - 1) # n
<1> USE StreamsAssumption DEF LastPlace
<1>1. Back(n) \in 1 .. LastPlace
  BY DEF Back
<1>2. Slot(Back(n), 1) = n
  BY <1>1, SlotIs DEF Back
<1>3. ASSUME NEW i \in 2 .. LastPlace
      PROVE  /\ Slot(Back(n), i) = Slot(n, i - 1)
             /\ Slot(n, i - 1) \in 1 .. LastPlace
             /\ Slot(n, i - 1) # n
  <2>1. i \in 1 .. LastPlace /\ i - 1 \in 1 .. LastPlace
    OBVIOUS
  <2>2. Slot(n, i - 1) = IF n + (i - 1) <= LastPlace THEN n + (i - 1) ELSE n + (i - 1) - LastPlace
    BY <2>1, SlotIs
  <2>3. Slot(Back(n), i) = IF Back(n) + i <= LastPlace THEN Back(n) + i ELSE Back(n) + i - LastPlace
    BY <1>1, <2>1, SlotIs
  <2> QED BY <2>1, <2>2, <2>3 DEF Back
<1> QED BY <1>1, <1>2, <1>3

\* The keys of a workload are natural numbers.
LEMMA KeysAreNumbers == YcsbKeys \subseteq Nat
BY StreamsAssumption DEF YcsbKeys

\* What the last keys are after one more.
LEMMA DrawnMoves ==
  ASSUME drawn \in Seq(Nat), Len(drawn) <= Size, NEW key \in Nat, Draw(key)
  PROVE  /\ drawn' \in Seq(Nat) /\ Len(drawn') <= Size /\ Len(drawn') > 0
         /\ Len(drawn') = IF Len(drawn) < Size THEN Len(drawn) + 1 ELSE Size
         /\ drawn'[Len(drawn')] = key
         /\ \A i \in 2 .. Len(drawn') : drawn'[Len(drawn') + 1 - i] = drawn[Len(drawn) + 2 - i]
<1> USE StreamsAssumption
<1>1. CASE Len(drawn) < Size
  BY <1>1 DEF Draw
<1>2. CASE Len(drawn) = Size
  <2>1. drawn # <<>> /\ Tail(drawn) \in Seq(Nat) /\ Len(Tail(drawn)) = Size - 1
        /\ \A j \in 1 .. Size - 1 : Tail(drawn)[j] = drawn[j + 1]
    BY <1>2
  <2>2. drawn' = Append(Tail(drawn), key)
    BY <1>2 DEF Draw
  <2>3. /\ drawn' \in Seq(Nat) /\ Len(drawn') = Size /\ drawn'[Size] = key
        /\ \A j \in 1 .. Size - 1 : drawn'[j] = drawn[j + 1]
    BY <2>1, <2>2
  <2>4. ASSUME NEW i \in 2 .. Size
        PROVE  drawn'[Size + 1 - i] = drawn[Size + 2 - i]
    <3>1. Size + 1 - i \in 1 .. Size - 1 /\ (Size + 1 - i) + 1 = Size + 2 - i
      OBVIOUS
    <3> QED BY <2>3, <3>1
  <2> QED BY <1>2, <2>3, <2>4
<1> QED BY <1>1, <1>2

\* NextInternal keeps the ring in order.
LEMMA DrawKeepsRing ==
  ASSUME Recent, NEW key \in YcsbKeys, Draw(key)
  PROVE  /\ RingHolds'
         /\ DOMAIN latest_' = 0 .. LastPlace
         /\ newest_' \in 0 .. LastPlace
         /\ Size > 1 => newest_' # 0 /\ latest_'[0] = Garbage
<1> USE StreamsAssumption DEF Recent, LastPlace
<1> DEFINE L == Len(drawn')
<1>1. key \in Nat
  BY KeysAreNumbers
<1>2. /\ drawn' \in Seq(Nat) /\ L \in Nat /\ Len(drawn) \in Nat
      /\ L = IF Len(drawn) < Size THEN Len(drawn) + 1 ELSE Size
      /\ drawn'[L] = key
      /\ \A i \in 2 .. L : drawn'[L + 1 - i] = drawn[Len(drawn) + 2 - i]
  BY <1>1, DrawnMoves
<1>3. DOMAIN latest_' = 0 .. LastPlace /\ newest_' = Back(newest_)
      /\ latest_'[newest_] = key /\ \A j \in 0 .. LastPlace : j # newest_ => latest_'[j] = latest_[j]
  BY DEF Draw
<1>4. CASE Size = 1
  BY <1>3, <1>4 DEF RingHolds, Back
<1>5. CASE Size > 1
  <2>1. newest_ \in 1 .. LastPlace
    BY <1>5
  <2>2. /\ newest_' \in 1 .. LastPlace
        /\ Slot(newest_', 1) = newest_
        /\ \A i \in 2 .. LastPlace : /\ Slot(newest_', i) = Slot(newest_, i - 1)
                                /\ Slot(newest_, i - 1) \in 1 .. LastPlace
                                /\ Slot(newest_, i - 1) # newest_
    BY <1>3, <1>5, <2>1, SlotMoves
  <2>3. ASSUME NEW i \in 1 .. LastPlace, i <= L
        PROVE  latest_'[Slot(newest_', i)] = drawn'[L + 1 - i]
    <3>1. CASE i = 1
      <4>1. L + 1 - 1 = L
        BY <1>2
      <4> QED BY <1>2, <1>3, <2>2, <3>1, <4>1
    <3>2. CASE i # 1
      <4>1. i \in 2 .. LastPlace /\ i \in 2 .. L /\ i - 1 \in 1 .. LastPlace /\ i - 1 <= Len(drawn)
        BY <1>2, <2>3, <3>2
      <4>2. latest_'[Slot(newest_', i)] = latest_[Slot(newest_, i - 1)]
        BY <1>3, <2>2, <4>1
      <4>3. latest_[Slot(newest_, i - 1)] = drawn[Len(drawn) + 1 - (i - 1)]
        BY <4>1 DEF RingHolds
      <4>4. Len(drawn) + 1 - (i - 1) = Len(drawn) + 2 - i
        BY <1>2
      <4> QED BY <1>2, <4>1, <4>2, <4>3, <4>4
    <3> QED BY <3>1, <3>2
  <2>4. latest_'[0] = Garbage
    BY <1>3, <1>5, <2>1
  <2> QED BY <1>3, <2>2, <2>3, <2>4 DEF RingHolds
<1> QED BY <1>4, <1>5

-----------------------------------------------------------------------------

LEMMA RecentInit ==
  ASSUME Init PROVE Recent
<1> USE StreamsAssumption DEF LastPlace
<1>1. drawn = <<>> /\ drawn \in Seq(Nat) /\ Len(drawn) = 0
  BY DEF Init
<1>2. RingHolds
  BY <1>1 DEF RingHolds
<1>3. kind = "YcsbD" => ~built
  BY Zenon DEF Init
<1> QED BY <1>1, <1>2, <1>3 DEF Init, Recent

LEMMA RecentNext ==
  ASSUME Recent, [Next]_vars
  PROVE  Recent'
<1> USE StreamsAssumption
<1>1. ASSUME NEW key \in YcsbKeys, Draw(key),
             \/ built' = (Len(drawn') = Size) /\ ~built
             \/ built' = built /\ built /\ kind = "YcsbD",
             kind' = kind
      PROVE  Recent'
  <2>1. RingHolds' /\ DOMAIN latest_' = 0 .. LastPlace
        /\ newest_' \in 0 .. LastPlace /\ (Size > 1 => newest_' # 0 /\ latest_'[0] = Garbage)
    BY <1>1, DrawKeepsRing
  <2>2. drawn' \in Seq(Nat) /\ Len(drawn') <= Size
        /\ Len(drawn') = IF Len(drawn) < Size THEN Len(drawn) + 1 ELSE Size
    BY <1>1, KeysAreNumbers, DrawnMoves DEF Recent
  <2>3. kind' = "YcsbD" /\ built' => Len(drawn') = Size
    <3>1. CASE built' = (Len(drawn') = Size)
      BY <3>1, Zenon
    <3>2. CASE kind = "YcsbD" /\ built
      BY <2>2, <3>2 DEF Recent
    <3> QED BY <1>1, <3>1, <3>2
  <2>4. ~built' => Len(drawn') < Size
    <3>1. ~built' => Len(drawn') # Size
      <4>1. CASE built' = (Len(drawn') = Size)
        BY <4>1, Zenon
      <4>2. CASE built' = built /\ built
        BY <4>2
      <4> QED BY <1>1, <4>1, <4>2
    <3> QED BY <2>2, <3>1
  <2> QED BY <2>1, <2>2, <2>3, <2>4 DEF Recent, LastPlace
<1>2. CASE Construct
  BY <1>1, <1>2 DEF Construct
<1>3. CASE NextD
  <2>1. CASE UNCHANGED latestVars
    BY <2>1, <1>3 DEF NextD, Recent, RingHolds, latestVars, LastPlace, Slot
  <2> QED BY <1>1, <1>3, <2>1 DEF NextD, Calling
<1>4. CASE UNCHANGED <<kind, built, latestVars>>
  BY <1>4 DEF Recent, RingHolds, latestVars, LastPlace, Slot
<1>5. CASE Terminate \/ NextTerminated \/ NextTest \/ NextMonotonic \/ NextCircular \/ NextRmw
  BY <1>4, <1>5 DEF Terminate, NextTerminated, NextTest, NextMonotonic, NextCircular, NextRmw
<1>6. ASSUME NEW k, NextStateless(k) PROVE Recent'
  BY <1>4, <1>6 DEF NextStateless
<1>7. CASE UNCHANGED vars
  BY <1>4, <1>7 DEF vars
<1> QED BY <1>2, <1>3, <1>5, <1>6, <1>7 DEF Next

\* The offsets of Latest, which go around modulo _size, against the ring of the keys,
\* which leaves the first place out.
LEMMA OffsetsFind ==
  ASSUME Recent, kind = "YcsbD", built, Size > 1, NEW i \in 0 .. Size - 1
  PROVE  /\ newest_ + i = Size => LatestAt(i) = Garbage
         /\ newest_ + i # Size => /\ Rank(i) \in 1 .. Size - 1
                                 /\ LatestAt(i) = drawn[Size + 1 - Rank(i)]
<1> USE StreamsAssumption DEF LastPlace
<1>1. newest_ \in 1 .. LastPlace /\ LastPlace \in Nat \ {0} /\ Len(drawn) = Size
  BY DEF Recent
<1>2. (newest_ + i) % Size = IF newest_ + i < Size THEN newest_ + i ELSE newest_ + i - Size
  <2>1. PICK x : x = newest_ + i
    OBVIOUS
  <2>2. x \in Nat /\ x < 2 * Size /\ Size \in Nat \ {0}
    BY <1>1, <2>1
  <2>3. x % Size = IF x < Size THEN x ELSE x - Size
    BY <2>2, OnceAround
  <2> QED BY <1>1, <2>1, <2>2, <2>3
<1>3. ASSUME newest_ + i = Size PROVE LatestAt(i) = Garbage
  <2>1. (newest_ + i) % Size = 0
    BY <1>1, <1>2, <1>3
  <2> QED BY <2>1 DEF LatestAt, Recent
<1>4. ASSUME newest_ + i # Size
      PROVE  /\ Rank(i) \in 1 .. LastPlace
             /\ Slot(newest_, Rank(i)) = (newest_ + i) % Size
  <2>1. Rank(i) = IF i = 0 THEN LastPlace ELSE IF newest_ + i < Size THEN i ELSE i - 1
    BY <1>1 DEF Rank
  <2>2. Rank(i) \in 1 .. LastPlace
    BY <1>1, <1>4, <2>1
  <2>3. Slot(newest_, Rank(i)) = IF newest_ + Rank(i) <= LastPlace THEN newest_ + Rank(i)
                                 ELSE newest_ + Rank(i) - LastPlace
    BY <1>1, <2>2, SlotIs
  <2> QED BY <1>1, <1>2, <1>4, <2>1, <2>2, <2>3
<1>5. ASSUME newest_ + i # Size PROVE LatestAt(i) = drawn[Size + 1 - Rank(i)]
  <2>1. Rank(i) \in 1 .. LastPlace /\ Rank(i) <= Len(drawn)
    BY <1>1, <1>4, <1>5
  <2>2. latest_[Slot(newest_, Rank(i))] = drawn[Len(drawn) + 1 - Rank(i)]
    BY <2>1 DEF Recent, RingHolds
  <2> QED BY <1>1, <1>4, <1>5, <2>2 DEF LatestAt
<1> QED BY <1>3, <1>4, <1>5

\* What YcsbD has read last, and that it has read nothing before it was built.
ReadsRecent ==
  /\ ~built => op = Nothing
  /\ kind = "YcsbD" /\ built /\ Size > 1 /\ Reads =>
       op.key \in {drawn[k] : k \in 2 .. Size} \cup {Garbage}

\* An insertion is no read, and neither is the end of the stream.
LEMMA OnlyGetsRead ==
  /\ \A key : LET o == Op(key, "kInsert", -1) IN ~("type" \in DOMAIN o /\ o.type = "kGet")
  /\ \A key : Op(key, "kGet", -1).key = key
  /\ "type" \notin DOMAIN Terminated /\ "type" \notin DOMAIN Nothing
BY DEF Op, Terminated, Nothing

LEMMA ReadsRecentNext ==
  ASSUME Recent, ReadsRecent, [Next]_vars
  PROVE  ReadsRecent'
<1> USE StreamsAssumption
<1>1. CASE NextD
  <2>0. built'
    BY <1>1 DEF NextD, Calling
  <2>1. ASSUME NEW key \in YcsbKeys, op' = Op(key, "kInsert", -1) PROVE ReadsRecent'
    <3>1. ~Reads'
      BY <2>1, OnlyGetsRead DEF Reads
    <3> QED BY <2>0, <3>1 DEF ReadsRecent
  <2>2. ASSUME NEW key \in Latest, op' = Op(key, "kGet", -1), UNCHANGED latestVars
        PROVE  ReadsRecent'
    <3>1. kind = "YcsbD" /\ built
      BY <1>1 DEF NextD, Calling
    <3>2. PICK i \in 0 .. Size - 1 : key = LatestAt(i)
      BY <2>2 DEF Latest, Zipfian
    <3>3. ASSUME Size > 1 PROVE key \in {drawn[k] : k \in 2 .. Size} \cup {Garbage}
      <4>1. CASE newest_ + i = Size
        BY <3>1, <3>2, <3>3, <4>1, OffsetsFind
      <4>2. CASE newest_ + i # Size
        <5>1. Rank(i) \in 1 .. Size - 1 /\ key = drawn[Size + 1 - Rank(i)]
          BY <3>1, <3>2, <3>3, <4>2, OffsetsFind
        <5>2. Size + 1 - Rank(i) \in 2 .. Size
          BY <5>1
        <5> QED BY <5>1, <5>2
      <4> QED BY <4>1, <4>2
    <3>4. op'.key = key /\ drawn' = drawn
      BY <2>2, OnlyGetsRead DEF latestVars
    <3> QED BY <2>0, <3>3, <3>4 DEF ReadsRecent
  <2> QED BY <1>1, <2>1, <2>2 DEF NextD
<1>2. CASE UNCHANGED <<kind, built, op, drawn>>
  BY <1>2 DEF ReadsRecent, Reads
<1>3. CASE Terminate \/ UNCHANGED vars
  BY <1>2, <1>3 DEF Terminate, vars, latestVars
<1>4. CASE Construct
  <2>1. op' = op
    BY <1>4 DEF Construct
  <2>2. op = Nothing
    BY <1>4 DEF Construct, ReadsRecent
  <2>3. ~Reads'
    BY <2>1, <2>2, OnlyGetsRead DEF Reads
  <2> QED BY <2>1, <2>2, <2>3 DEF ReadsRecent
<1>5. CASE NextTerminated
  <2>1. ~Reads' /\ built'
    BY <1>5, OnlyGetsRead DEF Reads, NextTerminated
  <2> QED BY <2>1 DEF ReadsRecent
<1>6. CASE NextTest \/ NextMonotonic \/ NextCircular \/ NextRmw
  <2>1. kind' # "YcsbD" /\ built'
    BY <1>6 DEF NextTest, NextMonotonic, NextCircular, NextRmw, Calling
  <2> QED BY <2>1 DEF ReadsRecent
<1>7. ASSUME NEW k \in {"YcsbA", "YcsbB", "YcsbC", "YcsbE", "Uniform", "NoOp"},
             NextStateless(k)
      PROVE  ReadsRecent'
  <2>1. kind' # "YcsbD" /\ built'
    BY <1>7 DEF NextStateless, Calling
  <2> QED BY <2>1 DEF ReadsRecent
<1> QED BY <1>1, <1>3, <1>4, <1>5, <1>6, <1>7 DEF Next

\* For every size of the ring: offset i of Latest finds the key whose rank the
\* property names, or the place that is never written, so that what YcsbD reads is
\* one of the last _size - 1 keys drawn, or garbage.
THEOREM LatestReturnsRecentKeys == Spec => []LatestIsRecent
<1>1. Recent /\ ReadsRecent => LatestIsRecent
  <2> SUFFICES ASSUME Recent, ReadsRecent, kind = "YcsbD", built, Size > 1
               PROVE  /\ \A i \in 0 .. Size - 1 :
                           LatestAt(i) = IF newest_ + i = Size THEN Garbage
                                         ELSE drawn[Size + 1 - Rank(i)]
                      /\ Reads => op.key \in {drawn[k] : k \in 2 .. Size} \cup {Garbage}
    BY DEF LatestIsRecent
  <2>1. ASSUME NEW i \in 0 .. Size - 1
        PROVE  LatestAt(i) = IF newest_ + i = Size THEN Garbage ELSE drawn[Size + 1 - Rank(i)]
    BY <2>1, OffsetsFind
  <2> QED BY <2>1 DEF ReadsRecent
<1>2. Init => Recent /\ ReadsRecent
  <2> SUFFICES ASSUME Init PROVE Recent /\ ReadsRecent
    OBVIOUS
  <2>1. ~Reads /\ op = Nothing
    BY OnlyGetsRead DEF Init, Reads
  <2> QED BY <2>1, RecentInit DEF ReadsRecent
<1>3. Recent /\ ReadsRecent /\ [Next]_vars => (Recent /\ ReadsRecent)'
  BY RecentNext, ReadsRecentNext
<1> QED BY <1>1, <1>2, <1>3, PTL DEF Spec

-----------------------------------------------------------------------------

\* Nothing but termination, or the end of the input, makes a stream answer
\* StreamTerminatedStatus.
EndedRightly ==
  op = Terminated => built /\ (terminated_ \/ (kind = "Test" /\ pos = Len(Input)))

\* No value and no operation is taken for the end of the stream.
LEMMA ResultsAreNoEnd ==
  ASSUME NEW k \in {"YcsbA", "YcsbB", "YcsbC", "YcsbE", "Uniform", "NoOp"}
  PROVE  Terminated \notin Results(k)
<1>1. \A v : Value(v) # Terminated
  BY DEF Value, Terminated
<1>2. \A key, type, r : Op(key, type, r) # Terminated
  BY DEF Op, Terminated
<1>3. CASE k = "Uniform"
  BY <1>1, <1>3 DEF Results
<1>4. CASE k = "NoOp"
  BY <1>1, <1>4 DEF Results
<1>5. CASE k = "YcsbE"
  BY <1>2, <1>5 DEF Results
<1>6. CASE k \in {"YcsbA", "YcsbB", "YcsbC"}
  BY <1>2, <1>6 DEF Results
<1> QED BY <1>3, <1>4, <1>5, <1>6

LEMMA EndedRightlyNext ==
  ASSUME EndedRightly, [Next]_vars
  PROVE  EndedRightly'
<1> USE DEF EndedRightly
<1>1. CASE Construct
  BY <1>1 DEF Construct, Draw
<1>2. CASE Terminate
  BY <1>2 DEF Terminate
<1>3. CASE NextTerminated
  BY <1>3 DEF NextTerminated
<1>4. CASE NextTest
  <2>1. built' = built /\ built /\ kind' = kind /\ kind = "Test"
    BY <1>4 DEF NextTest, Calling
  <2>2. CASE pos = Len(Input)
    BY <1>4, <2>1, <2>2 DEF NextTest
  <2>3. CASE pos # Len(Input)
    BY <1>4, <2>3 DEF NextTest, Value, Terminated
  <2> QED BY <2>2, <2>3
<1>5. CASE NextMonotonic \/ NextCircular
  BY <1>5 DEF NextMonotonic, NextCircular, Value, Terminated
<1>6. CASE NextD
  <2>1. \A key, type, r : Op(key, type, r) # Terminated
    BY DEF Op, Terminated
  <2>2. op' # Terminated
    BY <1>6, <2>1 DEF NextD
  <2> QED BY <2>2 DEF Terminated
<1>7. CASE NextRmw
  BY <1>7 DEF NextRmw, Terminated
<1>8. ASSUME NEW k \in {"YcsbA", "YcsbB", "YcsbC", "YcsbE", "Uniform", "NoOp"},
             NextStateless(k)
      PROVE  EndedRightly'
  BY <1>8, ResultsAreNoEnd DEF NextStateless, Terminated
<1>9. CASE UNCHANGED vars
  BY <1>9 DEF vars
<1> QED BY <1>1, <1>2, <1>3, <1>4, <1>5, <1>6, <1>7, <1>8, <1>9 DEF Next

\* After Terminate, and after a TestStream has come to the end of its input,
\* every call of Next produces StreamTerminatedStatus and never a value.
THEOREM EndedStreamsStayEnded == Spec => TerminatedForGood
<1>1. Init => EndedRightly
  BY DEF Init, EndedRightly, Nothing, Terminated
<1>2. EndedRightly /\ [Next]_vars => EndedRightly'
  BY EndedRightlyNext
<1>3. ASSUME EndedRightly, [Next]_vars
      PROVE  [/\ op = Terminated => op' = Terminated
              /\ terminated_ => op' \in {op, Terminated}]_vars
  <2> SUFFICES ASSUME Next
               PROVE  /\ op = Terminated => op' = Terminated
                      /\ terminated_ => op' \in {op, Terminated}
    BY <1>3
  <2>1. CASE Construct \/ Terminate \/ NextTerminated
    BY <2>1 DEF Construct, Terminate, NextTerminated
  <2>2. ASSUME NEW k, Calling(k), k # "Test"
        PROVE  op # Terminated /\ ~terminated_
    BY <1>3, <2>2 DEF EndedRightly, Calling
  <2>3. CASE NextTest
    BY <1>3, <2>3 DEF NextTest, Calling, EndedRightly
  <2>4. CASE NextMonotonic \/ NextCircular \/ NextD \/ NextRmw
    BY <2>2, <2>4 DEF NextMonotonic, NextCircular, NextD, NextRmw
  <2>5. ASSUME NEW k \in {"YcsbA", "YcsbB", "YcsbC", "YcsbE", "Uniform", "NoOp"},
               NextStateless(k)
        PROVE  op # Terminated /\ ~terminated_
    BY <2>2, <2>5 DEF NextStateless
  <2> QED BY <2>1, <2>3, <2>4, <2>5 DEF Next
<1> QED BY <1>1, <1>2, <1>3, PTL DEF Spec, TerminatedForGood
=============================================================================
