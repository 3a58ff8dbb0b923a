------------------------------ MODULE Streams ------------------------------
(***************************************************************************)
(* The streams that feed a WorkloadDriver: the basic ones and the YCSB     *)
(* workloads, which map a stream of keys and one of operation types to     *)
(* operations.  A random distribution is any value of its range.  One      *)
(* stream is built and then asked for values; its user may terminate it.   *)
(***************************************************************************)
EXTENDS Integers, SequencesExt

CONSTANTS
  Kinds,        \* the streams that are built, of AllKinds
  lo, hi,       \* the range of keys a workload is made for
  Size,         \* _size of the LatestStream
  Input,        \* what a TestStream is made from
  start, end, step,  \* a CircularStream's, and init and step of a MonotonicStream
  min_rq_size, max_rq_size,
  Garbage,      \* memory nobody has written
  MaxSteps      \* bound on the calls of the streams that count

Ycsb == {"YcsbA", "YcsbB", "YcsbC", "YcsbD", "YcsbE"}
AllKinds == Ycsb \cup {"YcsbRmw", "Test", "Uniform", "Monotonic", "Circular", "NoOp"}

ASSUME StreamsAssumption ==
  /\ Kinds \subseteq AllKinds
  /\ lo \in Nat /\ hi \in Nat \ {0} /\ lo <= hi
  /\ Size \in Nat \ {0} /\ Input \in Seq(Nat)
  /\ start \in Nat /\ end \in Nat \ {0} /\ step \in Nat /\ MaxSteps \in Nat

VARIABLES
  kind, built,      \* the stream, and whether its constructor has returned
  terminated_,
  pos,              \* iter_, value_ or curr_
  latest_, newest_, \* the LatestStream of YcsbD
  op,               \* what the last call of Next returned
  drawn             \* the last Size keys the key stream has produced

latestVars == <<latest_, newest_, drawn>>
vars == <<kind, built, terminated_, pos, latestVars, op>>

\* StreamTerminatedStatus, and what is returned before the first call.
Terminated == [status |-> "OutOfRange"]
Nothing == [status |-> "none"]
Value(v) == [status |-> "OK", value |-> v]
Op(key, type, range) == [status |-> "OK", key |-> key, type |-> type, range |-> range]

Init ==
  /\ kind \in Kinds /\ built = (kind # "YcsbD")
  /\ terminated_ = FALSE
  /\ pos = CASE kind = "Monotonic" -> start [] OTHER -> 0
  /\ latest_ = [i \in 0 .. Size - 1 |-> Garbage] /\ newest_ = Size - 1
  /\ op = Nothing /\ drawn = <<>>

-----------------------------------------------------------------------------
(* Random values.                                                          *)

\* zipfian_int_distribution: every value of the range, the first most often.
Zipfian(a, b) == a .. b
Uniform(a, b) == a .. b

\* The hash of a random value is any word; the key is taken modulo hi, as for an
\* unsigned T: a signed one may make it negative.
YcsbKeys == {(hash % hi) + lo : hash \in 0 .. hi - 1}

\* output_ holds every type as often as its weight says; any place is drawn.
Weighted(weights) == {type \in DOMAIN weights : weights[type] > 0}

Weights(k) ==
  CASE k = "YcsbA" -> [kGet |-> 50, kInsert |-> 0, kUpdate |-> 50, kScan |-> 0]
    [] k = "YcsbB" -> [kGet |-> 95, kInsert |-> 0, kUpdate |-> 5, kScan |-> 0]
    [] k = "YcsbC" -> [kGet |-> 1]
    [] k = "YcsbD" -> [kGet |-> 95, kInsert |-> 5, kUpdate |-> 0, kScan |-> 0]
    [] k = "YcsbE" -> [kGet |-> 0, kInsert |-> 5, kUpdate |-> 0, kScan |-> 95]

-----------------------------------------------------------------------------
(* LatestStream                                                            *)

\* Mutant of Back: the last place is left out when the ring closes.
SkipsLast(i) == IF i - 1 > 0 THEN i - 1 ELSE Size - 2

\* Where the next key goes.
Back(i) == IF i - 1 > 0 THEN i - 1 ELSE Size - 1

\* NextInternal: the key is drawn and entered in the ring.
Draw(key) ==
  /\ latest_' = [latest_ EXCEPT ![newest_] = key]
  /\ newest_' = Back(newest_)
  /\ drawn' = IF Len(drawn) < Size THEN Append(drawn, key) ELSE Append(Tail(drawn), key)

\* Latest returns what is at an offset from newest_.
LatestAt(i) == latest_[(newest_ + i) % Size]
Latest == {LatestAt(i) : i \in Zipfian(0, Size - 1)}

\* The constructor draws _size keys.
Construct ==
  /\ ~built
  /\ \E key \in YcsbKeys : Draw(key)
  /\ built' = (Len(drawn') = Size)
  /\ UNCHANGED <<kind, terminated_, pos, op>>

-----------------------------------------------------------------------------
(* Next, for every kind of stream                                          *)

Calling(k) == built /\ kind = k /\ ~terminated_

NextTerminated ==
  /\ built /\ terminated_
  /\ op' = Terminated
  /\ UNCHANGED <<kind, built, terminated_, pos, latestVars>>

\* Mutant of NextTest: at the end the stream starts again.
NextTestWraps ==
  /\ Calling("Test")
  /\ IF pos = Len(Input) THEN op' = Terminated /\ pos' = 0
     ELSE op' = Value(Input[pos + 1]) /\ pos' = pos + 1
  /\ UNCHANGED <<kind, built, terminated_, latestVars>>

NextTest ==
  /\ Calling("Test")
  /\ IF pos = Len(Input) THEN op' = Terminated /\ UNCHANGED pos
     ELSE op' = Value(Input[pos + 1]) /\ pos' = pos + 1
  /\ UNCHANGED <<kind, built, terminated_, latestVars>>

\* The value is advanced before it is returned.
NextMonotonic ==
  /\ Calling("Monotonic") /\ pos < start + step * MaxSteps
  /\ pos' = pos + step
  /\ op' = Value(pos')
  /\ UNCHANGED <<kind, built, terminated_, latestVars>>

NextCircular ==
  /\ Calling("Circular") /\ pos < step * MaxSteps
  /\ pos' = pos + step
  /\ op' = Value((pos % end) + start)
  /\ UNCHANGED <<kind, built, terminated_, latestVars>>

\* YcsbD: a new key is inserted, or one of the latest is read.
NextD ==
  /\ Calling("YcsbD")
  /\ \/ /\ \E key \in YcsbKeys : Draw(key) /\ op' = Op(key, "kInsert", -1)
     \/ /\ \E key \in Latest : op' = Op(key, "kGet", -1)
        /\ UNCHANGED latestVars
  /\ UNCHANGED <<kind, built, terminated_, pos>>

\* What the streams that keep no state may return: YcsbA, B and C a key and a
\* type, YcsbE a range too, for a scan.
Results(k) ==
  CASE k = "Uniform" -> {Value(v) : v \in Uniform(min_rq_size, max_rq_size)}
    [] k = "NoOp"    -> {Value("NoOp")}
    [] k = "YcsbE"   ->
         UNION {{Op(key, type, r) :
                   r \in IF type = "kScan" THEN Uniform(min_rq_size, max_rq_size) ELSE {-1}} :
                key \in YcsbKeys, type \in Weighted(Weights(k))}
    [] OTHER -> {Op(key, type, -1) : key \in YcsbKeys, type \in Weighted(Weights(k))}

NextStateless(k) ==
  /\ Calling(k)
  /\ op' \in Results(k)
  /\ UNCHANGED <<kind, built, terminated_, pos, latestVars>>

\* YcsbRmw: the constructor leaves key_stream_ null and the first call of Next
\* dereferences it.
NextRmw ==
  /\ Calling("YcsbRmw") /\ op # [status |-> "crash"]
  /\ op' = [status |-> "crash"]
  /\ UNCHANGED <<kind, built, terminated_, pos, latestVars>>

Terminate ==
  /\ built /\ op # [status |-> "crash"]
  /\ terminated_' = TRUE
  /\ UNCHANGED <<kind, built, pos, latestVars, op>>

Next == \/ Construct \/ Terminate \/ NextTerminated \/ NextTest \/ NextMonotonic
        \/ NextCircular \/ NextD \/ NextRmw
        \/ \E k \in {"YcsbA", "YcsbB", "YcsbC", "YcsbE", "Uniform", "NoOp"} : NextStateless(k)

Spec == Init /\ [][Next]_vars

-----------------------------------------------------------------------------

\* Which of the latest keys, counted from the newest, is at an offset; the place of
\* the next key holds the oldest one.
Rank(i) == IF i = 0 THEN Size - 1 ELSE IF newest_ + i < Size THEN i ELSE i - 1
Reads == "type" \in DOMAIN op /\ op.type = "kGet"

\* "maintains a history of the last `_size` elements": what Latest returns are the
\* last _size - 1 keys, for offset 0, the likeliest, the oldest of them, and then the
\* newest, the second newest and so on, however often the ring has gone around; and,
\* where the ring closes, the place that is never written.  So what YcsbD reads is
\* one of the last _size - 1 keys, or garbage.
LatestIsRecent ==
  kind = "YcsbD" /\ built /\ Size > 1 =>
    /\ \A i \in 0 .. Size - 1 :
         LatestAt(i) = IF newest_ + i = Size THEN Garbage ELSE drawn[Size + 1 - Rank(i)]
    /\ Reads => op.key \in {drawn[k] : k \in 2 .. Size} \cup {Garbage}

\* "If a user calls `Terminate` then all future calls to next will produce
\* `StreamTerminatedStatus`", and a stream that has ended by itself stays ended.
TerminatedForGood ==
  [][/\ op = Terminated => op' = Terminated
     /\ terminated_ => op' \in {op, Terminated}]_vars
=============================================================================
