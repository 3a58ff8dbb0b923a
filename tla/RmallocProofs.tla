---------------------------- MODULE RmallocProofs ----------------------------
(***************************************************************************)
(* What rdma_memory_resource promises its callers, for every number of     *)
(* threads, and what it asks of their requests in return.  New memory is   *)
(* cut to the size of the request and freed memory is found again by size  *)
(* class, so each promise depends on the sizes and alignments that meet in *)
(* one class.                                                              *)
(***************************************************************************)
EXTENDS Rmalloc, WellFoundedInduction, SequenceTheorems, TLAPS

\* The free lists belong to the threads: they serve one resource at a time.
SingleResource == \A r, s \in Resource : r = s

\* A block freed after request p may be found by request q (lines 71-75, 101).
Meets(p, q) == SlabClass(p[1]) = SlabClass(Needed(q)) /\ q[2] <= p[2]

\* Requests that meet: the freed block is as long as the new request.  With one
\* alignment for all, as rdma_allocator has it, this holds of all sizes up to
\* that alignment, and of larger ones if every class has one of them only.
ReuseFits == \A p, q \in Request : Meets(p, q) => Needed(q) <= Needed(p)

\* ... and as long as what memset clears: 1 << slabclass.
ZeroingFits == \A p, q \in Request : Meets(p, q) => ZeroedBytes(q) \in 0 .. Needed(p)

\* Going down by the size keeps the alignment: not so for 80 bytes at 64.
SizesAligned == \A q \in Request : Needed(q) % q[2] = 0

\* Alignments are powers of two: the larger one serves for the smaller one.
AlignmentsNest == \A a, b \in Alignments : a <= b => b % a = 0

WellSized == SingleResource /\ ReuseFits

\* What is reserved for a held block.
Room(b) == Needed(<<b.bytes, b.align>>)

\* The requests whose blocks are filed in class c with alignment a, and the least
\* that is reserved for one of them.
Filed(c, a) == {p \in Request : SlabClass(p[1]) = c /\ p[2] = a}
Slab(c, a) == FirstOf({Needed(p) : p \in Filed(c, a)})

\* Two ranges of addresses do not touch; a range was handed out once.
Apart(x, m, y, n) == x + m <= y \/ y + n <= x
HandedOut(x, m) == \A r \in Resource : head[r] <= x /\ x + m <= Base[r] + Bytes

\* Places of the free lists.
Place(t, c) == 1 .. Len(freelist[t][c])
AlignAt(t, c, j) == freelist[t][c][j][1]
AddrAt(t, c, j) == freelist[t][c][j][2]
RoomAt(t, c, j) == Slab(c, freelist[t][c][j][1])

Shape ==
  /\ head \in [Resource -> Nat]
  /\ \A r \in Resource : Base[r] <= head[r] /\ head[r] <= Base[r] + Bytes
  /\ freelist \in [Thread -> [Class -> Seq(Alignments \X Nat)]]
  /\ pc \in [Thread -> {"idle", "bump", "abort"}]
  /\ req \in [Thread -> (Resource \X Request) \cup {NoRequest}]
  /\ \A t \in Thread : pc[t] = "bump" => req[t] \in Resource \X Request

\* What a caller holds and what a free list holds.
HeldOK ==
  \A b \in live :
    b \in Block /\ <<b.bytes, b.align>> \in Request /\ HandedOut(b.addr, Room(b))
ListedOK ==
  \A t \in Thread, c \in Class : \A j \in Place(t, c) :
    /\ Filed(c, AlignAt(t, c, j)) # {}
    /\ HandedOut(AddrAt(t, c, j), RoomAt(t, c, j))

\* Blocks and free slabs do not touch each other.
HeldApart == \A b, c \in live : b # c => Apart(b.addr, Room(b), c.addr, Room(c))
ListedApart ==
  \A t, u \in Thread, c, d \in Class : \A j \in Place(t, c), k \in Place(u, d) :
    \/ <<t, c, j>> = <<u, d, k>>
    \/ Apart(AddrAt(t, c, j), RoomAt(t, c, j), AddrAt(u, d, k), RoomAt(u, d, k))
FreeApart ==
  \A b \in live, t \in Thread, c \in Class : \A j \in Place(t, c) :
    Apart(b.addr, Room(b), AddrAt(t, c, j), RoomAt(t, c, j))

Spaced == Shape /\ HeldOK /\ ListedOK /\ HeldApart /\ ListedApart /\ FreeApart

\* Blocks and free slabs have the alignment their record says.
HeldAligned == \A b \in live : b.addr % b.align = 0
ListedAligned ==
  \A t \in Thread, c \in Class : \A j \in Place(t, c) :
    AddrAt(t, c, j) % AlignAt(t, c, j) = 0

USE RmallocAssumption

-----------------------------------------------------------------------------
(* Arithmetic                                                              *)

LEMMA Multiple == ASSUME NEW a \in Nat \ {0}, NEW k \in Int PROVE (a * k) % a = 0
OBVIOUS

LEMMA Quotient ==
  ASSUME NEW a \in Nat \ {0}, NEW e \in Nat
  PROVE  /\ e = a * (e \div a) + (e % a) /\ e \div a \in Int
         /\ e % a \in Nat /\ e % a < a
OBVIOUS

\* Aligning downwards, then going down by a multiple of the alignment.
LEMMA AlignedDown ==
  ASSUME NEW a \in Nat \ {0}, NEW e \in Nat, NEW n \in Nat, n % a = 0
  PROVE  /\ (e - (e % a) - n) % a = 0
         /\ (e - (e % a) - n) + n <= e
         /\ e - (e % a) - n \in Int
<1>1. e = a * (e \div a) + (e % a) /\ e \div a \in Int /\ e % a \in Nat
  BY Quotient
<1>2. n = a * (n \div a) /\ n \div a \in Int
  BY Quotient
<1>3. e - (e % a) - n = a * ((e \div a) - (n \div a)) /\ (e \div a) - (n \div a) \in Int
  BY <1>1, <1>2
<1>4. (e - (e % a) - n) % a = 0
  BY <1>3, Multiple
<1> QED
  BY <1>1, <1>4

\* A larger power of two serves for a smaller one.
LEMMA AlignedFor ==
  ASSUME NEW a \in Nat \ {0}, NEW b \in Nat \ {0}, b % a = 0, NEW x \in Nat, x % b = 0
  PROVE  x % a = 0
<1>1. x = b * (x \div b) /\ x \div b \in Int
  BY Quotient
<1>2. b = a * (b \div a) /\ b \div a \in Int
  BY Quotient
<1>3. x = a * ((b \div a) * (x \div b)) /\ (b \div a) * (x \div b) \in Int
  BY <1>1, <1>2
<1> QED
  BY <1>3, Multiple

\* The first of some places is one of them.
LEMMA FirstIsIn ==
  ASSUME NEW S, S \subseteq Nat, S # {}
  PROVE  FirstOf(S) \in S /\ \A y \in S : FirstOf(S) <= y
<1> DEFINE R == OpToRel(<, Nat)
<1>1. IsWellFoundedOn(R, Nat)
  BY NatLessThanWellFounded
<1>2. ASSUME NEW x \in Nat, NEW y \in Nat, ~(<<y, x>> \in R) PROVE x <= y
  <2>1. R = {ss \in Nat \X Nat : ss[1] < ss[2]}
    BY DEF OpToRel
  <2> HIDE DEF R
  <2> QED
    BY <1>2, <2>1
<1> HIDE DEF R
<1>3. PICK x \in S : \A y \in S : ~(<<y, x>> \in R)
  BY <1>1, WFMin
<1>4. \A y \in S : x <= y
  BY <1>2, <1>3
<1> QED
  BY <1>4 DEF FirstOf

-----------------------------------------------------------------------------
(* The free lists                                                          *)

\* Taking an entry out leaves the others, each once.
LEMMA TakenOut ==
  ASSUME NEW T, NEW s \in Seq(T), NEW k \in 1 .. Len(s)
  PROVE  /\ RemoveAt(s, k) \in Seq(T) /\ Len(RemoveAt(s, k)) = Len(s) - 1
         /\ \A j \in 1 .. Len(s) - 1 :
              RemoveAt(s, k)[j] = IF j < k THEN s[j] ELSE s[j + 1]
<1> DEFINE A == SubSeq(s, 1, k - 1)
           B == SubSeq(s, k + 1, Len(s))
<1>1. Len(s) \in Nat /\ k \in Nat /\ k >= 1 /\ k <= Len(s)
  OBVIOUS
<1>2. /\ A \in Seq(T) /\ Len(A) = k - 1
      /\ \A j \in 1 .. k - 1 : A[j] = s[j]
  <2>1. \A j \in 1 .. k - 1 : s[j] \in T
    BY <1>1
  <2> QED
    BY <1>1, <2>1, SubSeqProperties
<1>3. /\ B \in Seq(T) /\ Len(B) = Len(s) - k
      /\ \A j \in 1 .. Len(s) - k : B[j] = s[k + j]
  <2>1. \A j \in k + 1 .. Len(s) : s[j] \in T
    BY <1>1
  <2> QED
    BY <1>1, <2>1, SubSeqProperties
<1>4. RemoveAt(s, k) = A \o B
  BY DEF RemoveAt
<1> HIDE DEF A, B
<1>5. A \in Seq(T) /\ B \in Seq(T)
  BY <1>2, <1>3
<1>6. /\ A \o B \in Seq(T) /\ Len(A \o B) = Len(A) + Len(B)
      /\ \A j \in 1 .. Len(A) + Len(B) : (A \o B)[j] = IF j <= Len(A) THEN A[j] ELSE B[j - Len(A)]
  BY <1>5, ConcatProperties
<1>7. PICK r \in Seq(T) : r = A \o B
  BY <1>6
<1>8. Len(r) = Len(s) - 1
  <2>1. Len(r) = Len(A) + Len(B)
    BY <1>6, <1>7
  <2>2. Len(A) = k - 1 /\ Len(B) = Len(s) - k
    BY <1>2, <1>3
  <2> QED
    BY <1>1, <2>1, <2>2
<1>9. ASSUME NEW j \in 1 .. Len(s) - 1
      PROVE  r[j] = IF j < k THEN s[j] ELSE s[j + 1]
  <2>1. j \in Nat /\ j >= 1 /\ j <= Len(s) - 1
    BY <1>1
  <2>2. j \in 1 .. Len(A) + Len(B)
    BY <1>1, <1>2, <1>3, <2>1
  <2>3. r[j] = IF j <= Len(A) THEN A[j] ELSE B[j - Len(A)]
    BY <1>6, <1>7, <2>2
  <2>4. CASE j < k
    <3>1. j <= Len(A) /\ j \in 1 .. k - 1
      BY <1>1, <1>2, <2>1, <2>4
    <3> QED
      BY <1>2, <2>3, <2>4, <3>1
  <2>5. CASE j >= k
    <3>1. ~(j <= Len(A)) /\ j - Len(A) \in 1 .. Len(s) - k /\ k + (j - Len(A)) = j + 1
      BY <1>1, <1>2, <2>1, <2>5
    <3>2. r[j] = B[j - Len(A)]
      BY <2>3, <3>1
    <3>3. B[j - Len(A)] = s[k + (j - Len(A))]
      BY <1>3, <3>1
    <3>4. r[j] = s[j + 1] /\ ~(j < k)
      BY <1>1, <2>1, <2>5, <3>1, <3>2, <3>3
    <3> QED
      BY <3>4
  <2> QED
    BY <1>1, <2>1, <2>4, <2>5
<1> QED
  BY <1>4, <1>7, <1>8, <1>9

LEMMA Requests ==
  ASSUME NEW q \in Request
  PROVE  /\ q = <<q[1], q[2]>> /\ q[1] \in Nat \ {0} /\ q[2] \in Nat \ {0}
         /\ q[2] \in Alignments
BY DEF Alignments

LEMMA Alignment == Alignments \subseteq Nat \ {0}
BY DEF Alignments

\* What a list holds has the form the caller gave it.
LEMMA Entries ==
  ASSUME Shape, NEW t \in Thread, NEW c \in Class, NEW j \in Place(t, c)
  PROVE  AddrAt(t, c, j) \in Nat /\ AlignAt(t, c, j) \in Alignments
<1>1. freelist[t][c] \in Seq(Alignments \X Nat)
  BY DEF Shape
<1>2. freelist[t][c][j] \in Alignments \X Nat
  BY <1>1 DEF Place
<1> QED
  BY <1>2 DEF AddrAt, AlignAt

LEMMA Needs ==
  ASSUME NEW q \in Request
  PROVE  Needed(q) \in Nat \ {0} /\ q[1] <= Needed(q)
BY Requests DEF Needed

\* What is reserved for a held block.
LEMMA Rooms ==
  ASSUME NEW b \in Block, <<b.bytes, b.align>> \in Request
  PROVE  /\ b.addr \in Nat /\ b.bytes \in Nat \ {0} /\ b.align \in Alignments
         /\ Room(b) \in Nat \ {0} /\ b.bytes <= Room(b)
<1>1. b.addr \in Nat /\ b.align \in Alignments
  BY DEF Block
<1>2. PICK q \in Request : q = <<b.bytes, b.align>> /\ q[1] = b.bytes
  OBVIOUS
<1> QED
  BY <1>1, <1>2, Needs, Requests DEF Room

\* The least room of the blocks filed at a place is the room of one of them.
LEMMA Slabs ==
  ASSUME NEW c, NEW a, Filed(c, a) # {}
  PROVE  /\ Slab(c, a) \in Nat \ {0}
         /\ \E p \in Filed(c, a) : Slab(c, a) = Needed(p)
         /\ \A p \in Filed(c, a) : Slab(c, a) <= Needed(p)
<1> DEFINE S == {Needed(p) : p \in Filed(c, a)}
<1>1. S \subseteq Nat /\ S # {} /\ \A n \in S : n \in Nat \ {0}
  BY Needs DEF Filed
<1>2. \A p \in Filed(c, a) : Needed(p) \in S
  OBVIOUS
<1>3. \A n \in S : \E p \in Filed(c, a) : n = Needed(p)
  OBVIOUS
<1>4. Slab(c, a) = FirstOf(S)
  BY DEF Slab
<1> HIDE DEF S
<1>5. FirstOf(S) \in S /\ \A y \in S : FirstOf(S) <= y
  BY <1>1, FirstIsIn
<1> QED
  BY <1>1, <1>2, <1>3, <1>4, <1>5

\* A request finds room in the slab it takes, and clears no more if ZeroingFits.
LEMMA Found ==
  ASSUME ReuseFits, NEW q \in Request, NEW a \in Nat, q[2] <= a,
         Filed(SlabClass(Needed(q)), a) # {}
  PROVE  /\ Needed(q) <= Slab(SlabClass(Needed(q)), a)
         /\ ZeroingFits => ZeroedBytes(q) \in 0 .. Slab(SlabClass(Needed(q)), a)
<1>1. PICK p \in Filed(SlabClass(Needed(q)), a) : Slab(SlabClass(Needed(q)), a) = Needed(p)
  BY Slabs
<1>2. p \in Request /\ Meets(p, q)
  BY <1>1 DEF Filed, Meets
<1> QED
  BY <1>1, <1>2 DEF ReuseFits, ZeroingFits

LEMMA SpacedInit == Init => Spaced
<1> SUFFICES ASSUME Init PROVE Spaced
  OBVIOUS
<1>1. Shape
  BY DEF Init, Shape
<1>2. \A t \in Thread, c \in Class : Place(t, c) = {}
  BY DEF Init, Place
<1> QED
  BY <1>1, <1>2 DEF Init, Spaced, HeldOK, ListedOK, HeldApart, ListedApart, FreeApart

\* A step that neither takes nor gives memory.
LEMMA SpacedIdle ==
  ASSUME Spaced, Shape', UNCHANGED <<head, freelist, live>>
  PROVE  Spaced'
BY DEF Spaced, HeldOK, ListedOK, HeldApart, ListedApart, FreeApart, HandedOut, Place,
   AlignAt, AddrAt, RoomAt

\* The free lists have lost entries, or none.
ListsShrink ==
  \A t, u \in Thread, c, d \in Class : \A j \in Place(t, c)', k \in Place(u, d)' :
    \E i \in Place(t, c), l \in Place(u, d) :
      /\ freelist'[t][c][j] = freelist[t][c][i]
      /\ freelist'[u][d][k] = freelist[u][d][l]
      /\ <<t, c, i>> = <<u, d, l>> => <<t, c, j>> = <<u, d, k>>

\* A new block that touches nothing, while the free lists only lose entries.
LEMMA SpacedGrows ==
  ASSUME Spaced, Shape', NEW b \in Block, live' = live \cup {b},
         <<b.bytes, b.align>> \in Request,
         \A r \in Resource : head'[r] <= head[r],
         HandedOut(b.addr, Room(b))',
         \A x \in live : Apart(b.addr, Room(b), x.addr, Room(x)),
         ListsShrink,
         \A t \in Thread, c \in Class : \A j \in Place(t, c)' :
           Apart(b.addr, Room(b), AddrAt(t, c, j)', RoomAt(t, c, j)')
  PROVE  Spaced'
<1>1. \A r \in Resource : head[r] \in Nat /\ head'[r] \in Nat
  BY DEF Spaced, Shape
<1>2. \A x \in live : x \in Block /\ x.addr \in Nat
  BY DEF Spaced, HeldOK, Block
<1>3. ASSUME NEW x, NEW m, x \in Nat, HandedOut(x, m) PROVE HandedOut(x, m)'
  BY <1>1, <1>3 DEF HandedOut
<1>4. HeldOK'
  <2>1. ASSUME NEW x \in live
        PROVE  x \in Block /\ <<x.bytes, x.align>> \in Request /\ HandedOut(x.addr, Room(x))'
    BY <1>2, <1>3 DEF Spaced, HeldOK, HandedOut, Room
  <2> QED
    BY <2>1 DEF HeldOK, HandedOut, Room
<1>5. HeldApart'
  <2>1. ASSUME NEW x \in live PROVE Apart(x.addr, Room(x), b.addr, Room(b))
    BY DEF Apart
  <2> QED
    BY <2>1 DEF Spaced, HeldApart, Apart, Room
<1>6. ASSUME NEW t \in Thread, NEW c \in Class, NEW j \in Place(t, c)'
      PROVE  \E i \in Place(t, c) : /\ AlignAt(t, c, j)' = AlignAt(t, c, i)
                                    /\ AddrAt(t, c, j)' = AddrAt(t, c, i)
                                    /\ RoomAt(t, c, j)' = RoomAt(t, c, i)
  BY <1>6 DEF ListsShrink, AlignAt, AddrAt, RoomAt
<1>7. ListedOK'
  <2> SUFFICES ASSUME NEW t \in Thread, NEW c \in Class, NEW j \in Place(t, c)'
               PROVE  /\ Filed(c, AlignAt(t, c, j)') # {}
                      /\ HandedOut(AddrAt(t, c, j), RoomAt(t, c, j))'
    BY DEF ListedOK
  <2>1. PICK i \in Place(t, c) : /\ AlignAt(t, c, j)' = AlignAt(t, c, i)
                                 /\ AddrAt(t, c, j)' = AddrAt(t, c, i)
                                 /\ RoomAt(t, c, j)' = RoomAt(t, c, i)
    BY <1>6
  <2>2. PICK x \in Nat : x = AddrAt(t, c, i)
    BY Entries DEF Spaced
  <2>3. PICK m : m = RoomAt(t, c, i)
    OBVIOUS
  <2>4. Filed(c, AlignAt(t, c, i)) # {} /\ HandedOut(x, m)
    BY <2>2, <2>3 DEF Spaced, ListedOK
  <2>5. HandedOut(x, m)'
    BY <1>3, <2>4
  <2> QED
    BY <2>1, <2>2, <2>3, <2>4, <2>5 DEF HandedOut
<1>8. ListedApart'
  <2> SUFFICES ASSUME NEW t \in Thread, NEW u \in Thread, NEW c \in Class, NEW d \in Class,
                      NEW j \in Place(t, c)', NEW k \in Place(u, d)',
                      <<t, c, j>> # <<u, d, k>>
               PROVE  Apart(AddrAt(t, c, j)', RoomAt(t, c, j)', AddrAt(u, d, k)',
                            RoomAt(u, d, k)')
    BY DEF ListedApart, Apart
  <2>1. PICK i \in Place(t, c), l \in Place(u, d) :
          /\ freelist'[t][c][j] = freelist[t][c][i]
          /\ freelist'[u][d][k] = freelist[u][d][l]
          /\ <<t, c, i>> # <<u, d, l>>
    BY DEF ListsShrink
  <2>2. Apart(AddrAt(t, c, i), RoomAt(t, c, i), AddrAt(u, d, l), RoomAt(u, d, l))
    BY <2>1 DEF Spaced, ListedApart
  <2> QED
    BY <2>1, <2>2 DEF AddrAt, RoomAt
<1>9. FreeApart'
  <2> SUFFICES ASSUME NEW x \in live', NEW t \in Thread, NEW c \in Class,
                      NEW j \in Place(t, c)'
               PROVE  Apart(x.addr, Room(x), AddrAt(t, c, j)', RoomAt(t, c, j)')
    BY DEF FreeApart, Apart, Room
  <2>1. CASE x = b
    BY <2>1
  <2>2. CASE x \in live
    <3>1. PICK i \in Place(t, c) : /\ AddrAt(t, c, j)' = AddrAt(t, c, i)
                                   /\ RoomAt(t, c, j)' = RoomAt(t, c, i)
      BY <1>6
    <3> QED
      BY <2>2, <3>1 DEF Spaced, FreeApart
  <2> QED
    BY <2>1, <2>2
<1> QED
  BY <1>4, <1>5, <1>7, <1>8, <1>9 DEF Spaced

\* do_allocate from a free list takes its first entry that fits.
LEMMA Taken ==
  ASSUME Shape, NEW t \in Thread, NEW r \in Resource, NEW q \in Request,
         AllocateReuse(t, r, q)
  PROVE  \E c \in Class : \E k \in Place(t, c) :
           /\ c = SlabClass(Needed(q)) /\ q[2] <= AlignAt(t, c, k)
           /\ freelist' = [freelist EXCEPT ![t][c] = RemoveAt(freelist[t][c], k)]
           /\ live' = live \cup {BlockOf(r, AddrAt(t, c, k), q)}
           /\ overwritten' = overwritten \cup
                {b \in live : Touches(b, AddrAt(t, c, k), ZeroedBytes(q))}
           /\ head' = head /\ pc' = pc /\ req' = req
<1>1. PICK c \in Class : c = SlabClass(Needed(q))
  OBVIOUS
<1>2. PICK list \in Seq(Alignments \X Nat) : list = freelist[t][c]
  BY DEF Shape
<1>3. PICK k \in 1 .. Len(list) : k = FirstOf(Fitting(list, q[2])) /\ list[k][1] >= q[2]
  <2>1. Fitting(list, q[2]) \subseteq Nat /\ Fitting(list, q[2]) # {}
    <3>1. Fitting(freelist[t][SlabClass(Needed(q))], q[2]) # {}
      BY DEF AllocateReuse
    <3>2. Fitting(list, q[2]) # {}
      BY <1>1, <1>2, <3>1
    <3>3. Fitting(list, q[2]) \subseteq 1 .. Len(list)
      BY Zenon DEF Fitting
    <3>4. 1 .. Len(list) \subseteq Nat
      OBVIOUS
    <3> QED
      BY <3>2, <3>3, <3>4, Zenon
  <2>2. FirstOf(Fitting(list, q[2])) \in Fitting(list, q[2])
    BY <2>1, FirstIsIn
  <2> QED
    BY <2>2 DEF Fitting
<1>4. k \in Place(t, c)
  BY <1>2 DEF Place
<1>5. q[2] <= AlignAt(t, c, k)
  <2>1. AlignAt(t, c, k) >= q[2] /\ q[2] \in Nat
    BY <1>2, <1>3, Requests DEF AlignAt
  <2>2. AlignAt(t, c, k) \in Nat
    BY <1>4, Entries, Alignment
  <2> QED
    BY <2>1, <2>2
<1>6. /\ freelist' = [freelist EXCEPT ![t][c] = RemoveAt(freelist[t][c], k)]
      /\ live' = live \cup {BlockOf(r, AddrAt(t, c, k), q)}
      /\ overwritten' = overwritten \cup
           {b \in live : Touches(b, AddrAt(t, c, k), ZeroedBytes(q))}
      /\ head' = head /\ pc' = pc /\ req' = req
  BY <1>1, <1>2, <1>3 DEF AllocateReuse, threadVars, AddrAt
<1> QED
  BY <1>1, <1>4, <1>5, <1>6

\* do_allocate from a free list.
LEMMA SpacedReuse ==
  ASSUME WellSized, Spaced, NEW t \in Thread, NEW r \in Resource, NEW q \in Request,
         AllocateReuse(t, r, q)
  PROVE  Spaced'
<1>1. PICK c \in Class, k \in Place(t, SlabClass(Needed(q))) :
        /\ c = SlabClass(Needed(q)) /\ q[2] <= AlignAt(t, c, k)
        /\ freelist' = [freelist EXCEPT ![t][c] = RemoveAt(freelist[t][c], k)]
        /\ live' = live \cup {BlockOf(r, AddrAt(t, c, k), q)}
        /\ head' = head /\ pc' = pc /\ req' = req
  BY Taken DEF Spaced
<1>2. PICK n \in Nat \ {0} : n = Needed(q)
  BY Needs
<1>3. PICK list \in Seq(Alignments \X Nat) : list = freelist[t][c]
  BY DEF Spaced, Shape
<1>4. k \in Place(t, c) /\ k \in 1 .. Len(list)
  BY <1>1, <1>3 DEF Place
<1>5. PICK ptr \in Nat : ptr = AddrAt(t, c, k)
  BY <1>4, Entries DEF Spaced
<1>6. k \in Place(t, c)
  BY <1>4
<1>7. /\ freelist' = [freelist EXCEPT ![t][c] = RemoveAt(list, k)]
      /\ live' = live \cup {BlockOf(r, ptr, q)}
      /\ head' = head /\ pc' = pc /\ req' = req
  BY <1>1, <1>3, <1>5
<1>8. /\ RemoveAt(list, k) \in Seq(Alignments \X Nat)
      /\ Len(RemoveAt(list, k)) = Len(list) - 1 /\ Len(list) \in Nat
      /\ \A j \in 1 .. Len(list) - 1 :
           RemoveAt(list, k)[j] = IF j < k THEN list[j] ELSE list[j + 1]
  <2>1. Len(list) \in Nat
    OBVIOUS
  <2> QED
    BY <1>4, <2>1, TakenOut
<1>9. /\ freelist'[t][c] = RemoveAt(list, k)
      /\ \A u \in Thread, d \in Class : <<u, d>> # <<t, c>> => freelist'[u][d] = freelist[u][d]
  BY <1>7 DEF Spaced, Shape
<1>10. Shape'
  BY <1>7, <1>8 DEF Spaced, Shape
<1> DEFINE Old(u, d, j) == IF u = t /\ d = c /\ j >= k THEN j + 1 ELSE j
<1>11. ASSUME NEW u \in Thread, NEW d \in Class, NEW j \in Place(u, d)'
       PROVE  /\ Old(u, d, j) \in Place(u, d) /\ j \in Nat
              /\ freelist'[u][d][j] = freelist[u][d][Old(u, d, j)]
              /\ <<u, d, Old(u, d, j)>> # <<t, c, k>>
  <2>1. CASE u = t /\ d = c
    <3>1. j \in 1 .. Len(list) - 1
      BY <1>8, <1>9, <2>1 DEF Place
    <3>2. freelist'[t][c][j] = IF j < k THEN list[j] ELSE list[j + 1]
      BY <1>8, <1>9, <3>1
    <3>3. Old(u, d, j) = IF j >= k THEN j + 1 ELSE j
      BY <2>1
    <3> HIDE DEF Old
    <3>4. Len(list) \in Nat /\ j \in Nat /\ 1 <= j /\ j <= Len(list) - 1 /\ k \in Nat
      BY <1>4, <1>8, <3>1
    <3>5. /\ Old(u, d, j) \in 1 .. Len(list) /\ Old(u, d, j) # k
          /\ freelist'[t][c][j] = list[Old(u, d, j)]
      <4>1. CASE j < k
        <5>1. Old(u, d, j) = j /\ freelist'[t][c][j] = list[j]
          BY <3>2, <3>3, <3>4, <4>1
        <5>2. j \in 1 .. Len(list) /\ j # k
          BY <3>4, <4>1
        <5> QED
          BY <5>1, <5>2
      <4>2. CASE j >= k
        <5>1. Old(u, d, j) = j + 1 /\ freelist'[t][c][j] = list[j + 1]
          BY <3>2, <3>3, <3>4, <4>2
        <5> QED
          BY <3>4, <4>2, <5>1
      <4> QED
        BY <3>4, <4>1, <4>2
    <3> QED
      BY <1>3, <2>1, <3>4, <3>5 DEF Place
  <2>2. CASE ~(u = t /\ d = c)
    <3>1. freelist'[u][d] = freelist[u][d] /\ freelist[u][d] \in Seq(Alignments \X Nat)
      <4>1. <<u, d>> # <<t, c>>
        BY <2>2
      <4>2. freelist'[u][d] = freelist[u][d]
        BY <1>9, <4>1, Zenon
      <4>3. freelist \in [Thread -> [Class -> Seq(Alignments \X Nat)]]
        BY Zenon DEF Spaced, Shape
      <4> QED
        BY <4>2, <4>3
    <3>2. Old(u, d, j) = j
      BY <2>2, Zenon
    <3> HIDE DEF Old
    <3>3. j \in 1 .. Len(freelist[u][d])
      BY <3>1 DEF Place
    <3>4. j \in Nat
      BY <3>1, <3>3
    <3> QED
      BY <2>2, <3>1, <3>2, <3>3, <3>4, Zenon DEF Place
  <2> QED
    BY <2>1, <2>2
<1>12. ListsShrink
  <2>1. ASSUME NEW u \in Thread, NEW v \in Thread, NEW d \in Class, NEW e \in Class,
               NEW j \in Place(u, d)', NEW l \in Place(v, e)'
        PROVE  <<u, d, Old(u, d, j)>> = <<v, e, Old(v, e, l)>> => <<u, d, j>> = <<v, e, l>>
    <3>1. j \in Nat /\ l \in Nat /\ k \in Nat
      BY <1>4, <1>11
    <3> SUFFICES ASSUME u = v, d = e, Old(u, d, j) = Old(v, e, l) PROVE j = l
      OBVIOUS
    <3>2. CASE u = t /\ d = c
      <4>1. /\ Old(u, d, j) = (IF j >= k THEN j + 1 ELSE j)
            /\ Old(v, e, l) = (IF l >= k THEN l + 1 ELSE l)
        BY <3>2
      <4> HIDE DEF Old
      <4>2. PICK x, y : x = Old(u, d, j) /\ y = Old(v, e, l) /\ x = y
        OBVIOUS
      <4>3. /\ x = (IF j >= k THEN j + 1 ELSE j)
            /\ y = (IF l >= k THEN l + 1 ELSE l)
        BY <4>1, <4>2
      <4>4. CASE j >= k /\ l >= k
        BY <3>1, <4>2, <4>3, <4>4
      <4>5. CASE ~(j >= k /\ l >= k)
        BY <3>1, <4>2, <4>3, <4>5
      <4> QED
        BY <4>4, <4>5
    <3>3. CASE ~(u = t /\ d = c)
      BY <3>3
    <3> QED
      BY <3>2, <3>3
  <2> HIDE DEF Old
  <2> QED
    BY <1>11, <2>1 DEF ListsShrink
\* The slab is at least as long as the request.
<1>13. PICK m \in Nat : m = RoomAt(t, c, k) /\ n <= m
  <2>1. Filed(c, AlignAt(t, c, k)) # {} /\ AlignAt(t, c, k) \in Nat
    BY <1>6, Entries, Alignment DEF Spaced, ListedOK
  <2>2. q[2] <= AlignAt(t, c, k)
    BY <1>1
  <2>3. Needed(q) <= Slab(c, AlignAt(t, c, k)) /\ Slab(c, AlignAt(t, c, k)) \in Nat
    BY <1>1, <2>1, <2>2, Found, Slabs DEF WellSized
  <2> QED
    BY <1>2, <2>3 DEF RoomAt, AlignAt
<1>14. HandedOut(ptr, n)
  <2>1. HandedOut(ptr, m)
    BY <1>5, <1>6, <1>13 DEF Spaced, ListedOK
  <2> QED
    BY <1>13, <2>1 DEF HandedOut
<1>15. ASSUME NEW x \in live PROVE Apart(ptr, n, x.addr, Room(x))
  <2>1. Apart(x.addr, Room(x), ptr, m)
    BY <1>5, <1>6, <1>13 DEF Spaced, FreeApart
  <2>2. x.addr \in Nat /\ Room(x) \in Nat
    BY Rooms DEF Spaced, HeldOK
  <2> QED
    BY <1>13, <2>1, <2>2 DEF Apart
<1>16. ASSUME NEW u \in Thread, NEW d \in Class, NEW j \in Place(u, d)'
       PROVE  Apart(ptr, n, AddrAt(u, d, j)', RoomAt(u, d, j)')
  <2> HIDE DEF Old
  <2>1. PICK o \in Place(u, d) : /\ AddrAt(u, d, j)' = AddrAt(u, d, o)
                                 /\ RoomAt(u, d, j)' = RoomAt(u, d, o)
                                 /\ <<t, c, k>> # <<u, d, o>>
    <3>1. /\ Old(u, d, j) \in Place(u, d)
          /\ freelist'[u][d][j] = freelist[u][d][Old(u, d, j)]
          /\ <<u, d, Old(u, d, j)>> # <<t, c, k>>
      BY <1>11
    <3> QED
      BY <3>1 DEF AddrAt, RoomAt
  <2>2. Apart(ptr, m, AddrAt(u, d, o), RoomAt(u, d, o))
    BY <1>5, <1>6, <1>13, <2>1 DEF Spaced, ListedApart
  <2>3. AddrAt(u, d, o) \in Nat /\ RoomAt(u, d, o) \in Nat
    BY <2>1, Entries, Slabs DEF Spaced, ListedOK, RoomAt, AlignAt
  <2> QED
    BY <1>13, <2>1, <2>2, <2>3 DEF Apart
<1>17. PICK b \in Block : /\ b = BlockOf(r, ptr, q) /\ b.addr = ptr /\ Room(b) = n
                          /\ b.bytes = q[1] /\ b.align = q[2]
  <2>1. BlockOf(r, ptr, q) \in Block
    BY Requests DEF BlockOf, Block
  <2> QED
    BY <1>2, <2>1, Requests DEF BlockOf, Room
<1> HIDE DEF Old
<1>18. <<b.bytes, b.align>> \in Request /\ live' = live \cup {b}
  BY <1>7, <1>17, Requests
<1>19. HandedOut(b.addr, Room(b))'
  BY <1>7, <1>14, <1>17 DEF HandedOut, Room
<1>20. \A s \in Resource : head'[s] <= head[s]
  BY <1>7 DEF Spaced, Shape
<1>21. \A x \in live : Apart(b.addr, Room(b), x.addr, Room(x))
  BY <1>15, <1>17
<1>22. \A u \in Thread, d \in Class : \A j \in Place(u, d)' :
         Apart(b.addr, Room(b), AddrAt(u, d, j)', RoomAt(u, d, j)')
  BY <1>16, <1>17
<1> QED
  BY <1>10, <1>12, <1>18, <1>19, <1>20, <1>21, <1>22, SpacedGrows

\* do_allocate from the arena: the compare-exchange succeeds.
LEMMA SpacedSwap ==
  ASSUME WellSized, Spaced, NEW t \in Thread, BumpSwap(t)
  PROVE  Spaced'
<1>1. pc[t] = "bump" /\ req[t] \in Resource \X Request
  BY DEF BumpSwap, Spaced, Shape
<1>2. PICK r \in Resource, q \in Request : r = req[t][1] /\ q = req[t][2]
  BY <1>1
<1>3. PICK e \in Nat : e = expected[t] /\ e = head[r]
  BY <1>2 DEF BumpSwap, Spaced, Shape
<1>4. PICK n \in Nat \ {0} : n = Needed(q) /\ q[2] \in Nat \ {0} /\ q[2] \in Alignments
  BY Requests, Needs
<1>5. Desired(t) = e - (e % q[2]) - n
  BY <1>2, <1>3, <1>4 DEF Desired
<1>6. Desired(t) >= Base[r] /\ Base[r] \in Nat /\ e <= Base[r] + Bytes
  BY <1>2, <1>3 DEF BumpSwap, Spaced, Shape
<1>7. PICK x \in Nat : x = Desired(t) /\ x + n <= e /\ Base[r] <= x
  <2>1. Desired(t) \in Int /\ Desired(t) + n <= e
    BY <1>4, <1>5, Quotient
  <2> QED
    BY <1>6, <2>1
<1>8. /\ head' = [head EXCEPT ![r] = x] /\ live' = live \cup {BlockOf(r, x, q)}
      /\ freelist' = freelist /\ Return(t)
  BY <1>2, <1>7 DEF BumpSwap
<1>9. /\ head'[r] = x /\ \A s \in Resource : s = r
      /\ \A s \in Resource : head[s] \in Nat /\ head'[s] \in Nat /\ head'[s] <= head[s]
  <2>1. \A s \in Resource : s = r
    BY DEF WellSized, SingleResource
  <2>2. head'[r] = x
    BY <1>8 DEF Spaced, Shape
  <2>3. x <= e
    BY <1>3, <1>4, <1>7
  <2> QED
    BY <1>3, <2>1, <2>2, <2>3
<1>10. Shape'
  <2>1. head' \in [Resource -> Nat]
    BY <1>8 DEF Spaced, Shape
  <2>2. \A s \in Resource : Base[s] <= head'[s] /\ head'[s] <= Base[s] + Bytes
    BY <1>3, <1>4, <1>6, <1>7, <1>9
  <2>3. /\ pc' \in [Thread -> {"idle", "bump", "abort"}]
        /\ req' \in [Thread -> (Resource \X Request) \cup {NoRequest}]
        /\ \A u \in Thread : pc'[u] = "bump" => req'[u] \in Resource \X Request
    BY <1>8 DEF Return, Spaced, Shape
  <2> QED
    BY <1>8, <2>1, <2>2, <2>3 DEF Spaced, Shape
<1>11. PICK b \in Block : /\ b = BlockOf(r, x, q) /\ b.addr = x /\ Room(b) = n
                          /\ b.bytes = q[1] /\ b.align = q[2]
  <2>1. BlockOf(r, x, q) \in Block
    BY <1>4, Requests DEF BlockOf, Block
  <2> QED
    BY <1>4, <2>1, Requests DEF BlockOf, Room
<1>12. <<b.bytes, b.align>> \in Request
  BY <1>11, Requests
<1>13. HandedOut(b.addr, Room(b))'
  <2>1. x <= x /\ x + n <= Base[r] + Bytes
    BY <1>4, <1>6, <1>7
  <2> QED
    BY <1>9, <1>11, <2>1 DEF HandedOut, Room
\* Everything handed out before lies above the old head.
<1>14. ASSUME NEW y \in Nat, NEW m, HandedOut(y, m)
       PROVE  Apart(b.addr, Room(b), y, m)
  <2>1. e <= y
    BY <1>3, <1>14 DEF HandedOut
  <2>2. x + n <= y
    BY <1>4, <1>7, <2>1
  <2> QED
    BY <1>11, <2>2 DEF Apart
<1>15. \A y \in live : Apart(b.addr, Room(b), y.addr, Room(y))
  BY <1>14 DEF Spaced, HeldOK, Block
<1>16. \A u \in Thread, d \in Class : Place(u, d)' = Place(u, d)
  BY <1>8 DEF Place
<1>17. ASSUME NEW u \in Thread, NEW d \in Class, NEW j \in Place(u, d)'
       PROVE  Apart(b.addr, Room(b), AddrAt(u, d, j)', RoomAt(u, d, j)')
  <2>1. j \in Place(u, d)
    BY <1>16
  <2>2. AddrAt(u, d, j) \in Nat /\ HandedOut(AddrAt(u, d, j), RoomAt(u, d, j))
    BY <2>1, Entries DEF Spaced, ListedOK
  <2>3. Apart(b.addr, Room(b), AddrAt(u, d, j), RoomAt(u, d, j))
    BY <1>14, <2>2
  <2> QED
    BY <1>8, <2>3 DEF AddrAt, RoomAt
<1>18. ListsShrink
  BY <1>8, <1>16 DEF ListsShrink
<1>19. live' = live \cup {b} /\ \A s \in Resource : head'[s] <= head[s]
  BY <1>8, <1>9, <1>11
<1> QED
  BY <1>10, <1>12, <1>13, <1>15, <1>17, <1>18, <1>19, SpacedGrows

\* do_deallocate: a block becomes the last entry of the list of its class.
LEMMA SpacedFree ==
  ASSUME Spaced, NEW t \in Thread, NEW b \in live, Deallocate(t, b)
  PROVE  Spaced'
<1>1. /\ b \in Block /\ <<b.bytes, b.align>> \in Request
      /\ HandedOut(b.addr, Room(b))
  BY DEF Spaced, HeldOK
<1>2. PICK m \in Nat \ {0} : m = Room(b) /\ b.addr \in Nat /\ b.align \in Alignments
  BY <1>1, Rooms
<1>3. PICK c \in Class : c = SlabClass(b.bytes) /\ <<b.bytes, b.align>> \in Filed(c, b.align)
  <2>1. PICK q \in Request : q = <<b.bytes, b.align>> /\ q[1] = b.bytes /\ q[2] = b.align
    BY <1>1
  <2> QED
    BY <2>1 DEF Filed
\* What the list says of it is not more than what was reserved for it.
<1>4. PICK o \in Nat \ {0} : o = Slab(c, b.align) /\ o <= m
  BY <1>2, <1>3, Slabs DEF Room
<1>5. /\ freelist' = [freelist EXCEPT ![t][c] = Append(@, <<b.align, b.addr>>)]
      /\ live' = live \ {b} /\ head' = head /\ pc' = pc /\ req' = req
  BY <1>3 DEF Deallocate, threadVars
<1>6. PICK n \in Nat : n = Len(freelist[t][c])
  BY DEF Spaced, Shape
<1>7. freelist[t][c] \in Seq(Alignments \X Nat) /\ <<b.align, b.addr>> \in Alignments \X Nat
  BY <1>2 DEF Spaced, Shape
<1>8. freelist'[t][c] = Append(freelist[t][c], <<b.align, b.addr>>)
  BY <1>5 DEF Spaced, Shape
<1>9. /\ Len(freelist'[t][c]) = n + 1 /\ freelist'[t][c][n + 1] = <<b.align, b.addr>>
      /\ \A j \in 1 .. n : freelist'[t][c][j] = freelist[t][c][j]
  BY <1>6, <1>7, <1>8
<1>10. \A u \in Thread, d \in Class : <<u, d>> # <<t, c>> => freelist'[u][d] = freelist[u][d]
  BY <1>5 DEF Spaced, Shape
<1>11. Shape'
  <2>1. Append(freelist[t][c], <<b.align, b.addr>>) \in Seq(Alignments \X Nat)
    BY <1>7
  <2> QED
    BY <1>5, <2>1 DEF Spaced, Shape
\* An entry is an old one, or the new one.
<1>12. ASSUME NEW u \in Thread, NEW d \in Class, NEW j \in Place(u, d)'
       PROVE  \/ /\ j \in Place(u, d) /\ AlignAt(u, d, j)' = AlignAt(u, d, j)
                 /\ AddrAt(u, d, j)' = AddrAt(u, d, j) /\ RoomAt(u, d, j)' = RoomAt(u, d, j)
              \/ /\ u = t /\ d = c /\ j = n + 1 /\ AlignAt(u, d, j)' = b.align
                 /\ AddrAt(u, d, j)' = b.addr /\ RoomAt(u, d, j)' = o
  <2>1. CASE u = t /\ d = c
    <3>1. j \in 1 .. n + 1
      BY <1>9, <2>1 DEF Place
    <3>2. CASE j \in 1 .. n
      <4>1. j \in Place(u, d) /\ freelist'[u][d][j] = freelist[u][d][j]
        BY <1>6, <1>9, <2>1, <3>2 DEF Place
      <4> QED
        BY <4>1 DEF AlignAt, AddrAt, RoomAt
    <3>3. CASE j = n + 1
      <4>1. freelist'[u][d][j] = <<b.align, b.addr>>
        BY <1>9, <2>1, <3>3
      <4> QED
        BY <1>4, <2>1, <3>3, <4>1 DEF AlignAt, AddrAt, RoomAt
    <3> QED
      BY <3>1, <3>2, <3>3
  <2>2. CASE <<u, d>> # <<t, c>>
    <3>1. freelist'[u][d] = freelist[u][d]
      BY <1>10, <2>2
    <3> QED
      BY <3>1 DEF Place, AlignAt, AddrAt, RoomAt
  <2> QED
    BY <2>1, <2>2
<1>13. HeldOK' /\ HeldApart'
  BY <1>5 DEF Spaced, HeldOK, HeldApart, HandedOut, Apart, Room
<1>14. ASSUME NEW x, NEW k, HandedOut(x, k) PROVE HandedOut(x, k)'
  BY <1>5, <1>14 DEF HandedOut
<1>15. HandedOut(b.addr, o)
  <2>1. \A r \in Resource : head[r] \in Nat /\ Base[r] \in Nat
    BY DEF Spaced, Shape
  <2> QED
    BY <1>1, <1>2, <1>4, <2>1 DEF HandedOut
<1>16. ListedOK'
  <2> SUFFICES ASSUME NEW u \in Thread, NEW d \in Class, NEW j \in Place(u, d)'
               PROVE  /\ Filed(d, AlignAt(u, d, j)') # {}
                      /\ HandedOut(AddrAt(u, d, j), RoomAt(u, d, j))'
    BY DEF ListedOK
  <2>1. CASE /\ j \in Place(u, d) /\ AlignAt(u, d, j)' = AlignAt(u, d, j)
             /\ AddrAt(u, d, j)' = AddrAt(u, d, j) /\ RoomAt(u, d, j)' = RoomAt(u, d, j)
    <3>1. PICK x, k : x = AddrAt(u, d, j) /\ k = RoomAt(u, d, j)
      OBVIOUS
    <3>2. Filed(d, AlignAt(u, d, j)) # {} /\ HandedOut(x, k)
      BY <2>1, <3>1 DEF Spaced, ListedOK
    <3>3. HandedOut(x, k)'
      BY <1>14, <3>2
    <3> QED
      BY <2>1, <3>1, <3>2, <3>3 DEF HandedOut
  <2>2. CASE /\ d = c /\ AlignAt(u, d, j)' = b.align
             /\ AddrAt(u, d, j)' = b.addr /\ RoomAt(u, d, j)' = o
    <3>1. \A r \in Resource : head'[r] <= b.addr /\ b.addr + o <= Base[r] + Bytes
      BY <1>5, <1>15 DEF HandedOut
    <3> QED
      BY <1>3, <2>2, <3>1 DEF HandedOut
  <2> QED
    BY <1>12, <2>1, <2>2
<1>17. ASSUME NEW u \in Thread, NEW d \in Class, NEW j \in Place(u, d)
       PROVE  /\ Apart(b.addr, o, AddrAt(u, d, j), RoomAt(u, d, j))
              /\ Apart(AddrAt(u, d, j), RoomAt(u, d, j), b.addr, o)
  <2>1. Apart(b.addr, m, AddrAt(u, d, j), RoomAt(u, d, j))
    BY <1>2 DEF Spaced, FreeApart
  <2>2. AddrAt(u, d, j) \in Nat /\ RoomAt(u, d, j) \in Nat
    BY Entries, Slabs DEF Spaced, ListedOK, RoomAt, AlignAt
  <2> QED
    BY <1>2, <1>4, <2>1, <2>2 DEF Apart
<1>18. ListedApart'
  <2> SUFFICES ASSUME NEW u \in Thread, NEW v \in Thread, NEW d \in Class, NEW e \in Class,
                      NEW j \in Place(u, d)', NEW k \in Place(v, e)',
                      <<u, d, j>> # <<v, e, k>>
               PROVE  Apart(AddrAt(u, d, j)', RoomAt(u, d, j)', AddrAt(v, e, k)',
                            RoomAt(v, e, k)')
    BY DEF ListedApart, Apart
  <2>1. CASE /\ j \in Place(u, d)
             /\ AddrAt(u, d, j)' = AddrAt(u, d, j) /\ RoomAt(u, d, j)' = RoomAt(u, d, j)
             /\ k \in Place(v, e)
             /\ AddrAt(v, e, k)' = AddrAt(v, e, k) /\ RoomAt(v, e, k)' = RoomAt(v, e, k)
    BY <2>1 DEF Spaced, ListedApart
  <2>2. CASE /\ j \in Place(u, d)
             /\ AddrAt(u, d, j)' = AddrAt(u, d, j) /\ RoomAt(u, d, j)' = RoomAt(u, d, j)
             /\ AddrAt(v, e, k)' = b.addr /\ RoomAt(v, e, k)' = o
    BY <1>17, <2>2
  <2>3. CASE /\ k \in Place(v, e)
             /\ AddrAt(v, e, k)' = AddrAt(v, e, k) /\ RoomAt(v, e, k)' = RoomAt(v, e, k)
             /\ AddrAt(u, d, j)' = b.addr /\ RoomAt(u, d, j)' = o
    BY <1>17, <2>3
  <2>4. \/ /\ j \in Place(u, d)
           /\ AddrAt(u, d, j)' = AddrAt(u, d, j) /\ RoomAt(u, d, j)' = RoomAt(u, d, j)
        \/ /\ <<u, d, j>> = <<t, c, n + 1>>
           /\ AddrAt(u, d, j)' = b.addr /\ RoomAt(u, d, j)' = o
    BY <1>12
  <2>5. \/ /\ k \in Place(v, e)
           /\ AddrAt(v, e, k)' = AddrAt(v, e, k) /\ RoomAt(v, e, k)' = RoomAt(v, e, k)
        \/ /\ <<v, e, k>> = <<t, c, n + 1>>
           /\ AddrAt(v, e, k)' = b.addr /\ RoomAt(v, e, k)' = o
    BY <1>12
  <2> QED
    BY <2>1, <2>2, <2>3, <2>4, <2>5
<1>19. FreeApart'
  <2> SUFFICES ASSUME NEW x \in live, x # b, NEW u \in Thread, NEW d \in Class,
                      NEW j \in Place(u, d)'
               PROVE  Apart(x.addr, Room(x), AddrAt(u, d, j)', RoomAt(u, d, j)')
    BY <1>5 DEF FreeApart, Apart, Room
  <2>1. CASE /\ j \in Place(u, d)
             /\ AddrAt(u, d, j)' = AddrAt(u, d, j) /\ RoomAt(u, d, j)' = RoomAt(u, d, j)
    BY <2>1 DEF Spaced, FreeApart
  <2>2. CASE AddrAt(u, d, j)' = b.addr /\ RoomAt(u, d, j)' = o
    <3>1. x \in Block /\ <<x.bytes, x.align>> \in Request
      BY DEF Spaced, HeldOK
    <3>2. x.addr \in Nat /\ Room(x) \in Nat
      BY <3>1, Rooms
    <3>3. Apart(x.addr, Room(x), b.addr, m)
      BY <1>2 DEF Spaced, HeldApart
    <3> QED
      BY <1>2, <1>4, <2>2, <3>2, <3>3 DEF Apart
  <2> QED
    BY <1>12, <2>1, <2>2
<1> QED
  BY <1>11, <1>13, <1>16, <1>18, <1>19 DEF Spaced

LEMMA SpacedNext == WellSized /\ Spaced /\ [Next]_vars => Spaced'
<1> SUFFICES ASSUME WellSized, Spaced, [Next]_vars PROVE Spaced'
  OBVIOUS
<1>1. ASSUME NEW t \in Thread, NEW r \in Resource, NEW q \in Request,
             AllocateAsserts(t, r, q) \/ AllocateMiss(t, r, q)
      PROVE  Spaced'
  <2>1. Shape'
    <3>1. CASE AllocateAsserts(t, r, q)
      BY <3>1 DEF AllocateAsserts, Spaced, Shape
    <3>2. CASE AllocateMiss(t, r, q)
      <4>1. /\ pc' = [pc EXCEPT ![t] = "bump"] /\ req' = [req EXCEPT ![t] = <<r, q>>]
            /\ head' = head /\ freelist' = freelist
        BY <3>2 DEF AllocateMiss
      <4>2. <<r, q>> \in Resource \X Request
        OBVIOUS
      <4> QED
        BY <4>1, <4>2 DEF Spaced, Shape
    <3> QED
      BY <1>1, <3>1, <3>2
  <2> QED
    BY <1>1, <2>1, SpacedIdle DEF AllocateAsserts, AllocateMiss, callerVars
<1>2. ASSUME NEW t \in Thread, BumpOom(t) \/ BumpRetry(t)
      PROVE  Spaced'
  <2>1. Shape'
    BY <1>2 DEF BumpOom, BumpRetry, Return, Spaced, Shape
  <2> QED
    BY <1>2, <2>1, SpacedIdle DEF BumpOom, BumpRetry, callerVars
<1>3. CASE UNCHANGED vars
  <2>1. Shape'
    BY <1>3 DEF vars, threadVars, Spaced, Shape
  <2> QED
    BY <1>3, <2>1, SpacedIdle DEF vars, callerVars
<1> QED
  BY <1>1, <1>2, <1>3, SpacedReuse, SpacedSwap, SpacedFree DEF Next

LEMMA SpacedInvariant == ASSUME WellSized PROVE Spec => []Spaced
<1>1. Spaced /\ [Next]_vars => Spaced'
  BY SpacedNext
<1> QED
  BY SpacedInit, <1>1, PTL DEF Spec

\* For every number of threads racing on head_ and every history of the free
\* lists: no byte belongs to two callers, if a request never finds a freed block
\* that is shorter than itself ...
THEOREM MemoryHandedOutOnce == ASSUME WellSized PROVE Spec => []BlocksDisjoint
<1>1. Spaced => BlocksDisjoint
  <2> SUFFICES ASSUME Spaced, NEW b \in live, NEW c \in live, b # c
               PROVE  ~Touches(b, c.addr, c.bytes)
    BY DEF BlocksDisjoint
  <2>1. /\ b.addr \in Nat /\ b.bytes \in Nat /\ Room(b) \in Nat /\ b.bytes <= Room(b)
        /\ c.addr \in Nat /\ c.bytes \in Nat /\ Room(c) \in Nat /\ c.bytes <= Room(c)
    BY Rooms DEF Spaced, HeldOK
  <2>2. Apart(b.addr, Room(b), c.addr, Room(c))
    BY DEF Spaced, HeldApart
  <2> QED
    BY <2>1, <2>2 DEF Apart, Touches
<1> QED
  BY <1>1, SpacedInvariant, PTL

\* ... and what is on a free list is on one only and is nobody's block.
THEOREM FreeListsAreExclusive == ASSUME WellSized PROVE Spec => []FreeMemoryIsFree
<1>1. Spaced => FreeMemoryIsFree
  <2> SUFFICES ASSUME Spaced, NEW t \in Thread, NEW u \in Thread,
                      NEW c \in Class, NEW d \in Class,
                      NEW j \in Place(t, c), NEW k \in Place(u, d)
               PROVE  /\ AddrAt(t, c, j) = AddrAt(u, d, k) => <<t, c, j>> = <<u, d, k>>
                      /\ \A b \in live : b.addr # AddrAt(t, c, j)
    BY DEF FreeMemoryIsFree, Place, AddrAt
  <2>1. /\ AddrAt(t, c, j) \in Nat /\ AddrAt(u, d, k) \in Nat
        /\ RoomAt(t, c, j) \in Nat \ {0} /\ RoomAt(u, d, k) \in Nat \ {0}
    BY Entries, Slabs DEF Spaced, ListedOK, RoomAt, AlignAt
  <2>2. AddrAt(t, c, j) = AddrAt(u, d, k) => <<t, c, j>> = <<u, d, k>>
    <3>1. \/ <<t, c, j>> = <<u, d, k>>
          \/ Apart(AddrAt(t, c, j), RoomAt(t, c, j), AddrAt(u, d, k), RoomAt(u, d, k))
      BY DEF Spaced, ListedApart
    <3> QED
      BY <2>1, <3>1 DEF Apart
  <2>3. ASSUME NEW b \in live PROVE b.addr # AddrAt(t, c, j)
    <3>1. b.addr \in Nat /\ Room(b) \in Nat \ {0}
      BY Rooms DEF Spaced, HeldOK
    <3>2. Apart(b.addr, Room(b), AddrAt(t, c, j), RoomAt(t, c, j))
      BY DEF Spaced, FreeApart
    <3> QED
      BY <2>1, <3>1, <3>2 DEF Apart
  <2> QED
    BY <2>2, <2>3
<1> QED
  BY <1>1, SpacedInvariant, PTL

-----------------------------------------------------------------------------
(* Alignment                                                               *)

Aligned == HeldAligned /\ ListedAligned

\* Blocks keep their alignment in the free lists, and in both ways of do_allocate.
LEMMA AlignedNext ==
  ASSUME SizesAligned, AlignmentsNest, Spaced, Aligned, [Next]_vars
  PROVE  Aligned'
<1>1. ASSUME NEW t \in Thread, NEW r \in Resource, NEW q \in Request, AllocateReuse(t, r, q)
      PROVE  Aligned'
  <2>1. PICK c \in Class, k \in Place(t, SlabClass(Needed(q))) :
          /\ c = SlabClass(Needed(q)) /\ q[2] <= AlignAt(t, c, k)
          /\ freelist' = [freelist EXCEPT ![t][c] = RemoveAt(freelist[t][c], k)]
          /\ live' = live \cup {BlockOf(r, AddrAt(t, c, k), q)}
    BY <1>1, Taken DEF Spaced
  <2>2. PICK a \in Alignments, x \in Nat : a = AlignAt(t, c, k) /\ x = AddrAt(t, c, k)
    BY <2>1, Entries DEF Spaced
  <2>3. x % a = 0
    BY <2>1, <2>2 DEF Aligned, ListedAligned
  <2>4. a % q[2] = 0 /\ a \in Nat \ {0} /\ q[2] \in Nat \ {0}
    BY <2>1, <2>2, Alignment, Requests DEF AlignmentsNest
  <2>5. x % q[2] = 0
    BY <2>3, <2>4, AlignedFor
  <2>6. HeldAligned'
    BY <2>1, <2>2, <2>5 DEF Aligned, HeldAligned, BlockOf
  <2>7. PICK list \in Seq(Alignments \X Nat) : list = freelist[t][c]
    BY DEF Spaced, Shape
  <2>8. k \in 1 .. Len(list) /\ Len(list) \in Nat
    BY <2>1, <2>7 DEF Place
  <2>9. /\ Len(RemoveAt(list, k)) = Len(list) - 1
        /\ \A j \in 1 .. Len(list) - 1 :
             RemoveAt(list, k)[j] = IF j < k THEN list[j] ELSE list[j + 1]
    BY <2>8, TakenOut
  <2>10. /\ freelist'[t][c] = RemoveAt(list, k)
         /\ \A u \in Thread, d \in Class :
              <<u, d>> # <<t, c>> => freelist'[u][d] = freelist[u][d]
    BY <2>1, <2>7 DEF Spaced, Shape
  <2>11. ASSUME NEW u \in Thread, NEW d \in Class, NEW j \in Place(u, d)'
         PROVE  \E i \in Place(u, d) : freelist'[u][d][j] = freelist[u][d][i]
    <3>1. CASE u = t /\ d = c
      <4>1. j \in 1 .. Len(list) - 1
        BY <2>9, <2>10, <3>1 DEF Place
      <4>2. freelist'[u][d][j] = list[j] \/ freelist'[u][d][j] = list[j + 1]
        BY <2>9, <2>10, <3>1, <4>1
      <4>3. j \in 1 .. Len(list) /\ j + 1 \in 1 .. Len(list)
        BY <2>8, <4>1
      <4> QED
        BY <2>7, <3>1, <4>2, <4>3 DEF Place
    <3>2. CASE <<u, d>> # <<t, c>>
      BY <2>10, <3>2 DEF Place
    <3> QED
      BY <3>1, <3>2
  <2>12. ListedAligned'
    <3> SUFFICES ASSUME NEW u \in Thread, NEW d \in Class, NEW j \in Place(u, d)'
                 PROVE  freelist'[u][d][j][2] % freelist'[u][d][j][1] = 0
      BY DEF ListedAligned, AddrAt, AlignAt
    <3>1. PICK i \in Place(u, d) : freelist'[u][d][j] = freelist[u][d][i]
      BY <2>11
    <3>2. freelist[u][d][i][2] % freelist[u][d][i][1] = 0
      BY DEF Aligned, ListedAligned, AddrAt, AlignAt
    <3> QED
      BY <3>1, <3>2
  <2> QED
    BY <2>6, <2>12 DEF Aligned
<1>2. ASSUME NEW t \in Thread, BumpSwap(t)
      PROVE  Aligned'
  <2>1. pc[t] = "bump" /\ req[t] \in Resource \X Request
    BY <1>2 DEF BumpSwap, Spaced, Shape
  <2>2. PICK r \in Resource, q \in Request : r = req[t][1] /\ q = req[t][2]
    BY <2>1
  <2>3. PICK e \in Nat : e = expected[t]
    BY <1>2, <2>2 DEF BumpSwap, Spaced, Shape
  <2>4. Desired(t) = e - (e % q[2]) - Needed(q)
    BY <2>2, <2>3 DEF Desired
  <2>5. Needed(q) \in Nat /\ Needed(q) % q[2] = 0 /\ q[2] \in Nat \ {0}
    BY Needs, Requests DEF SizesAligned
  <2>6. (e - (e % q[2]) - Needed(q)) % q[2] = 0
    BY <2>5, AlignedDown
  <2>7. live' = live \cup {BlockOf(r, Desired(t), q)} /\ freelist' = freelist
    BY <1>2, <2>2 DEF BumpSwap
  <2>8. Desired(t) % q[2] = 0
    BY <2>4, <2>6
  <2>9. HeldAligned'
    BY <2>7, <2>8 DEF Aligned, HeldAligned, BlockOf
  <2>10. ListedAligned'
    BY <2>7 DEF Aligned, ListedAligned, Place, AddrAt, AlignAt
  <2> QED
    BY <2>9, <2>10 DEF Aligned
<1>3. ASSUME NEW t \in Thread, NEW b \in live, Deallocate(t, b)
      PROVE  Aligned'
  <2>1. b \in Block /\ <<b.bytes, b.align>> \in Request /\ b.addr % b.align = 0
    BY DEF Spaced, HeldOK, Aligned, HeldAligned
  <2>2. b.addr \in Nat /\ b.align \in Alignments
    BY <2>1, Rooms
  <2>3. PICK c \in Class : c = SlabClass(b.bytes)
    <3>1. PICK q \in Request : q = <<b.bytes, b.align>> /\ q[1] = b.bytes
      BY <2>1
    <3> QED
      BY <3>1
  <2>4. /\ freelist' = [freelist EXCEPT ![t][c] = Append(@, <<b.align, b.addr>>)]
        /\ live' = live \ {b}
    BY <1>3, <2>3 DEF Deallocate
  <2>5. freelist[t][c] \in Seq(Alignments \X Nat) /\ <<b.align, b.addr>> \in Alignments \X Nat
    BY <2>2 DEF Spaced, Shape
  <2>6. /\ freelist'[t][c] = Append(freelist[t][c], <<b.align, b.addr>>)
        /\ \A u \in Thread, d \in Class :
             <<u, d>> # <<t, c>> => freelist'[u][d] = freelist[u][d]
    BY <2>4 DEF Spaced, Shape
  <2>7. ASSUME NEW u \in Thread, NEW d \in Class, NEW j \in Place(u, d)'
        PROVE  \/ j \in Place(u, d) /\ freelist'[u][d][j] = freelist[u][d][j]
               \/ freelist'[u][d][j] = <<b.align, b.addr>>
    <3>1. CASE u = t /\ d = c
      <4>1. PICK n \in Nat : n = Len(freelist[t][c])
        BY <2>5
      <4>2. /\ Len(freelist'[t][c]) = n + 1 /\ freelist'[t][c][n + 1] = <<b.align, b.addr>>
            /\ \A i \in 1 .. n : freelist'[t][c][i] = freelist[t][c][i]
        BY <2>5, <2>6, <4>1
      <4>3. j \in 1 .. n + 1
        BY <3>1, <4>2 DEF Place
      <4>4. j \in 1 .. n \/ j = n + 1
        BY <4>3
      <4> QED
        BY <3>1, <4>1, <4>2, <4>4 DEF Place
    <3>2. CASE <<u, d>> # <<t, c>>
      BY <2>6, <3>2 DEF Place
    <3> QED
      BY <3>1, <3>2
  <2>8. ListedAligned'
    <3> SUFFICES ASSUME NEW u \in Thread, NEW d \in Class, NEW j \in Place(u, d)'
                 PROVE  freelist'[u][d][j][2] % freelist'[u][d][j][1] = 0
      BY DEF ListedAligned, AddrAt, AlignAt
    <3>1. CASE j \in Place(u, d) /\ freelist'[u][d][j] = freelist[u][d][j]
      BY <3>1 DEF Aligned, ListedAligned, AddrAt, AlignAt
    <3>2. CASE freelist'[u][d][j] = <<b.align, b.addr>>
      BY <2>1, <3>2
    <3> QED
      BY <2>7, <3>1, <3>2
  <2> QED
    BY <2>4, <2>8 DEF Aligned, HeldAligned
<1>4. ASSUME UNCHANGED <<freelist, live>> PROVE Aligned'
  BY <1>4 DEF Aligned, HeldAligned, ListedAligned, Place, AddrAt, AlignAt
<1>5. ASSUME NEW t \in Thread, NEW r \in Resource, NEW q \in Request,
             AllocateAsserts(t, r, q) \/ AllocateMiss(t, r, q)
      PROVE  UNCHANGED <<freelist, live>>
  BY <1>5 DEF AllocateAsserts, AllocateMiss, callerVars
<1>6. ASSUME NEW t \in Thread, BumpOom(t) \/ BumpRetry(t) PROVE UNCHANGED <<freelist, live>>
  BY <1>6 DEF BumpOom, BumpRetry, callerVars
<1>7. UNCHANGED vars => UNCHANGED <<freelist, live>>
  BY DEF vars, callerVars
<1> QED
  BY <1>1, <1>2, <1>3, <1>4, <1>5, <1>6, <1>7 DEF Next

\* If the sizes are multiples of their alignments as well, every block has its
\* alignment and lies inside the arena of its resource.
THEOREM MemoryIsAsAsked ==
  ASSUME WellSized, SizesAligned, AlignmentsNest PROVE Spec => []BlocksAsAsked
<1>1. Init => Aligned
  <2>1. Init => \A t \in Thread, c \in Class : Place(t, c) = {}
    BY DEF Init, Place
  <2> QED
    BY <2>1 DEF Init, Aligned, HeldAligned, ListedAligned
<1>2. Spaced /\ Aligned /\ [Next]_vars => Aligned'
  BY AlignedNext
<1>3. Spaced /\ Aligned => BlocksAsAsked
  <2> SUFFICES ASSUME Spaced, HeldAligned, NEW b \in live
               PROVE  Extent(b) \subseteq Base[b.res] .. Base[b.res] + Bytes - 1
    BY DEF BlocksAsAsked, Aligned, HeldAligned
  <2>1. b \in Block /\ <<b.bytes, b.align>> \in Request /\ HandedOut(b.addr, Room(b))
    BY DEF Spaced, HeldOK
  <2>2. /\ b.addr \in Nat /\ b.bytes \in Nat /\ b.res \in Resource
        /\ Room(b) \in Nat /\ b.bytes <= Room(b)
    BY <2>1, Rooms DEF Block
  <2>3. /\ Base[b.res] \in Nat /\ head[b.res] \in Nat /\ Base[b.res] <= head[b.res]
    BY <2>2 DEF Spaced, Shape
  <2>4. head[b.res] <= b.addr /\ b.addr + Room(b) <= Base[b.res] + Bytes
    BY <2>1, <2>2 DEF HandedOut
  <2>5. Base[b.res] <= b.addr /\ b.addr + b.bytes <= Base[b.res] + Bytes
    BY <2>2, <2>3, <2>4
  <2> QED
    BY <2>2, <2>3, <2>5 DEF Extent
<1> QED
  BY <1>1, <1>2, <1>3, SpacedInvariant, PTL DEF Spec

\* That hypothesis is needed: a size that is no multiple of its alignment (80
\* bytes at 64) gives a misaligned block whenever it is cut from the arena, as
\* line 88 goes down by the size after it has aligned the head.
THEOREM OtherSizesMisalign ==
  ASSUME Shape, NEW t \in Thread, BumpSwap(t),
         Needed(req[t][2]) % req[t][2][2] # 0
  PROVE  ~BlocksAsAsked'
<1>1. pc[t] = "bump" /\ req[t] \in Resource \X Request
  BY DEF BumpSwap, Shape
<1>2. PICK r \in Resource, q \in Request : r = req[t][1] /\ q = req[t][2]
  BY <1>1
<1>3. PICK e \in Nat : e = expected[t]
  BY <1>2 DEF BumpSwap, Shape
<1>4. PICK n \in Nat, a \in Nat \ {0} : n = Needed(q) /\ a = q[2] /\ n % a # 0
  BY <1>2, Needs, Requests
<1>5. PICK x \in Int : x = Desired(t) /\ x = e - (e % a) - n
  <2>1. e - (e % a) - n \in Int
    BY <1>4, Quotient
  <2> QED
    BY <1>2, <1>3, <1>4, <2>1 DEF Desired
<1>6. x \in Nat
  BY <1>2, <1>5 DEF BumpSwap
<1>7. x % a # 0
  <2> SUFFICES ASSUME x % a = 0 PROVE FALSE
    OBVIOUS
  <2>1. e = a * (e \div a) + (e % a) /\ e \div a \in Int /\ e % a \in Nat
    BY Quotient
  <2>2. x = a * (x \div a) /\ x \div a \in Int
    BY <1>6, Quotient
  <2>3. n = a * ((e \div a) - (x \div a)) /\ (e \div a) - (x \div a) \in Int
    BY <1>5, <2>1, <2>2
  <2>4. n % a = 0
    BY <2>3, Multiple
  <2> QED
    BY <1>4, <2>4
<1>8. BlockOf(r, x, q) \in live'
  BY <1>2, <1>5 DEF BumpSwap
<1>9. BlockOf(r, x, q).addr = x /\ BlockOf(r, x, q).align = a
  BY <1>4 DEF BlockOf
<1> QED
  BY <1>7, <1>8, <1>9 DEF BlocksAsAsked

-----------------------------------------------------------------------------
(* Zeroing                                                                 *)

\* If memset clears no more than the freed block was long, it touches nobody's
\* block.
THEOREM ZeroingIsPrivate ==
  ASSUME WellSized, ZeroingFits PROVE Spec => []NothingOverwritten
<1>1. ASSUME Spaced, NothingOverwritten, NEW t \in Thread, NEW r \in Resource,
             NEW q \in Request, AllocateReuse(t, r, q)
      PROVE  NothingOverwritten'
  <2>1. PICK c \in Class, k \in Place(t, SlabClass(Needed(q))) :
          /\ c = SlabClass(Needed(q)) /\ q[2] <= AlignAt(t, c, k)
          /\ overwritten' = overwritten \cup
               {b \in live : Touches(b, AddrAt(t, c, k), ZeroedBytes(q))}
    BY <1>1, Taken DEF Spaced
  <2>2. PICK a \in Nat, x \in Nat : a = AlignAt(t, c, k) /\ x = AddrAt(t, c, k)
    BY <1>1, <2>1, Entries, Alignment DEF Spaced
  <2>3. Filed(c, a) # {} /\ q[2] <= a
    BY <1>1, <2>1, <2>2 DEF Spaced, ListedOK
  <2>4. PICK m \in Nat : m = Slab(c, a)
    BY <2>3, Slabs
  <2>5. PICK z \in Nat : z = ZeroedBytes(q) /\ z <= m
    <3>1. ZeroedBytes(q) \in 0 .. m
      BY <2>1, <2>3, <2>4, Found DEF WellSized
    <3> QED
      BY <3>1
  <2>6. ASSUME NEW b \in live PROVE ~Touches(b, x, z)
    <3>1. /\ b.addr \in Nat /\ b.bytes \in Nat /\ Room(b) \in Nat /\ b.bytes <= Room(b)
      BY <1>1, Rooms DEF Spaced, HeldOK
    <3>2. Apart(b.addr, Room(b), x, m)
      BY <1>1, <2>1, <2>2, <2>4 DEF Spaced, FreeApart, RoomAt, AlignAt
    <3> QED
      BY <2>5, <3>1, <3>2 DEF Apart, Touches
  <2> QED
    BY <1>1, <2>1, <2>2, <2>5, <2>6 DEF NothingOverwritten
<1>2. Spaced /\ NothingOverwritten /\ [Next]_vars => NothingOverwritten'
  BY <1>1 DEF Next, vars, callerVars, AllocateAsserts, AllocateMiss, BumpOom, BumpSwap,
     BumpRetry, Deallocate, NothingOverwritten
<1>3. Init => NothingOverwritten
  BY DEF Init, NothingOverwritten
<1> QED
  BY <1>2, <1>3, SpacedInvariant, PTL DEF Spec

=============================================================================
