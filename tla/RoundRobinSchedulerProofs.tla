--------------------- MODULE RoundRobinSchedulerProofs ---------------------
(* The list of RoundRobinScheduler is one circle, and its coroutines take  *)
(* turns: proved for any number of coroutines and any lifetimes of them.   *)
EXTENDS RoundRobinScheduler, FiniteSetTheorems, NaturalsInduction, WellFoundedInduction, TLAPS

\* e numbers the n wrappers in S as the links connect them, and the last one is
\* connected with the first.
Ring(e, n, S, nx, pv) ==
  /\ e \in [0 .. n - 1 -> S]
  /\ \A s \in S : \E k \in 0 .. n - 1 : e[k] = s
  /\ \A j, k \in 0 .. n - 1 : e[j] = e[k] => j = k
  /\ \A k \in 0 .. n - 2 : nx[e[k]] = e[k + 1] /\ pv[e[k + 1]] = e[k]
  /\ nx[e[n - 1]] = e[0] /\ pv[e[0]] = e[n - 1]

\* Whoever has passed another one comes after it.
Ordered(e, n, ps) ==
  \A j, k \in 0 .. n - 1 : (j # k /\ e[k] \in ps[e[j]]) => j < k

\* There is such a numbering, and it starts with x.
Numbered(x, n, S, nx, pv, ps) ==
  \E e \in [0 .. n - 1 -> S] : Ring(e, n, S, nx, pv) /\ e[0] = x /\ Ordered(e, n, ps)

\* The circle, numbered from curr_ on.
Circle ==
  listed # {} =>
    /\ task_count \in Nat \ {0} /\ curr \in listed /\ last \in listed
    /\ Numbered(curr, task_count, listed, next, prev, passed)

Counted ==
  /\ IsFiniteSet(listed) /\ task_count = Cardinality(listed)
  /\ (curr = Null) <=> (listed = {})

\* A coroutine that was never scheduled has passed nobody, and nobody has passed it.
Unseen ==
  \A c \in Coro : next[c] = Null => passed[c] = {} /\ \A d \in Coro : c \notin passed[d]

SchedulerInv == TypeOK /\ Circle /\ Counted /\ Unseen

-----------------------------------------------------------------------------
(* What the operations on the list do to its numbering.                    *)

\* A new wrapper goes behind the one that is l.
LEMMA InsertRing ==
  ASSUME NEW S \in SUBSET Coro, NEW n \in Nat \ {0}, NEW e,
         NEW nx \in [Coro -> Coro \cup {Null}], NEW pv \in [Coro -> Coro \cup {Null}],
         Ring(e, n, S, nx, pv), NEW l \in S, NEW c \in Coro, c \notin S,
         NEW nx2, nx2 = [nx EXCEPT ![c] = nx[l], ![l] = c],
         NEW pv2, pv2 = [pv EXCEPT ![c] = l, ![nx[l]] = c],
         NEW ps \in [Coro -> SUBSET Coro], Ordered(e, n, ps),
         ps[c] = {}, \A d \in Coro : c \notin ps[d]
  PROVE  Numbered(e[0], n + 1, S \cup {c}, nx2, pv2, ps)
<1>1. PICK j \in 0 .. n - 1 : e[j] = l
  BY DEF Ring
<1>2. e \in [0 .. n - 1 -> S] /\ \A i, k \in 0 .. n - 1 : e[i] = e[k] => i = k
  BY DEF Ring
<1>3. PICK f : f = [k \in 0 .. n |-> IF k <= j THEN e[k] ELSE IF k = j + 1 THEN c ELSE e[k - 1]]
  OBVIOUS
<1>4. f \in [0 .. n -> S \cup {c}] /\ f[0] = e[0]
  BY <1>2, <1>3
<1>5. /\ \A k \in 0 .. j : f[k] = e[k] /\ k \in 0 .. n - 1
      /\ f[j + 1] = c /\ j + 1 \in 0 .. n
      /\ \A k \in j + 2 .. n : f[k] = e[k - 1] /\ k - 1 \in 0 .. n - 1
  BY <1>3
<1>6. nx[l] \in S
  <2>1. CASE j = n - 1
    BY <1>1, <1>2, <2>1 DEF Ring
  <2>2. CASE j # n - 1
    <3>1. nx[e[j]] = e[j + 1] /\ j + 1 \in 0 .. n - 1
      BY <1>1, <2>2 DEF Ring
    <3> QED BY <1>1, <1>2, <3>1
  <2> QED BY <2>1, <2>2
<1>7. /\ nx2[c] = nx[l] /\ nx2[l] = c /\ \A d \in S \ {l} : nx2[d] = nx[d]
      /\ pv2[c] = l /\ pv2[nx[l]] = c /\ \A d \in S \ {nx[l]} : pv2[d] = pv[d]
  BY <1>6
<1>8. \A s \in S \cup {c} : \E k \in 0 .. n : f[k] = s
  <2>1. SUFFICES ASSUME NEW s \in S PROVE \E k \in 0 .. n : f[k] = s
    BY <1>5
  <2>2. PICK k \in 0 .. n - 1 : e[k] = s
    BY DEF Ring
  <2>3. CASE k <= j
    BY <1>5, <2>2, <2>3
  <2>4. CASE k > j
    <3>1. k + 1 \in j + 2 .. n /\ (k + 1) - 1 = k
      BY <2>4
    <3> QED BY <1>5, <2>2, <3>1
  <2> QED BY <2>3, <2>4
<1>9. \A i, k \in 0 .. n : f[i] = f[k] => i = k
  <2>1. SUFFICES ASSUME NEW i \in 0 .. n, NEW k \in 0 .. n, f[i] = f[k] PROVE i = k
    OBVIOUS
  <2>2. \A m \in 0 .. n : m = j + 1 \/ (m \in 0 .. j /\ f[m] = e[m]) \/ (m \in j + 2 .. n /\ f[m] = e[m - 1])
    BY <1>5
  <2>3. \A m \in 0 .. n : f[m] = c => m = j + 1
    BY <1>2, <1>5, <2>2
  <2>4. CASE i = j + 1 \/ k = j + 1
    BY <1>5, <2>1, <2>3, <2>4
  <2>5. CASE i # j + 1 /\ k # j + 1
    BY <1>2, <1>5, <2>1, <2>2, <2>5
  <2> QED BY <2>4, <2>5
<1>10. \A k \in 0 .. n - 1 : nx2[f[k]] = f[k + 1] /\ pv2[f[k + 1]] = f[k]
  <2>1. SUFFICES ASSUME NEW k \in 0 .. n - 1
                 PROVE  nx2[f[k]] = f[k + 1] /\ pv2[f[k + 1]] = f[k]
    OBVIOUS
  <2>2. CASE k < j
    <3>1. /\ f[k] = e[k] /\ f[k + 1] = e[k + 1] /\ k + 1 \in 0 .. n - 1 /\ k \in 0 .. n - 2
          /\ nx[e[k]] = e[k + 1] /\ pv[e[k + 1]] = e[k]
      BY <1>5, <2>2 DEF Ring
    <3>2. e[k] \in S \ {l}
      BY <1>1, <1>2, <2>2
    <3>3. e[k + 1] \in S \ {nx[l]}
      <4>1. CASE j = n - 1
        BY <1>1, <1>2, <3>1, <4>1 DEF Ring
      <4>2. CASE j # n - 1
        <5>1. nx[l] = e[j + 1] /\ j + 1 \in 0 .. n - 1
          BY <1>1, <4>2 DEF Ring
        <5> QED BY <1>2, <2>2, <3>1, <5>1
      <4> QED BY <4>1, <4>2
    <3> QED BY <1>7, <3>1, <3>2, <3>3
  <2>3. CASE k = j
    BY <1>1, <1>5, <1>7, <2>3
  <2>4. CASE k = j + 1
    <3>1. j # n - 1 /\ nx[l] = e[j + 1] /\ k + 1 \in j + 2 .. n /\ (k + 1) - 1 = j + 1
      BY <1>1, <2>4 DEF Ring
    <3> QED BY <1>5, <1>7, <2>4, <3>1
  <2>5. CASE k > j + 1
    <3>1. /\ k \in j + 2 .. n /\ k + 1 \in j + 2 .. n /\ (k + 1) - 1 = k /\ k - 1 \in 0 .. n - 2
          /\ (k - 1) + 1 = k
      BY <2>5
    <3>2. /\ f[k] = e[k - 1] /\ f[k + 1] = e[k]
          /\ nx[e[k - 1]] = e[k] /\ pv[e[k]] = e[k - 1]
      BY <1>5, <3>1 DEF Ring
    <3>3. e[k - 1] \in S \ {l}
      BY <1>1, <1>2, <2>5, <3>1
    <3>4. e[k] \in S \ {nx[l]}
      <4>1. nx[l] = e[j + 1] /\ j + 1 \in 0 .. n - 1
        BY <1>1, <2>5 DEF Ring
      <4> QED BY <1>2, <2>5, <4>1
    <3> QED BY <1>7, <3>2, <3>3, <3>4
  <2> QED BY <2>2, <2>3, <2>4, <2>5
<1>11. nx2[f[n]] = f[0] /\ pv2[f[0]] = f[n]
  <2>1. CASE j = n - 1
    <3>1. f[n] = c /\ nx[l] = e[0]
      BY <1>1, <1>5, <2>1 DEF Ring
    <3> QED BY <1>4, <1>7, <3>1
  <2>2. CASE j # n - 1
    <3>1. f[n] = e[n - 1] /\ nx[e[n - 1]] = e[0] /\ pv[e[0]] = e[n - 1]
      BY <1>5, <2>2 DEF Ring
    <3>2. e[n - 1] \in S \ {l}
      BY <1>1, <1>2, <2>2
    <3>3. e[0] \in S \ {nx[l]}
      <4>1. nx[l] = e[j + 1] /\ j + 1 \in 0 .. n - 1 /\ j + 1 # 0
        BY <1>1, <2>2 DEF Ring
      <4> QED BY <1>2, <4>1
    <3> QED BY <1>4, <1>7, <3>1, <3>2, <3>3
  <2> QED BY <2>1, <2>2
<1>12. Ring(f, n + 1, S \cup {c}, nx2, pv2)
  <2>1. (n + 1) - 1 = n /\ (n + 1) - 2 = n - 1
    OBVIOUS
  <2> QED BY <1>4, <1>8, <1>9, <1>10, <1>11, <2>1 DEF Ring
<1>13. Ordered(f, n + 1, ps)
  <2>1. SUFFICES ASSUME NEW i \in 0 .. n, NEW k \in 0 .. n, i # k, f[k] \in ps[f[i]] PROVE i < k
    BY DEF Ordered
  <2>2. f[i] \in Coro /\ f[k] # c /\ f[i] # c
    BY <1>4, <2>1
  <2>3. i # j + 1 /\ k # j + 1
    BY <1>5, <2>2
  <2>4. PICK i0 \in 0 .. n - 1, k0 \in 0 .. n - 1 :
          /\ f[i] = e[i0] /\ f[k] = e[k0]
          /\ i0 = (IF i <= j THEN i ELSE i - 1) /\ k0 = (IF k <= j THEN k ELSE k - 1)
    BY <1>5, <2>3
  <2>5. i0 # k0
    BY <2>1, <2>3, <2>4
  <2>6. i0 < k0
    BY <2>1, <2>4, <2>5 DEF Ordered
  <2> QED BY <2>3, <2>4, <2>6
<1>14. f \in [0 .. (n + 1) - 1 -> S \cup {c}]
  BY <1>12 DEF Ring
<1> QED BY <1>4, <1>12, <1>13, <1>14 DEF Numbered

\* curr_ goes on by one wrapper: the one it leaves is now the last, and may have
\* passed everybody.
LEMMA AdvanceRing ==
  ASSUME NEW S \in SUBSET Coro, NEW n \in Nat \ {0}, NEW e, NEW nx, NEW pv,
         Ring(e, n, S, nx, pv),
         NEW ps \in [Coro -> SUBSET Coro], Ordered(e, n, ps),
         NEW ps2, ps2[e[0]] = {}, \A c \in S : ps2[c] \subseteq ps[c] \cup {e[0]}
  PROVE  Numbered(nx[e[0]], n, S, nx, pv, ps2)
<1>1. e \in [0 .. n - 1 -> S] /\ \A i, k \in 0 .. n - 1 : e[i] = e[k] => i = k
  BY DEF Ring
<1>2. PICK f : f = [k \in 0 .. n - 1 |-> IF k = n - 1 THEN e[0] ELSE e[k + 1]]
  OBVIOUS
<1>3. f \in [0 .. n - 1 -> S] /\ f[n - 1] = e[0] /\ \A k \in 0 .. n - 2 : f[k] = e[k + 1]
  BY <1>1, <1>2
<1>4. f[0] = nx[e[0]]
  <2>1. CASE n = 1
    BY <1>3, <2>1 DEF Ring
  <2>2. CASE n # 1
    BY <1>3, <2>2 DEF Ring
  <2> QED BY <2>1, <2>2
<1>5. \A s \in S : \E k \in 0 .. n - 1 : f[k] = s
  <2>1. SUFFICES ASSUME NEW s \in S PROVE \E k \in 0 .. n - 1 : f[k] = s
    OBVIOUS
  <2>2. PICK k \in 0 .. n - 1 : e[k] = s
    BY DEF Ring
  <2>3. CASE k = 0
    BY <1>3, <2>2, <2>3
  <2>4. CASE k # 0
    <3>1. k - 1 \in 0 .. n - 2 /\ k - 1 \in 0 .. n - 1 /\ (k - 1) + 1 = k
      BY <2>4
    <3> QED BY <1>3, <2>2, <3>1
  <2> QED BY <2>3, <2>4
<1>6. \A i, k \in 0 .. n - 1 : f[i] = f[k] => i = k
  BY <1>1, <1>2
<1>7. \A k \in 0 .. n - 2 : nx[f[k]] = f[k + 1] /\ pv[f[k + 1]] = f[k]
  <2>1. SUFFICES ASSUME NEW k \in 0 .. n - 2 PROVE nx[f[k]] = f[k + 1] /\ pv[f[k + 1]] = f[k]
    OBVIOUS
  <2>2. CASE k = n - 2
    <3>1. f[k] = e[n - 1] /\ f[k + 1] = e[0]
      BY <1>3, <2>2
    <3> QED BY <3>1 DEF Ring
  <2>3. CASE k # n - 2
    <3>1. k + 1 \in 0 .. n - 2 /\ f[k] = e[k + 1] /\ f[k + 1] = e[(k + 1) + 1]
      BY <1>3, <2>3
    <3> QED BY <3>1 DEF Ring
  <2> QED BY <2>2, <2>3
<1>8. nx[f[n - 1]] = f[0] /\ pv[f[0]] = f[n - 1]
  <2>1. CASE n = 1
    BY <1>3, <2>1 DEF Ring
  <2>2. CASE n # 1
    BY <1>3, <2>2 DEF Ring
  <2> QED BY <2>1, <2>2
<1>9. Ring(f, n, S, nx, pv)
  BY <1>3, <1>5, <1>6, <1>7, <1>8 DEF Ring
<1>10. Ordered(f, n, ps2)
  <2>1. SUFFICES ASSUME NEW i \in 0 .. n - 1, NEW k \in 0 .. n - 1, i # k, f[k] \in ps2[f[i]]
                 PROVE  i < k
    BY DEF Ordered
  <2>2. i # n - 1 /\ f[i] \in S
    BY <1>3, <2>1
  <2>3. CASE k = n - 1
    BY <2>2, <2>3
  <2>4. CASE k # n - 1
    <3>1. /\ f[k] = e[k + 1] /\ f[i] = e[i + 1] /\ k + 1 \in 0 .. n - 1 /\ i + 1 \in 0 .. n - 1
          /\ k + 1 # 0
      BY <1>3, <2>2, <2>4
    <3>2. f[k] # e[0]
      BY <1>1, <3>1
    <3>3. e[k + 1] \in ps[e[i + 1]] /\ i + 1 # k + 1
      BY <2>1, <2>2, <3>1, <3>2
    <3>4. i + 1 < k + 1
      BY <3>1, <3>3 DEF Ordered
    <3> QED BY <3>4
  <2> QED BY <2>3, <2>4
<1> QED BY <1>3, <1>4, <1>9, <1>10 DEF Numbered

\* The neighbours of h are linked with each other.
Bypassed(h, S, nx, pv, nx2, pv2) ==
  \A d \in S : /\ nx2[d] = IF d = pv[h] THEN nx[h] ELSE nx[d]
              /\ pv2[d] = IF d = nx[h] THEN pv[h] ELSE pv[d]

\* The first wrapper is taken out, and it is not the only one.
LEMMA RemoveRing ==
  ASSUME NEW S \in SUBSET Coro, NEW n \in Nat \ {0}, NEW e, NEW h, h = e[0],
         NEW nx, NEW pv, Ring(e, n, S, nx, pv), nx[h] # h,
         NEW nx2, NEW pv2, Bypassed(h, S, nx, pv, nx2, pv2),
         NEW ps, Ordered(e, n, ps)
  PROVE  /\ n # 1 /\ nx[h] \in S \ {h} /\ pv[h] \in S \ {h}
         /\ Numbered(nx[h], n - 1, S \ {h}, nx2, pv2, ps)
<1>1. e \in [0 .. n - 1 -> S] /\ \A i, k \in 0 .. n - 1 : e[i] = e[k] => i = k
  BY DEF Ring
<1>2. n # 1
  BY DEF Ring
<1>3. nx[e[0]] = e[1] /\ pv[e[0]] = e[n - 1] /\ pv[e[1]] = e[0] /\ nx[e[n - 1]] = e[0]
  BY <1>2 DEF Ring
<1>4. PICK f : f = [k \in 0 .. n - 2 |-> e[k + 1]]
  OBVIOUS
<1>5. \A k \in 0 .. n - 2 : f[k] = e[k + 1] /\ e[k + 1] \in S \ {e[0]}
  BY <1>1, <1>4
<1>6. f \in [0 .. n - 2 -> S \ {e[0]}]
  BY <1>4, <1>5
<1>7. /\ nx2[e[n - 1]] = e[1] /\ \A d \in S \ {e[n - 1]} : nx2[d] = nx[d]
      /\ pv2[e[1]] = e[n - 1] /\ \A d \in S \ {e[1]} : pv2[d] = pv[d]
  BY <1>1, <1>2, <1>3 DEF Bypassed
<1>8. \A s \in S \ {e[0]} : \E k \in 0 .. n - 2 : f[k] = s
  <2>1. SUFFICES ASSUME NEW s \in S \ {e[0]} PROVE \E k \in 0 .. n - 2 : f[k] = s
    OBVIOUS
  <2>2. PICK k \in 0 .. n - 1 : e[k] = s
    BY DEF Ring
  <2>3. k # 0 /\ k - 1 \in 0 .. n - 2 /\ (k - 1) + 1 = k
    BY <2>2
  <2> QED BY <1>5, <2>2, <2>3
<1>9. \A i, k \in 0 .. n - 2 : f[i] = f[k] => i = k
  BY <1>1, <1>5
<1>10. \A k \in 0 .. n - 3 : nx2[f[k]] = f[k + 1] /\ pv2[f[k + 1]] = f[k]
  <2>1. SUFFICES ASSUME NEW k \in 0 .. n - 3
                 PROVE  nx2[f[k]] = f[k + 1] /\ pv2[f[k + 1]] = f[k]
    OBVIOUS
  <2>2. f[k] = e[k + 1] /\ f[k + 1] = e[(k + 1) + 1] /\ k + 1 \in 0 .. n - 2
    BY <1>5
  <2>3. nx[e[k + 1]] = e[(k + 1) + 1] /\ pv[e[(k + 1) + 1]] = e[k + 1]
    BY <2>2 DEF Ring
  <2>4. e[k + 1] \in S \ {e[n - 1]} /\ e[(k + 1) + 1] \in S \ {e[1]}
    <3>1. k + 1 # n - 1 /\ (k + 1) + 1 # 1 /\ (k + 1) + 1 \in 0 .. n - 1 /\ k + 1 \in 0 .. n - 1
      OBVIOUS
    <3> QED BY <1>1, <1>2, <3>1
  <2> QED BY <1>7, <2>2, <2>3, <2>4
<1>11. nx2[f[n - 2]] = f[0] /\ pv2[f[0]] = f[n - 2]
  <2>1. f[n - 2] = e[n - 1] /\ f[0] = e[1]
    BY <1>2, <1>5
  <2> QED BY <1>7, <2>1
<1>12. Ring(f, n - 1, S \ {e[0]}, nx2, pv2)
  <2>1. n - 1 - 1 = n - 2 /\ n - 1 - 2 = n - 3
    OBVIOUS
  <2> QED BY <1>6, <1>8, <1>9, <1>10, <1>11, <2>1 DEF Ring
<1>13. Ordered(f, n - 1, ps)
  <2>1. SUFFICES ASSUME NEW i \in 0 .. n - 2, NEW k \in 0 .. n - 2, i # k, f[k] \in ps[f[i]]
                 PROVE  i < k
    BY DEF Ordered
  <2>2. /\ f[k] = e[k + 1] /\ f[i] = e[i + 1] /\ i + 1 # k + 1
        /\ k + 1 \in 0 .. n - 1 /\ i + 1 \in 0 .. n - 1
    BY <1>5, <2>1
  <2>3. i + 1 < k + 1
    BY <2>1, <2>2 DEF Ordered
  <2> QED BY <2>3
<1>14. e[1] \in S \ {e[0]} /\ e[n - 1] \in S \ {e[0]}
  BY <1>1, <1>2
<1>15. Numbered(nx[h], n - 1, S \ {h}, nx2, pv2, ps)
  <2>1. f \in [0 .. (n - 1) - 1 -> S \ {h}] /\ f[0] = nx[h]
    BY <1>2, <1>3, <1>5, <1>12 DEF Ring
  <2> QED BY <1>12, <1>13, <2>1 DEF Numbered
<1> QED BY <1>2, <1>3, <1>14, <1>15

\* The first wrapper of an empty list is linked with itself.
LEMMA FirstRing ==
  ASSUME NEW c \in Coro, NEW nx, nx[c] = c, NEW pv, pv[c] = c, NEW ps
  PROVE  Numbered(c, 1, {c}, nx, pv, ps)
<1>1. PICK f : f = [k \in 0 .. 0 |-> c]
  OBVIOUS
<1>2. f \in [0 .. 0 -> {c}] /\ f[0] = c
  BY <1>1
<1>3. 1 - 1 = 0 /\ 0 .. 0 = {0} /\ 0 .. 1 - 2 = {}
  OBVIOUS
<1>4. Ring(f, 1, {c}, nx, pv)
  BY <1>2, <1>3 DEF Ring
<1>5. Ordered(f, 1, ps)
  BY <1>3 DEF Ordered
<1> QED BY <1>2, <1>3, <1>4, <1>5 DEF Numbered

-----------------------------------------------------------------------------
(* The inductive invariant.                                                *)

LEMMA InitSchedulerInv == Init => SchedulerInv
<1> SUFFICES ASSUME Init PROVE SchedulerInv
  OBVIOUS
<1>1. TypeOK
  <2>1. canceled \in BOOLEAN /\ running \in BOOLEAN
    BY DEF Init
  <2>2. /\ next \in [Coro -> Coro \cup {Null}] /\ prev \in [Coro -> Coro \cup {Null}]
        /\ left \in [Coro -> Int] /\ passed \in [Coro -> SUBSET Coro]
        /\ listed = {} /\ curr = Null /\ last = Null /\ task_count \in Nat /\ cancel = "idle"
    BY SchedulerAssumption DEF Init
  <2> QED BY <2>1, <2>2 DEF TypeOK
<1>2. Counted
  BY FS_EmptySet DEF Init, Counted
<1> QED BY <1>1, <1>2 DEF Init, SchedulerInv, Circle, Unseen

\* Schedule, and what a coroutine that schedules another does to the list.
LEMMA LinkFacts ==
  ASSUME SchedulerInv, NEW c \in Coro, Fresh(c), Link(c)
  PROVE  /\ next' \in [Coro -> Coro \cup {Null}] /\ prev' \in [Coro -> Coro \cup {Null}]
         /\ listed' = listed \cup {c} /\ listed' \subseteq Coro /\ last' = c
         /\ \A d \in listed' : next'[d] \in listed' /\ prev'[d] \in listed'
         /\ \A d \in Coro : next'[d] = Null => next[d] = Null
         /\ task_count' \in Nat \ {0}
         /\ IsFiniteSet(listed') /\ task_count' = Cardinality(listed')
         /\ Numbered(IF curr = Null THEN c ELSE curr, task_count', listed', next', prev', passed)
<1>1. TypeOK /\ Counted /\ Circle /\ Unseen
  BY DEF SchedulerInv
<1>2. /\ next \in [Coro -> Coro \cup {Null}] /\ prev \in [Coro -> Coro \cup {Null}]
      /\ listed \subseteq Coro /\ task_count \in Nat /\ passed \in [Coro -> SUBSET Coro]
      /\ \A d \in listed : next[d] \in listed /\ prev[d] \in listed
  BY <1>1 DEF TypeOK
<1>3. c \notin listed /\ passed[c] = {} /\ \A d \in Coro : c \notin passed[d]
  BY <1>1 DEF Fresh, Unseen
<1>4. listed' = listed \cup {c} /\ last' = c /\ task_count' = task_count + 1
  BY DEF Link
<1>5. IsFiniteSet(listed') /\ task_count' = Cardinality(listed')
  BY <1>1, <1>3, <1>4, FS_AddElement DEF Counted
<1>6. Null \notin Coro
  BY SchedulerAssumption
<1>7. CASE curr = Null
  <2>1. listed = {} /\ task_count = 0
    BY <1>1, <1>7, FS_EmptySet DEF Counted
  <2>2. next' = [next EXCEPT ![c] = c] /\ prev' = [prev EXCEPT ![c] = c]
    BY <1>7 DEF Link
  <2>3. /\ next' \in [Coro -> Coro \cup {Null}] /\ prev' \in [Coro -> Coro \cup {Null}]
        /\ next'[c] = c /\ prev'[c] = c /\ \A d \in Coro : next'[d] = Null => next[d] = Null
    BY <1>2, <1>6, <2>2
  <2>4. Numbered(c, 1, {c}, next', prev', passed)
    BY <2>3, FirstRing
  <2>5. task_count' = 1 /\ listed' = {c}
    BY <1>4, <2>1
  <2>6. Numbered(IF curr = Null THEN c ELSE curr, task_count', listed', next', prev', passed)
    BY <1>7, <2>4, <2>5
  <2> QED BY <1>2, <1>4, <1>5, <2>3, <2>5, <2>6
<1>8. CASE curr # Null
  <2>1. listed # {} /\ task_count \in Nat \ {0} /\ last \in listed
    BY <1>1, <1>8 DEF Counted, Circle
  <2>2. PICK e : /\ Ring(e, task_count, listed, next, prev) /\ e[0] = curr
                 /\ Ordered(e, task_count, passed)
    BY <1>1, <2>1 DEF Circle, Numbered
  <2>3. /\ next' = [next EXCEPT ![c] = next[last], ![last] = c]
        /\ prev' = [prev EXCEPT ![c] = last, ![next[last]] = c]
    BY <1>8 DEF Link
  <2>4. next[last] \in listed /\ last \in Coro /\ next[last] \in Coro
    BY <1>2, <2>1
  <2>5. /\ next' \in [Coro -> Coro \cup {Null}] /\ prev' \in [Coro -> Coro \cup {Null}]
        /\ \A d \in Coro : next'[d] = Null => next[d] = Null
        /\ \A d \in listed' : next'[d] \in listed' /\ prev'[d] \in listed'
    <3>1. next' \in [Coro -> Coro \cup {Null}] /\ prev' \in [Coro -> Coro \cup {Null}]
      BY <1>2, <2>3, <2>4
    <3>2. \A d \in Coro : next'[d] = (IF d = last THEN c ELSE IF d = c THEN next[last] ELSE next[d])
      BY <1>2, <2>3, <2>4
    <3>3. \A d \in Coro : prev'[d] = (IF d = next[last] THEN c ELSE IF d = c THEN last ELSE prev[d])
      BY <1>2, <2>3, <2>4
    <3>4. \A d \in Coro : next'[d] = Null => next[d] = Null
      BY <1>6, <2>4, <3>2
    <3>5. \A d \in listed' : next'[d] \in listed'
      BY <1>2, <1>4, <2>4, <3>2
    <3>6. \A d \in listed' : prev'[d] \in listed'
      BY <1>2, <1>4, <2>1, <2>4, <3>3
    <3> QED BY <3>1, <3>4, <3>5, <3>6
  <2>6. Numbered(e[0], task_count + 1, listed \cup {c}, next', prev', passed)
    BY <1>2, <1>3, <2>1, <2>2, <2>3, InsertRing
  <2>7. task_count' \in Nat \ {0}
    BY <1>2, <1>4
  <2> QED BY <1>2, <1>4, <1>5, <1>8, <2>2, <2>5, <2>6, <2>7
<1> QED BY <1>7, <1>8

LEMMA SchedulePreserves ==
  ASSUME SchedulerInv, NEW c \in Coro, Schedule(c)
  PROVE  SchedulerInv'
<1>1. Fresh(c) /\ Link(c) /\ curr' = (IF curr = Null THEN c ELSE curr) /\ passed' = passed
  BY DEF Schedule
<1>2. TypeOK /\ Unseen
  BY DEF SchedulerInv
<1>3. curr' \in listed' /\ last' \in listed' /\ curr' # Null
  BY <1>1, <1>2, LinkFacts, SchedulerAssumption DEF TypeOK
<1>4. UNCHANGED <<canceled, left, running, cancel, passed>>
  BY DEF Schedule
<1>5. TypeOK'
  BY <1>1, <1>2, <1>3, <1>4, LinkFacts DEF TypeOK
<1>6. Circle'
  BY <1>1, <1>3, LinkFacts DEF Circle
<1>7. Counted'
  BY <1>1, <1>3, LinkFacts DEF Counted
<1>8. Unseen'
  BY <1>1, <1>2, LinkFacts DEF Unseen
<1> QED BY <1>5, <1>6, <1>7, <1>8 DEF SchedulerInv

\* The turn of curr_ clears what has passed it, and it passes the others.
LEMMA PassedFacts ==
  ASSUME SchedulerInv, curr \in listed
  PROVE  /\ Passed(curr) \in [Coro -> SUBSET Coro] /\ Passed(curr)[curr] = {}
         /\ \A c \in Coro : Passed(curr)[c] \subseteq passed[c] \cup {curr}
         /\ \A c \in Coro : next[c] = Null => /\ Passed(curr)[c] = {}
                                            /\ \A d \in Coro : c \notin Passed(curr)[d]
<1>1. TypeOK /\ Unseen
  BY DEF SchedulerInv
<1>2. listed \subseteq Coro /\ passed \in [Coro -> SUBSET Coro] /\ curr \in Coro
  BY <1>1 DEF TypeOK
<1>3. /\ Passed(curr) \in [Coro -> SUBSET Coro] /\ Passed(curr)[curr] = {}
      /\ \A c \in Coro : Passed(curr)[c] \subseteq passed[c] \cup {curr}
      /\ \A c \in Coro : c \notin listed => Passed(curr)[c] = (IF c = curr THEN {} ELSE passed[c])
  BY <1>2 DEF Passed
<1>4. \A c \in listed : next[c] # Null
  BY <1>1, SchedulerAssumption DEF TypeOK
<1>5. ASSUME NEW c \in Coro, next[c] = Null
      PROVE  Passed(curr)[c] = {} /\ \A d \in Coro : c \notin Passed(curr)[d]
  BY <1>1, <1>3, <1>4, <1>5 DEF Unseen
<1> QED BY <1>3, <1>5

LEMMA ResumePreserves ==
  ASSUME SchedulerInv, RunResume
  PROVE  SchedulerInv'
<1>1. TypeOK /\ Unseen /\ Circle /\ Counted
  BY DEF SchedulerInv
<1>2. /\ passed' = Passed(curr) /\ curr' = next[curr] /\ curr # Null
      /\ left' = [left EXCEPT ![curr] = @ - 1]
      /\ UNCHANGED <<next, prev, last, task_count, listed, canceled, running, cancel>>
  BY DEF RunResume, Advance
<1>3. curr \in listed /\ listed # {} /\ curr' \in listed' /\ curr' # Null
  BY <1>1, <1>2, SchedulerAssumption DEF TypeOK
<1>4. left' \in [Coro -> Int]
  BY <1>1, <1>2, <1>3 DEF TypeOK
<1>5. TypeOK'
  BY <1>1, <1>2, <1>3, <1>4, PassedFacts DEF TypeOK
<1>6. Circle'
  <2>1. task_count \in Nat \ {0} /\ last \in listed
    BY <1>1, <1>3 DEF Circle, Numbered
  <2>2. PICK e : /\ Ring(e, task_count, listed, next, prev) /\ e[0] = curr
                 /\ Ordered(e, task_count, passed)
    BY <1>1, <1>3 DEF Circle, Numbered
  <2>3. listed \in SUBSET Coro /\ passed \in [Coro -> SUBSET Coro]
    BY <1>1 DEF TypeOK
  <2>4. passed'[e[0]] = {} /\ \A c \in listed : passed'[c] \subseteq passed[c] \cup {e[0]}
    BY <1>2, <1>3, <2>2, <2>3, PassedFacts
  <2>5. Numbered(next[e[0]], task_count, listed, next, prev, passed')
    BY <2>1, <2>2, <2>3, <2>4, AdvanceRing
  <2> QED BY <1>2, <1>3, <2>1, <2>2, <2>5 DEF Circle
<1>7. Counted'
  BY <1>1, <1>2, <1>3 DEF Counted
<1>8. Unseen'
  BY <1>2, <1>3, PassedFacts DEF Unseen
<1> QED BY <1>5, <1>6, <1>7, <1>8 DEF SchedulerInv

LEMMA ResumeSchedulesPreserves ==
  ASSUME SchedulerInv, NEW c \in Coro, RunResumeSchedules(c)
  PROVE  SchedulerInv'
<1>1. TypeOK /\ Unseen /\ Circle /\ Counted
  BY DEF SchedulerInv
<1>2. /\ Fresh(c) /\ Link(c) /\ passed' = Passed(curr) /\ curr' = next'[curr] /\ curr # Null
      /\ left' = [left EXCEPT ![curr] = @ - 1]
      /\ UNCHANGED <<canceled, running, cancel>>
  BY DEF RunResumeSchedules, Advance
<1>3. curr \in listed /\ curr \in listed' /\ curr' \in listed' /\ curr' # Null
  BY <1>1, <1>2, LinkFacts, SchedulerAssumption DEF TypeOK
<1>4. left' \in [Coro -> Int]
  BY <1>1, <1>2, <1>3 DEF TypeOK
<1>5. last' \in listed' /\ listed' \in SUBSET Coro /\ task_count' \in Nat \ {0}
  BY <1>2, LinkFacts
<1>6. TypeOK'
  BY <1>1, <1>2, <1>3, <1>4, <1>5, LinkFacts, PassedFacts DEF TypeOK
<1>7. Circle'
  <2>1. PICK e : /\ Ring(e, task_count', listed', next', prev') /\ e[0] = curr
                 /\ Ordered(e, task_count', passed)
    BY <1>2, LinkFacts DEF Numbered
  <2>2. passed \in [Coro -> SUBSET Coro]
    BY <1>1 DEF TypeOK
  <2>3. passed'[e[0]] = {} /\ \A d \in listed' : passed'[d] \subseteq passed[d] \cup {e[0]}
    BY <1>2, <1>3, <1>5, <2>1, PassedFacts
  <2>4. Numbered(next'[e[0]], task_count', listed', next', prev', passed')
    BY <1>5, <2>1, <2>2, <2>3, AdvanceRing
  <2> QED BY <1>2, <1>3, <1>5, <2>1, <2>4 DEF Circle
<1>8. Counted'
  BY <1>2, <1>3, LinkFacts DEF Counted
<1>9. Unseen'
  BY <1>2, <1>3, LinkFacts, PassedFacts DEF Unseen
<1> QED BY <1>6, <1>7, <1>8, <1>9 DEF SchedulerInv

LEMMA LastPreserves ==
  ASSUME SchedulerInv, RunLast
  PROVE  SchedulerInv'
<1>1. TypeOK /\ Unseen /\ Circle /\ Counted
  BY DEF SchedulerInv
<1>2. /\ curr # Null /\ next[curr] = curr /\ task_count' = task_count - 1
      /\ listed' = listed \ {curr} /\ last' = Null /\ curr' = Null
      /\ UNCHANGED <<next, prev, canceled, left, running, cancel, passed>>
  BY DEF RunLast
<1>3. curr \in listed
  BY <1>1, <1>2 DEF TypeOK
<1>4. PICK e : Ring(e, task_count, listed, next, prev) /\ e[0] = curr
  BY <1>1, <1>3 DEF Circle, Numbered
<1>5. task_count = 1
  <2>1. task_count \in Nat \ {0}
    BY <1>1, <1>3 DEF Circle, Numbered
  <2>2. CASE task_count # 1
    <3>1. next[e[0]] = e[1] /\ e[1] # e[0]
      BY <1>4, <2>1, <2>2 DEF Ring
    <3> QED BY <1>2, <1>4, <3>1
  <2> QED BY <2>2
<1>6. listed = {curr}
  <2>1. 0 .. task_count - 1 = {0}
    BY <1>5
  <2> QED BY <1>3, <1>4, <2>1 DEF Ring
<1>7. listed' = {} /\ task_count' = 0
  BY <1>2, <1>5, <1>6
<1>8. TypeOK'
  BY <1>1, <1>2, <1>7 DEF TypeOK
<1>9. Circle' /\ Counted'
  BY <1>2, <1>7, FS_EmptySet DEF Circle, Counted
<1>10. Unseen'
  BY <1>1, <1>2 DEF Unseen
<1> QED BY <1>8, <1>9, <1>10 DEF SchedulerInv

LEMMA UnlinkPreserves ==
  ASSUME SchedulerInv, RunUnlink
  PROVE  SchedulerInv'
<1>1. TypeOK /\ Unseen /\ Circle /\ Counted
  BY DEF SchedulerInv
<1>2. /\ curr # Null /\ next[curr] # curr
      /\ next' = [next EXCEPT ![prev[curr]] = next[curr]]
      /\ prev' = [prev EXCEPT ![next[curr]] = prev[curr]]
      /\ last' = (IF last = curr THEN prev[curr] ELSE last)
      /\ curr' = next[curr]
      /\ task_count' = task_count - 1 /\ listed' = listed \ {curr}
      /\ UNCHANGED <<canceled, left, running, cancel, passed>>
  BY DEF RunUnlink
<1>3. curr \in listed /\ last \in listed /\ task_count \in Nat \ {0}
  BY <1>1, <1>2 DEF TypeOK, Circle
<1>4. PICK e : /\ Ring(e, task_count, listed, next, prev) /\ e[0] = curr
               /\ Ordered(e, task_count, passed)
  BY <1>1, <1>3 DEF Circle, Numbered
<1>5. /\ next \in [Coro -> Coro \cup {Null}] /\ prev \in [Coro -> Coro \cup {Null}]
      /\ listed \in SUBSET Coro /\ \A d \in listed : next[d] \in listed /\ prev[d] \in listed
  BY <1>1 DEF TypeOK
<1>6. /\ task_count - 1 \in Nat \ {0} /\ next[curr] \in listed \ {curr}
      /\ prev[curr] \in listed \ {curr}
      /\ Numbered(next[curr], task_count - 1, listed \ {curr}, next', prev', passed)
  <2>1. Bypassed(curr, listed, next, prev, next', prev')
    BY <1>2, <1>5 DEF Bypassed
  <2>2. /\ task_count # 1 /\ next[curr] \in listed \ {curr} /\ prev[curr] \in listed \ {curr}
        /\ Numbered(next[curr], task_count - 1, listed \ {curr}, next', prev', passed)
    <3>1. /\ listed \in SUBSET Coro /\ task_count \in Nat \ {0} /\ curr = e[0] /\ next[curr] # curr
          /\ Ring(e, task_count, listed, next, prev) /\ Ordered(e, task_count, passed)
      BY <1>2, <1>3, <1>4, <1>5
    <3> QED BY <2>1, <3>1, RemoveRing
  <2> QED BY <1>3, <2>2
<1>7. curr' \in listed' /\ last' \in listed' /\ curr' # Null
  BY <1>2, <1>3, <1>5, <1>6, SchedulerAssumption
<1>8. Circle'
  BY <1>2, <1>6, <1>7 DEF Circle
<1>9. \A d \in listed' : next'[d] \in listed' /\ prev'[d] \in listed'
  <2>1. SUFFICES ASSUME NEW d \in listed' PROVE next'[d] \in listed' /\ prev'[d] \in listed'
    OBVIOUS
  <2>2. PICK f : Ring(f, task_count - 1, listed', next', prev')
    BY <1>2, <1>6 DEF Numbered
  <2>3. PICK k \in 0 .. task_count - 2 : f[k] = d
    BY <1>3, <2>2 DEF Ring
  <2>4. next'[d] \in listed'
    <3>1. CASE k = task_count - 2
      BY <1>3, <1>6, <2>2, <2>3, <3>1 DEF Ring
    <3>2. CASE k # task_count - 2
      BY <1>3, <1>6, <2>2, <2>3, <3>2 DEF Ring
    <3> QED BY <3>1, <3>2
  <2>5. prev'[d] \in listed'
    <3>1. CASE k = 0
      BY <1>3, <1>6, <2>2, <2>3, <3>1 DEF Ring
    <3>2. CASE k # 0
      <4>1. k - 1 \in 0 .. (task_count - 1) - 2 /\ (k - 1) + 1 = k /\ k - 1 \in 0 .. task_count - 2
        BY <1>3, <3>2
      <4>2. f[k - 1] \in listed'
        BY <1>3, <2>2, <4>1 DEF Ring
      <4>3. prev'[f[(k - 1) + 1]] = f[k - 1]
        BY <2>2, <4>1 DEF Ring
      <4> QED BY <2>3, <4>1, <4>2, <4>3
    <3> QED BY <3>1, <3>2
  <2> QED BY <2>4, <2>5
<1>10. /\ next' \in [Coro -> Coro \cup {Null}] /\ prev' \in [Coro -> Coro \cup {Null}]
       /\ listed' \subseteq Coro /\ task_count' \in Nat
  BY <1>2, <1>5, <1>6
<1>11. TypeOK'
  BY <1>1, <1>2, <1>7, <1>9, <1>10 DEF TypeOK
<1>12. Counted'
  <2>1. IsFiniteSet(listed') /\ task_count' = Cardinality(listed')
    BY <1>1, <1>2, <1>3, FS_RemoveElement DEF Counted
  <2> QED BY <1>7, <2>1 DEF Counted
<1>13. Unseen'
  <2>1. \A d \in Coro : next'[d] = Null => next[d] = Null
    BY <1>2, <1>5, <1>6, SchedulerAssumption
  <2> QED BY <1>1, <1>2, <2>1 DEF Unseen
<1> QED BY <1>8, <1>11, <1>12, <1>13 DEF SchedulerInv

LEMMA NextPreserves ==
  ASSUME SchedulerInv, [Next]_vars
  PROVE  SchedulerInv'
<1>1. ASSUME NEW c \in Coro, Schedule(c) PROVE SchedulerInv'
  BY <1>1, SchedulePreserves
<1>2. ASSUME NEW c \in Coro, RunResumeSchedules(c) PROVE SchedulerInv'
  BY <1>2, ResumeSchedulesPreserves
<1>3. CASE RunResume
  BY <1>3, ResumePreserves
<1>4. CASE RunLast
  BY <1>4, LastPreserves
<1>5. CASE RunUnlink
  BY <1>5, UnlinkPreserves
<1>6. CASE Run \/ Cancel \/ CancelReturn \/ UNCHANGED vars
  <2>1. UNCHANGED <<next, prev, curr, last, task_count, listed, left, passed>>
    BY <1>6, Zenon DEF Run, Cancel, CancelReturn, vars, links
  <2>2. canceled' \in BOOLEAN /\ running' \in BOOLEAN /\ cancel' \in {"idle", "spinning", "returned"}
    <3>1. canceled \in BOOLEAN /\ running \in BOOLEAN /\ cancel \in {"idle", "spinning", "returned"}
      BY Zenon DEF SchedulerInv, TypeOK
    <3> QED BY <1>6, <3>1 DEF Run, Cancel, CancelReturn, vars
  <2>3. TypeOK' /\ Circle' /\ Counted' /\ Unseen'
    BY <2>1, <2>2 DEF SchedulerInv, TypeOK, Circle, Counted, Unseen
  <2> QED BY <2>3 DEF SchedulerInv
<1> QED BY <1>1, <1>2, <1>3, <1>4, <1>5, <1>6 DEF Next

LEMMA SchedulerInvariant == Spec => []SchedulerInv
BY InitSchedulerInv, NextPreserves, PTL DEF Spec

\* The links, the counters and the flags have their types, and the links of the
\* wrappers that exist lead to wrappers that exist.
THEOREM SchedulerTypeCorrect == Spec => []TypeOK
<1>1. SchedulerInv => TypeOK
  BY DEF SchedulerInv
<1> QED BY <1>1, SchedulerInvariant, PTL

-----------------------------------------------------------------------------
(* Walking along the links.                                                *)

\* A set of naturals that is not empty has a least element.
LEMMA Least ==
  ASSUME NEW S, S \subseteq Nat, S # {}
  PROVE  \E x \in S : \A y \in S : x <= y
<1> DEFINE R == OpToRel(<, Nat)
<1>1. IsWellFoundedOn(R, Nat)
  BY NatLessThanWellFounded
<1>2. ASSUME NEW x \in Nat, NEW y \in Nat, ~(<<y, x>> \in R) PROVE x <= y
  <2>1. R = {ss \in Nat \X Nat : ss[1] < ss[2]}
    BY DEF OpToRel
  <2> HIDE DEF R
  <2> QED BY <1>2, <2>1
<1> HIDE DEF R
<1>3. PICK x \in S : \A y \in S : ~(<<y, x>> \in R)
  BY <1>1, WFMin
<1> QED BY <1>2, <1>3

LEMMA NextModulo ==
  ASSUME NEW k \in Nat, NEW n \in Nat \ {0}
  PROVE  /\ k % n \in 0 .. n - 1 /\ (k < n => k % n = k) /\ n % n = 0
         /\ (k + 1) % n = IF k % n = n - 1 THEN 0 ELSE (k % n) + 1
<1>1. PICK d \in Nat, r \in Nat : k = n * d + r /\ r < n /\ r = k % n
  <2>1. k \div n \in Nat /\ k % n \in Nat /\ k = n * (k \div n) + (k % n) /\ k % n < n
    OBVIOUS
  <2> QED BY <2>1
<1>2. k % n \in 0 .. n - 1 /\ (k < n => k % n = k)
  BY <1>1
<1>3. n % n = 0
  OBVIOUS
<1>4. CASE r + 1 < n
  <2>1. k + 1 = n * d + (r + 1) /\ r + 1 \in Nat
    BY <1>1
  <2>2. (n * d + (r + 1)) % n = r + 1
    BY <1>4
  <2> QED BY <1>1, <1>2, <1>3, <1>4, <2>1, <2>2
<1>5. CASE r + 1 = n
  <2>1. k + 1 = n * (d + 1) /\ d + 1 \in Nat
    <3>1. PICK q \in Nat : q = n * d /\ n * (d + 1) = q + n
      OBVIOUS
    <3>2. k = q + r
      BY <1>1, <3>1
    <3>3. k + 1 = q + n
      BY <1>5, <3>2
    <3> QED BY <3>1, <3>3
  <2>2. (n * (d + 1)) % n = 0
    BY <2>1
  <2> QED BY <1>1, <1>2, <1>3, <1>5, <2>1, <2>2
<1> QED BY <1>1, <1>4, <1>5

\* The links lead round and round the numbering that starts with curr_.
LEMMA WalkIsRing ==
  ASSUME NEW S, NEW n \in Nat \ {0}, NEW e, Ring(e, n, S, next, prev), e[0] = curr
  PROVE  \A k \in Nat : Walk[k] = e[k % n]
<1>1. PICK g : g = [k \in Nat |-> e[k % n]]
  OBVIOUS
<1>2. \A k \in Nat : g[k] = e[k % n]
  BY <1>1
<1>3. g[0] = curr
  <2>1. 0 % n = 0
    BY NextModulo
  <2> QED BY <1>2, <2>1
<1>4. \A k \in Nat : g[k + 1] = next[g[k]]
  <2>1. SUFFICES ASSUME NEW k \in Nat PROVE g[k + 1] = next[g[k]]
    OBVIOUS
  <2>2. PICK r \in 0 .. n - 1 : r = k % n /\ (k + 1) % n = IF r = n - 1 THEN 0 ELSE r + 1
    BY NextModulo
  <2>3. g[k] = e[r] /\ g[k + 1] = e[IF r = n - 1 THEN 0 ELSE r + 1]
    BY <1>2, <2>2
  <2>4. CASE r = n - 1
    BY <2>3, <2>4 DEF Ring
  <2>5. CASE r # n - 1
    BY <2>3, <2>5 DEF Ring
  <2> QED BY <2>4, <2>5
<1>5. g = [k \in Nat |-> IF k = 0 THEN curr ELSE next[g[k - 1]]]
  <2>1. \A k \in Nat : g[k] = IF k = 0 THEN curr ELSE next[g[k - 1]]
    <3>1. SUFFICES ASSUME NEW k \in Nat, k # 0 PROVE g[k] = next[g[k - 1]]
      BY <1>3
    <3>2. k - 1 \in Nat /\ (k - 1) + 1 = k
      BY <3>1
    <3> QED BY <1>4, <3>2
  <2> QED BY <1>1, <2>1
<1>6. Walk = [k \in Nat |-> IF k = 0 THEN curr ELSE next[Walk[k - 1]]]
  BY <1>5, Zenon DEF Walk
<1>7. Walk[0] = curr /\ \A k \in Nat \ {0} : Walk[k] = next[Walk[k - 1]]
  <2>1. PICK w : w = Walk /\ w = [k \in Nat |-> IF k = 0 THEN curr ELSE next[w[k - 1]]]
    BY <1>6, Zenon
  <2>2. w[0] = curr /\ \A k \in Nat \ {0} : w[k] = next[w[k - 1]]
    BY <2>1
  <2> QED BY <2>1, <2>2, Zenon
<1>8. ASSUME NEW b \in Nat, Walk[b] # g[b] PROVE FALSE
  <2> DEFINE D == {k \in Nat : Walk[k] # g[k]}
  <2>1. PICK m \in D : \A y \in D : m <= y
    BY <1>8, Least
  <2>2. m \in Nat /\ m # 0
    BY <1>3, <1>7, <2>1
  <2>3. m - 1 \in Nat /\ (m - 1) + 1 = m /\ m - 1 \notin D
    BY <2>1, <2>2
  <2>4. Walk[m - 1] = g[m - 1]
    BY <2>3
  <2>5. Walk[m] = next[Walk[m - 1]] /\ g[m] = next[g[m - 1]]
    BY <1>4, <1>7, <2>2, <2>3
  <2> QED BY <2>1, <2>4, <2>5
<1> QED BY <1>2, <1>8

LEMMA InvGivesCircle == SchedulerInv => OneCircle
<1> SUFFICES ASSUME SchedulerInv PROVE OneCircle
  OBVIOUS
<1>1. TypeOK /\ Circle /\ Counted
  BY DEF SchedulerInv
<1>2. task_count = Cardinality(listed) /\ ((curr = Null) <=> (listed = {}))
  BY <1>1 DEF Counted
<1>3. ASSUME listed # {}
      PROVE  /\ last \in listed
             /\ listed = {Walk[k] : k \in 0 .. task_count - 1}
             /\ Walk[task_count] = curr
             /\ \A c \in listed : prev[next[c]] = c
  <2>1. task_count \in Nat \ {0} /\ last \in listed
    BY <1>1, <1>3 DEF Circle, Numbered
  <2>2. PICK e : Ring(e, task_count, listed, next, prev) /\ e[0] = curr
    BY <1>1, <1>3 DEF Circle, Numbered
  <2>3. \A k \in Nat : Walk[k] = e[k % task_count]
    BY <2>1, <2>2, WalkIsRing
  <2>4. \A k \in 0 .. task_count - 1 : Walk[k] = e[k]
    <3>1. SUFFICES ASSUME NEW k \in 0 .. task_count - 1 PROVE Walk[k] = e[k]
      OBVIOUS
    <3>2. k \in Nat /\ k < task_count
      BY <2>1
    <3>3. k % task_count = k
      BY <2>1, <3>2, NextModulo
    <3> QED BY <2>3, <3>2, <3>3
  <2>5. Walk[task_count] = curr
    BY <2>1, <2>2, <2>3, NextModulo
  <2>6. listed = {Walk[k] : k \in 0 .. task_count - 1}
    <3>1. listed = {e[k] : k \in 0 .. task_count - 1}
      BY <2>2 DEF Ring
    <3> QED BY <2>4, <3>1
  <2>7. ASSUME NEW c \in listed PROVE prev[next[c]] = c
    <3>1. PICK k \in 0 .. task_count - 1 : e[k] = c
      BY <2>2 DEF Ring
    <3>2. CASE k = task_count - 1
      BY <2>2, <3>1, <3>2 DEF Ring
    <3>3. CASE k # task_count - 1
      <4>1. k \in 0 .. task_count - 2
        BY <2>1, <3>3
      <4> QED BY <2>2, <3>1, <4>1 DEF Ring
    <3> QED BY <3>2, <3>3
  <2> QED BY <2>1, <2>5, <2>6, <2>7
<1> QED BY <1>2, <1>3 DEF OneCircle

\* The list is one circle through every wrapper that exists and through no other,
\* whatever Schedule inserted and Run deleted before, and task_count_ is its length.
THEOREM ListIsOneCircle == Spec => []OneCircle
BY InvGivesCircle, SchedulerInvariant, PTL

\* Run lets nobody have a second turn while another coroutine waits for its own:
\* whoever passed a coroutine stands behind it, and curr_ stands first.
THEOREM NobodyIsOvertaken == Spec => NobodyOvertakes
<1>1. SchedulerInv /\ [Next]_vars =>
        [\A c \in listed : left'[c] # left[c] =>
           \A d \in listed \ {c} : left[d] > 0 => c \notin passed[d]]_vars
  <2>1. SUFFICES ASSUME SchedulerInv, Next, NEW c \in listed, left'[c] # left[c],
                        NEW d \in listed \ {c}, c \in passed[d]
                 PROVE  FALSE
    BY Zenon
  <2>2. TypeOK /\ Circle
    BY <2>1 DEF SchedulerInv
  <2>3. left' = [left EXCEPT ![curr] = @ - 1]
    BY <2>1 DEF Next, Schedule, Run, RunResume, RunResumeSchedules, RunLast, RunUnlink,
                Cancel, CancelReturn
  <2>4. c = curr
    BY <2>1, <2>2, <2>3 DEF TypeOK
  <2>5. PICK e : /\ Ring(e, task_count, listed, next, prev) /\ e[0] = curr
                 /\ Ordered(e, task_count, passed)
    BY <2>2 DEF Circle, Numbered
  <2>6. task_count \in Nat \ {0}
    BY <2>2 DEF Circle, Numbered
  <2>7. PICK j \in 0 .. task_count - 1 : e[j] = d
    BY <2>5 DEF Ring
  <2>8. j # 0 /\ e[0] \in passed[e[j]]
    BY <2>1, <2>4, <2>5, <2>7
  <2>9. j < 0
    BY <2>5, <2>6, <2>8 DEF Ordered
  <2> QED BY <2>6, <2>9
<1> QED BY <1>1, SchedulerInvariant, PTL DEF Spec, NobodyOvertakes
=============================================================================
