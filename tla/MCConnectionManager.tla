------------------------ MODULE MCConnectionManager ------------------------
(* Small instances of ConnectionManager for TLC.                           *)
EXTENDS ConnectionManager, TLC

CONSTANTS n1, n2, t1, t2, t3, t4

\* Two threads on the first node and one on the second; two on both.
TwoAndOne == (t1 :> n1) @@ (t2 :> n1) @@ (t3 :> n2)
TwoEach == (t1 :> n1) @@ (t2 :> n1) @@ (t3 :> n2) @@ (t4 :> n2)

\* Everybody may call everybody, itself included.
Anybody == [t \in Thread |-> Node]

\* Two nodes call each other; a second thread of the first connects to nobody.
Crossing == (t1 :> {n2}) @@ (t2 :> {}) @@ (t3 :> {n1})

Symmetry == Permutations(Id)
=============================================================================
