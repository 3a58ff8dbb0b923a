---------------------------- MODULE MCMemoryPool ----------------------------
(* A small instance of MemoryPool for TLC: the node of the words, which also  *)
(* uses them over its loopback connection, and a second one.                  *)
EXTENDS MemoryPool, TLC

CONSTANTS n1, n2, t0, t1, t2

\* Everybody is a peer of everybody, itself included.
Both == (n1 :> <<n1, n2>>) @@ (n2 :> <<n1, n2>>)
\* Both nodes trade tokens, or the one with the words writes while the other one
\* reads and writes, or executes batches; or the other one has kill switches.
Trading == [n \in Node |-> {"AtomicSwap", "CompareAndSwap"}]
Copying == (n1 :> {"Write"}) @@ (n2 :> {"Read", "Write"})
Batching == (n1 :> {"Write"}) @@ (n2 :> {"AddRead", "AddWrite"})
Impatient == (n1 :> {}) @@ (n2 :> {"Read", "Write", "kill"})
Leaving == (n1 :> {"Write"}) @@ (n2 :> {"Read", "kill"})
Dropping == (n1 :> {}) @@ (n2 :> {"AddRead", "kill"})
Either == {Trading, Copying, Batching, Impatient, Leaving, Dropping}

OneEach == (n1 :> t1) @@ (n2 :> t2)
=============================================================================
