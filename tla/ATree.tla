------------------------------- MODULE ATree -------------------------------
(***************************************************************************)
(* ATree, an augmented binary search tree, as functions from trees to      *)
(* trees.  A tree has one node for a key, so the key stands for the node.  *)
(* root is the left child of the sentinel root_; cleared counts the nodes  *)
(* of the trees that Clear has put aside.  The methods of the Visitor, a   *)
(* template parameter, are constant operators.                             *)
(***************************************************************************)
LOCAL INSTANCE Integers
LOCAL INSTANCE SequencesExt

CONSTANTS
  Null,   \* nullptr
  \* the visitor: the tree after a visit of a node
  OnInsert(_, _), OnUpdate(_, _), Update(_, _)

EmptyTree == [root |-> Null, node |-> <<>>, cleared |-> 0]

\* A leaf: the children, and what the user keeps in a node.
ATreeNode(value, metadata) ==
  [left |-> Null, right |-> Null, value |-> value, metadata |-> metadata]

\* The node with the key, if there is one, and the nodes on the way to it.
FindInternal(t, key) ==
  LET Walk[n \in DOMAIN t.node \cup {Null}] ==
        IF n \in {Null, key} THEN [curr |-> n, stack |-> <<>>]
        ELSE LET rest == Walk[IF key > n THEN t.node[n].right ELSE t.node[n].left]
             IN [rest EXCEPT !.stack = <<n>> \o @]
  IN Walk[t.root]

\* A new leaf below parent; Null stands for the sentinel.
InsertInternal(t, key, value, metadata, parent) ==
  LET linked == IF parent = Null THEN [t EXCEPT !.root = key]
                ELSE IF key < parent THEN [t EXCEPT !.node[parent].left = key]
                ELSE [t EXCEPT !.node[parent].right = key]
  IN [linked EXCEPT !.node = @ @@ (key :> ATreeNode(value, metadata))]

\* The node first, then its ancestors from the last to the first.
InsertOrUpdate(t, key, value, metadata) ==
  LET found == FindInternal(t, key)
      parent == IF found.stack = <<>> THEN Null ELSE Last(found.stack)
  IN IF found.curr # Null
       THEN FoldRight(OnUpdate, found.stack, Update(key, t))
       ELSE FoldRight(OnInsert, found.stack,
                      OnInsert(key, InsertInternal(t, key, value, metadata, parent)))

\* Mutant of Clear: the old tree is forgotten.
ForgetsTree(t) == [EmptyTree EXCEPT !.cleared = t.cleared]

\* The old tree is put aside; its nodes live until the destructor.
Clear(t) == [EmptyTree EXCEPT !.cleared = t.cleared + Cardinality(DOMAIN t.node)]

\* The nodes under n, itself included.
Subtree(t, n) ==
  LET Under[m \in DOMAIN t.node \cup {Null}] ==
        IF m = Null THEN {}
        ELSE {m} \cup Under[t.node[m].left] \cup Under[t.node[m].right]
  IN Under[n]

\* ~ATree: how many nodes it deletes, in this tree and in those put aside.
Deleted(t) == t.cleared + Cardinality(Subtree(t, t.root))
=============================================================================
