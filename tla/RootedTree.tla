----------------------------- MODULE RootedTree -----------------------------
(***************************************************************************)
(* What the set-up wave of the tree aggregator promises, without messages, *)
(* timers or candidate parents: nodes join, one at a time and once each, a *)
(* tree that grows from Root.  A node joins below a node that is already   *)
(* in the tree, one hop further out, and never moves afterwards.           *)
(***************************************************************************)
EXTENDS Naturals

CONSTANTS
  Node,      \* the motes
  Root,      \* the node the tree grows from
  None,      \* parent of a node that has not joined
  Unknown    \* hop count of a node that has not joined

VARIABLES
  parent,    \* [Node -> Node \cup {None}]
  hop        \* hops between a node and the root's own neighbours

tree_vars == <<parent, hop>>

InTree(n) == n = Root \/ parent[n] # None

TreeInit ==
  /\ parent = [n \in Node |-> None]
  /\ hop = [n \in Node |-> Unknown]

Join(n, p) ==
  /\ ~InTree(n)
  /\ InTree(p)
  /\ parent' = [parent EXCEPT ![n] = p]
  /\ hop' = [hop EXCEPT ![n] = IF p = Root THEN 0 ELSE hop[p] + 1]

TreeNext == \E n, p \in Node : Join(n, p)

TreeSpec == TreeInit /\ [][TreeNext]_tree_vars
=============================================================================
