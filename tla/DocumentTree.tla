---------------------------- MODULE DocumentTree ----------------------------
(***************************************************************************)
(* What the document layer promises: a forest of nodes, each with a parent *)
(* and a value.  A node is added under a node of the forest or under none, *)
(* only a node without children is removed, and a node never changes.      *)
(***************************************************************************)

CONSTANTS Ids,      \* the ids a node can have
          NullId,   \* the parent of a root, not one of Ids
          Values    \* the values of nodes

VARIABLE nodes      \* a function from the ids of the nodes to the nodes

Roots == {x \in DOMAIN nodes : nodes[x].parent = NullId}

Children(x) == {y \in DOMAIN nodes : nodes[y].parent = x}

Init == nodes = [x \in {} |-> {}]

Add(x, parent, v) ==
  /\ x \notin DOMAIN nodes
  /\ parent \in DOMAIN nodes \cup {NullId}
  /\ nodes' = [y \in DOMAIN nodes \cup {x} |->
                 IF y = x THEN [parent |-> parent, value |-> v] ELSE nodes[y]]

Remove(x) ==
  /\ x \in DOMAIN nodes /\ Children(x) = {}
  /\ nodes' = [y \in DOMAIN nodes \ {x} |-> nodes[y]]

Next == \E x \in Ids :
  \/ Remove(x)
  \/ \E parent \in Ids \cup {NullId}, v \in Values : Add(x, parent, v)

Spec == Init /\ [][Next]_nodes

-----------------------------------------------------------------------------
(* The parent of a node is a node. *)
NoOrphans == \A x \in DOMAIN nodes : nodes[x].parent \in DOMAIN nodes \cup {NullId}

(* There are no cycles: in every set of nodes there is one whose parent is *)
(* outside the set, so the way up from any node ends at a root.            *)
Acyclic ==
  \A S \in SUBSET DOMAIN nodes : S # {} => \E x \in S : nodes[x].parent \notin S
=============================================================================
