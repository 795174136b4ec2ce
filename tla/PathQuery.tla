----------------------------- MODULE PathQuery ------------------------------
(***************************************************************************)
(* What a query by a sequence of conditions answers: the path is walked    *)
(* down from the roots, each condition choosing among the children of one  *)
(* node, the first that the condition before it chose.  Module Query       *)
(* models the two passes of the code step by step and checks that they     *)
(* end with what is said here.                                             *)
(*                                                                         *)
(* `nodes' maps the ids of the nodes of a file to the nodes, and `path' is *)
(* the sequence of the conditions.                                         *)
(***************************************************************************)
EXTENDS FileInfo, Scan

NoNode == <<-1, -1>>   \* NULL_NODE_ID, the parent of a root

(* The nodes a condition chooses below one of the parents. *)
Below(nodes, condition, parents) ==
  UNION {{x \in DOMAIN nodes : Decide(<<condition, ParentIs(p)>>, nodes[x]) = "yes"} :
           p \in parents}

(* The node the k-th condition leads to, the first it chooses, or none.    *)
Way(nodes, path) ==
  LET way[k \in 0..Len(path)] ==
        IF k = 0 THEN {NoNode}
        ELSE {First(found) : found \in {Below(nodes, path[k], way[k - 1])} \ {{}}}
  IN  way

Answer(nodes, path) ==
  IF path = <<>> THEN {}
  ELSE Below(nodes, path[Len(path)], Way(nodes, path)[Len(path) - 1])

(* A scan evaluates its condition on every node of the file, and not only  *)
(* on the children of the node it has come to.                             *)
Crashes(nodes, path) ==
  \E k \in DOMAIN path :
    /\ Way(nodes, path)[k - 1] # {}
    /\ \E x \in DOMAIN nodes : Evaluate(path[k], nodes[x]) = "crash"

-----------------------------------------------------------------------------
(* What a path means: the nodes that are reached from the roots by nodes   *)
(* that meet the conditions one after the other.                           *)
Reached(nodes, path) ==
  LET reached[k \in 0..Len(path)] ==
        IF k = 0 THEN {NoNode}
        ELSE {x \in DOMAIN nodes :
                nodes[x].parent \in reached[k - 1] /\ Evaluate(path[k], nodes[x]) = "yes"}
  IN  reached

(* Every condition but the last leaves no choice. *)
Unambiguous(nodes, path) ==
  \A k \in 1..Len(path) - 1 : Cardinality(Reached(nodes, path)[k]) <= 1
=============================================================================
