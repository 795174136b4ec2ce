-------------------------------- MODULE Query --------------------------------
(***************************************************************************)
(* The two passes the server makes over a path (document_db/document.c):   *)
(* document_count_nodes_by_condition_sequence, to learn how large a buffer *)
(* the answer needs, and document_get_nodes_by_condition_sequence, which   *)
(* fills it.  Both push a condition on the parent onto the caller's        *)
(* matchers; the first leaves it there.                                    *)
(*                                                                         *)
(* A scan of the file is one step: the server runs nothing else meanwhile, *)
(* and that deleted items stop a scan is the concern of module Document.   *)
(***************************************************************************)
EXTENDS PathQuery

CONSTANTS
  Forests,   \* the files that are asked
  Chains     \* the filter chains they are asked with

ASSUME ChainsAssumption ==
  \A chain \in Chains : Len(chain) \in Nat /\ DOMAIN chain = 1..Len(chain)

(* A file has finitely many nodes, and an id is a page and an item of it. *)
ASSUME ForestsAssumption ==
  \A forest \in Forests : DOMAIN forest \subseteq Nat \X Nat /\ IsFiniteSet(DOMAIN forest)

VARIABLES
  nodes,     \* the nodes of the file
  matchers,  \* the conditions of each NodeMatcher
  pass,      \* the pass the call is in, or how it ended
  at,        \* the index of its loop
  parent,    \* parent_id
  counted,   \* matched_nodes_count, the result of the first pass
  answer     \* the nodes answered

vars == <<nodes, matchers, pass, at, parent, counted, answer>>

Path == [i \in DOMAIN matchers |-> matchers[i][1]]   \* as the server made it

(* node_add_condition aborts when a matcher has more than 8 conditions, of *)
(* the 10 it has room for.                                                 *)
Full(matcher) == Len(matcher) > 8

WithoutParent(matcher) == matcher   \* mutant: the condition on the parent is left out

WithParent(matcher) == Append(matcher, ParentIs(parent))

(* node_matcher_array_new makes a matcher of one condition for each filter. *)
Init ==
  /\ nodes \in Forests
  /\ \E chain \in Chains : matchers = [i \in DOMAIN chain |-> <<ConditionOf(chain[i])>>]
  /\ pass = "count" /\ at = 1 /\ parent = NoNode
  /\ counted = 0 /\ answer = {}

(* document_count_nodes_by_condition and document_get_nodes_by_condition   *)
Scanned(matcher) == {x \in DOMAIN nodes : Decide(matcher, nodes[x]) = "yes"}

ScanCrashes(matcher) == \E x \in DOMAIN nodes : Decide(matcher, nodes[x]) = "crash"

(* Either pass: too many conditions, or a condition that ends the process. *)
StepFails ==
  /\ pass \in {"count", "get"} /\ at <= Len(matchers)
  /\ Full(matchers[at]) \/ ScanCrashes(WithParent(matchers[at]))
  /\ pass' = IF Full(matchers[at]) THEN "too_many" ELSE "crash"
  /\ UNCHANGED <<nodes, matchers, at, parent, counted, answer>>

Scannable(m) == ~Full(matchers[at]) /\ ~ScanCrashes(m)

CountBeforeParent ==   \* mutant: counted by the matcher as it was
  /\ pass = "count" /\ at <= Len(matchers)
  /\ LET m == matchers[at] IN
       /\ Scannable(m)
       /\ counted' = Cardinality(Scanned(m))
       /\ IF Scanned(m) = {}
            THEN pass' = "answered" /\ UNCHANGED <<matchers, at, parent>>
            ELSE /\ matchers' = [matchers EXCEPT ![at] = WithParent(@)]
                 /\ parent' = First(Scanned(m))
                 /\ at' = at + 1
                 /\ UNCHANGED pass
  /\ UNCHANGED <<nodes, answer>>

(* One round of document_count_nodes_by_condition_sequence.  Without a     *)
(* match the condition is taken back and the answer is empty; otherwise    *)
(* it stays, and the first match is the next parent.                       *)
Count ==
  /\ pass = "count" /\ at <= Len(matchers)
  /\ LET m == WithParent(matchers[at]) IN
       /\ Scannable(m)
       /\ counted' = Cardinality(Scanned(m))
       /\ IF Scanned(m) = {}
            THEN pass' = "answered" /\ UNCHANGED <<matchers, at, parent>>
            ELSE /\ matchers' = [matchers EXCEPT ![at] = m]
                 /\ parent' = First(Scanned(m))
                 /\ at' = at + 1
                 /\ UNCHANGED pass
  /\ UNCHANGED <<nodes, answer>>

CountEndsWhereItIs ==   \* mutant: the second pass starts where the first came to
  /\ pass = "count" /\ at > Len(matchers)
  /\ pass' = IF counted = 0 THEN "answered" ELSE "get"
  /\ at' = 1
  /\ UNCHANGED <<nodes, matchers, parent, counted, answer>>

(* get_nodes_by_filter_request between the passes: nothing is asked when   *)
(* nothing was counted, as with an empty chain.                            *)
CountEnds ==
  /\ pass = "count" /\ at > Len(matchers)
  /\ pass' = IF counted = 0 THEN "answered" ELSE "get"
  /\ at' = 1 /\ parent' = NoNode
  /\ UNCHANGED <<nodes, matchers, counted, answer>>

(* One round of document_get_nodes_by_condition_sequence; the last asserts *)
(* that the buffer has the size of the answer.  No match is an error, and  *)
(* the server answers nothing.                                             *)
Get ==
  /\ pass = "get" /\ at <= Len(matchers)
  /\ LET m == WithParent(matchers[at]) IN
       /\ Scannable(m)
       /\ IF Scanned(m) = {}
            THEN pass' = "answered" /\ UNCHANGED <<at, parent, answer>>
            ELSE \/ /\ at < Len(matchers)
                    /\ parent' = First(Scanned(m)) /\ at' = at + 1
                    /\ UNCHANGED <<pass, answer>>
                 \/ /\ at = Len(matchers)
                    /\ IF counted = Cardinality(Scanned(m))
                         THEN answer' = Scanned(m) /\ pass' = "answered"
                         ELSE pass' = "count_mismatch" /\ UNCHANGED answer
                    /\ UNCHANGED <<at, parent>>
  /\ UNCHANGED <<nodes, matchers, counted>>

Next == StepFails \/ Count \/ CountEnds \/ Get

Spec == Init /\ [][Next]_vars

-----------------------------------------------------------------------------
(* The two passes end with what PathQuery says, the second finding its way *)
(* although the first left its conditions on the matchers: the nodes of    *)
(* the last step of the way, or the end of the process where a condition   *)
(* that is asked ends it.                                                  *)
EndsWithTheAnswer ==
  /\ pass = "answered" => answer = Answer(nodes, Path) /\ ~Crashes(nodes, Path)
  /\ pass = "crash" => Crashes(nodes, Path)

(* Every node that is answered is one the path means, and all of them are  *)
(* answered when the path leaves no choice before its end.                 *)
AnswersWhatThePathMeans ==
  pass = "answered" /\ matchers # <<>> =>
    LET meant == Reached(nodes, Path)[Len(Path)]
    IN  answer \subseteq meant /\ (Unambiguous(nodes, Path) => answer = meant)

(* document.c:540 asserts that the second pass finds as many nodes as the  *)
(* first counted, and node_value_matcher.c:29 aborts when conditions pile  *)
(* up on a matcher: neither ever stops a query, and no query leaves more   *)
(* than one condition behind.                                              *)
PassesAgree ==
  /\ pass \notin {"count_mismatch", "too_many"}
  /\ \A i \in DOMAIN matchers : Len(matchers[i]) <= 2
=============================================================================
