------------------------------ MODULE Document ------------------------------
(***************************************************************************)
(* The document layer (document_db/document.c): nodes in the items of the  *)
(* file, found by scanning it.  The calls that write more than once, an    *)
(* update and the deletion of a tree, take one step per write, and the     *)
(* process can be killed between two of them.                              *)
(*                                                                         *)
(* A scan is the operator module Scan makes of it, because nothing else    *)
(* runs between its steps; module PageManager shows that what is put and   *)
(* deleted is what the next scan reads.                                    *)
(***************************************************************************)
EXTENDS Scan

CONSTANTS
  Values,    \* the values of nodes
  MaxPages   \* bound: pages of the file

ASSUME MaxPagesAssumption == MaxPages \in Nat \ {0}

VARIABLES
  pages,     \* the file
  proc,      \* the call the process is in, or how it ended
  update,    \* the UpdateNodeRequest in progress
  targets,   \* the nodes a tree deletion was called for
  stack      \* its frames of delete_node_with_all_descendants, the caller first

calls == <<update, targets, stack>>
vars == <<pages, proc, calls>>

(* NULL_NODE_ID and ROOT_NODE_ID *)
NullId == <<-1, -1>>
RootId == <<0, 0>>

NodeIds == (0..MaxPages - 1) \X (0..Capacity - 1)

Node(parent, v) == [parent |-> parent, value |-> v]

NoUpdate == [old |-> NullId, parent |-> NullId, value |-> "none"]

Running == {"idle", "update", "delete_tree"}

(* The failed assertion of page_get_item, and ABORT_EXIT *)
Endings == {"read_deleted", "has_children", "not_found"}

Nodes == ItemsOf(pages)

(* node_condition_parent_id_eq *)
Children(x) == {y \in Nodes : ItemAt(pages, y).parent = x}

-----------------------------------------------------------------------------
(* page_manager_init of a new file, and set_root_node of the empty page *)
Init ==
  /\ pages = <<NewPage(0)>>
  /\ proc = "idle"
  /\ update = NoUpdate /\ targets = {} /\ stack = <<>>

(* The current free page is the last page, while no crash falls inside     *)
(* page_new.                                                               *)
FreePage == pages[Len(pages)]

HasRoom == FreePage.room > 0 \/ Len(pages) < MaxPages

(* document_persist_new_node *)
Persist(node) ==
  pages' = IF FreePage.room > 0
             THEN [pages EXCEPT ![Len(pages)] = WithItem(@, node)]
             ELSE Append(pages, WithItem(NewPage(Len(pages)), node))

(* What document_add_node looks for: a root may not be added beside the    *)
(* node with ROOT_NODE_ID, a child may only be added below its parent.     *)
Sought(parent) == Nodes \cap {IF parent = NullId THEN RootId ELSE parent}

AcceptsAnyParent(parent) ==   \* mutant: the parent is not looked up
  ~Trips(pages, Sought(parent))

Accepts(parent) ==
  IF parent = NullId THEN Ends(pages, Sought(parent)) ELSE Finds(pages, Sought(parent))

(* document_add_node; a node it does not accept is an error the caller is  *)
(* told of.                                                                *)
Add(parent, v) ==
  \/ /\ Trips(pages, Sought(parent))
     /\ proc' = "read_deleted" /\ UNCHANGED pages
  \/ /\ Accepts(parent)
     /\ Persist(Node(parent, v))
     /\ proc' = "idle"
  \/ /\ ~Trips(pages, Sought(parent)) /\ ~Accepts(parent)
     /\ proc' = "idle" /\ UNCHANGED pages

DeleteChecked(x, deleted, missing) ==   \* mutant: the scan for children is left out
  \/ /\ x \in Nodes /\ Finds(pages, {x})
     /\ pages' = [pages EXCEPT ![x[1] + 1] = WithoutItem(@, x[2])]
     /\ proc' = deleted
  \/ /\ ~Finds(pages, {x} \cap Nodes)
     /\ proc' = IF Obstacles(pages) # {} THEN "read_deleted" ELSE missing
     /\ UNCHANGED pages

DeletePastObstacles(x, deleted, missing) ==   \* mutant: a scan skips deleted items
  \/ /\ Children(x) # {}
     /\ proc' = "has_children" /\ UNCHANGED pages
  \/ /\ Children(x) = {} /\ x \in Nodes
     /\ pages' = [pages EXCEPT ![x[1] + 1] = WithoutItem(@, x[2])]
     /\ proc' = deleted
  \/ /\ Children(x) = {} /\ x \notin Nodes
     /\ proc' = missing /\ UNCHANGED pages

DeleteNewest(x, deleted, missing) ==   \* mutant: the last item of the page goes
  \/ /\ Finds(pages, Children(x))
     /\ proc' = "has_children" /\ UNCHANGED pages
  \/ /\ Trips(pages, Children(x))
     /\ proc' = "read_deleted" /\ UNCHANGED pages
  \/ /\ Ends(pages, Children(x)) /\ x \in Nodes
     /\ pages' = [pages EXCEPT ![x[1] + 1] = WithoutItem(@, @.next - 1)]
     /\ proc' = deleted
  \/ /\ Ends(pages, Children(x)) /\ x \notin Nodes
     /\ proc' = missing /\ UNCHANGED pages

(* document_delete_node: a scan of the whole file for children, and        *)
(* document_delete_second_step, which scans for the node.                  *)
Delete(x, deleted, missing) ==
  \/ /\ Finds(pages, Children(x))
     /\ proc' = "has_children" /\ UNCHANGED pages
  \/ /\ Trips(pages, Children(x))
     /\ proc' = "read_deleted" /\ UNCHANGED pages
  \/ /\ Ends(pages, Children(x)) /\ x \in Nodes
     /\ pages' = [pages EXCEPT ![x[1] + 1] = WithoutItem(@, x[2])]
     /\ proc' = deleted
  \/ /\ Ends(pages, Children(x)) /\ x \notin Nodes
     /\ proc' = missing /\ UNCHANGED pages

-----------------------------------------------------------------------------
AddNode(parent, v) ==
  /\ proc = "idle" /\ HasRoom
  /\ Add(parent, v)
  /\ UNCHANGED calls

DeleteNode(x) ==
  /\ proc = "idle"
  /\ Delete(x, "idle", "idle")
  /\ UNCHANGED calls

(* document_update_node: the node is deleted, and added again in a second  *)
(* step; when it cannot be deleted the call returns.                       *)
UpdateNode(x, parent, v) ==
  /\ proc = "idle" /\ HasRoom
  /\ Delete(x, "update", "idle")
  /\ update' = IF proc' = "update" THEN [old |-> x, parent |-> parent, value |-> v] ELSE update
  /\ UNCHANGED <<targets, stack>>

UpdateAddUnderNull ==   \* mutant: the request's parent_id is dropped
  /\ proc = "update"
  /\ Add(NullId, update.value)
  /\ update' = NoUpdate
  /\ UNCHANGED <<targets, stack>>

UpdateAddRetries ==   \* mutant: a parent that is not found is looked for again
  /\ proc = "update"
  /\ Add(update.parent, update.value)
  /\ Accepts(update.parent) \/ proc' = "read_deleted"
  /\ update' = NoUpdate
  /\ UNCHANGED <<targets, stack>>

UpdateAdd ==
  /\ proc = "update"
  /\ Add(update.parent, update.value)
  /\ update' = NoUpdate
  /\ UNCHANGED <<targets, stack>>

(* Any call that reads: its scans go over the whole file. *)
ReadNodes ==
  /\ proc = "idle" /\ Obstacles(pages) # {}
  /\ proc' = "read_deleted"
  /\ UNCHANGED <<pages, calls>>

-----------------------------------------------------------------------------
(* Deletion of trees.  The frame below all others is the loop of           *)
(* handle_delete_nodes_by_filter_request, or of                            *)
(* document_delete_nodes_by_condition, over the nodes it was answered.     *)
Frame(x, todo, counted) == [id |-> x, todo |-> todo, counted |-> counted]

Top == stack[Len(stack)]

DeleteTrees(S) ==
  /\ proc = "idle" /\ Obstacles(pages) = {}
  /\ proc' = "delete_tree"
  /\ targets' = S
  /\ stack' = <<Frame(NullId, S, TRUE)>>
  /\ UNCHANGED <<pages, update>>

CountNoChildren ==   \* mutant: the children are not visited
  /\ proc = "delete_tree" /\ ~Top.counted
  /\ stack' = [stack EXCEPT ![Len(stack)] = [Top EXCEPT !.counted = TRUE]]
  /\ UNCHANGED <<pages, proc, update, targets>>

(* delete_node_with_all_descendants: document_count_children and           *)
(* document_get_nodes_by_condition, which both scan the whole file.        *)
CountChildren ==
  /\ proc = "delete_tree" /\ ~Top.counted
  /\ IF Obstacles(pages) # {}
       THEN proc' = "read_deleted" /\ UNCHANGED stack
       ELSE /\ stack' = [stack EXCEPT ![Len(stack)] =
                 [Top EXCEPT !.counted = TRUE, !.todo = Children(Top.id)]]
            /\ UNCHANGED proc
  /\ UNCHANGED <<pages, update, targets>>

(* ... then the children, in the order of the scan ... *)
Descend ==
  /\ proc = "delete_tree" /\ Top.counted /\ Top.todo # {}
  /\ stack' = Append([stack EXCEPT ![Len(stack)] = [Top EXCEPT !.todo = @ \ {First(@)}]],
                     Frame(First(Top.todo), {}, FALSE))
  /\ UNCHANGED <<pages, proc, update, targets>>

(* ... then the node itself; a failure of document_delete_node aborts. *)
DeleteTop ==
  /\ proc = "delete_tree" /\ Top.counted /\ Top.todo = {} /\ Len(stack) > 1
  /\ Delete(Top.id, "delete_tree", "not_found")
  /\ stack' = IF proc' = "delete_tree" THEN SubSeq(stack, 1, Len(stack) - 1) ELSE stack
  /\ UNCHANGED <<update, targets>>

DeleteTreesReturns ==
  /\ proc = "delete_tree" /\ Len(stack) = 1 /\ Top.todo = {}
  /\ proc' = "idle" /\ targets' = {} /\ stack' = <<>>
  /\ UNCHANGED <<pages, update>>

-----------------------------------------------------------------------------
(* document_destroy, the end of an aborted process, or a kill between two  *)
(* writes: the file stays.                                                 *)
Stop ==
  /\ proc # "down"
  /\ proc' = "down" /\ update' = NoUpdate /\ targets' = {} /\ stack' = <<>>
  /\ UNCHANGED pages

(* document_init of the file that was left: set_root_node scans for a node *)
(* whose parent is ROOT_NODE_ID.                                           *)
Open ==
  /\ proc = "down"
  /\ proc' = IF Trips(pages, Children(RootId)) THEN "read_deleted" ELSE "idle"
  /\ UNCHANGED <<pages, calls>>

InCall == UpdateAdd \/ CountChildren \/ Descend \/ DeleteTop \/ DeleteTreesReturns

Next ==
  \/ \E parent \in NodeIds \cup {NullId}, v \in Values : AddNode(parent, v)
  \/ \E x \in NodeIds \cup {NullId} : DeleteNode(x)
  \/ \E x, parent \in NodeIds \cup {NullId}, v \in Values : UpdateNode(x, parent, v)
  \/ ReadNodes
  \/ \E parent \in Nodes \cup {NullId} :
       \E S \in (SUBSET Children(parent)) \ {{}} : DeleteTrees(S)
  \/ InCall
  \/ Stop \/ Open

(* A call is straight code: it takes its next step unless it is stopped. *)
Spec == Init /\ [][Next]_vars /\ WF_vars(InCall)

-----------------------------------------------------------------------------
(* Every variable has its type; a frame exists only in a tree deletion.    *)
TypeOK ==
  /\ Len(pages) \in 1..MaxPages
  /\ \A k \in DOMAIN pages :
       /\ pages[k].id = k - 1
       /\ pages[k].next \in 0..Capacity /\ pages[k].room = Capacity - pages[k].next
       /\ DOMAIN pages[k].live \subseteq 0..pages[k].next - 1
  /\ \A x \in Nodes :
       ItemAt(pages, x) \in [parent : NodeIds \cup {NullId}, value : Values]
  /\ proc \in Running \cup Endings \cup {"down"}
  /\ update \in [old : NodeIds \cup {NullId}, parent : NodeIds \cup {NullId},
                 value : Values \cup {"none"}]
  /\ targets \subseteq NodeIds
  /\ \A i \in DOMAIN stack :
       stack[i] \in [id : NodeIds \cup {NullId}, todo : SUBSET NodeIds, counted : BOOLEAN]
  /\ proc = "delete_tree" => stack # <<>>

Tree == INSTANCE DocumentTree WITH Ids <- NodeIds, nodes <- [x \in Nodes |-> ItemAt(pages, x)]

(* The nodes of the file are a forest that grows by leaves and shrinks by  *)
(* leaves, whatever ids are reused and wherever an update or the deletion  *)
(* of a tree is cut off.                                                   *)
ImplementsDocumentTree == Tree!Spec

(* No node of the file has a parent that is not there, and no node is its  *)
(* own ancestor, although ids are reused and an update may name any parent. *)
WellFormed == Tree!NoOrphans /\ Tree!Acyclic

(* The scan for children goes over the whole file, so that a deletion is   *)
(* only ever made in a file without obstacles: there is at most one ...    *)
OneObstacle == \A t, u \in Obstacles(pages) : t = u

(* ... and from then on the file only grows: the obstacle stays, and no    *)
(* node is deleted again, not even after the file was opened anew.         *)
ObstacleIsForEver ==
  [][Obstacles(pages) # {} =>
       Obstacles(pages') = Obstacles(pages) /\ Nodes \subseteq ItemsOf(pages')]_vars

(* The deletion of trees never aborts on a node that has children or that  *)
(* is gone: the children that a frame counted are still there when their   *)
(* turn comes, and none is left when the turn of their parent comes.       *)
OnlyObstaclesStopDeletion ==
  [][proc = "delete_tree" => proc' \notin {"has_children", "not_found"}]_vars

(* x is one of T or below one of T: every set of nodes that holds x and    *)
(* the parents of its members meets T.                                     *)
DescendsFrom(x, T) ==
  \A S \in SUBSET Nodes :
    x \in S /\ (\A y \in S : ItemAt(pages, y).parent \in S \cup {NullId}) => S \cap T # {}

(* It removes nothing but the trees it was called for, and when it returns *)
(* they are gone.                                                          *)
DeletesExactlyTheTrees ==
  [][proc = "delete_tree" =>
       /\ \A x \in Nodes \ ItemsOf(pages') : DescendsFrom(x, targets)
       /\ proc' = "idle" => targets \cap Nodes = {}]_vars

(* An update that is not stopped between its steps never loses the node    *)
(* when the new parent is a node that a scan meets before the old one.     *)
UpdateKeepsNode ==
  [][/\ proc = "update" /\ proc' # "down"
     /\ update.parent \in Nodes /\ Before(update.parent, update.old)
     => \E x \in ItemsOf(pages') \ Nodes :
          ItemAt(pages', x) = Node(update.parent, update.value)]_vars

(* A call comes to an end, of the call or of the process. *)
CallsEnd == proc \in {"update", "delete_tree"} ~> proc \notin {"update", "delete_tree"}

(* document.c:109-111 checks that there is only one root node in the file. *)
OneRoot == Cardinality(Children(NullId)) <= 1

(* page.c:48 asserts that an item which is read is not deleted. *)
NeverReadsDeleted == proc # "read_deleted"
=============================================================================
