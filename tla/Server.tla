------------------------------- MODULE Server -------------------------------
(***************************************************************************)
(* The server process (server/main.c): one loop that takes a call of a     *)
(* client, runs its handler (server/server.c) over the document, and sends *)
(* the answer.  Calls and answers pass through rpc/converters.c.           *)
(*                                                                         *)
(* The document is module Document: a handler takes its steps.  A call is  *)
(* handled to its end before the next is taken; it is split where the      *)
(* document writes more than once, so that the process can be killed there. *)
(***************************************************************************)
EXTENDS PathQuery

CONSTANTS
  Clients,       \* who calls the server
  Values,        \* the values of nodes
  MaxPages,      \* bound: pages of the file
  MaxRestarts    \* bound: how often the server is started again

ASSUME ServerAssumption == MaxPages \in Nat \ {0}

VARIABLES
  pages, proc, update, targets, stack,   \* the document, see module Document
  rpc,       \* the call each client has made, or its answer
  serving,   \* the client whose call takes several steps
  restarts,  \* counts the restarts
  connected  \* the clients whose connection is to the last process started

Doc == INSTANCE Document

document == <<pages, proc, update, targets, stack>>
links == <<restarts, connected>>
serverVars == <<document, rpc, serving, links>>

Nobody == "nobody"

Nodes == [x \in ItemsOf(pages) |-> ItemAt(pages, x)]

(* What a client has with the server. *)
Rpc(stage, what) == [stage |-> stage, what |-> what]

NoCall == Rpc("none", [method |-> "none"])

Called(request) == Rpc("called", request)

Answered(response) == Rpc("answered", response)

(* The closure of protobuf-c is called with NULL. *)
Failed == [kind |-> "failed"]

NodeResponse(id) == [kind |-> "node", id |-> id]
NodesResponse(ids) == [kind |-> "nodes", ids |-> ids]
DeletedNodes(count) == [kind |-> "deleted", count |-> count]

Ended == Doc!Endings \cup {"exit", "down"}

(* A connection is gone from the end of its process on: one to a process   *)
(* that was started later is another one.                                  *)
Gone(c) == proc \in Ended \/ c \notin connected

(* An empty file, and no call of anybody. *)
ServerInit ==
  /\ Doc!Init
  /\ rpc = [c \in Clients |-> NoCall]
  /\ serving = Nobody /\ restarts = 0 /\ connected = Clients

Takes(c, method) ==
  proc = "idle" /\ c \in connected /\ rpc[c].stage = "called" /\ rpc[c].what.method = method

AnswerTo(c, response) == rpc' = [rpc EXCEPT ![c] = Answered(response)]

(* exit(1), ABORT_EXIT, a failed assertion or a NULL that is read *)
ProcessEnds(how) ==
  /\ proc' = how
  /\ UNCHANGED <<pages, update, targets, stack, rpc, serving>>

-----------------------------------------------------------------------------
(* convert_from_rpc_NodeValue and convert_to_rpc_NodeValue exit on types   *)
(* other than these, UNKNOWN among them: the type of a node nobody set.    *)
Convertible(value) == value.type \in {"INT_32", "DOUBLE", "STRING", "BOOL"}

(* The id of the answer is the one that document_persist_new_node assigned *)
(* to the result, which was allocated with an id of zeros.                 *)
AssignedId ==
  IF pages' = pages THEN Doc!RootId
  ELSE CHOOSE x \in ItemsOf(pages') : x \notin ItemsOf(pages)

CreateUnchecked(c) ==   \* mutant: the node is persisted without looking for its parent
  LET request == rpc[c].what IN
  /\ Takes(c, "create_node") /\ Doc!HasRoom /\ Convertible(request.value)
  /\ Doc!Persist(Doc!Node(request.parent, request.value))
  /\ AnswerTo(c, NodeResponse(AssignedId))
  /\ UNCHANGED <<proc, update, targets, stack, serving, links>>

(* handle_create_node_request answers the result of an add that failed,    *)
(* too.                                                                    *)
HandleCreateNode(c) ==
  LET request == rpc[c].what IN
  /\ Takes(c, "create_node")
  /\ UNCHANGED <<serving, links>>
  /\ \/ ~Convertible(request.value) /\ ProcessEnds("exit")
     \/ /\ Convertible(request.value)
        /\ Doc!AddNode(request.parent, request.value)
        /\ IF proc' = "idle" THEN AnswerTo(c, NodeResponse(AssignedId)) ELSE UNCHANGED rpc

(* handle_update_node_request: convert_from_rpc_UpdateNodeRequest leaves   *)
(* the parent_id of zeros, the id of the root.  Any failure is an exit.    *)
HandleUpdateNode(c) ==
  LET request == rpc[c].what IN
  /\ Takes(c, "update_node") /\ Doc!HasRoom
  /\ UNCHANGED links
  /\ \/ ~Convertible(request.value) /\ ProcessEnds("exit")
     \/ /\ Convertible(request.value)
        /\ Doc!Delete(request.id, "update", "exit")
        /\ IF proc' = "update"
             THEN /\ update' = [old |-> request.id, parent |-> Doc!RootId, value |-> request.value]
                  /\ serving' = c
             ELSE UNCHANGED <<update, serving>>
        /\ UNCHANGED <<targets, stack, rpc>>

HandleUpdateAdd ==
  /\ proc = "update"
  /\ \/ Doc!UpdateAdd /\ pages' # pages /\ AnswerTo(serving, NodeResponse(AssignedId))
     \/ /\ pages' = pages
        /\ proc' = IF Trips(pages, Doc!Sought(update.parent)) THEN "read_deleted" ELSE "exit"
        /\ ~Doc!Accepts(update.parent)
        /\ update' = Doc!NoUpdate
        /\ UNCHANGED <<targets, stack, rpc>>
  /\ serving' = Nobody
  /\ UNCHANGED links

(* handle_delete_node_request: nothing sets the type of the result, so     *)
(* that converting it into the answer is an exit, as any failure is.       *)
HandleDeleteNode(c) ==
  /\ Takes(c, "delete_node")
  /\ Doc!Delete(rpc[c].what.id, "exit", "exit")
  /\ UNCHANGED <<update, targets, stack, rpc, serving, links>>

(* prefix__get_node does not call its closure. *)
HandleGetNode(c) ==
  /\ Takes(c, "get_node")
  /\ rpc' = [rpc EXCEPT ![c] = Rpc("unanswered", @.what)]
  /\ UNCHANGED <<document, serving, links>>

-----------------------------------------------------------------------------
Conditions(chain) == [i \in DOMAIN chain |-> ConditionOf(chain[i])]

Rejects(chain) == \E i \in DOMAIN chain : Rejected(chain[i])

(* get_nodes_by_filter_request asks the queries of module Query, which     *)
(* scan the file unless the chain is empty: how the process is afterwards. *)
Asked(chain) ==
  CASE Rejects(chain) -> "exit"
    [] ~Rejects(chain) /\ chain # <<>> /\ Obstacles(pages) # {} -> "read_deleted"
    [] OTHER -> IF Crashes(Nodes, Conditions(chain)) THEN "exit" ELSE "idle"

Found(chain) == Answer(Nodes, Conditions(chain))

GetNodesLeavesEmpty(c) ==   \* mutant: the early return for no nodes sends no answer
  LET chain == rpc[c].what.chain IN
  /\ Takes(c, "get_nodes_by_filter")
  /\ proc' = Asked(chain)
  /\ rpc' = IF proc' = "idle"
               THEN [rpc EXCEPT ![c] = IF Found(chain) = {} THEN Rpc("unanswered", @.what)
                                       ELSE Answered(NodesResponse(Found(chain)))]
               ELSE rpc
  /\ UNCHANGED <<pages, update, targets, stack, serving, links>>

HandleGetNodesByFilter(c) ==
  LET chain == rpc[c].what.chain IN
  /\ Takes(c, "get_nodes_by_filter")
  /\ proc' = Asked(chain)
  /\ IF proc' = "idle" THEN AnswerTo(c, NodesResponse(Found(chain))) ELSE UNCHANGED rpc
  /\ UNCHANGED <<pages, update, targets, stack, serving, links>>

(* handle_delete_nodes_by_filter_request: the nodes that are found, with   *)
(* all their descendants ...                                               *)
HandleDeleteNodesByFilter(c) ==
  LET chain == rpc[c].what.chain IN
  /\ Takes(c, "delete_nodes_by_filter")
  /\ \/ /\ proc' = Asked(chain)
        /\ proc' = "idle" => Found(chain) = {}
        /\ IF proc' = "idle" THEN AnswerTo(c, DeletedNodes(0)) ELSE UNCHANGED rpc
        /\ UNCHANGED <<pages, update, targets, stack, serving>>
     \/ /\ Asked(chain) = "idle" /\ Found(chain) # {}
        /\ Doc!DeleteTrees(Found(chain))
        /\ serving' = c
        /\ UNCHANGED rpc
  /\ UNCHANGED links

DeleteDescendants ==
  /\ Doc!CountChildren \/ Doc!Descend \/ Doc!DeleteTop
  /\ UNCHANGED <<rpc, serving, links>>

(* ... of which the answer counts the nodes that were found. *)
DeleteNodesAnswers ==
  /\ Doc!DeleteTreesReturns
  /\ AnswerTo(serving, DeletedNodes(Cardinality(targets)))
  /\ serving' = Nobody
  /\ UNCHANGED links

-----------------------------------------------------------------------------
(* What a connection that is gone does to a call made over it: its closure *)
(* is called with NULL.  A client looks at its connection only while it is *)
(* in a call, and so makes calls over one that is gone long since.         *)
ConnectionLost(c) ==
  /\ Gone(c) /\ rpc[c].stage \in {"called", "unanswered"}
  /\ AnswerTo(c, Failed)
  /\ UNCHANGED <<document, serving, links>>

(* The process is killed. *)
Kill ==
  /\ proc \notin Ended /\ restarts < MaxRestarts
  /\ Doc!Stop
  /\ serving' = Nobody
  /\ UNCHANGED <<rpc, links>>

RestartKeepsConnections ==   \* mutant: who was connected is connected to the new process
  /\ proc \in Ended /\ restarts < MaxRestarts
  /\ pages' = <<NewPage(0)>> /\ proc' = "idle"
  /\ update' = Doc!NoUpdate /\ targets' = {} /\ stack' = <<>>
  /\ serving' = Nobody
  /\ restarts' = restarts + 1
  /\ UNCHANGED <<rpc, connected>>

(* main removes the file before it opens the document.  Nobody has a       *)
(* connection to the new process yet.                                      *)
Restart ==
  /\ proc \in Ended /\ restarts < MaxRestarts
  /\ pages' = <<NewPage(0)>> /\ proc' = "idle"
  /\ update' = Doc!NoUpdate /\ targets' = {} /\ stack' = <<>>
  /\ serving' = Nobody
  /\ restarts' = restarts + 1 /\ connected' = {}
  /\ UNCHANGED rpc

Handle(c) ==
  \/ HandleCreateNode(c) \/ HandleUpdateNode(c) \/ HandleDeleteNode(c) \/ HandleGetNode(c)
  \/ HandleGetNodesByFilter(c) \/ HandleDeleteNodesByFilter(c)

Proceed == HandleUpdateAdd \/ DeleteDescendants \/ DeleteNodesAnswers
=============================================================================
