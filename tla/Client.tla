------------------------------- MODULE Client -------------------------------
(***************************************************************************)
(* The consoles (client/main.c, helpers.c, net_client.c) and the server    *)
(* they share.  A command is one call or several, each of which the        *)
(* console waits for; between two calls of one command the server may take *)
(* calls of others.  Callers are other programs that speak the protocol:   *)
(* they use the calls for which the console has no command.                *)
(***************************************************************************)
EXTENDS Server, ParsedQuery

CONSTANTS
  Consoles, Callers,   \* the two kinds of Clients
  Commands,            \* what is typed: a function and a path
  RawRequests,         \* what callers call
  InitLines,           \* the file of the command init
  MaxAdds              \* bound: calls that may add a node

ASSUME ClientsAssumption ==
  Consoles \cup Callers = Clients /\ Consoles \cap Callers = {} /\ Nobody \notin Clients

VARIABLES
  job,        \* what each console does
  added,      \* g_add_node_response of each console
  adds,       \* counts the calls that may add a node
  meanwhile   \* the worst others did to the file since a command was typed:
              \* nothing, adds or losses

clientVars == <<job, added, adds, meanwhile>>
vars == <<serverVars, clientVars>>

Prompt == [doing |-> "prompt"]
Dead == [doing |-> "dead"]

(* An id that was never set: the pointer is NULL. *)
NoId == <<-3, -3>>

(* A line of the file names its parent by the number of a line before it,  *)
(* and the first line none; the example names ids.                         *)
Line(entry, id, words) == [entry |-> entry, id |-> id, value |-> StringValue(words)]

(* fill_with_example_data *)
ExampleLines ==
  <<Line(0, NoNode, <<"a">>), Line(0, <<0, 0>>, <<"b">>), Line(0, <<0, 0>>, <<"c">>),
    Line(0, <<0, 1>>, <<"d">>), Line(0, <<0, 1>>, <<"e">>)>>

(* What is sent are values and chains, commands are what can be typed, and *)
(* a line names a line before it, but for the first line of the file, the  *)
(* root, which names none (the assertions of fill_db_from_lines).          *)
ASSUME RequestsAssumption ==
  \A raw \in RawRequests :
    /\ raw.method \in {"create_node", "update_node"} /\ Convertible(raw.value) =>
         raw.value \in Values
    /\ raw.method = "delete_nodes_by_filter" => raw.chain \in Seq(Range(raw.chain))

ASSUME CommandsAssumption ==
  \A command \in Commands :
    LET asked == RequestOf(command.func, Parsed(command.path)) IN
    /\ command.func \in FunctionTypes /\ IsTypedPath(command.path)
    /\ asked.call = "create" /\ asked.value # <<>> => StringValue(asked.value) \in Values

ASSUME LinesAssumption ==
  /\ \A lines \in {InitLines, ExampleLines} :
       /\ lines \in Seq(Range(lines))
       /\ \A k \in DOMAIN lines :
            /\ lines[k].entry \in 0..k - 1
            /\ lines[k].value \in Values /\ lines[k].value.type = "STRING"
  /\ InitLines # <<>> /\ InitLines[1].id = NoNode
  /\ \A k \in DOMAIN InitLines : InitLines[k].entry = 0 => k = 1

(* A page (PAGE_SIZE of server/main.c) has room for several nodes: a value *)
(* has 256 bytes (common/structures.h).                                    *)
ASSUME RoomAssumption == Capacity > 1

Init ==
  /\ ServerInit
  /\ job = [c \in Consoles |-> Prompt]
  /\ added = [c \in Consoles |-> NoId]
  /\ adds = 0
  /\ meanwhile = [c \in Consoles |-> "nothing"]

Call(c, request) == rpc' = [rpc EXCEPT ![c] = Called(request)]

CreateNode(parent, value) == [method |-> "create_node", parent |-> parent, value |-> value]
GetNodes(chain) == [method |-> "get_nodes_by_filter", chain |-> chain]
DeleteNodes(chain) == [method |-> "delete_nodes_by_filter", chain |-> chain]

Does(c, what) == job[c].doing = what

(* Everything of the server that is not a call. *)
ServerWaits == UNCHANGED <<document, serving, restarts>>

Typed(c) ==
  /\ Does(c, "prompt")
  /\ meanwhile' = [meanwhile EXCEPT ![c] = "nothing"]
  /\ ServerWaits
  /\ UNCHANGED <<added, connected>>

-----------------------------------------------------------------------------
(* main, and make_request_based_on_query.  The command update asks the     *)
(* server nothing.                                                         *)
TypeCommand(c, command) ==
  LET asked == RequestOf(command.func, Parsed(command.path))
      creates == IF asked.call = "create" THEN 1 ELSE 0 IN
  /\ Typed(c) /\ adds + creates <= MaxAdds
  /\ adds' = adds + creates
  /\ \/ /\ asked.call = "crash"
        /\ job' = [job EXCEPT ![c] = Dead] /\ UNCHANGED rpc
     \/ /\ asked.call = "get"
        /\ job' = [job EXCEPT ![c] = [doing |-> "get"]] /\ Call(c, GetNodes(asked.chain))
     \/ /\ asked.call = "delete"
        /\ job' = [job EXCEPT ![c] = [doing |-> "delete"]] /\ Call(c, DeleteNodes(asked.chain))
     \/ /\ asked.call = "create"
        /\ job' = [job EXCEPT ![c] = [doing |-> "find", path |-> command.path,
                                      value |-> asked.value]]
        /\ Call(c, GetNodes(asked.chain))

(* The commands init and init-example: client_delete_all_nodes sends an    *)
(* empty chain.                                                            *)
TypeInit(c, lines) ==
  /\ Typed(c) /\ adds + Len(lines) <= MaxAdds
  /\ adds' = adds + Len(lines)
  /\ job' = [job EXCEPT ![c] = [doing |-> "clear", lines |-> lines, ids |-> <<>>, onto |-> pages]]
  /\ Call(c, DeleteNodes(<<>>))

(* The command exit, or one the parser does not accept. *)
Leave(c) ==
  /\ Typed(c)
  /\ job' = [job EXCEPT ![c] = Dead]
  /\ UNCHANGED <<rpc, adds>>

(* The console is started again, and gets as far as its prompt when there  *)
(* is a server: client_service_new waits until it is connected.            *)
Start(c) ==
  /\ Does(c, "dead") /\ proc \notin Ended
  /\ job' = [job EXCEPT ![c] = Prompt]
  /\ added' = [added EXCEPT ![c] = NoId]
  /\ connected' = connected \cup {c}
  /\ ServerWaits
  /\ UNCHANGED <<rpc, adds, meanwhile>>

(* A caller that got its answer, or never called, connects for a call. *)
RawCall(c, raw) ==
  LET mayAdd == IF raw.method \in {"create_node", "update_node"} THEN 1 ELSE 0 IN
  /\ rpc[c].stage \in {"none", "answered"} /\ adds + mayAdd <= MaxAdds
  /\ adds' = adds + mayAdd
  /\ Call(c, raw) /\ connected' = connected \cup {c}
  /\ ServerWaits
  /\ UNCHANGED <<job, added, meanwhile>>

-----------------------------------------------------------------------------
(* The loop over protobuf_c_rpc_dispatch_run ends when the closure was     *)
(* called.                                                                 *)
Receives(c, what) ==
  /\ Does(c, what) /\ rpc[c].stage = "answered"
  /\ ServerWaits
  /\ UNCHANGED <<adds, meanwhile, connected>>

Return(c, j) ==
  job' = [job EXCEPT ![c] = j] /\ rpc' = [rpc EXCEPT ![c] = NoCall]

(* handle_get_response copies the answer, and reads NULL when there is     *)
(* none.  What it prints are strings: a chain that names a node ends the   *)
(* server when there is any other value in the file.                       *)
GetResponse(c) ==
  /\ Receives(c, "get")
  /\ Return(c, IF rpc[c].what = Failed THEN Dead ELSE Prompt)
  /\ UNCHANGED added

(* add_nodes_sequence: without a parent the command is over; otherwise the *)
(* value is made, which may end the console, and the node is created under *)
(* the first of the nodes that were found.                                 *)
FindResponse(c) ==
  LET response == rpc[c].what IN
  /\ Receives(c, "find")
  /\ CASE response = Failed -> Return(c, Dead)
       [] response # Failed /\ response.ids = {} -> Return(c, Prompt)
       [] response # Failed /\ response.ids # {} /\ job[c].value = <<>> -> Return(c, Dead)
       [] response # Failed /\ response.ids # {} /\ job[c].value # <<>> ->
            /\ job' = [job EXCEPT ![c].doing = "create"]
            /\ Call(c, CreateNode(First(response.ids), StringValue(job[c].value)))
  /\ UNCHANGED added

(* handle_create_response keeps what it had when there is no answer. *)
AddedAfter(c) == IF rpc[c].what = Failed THEN added[c] ELSE rpc[c].what.id

CreateResponse(c) ==
  /\ Receives(c, "create")
  /\ added' = [added EXCEPT ![c] = AddedAfter(c)]
  /\ Return(c, Prompt)

DeleteResponse(c) ==
  /\ Receives(c, "delete")
  /\ Return(c, Prompt)
  /\ UNCHANGED added

(* The next line of fill_db_from_lines or fill_with_example_data, when the *)
(* ids are the answers to the lines before: an id that was never set ends  *)
(* the console.                                                            *)
ParentOf(line, ids) == IF line.entry = 0 THEN line.id ELSE ids[line.entry]

FillNext(c, ids) ==
  LET line == job[c].lines[Len(ids) + 1] IN
  CASE Len(ids) = Len(job[c].lines) -> Return(c, Prompt)
    [] Len(ids) < Len(job[c].lines) /\ ParentOf(line, ids) = NoId -> Return(c, Dead)
    [] OTHER ->
         /\ job' = [job EXCEPT ![c] = [job[c] EXCEPT !.doing = "fill", !.ids = ids]]
         /\ Call(c, CreateNode(ParentOf(line, ids), line.value))

ClearResponse(c) ==
  /\ Receives(c, "clear")
  /\ FillNext(c, <<>>)
  /\ UNCHANGED added

FillResponse(c) ==
  /\ Receives(c, "fill")
  /\ added' = [added EXCEPT ![c] = AddedAfter(c)]
  /\ FillNext(c, Append(job[c].ids, AddedAfter(c)))

Receive(c) ==
  \/ GetResponse(c) \/ FindResponse(c) \/ CreateResponse(c) \/ DeleteResponse(c)
  \/ ClearResponse(c) \/ FillResponse(c)

-----------------------------------------------------------------------------
(* A step of the server, for the call of c: the other commands see nodes   *)
(* come, or lose nodes.  That the server ends is not seen in the file, but *)
(* in the connection.                                                      *)
Worse(d) ==
  CASE proc \in Ended \/ pages' = pages -> meanwhile[d]
    [] proc \notin Ended /\ ~(ItemsOf(pages) \subseteq ItemsOf(pages')) -> "losses"
    [] OTHER -> IF meanwhile[d] = "losses" THEN "losses" ELSE "adds"

By(c, step) ==
  /\ step
  /\ meanwhile' = [d \in Consoles |-> IF d = c THEN meanwhile[d] ELSE Worse(d)]
  /\ UNCHANGED <<job, added, adds>>

ServerStep(c) == By(c, Handle(c)) \/ (serving = c /\ By(c, Proceed)) \/ By(c, ConnectionLost(c))

Next ==
  \/ \E c \in Consoles :
       \/ \E command \in Commands : TypeCommand(c, command)
       \/ TypeInit(c, InitLines) \/ TypeInit(c, ExampleLines)
       \/ Leave(c) \/ Start(c) \/ Receive(c)
  \/ \E c \in Callers, raw \in RawRequests : RawCall(c, raw)
  \/ \E c \in Clients : ServerStep(c)
  \/ By(Nobody, Kill \/ Restart)

(* The loop of the server takes the calls of all connections in turn, a    *)
(* connection that is gone is noticed, and a console runs its loop.        *)
Spec ==
  /\ Init /\ [][Next]_vars
  /\ \A c \in Clients : SF_serverVars(Handle(c)) /\ WF_serverVars(ConnectionLost(c))
  /\ WF_serverVars(Proceed)
  /\ \A c \in Consoles : WF_vars(Receive(c))

-----------------------------------------------------------------------------
(* Whatever clients call, every step of the server is a step of the        *)
(* document or starts over with an empty file: what is proved of the       *)
(* document holds of the file behind the server.                           *)
Outcome == IF proc = "exit" THEN "idle" ELSE proc

D == INSTANCE Document WITH proc <- Outcome

ServesADocument == [][D!Next \/ D!Init']_(D!vars)

(* The node that the command create adds is below a node that the path     *)
(* leads to when it is added, and has the value that was typed, unless     *)
(* others removed nodes between the two calls of the command.  A part that *)
(* is called like the placeholder is not asked for.                        *)
CreatesUnderThePath ==
  [][\A c \in Consoles :
       Does(c, "create") /\ rpc[c].stage = "called" /\ rpc'[c].stage = "answered"
         /\ meanwhile[c] # "losses" /\ rpc'[c].what # Failed
         /\ (\A i \in DOMAIN job[c].path : job[c].path[i].name # RootName)
       => \E x \in ItemsOf(pages') \ ItemsOf(pages) :
            /\ ItemAt(pages', x).parent \in Answer(Nodes, Conditions(PathChain(job[c].path)))
            /\ ItemAt(pages', x).value = StringValue(job[c].value)]_vars

(* A node is as its line says, its parent the node of the line it names.   *)
LineIsNode(line, ids, k) ==
  /\ ids[k] \in ItemsOf(pages)
  /\ ItemAt(pages, ids[k]) = Doc!Node(ParentOf(line, ids), line.value)

(* init builds the tree of its file in any file without nodes, whatever    *)
(* others add between two of its lines; if that is a root at ROOT_NODE_ID, *)
(* the tree is built below that one.  The example is built in a new file,  *)
(* when the console is alone with it.  This holds while the console has a  *)
(* connection: a line never comes to a server that was started since, with *)
(* a parent the one before it had assigned.                                *)
FillsBuildTheTree ==
  \A c \in Consoles :
    /\ Does(c, "fill") /\ ~Gone(c)
    /\ \/ job[c].onto = <<NewPage(0)>> /\ meanwhile[c] = "nothing"
       \/ job[c].lines # ExampleLines /\ ItemsOf(job[c].onto) = {} /\ meanwhile[c] # "losses"
    => LET ids == IF rpc[c].stage = "answered" THEN Append(job[c].ids, AddedAfter(c))
                                               ELSE job[c].ids IN
       /\ \A k \in DOMAIN ids :
            \/ LineIsNode(job[c].lines[k], ids, k)
            \/ k = 1 /\ meanwhile[c] = "adds" /\ ids[k] = Doc!RootId /\ ids[k] \in ItemsOf(pages)
       /\ Cardinality({ids[k] : k \in DOMAIN ids}) = Len(ids)

(* A console's command does not end the server, unless a deleted item is   *)
(* in the way or a node is not a file with all its attributes: conditions  *)
(* on attributes are put to every node there is.                           *)
ConsolesDoNoHarm ==
  [][\A c \in Consoles :
       proc \notin Ended /\ proc' \in Ended /\ ServerStep(c) =>
         \/ Obstacles(pages) # {}
         \/ \E x \in DOMAIN Nodes : ~IsFileInfo(Nodes[x].value)]_vars

(* Every command comes to its end, or the console does. *)
CommandsEnd == \A c \in Consoles : []<>(job[c].doing \in {"prompt", "dead"})

(* common.proto says that rpc GetNode returns a Node. *)
GetNodeReturns ==
  \A c \in Clients :
    rpc[c].stage = "called" /\ rpc[c].what.method = "get_node" ~> rpc[c].stage = "answered"
=============================================================================
