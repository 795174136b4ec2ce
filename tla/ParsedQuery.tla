---------------------------- MODULE ParsedQuery -----------------------------
(***************************************************************************)
(* The query the client's parser builds while it reads a command           *)
(* (parser/types.c), and the request made of it (client/helpers.c).        *)
(*                                                                         *)
(* A query is the sequence of the nodes of its path, each with the filters *)
(* that were attached to it.  A word is a string; an element that is not a *)
(* string is Number, and reading it as a string ends the process.          *)
(***************************************************************************)
EXTENDS FileInfo, SequencesExt

Number == "number"

FunctionTypes == {"NOP", "UPDATE_OP", "CREATE_OP", "DELETE_OP"}

FilterExpr(type, operation, left, right) ==
  [type |-> type, operation |-> operation, left |-> left, right |-> right]

(* create_filter, create_filter_single_value, create_filter_by_var_name,   *)
(* create_filter_all: [@left op right], [right], @right, [*]               *)
Compared(left, operation, right) == FilterExpr("LOGICAL_OP", operation, left, right)
SingleValue(right) == FilterExpr("VALUE", "NO_OP", NotSet, right)
VarName(right) == FilterExpr("PROP_NAME", "NO_OP", NotSet, right)
All == FilterExpr("PROP_NAME", "ALL_OP", NotSet, NotSet)

ParsedNode(name, filters) == [name |-> name, filters |-> filters]

(* The name of the node that add_filter makes when there is none yet. *)
RootName == "_root"

AddNodeBehind(nodes, name) ==   \* mutant: the placeholder is not renamed
  Append(nodes, ParsedNode(name, <<>>))

(* add_node: a first node called _root is taken for that placeholder. *)
AddParsedNode(nodes, name) ==
  IF nodes # <<>> /\ nodes[1].name = RootName
    THEN [nodes EXCEPT ![1] = ParsedNode(name, nodes[1].filters)]
    ELSE Append(nodes, ParsedNode(name, <<>>))

AddFilterInFront(nodes, filter) ==   \* mutant: the list of filters is built in reverse
  LET present == IF nodes = <<>> THEN <<ParsedNode(RootName, <<>>)>> ELSE nodes
      last == present[Len(present)]
  IN  [present EXCEPT ![Len(present)] = ParsedNode(last.name, <<filter>> \o last.filters)]

(* add_filter: to the last node there is. *)
AddFilter(nodes, filter) ==
  LET present == IF nodes = <<>> THEN <<ParsedNode(RootName, <<>>)>> ELSE nodes
      last == present[Len(present)]
  IN  [present EXCEPT ![Len(present)] = ParsedNode(last.name, Append(last.filters, filter))]

(* The grammar reduces the filters of an identifier before the identifier. *)
AddPart(nodes, part) == AddParsedNode(FoldLeft(AddFilter, nodes, part.filters), part.name)

Parsed(path) == FoldLeft(AddPart, <<>>, path)

(* The filters of all parts, or of all nodes, in their order. *)
AllFilters(parts) == FoldLeft(LAMBDA s, part : s \o part.filters, <<>>, parts)

(* What the lexer and the grammar let through: a path has a part, every    *)
(* part a name, and every filter but [*] something to compare with.        *)
IsTypedFilter(f) == f.operation # "ALL_OP" => f.right # NotSet

IsTypedPath(path) ==
  /\ path \in Seq(Range(path)) /\ path # <<>>
  /\ \A i \in DOMAIN path :
       /\ path[i].name # NotSet
       /\ path[i].filters \in Seq(Range(path[i].filters))
       /\ \A j \in DOMAIN path[i].filters : IsTypedFilter(path[i].filters[j])

-----------------------------------------------------------------------------
(* convertNodesToFilterChainPathOnly *)
PathChain(nodes) == [i \in DOMAIN nodes |-> Filter("EQUAL", "name", nodes[i].name)]

ExtraFilterOfField(f) ==   \* mutant: [*] is not told from other filters
  Filter("FIELD_NAME", f.left, f.right)

(* Whatever the operator was, a field is compared for equality. *)
ExtraFilter(f) ==
  IF f.operation = "ALL_OP" THEN Filter("ALL", NotSet, NotSet)
                            ELSE Filter("FIELD_NAME", f.left, f.right)

(* strdup of a name that is not set, or of a number *)
ExtraFilterCrashes(f) == f.operation # "ALL_OP" /\ (f.left = NotSet \/ f.right = Number)

(* convertNodesToFilterChain: of the filters, the first one of the first   *)
(* node.                                                                   *)
ExtraFilters(nodes) ==
  IF nodes[1].filters = <<>> THEN <<>> ELSE <<nodes[1].filters[1]>>

Chain(nodes) ==
  LET extra == ExtraFilters(nodes)
  IN  PathChain(nodes) \o [i \in DOMAIN extra |-> ExtraFilter(extra[i])]

ChainCrashes(nodes) ==
  \E i \in DOMAIN ExtraFilters(nodes) : ExtraFilterCrashes(ExtraFilters(nodes)[i])

(* convert_query_args_to_string: one filter is a plain value, several are  *)
(* the attributes of a file.                                               *)
ArgumentsCrash(filters) ==
  \/ filters = <<>>
  \/ Len(filters) = 1 /\ filters[1].right \in {NotSet, Number}
  \/ Len(filters) > 1 /\ \E i \in DOMAIN filters :
       \/ filters[i].type # "LOGICAL_OP" \/ filters[i].operation # "EQUALS_OP"
       \/ ~IsAttribute(filters[i].left) \/ filters[i].right = Number

Arguments(filters) ==
  IF Len(filters) = 1
    THEN <<filters[1].right>>
    ELSE FoldLeft(LAMBDA info, f : SetAttribute(info, f.left, f.right), NoFileInfo, filters)

-----------------------------------------------------------------------------
(* make_request_based_on_query: the chain that is sent, and the value of   *)
(* the node that is created once its parent is known; <<>> where there is  *)
(* none, or where making it ends the client.                               *)
Request(call, chain, value) == [call |-> call, chain |-> chain, value |-> value]

CreateChainWithFilters(nodes) == Chain(nodes)   \* mutant: the attributes select the parent

CreateChain(nodes) == PathChain(nodes)

RequestOf(func, nodes) ==
  CASE func \in {"NOP", "DELETE_OP"} /\ ChainCrashes(nodes) -> Request("crash", <<>>, <<>>)
    [] func = "NOP" /\ ~ChainCrashes(nodes) -> Request("get", Chain(nodes), <<>>)
    [] func = "DELETE_OP" /\ ~ChainCrashes(nodes) -> Request("delete", Chain(nodes), <<>>)
    [] func = "UPDATE_OP" -> Request("nothing", <<>>, <<>>)
    [] func = "CREATE_OP" ->
         Request("create", CreateChain(nodes),
                 IF ArgumentsCrash(nodes[1].filters) THEN <<>> ELSE Arguments(nodes[1].filters))
=============================================================================
