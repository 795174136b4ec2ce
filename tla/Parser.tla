------------------------------- MODULE Parser -------------------------------
(***************************************************************************)
(* The parser of the client's commands (parser/parser.y): what each        *)
(* reduction of the grammar does to the query, while a user types          *)
(*     name filter ... / name filter ... / ...                             *)
(* alone or as the argument of create, update or delete.                   *)
(***************************************************************************)
EXTENDS ParsedQuery

CONSTANTS
  Names,       \* the words that are typed as names
  Filters,     \* the filters that are typed
  MaxParts,    \* bound: parts of a path
  MaxFilters   \* bound: filters of a command

ASSUME ParserAssumption == MaxParts \in Nat \ {0} /\ MaxFilters \in Nat

Comparisons == {"EQUALS_OP", "NOT_EQUALS_OP", "LESS_THAN_OP", "GREATER_THAN_OP"}

(* The forms of a filter in the grammar. *)
ASSUME FiltersAssumption ==
  \A f \in Filters :
    \/ f.operation \in Comparisons /\ f = Compared(f.left, f.operation, f.right)
    \/ f \in {SingleValue(f.right), VarName(f.right), All}

VARIABLES
  func,      \* q->func
  nodes,     \* q->nodes
  typed,     \* what was typed: a sequence of parts, each a name and its filters
  reading,   \* whether the last part is not reduced to an identifier yet
  status,    \* how far the command is
  request    \* what is asked of the server

vars == <<func, nodes, typed, reading, status, request>>

NoRequest == Request("none", <<>>, <<>>)

LastPart == typed[Len(typed)]

TypedFilters == AllFilters(typed)

(* parser_parse_command starts with an empty query. *)
Init ==
  /\ func = "NOP"
  /\ nodes = <<>> /\ typed = <<>> /\ reading = FALSE
  /\ status = "reading" /\ request = NoRequest

(* WORD_T of an identifier *)
Word(name) ==
  /\ status = "reading" /\ ~reading /\ Len(typed) < MaxParts
  /\ typed' = Append(typed, ParsedNode(name, <<>>))
  /\ reading' = TRUE
  /\ UNCHANGED <<func, nodes, status, request>>

(* filters: filter | filters filter *)
ReduceFilter(filter) ==
  /\ status = "reading" /\ reading /\ Len(TypedFilters) < MaxFilters
  /\ typed' = [typed EXCEPT ![Len(typed)] =
                 ParsedNode(LastPart.name, Append(LastPart.filters, filter))]
  /\ nodes' = AddFilter(nodes, filter)
  /\ UNCHANGED <<func, reading, status, request>>

(* path: identifier | path SLASH identifier *)
ReduceIdentifier ==
  /\ status = "reading" /\ reading
  /\ nodes' = AddParsedNode(nodes, LastPart.name)
  /\ reading' = FALSE
  /\ UNCHANGED <<func, typed, status, request>>

(* query: operation EOL, and make_request_based_on_query.  The name of the *)
(* function was the first word of the command, and is kept on the stack of *)
(* the parser until now.                                                   *)
ReduceQuery(f) ==
  /\ status = "reading" /\ ~reading /\ typed # <<>>
  /\ func' = f
  /\ request' = RequestOf(f, nodes)
  /\ status' = IF request'.call = "crash" THEN "crash" ELSE "asked"
  /\ UNCHANGED <<nodes, typed, reading>>

(* A character or a token that does not fit: the client exits. *)
SyntaxError ==
  /\ status = "reading"
  /\ status' = "exit"
  /\ UNCHANGED <<func, nodes, typed, reading, request>>

Next ==
  \/ \E name \in Names : Word(name)
  \/ \E filter \in Filters : ReduceFilter(filter)
  \/ ReduceIdentifier
  \/ \E f \in FunctionTypes : ReduceQuery(f)
  \/ SyntaxError

Spec == Init /\ [][Next]_vars

-----------------------------------------------------------------------------
(* The names, and the filters of all nodes together, are those that were   *)
(* typed, in their order, although a filter is attached before its node    *)
(* exists: no part and no filter is lost on the way into the query.        *)
QueryKeepsWhatWasTyped ==
  LET names(parts) == [i \in DOMAIN parts |-> parts[i].name]
  IN  /\ AllFilters(nodes) = TypedFilters
      /\ ~reading => nodes = Parsed(typed)
      /\ ~reading /\ (\A i \in DOMAIN typed : typed[i].name # RootName) =>
           names(nodes) = names(typed)

(* Only the last part has filters, as in all the examples. *)
FilteredAtTheEnd ==
  /\ \A i \in DOMAIN typed : typed[i].name # RootName
  /\ \A i \in 1..Len(typed) - 1 : typed[i].filters = <<>>

AskedAsTyped ==
  request.chain = PathChain(typed) \o
    [i \in DOMAIN LastPart.filters |-> ExtraFilter(LastPart.filters[i])]

(* A path of one or two parts with one filter at its end, the form of all  *)
(* the paths in examples.txt, asks for what was typed, ...                 *)
ExamplesAskedAsTyped ==
  /\ status = "asked" /\ func \in {"NOP", "DELETE_OP"} /\ FilteredAtTheEnd
  /\ Len(typed) <= 2 /\ Len(LastPart.filters) <= 1
  => AskedAsTyped

(* ... and creates a file with the attributes it names, in whatever order  *)
(* they are named, below the last part.                                    *)
CreatesFileAsTyped ==
  LET filters == LastPart.filters IN
  /\ status = "asked" /\ func = "CREATE_OP" /\ FilteredAtTheEnd /\ Len(typed) <= 2
  /\ \A a \in 1..4 : \E i \in DOMAIN filters : filters[i].left = Attributes[a]
  /\ Len(filters) = 4
  /\ \A i \in 1..4 : filters[i].operation = "EQUALS_OP" /\ filters[i].right # Number
  => /\ request.chain = PathChain(typed)
     /\ \A i \in 1..4 : request.value[WordOf(filters[i].left)] = filters[i].right

(* helpers.c:133 says that a filter at the end asks for the children of    *)
(* the last part, and helpers.c:152 that the last node of the path is      *)
(* taken.                                                                  *)
LastPartFiltered ==
  /\ status = "asked" /\ func \in {"NOP", "DELETE_OP"} /\ FilteredAtTheEnd
  /\ Len(LastPart.filters) = 1
  => AskedAsTyped
=============================================================================
