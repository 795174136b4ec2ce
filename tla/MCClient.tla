------------------------------ MODULE MCClient ------------------------------
(***************************************************************************)
(* One console and a caller, on three pages of two nodes: room for every   *)
(* add MaxAdds allows, so that the bound on pages never stops the server,  *)
(* and for the file of init, the example, and a create between two lines.  *)
(***************************************************************************)
EXTENDS Client

CONSTANTS c1, r1

File(name) == <<name, "o", "t", "m">>

Attribute(k, word) == Compared(Attributes[k], "EQUALS_OP", word)

MCValues ==
  {StringValue(w) : w \in {File("r"), File("a"), File("n"), <<"a">>, <<"b">>, <<"c">>, <<"d">>, <<"e">>}}

MCInitLines ==
  <<Line(0, NoNode, File("r")), Line(1, NoId, File("a")), Line(1, NoId, File("n"))>>

NewFile ==
  <<Attribute(2, "o"), Attribute(1, "n"), Attribute(3, "t"), Attribute(4, "m")>>

Command(func, path) == [func |-> func, path |-> path]

MCCommands ==
  {Command("NOP", <<ParsedNode("r", <<All>>)>>),
   Command("CREATE_OP", <<ParsedNode("r", <<>>), ParsedNode("a", NewFile)>>),
   Command("DELETE_OP", <<ParsedNode("r", <<>>), ParsedNode("a", <<>>)>>)}

MCRawRequests ==
  {[method |-> "get_node", id |-> <<0, 0>>],
   [method |-> "delete_node", id |-> <<0, 1>>],
   [method |-> "update_node", id |-> <<0, 2>>, value |-> StringValue(File("n"))],
   CreateNode(NoNode, StringValue(File("n"))),
   CreateNode(<<0, 1>>, StringValue(File("a"))),
   CreateNode(<<0, 1>>, Value("UNKNOWN", <<>>)),
   DeleteNodes(<<Filter("EQUAL", "name", "r")>>)}
=============================================================================
