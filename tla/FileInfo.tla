------------------------------ MODULE FileInfo ------------------------------
(***************************************************************************)
(* The values of nodes as files (common/public/structures.c) and the       *)
(* conditions the server makes of filters (server/fs.c).  The string of a  *)
(* value is its words: strtok splits it at blanks, and the string that is  *)
(* compared as a whole never has a blank, because the client's lexer       *)
(* leaves none in a word.                                                  *)
(***************************************************************************)
EXTENDS Naturals, Sequences

(* FileInfoAttributes, in the order of the words of a value. *)
Attributes == <<"name", "owner", "access_time", "mime_type">>

(* contains_file_info_attribute and file_info_attribute_from_string *)
IsAttribute(name) == \E k \in DOMAIN Attributes : Attributes[k] = name

WordOf(name) == CHOOSE k \in DOMAIN Attributes : Attributes[k] = name

(* A NodeValue; the types with a number or a flag have no string. *)
Value(type, words) == [type |-> type, words |-> words]

StringValue(words) == Value("STRING", words)

(* parse_file_info leaves NULL for the words that a value does not have. *)
HasWord(value, name) == value.type = "STRING" /\ WordOf(name) <= Len(value.words)

IsFileInfo(value) == \A k \in DOMAIN Attributes : HasWord(value, Attributes[k])

(* A FileInfo whose fields are NULL, as file_info_to_string prints them. *)
NoFileInfo == [k \in DOMAIN Attributes |-> "(null)"]

SetFirstAttribute(info, name, word) ==   \* mutant: the field is not chosen by its name
  [info EXCEPT ![IF info[1] = "(null)" THEN 1 ELSE WordOf(name)] = word]

SetAttribute(info, name, word) == [info EXCEPT ![WordOf(name)] = word]

-----------------------------------------------------------------------------
(* Rpc__Filter.  A field that is not set is NotSet. *)
NotSet == "NULL"

Filter(type, name, argument) == [type |-> type, name |-> name, argument |-> argument]

(* fs_new_node_matcher_array aborts on a filter without name or argument. *)
Rejected(filter) == filter.type # "ALL" /\ (filter.name = NotSet \/ filter.argument = NotSet)

(* A NodeConditionFunc: node_condition_all, fs_new_attribute_condition,    *)
(* fs_single_argument_condition, and node_condition_parent_id_eq.          *)
ConditionOf(filter) ==
  CASE filter.type = "ALL"     -> [kind |-> "all"]
    [] IsAttribute(filter.name) /\ filter.type # "ALL" ->
         [kind |-> "attribute", name |-> filter.name, word |-> filter.argument]
    [] OTHER                   -> [kind |-> "value", word |-> filter.argument]

ParentIs(id) == [kind |-> "parent", id |-> id]

Verdict(holds) == IF holds THEN "yes" ELSE "no"

(* A condition asserts that the value is a string, and strcmp of a field   *)
(* that parse_file_info left NULL ends the process.                        *)
Evaluate(condition, node) ==
  CASE condition.kind = "all"    -> "yes"
    [] condition.kind = "parent" -> Verdict(node.parent = condition.id)
    [] condition.kind = "attribute" ->
         IF HasWord(node.value, condition.name)
           THEN Verdict(node.value.words[WordOf(condition.name)] = condition.word)
           ELSE "crash"
    [] condition.kind = "value" ->
         IF node.value.type = "STRING" THEN Verdict(node.value.words = <<condition.word>>)
                                       ELSE "crash"

(* node_condition_matches: the first condition that is not met decides, so *)
(* that the conditions behind it are not evaluated.                        *)
Decide(matcher, node) ==
  LET unmet == {i \in DOMAIN matcher : Evaluate(matcher[i], node) # "yes"}
  IN  IF unmet = {} THEN "yes"
      ELSE Evaluate(matcher[CHOOSE i \in unmet : \A j \in unmet : i <= j], node)
=============================================================================
