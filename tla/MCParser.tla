------------------------------ MODULE MCParser ------------------------------
(***************************************************************************)
(* Commands of up to three parts and four filters: enough for a file with  *)
(* all its attributes, and for filters on every part.                      *)
(***************************************************************************)
EXTENDS Parser

MCNames == {"a", RootName}

MCFilters ==
  {Compared("name", "EQUALS_OP", "n"), Compared("owner", "EQUALS_OP", "o"),
   Compared("access_time", "EQUALS_OP", "t"), Compared("mime_type", "EQUALS_OP", "m"),
   Compared("owner", "LESS_THAN_OP", Number), All, SingleValue("w")}
=============================================================================
