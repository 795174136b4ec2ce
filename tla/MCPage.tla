------------------------------- MODULE MCPage -------------------------------
(***************************************************************************)
(* A page of 12 bytes with a header of 1 and records of 2, and payloads of *)
(* one, two and four bytes: up to three items, pages that fill exactly,    *)
(* that keep a leftover smaller than a record, and payloads too large.     *)
(***************************************************************************)
EXTENDS Page

CONSTANTS a, b, c

MCPayloads == {a, b, c}
MCSizeOf == [p \in MCPayloads |-> CASE p = a -> 1 [] p = b -> 2 [] p = c -> 4]
=============================================================================
