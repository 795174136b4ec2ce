--------------------------- MODULE MCItemIterator ---------------------------
(***************************************************************************)
(* Files of up to three pages of three items: an empty page between two with *)
(* items, pages of tombstones only, and tombstones below and between live items.           *)
(***************************************************************************)
EXTENDS ItemIterator

CONSTANT p

MCPayloads == {p}
=============================================================================
