--------------------------- MODULE MCPageManager ---------------------------
(***************************************************************************)
(* A file of at most three pages of two items, two payloads that fit and   *)
(* one that does not, and two crashes: enough for a full page, a tombstone *)
(* below a live item, a page lost in page_new, and the hole that the next  *)
(* page leaves in the file.                                                *)
(***************************************************************************)
EXTENDS PageManager

CONSTANTS p, q, big

MCPayloads == {p, q, big}
MCOversize == {big}
=============================================================================
