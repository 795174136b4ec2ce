----------------------------- MODULE MCDocument -----------------------------
(***************************************************************************)
(* Three pages of two nodes: chains of six nodes, directories with entries *)
(* on one page and on several, and an obstacle in every place.             *)
(***************************************************************************)
EXTENDS Document

CONSTANT val

MCValues == {val}
=============================================================================
