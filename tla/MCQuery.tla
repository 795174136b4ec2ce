------------------------------ MODULE MCQuery -------------------------------
(***************************************************************************)
(* Every forest of up to four nodes on two pages, of files called a and of *)
(* values of one word, asked with every chain of up to three filters.      *)
(***************************************************************************)
EXTENDS Query

CONSTANT MaxFilters   \* bound: filters of a chain

Places == {<<0, 0>>, <<0, 1>>, <<1, 0>>, <<1, 1>>}

(* A file without obstacles: no item is missing before another of its page. *)
Gapless(S) == \A p \in {0, 1} : <<p, 1>> \in S => <<p, 0>> \in S

MCValues == {StringValue(<<"a", "o", "t", "m">>), StringValue(<<"b">>)}

Rooted(f) ==
  \A S \in SUBSET DOMAIN f : S # {} => \E x \in S : f[x].parent \notin S

MCForests ==
  UNION {{f \in [S -> [parent : S \cup {NoNode}, value : MCValues]] : Rooted(f)} :
           S \in {T \in SUBSET Places : Gapless(T)}}

MCFilters ==
  {Filter("ALL", NotSet, NotSet), Filter("EQUAL", "name", "a"),
   Filter("FIELD_NAME", "owner", "o"), Filter("FIELD_NAME", "size", "b")}

MCChains == UNION {[1..n -> MCFilters] : n \in 0..MaxFilters}
=============================================================================
