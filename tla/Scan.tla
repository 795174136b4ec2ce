-------------------------------- MODULE Scan --------------------------------
(***************************************************************************)
(* What a loop over an item iterator does to a file that nobody changes    *)
(* meanwhile: the loops of document.c all call item_iterator_has_next and  *)
(* item_iterator_next until they find what they look for.  Module          *)
(* ItemIterator models the iterator step by step and checks that it visits *)
(* exactly what is said here.                                              *)
(*                                                                         *)
(* `pages' is a file: the PageImages of its pages, page 0 first.  The id   *)
(* of an item is <<page id, item id>>, a node_id_t or an item_index_t.     *)
(***************************************************************************)
EXTENDS PageImage, Sequences, FiniteSets

(* The items that can be read, and what they hold. *)
ItemsOf(pages) ==
  UNION {{<<k - 1, s>> : s \in DOMAIN pages[k].live} : k \in DOMAIN pages}

ItemAt(pages, x) == pages[x[1] + 1].live[x[2]]

(* The order of an iteration. *)
Before(x, y) == x[1] < y[1] \/ (x[1] = y[1] /\ x[2] < y[2])

First(S) == CHOOSE x \in S : \A y \in S : y = x \/ Before(x, y)

(* item_iterator_has_next skips a page whose items_count is 0, but it does *)
(* not look at the items_count of page 0.                                  *)
Visible(pages) == {k \in DOMAIN pages : k = 1 \/ DOMAIN pages[k].live # {}}

(* The deleted items an iteration runs into: page_get_item asserts that    *)
(* the item it reads is not deleted.                                       *)
Obstacles(pages) ==
  UNION {{<<k - 1, s>> : s \in Tombstones(pages[k])} : k \in Visible(pages)}

(* A loop that looks for one of the items S finds it, or reads a deleted   *)
(* item before, or neither: it comes to the end of the file.               *)
Finds(pages, S) == S # {} /\ \A t \in Obstacles(pages) : Before(First(S), t)

Trips(pages, S) == Obstacles(pages) # {} /\ ~Finds(pages, S)

Ends(pages, S) == S = {} /\ Obstacles(pages) = {}
=============================================================================
