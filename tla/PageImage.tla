----------------------------- MODULE PageImage -----------------------------
(***************************************************************************)
(* A page seen from above: what module Page shows a page to be, an item    *)
(* store, with the ids it will hand out next.  `next' is next_item_id,     *)
(* `live' maps the ids of the live items to their payloads, and `room' is  *)
(* how many more payloads fit: all payloads have one size, sizeof(Node),   *)
(* because document_persist_new_node makes them all.                       *)
(***************************************************************************)
EXTENDS Integers

CONSTANT Capacity   \* how many payloads fit an empty page

ASSUME CapacityAssumption == Capacity \in Nat \ {0}

NoItems == [s \in {} |-> {}]

(* page_new *)
NewPage(id) == [id |-> id, next |-> 0, room |-> Capacity, live |-> NoItems]

WithItemInSameRoom(page, p) ==   \* mutant: the free space is not taken
  [page EXCEPT !.next = @ + 1,
     !.live = [s \in DOMAIN @ \cup {page.next} |-> IF s = page.next THEN p ELSE @[s]]]

(* page_add_item *)
WithItem(page, p) ==
  [page EXCEPT !.next = @ + 1, !.room = @ - 1,
     !.live = [s \in DOMAIN @ \cup {page.next} |-> IF s = page.next THEN p ELSE @[s]]]

WithoutLastItem(page, s) ==   \* mutant: every delete rewinds next_item_id
  [page EXCEPT !.next = @ - 1, !.room = @ + 1,
     !.live = [t \in DOMAIN @ \ {s} |-> @[t]]]

(* page_delete_item: the last id and its space are taken back, any other   *)
(* id stays behind as a tombstone.                                         *)
WithoutItem(page, s) ==
  LET marked == [page EXCEPT !.live = [t \in DOMAIN @ \ {s} |-> @[t]]]
  IN  IF s = page.next - 1
        THEN [marked EXCEPT !.next = @ - 1, !.room = @ + 1]
        ELSE marked

(* The ids a page handed out and marked deleted. *)
Tombstones(page) == (0..page.next - 1) \ DOMAIN page.live
=============================================================================
