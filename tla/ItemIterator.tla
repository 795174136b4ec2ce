---------------------------- MODULE ItemIterator ----------------------------
(***************************************************************************)
(* The item iterator over the page iterator (page_manager_iter.c), stepped *)
(* by a loop `while (has_next) next' over a file that is only changed      *)
(* between two loops.  What such a loop visits, and where it trips over a  *)
(* deleted item, is what module Scan says in one operator.                 *)
(***************************************************************************)
EXTENDS Scan

CONSTANTS
  Payloads,   \* the payloads callers store
  MaxPages    \* bound: pages of the file

ASSUME MaxPagesAssumption == MaxPages \in Nat \ {0}

VARIABLES
  pages,    \* the file, page 0 first
  page,     \* page_iterator: current_page, the page before next_page_id
  index,    \* current_item_index
  answer,   \* what item_iterator_has_next said last, "unknown" or "closed"
  read,     \* the ids item_iterator_next has returned
  proc      \* "up", or how the process ended

iterator == <<page, index, answer, read>>
vars == <<pages, iterator, proc>>

Endings == {"up", "read_deleted", "no_more_items", "out_of_range"}

-----------------------------------------------------------------------------
Init ==
  /\ pages = <<NewPage(0)>>
  /\ page = 1 /\ index = -1 /\ answer = "closed" /\ read = <<>>
  /\ proc = "up"

(* page_manager_put_item: the current free page is the newest one. *)
PutItem(p) ==
  /\ answer = "closed"
  /\ IF pages[Len(pages)].room > 0
       THEN pages' = [pages EXCEPT ![Len(pages)] = WithItem(@, p)]
       ELSE /\ Len(pages) < MaxPages
            /\ pages' = Append(pages, WithItem(NewPage(Len(pages)), p))
  /\ UNCHANGED <<iterator, proc>>

(* page_manager_delete_item *)
DeleteItem(x) ==
  /\ answer = "closed"
  /\ x \in ItemsOf(pages)
  /\ pages' = [pages EXCEPT ![x[1] + 1] = WithoutItem(@, x[2])]
  /\ UNCHANGED <<iterator, proc>>

(* item_iterator_new, with page_iterator_new *)
New ==
  /\ answer = "closed"
  /\ page' = 1 /\ index' = -1 /\ answer' = "unknown" /\ read' = <<>>
  /\ UNCHANGED <<pages, proc>>

(* The page item_iterator_has_next goes on to: pages without live items    *)
(* are passed over.                                                        *)
LaterPages == {k \in page + 1..Len(pages) : DOMAIN pages[k].live # {}}

NextPage == CHOOSE k \in LaterPages : \A m \in LaterPages : k <= m

AdvanceKeepsIndex ==   \* mutant: current_item_index is not reset on a new page
  IF index + 1 < pages[page].next
    THEN [page |-> page, index |-> index, answer |-> "yes"]
  ELSE IF LaterPages # {}
    THEN [page |-> NextPage, index |-> index, answer |-> "yes"]
  ELSE [page |-> Len(pages), index |-> index, answer |-> "no"]

AdvanceStuck ==   \* mutant: next_page_id is not incremented, an empty page comes again
  IF index + 1 < pages[page].next
    THEN [page |-> page, index |-> index, answer |-> "yes"]
  ELSE IF page + 1 \in LaterPages
    THEN [page |-> page + 1, index |-> -1, answer |-> "yes"]
  ELSE [page |-> page, index |-> index,
        answer |-> IF page < Len(pages) THEN "unknown" ELSE "no"]

(* item_iterator_has_next: the current page as long as it has ids left,    *)
(* then page_iterator_next until a page has items.                         *)
Advance ==
  IF index + 1 < pages[page].next
    THEN [page |-> page, index |-> index, answer |-> "yes"]
  ELSE IF LaterPages # {}
    THEN [page |-> NextPage, index |-> -1, answer |-> "yes"]
  ELSE [page |-> Len(pages), index |-> index, answer |-> "no"]

(* The loop asks; item_iterator_next asks again by itself. *)
HasNext ==
  /\ proc = "up" /\ answer \in {"unknown", "yes"}
  /\ page' = Advance.page /\ index' = Advance.index /\ answer' = Advance.answer
  /\ UNCHANGED <<pages, read, proc>>

NextItemSkipsDeleted ==   \* mutant: page_get_item does not assert
  /\ proc = "up" /\ answer = "yes" /\ Advance.answer = "yes"
  /\ page' = Advance.page /\ index' = Advance.index + 1 /\ answer' = "unknown"
  /\ read' = IF index' \in DOMAIN pages[page'].live
               THEN Append(read, <<page' - 1, index'>>) ELSE read
  /\ UNCHANGED <<pages, proc>>

NextItemUnchecked ==   \* mutant: page_get_item hands out deleted items
  /\ proc = "up" /\ answer = "yes"
  /\ page' = Advance.page /\ index' = Advance.index + 1 /\ answer' = "unknown"
  /\ read' = Append(read, <<page' - 1, index'>>)
  /\ UNCHANGED <<pages, proc>>

(* item_iterator_next: has_next once more, then page_get_item of the next  *)
(* id, by page_manager_calculate_large_item_size and page_manager_get_item. *)
NextItem ==
  /\ proc = "up" /\ answer = "yes"
  /\ page' = Advance.page /\ index' = Advance.index + 1 /\ answer' = "unknown"
  /\ IF Advance.answer = "no"
       THEN proc' = "no_more_items" /\ UNCHANGED read
     ELSE IF index' >= pages[page'].next
       THEN proc' = "out_of_range" /\ UNCHANGED read
     ELSE IF index' \notin DOMAIN pages[page'].live
       THEN proc' = "read_deleted" /\ UNCHANGED read
     ELSE read' = Append(read, <<page' - 1, index'>>) /\ UNCHANGED proc
  /\ UNCHANGED pages

(* item_iterator_destroy: after the loop, or from inside it when the       *)
(* caller found what it wanted.                                            *)
Destroy ==
  /\ proc = "up" /\ answer \in {"unknown", "no"}
  /\ page' = 1 /\ index' = -1 /\ answer' = "closed" /\ read' = <<>>
  /\ UNCHANGED <<pages, proc>>

Next ==
  \/ \E p \in Payloads : PutItem(p)
  \/ \E x \in ItemsOf(pages) : DeleteItem(x)
  \/ New \/ HasNext \/ NextItem \/ Destroy

(* The loop is one thread of straight code: it takes its next step. *)
Spec == Init /\ [][Next]_vars /\ WF_vars(HasNext) /\ WF_vars(NextItem)

-----------------------------------------------------------------------------
(* Every variable has its type, and what was read are items of the file.   *)
TypeOK ==
  /\ Len(pages) \in 1..MaxPages /\ page \in DOMAIN pages
  /\ index \in -1..Capacity
  /\ answer \in {"closed", "unknown", "yes", "no"}
  /\ \A i \in DOMAIN read : read[i] \in ItemsOf(pages)
  /\ proc \in Endings

ReadSoFar == {read[i] : i \in DOMAIN read}

(* Items come in the order of their ids, each once, and none is passed     *)
(* over: whatever was deleted before, on whatever pages.                   *)
VisitsInOrder ==
  /\ \A i, j \in DOMAIN read : i < j => Before(read[i], read[j])
  /\ \A x \in ItemsOf(pages) : \A y \in ReadSoFar : Before(x, y) => x \in ReadSoFar

(* A loop that comes to its end has visited every item of the file, and    *)
(* there was nothing to trip over.  One that trips does so at the first    *)
(* deleted item on a page it looks at: before it, every item was visited,  *)
(* and none after it ever is.                                              *)
EndsWithAllOrTrips ==
  /\ answer = "no" => ReadSoFar = ItemsOf(pages) /\ Obstacles(pages) = {}
  /\ proc = "read_deleted" =>
       /\ Obstacles(pages) # {}
       /\ ReadSoFar = {x \in ItemsOf(pages) : Before(x, First(Obstacles(pages)))}
  /\ \A y \in ReadSoFar : \A t \in Obstacles(pages) : Before(y, t)
  /\ proc \in {"up", "read_deleted"}

(* Every loop comes to an end: the file is done, an item was read deleted, *)
(* or the caller left the loop.                                            *)
LoopEnds == answer \in {"unknown", "yes"} ~> answer \in {"no", "closed"} \/ proc # "up"
=============================================================================
