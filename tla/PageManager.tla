---------------------------- MODULE PageManager ----------------------------
(***************************************************************************)
(* The page manager and the file under it (storage/page_manager/*.c,       *)
(* storage/file_manager.c, storage/file.c): the file header, the pages in  *)
(* the file, the pages allocated in memory, the current free page and one  *)
(* page iterator.                                                          *)
(*                                                                         *)
(* A page is a PageImage.  One step is one write to the file with the      *)
(* memory changes around it, so that a crash can fall between any two      *)
(* writes; a write is atomic.                                              *)
(***************************************************************************)
EXTENDS PageImage, Sequences, FiniteSets

CONSTANTS
  Payloads,    \* the payloads callers store
  Oversize,    \* those that do not fit an empty page
  Leftover,    \* a full page keeps MINIMUM_DATA_PART_SIZE_BYTES or more
  MaxPages,    \* bound: pages of the file
  MaxCrashes   \* bound: crashes of a run

(* page_manager_write_page_on_disk computes offsets in 32 bits, so MaxPages *)
(* stands for at most 4 GiB of pages.                                       *)
ASSUME SizesAssumption ==
  /\ Oversize \subseteq Payloads
  /\ Leftover \in BOOLEAN
  /\ MaxPages \in Nat \ {0} /\ MaxCrashes \in Nat

VARIABLES
  diskHeader,  \* the FileHeader in the file, NoHeader while the file is empty
  disk,        \* the pages in the file, page 0 first
  header,      \* file_manager->header in memory
  cache,       \* allocated_pages, the oldest first
  freePage,    \* current_free_page, an index of cache or NULL
  iter,        \* the page iterator: its current page and next_page_id
  pc,          \* what the process does next
  call,        \* the call in progress: its payload, and who wants a new page
  crashes      \* crashes so far

ram == <<header, cache, freePage, iter, call>>
vars == <<diskHeader, disk, ram, pc, crashes>>

NULL == 0

NoHeader == [count |-> -1, free |-> -1]

NoIter == [on |-> FALSE, page |-> NULL, next |-> 0]

NoCall == [by |-> "none", payload |-> "none"]

(* What fread returns for a page that lies in a hole of the file: zeros. *)
Hole == [id |-> 0, next |-> 0, room |-> -1, live |-> NoItems]

(* The process is between two calls, or inside one. *)
Running == {"idle", "new_header", "new_page", "set_free", "write_item"}

(* ABORT_EXIT, ABORT_IF_FAIL and assert *)
Endings == {"init_assert", "read_failed", "no_space"}

(* file_write of a page: a write behind the end of the file leaves a hole. *)
WritePage(page) ==
  disk' = [i \in 1..(IF page.id < Len(disk) THEN Len(disk) ELSE page.id + 1) |->
             IF i = page.id + 1 THEN page
             ELSE IF i <= Len(disk) THEN disk[i]
             ELSE Hole]

(* page_manager_get_page_from_ram: the newest page of the list wins. *)
InRam(pages, id) == {i \in DOMAIN pages : pages[i].id = id}

Newest(S) == CHOOSE i \in S : \A j \in S : j <= i

ReadPageFromFile(pages, id) ==   \* mutant: the pages in memory are not looked at
  IF id < Len(disk)
    THEN [pages |-> Append(pages, disk[id + 1]), at |-> Len(pages) + 1]
    ELSE [pages |-> Append(pages, NewPage(id)), at |-> NULL]

(* page_manager_read_page of a page below page_count: the list of pages    *)
(* after it and the place of the page in it, NULL when the file is too     *)
(* short; then the page just allocated stays in the list, blank.           *)
ReadPage(pages, id) ==
  IF InRam(pages, id) # {}
    THEN [pages |-> pages, at |-> Newest(InRam(pages, id))]
  ELSE IF id < Len(disk)
    THEN [pages |-> Append(pages, disk[id + 1]), at |-> Len(pages) + 1]
  ELSE [pages |-> Append(pages, NewPage(id)), at |-> NULL]

WriteNoHeader == UNCHANGED diskHeader   \* mutant: the header stays in memory

(* file_manager_write_header *)
WriteHeader == diskHeader' = header'

NextPageIdPastGap == header.count + 1   \* mutant: one id too far

(* next_page(page_manager_get_last_page_id) *)
NextPageId == header.count

(* page_manager_set_pages_count, the header in memory *)
CountPage == header' = [header EXCEPT !.count = @ + 1]

-----------------------------------------------------------------------------
Init ==
  /\ diskHeader = NoHeader /\ disk = <<>>
  /\ header = NoHeader /\ cache = <<>> /\ freePage = NULL /\ iter = NoIter /\ call = NoCall
  /\ pc = "down"
  /\ crashes = 0

(* page_manager_init of an empty file: file_manager_init writes a header *)
InitNewFile ==
  /\ pc = "down" /\ diskHeader = NoHeader
  /\ header' = [count |-> 0, free |-> 0]
  /\ WriteHeader
  /\ pc' = "new_header" /\ call' = [NoCall EXCEPT !.by = "init"]
  /\ UNCHANGED <<disk, cache, freePage, iter, crashes>>

(* page_manager_init of a file with a header; without pages it makes one,  *)
(* otherwise it reads the current free page and asserts that it could.     *)
InitOldFile ==
  /\ pc = "down" /\ diskHeader # NoHeader
  /\ header' = diskHeader
  /\ IF diskHeader.count = 0
       THEN /\ pc' = "new_header" /\ call' = [NoCall EXCEPT !.by = "init"]
            /\ UNCHANGED <<cache, freePage>>
       ELSE LET read == ReadPage(cache, diskHeader.free)
            IN  /\ cache' = read.pages
                /\ freePage' = read.at
                /\ pc' = IF read.at = NULL THEN "init_assert" ELSE "idle"
                /\ UNCHANGED call
  /\ UNCHANGED <<diskHeader, disk, iter, crashes>>

(* page_manager_page_new, up to the header it writes *)
NewPageHeader ==
  /\ pc = "new_header" /\ header.count < MaxPages
  /\ cache' = Append(cache, NewPage(NextPageId))
  /\ CountPage
  /\ WriteHeader
  /\ pc' = "new_page"
  /\ UNCHANGED <<disk, freePage, iter, call, crashes>>

(* page_manager_page_new, the page it writes; page_manager_init keeps the  *)
(* page as the current free page without writing the header again.         *)
NewPageWrite ==
  /\ pc = "new_page"
  /\ WritePage(cache[Len(cache)])
  /\ IF call.by = "init"
       THEN freePage' = Len(cache) /\ pc' = "idle" /\ call' = NoCall
       ELSE pc' = "set_free" /\ UNCHANGED <<freePage, call>>
  /\ UNCHANGED <<diskHeader, header, cache, iter, crashes>>

(* page_manager_get_page_for_data gives up a page whose available space is *)
(* less than MINIMUM_DATA_PART_SIZE_BYTES.                                 *)
TooFull(page) == page.room < 0 \/ (page.room = 0 /\ ~Leftover)

(* page_can_fit_any_payload and page_can_fit_payload *)
CanFit(page, p) == page.room > 0 /\ p \notin Oversize

(* page_manager_set_current_free_page of the new page, then put_item goes  *)
(* on with it: a payload that still does not fit gets one more page when   *)
(* get_page_for_data asked for the first, and ends the process otherwise.  *)
SetFreePage ==
  /\ pc = "set_free"
  /\ freePage' = Len(cache)
  /\ header' = [header EXCEPT !.free = cache[Len(cache)].id]
  /\ WriteHeader
  /\ IF CanFit(cache[Len(cache)], call.payload)
       THEN pc' = "write_item" /\ UNCHANGED call
     ELSE IF call.by = "get_page"
       THEN pc' = "new_header" /\ call' = [call EXCEPT !.by = "put_item"]
     ELSE pc' = "no_space" /\ UNCHANGED call
  /\ UNCHANGED <<disk, cache, iter, crashes>>

(* page_manager_get_page_for_data and page_manager_put_item, up to their   *)
(* first write: the current free page is read again when the pages were    *)
(* freed since, and is replaced when it cannot take the payload.           *)
PutItem(p) ==
  /\ pc = "idle"
  /\ LET read == IF freePage # NULL THEN [pages |-> cache, at |-> freePage]
                 ELSE ReadPage(cache, header.free)
         page == read.pages[read.at]
     IN  /\ cache' = read.pages
         /\ freePage' = read.at
         /\ IF read.at = NULL
              THEN pc' = "read_failed" /\ UNCHANGED call
            ELSE IF TooFull(page)
              THEN pc' = "new_header" /\ call' = [by |-> "get_page", payload |-> p]
            ELSE IF ~CanFit(page, p)
              THEN pc' = "new_header" /\ call' = [by |-> "put_item", payload |-> p]
            ELSE pc' = "write_item" /\ call' = [by |-> "put_item", payload |-> p]
  /\ UNCHANGED <<diskHeader, disk, header, iter, crashes>>

WriteItemInMemory ==   \* mutant: the page is not written
  /\ pc = "write_item"
  /\ cache' = [cache EXCEPT ![freePage] = WithItem(@, call.payload)]
  /\ pc' = "idle" /\ call' = NoCall
  /\ UNCHANGED <<disk, diskHeader, header, freePage, iter, crashes>>

(* page_manager_add_part_of_item: the item goes into the page in memory,   *)
(* and the page to the file.                                               *)
WriteItem ==
  /\ pc = "write_item"
  /\ cache' = [cache EXCEPT ![freePage] = WithItem(@, call.payload)]
  /\ WritePage(cache'[freePage])
  /\ pc' = "idle" /\ call' = NoCall
  /\ UNCHANGED <<diskHeader, header, freePage, iter, crashes>>

(* page_manager_delete_item of an item that the item iterator found on its *)
(* current page.                                                           *)
DeleteItem(s) ==
  /\ pc = "idle" /\ iter.page # NULL
  /\ s \in DOMAIN cache[iter.page].live
  /\ cache' = [cache EXCEPT ![iter.page] = WithoutItem(@, s)]
  /\ WritePage(cache'[iter.page])
  /\ UNCHANGED <<diskHeader, header, freePage, iter, pc, call, crashes>>

(* page_iterator_new, which does not look at the result of the read *)
IteratorNew ==
  /\ pc = "idle" /\ ~iter.on
  /\ LET read == ReadPage(cache, 0)
     IN  cache' = read.pages /\ iter' = [on |-> TRUE, page |-> read.at, next |-> 1]
  /\ UNCHANGED <<diskHeader, disk, header, freePage, pc, call, crashes>>

IteratorNextKeepsPointer ==   \* mutant: current_free_page survives its page
  /\ pc = "idle" /\ iter.page # NULL /\ iter.next < header.count
  /\ LET read == ReadPage(<<>>, iter.next)
     IN  /\ cache' = read.pages
         /\ iter' = [iter EXCEPT !.page = read.at, !.next = @ + 1]
         /\ pc' = IF read.at = NULL THEN "read_failed" ELSE "idle"
  /\ UNCHANGED <<diskHeader, disk, header, call, freePage, crashes>>

(* page_iterator_next: page_manager_free_pages, then a read whose failure  *)
(* ends the process (item_iterator_has_next).                              *)
IteratorNext ==
  /\ pc = "idle" /\ iter.page # NULL /\ iter.next < header.count
  /\ LET read == ReadPage(<<>>, iter.next)
     IN  /\ cache' = read.pages
         /\ iter' = [iter EXCEPT !.page = read.at, !.next = @ + 1]
         /\ pc' = IF read.at = NULL THEN "read_failed" ELSE "idle"
  /\ freePage' = NULL
  /\ UNCHANGED <<diskHeader, disk, header, call, crashes>>

FreePagesUnderIterator ==   \* mutant: pages are freed while an iterator is open
  /\ pc = "idle"
  /\ cache' = <<>> /\ freePage' = NULL
  /\ UNCHANGED <<diskHeader, disk, header, iter, pc, call, crashes>>

(* page_manager_free_pages: by page_iterator_destroy, and by               *)
(* document_persist_new_node when no iterator is open.                     *)
FreePages ==
  /\ pc = "idle"
  /\ cache' = <<>> /\ freePage' = NULL /\ iter' = NoIter
  /\ UNCHANGED <<diskHeader, disk, header, pc, call, crashes>>

(* document_add_root_node returns from the first page without destroying   *)
(* its iterator.                                                           *)
IteratorLeak ==
  /\ pc = "idle" /\ iter.on /\ iter.next = 1
  /\ iter' = NoIter
  /\ UNCHANGED <<diskHeader, disk, header, cache, freePage, pc, call, crashes>>

Forget ==
  /\ header' = NoHeader /\ cache' = <<>> /\ freePage' = NULL /\ iter' = NoIter /\ call' = NoCall
  /\ pc' = "down"

(* page_manager_destroy, or the end of a process that aborted *)
Close ==
  /\ pc = "idle" \/ pc \in Endings
  /\ Forget
  /\ UNCHANGED <<diskHeader, disk, crashes>>

(* The process is killed: what it had written stays, the rest is lost. *)
Crash ==
  /\ pc \in Running /\ crashes < MaxCrashes
  /\ Forget
  /\ crashes' = crashes + 1
  /\ UNCHANGED <<diskHeader, disk>>

Next ==
  \/ InitNewFile \/ InitOldFile
  \/ NewPageHeader \/ NewPageWrite \/ SetFreePage
  \/ \E p \in Payloads : PutItem(p)
  \/ WriteItem
  \/ \E s \in 0..Capacity - 1 : DeleteItem(s)
  \/ IteratorNew \/ IteratorNext \/ IteratorLeak \/ FreePages
  \/ Close \/ Crash

Spec == Init /\ [][Next]_vars

-----------------------------------------------------------------------------
(* Every variable has its type; a page has room for what it does not hold. *)
Images == [id : 0..MaxPages - 1, next : 0..Capacity, room : -1..Capacity,
           live : UNION {[S -> Payloads] : S \in SUBSET (0..Capacity - 1)}]

ImageOK(page) ==
  /\ page \in Images
  /\ \A s \in DOMAIN page.live : s < page.next
  /\ page = Hole \/ page.next + page.room = Capacity

Headers == [count : 0..MaxPages, free : 0..MaxPages - 1]

TypeOK ==
  /\ diskHeader \in Headers \cup {NoHeader} /\ header \in Headers \cup {NoHeader}
  /\ Len(disk) <= MaxPages /\ \A i \in DOMAIN disk : ImageOK(disk[i])
  /\ \A i \in DOMAIN cache : ImageOK(cache[i])
  /\ freePage \in Nat
  /\ iter \in [on : BOOLEAN, page : Nat, next : 0..MaxPages]
  /\ pc \in Running \cup Endings \cup {"down"}
  /\ call \in [by : {"none", "init", "get_page", "put_item"}, payload : Payloads \cup {"none"}]
  /\ crashes \in 0..MaxCrashes

(* The header in memory is the one in the file, and it never counts fewer  *)
(* pages than the file has: a page_new after any crash takes an id behind  *)
(* all the pages ever written, and a page of the file lies where its id    *)
(* says, or was never written.                                             *)
HeaderCoversFile ==
  /\ pc \in Running => header = diskHeader
  /\ Len(disk) <= (IF diskHeader = NoHeader THEN 0 ELSE diskHeader.count)
  /\ \A i \in DOMAIN disk : disk[i].id = i - 1 \/ disk[i] = Hole

(* No page is in memory twice, so no update is made to one copy and lost   *)
(* by writing another.                                                     *)
OneCopyPerPage ==
  pc \in Running => \A i, j \in DOMAIN cache : cache[i].id = cache[j].id => i = j

(* A page in memory is as it is in the file, but for the page that         *)
(* page_new has yet to write.                                              *)
CacheCoherent ==
  pc \in Running =>
    \A i \in DOMAIN cache :
      \/ cache[i] = Hole
      \/ cache[i].id < Len(disk) /\ disk[cache[i].id + 1] = cache[i]
      \/ pc = "new_page" /\ i = Len(cache)

(* The current free page the header names was written before it was named, *)
(* and the pointer to it, unless it was reset, points at an allocated page *)
(* of that id.                                                             *)
FreePageValid ==
  /\ Len(disk) > 0 => diskHeader.free < Len(disk) /\ disk[diskHeader.free + 1] # Hole
  /\ pc \in Running /\ freePage # NULL =>
       freePage \in DOMAIN cache /\ cache[freePage].id = header.free
  /\ pc = "write_item" => freePage # NULL /\ cache[freePage].room > 0

(* While an iterator is open its current page is allocated and is the page *)
(* of the file just before next_page_id, whatever was put meanwhile.       *)
IteratorOnItsPage ==
  pc \in Running /\ iter.on =>
    /\ iter.page \in DOMAIN cache
    /\ iter.next \in DOMAIN disk
    /\ cache[iter.page] = disk[iter.next]

(* Only a crash inside page_new makes the header count pages that cannot   *)
(* be read: without one, every page it counts is in the file, and neither  *)
(* opening, nor iterating, nor putting ever fails to read a page.          *)
ReadableWithoutCrash ==
  crashes = 0 =>
    /\ pc \notin {"init_assert", "read_failed"}
    /\ pc = "idle" => header.count = Len(disk) /\ \A i \in DOMAIN disk : disk[i] # Hole

(* page_manager.c:32 says of the lines that open a file that they work     *)
(* both with an empty file and with one which contains data: the assertion *)
(* that ends them never fails.                                             *)
InitAssertionHolds == pc # "init_assert"

(* The items of the file, by page and item id. *)
Stored ==
  [id \in UNION {{<<i - 1, s>> : s \in DOMAIN disk[i].live} : i \in DOMAIN disk} |->
     disk[id[1] + 1].live[id[2]]]

ItemIds == (0..MaxPages - 1) \X (0..Capacity - 1)

Abstract == INSTANCE ItemStore WITH Ids <- ItemIds, store <- Stored

(* The items of the file are an item store: whatever page is allocated,    *)
(* read, freed or written, and wherever the process is killed, the file    *)
(* gains the one item that is put and loses the one that is deleted.       *)
ImplementsItemStore == Abstract!Spec
=============================================================================
