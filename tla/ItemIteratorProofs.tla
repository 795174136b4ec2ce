------------------------- MODULE ItemIteratorProofs -------------------------
(***************************************************************************)
(* What a loop over the item iterator visits, for files of any size and    *)
(* any tombstones on them.  The items read are those the cursor has passed *)
(* (Reading), and it passes no obstacle but the one it trips over          *)
(* (Tripping).                                                             *)
(***************************************************************************)
EXTENDS ItemIterator, OperatorProofs

(* The pages, with ids below next_item_id and the room they left over. *)
FileShape ==
  /\ pages \in Seq(ImageSet(Payloads))
  /\ Len(pages) \in 1..MaxPages
  /\ \A k \in DOMAIN pages :
       /\ pages[k].room = Capacity - pages[k].next
       /\ \A s \in DOMAIN pages[k].live : s < pages[k].next

(* Where the iterator stands: on a page it looks at, or behind the file. *)
Cursor ==
  /\ page \in 1..Len(pages) /\ index \in -1..Capacity - 1
  /\ answer \in {"closed", "unknown", "yes", "no"}
  /\ proc \in {"up", "read_deleted"}
  /\ answer = "closed" => proc = "up" /\ page = 1 /\ index = -1 /\ read = <<>>
  /\ answer = "yes" => proc = "up" /\ index + 1 < pages[page].next
  /\ answer = "no" => proc = "up"
  /\ answer # "no" => page \in Visible(pages)

(* The ids up to a cursor, and up to the iterator's. *)
PassedBy(k, i, x) == x[1] < k - 1 \/ (x[1] = k - 1 /\ x[2] <= i)

Passed(x) == PassedBy(page, index, x)

Reading ==
  /\ read \in Seq(ItemsOf(pages))
  /\ \A x \in ItemsOf(pages) : Passed(x) <=> \E i \in DOMAIN read : read[i] = x
  /\ \A i, j \in DOMAIN read : i < j => Before(read[i], read[j])

Tripping ==
  /\ proc = "up" => \A t \in Obstacles(pages) : ~Passed(t)
  /\ proc = "read_deleted" =>
       /\ <<page - 1, index>> \in Obstacles(pages)
       /\ \A t \in Obstacles(pages) : t = <<page - 1, index>> \/ ~Passed(t)
  /\ answer = "no" => \A x \in ItemsOf(pages) \cup Obstacles(pages) : Passed(x)

IInv == FileShape /\ Cursor /\ Reading /\ Tripping

-----------------------------------------------------------------------------
(* What is known of each page of the file. *)
LEMMA PagesAre ==
  ASSUME FileShape
  PROVE  /\ Len(pages) \in Nat \ {0} /\ DOMAIN pages = 1..Len(pages)
         /\ \A k \in 1..Len(pages) :
              /\ pages[k] \in ImageSet(Payloads)
              /\ pages[k].next \in 0..Capacity
              /\ \A s \in DOMAIN pages[k].live : s \in 0..pages[k].next - 1
<1>1. Len(pages) \in Nat \ {0} /\ DOMAIN pages = 1..Len(pages)
  BY MaxPagesAssumption DEF FileShape
<1>2. ASSUME NEW k \in 1..Len(pages)
      PROVE  /\ pages[k] \in ImageSet(Payloads)
             /\ pages[k].next \in 0..Capacity
             /\ \A s \in DOMAIN pages[k].live : s \in 0..pages[k].next - 1
  <2>1. pages[k] \in ImageSet(Payloads)
    BY <1>1 DEF FileShape
  <2>2. pages[k].next \in 0..Capacity /\ pages[k].live \in LiveMaps(Payloads)
    BY <2>1 DEF ImageSet
  <2>3. \A s \in DOMAIN pages[k].live : s \in 0..Capacity - 1 /\ s < pages[k].next
    BY <1>1, <2>2, LiveMapsAre DEF FileShape
  <2> QED
    BY <2>1, <2>2, <2>3, CapacityAssumption
<1> QED
  BY <1>1, <1>2

(* The items and the obstacles by page. *)
LEMMA ItemsAre ==
  ASSUME NEW f, NEW x
  PROVE  x \in ItemsOf(f) <=>
           \E k \in DOMAIN f : \E s \in DOMAIN f[k].live : x = <<k - 1, s>>
  BY DEF ItemsOf

LEMMA ObstaclesAre ==
  ASSUME NEW f, NEW x
  PROVE  x \in Obstacles(f) <=>
           \E k \in Visible(f) : \E s \in Tombstones(f[k]) : x = <<k - 1, s>>
  BY DEF Obstacles

(* Each is an id of a page the iterator looks at, and none is both. *)
LEMMA PlacesAre ==
  ASSUME FileShape, NEW x \in ItemsOf(pages) \cup Obstacles(pages)
  PROVE  /\ x = <<x[1], x[2]>> /\ x[1] \in Nat /\ x[2] \in Nat
         /\ x[1] + 1 \in 1..Len(pages) /\ x[1] + 1 \in Visible(pages)
         /\ x[2] < pages[x[1] + 1].next
         /\ x \in ItemsOf(pages) <=> x[2] \in DOMAIN pages[x[1] + 1].live
         /\ x \in Obstacles(pages) <=> x[2] \notin DOMAIN pages[x[1] + 1].live
<1>1. PICK k \in 1..Len(pages) :
         /\ k \in Visible(pages)
         /\ \E s \in 0..pages[k].next - 1 : x = <<k - 1, s>>
  <2>1. CASE x \in ItemsOf(pages)
    BY <2>1, ItemsAre, PagesAre DEF Visible
  <2>2. CASE x \in Obstacles(pages)
    BY <2>2, ObstaclesAre, PagesAre DEF Visible, Tombstones
  <2> QED
    BY <2>1, <2>2
<1>2. PICK s \in 0..pages[k].next - 1 : x = <<k - 1, s>>
  BY <1>1
<1>3. /\ k = x[1] + 1 /\ s = x[2] /\ k - 1 \in Nat /\ pages[k].next \in 0..Capacity
      /\ x[1] \in Nat /\ x[2] \in Nat /\ x[2] < pages[k].next
  BY <1>2, PagesAre, CapacityAssumption
<1>4. x \in ItemsOf(pages) <=> s \in DOMAIN pages[k].live
  BY <1>2, <1>3, ItemsAre, PagesAre
<1>5. x \in Obstacles(pages) <=> s \notin DOMAIN pages[k].live
  <2>1. s \notin DOMAIN pages[k].live => x \in Obstacles(pages)
    BY <1>1, <1>2, ObstaclesAre DEF Tombstones
  <2>2. ASSUME x \in Obstacles(pages) PROVE s \notin DOMAIN pages[k].live
    <3>1. PICK m \in Visible(pages) : \E t \in Tombstones(pages[m]) : x = <<m - 1, t>>
      BY <2>2, ObstaclesAre
    <3>2. m \in 1..Len(pages)
      BY PagesAre DEF Visible
    <3>3. m = k
      BY <1>2, <3>1, <3>2
    <3> QED
      BY <1>2, <3>1, <3>3 DEF Tombstones
  <2> QED
    BY <2>1, <2>2
<1> QED
  BY <1>1, <1>2, <1>3, <1>4, <1>5

(* item_iterator_has_next: the cursor passes no item and no obstacle, it   *)
(* ends before an id of a page it looks at, or behind all of them.         *)
LEMMA AdvanceIs ==
  ASSUME FileShape, Cursor, answer \in {"unknown", "yes"}
  PROVE  /\ Advance.page \in 1..Len(pages) /\ Advance.index \in -1..Capacity - 1
         /\ Advance.answer \in {"yes", "no"}
         /\ \A x \in ItemsOf(pages) \cup Obstacles(pages) :
              PassedBy(Advance.page, Advance.index, x) <=> Passed(x)
         /\ Advance.answer = "yes" =>
              /\ Advance.index + 1 < pages[Advance.page].next
              /\ Advance.page \in Visible(pages)
         /\ Advance.answer = "no" =>
              \A x \in ItemsOf(pages) \cup Obstacles(pages) : Passed(x)
<1>1. /\ page \in 1..Len(pages) /\ index \in -1..Capacity - 1
      /\ page \in Visible(pages) /\ Len(pages) \in Nat \ {0}
      /\ \A k \in 1..Len(pages) : pages[k].next \in 0..Capacity
  BY PagesAre DEF Cursor
<1>2. CASE index + 1 < pages[page].next
  BY <1>1, <1>2 DEF Advance, Passed
<1>3. CASE ~(index + 1 < pages[page].next) /\ LaterPages # {}
  <2>1. LaterPages \subseteq Nat
    BY <1>1 DEF LaterPages
  <2>2. \E k \in LaterPages : \A m \in LaterPages : k <= m
    BY <1>3, <2>1, LeastNumber
  <2>3. NextPage \in LaterPages /\ \A m \in LaterPages : NextPage <= m
    BY <2>2 DEF NextPage
  <2>4. Advance = [page |-> NextPage, index |-> -1, answer |-> "yes"]
    BY <1>3 DEF Advance
  <2>5. /\ NextPage \in page + 1..Len(pages)
        /\ DOMAIN pages[NextPage].live # {}
    BY <2>3 DEF LaterPages
  <2>6. NextPage \in 1..Len(pages) /\ NextPage > page
    BY <1>1, <2>5
  <2>7. NextPage \in Visible(pages) /\ 0 < pages[NextPage].next
    BY <1>1, <2>5, <2>6, PagesAre DEF Visible
  <2>8. ASSUME NEW x \in ItemsOf(pages) \cup Obstacles(pages)
        PROVE  PassedBy(NextPage, -1, x) <=> Passed(x)
    <3>1. /\ x[1] \in Nat /\ x[2] \in Nat /\ x[1] + 1 \in 1..Len(pages)
          /\ x[1] + 1 \in Visible(pages) /\ x[2] < pages[x[1] + 1].next
      BY PlacesAre
    <3>2. CASE x[1] + 1 = page
      BY <1>1, <1>3, <2>6, <3>1, <3>2 DEF PassedBy, Passed
    <3>3. CASE x[1] + 1 < page
      BY <1>1, <2>6, <3>1, <3>3 DEF PassedBy, Passed
    <3>4. CASE x[1] + 1 > page
      <4>1. x[1] + 1 \in LaterPages
        BY <1>1, <3>1, <3>4 DEF Visible, LaterPages
      <4> QED
        BY <1>1, <2>3, <2>6, <3>1, <3>4, <4>1 DEF PassedBy, Passed
    <3> QED
      BY <1>1, <3>1, <3>2, <3>3, <3>4
  <2> QED
    BY <1>1, <2>4, <2>6, <2>7, <2>8, CapacityAssumption
<1>4. CASE ~(index + 1 < pages[page].next) /\ LaterPages = {}
  <2>1. Advance = [page |-> Len(pages), index |-> index, answer |-> "no"]
    BY <1>4 DEF Advance
  <2>2. ASSUME NEW x \in ItemsOf(pages) \cup Obstacles(pages)
        PROVE  PassedBy(Len(pages), index, x) /\ Passed(x)
    <3>1. /\ x[1] \in Nat /\ x[2] \in Nat /\ x[1] + 1 \in 1..Len(pages)
          /\ x[1] + 1 \in Visible(pages) /\ x[2] < pages[x[1] + 1].next
      BY PlacesAre
    <3>2. x[1] + 1 <= page
      BY <1>1, <1>4, <3>1 DEF Visible, LaterPages
    <3> QED
      BY <1>1, <1>4, <3>1, <3>2 DEF PassedBy, Passed
  <2> QED
    BY <1>1, <2>1, <2>2
<1> QED
  BY <1>2, <1>3, <1>4

-----------------------------------------------------------------------------
(* While no iterator is open nothing is read and no id is passed. *)
Closed == page = 1 /\ index = -1 /\ read = <<>> /\ answer = "closed" /\ proc = "up"

LEMMA ClosedIs == FileShape /\ Closed => IInv
<1> SUFFICES ASSUME FileShape, page = 1, index = -1, read = <<>>, answer = "closed", proc = "up"
             PROVE  IInv
  BY DEF Closed
<1>1. Cursor
  BY PagesAre, CapacityAssumption DEF Cursor, Visible
<1>2. \A x \in ItemsOf(pages) \cup Obstacles(pages) : ~Passed(x)
  BY PlacesAre DEF Passed, PassedBy
<1>3. Reading
  BY <1>2 DEF Reading
<1> QED
  BY <1>1, <1>2, <1>3 DEF IInv, Tripping

LEMMA InitInv == Init => IInv
<1> SUFFICES ASSUME Init PROVE IInv
  OBVIOUS
<1>1. NewPage(0) \in ImageSet(Payloads)
  BY NewPageIs
<1>2. FileShape
  <2> DEFINE new == NewPage(0)
  <2>1. /\ new \in ImageSet(Payloads) /\ new.room = Capacity - new.next
        /\ DOMAIN new.live = {}
    BY <1>1, NewPageIs, CapacityAssumption
  <2>2. pages = <<new>>
    BY DEF Init
  <2> HIDE DEF new
  <2>3. pages \in Seq(ImageSet(Payloads)) /\ Len(pages) = 1 /\ DOMAIN pages = {1}
    BY <2>1, <2>2
  <2> QED
    BY <2>1, <2>2, <2>3, MaxPagesAssumption DEF FileShape
<1>3. Closed
  BY DEF Init, Closed
<1> QED
  BY <1>2, <1>3, ClosedIs

(* The file stays well formed when an item is put... *)
LEMMA PutShape ==
  ASSUME IInv, NEW p \in Payloads, PutItem(p)
  PROVE  FileShape'
<1> DEFINE last == Len(pages)
<1>1. /\ last \in Nat \ {0} /\ last \in 1..last /\ DOMAIN pages = 1..last
      /\ pages \in Seq(ImageSet(Payloads)) /\ last \in 1..MaxPages
      /\ \A k \in 1..last : pages[k] \in ImageSet(Payloads)
  BY PagesAre DEF IInv, FileShape
<1>2. ASSUME NEW page0 \in ImageSet(Payloads), page0.next < Capacity,
             page0.room = Capacity - page0.next,
             \A s \in DOMAIN page0.live : s < page0.next
      PROVE  /\ WithItem(page0, p) \in ImageSet(Payloads)
             /\ WithItem(page0, p).room = Capacity - WithItem(page0, p).next
             /\ \A s \in DOMAIN WithItem(page0, p).live : s < WithItem(page0, p).next
  <2>1. /\ WithItem(page0, p) \in ImageSet(Payloads)
        /\ WithItem(page0, p).next = page0.next + 1
        /\ WithItem(page0, p).room = page0.room - 1
        /\ DOMAIN WithItem(page0, p).live = DOMAIN page0.live \cup {page0.next}
    BY <1>2, WithItemIs
  <2>2. /\ page0.next \in 0..Capacity /\ Capacity \in Nat
        /\ \A s \in DOMAIN page0.live : s \in 0..Capacity - 1
    BY <1>2, LiveMapsAre, CapacityAssumption DEF ImageSet
  <2> QED
    BY <1>2, <2>1, <2>2
<1>3. CASE pages[last].room > 0
  <2> DEFINE new == WithItem(pages[last], p)
  <2>1. pages' = [pages EXCEPT ![last] = new]
    BY <1>3 DEF PutItem
  <2>2. pages[last].next < Capacity /\ pages[last].next \in Nat
    BY <1>1, <1>3, PagesAre, CapacityAssumption DEF IInv, FileShape
  <2>3. /\ new \in ImageSet(Payloads) /\ new.room = Capacity - new.next
        /\ \A s \in DOMAIN new.live : s < new.next
    BY <1>1, <1>2, <2>2 DEF IInv, FileShape
  <2> HIDE DEF new
  <2> QED
    BY <1>1, <2>1, <2>3 DEF IInv, FileShape
<1>4. CASE ~(pages[last].room > 0)
  <2> DEFINE new == WithItem(NewPage(last), p)
  <2>1. pages' = Append(pages, new) /\ last < MaxPages
    BY <1>4 DEF PutItem
  <2>2. NewPage(last).next < Capacity /\ NewPage(last) \in ImageSet(Payloads)
        /\ NewPage(last).room = Capacity - NewPage(last).next /\ DOMAIN NewPage(last).live = {}
    BY <1>1, NewPageIs, CapacityAssumption
  <2>3. /\ new \in ImageSet(Payloads) /\ new.room = Capacity - new.next
        /\ \A s \in DOMAIN new.live : s < new.next
    BY <1>2, <2>2
  <2> HIDE DEF new
  <2>4. /\ pages' \in Seq(ImageSet(Payloads)) /\ Len(pages') = last + 1
        /\ pages'[last + 1] = new /\ \A k \in 1..last : pages'[k] = pages[k]
    BY <1>1, <2>1, <2>3, AppendProperties
  <2>5. DOMAIN pages' = 1..last + 1 /\ last + 1 \in 1..MaxPages
    BY <1>1, <2>1, <2>4, LenProperties, MaxPagesAssumption
  <2> QED
    BY <1>1, <2>3, <2>4, <2>5 DEF IInv, FileShape
<1> QED
  BY <1>3, <1>4

(* ... and when one is deleted. *)
LEMMA DeleteShape ==
  ASSUME IInv, NEW x \in ItemsOf(pages), DeleteItem(x)
  PROVE  FileShape'
<1> DEFINE k == x[1] + 1
           old == pages[k]
           new == WithoutItem(old, x[2])
<1>1. /\ k \in 1..Len(pages) /\ DOMAIN pages = 1..Len(pages)
      /\ old \in ImageSet(Payloads) /\ x[2] \in DOMAIN old.live
      /\ old.next \in Nat /\ \A s \in DOMAIN old.live : s \in 0..old.next - 1
      /\ old.room = Capacity - old.next
  BY PagesAre, PlacesAre DEF IInv, FileShape
<1>2. pages' = [pages EXCEPT ![k] = new]
  BY DEF DeleteItem
<1>3. \A s \in DOMAIN old.live : s < old.next
  BY <1>1
<1> HIDE DEF k, old
<1>4. /\ new \in ImageSet(Payloads)
      /\ IF x[2] = old.next - 1
           THEN new.next = old.next - 1 /\ new.room = old.room + 1
           ELSE new.next = old.next /\ new.room = old.room
      /\ DOMAIN new.live = DOMAIN old.live \ {x[2]}
  BY <1>1, <1>3, WithoutItemIs
<1> HIDE DEF new
<1>5. new.room = Capacity - new.next /\ \A s \in DOMAIN new.live : s < new.next
  BY <1>1, <1>4, CapacityAssumption
<1> QED
  BY <1>1, <1>2, <1>4, <1>5 DEF IInv, FileShape

LEMMA PutItemKeeps ==
  ASSUME IInv, NEW p \in Payloads, PutItem(p)
  PROVE  IInv'
<1>1. FileShape'
  BY PutShape
<1>2. Closed'
  BY DEF PutItem, IInv, Cursor, iterator, Closed
<1>3. (FileShape /\ Closed => IInv)'
  BY ClosedIs, PTL
<1> QED
  BY <1>1, <1>2, <1>3

LEMMA DeleteItemKeeps ==
  ASSUME IInv, NEW x \in ItemsOf(pages), DeleteItem(x)
  PROVE  IInv'
<1>1. FileShape'
  BY DeleteShape
<1>2. Closed'
  BY DEF DeleteItem, IInv, Cursor, iterator, Closed
<1>3. (FileShape /\ Closed => IInv)'
  BY ClosedIs, PTL
<1> QED
  BY <1>1, <1>2, <1>3

LEMMA NewKeeps ==
  ASSUME IInv, New
  PROVE  IInv'
<1>1. /\ page = 1 /\ index = -1 /\ proc = "up" /\ answer = "closed" /\ read = <<>>
      /\ page' = 1 /\ index' = -1 /\ read' = <<>> /\ answer' = "unknown"
      /\ UNCHANGED <<pages, proc>>
  BY DEF New, IInv, Cursor
<1> QED
  BY <1>1 DEF IInv, FileShape, Cursor, Reading, Tripping, Passed

LEMMA HasNextKeeps ==
  ASSUME IInv, HasNext
  PROVE  IInv'
<1>1. /\ FileShape /\ Cursor /\ answer \in {"unknown", "yes"} /\ proc = "up"
      /\ page' = Advance.page /\ index' = Advance.index /\ answer' = Advance.answer
      /\ pages' = pages /\ read' = read /\ proc' = proc
  BY DEF HasNext, IInv
<1>2. \A x \in ItemsOf(pages) \cup Obstacles(pages) : Passed(x)' <=> Passed(x)
  BY <1>1, AdvanceIs DEF Passed
<1>3. FileShape'
  BY <1>1 DEF FileShape
<1>4. Cursor'
  BY <1>1, AdvanceIs DEF Cursor
<1>5. Reading'
  BY <1>1, <1>2 DEF IInv, Reading
<1>6. Tripping'
  BY <1>1, <1>2, AdvanceIs DEF IInv, Tripping
<1> QED
  BY <1>3, <1>4, <1>5, <1>6 DEF IInv

(* item_iterator_next goes on by one id: an item, which is read, or a      *)
(* deleted one, the first the iteration meets.                             *)
LEMMA NextItemKeeps ==
  ASSUME IInv, NextItem
  PROVE  IInv'
<1> DEFINE k == Advance.page
           i == Advance.index + 1
           id == <<k - 1, i>>
<1>1. /\ FileShape /\ Cursor /\ answer = "yes" /\ proc = "up" /\ Reading /\ Tripping
      /\ page' = k /\ index' = i /\ answer' = "unknown" /\ pages' = pages
  BY DEF NextItem, IInv
<1>2. Advance = [page |-> page, index |-> index, answer |-> "yes"]
  BY <1>1 DEF Cursor, Advance
<1>3. /\ k = page /\ i = index + 1 /\ k \in 1..Len(pages) /\ i \in 0..pages[k].next - 1
      /\ k \in Visible(pages) /\ pages[k].next \in 0..Capacity /\ index \in Int
      /\ Len(pages) \in Nat /\ DOMAIN pages = 1..Len(pages)
  BY <1>1, <1>2, PagesAre, CapacityAssumption DEF Cursor
<1>4. \A x \in ItemsOf(pages) \cup Obstacles(pages) :
        Passed(x)' <=> Passed(x) \/ x = id
  <2> TAKE x \in ItemsOf(pages) \cup Obstacles(pages)
  <2>1. x = <<x[1], x[2]>> /\ x[1] \in Nat /\ x[2] \in Nat
    BY <1>1, PlacesAre
  <2>2. Passed(x)' <=> x[1] < k - 1 \/ (x[1] = k - 1 /\ x[2] <= i)
    BY <1>1 DEF Passed, PassedBy
  <2>3. Passed(x) <=> x[1] < k - 1 \/ (x[1] = k - 1 /\ x[2] <= i - 1)
    BY <1>3 DEF Passed, PassedBy
  <2>4. x = id <=> x[1] = k - 1 /\ x[2] = i
    BY <2>1
  <2> QED
    BY <1>3, <2>1, <2>2, <2>3, <2>4
<1>5. FileShape' /\ Cursor'
  <2>1. proc' \in {"up", "read_deleted"}
    BY <1>1, <1>2, <1>3 DEF NextItem
  <2>2. FileShape'
    BY <1>1 DEF FileShape
  <2>3. k \in Visible(pages') /\ k \in 1..Len(pages') /\ i \in -1..Capacity - 1
    BY <1>1, <1>3, CapacityAssumption
  <2> HIDE DEF k, i
  <2> QED
    BY <1>1, <2>1, <2>2, <2>3 DEF Cursor
<1>6. ~Passed(id)
  BY <1>3 DEF Passed, PassedBy
<1>7. CASE i \in DOMAIN pages[k].live
  <2>1. read' = Append(read, id) /\ proc' = proc
    BY <1>1, <1>2, <1>3, <1>7 DEF NextItem
  <2>2. id \in ItemsOf(pages)
    BY <1>3, <1>7, ItemsAre
  <2>3. id \notin Obstacles(pages)
    BY <1>1, <1>3, <1>7, <2>2, PlacesAre
  <2> HIDE DEF id
  <2>4. /\ read' \in Seq(ItemsOf(pages)) /\ Len(read') = Len(read) + 1
        /\ DOMAIN read' = 1..Len(read) + 1 /\ DOMAIN read = 1..Len(read)
        /\ Len(read) \in Nat
        /\ \A j \in 1..Len(read) : read'[j] = read[j] /\ read[j] \in ItemsOf(pages)
        /\ read'[Len(read) + 1] = id
    BY <1>1, <2>1, <2>2, AppendProperties, LenProperties DEF Reading
  <2>5. \A x \in ItemsOf(pages) : Passed(x)' <=> \E j \in DOMAIN read' : read'[j] = x
    <3> TAKE x \in ItemsOf(pages)
    <3>1. (\E j \in DOMAIN read' : read'[j] = x) <=> (\E j \in DOMAIN read : read[j] = x) \/ x = id
      BY <2>4
    <3> QED
      BY <1>1, <1>4, <3>1 DEF Reading
  <2>6. \A j \in 1..Len(read) : Before(read[j], id)
    <3> TAKE j \in 1..Len(read)
    <3>1. Passed(read[j]) /\ read[j] \in ItemsOf(pages)
      BY <1>1, <2>4 DEF Reading
    <3>2. read[j][1] \in Nat /\ read[j][2] \in Nat
      BY <1>1, <3>1, PlacesAre
    <3> QED
      BY <1>3, <3>1, <3>2 DEF id, Passed, PassedBy, Before
  <2>7. \A j, m \in DOMAIN read' : j < m => Before(read'[j], read'[m])
    BY <1>1, <2>4, <2>6 DEF Reading
  <2>8. Reading'
    BY <1>1, <2>4, <2>5, <2>7 DEF Reading
  <2>9. Tripping'
    BY <1>1, <1>4, <2>1, <2>3 DEF Tripping
  <2> QED
    BY <1>5, <2>8, <2>9 DEF IInv
<1>8. CASE i \notin DOMAIN pages[k].live
  <2>1. read' = read /\ proc' = "read_deleted"
    BY <1>1, <1>2, <1>3, <1>8 DEF NextItem
  <2>2. id \in Obstacles(pages)
    BY <1>3, <1>8, ObstaclesAre DEF Tombstones
  <2>3. id \notin ItemsOf(pages)
    BY <1>1, <1>3, <1>8, <2>2, PlacesAre
  <2>4. Reading'
    BY <1>1, <1>4, <2>1, <2>3 DEF Reading
  <2>5. Tripping'
    <3>1. \A t \in Obstacles(pages) : t = id \/ ~Passed(t)'
      BY <1>1, <1>4 DEF Tripping
    <3>2. <<page' - 1, index'>> = id
      BY <1>1
    <3> HIDE DEF id
    <3> QED
      BY <1>1, <2>1, <2>2, <3>1, <3>2 DEF Tripping
  <2> QED
    BY <1>5, <2>4, <2>5 DEF IInv
<1> QED
  BY <1>7, <1>8

LEMMA DestroyKeeps ==
  ASSUME IInv, Destroy
  PROVE  IInv'
<1>1. FileShape'
  BY DEF Destroy, IInv, FileShape
<1>2. Closed'
  BY DEF Destroy, Closed
<1>3. (FileShape /\ Closed => IInv)'
  BY ClosedIs, PTL
<1> QED
  BY <1>1, <1>2, <1>3

(* The loop stands where the invariant says, in every state. *)
THEOREM Invariant == Spec => []IInv
<1>1. IInv /\ [Next]_vars => IInv'
  <2> SUFFICES ASSUME IInv, [Next]_vars PROVE IInv'
    OBVIOUS
  <2>1. ASSUME NEW p \in Payloads, PutItem(p) PROVE IInv'
    BY <2>1, PutItemKeeps
  <2>2. ASSUME NEW x \in ItemsOf(pages), DeleteItem(x) PROVE IInv'
    BY <2>2, DeleteItemKeeps
  <2>3. CASE New
    BY <2>3, NewKeeps
  <2>4. CASE HasNext
    BY <2>4, HasNextKeeps
  <2>5. CASE NextItem
    BY <2>5, NextItemKeeps
  <2>6. CASE Destroy
    BY <2>6, DestroyKeeps
  <2>7. CASE UNCHANGED vars
    BY <2>7 DEF vars, iterator, IInv, FileShape, Cursor, Reading, Tripping, Passed
  <2> QED
    BY <2>1, <2>2, <2>3, <2>4, <2>5, <2>6, <2>7 DEF Next
<1> QED
  BY <1>1, InitInv, PTL DEF Spec

-----------------------------------------------------------------------------
(* The items read are the items passed. *)
LEMMA ReadIs ==
  ASSUME IInv
  PROVE  \A x : x \in ReadSoFar <=> x \in ItemsOf(pages) /\ Passed(x)
<1>1. \A i \in DOMAIN read : read[i] \in ItemsOf(pages)
  BY DEF IInv, Reading
<1> QED
  BY <1>1 DEF IInv, Reading, ReadSoFar

(* Type correctness: what is read are items of the file. *)
THEOREM IteratorTyped == Spec => []TypeOK
<1>1. IInv => TypeOK
  <2> SUFFICES ASSUME IInv PROVE TypeOK
    OBVIOUS
  <2>1. page \in DOMAIN pages /\ Len(pages) \in 1..MaxPages
    BY PagesAre DEF IInv, Cursor, FileShape
  <2>2. index \in -1..Capacity
    BY CapacityAssumption DEF IInv, Cursor
  <2>3. \A i \in DOMAIN read : read[i] \in ItemsOf(pages)
    BY DEF IInv, Reading
  <2> QED
    BY <2>1, <2>2, <2>3 DEF IInv, Cursor, TypeOK, Endings
<1> QED
  BY <1>1, Invariant, PTL

(* A loop visits the items in the order of their ids, each once, and       *)
(* passes none over, whatever was deleted before.                          *)
THEOREM VisitedInOrder == Spec => []VisitsInOrder
<1>1. IInv => VisitsInOrder
  <2> SUFFICES ASSUME IInv PROVE VisitsInOrder
    OBVIOUS
  <2>1. ASSUME NEW x \in ItemsOf(pages), NEW y \in ReadSoFar, Before(x, y)
        PROVE  x \in ReadSoFar
    <3>1. y \in ItemsOf(pages) /\ Passed(y)
      BY ReadIs
    <3>2. /\ x[1] \in Nat /\ x[2] \in Nat /\ y[1] \in Nat /\ y[2] \in Nat
          /\ page \in Int /\ index \in Int
      BY <3>1, PlacesAre, PagesAre DEF IInv, Cursor
    <3>3. Passed(x)
      BY <2>1, <3>1, <3>2 DEF Passed, PassedBy, Before
    <3> QED
      BY <3>3, ReadIs
  <2> QED
    BY <2>1 DEF IInv, Reading, VisitsInOrder
<1> QED
  BY <1>1, Invariant, PTL

(* A loop that ends has visited every item of a file without obstacles,    *)
(* and one that trips has visited the items before the first of them; no   *)
(* other assertion ever fails.                                             *)
THEOREM EndsOrTrips == Spec => []EndsWithAllOrTrips
<1>1. IInv => EndsWithAllOrTrips
  <2> SUFFICES ASSUME IInv PROVE EndsWithAllOrTrips
    OBVIOUS
  <2> DEFINE here == <<page - 1, index>>
  <2>1. page \in Int /\ index \in Int
    BY PagesAre DEF IInv, Cursor
  <2>2. ASSUME NEW x \in ItemsOf(pages) \cup Obstacles(pages),
               NEW t \in ItemsOf(pages) \cup Obstacles(pages), Passed(x), ~Passed(t)
        PROVE  Before(x, t)
    <3>1. x[1] \in Nat /\ x[2] \in Nat /\ t[1] \in Nat /\ t[2] \in Nat
      BY PlacesAre DEF IInv
    <3> QED
      BY <2>1, <2>2, <3>1 DEF Passed, PassedBy, Before
  <2>3. ASSUME NEW x \in ItemsOf(pages) \cup Obstacles(pages),
               here \in Obstacles(pages), Passed(x), x # here
        PROVE  Before(x, here)
    <3>1. x = <<x[1], x[2]>> /\ x[1] \in Nat /\ x[2] \in Nat
      BY PlacesAre DEF IInv
    <3> QED
      BY <2>1, <2>3, <3>1 DEF Passed, PassedBy, Before
  <2>4. \A x \in ItemsOf(pages) : x \notin Obstacles(pages)
    BY PlacesAre DEF IInv
  <2>5. ASSUME answer = "no"
        PROVE  ReadSoFar = ItemsOf(pages) /\ Obstacles(pages) = {}
    <3>1. proc = "up"
      BY <2>5 DEF IInv, Cursor
    <3> QED
      BY <2>5, <3>1, ReadIs DEF IInv, Tripping
  <2>6. ASSUME NEW y \in ReadSoFar, NEW t \in Obstacles(pages)
        PROVE  Before(y, t)
    <3>1. y \in ItemsOf(pages) /\ Passed(y)
      BY ReadIs
    <3>2. CASE ~Passed(t)
      BY <2>2, <3>1, <3>2
    <3>3. CASE Passed(t)
      <4>1. t = here /\ here \in Obstacles(pages)
        BY <3>3 DEF IInv, Tripping, Cursor
      <4>2. y # here
        BY <2>4, <3>1, <4>1
      <4> HIDE DEF here
      <4> QED
        BY <2>3, <3>1, <4>1, <4>2
    <3> QED
      BY <3>2, <3>3
  <2>7. ASSUME proc = "read_deleted"
        PROVE  /\ Obstacles(pages) # {}
               /\ ReadSoFar = {x \in ItemsOf(pages) : Before(x, First(Obstacles(pages)))}
    <3>1. here \in Obstacles(pages) /\ \A t \in Obstacles(pages) : t = here \/ ~Passed(t)
      BY <2>7 DEF IInv, Tripping
    <3>2. Passed(here)
      BY <2>1 DEF Passed, PassedBy
    <3>3. \A t \in Obstacles(pages) : t = here \/ Before(here, t)
      <4> HIDE DEF here
      <4> QED
        BY <2>2, <3>1, <3>2
    <3>4. ~\E t \in Obstacles(pages) : t # here /\ Before(t, here)
      <4> SUFFICES ASSUME NEW t \in Obstacles(pages), t # here PROVE ~Before(t, here)
        OBVIOUS
      <4>1. t[1] \in Nat /\ t[2] \in Nat /\ t = <<t[1], t[2]>>
        BY PlacesAre DEF IInv
      <4>2. Before(here, t)
        BY <3>3
      <4> QED
        BY <2>1, <4>1, <4>2 DEF Before
    <3>5. First(Obstacles(pages)) = here
      <4>1. \A u \in Obstacles(pages) :
              (\A t \in Obstacles(pages) : t = u \/ Before(u, t)) <=> u = here
        <5> HIDE DEF here
        <5> QED
          BY <3>1, <3>3, <3>4
      <4> HIDE DEF here
      <4> QED
        BY <3>1, <4>1 DEF First
    <3>6. ASSUME NEW x \in ItemsOf(pages) PROVE Passed(x) <=> Before(x, here)
      <4>1. x[1] \in Nat /\ x[2] \in Nat
        BY PlacesAre DEF IInv
      <4>2. Before(x, here) => Passed(x)
        BY <2>1, <4>1 DEF Before, Passed, PassedBy
      <4>3. x # here
        BY <2>4, <3>1
      <4> HIDE DEF here
      <4> QED
        BY <2>3, <3>1, <4>2, <4>3
    <3> HIDE DEF here
    <3> QED
      BY <3>1, <3>5, <3>6, ReadIs
  <2> QED
    BY <2>5, <2>6, <2>7 DEF EndsWithAllOrTrips, IInv, Cursor
<1> QED
  BY <1>1, Invariant, PTL
=============================================================================
