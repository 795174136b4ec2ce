------------------------- MODULE PageManagerProofs --------------------------
(***************************************************************************)
(* What holds of the header, the file, the pages in memory and the page    *)
(* iterator, whatever is put, deleted, read or freed and wherever the      *)
(* process is killed, for files of any number of pages: the inductive      *)
(* invariant PInv, the properties of PageManager that follow from it, and  *)
(* that the file implements ItemStore through all crashes.                 *)
(***************************************************************************)
EXTENDS PageManager, OperatorProofs

Typed ==
  /\ diskHeader \in Headers \cup {NoHeader} /\ header \in Headers \cup {NoHeader}
  /\ disk \in Seq(Images) /\ Len(disk) <= MaxPages
  /\ \A i \in 1..Len(disk) : ImageOK(disk[i])
  /\ cache \in Seq(Images)
  /\ \A i \in 1..Len(cache) : ImageOK(cache[i])
  /\ freePage \in Nat
  /\ iter \in [on : BOOLEAN, page : Nat, next : 0..MaxPages]
  /\ pc \in Running \cup Endings \cup {"down"}
  /\ call \in [by : {"none", "init", "get_page", "put_item"}, payload : Payloads \cup {"none"}]
  /\ crashes \in 0..MaxCrashes

(* The file.  The first page is written first, so it is never a hole, and  *)
(* the header names a free page only when that is written.                 *)
FileOK ==
  /\ diskHeader = NoHeader => Len(disk) = 0
  /\ diskHeader # NoHeader => Len(disk) <= diskHeader.count
  /\ \A i \in 1..Len(disk) : disk[i].id = i - 1 \/ disk[i] = Hole
  /\ Len(disk) > 0 =>
       /\ disk[1] # Hole
       /\ diskHeader.free < Len(disk) /\ disk[diskHeader.free + 1] # Hole
  /\ diskHeader # NoHeader /\ Len(disk) = 0 => diskHeader.free = 0

Down ==
  pc = "down" =>
    /\ header = NoHeader /\ cache = <<>> /\ freePage = NULL /\ iter = NoIter /\ call = NoCall

(* The pages in memory: one copy of each, as it is in the file.  A hole is *)
(* read by the page iterator only.                                         *)
MemoryOK ==
  /\ \A i, j \in 1..Len(cache) : cache[i].id = cache[j].id => i = j
  /\ \A i \in 1..Len(cache) :
       \/ cache[i] = Hole /\ iter.on /\ iter.page = i
       \/ cache[i].id < Len(disk) /\ disk[cache[i].id + 1] = cache[i]
       \/ pc = "new_page" /\ i = Len(cache)
  /\ freePage # NULL => freePage \in 1..Len(cache) /\ cache[freePage].id = header.free
  /\ iter.on =>
       /\ iter.page \in 1..Len(cache) /\ iter.next \in 1..Len(disk)
       /\ cache[iter.page] = disk[iter.next]
  /\ ~iter.on => iter = NoIter

(* The calls in progress: what each step relies on of the one before.      *)
CallOK ==
  /\ Len(disk) = 0 => call.by = "init" /\ pc \in {"new_header", "new_page"}
  /\ pc = "new_header" /\ call.by = "init" => header.count = 0
  /\ pc = "new_page" =>
       /\ Len(cache) > 0 /\ header.count > 0
       /\ cache[Len(cache)] = NewPage(header.count - 1)
       /\ Len(disk) < header.count
       /\ call.by = "init" => header.count = 1
  /\ pc = "set_free" => Len(cache) > 0 /\ cache[Len(cache)] = NewPage(header.count - 1)
  /\ pc \in {"set_free", "write_item"} => call.by # "init"
  /\ pc \in {"new_header", "new_page", "set_free", "write_item"} =>
       call.by = "init" \/ call.payload \in Payloads
  /\ pc = "write_item" => freePage # NULL /\ cache[freePage].room > 0

PInv ==
  /\ Typed
  /\ FileOK
  /\ Down
  /\ pc \in Running => /\ header = diskHeader /\ diskHeader # NoHeader
                       /\ MemoryOK
                       /\ CallOK

(* Without a crash the header counts the pages of the file, but for the    *)
(* one that is about to be written, and no page is a hole.                 *)
Complete ==
  crashes = 0 =>
    /\ pc \notin {"init_assert", "read_failed"}
    /\ diskHeader # NoHeader =>
         diskHeader.count = IF pc = "new_page" THEN Len(disk) + 1 ELSE Len(disk)
    /\ \A i \in 1..Len(disk) : disk[i] # Hole

-----------------------------------------------------------------------------
(* Pages.  A hole has no items, and differs from every page with room.     *)
LEMMA HoleIs == Hole \in Images /\ ImageOK(Hole) /\ DOMAIN Hole.live = {} /\ Hole.room = -1
<1>1. NoItems \in LiveMaps(Payloads) /\ DOMAIN NoItems = {}
  <2>1. NoItems \in [{} -> Payloads] /\ DOMAIN NoItems = {}
    BY DEF NoItems
  <2> QED
    BY <2>1, LiveMapsAll
<1>2. Hole \in Images
  BY <1>1, SizesAssumption, CapacityAssumption DEF Hole, Images, LiveMaps
<1> QED
  BY <1>1, <1>2 DEF Hole, ImageOK

(* The images of a file of MaxPages pages are page images. *)
LEMMA ImagesAre ==
  ASSUME NEW page \in Images
  PROVE  /\ page \in ImageSet(Payloads)
         /\ page.id \in 0..MaxPages - 1 /\ page.next \in 0..Capacity
         /\ page.room \in -1..Capacity /\ page.live \in LiveMaps(Payloads)
<1>1. /\ page.id \in 0..MaxPages - 1 /\ page.next \in 0..Capacity
      /\ page.room \in -1..Capacity /\ page.live \in LiveMaps(Payloads)
      /\ page = [id |-> page.id, next |-> page.next, room |-> page.room, live |-> page.live]
  BY DEF Images, LiveMaps
<1> QED
  BY <1>1, SizesAssumption, CapacityAssumption DEF ImageSet

LEMMA ImagesAll ==
  ASSUME NEW page \in ImageSet(Payloads), page.id \in 0..MaxPages - 1,
         page.room \in -1..Capacity
  PROVE  page \in Images
  BY DEF ImageSet, Images, LiveMaps

LEMMA NewPageOK ==
  ASSUME NEW id \in 0..MaxPages - 1
  PROVE  /\ NewPage(id) \in Images /\ ImageOK(NewPage(id)) /\ NewPage(id) # Hole
         /\ NewPage(id).id = id /\ DOMAIN NewPage(id).live = {}
<1>1. /\ NewPage(id) \in ImageSet(Payloads)
      /\ NewPage(id).id = id /\ NewPage(id).next = 0
      /\ NewPage(id).room = Capacity /\ DOMAIN NewPage(id).live = {}
  BY NewPageIs, SizesAssumption
<1>2. NewPage(id) \in Images
  BY <1>1, ImagesAll, CapacityAssumption
<1>3. NewPage(id) # Hole
  BY <1>1, HoleIs, CapacityAssumption
<1> QED
  BY <1>1, <1>2, <1>3, CapacityAssumption DEF ImageOK

LEMMA WithItemOK ==
  ASSUME NEW page, ImageOK(page), page.room > 0, NEW p \in Payloads
  PROVE  /\ ImageOK(WithItem(page, p)) /\ WithItem(page, p) # Hole
         /\ WithItem(page, p).id = page.id /\ page # Hole
         /\ page.next \in 0..Capacity - 1 /\ page.next \notin DOMAIN page.live
         /\ DOMAIN WithItem(page, p).live = DOMAIN page.live \cup {page.next}
         /\ \A s \in DOMAIN WithItem(page, p).live :
              WithItem(page, p).live[s] = IF s = page.next THEN p ELSE page.live[s]
<1>1. /\ page \in Images /\ page \in ImageSet(Payloads) /\ page # Hole
      /\ page.id \in 0..MaxPages - 1
      /\ page.next \in 0..Capacity /\ page.room \in -1..Capacity
      /\ page.next + page.room = Capacity
      /\ \A s \in DOMAIN page.live : s \in 0..Capacity - 1 /\ s < page.next
  BY ImagesAre, LiveMapsAre, HoleIs DEF ImageOK
<1>2. page.next \in 0..Capacity - 1 /\ page.next < Capacity
  BY <1>1, CapacityAssumption
<1> DEFINE new == WithItem(page, p)
<1>3. /\ new \in ImageSet(Payloads) /\ new.id = page.id
      /\ new.next = page.next + 1 /\ new.room = page.room - 1
      /\ DOMAIN new.live = DOMAIN page.live \cup {page.next}
      /\ \A s \in DOMAIN page.live \cup {page.next} :
           new.live[s] = IF s = page.next THEN p ELSE page.live[s]
  BY <1>1, <1>2, WithItemIs
<1> HIDE DEF new
<1>4. new \in Images
  BY <1>1, <1>2, <1>3, ImagesAll, CapacityAssumption
<1>5. new.room # -1 /\ new # Hole
  BY <1>1, <1>2, <1>3, HoleIs, CapacityAssumption
<1>6. ImageOK(new)
  BY <1>1, <1>2, <1>3, <1>4, CapacityAssumption DEF ImageOK
<1> QED
  BY <1>1, <1>2, <1>3, <1>5, <1>6 DEF new

LEMMA WithoutItemOK ==
  ASSUME NEW page, ImageOK(page), NEW s \in DOMAIN page.live
  PROVE  /\ ImageOK(WithoutItem(page, s)) /\ WithoutItem(page, s) # Hole
         /\ WithoutItem(page, s).id = page.id /\ page # Hole
         /\ DOMAIN WithoutItem(page, s).live = DOMAIN page.live \ {s}
         /\ \A t \in DOMAIN page.live \ {s} : WithoutItem(page, s).live[t] = page.live[t]
<1>1. /\ page \in Images /\ page \in ImageSet(Payloads) /\ page # Hole
      /\ page.id \in 0..MaxPages - 1
      /\ page.next \in 0..Capacity /\ page.room \in -1..Capacity
      /\ page.next + page.room = Capacity
      /\ \A t \in DOMAIN page.live : t \in 0..Capacity - 1 /\ t < page.next
  BY ImagesAre, LiveMapsAre, HoleIs DEF ImageOK
<1> DEFINE new == WithoutItem(page, s)
<1>2. /\ new \in ImageSet(Payloads) /\ new.id = page.id
      /\ IF s = page.next - 1
           THEN new.next = page.next - 1 /\ new.room = page.room + 1
           ELSE new.next = page.next /\ new.room = page.room
      /\ DOMAIN new.live = DOMAIN page.live \ {s}
      /\ \A t \in DOMAIN page.live \ {s} : new.live[t] = page.live[t]
  BY <1>1, WithoutItemIs
<1> HIDE DEF new
<1>3. new.room \in 0..Capacity /\ new.next + new.room = Capacity
  BY <1>1, <1>2, CapacityAssumption
<1>4. new \in Images /\ new # Hole
  BY <1>1, <1>2, <1>3, ImagesAll, HoleIs, CapacityAssumption
<1>5. \A t \in DOMAIN new.live : t < new.next
  BY <1>1, <1>2
<1> QED
  BY <1>1, <1>2, <1>3, <1>4, <1>5 DEF new, ImageOK

-----------------------------------------------------------------------------
(* Writing a page.  Inside the file only that page changes; behind it the  *)
(* file grows, with holes up to the page.                                  *)
LEMMA WriteIs ==
  ASSUME disk \in Seq(Images), NEW page \in Images, WritePage(page)
  PROVE  /\ disk' \in Seq(Images)
         /\ Len(disk') = IF page.id < Len(disk) THEN Len(disk) ELSE page.id + 1
         /\ page.id + 1 \in 1..Len(disk') /\ Len(disk) <= Len(disk')
         /\ \A i \in 1..Len(disk') :
              disk'[i] = IF i = page.id + 1 THEN page
                         ELSE IF i <= Len(disk) THEN disk[i] ELSE Hole
<1> DEFINE n == IF page.id < Len(disk) THEN Len(disk) ELSE page.id + 1
<1>1. Len(disk) \in Nat /\ \A i \in 1..Len(disk) : disk[i] \in Images
  BY LenProperties
<1>2. page.id \in Nat /\ n \in Nat /\ page.id + 1 \in 1..n /\ Len(disk) <= n
  BY <1>1, ImagesAre
<1>3. disk' = [i \in 1..n |-> IF i = page.id + 1 THEN page
                              ELSE IF i <= Len(disk) THEN disk[i] ELSE Hole]
  BY DEF WritePage
<1> HIDE DEF n
<1>4. disk' \in [1..n -> Images]
  BY <1>1, <1>2, <1>3, HoleIs
<1>5. disk' \in Seq(Images) /\ Len(disk') = n
  BY <1>2, <1>4, SequenceOf
<1>6. \A i \in 1..n :
        disk'[i] = IF i = page.id + 1 THEN page
                   ELSE IF i <= Len(disk) THEN disk[i] ELSE Hole
  BY <1>3
<1> QED
  BY <1>2, <1>5, <1>6 DEF n

(* Reading a page that memory or file has. *)
IsRead(read, pages, id) ==
  \/ /\ read.pages = pages /\ read.at \in 1..Len(pages) /\ pages[read.at].id = id
  \/ /\ \A i \in 1..Len(pages) : pages[i].id # id
     /\ id < Len(disk)
     /\ read.pages = Append(pages, disk[id + 1]) /\ read.at = Len(pages) + 1
  \/ /\ \A i \in 1..Len(pages) : pages[i].id # id
     /\ ~(id < Len(disk))
     /\ read.pages = Append(pages, NewPage(id)) /\ read.at = NULL

LEMMA ReadIs ==
  ASSUME NEW pages \in Seq(Images), NEW id \in 0..MaxPages - 1, disk \in Seq(Images)
  PROVE  IsRead(ReadPage(pages, id), pages, id)
<1>1. DOMAIN pages = 1..Len(pages) /\ Len(pages) \in Nat
  BY LenProperties
<1>2. CASE InRam(pages, id) # {}
  <2>1. InRam(pages, id) \subseteq 0..Len(pages)
    BY <1>1 DEF InRam
  <2>2. \E i \in InRam(pages, id) : \A j \in InRam(pages, id) : j <= i
    BY <1>1, <1>2, <2>1, GreatestNumber
  <2>3. Newest(InRam(pages, id)) \in InRam(pages, id)
    BY <2>2 DEF Newest
  <2> QED
    BY <1>1, <1>2, <2>3 DEF InRam, ReadPage, IsRead
<1>3. CASE InRam(pages, id) = {}
  <2>1. \A i \in 1..Len(pages) : pages[i].id # id
    BY <1>1, <1>3 DEF InRam
  <2> QED
    BY <1>3, <2>1 DEF ReadPage, IsRead
<1> QED
  BY <1>2, <1>3

(* The pages of MemoryOK, of a list that is not the list in memory yet.    *)
Held(pages) ==
  /\ pages \in Seq(Images)
  /\ \A i \in 1..Len(pages) : ImageOK(pages[i])
  /\ \A i, j \in 1..Len(pages) : pages[i].id = pages[j].id => i = j
  /\ \A i \in 1..Len(pages) :
       \/ pages[i] = Hole /\ iter.on /\ iter.page = i
       \/ pages[i].id < Len(disk) /\ disk[pages[i].id + 1] = pages[i]

(* Reading a page of the file that is no hole leaves one copy of each page *)
(* and answers where that page's copy is.                                  *)
LEMMA ReadHeld ==
  ASSUME Typed, FileOK, NEW pages, Held(pages),
         NEW id \in Nat, id < Len(disk), disk[id + 1] # Hole
  PROVE  LET read == ReadPage(pages, id) IN
         /\ Held(read.pages)
         /\ Len(pages) <= Len(read.pages)
         /\ \A i \in 1..Len(pages) : read.pages[i] = pages[i]
         /\ read.at \in 1..Len(read.pages)
         /\ read.pages[read.at].id = id
<1> DEFINE read == ReadPage(pages, id)
<1>1. /\ Len(disk) \in Nat /\ Len(disk) <= MaxPages /\ id \in 0..MaxPages - 1
      /\ id + 1 \in 1..Len(disk) /\ Len(pages) \in Nat /\ pages \in Seq(Images)
      /\ disk \in Seq(Images)
  BY LenProperties, SizesAssumption DEF Typed, Held
<1>2. disk[id + 1] \in Images /\ ImageOK(disk[id + 1]) /\ disk[id + 1].id = id
  BY <1>1, LenProperties DEF Typed, FileOK
<1>3. CASE /\ read.pages = pages /\ read.at \in 1..Len(pages)
           /\ pages[read.at].id = id
  BY <1>1, <1>3
<1>4. CASE /\ \A i \in 1..Len(pages) : pages[i].id # id
           /\ read.pages = Append(pages, disk[id + 1]) /\ read.at = Len(pages) + 1
  <2> DEFINE more == Append(pages, disk[id + 1])
  <2>1. /\ more \in Seq(Images) /\ Len(more) = Len(pages) + 1
        /\ \A i \in 1..Len(pages) : more[i] = pages[i]
        /\ more[Len(pages) + 1] = disk[id + 1]
    BY <1>1, <1>2, AppendProperties
  <2>2. \A i \in 1..Len(more) : i \in 1..Len(pages) \/ i = Len(pages) + 1
    BY <1>1, <2>1
  <2>3. read.pages = more
    BY <1>4
  <2> HIDE DEF more, read
  <2>4. \A i \in 1..Len(more) : ImageOK(more[i])
    BY <1>2, <2>1, <2>2 DEF Held
  <2>5. \A i, j \in 1..Len(more) : more[i].id = more[j].id => i = j
    BY <1>2, <1>4, <2>1, <2>2 DEF Held
  <2>6. \A i \in 1..Len(more) :
          \/ more[i] = Hole /\ iter.on /\ iter.page = i
          \/ more[i].id < Len(disk) /\ disk[more[i].id + 1] = more[i]
    BY <1>2, <2>1, <2>2 DEF Held
  <2>7. Held(more)
    BY <2>1, <2>4, <2>5, <2>6 DEF Held
  <2>8. read.at \in 1..Len(more) /\ more[read.at].id = id
    BY <1>1, <1>2, <1>4, <2>1
  <2> QED
    BY <1>1, <2>1, <2>3, <2>7, <2>8 DEF read
<1>5. \/ read.pages = pages /\ read.at \in 1..Len(pages) /\ pages[read.at].id = id
      \/ /\ \A i \in 1..Len(pages) : pages[i].id # id
         /\ read.pages = Append(pages, disk[id + 1]) /\ read.at = Len(pages) + 1
  <2>1. IsRead(read, pages, id)
    BY <1>1, ReadIs
  <2> HIDE DEF read
  <2> QED
    BY <1>1, <2>1 DEF IsRead
<1> QED
  BY <1>3, <1>4, <1>5

(* A file that is not written stays as it is. *)
LEMMA FileKept ==
  ASSUME FileOK, UNCHANGED <<disk, diskHeader>>
  PROVE  FileOK'
  BY DEF FileOK

(* What PInv says of a running process. *)
LEMMA RunningIs ==
  ASSUME PInv, pc \in Running
  PROVE  /\ Typed /\ FileOK /\ MemoryOK /\ CallOK /\ header = diskHeader
         /\ header \in Headers /\ header # NoHeader
         /\ header.count \in 0..MaxPages /\ header.free \in 0..MaxPages - 1
         /\ header.count \in Nat /\ header.free \in Nat /\ MaxPages \in Nat \ {0}
         /\ Len(disk) \in Nat /\ Len(disk) <= header.count
         /\ Len(cache) \in Nat /\ DOMAIN cache = 1..Len(cache) /\ DOMAIN disk = 1..Len(disk)
<1>1. /\ Typed /\ FileOK /\ MemoryOK /\ CallOK /\ header = diskHeader /\ header # NoHeader
  BY DEF PInv
<1>2. header \in Headers
  BY <1>1 DEF Typed
<1> QED
  BY <1>1, <1>2, LenProperties, SizesAssumption DEF Typed, FileOK, Headers

LEMMA HeldIs ==
  ASSUME PInv, pc \in Running, pc # "new_page"
  PROVE  Held(cache)
  BY RunningIs DEF Held, MemoryOK, Typed

-----------------------------------------------------------------------------
LEMMA InitInv == Init => PInv /\ Complete
<1> SUFFICES ASSUME Init PROVE PInv /\ Complete
  OBVIOUS
<1>1. /\ disk \in Seq(Images) /\ Len(disk) = 0 /\ cache \in Seq(Images) /\ Len(cache) = 0
  BY DEF Init
<1>2. Typed
  BY <1>1, SizesAssumption
     DEF Init, Typed, NULL, NoIter, NoCall, Running, Endings
<1>3. FileOK /\ Down /\ pc \notin Running
  BY <1>1 DEF Init, FileOK, Down, Running
<1> QED
  BY <1>1, <1>2, <1>3 DEF PInv, Complete, Init

LEMMA InitNewFileKeeps ==
  ASSUME PInv, InitNewFile
  PROVE  PInv'
<1>1. /\ Typed /\ Len(disk) = 0 /\ header' = [count |-> 0, free |-> 0]
      /\ diskHeader' = header' /\ pc' = "new_header" /\ call' = [NoCall EXCEPT !.by = "init"]
      /\ UNCHANGED <<disk, cache, freePage, iter, crashes>>
      /\ cache = <<>> /\ freePage = NULL /\ iter = NoIter
  BY DEF InitNewFile, WriteHeader, PInv, FileOK, Down
<1>2. header' \in Headers /\ header' # NoHeader /\ header'.count = 0 /\ header'.free = 0
  BY <1>1, SizesAssumption DEF Headers, NoHeader
<1>3. /\ call' = [by |-> "init", payload |-> "none"]
      /\ call' \in [by : {"none", "init", "get_page", "put_item"}, payload : Payloads \cup {"none"}]
  BY <1>1 DEF NoCall
<1>4. Typed'
  <2>1. diskHeader' \in Headers \cup {NoHeader} /\ header' \in Headers \cup {NoHeader}
    BY <1>1, <1>2
  <2>2. pc' \in Running \cup Endings \cup {"down"}
    BY <1>1 DEF Running
  <2> QED
    BY <1>1, <1>3, <2>1, <2>2 DEF Typed
<1>5. FileOK'
  BY <1>1, <1>2 DEF FileOK
<1>6. Len(cache') = 0 /\ ~iter'.on /\ freePage' = NULL /\ iter' = NoIter
  BY <1>1 DEF NoIter
<1>7. MemoryOK'
  BY <1>6 DEF MemoryOK
<1>8. CallOK'
  BY <1>1, <1>2, <1>3 DEF CallOK
<1> QED
  BY <1>1, <1>2, <1>4, <1>5, <1>7, <1>8 DEF PInv, Down

LEMMA InitOldFileKeeps ==
  ASSUME PInv, InitOldFile
  PROVE  PInv'
<1>1. /\ Typed /\ FileOK /\ header' = diskHeader /\ diskHeader # NoHeader /\ diskHeader \in Headers
      /\ UNCHANGED <<diskHeader, disk, iter, crashes>>
      /\ cache = <<>> /\ freePage = NULL /\ iter = NoIter /\ ~iter.on /\ call = NoCall
  BY DEF InitOldFile, PInv, Down, Typed, NoIter
<1>2. FileOK'
  BY <1>1, FileKept
<1>3. /\ Len(disk) \in Nat /\ Len(disk) <= MaxPages /\ diskHeader.count \in 0..MaxPages
      /\ diskHeader.free \in 0..MaxPages - 1 /\ Len(disk) <= diskHeader.count
      /\ disk \in Seq(Images) /\ cache \in Seq(Images) /\ Len(cache) = 0
  BY <1>1, LenProperties DEF Typed, FileOK, Headers
<1>4. CASE diskHeader.count = 0
  <2>1. /\ pc' = "new_header" /\ call' = [by |-> "init", payload |-> "none"]
        /\ UNCHANGED <<cache, freePage>>
    BY <1>4 DEF InitOldFile, NoCall
  <2>2. Typed'
    BY <1>1, <2>1 DEF Typed, Running
  <2>3. MemoryOK'
    BY <1>1, <1>3, <2>1 DEF MemoryOK
  <2>4. CallOK'
    BY <1>1, <1>4, <2>1 DEF CallOK
  <2> QED
    BY <1>1, <1>2, <2>1, <2>2, <2>3, <2>4 DEF PInv, Down
<1>5. CASE diskHeader.count # 0
  <2> DEFINE read == ReadPage(cache, diskHeader.free)
  <2>1. /\ cache' = read.pages /\ freePage' = read.at /\ call' = call
        /\ pc' = IF read.at = NULL THEN "init_assert" ELSE "idle"
    BY <1>5 DEF InitOldFile
  <2>2. CASE Len(disk) > 0
    <3>1. diskHeader.free < Len(disk) /\ disk[diskHeader.free + 1] # Hole /\ diskHeader.free \in Nat
      BY <1>1, <1>3, <2>2 DEF FileOK
    <3>2. Held(cache)
      BY <1>3 DEF Held
    <3>3. /\ Held(read.pages) /\ read.at \in 1..Len(read.pages)
          /\ read.pages[read.at].id = diskHeader.free
      BY <1>1, <3>1, <3>2, ReadHeld
    <3> HIDE DEF read
    <3>4. Len(read.pages) \in Nat /\ read.at \in Nat /\ read.at # NULL
      BY <3>3, LenProperties DEF Held, NULL
    <3>5. pc' = "idle"
      BY <2>1, <3>4
    <3>6. Typed'
      BY <1>1, <2>1, <3>3, <3>4, <3>5 DEF Typed, Held, Running
    <3>7. MemoryOK'
      BY <1>1, <2>1, <3>3 DEF MemoryOK, Held
    <3>8. CallOK'
      BY <1>1, <2>2, <3>5 DEF CallOK
    <3> QED
      BY <1>1, <1>2, <3>5, <3>6, <3>7, <3>8 DEF PInv, Down
  <2>3. CASE Len(disk) = 0
    <3>1. diskHeader.free = 0 /\ 0 \in 0..MaxPages - 1
      BY <1>1, <2>3, SizesAssumption DEF FileOK
    <3>2. read.pages = Append(cache, NewPage(0)) /\ read.at = NULL
      <4>1. ~(0 < Len(disk)) /\ ~\E i \in 1..Len(cache) : TRUE
        BY <1>3, <2>3
      <4>2. read = ReadPage(cache, 0)
        BY <3>1
      <4>3. IsRead(ReadPage(cache, 0), cache, 0)
        BY <1>3, <3>1, ReadIs
      <4> QED
        BY <4>1, <4>2, <4>3 DEF IsRead
    <3>3. NewPage(0) \in Images /\ ImageOK(NewPage(0))
      BY <3>1, NewPageOK
    <3>4. read.pages \in Seq(Images) /\ \A i \in 1..Len(read.pages) : ImageOK(read.pages[i])
      BY <1>3, <3>2, <3>3, AppendProperties
    <3> HIDE DEF read
    <3>5. pc' = "init_assert"
      BY <2>1, <3>2
    <3>6. Typed'
      BY <1>1, <2>1, <3>2, <3>4, <3>5 DEF Typed, Endings, NULL
    <3> QED
      BY <1>2, <3>5, <3>6 DEF PInv, Down, Running
  <2> QED
    BY <1>3, <2>2, <2>3
<1> QED
  BY <1>4, <1>5

LEMMA NewPageHeaderKeeps ==
  ASSUME PInv, NewPageHeader
  PROVE  PInv'
<1> DEFINE new == NewPage(header.count)
<1>1. /\ pc = "new_header" /\ pc \in Running /\ header.count < MaxPages
      /\ cache' = Append(cache, new)
      /\ header' = [header EXCEPT !.count = @ + 1] /\ diskHeader' = header'
      /\ pc' = "new_page" /\ UNCHANGED <<disk, freePage, iter, call, crashes>>
  BY DEF NewPageHeader, NextPageId, CountPage, WriteHeader, Running
<1>2. /\ Typed /\ FileOK /\ MemoryOK /\ CallOK /\ header = diskHeader /\ header \in Headers
      /\ header.count \in 0..MaxPages - 1 /\ header.free \in 0..MaxPages - 1
      /\ header.count \in Nat /\ header.free \in Nat /\ MaxPages \in Nat \ {0}
      /\ Len(disk) \in Nat /\ Len(disk) <= header.count /\ Len(cache) \in Nat
      /\ cache \in Seq(Images) /\ Held(cache)
  BY <1>1, RunningIs, HeldIs, SizesAssumption DEF Typed
<1>3. /\ new \in Images /\ ImageOK(new) /\ new # Hole /\ new.id = header.count
  BY <1>2, NewPageOK
<1>4. /\ header' \in Headers /\ header' # NoHeader
      /\ header'.count = header.count + 1 /\ header'.free = header.free
  <2>1. header' = [count |-> header.count + 1, free |-> header.free]
    BY <1>1, <1>2 DEF Headers
  <2>2. header.count + 1 \in 0..MaxPages /\ header.count + 1 # -1
    BY <1>1, <1>2
  <2> QED
    BY <1>2, <2>1, <2>2 DEF Headers, NoHeader
<1>5. /\ cache' \in Seq(Images) /\ Len(cache') = Len(cache) + 1
      /\ \A i \in 1..Len(cache) : cache'[i] = cache[i]
      /\ cache'[Len(cache) + 1] = new
  <2> HIDE DEF new
  <2> QED
    BY <1>1, <1>2, <1>3, AppendProperties
<1>6. \A i \in 1..Len(cache') : i \in 1..Len(cache) \/ i = Len(cache) + 1
  BY <1>2, <1>5
<1>7. \A i \in 1..Len(cache) : cache[i].id < header.count
  <2> TAKE i \in 1..Len(cache)
  <2>1. CASE cache[i] = Hole /\ iter.on
    <3>1. Len(disk) > 0
      BY <1>2, <2>1 DEF MemoryOK
    <3> QED
      BY <1>2, <2>1, <3>1 DEF Hole
  <2>2. CASE cache[i].id < Len(disk)
    <3>1. cache[i].id \in Nat
      BY <1>2, LenProperties, ImagesAre, SizesAssumption
    <3> QED
      BY <1>2, <2>2, <3>1
  <2> QED
    BY <1>2, <2>1, <2>2 DEF Held
<1> HIDE DEF new
<1>8. Typed'
  <2>1. \A i \in 1..Len(cache') : ImageOK(cache'[i])
    BY <1>2, <1>3, <1>5, <1>6 DEF Typed
  <2>2. diskHeader' \in Headers \cup {NoHeader} /\ header' \in Headers \cup {NoHeader}
    BY <1>1, <1>4
  <2>3. pc' \in Running \cup Endings \cup {"down"}
    BY <1>1 DEF Running
  <2>4. UNCHANGED <<disk, freePage, iter, call, crashes>>
    BY <1>1
  <2> QED
    BY <1>2, <1>5, <2>1, <2>2, <2>3, <2>4 DEF Typed
<1>9. FileOK'
  <2>1. /\ disk' = disk /\ diskHeader' # NoHeader
        /\ diskHeader'.count = header.count + 1 /\ diskHeader'.free = diskHeader.free
        /\ diskHeader # NoHeader
    BY <1>1, <1>2, <1>4 DEF Headers, NoHeader
  <2>2. Len(disk) <= header.count + 1
    BY <1>2
  <2> QED
    BY <1>2, <2>1, <2>2 DEF FileOK
<1>10. MemoryOK'
  <2>1. \A i, j \in 1..Len(cache') : cache'[i].id = cache'[j].id => i = j
    BY <1>2, <1>3, <1>5, <1>6, <1>7 DEF Held
  <2>2. \A i \in 1..Len(cache') :
          \/ cache'[i] = Hole /\ iter'.on /\ iter'.page = i
          \/ cache'[i].id < Len(disk') /\ disk'[cache'[i].id + 1] = cache'[i]
          \/ pc' = "new_page" /\ i = Len(cache')
    BY <1>1, <1>2, <1>5, <1>6 DEF Held
  <2>3. freePage' # NULL => freePage' \in 1..Len(cache') /\ cache'[freePage'].id = header'.free
    BY <1>1, <1>2, <1>4, <1>5 DEF MemoryOK
  <2>4. iter'.on => /\ iter'.page \in 1..Len(cache') /\ iter'.next \in 1..Len(disk')
                    /\ cache'[iter'.page] = disk'[iter'.next]
    BY <1>1, <1>2, <1>5 DEF MemoryOK
  <2>5. ~iter'.on => iter' = NoIter
    BY <1>1, <1>2 DEF MemoryOK
  <2> QED
    BY <2>1, <2>2, <2>3, <2>4, <2>5 DEF MemoryOK
<1>11. CallOK'
  <2>1. header'.count - 1 = header.count /\ header'.count > 0 /\ Len(disk') < header'.count
    BY <1>1, <1>2, <1>4
  <2>2. Len(cache') > 0 /\ cache'[Len(cache')] = NewPage(header'.count - 1)
    BY <1>2, <1>5, <2>1 DEF new
  <2>3. call'.by = "init" => header'.count = 1
    BY <1>1, <1>2, <1>4 DEF CallOK
  <2> QED
    BY <1>1, <1>2, <2>1, <2>2, <2>3 DEF CallOK
<1> QED
  BY <1>1, <1>4, <1>8, <1>9, <1>10, <1>11 DEF PInv, Down

(* The page page_new writes is behind all the others. *)
LEMMA NewPageWriteKeeps ==
  ASSUME PInv, NewPageWrite
  PROVE  PInv'
<1> DEFINE new == cache[Len(cache)]
<1>1. /\ pc = "new_page" /\ pc \in Running /\ WritePage(new)
      /\ UNCHANGED <<diskHeader, header, cache, iter, crashes>>
  BY DEF NewPageWrite, Running
<1>2. /\ Typed /\ FileOK /\ MemoryOK /\ CallOK /\ header = diskHeader /\ header # NoHeader
      /\ header.count \in 1..MaxPages /\ header.free \in 0..MaxPages - 1
      /\ header.count \in Nat /\ header.free \in Nat /\ MaxPages \in Nat \ {0}
      /\ Len(disk) \in Nat /\ Len(disk) < header.count
      /\ Len(cache) \in Nat /\ Len(cache) \in 1..Len(cache)
      /\ new = NewPage(header.count - 1) /\ disk \in Seq(Images)
  BY <1>1, RunningIs DEF CallOK, Typed
<1>3. new \in Images /\ ImageOK(new) /\ new # Hole /\ new.id = header.count - 1
  BY <1>2, NewPageOK
<1> HIDE DEF new
<1>4. /\ disk' \in Seq(Images) /\ Len(disk') = header.count
      /\ disk'[header.count] = new
      /\ \A i \in 1..Len(disk) : disk'[i] = disk[i]
      /\ \A i \in 1..Len(disk') : i \in 1..Len(disk) \/ i = header.count \/ disk'[i] = Hole
  <2>1. new.id + 1 = header.count /\ ~(new.id < Len(disk)) /\ 1 <= header.count
    BY <1>2, <1>3
  <2>2. /\ disk' \in Seq(Images) /\ Len(disk') = new.id + 1
        /\ \A i \in 1..Len(disk') :
             disk'[i] = IF i = new.id + 1 THEN new ELSE IF i <= Len(disk) THEN disk[i] ELSE Hole
    BY <1>1, <1>2, <1>3, <2>1, WriteIs
  <2>3. /\ disk' \in Seq(Images) /\ Len(disk') = header.count
        /\ \A i \in 1..header.count :
             disk'[i] = IF i = header.count THEN new ELSE IF i <= Len(disk) THEN disk[i] ELSE Hole
    BY <2>1, <2>2
  <2>4. /\ header.count \in 1..header.count
        /\ \A i \in 1..Len(disk) : i \in 1..header.count /\ i # header.count
    BY <1>2
  <2> QED
    BY <1>2, <2>3, <2>4
<1>5. FileOK'
  <2>1. \A i \in 1..Len(disk') : disk'[i].id = i - 1 \/ disk'[i] = Hole
    BY <1>2, <1>3, <1>4 DEF FileOK
  <2>2. disk'[1] # Hole /\ diskHeader'.free < Len(disk') /\ disk'[diskHeader'.free + 1] # Hole
    <3>1. CASE Len(disk) > 0
      <4>1. /\ disk[1] # Hole /\ header.free < Len(disk) /\ disk[header.free + 1] # Hole
        BY <1>2, <3>1 DEF FileOK
      <4>2. 1 \in 1..Len(disk) /\ header.free + 1 \in 1..Len(disk) /\ header.free < header.count
        BY <1>2, <3>1, <4>1
      <4>3. diskHeader'.free = header.free
        BY <1>1, <1>2
      <4> QED
        BY <1>4, <4>1, <4>2, <4>3
    <3>2. CASE Len(disk) = 0
      <4>1. header.count = 1 /\ diskHeader.free = 0
        BY <1>2, <3>2 DEF CallOK, FileOK
      <4> QED
        BY <1>1, <1>3, <1>4, <4>1
    <3> QED
      BY <1>2, <3>1, <3>2
  <2>3. Len(disk') > 0 /\ diskHeader' # NoHeader /\ Len(disk') <= diskHeader'.count
    BY <1>1, <1>2, <1>4
  <2> QED
    BY <2>1, <2>2, <2>3 DEF FileOK
<1>6. /\ freePage' # NULL => freePage' \in 1..Len(cache) /\ cache[freePage'].id = header.free
      /\ freePage' \in Nat /\ pc' \in {"idle", "set_free"}
      /\ pc' = "set_free" => call'.by # "init" /\ call'.payload \in Payloads
      /\ call' \in [by : {"none", "init", "get_page", "put_item"}, payload : Payloads \cup {"none"}]
  <2>1. CASE call.by = "init"
    <3>1. freePage' = Len(cache) /\ pc' = "idle" /\ call' = [by |-> "none", payload |-> "none"]
      BY <2>1 DEF NewPageWrite, NoCall
    <3>2. header.count = 1 /\ Len(disk) = 0
      BY <1>1, <1>2, <2>1 DEF CallOK
    <3>3. header.free = 0
      BY <1>2, <3>2 DEF FileOK
    <3> QED
      BY <1>2, <1>3, <3>1, <3>2, <3>3 DEF new
  <2>2. CASE call.by # "init"
    <3>1. freePage' = freePage /\ pc' = "set_free" /\ call' = call
      BY <2>2 DEF NewPageWrite
    <3> QED
      BY <1>1, <1>2, <2>2, <3>1 DEF MemoryOK, Typed, CallOK
  <2> QED
    BY <2>1, <2>2
<1>7. Typed'
  <2>1. \A i \in 1..Len(disk') : ImageOK(disk'[i])
    BY <1>2, <1>3, <1>4, HoleIs DEF Typed
  <2>2. Len(disk') <= MaxPages
    BY <1>2, <1>4
  <2>3. pc' \in Running \cup Endings \cup {"down"}
    BY <1>6 DEF Running
  <2> QED
    BY <1>1, <1>2, <1>4, <1>6, <2>1, <2>2, <2>3 DEF Typed
<1>8. MemoryOK'
  <2>1. \A i \in 1..Len(cache) : cache[i].id \in Nat
    BY <1>2, LenProperties, ImagesAre, SizesAssumption DEF Typed
  <2>2. \A i \in 1..Len(cache') :
          \/ cache'[i] = Hole /\ iter'.on /\ iter'.page = i
          \/ cache'[i].id < Len(disk') /\ disk'[cache'[i].id + 1] = cache'[i]
    <3> SUFFICES ASSUME NEW i \in 1..Len(cache)
                 PROVE  \/ cache[i] = Hole /\ iter.on /\ iter.page = i
                        \/ cache[i].id < Len(disk') /\ disk'[cache[i].id + 1] = cache[i]
      BY <1>1
    <3>1. CASE cache[i].id < Len(disk) /\ disk[cache[i].id + 1] = cache[i]
      <4>1. cache[i].id + 1 \in 1..Len(disk) /\ cache[i].id < header.count
        BY <1>2, <2>1, <3>1
      <4> QED
        BY <1>4, <3>1, <4>1
    <3>2. CASE i = Len(cache)
      BY <1>2, <1>3, <1>4, <3>2 DEF new
    <3> QED
      BY <1>2, <3>1, <3>2 DEF MemoryOK
  <2>3. iter'.on => /\ iter'.page \in 1..Len(cache') /\ iter'.next \in 1..Len(disk')
                    /\ cache'[iter'.page] = disk'[iter'.next]
    BY <1>1, <1>2, <1>4 DEF MemoryOK
  <2> QED
    BY <1>1, <1>2, <1>6, <2>2, <2>3 DEF MemoryOK
<1>9. CallOK'
  <2>1. Len(disk') # 0
    BY <1>2, <1>4
  <2> QED
    BY <1>1, <1>2, <1>6, <2>1 DEF CallOK, new
<1> QED
  BY <1>1, <1>2, <1>5, <1>6, <1>7, <1>8, <1>9 DEF PInv, Down

LEMMA SetFreePageKeeps ==
  ASSUME PInv, SetFreePage
  PROVE  PInv'
<1> DEFINE new == cache[Len(cache)]
<1>1. /\ pc = "set_free" /\ pc \in Running /\ pc # "new_page"
      /\ freePage' = Len(cache) /\ header' = [header EXCEPT !.free = new.id]
      /\ diskHeader' = header' /\ UNCHANGED <<disk, cache, iter, crashes>>
  BY DEF SetFreePage, WriteHeader, Running
<1>2. /\ Typed /\ FileOK /\ MemoryOK /\ CallOK /\ header = diskHeader /\ header \in Headers
      /\ header.count \in 0..MaxPages /\ header.free \in 0..MaxPages - 1
      /\ header.count \in Nat /\ header.free \in Nat /\ MaxPages \in Nat \ {0}
      /\ Len(disk) \in Nat /\ Len(disk) <= header.count /\ Held(cache)
      /\ Len(cache) \in Nat /\ Len(cache) > 0 /\ Len(cache) \in 1..Len(cache)
      /\ new = NewPage(header.count - 1) /\ Len(disk) > 0
      /\ call.by # "init" /\ call.payload \in Payloads
  BY <1>1, RunningIs, HeldIs DEF CallOK
<1>3. /\ header.count - 1 \in 0..MaxPages - 1
      /\ new # Hole /\ new.id = header.count - 1
  BY <1>2, NewPageOK, SizesAssumption
<1>4. new.id < Len(disk) /\ disk[new.id + 1] = new
  BY <1>2, <1>3 DEF Held
<1> HIDE DEF new
<1>5. /\ header' \in Headers /\ header' # NoHeader
      /\ header'.count = header.count /\ header'.free = new.id
  BY <1>1, <1>2, <1>3 DEF Headers, NoHeader
<1>6. FileOK'
  BY <1>1, <1>2, <1>3, <1>4, <1>5 DEF FileOK
<1>7. /\ pc' \in {"write_item", "new_header", "no_space"}
      /\ pc' = "write_item" => new.room > 0
      /\ call' \in [by : {"none", "init", "get_page", "put_item"}, payload : Payloads \cup {"none"}]
      /\ call'.by # "init" /\ call'.payload \in Payloads
  <2>1. CASE CanFit(new, call.payload)
    <3>1. pc' = "write_item" /\ call' = call
      BY <2>1 DEF SetFreePage, new
    <3> QED
      BY <1>2, <2>1, <3>1 DEF CanFit, Typed
  <2>2. CASE ~CanFit(new, call.payload) /\ call.by = "get_page"
    <3>1. pc' = "new_header" /\ call' = [call EXCEPT !.by = "put_item"]
      BY <2>2 DEF SetFreePage, new
    <3> QED
      BY <1>2, <3>1 DEF Typed
  <2>3. CASE ~CanFit(new, call.payload) /\ call.by # "get_page"
    <3>1. pc' = "no_space" /\ call' = call
      BY <2>3 DEF SetFreePage, new
    <3> QED
      BY <1>2, <3>1 DEF Typed
  <2> QED
    BY <2>1, <2>2, <2>3
<1>8. Typed'
  <2>1. pc' \in Running \cup Endings \cup {"down"}
    BY <1>7 DEF Running, Endings
  <2> QED
    BY <1>1, <1>2, <1>5, <1>7, <2>1 DEF Typed
<1>9. MemoryOK'
  <2>1. freePage' \in 1..Len(cache') /\ cache'[freePage'].id = header'.free
    BY <1>1, <1>2, <1>5 DEF new
  <2> QED
    BY <1>1, <1>2, <2>1 DEF MemoryOK
<1>10. pc' # "no_space" => CallOK'
  <2>1. freePage' # NULL /\ cache'[freePage'] = new
    BY <1>1, <1>2 DEF new, NULL
  <2> QED
    BY <1>1, <1>2, <1>7, <2>1 DEF CallOK
<1> QED
  BY <1>1, <1>5, <1>6, <1>7, <1>8, <1>9, <1>10 DEF PInv, Down, Running

(* Putting reads the current free page, which the file has: the read finds *)
(* it, in memory or in the file.                                           *)
LEMMA PutItemReads ==
  ASSUME PInv, NEW p \in Payloads, PutItem(p)
  PROVE  /\ Held(cache') /\ Len(cache) <= Len(cache')
         /\ \A i \in 1..Len(cache) : cache'[i] = cache[i]
         /\ freePage' \in 1..Len(cache') /\ freePage' # NULL
         /\ cache'[freePage'].id = header.free
         /\ pc' \in {"new_header", "write_item"}
         /\ pc' = "write_item" => cache'[freePage'].room > 0
         /\ \E who \in {"get_page", "put_item"} : call' = [by |-> who, payload |-> p]
<1> DEFINE read == IF freePage # NULL THEN [pages |-> cache, at |-> freePage]
                   ELSE ReadPage(cache, header.free)
<1>1. /\ pc = "idle" /\ pc \in Running /\ cache' = read.pages /\ freePage' = read.at
      /\ IF read.at = NULL
           THEN pc' = "read_failed" /\ UNCHANGED call
         ELSE IF TooFull(read.pages[read.at])
           THEN pc' = "new_header" /\ call' = [by |-> "get_page", payload |-> p]
         ELSE IF ~CanFit(read.pages[read.at], p)
           THEN pc' = "new_header" /\ call' = [by |-> "put_item", payload |-> p]
         ELSE pc' = "write_item" /\ call' = [by |-> "put_item", payload |-> p]
  BY DEF PutItem, Running
<1>2. /\ Typed /\ FileOK /\ MemoryOK /\ Held(cache) /\ header = diskHeader
      /\ header.free \in Nat /\ Len(disk) > 0 /\ Len(cache) \in Nat
  BY <1>1, RunningIs, HeldIs DEF CallOK
<1>3. /\ Held(read.pages) /\ Len(cache) <= Len(read.pages)
      /\ \A i \in 1..Len(cache) : read.pages[i] = cache[i]
      /\ read.at \in 1..Len(read.pages) /\ read.pages[read.at].id = header.free
  <2>1. CASE freePage # NULL
    <3>1. read.pages = cache /\ read.at = freePage
      BY <2>1
    <3>2. freePage \in 1..Len(cache) /\ cache[freePage].id = header.free
      BY <1>2, <2>1 DEF MemoryOK
    <3> HIDE DEF read
    <3> QED
      BY <1>2, <3>1, <3>2
  <2>2. CASE freePage = NULL
    <3>1. read = ReadPage(cache, header.free)
      BY <2>2
    <3>2. header.free < Len(disk) /\ disk[header.free + 1] # Hole
      BY <1>2 DEF FileOK
    <3> HIDE DEF read
    <3> QED
      BY <1>2, <3>1, <3>2, ReadHeld
  <2> QED
    BY <2>1, <2>2
<1> HIDE DEF read
<1>4. read.at # NULL
  BY <1>3, LenProperties DEF Held, NULL
<1>5. /\ pc' \in {"new_header", "write_item"}
      /\ pc' = "write_item" => CanFit(read.pages[read.at], p)
      /\ \E who \in {"get_page", "put_item"} : call' = [by |-> who, payload |-> p]
  BY <1>1, <1>4
<1> QED
  BY <1>1, <1>3, <1>4, <1>5 DEF CanFit

LEMMA PutItemKeeps ==
  ASSUME PInv, NEW p \in Payloads, PutItem(p)
  PROVE  PInv'
<1>1. /\ pc = "idle" /\ pc \in Running
      /\ UNCHANGED <<diskHeader, disk, header, iter, crashes>>
  BY DEF PutItem, Running
<1>2. /\ Held(cache') /\ Len(cache) <= Len(cache')
      /\ \A i \in 1..Len(cache) : cache'[i] = cache[i]
      /\ freePage' \in 1..Len(cache') /\ freePage' # NULL
      /\ cache'[freePage'].id = header.free
      /\ pc' \in {"new_header", "write_item"}
      /\ pc' = "write_item" => cache'[freePage'].room > 0
  BY PutItemReads
<1>3. PICK who \in {"get_page", "put_item"} : call' = [by |-> who, payload |-> p]
  BY PutItemReads
<1>4. /\ Typed /\ FileOK /\ MemoryOK /\ CallOK /\ header = diskHeader /\ header # NoHeader
      /\ Len(disk) > 0 /\ Len(cache) \in Nat /\ Len(cache') \in Nat
  BY <1>1, <1>2, RunningIs, LenProperties DEF CallOK, Held
<1>5. Typed'
  BY <1>1, <1>2, <1>3, <1>4 DEF Typed, Held, Running
<1>6. FileOK'
  BY <1>1, <1>4, FileKept
<1>7. MemoryOK'
  <2>1. iter.on => iter.page \in 1..Len(cache') /\ cache'[iter.page] = cache[iter.page]
    BY <1>2, <1>4 DEF MemoryOK
  <2> QED
    BY <1>1, <1>2, <1>4, <2>1 DEF MemoryOK, Held
<1>8. CallOK'
  BY <1>1, <1>2, <1>3, <1>4 DEF CallOK
<1> QED
  BY <1>1, <1>2, <1>4, <1>5, <1>6, <1>7, <1>8 DEF PInv, Down

(* A page is changed in memory and written: no other page of the file      *)
(* changes.                                                                *)
LEMMA UpdateIs ==
  ASSUME PInv, pc \in Running, pc # "new_page",
         NEW at \in 1..Len(cache), cache[at] # Hole,
         NEW new, ImageOK(new), new.id = cache[at].id, WritePage(new)
  PROVE  /\ disk' \in Seq(Images) /\ Len(disk') = Len(disk)
         /\ new.id \in Nat /\ new.id + 1 \in 1..Len(disk) /\ disk[new.id + 1] = cache[at]
         /\ \A i \in 1..Len(disk) : disk'[i] = IF i = new.id + 1 THEN new ELSE disk[i]
<1>1. /\ Held(cache) /\ disk \in Seq(Images) /\ Len(disk) \in Nat
      /\ new \in Images /\ new.id \in Nat
  BY RunningIs, HeldIs, ImagesAre, SizesAssumption DEF Typed, ImageOK
<1>2. new.id < Len(disk) /\ disk[new.id + 1] = cache[at]
  BY <1>1 DEF Held
<1>3. new.id + 1 \in 1..Len(disk)
  BY <1>1, <1>2
<1>4. /\ disk' \in Seq(Images) /\ Len(disk') = Len(disk)
      /\ \A i \in 1..Len(disk') :
           disk'[i] = IF i = new.id + 1 THEN new ELSE IF i <= Len(disk) THEN disk[i] ELSE Hole
  BY <1>1, <1>2, WriteIs
<1> QED
  BY <1>1, <1>2, <1>3, <1>4

LEMMA UpdateKeeps ==
  ASSUME PInv, pc \in Running, pc # "new_page",
         NEW at \in 1..Len(cache), cache[at] # Hole,
         NEW new, ImageOK(new), new # Hole, new.id = cache[at].id, WritePage(new),
         cache' = [cache EXCEPT ![at] = new], pc' = "idle",
         call' \in [by : {"none", "init", "get_page", "put_item"},
                    payload : Payloads \cup {"none"}],
         UNCHANGED <<diskHeader, header, freePage, iter, crashes>>
  PROVE  PInv'
<1>1. /\ Typed /\ FileOK /\ MemoryOK /\ Held(cache) /\ header = diskHeader /\ header # NoHeader
      /\ Len(disk) \in Nat /\ Len(cache) \in Nat /\ header.free \in Nat
      /\ cache \in Seq(Images) /\ new \in Images
      /\ \A i \in 1..Len(disk) : disk[i].id = i - 1 \/ disk[i] = Hole
  BY RunningIs, HeldIs DEF Typed, FileOK, ImageOK
<1>2. /\ disk' \in Seq(Images) /\ Len(disk') = Len(disk)
      /\ new.id \in Nat /\ new.id + 1 \in 1..Len(disk) /\ disk[new.id + 1] = cache[at]
      /\ \A i \in 1..Len(disk) : disk'[i] = IF i = new.id + 1 THEN new ELSE disk[i]
  BY UpdateIs
<1>3. /\ cache' \in Seq(Images) /\ Len(cache') = Len(cache)
      /\ \A i \in 1..Len(cache) : cache'[i] = IF i = at THEN new ELSE cache[i]
  BY <1>1, ExceptSeq
<1>4. Typed'
  <2>1. \A i \in 1..Len(disk') : ImageOK(disk'[i])
    BY <1>1, <1>2 DEF Typed
  <2>2. \A i \in 1..Len(cache') : ImageOK(cache'[i])
    BY <1>1, <1>3 DEF Typed
  <2> QED
    BY <1>1, <1>2, <1>3, <2>1, <2>2 DEF Typed, Running
<1>5. FileOK'
  <2>1. \A i \in 1..Len(disk') : disk'[i].id = i - 1 \/ disk'[i] = Hole
    BY <1>1, <1>2
  <2>2. /\ disk[1] # Hole /\ header.free < Len(disk) /\ disk[header.free + 1] # Hole
        /\ 1 \in 1..Len(disk) /\ Len(disk) > 0
    BY <1>1, <1>2 DEF FileOK
  <2>3. header.free + 1 \in 1..Len(disk)
    BY <1>1, <2>2
  <2>4. disk'[1] # Hole /\ disk'[header.free + 1] # Hole
    BY <1>2, <2>2, <2>3
  <2>5. Len(disk) <= diskHeader.count
    BY <1>1 DEF FileOK
  <2> QED
    BY <1>1, <1>2, <2>1, <2>2, <2>4, <2>5 DEF FileOK
<1>6. MemoryOK'
  <2>1. \A i \in 1..Len(cache) : cache'[i].id = cache[i].id
    BY <1>3
  <2>2. \A i, j \in 1..Len(cache') : cache'[i].id = cache'[j].id => i = j
    BY <1>1, <1>3, <2>1 DEF Held
  <2>3. \A i \in 1..Len(cache) :
          \/ cache'[i] = Hole /\ iter.on /\ iter.page = i
          \/ cache'[i].id < Len(disk') /\ disk'[cache'[i].id + 1] = cache'[i]
    <3> TAKE i \in 1..Len(cache)
    <3>1. CASE i = at
      BY <1>1, <1>2, <1>3, <3>1
    <3>2. CASE i # at /\ cache[i] = Hole /\ iter.on /\ iter.page = i
      BY <1>3, <3>2
    <3>3. CASE i # at /\ cache[i].id < Len(disk) /\ disk[cache[i].id + 1] = cache[i]
      <4>1. cache[i].id # new.id /\ cache[i].id \in Nat
        BY <1>1, <3>3, LenProperties, ImagesAre, SizesAssumption DEF Held
      <4>2. cache[i].id + 1 \in 1..Len(disk) /\ cache[i].id + 1 # new.id + 1
        BY <1>1, <1>2, <3>3, <4>1
      <4> QED
        BY <1>2, <1>3, <3>3, <4>2
    <3> QED
      BY <1>1, <3>1, <3>2, <3>3 DEF Held
  <2>4. iter.on => cache'[iter.page] = disk'[iter.next]
    <3> SUFFICES ASSUME iter.on PROVE cache'[iter.page] = disk'[iter.next]
      OBVIOUS
    <3>1. /\ iter.page \in 1..Len(cache) /\ iter.next \in 1..Len(disk)
          /\ cache[iter.page] = disk[iter.next]
      BY <1>1 DEF MemoryOK
    <3>2. CASE iter.page = at
      <4>1. iter.next = new.id + 1
        BY <1>1, <1>2, <3>1, <3>2
      <4> QED
        BY <1>2, <1>3, <3>1, <3>2, <4>1
    <3>3. CASE iter.page # at
      <4>1. iter.next # new.id + 1
        BY <1>1, <1>2, <3>1, <3>3 DEF Held
      <4> QED
        BY <1>2, <1>3, <3>1, <3>3, <4>1
    <3> QED
      BY <3>2, <3>3
  <2>5. freePage # NULL => freePage \in 1..Len(cache) /\ cache'[freePage].id = header.free
    BY <1>1, <2>1 DEF MemoryOK
  <2> QED
    BY <1>1, <1>2, <1>3, <2>2, <2>3, <2>4, <2>5 DEF MemoryOK
<1>7. CallOK'
  <2>1. Len(disk') # 0
    BY <1>1, <1>2
  <2> QED
    BY <2>1 DEF CallOK
<1> QED
  BY <1>1, <1>4, <1>5, <1>6, <1>7 DEF PInv, Down

(* The item that is put goes into the current free page. *)
LEMMA WriteItemUpdates ==
  ASSUME PInv, WriteItem
  PROVE  /\ pc \in Running /\ pc # "new_page"
         /\ freePage \in 1..Len(cache) /\ ImageOK(cache[freePage])
         /\ cache[freePage].room > 0 /\ call.payload \in Payloads
         /\ cache' = [cache EXCEPT ![freePage] = WithItem(cache[freePage], call.payload)]
         /\ WritePage(WithItem(cache[freePage], call.payload))
<1>1. /\ pc = "write_item" /\ pc \in Running
      /\ cache' = [cache EXCEPT ![freePage] = WithItem(cache[freePage], call.payload)]
      /\ WritePage(cache'[freePage])
  BY DEF WriteItem, Running
<1>2. /\ freePage \in 1..Len(cache) /\ cache[freePage].room > 0 /\ call.payload \in Payloads
      /\ ImageOK(cache[freePage]) /\ freePage \in DOMAIN cache
  BY <1>1, RunningIs DEF CallOK, MemoryOK, Typed
<1>3. cache'[freePage] = WithItem(cache[freePage], call.payload)
  BY <1>1, <1>2
<1> QED
  BY <1>1, <1>2, <1>3

LEMMA WriteItemKeeps ==
  ASSUME PInv, WriteItem
  PROVE  PInv'
<1> DEFINE new == WithItem(cache[freePage], call.payload)
<1>1. /\ pc \in Running /\ pc # "new_page" /\ freePage \in 1..Len(cache)
      /\ cache' = [cache EXCEPT ![freePage] = new] /\ WritePage(new)
  BY WriteItemUpdates
<1>2. ImageOK(new) /\ new # Hole /\ new.id = cache[freePage].id /\ cache[freePage] # Hole
  BY WriteItemUpdates, WithItemOK
<1>3. /\ pc' = "idle" /\ call' = [by |-> "none", payload |-> "none"]
      /\ UNCHANGED <<diskHeader, header, freePage, iter, crashes>>
  BY DEF WriteItem, NoCall
<1> HIDE DEF new
<1>4. call' \in [by : {"none", "init", "get_page", "put_item"}, payload : Payloads \cup {"none"}]
  BY <1>3
<1> QED
  BY <1>1, <1>2, <1>3, <1>4, UpdateKeeps

(* The item that is deleted is one of the iterator's page. *)
LEMMA DeleteItemUpdates ==
  ASSUME PInv, NEW s \in 0..Capacity - 1, DeleteItem(s)
  PROVE  /\ pc \in Running /\ pc # "new_page"
         /\ iter.page \in 1..Len(cache) /\ ImageOK(cache[iter.page])
         /\ s \in DOMAIN cache[iter.page].live
         /\ cache' = [cache EXCEPT ![iter.page] = WithoutItem(cache[iter.page], s)]
         /\ WritePage(WithoutItem(cache[iter.page], s))
<1>1. /\ pc = "idle" /\ pc \in Running /\ iter.page # NULL
      /\ s \in DOMAIN cache[iter.page].live
      /\ cache' = [cache EXCEPT ![iter.page] = WithoutItem(cache[iter.page], s)]
      /\ WritePage(cache'[iter.page])
  BY DEF DeleteItem, Running
<1>2. /\ iter.page \in 1..Len(cache) /\ iter.page \in DOMAIN cache
      /\ ImageOK(cache[iter.page])
  BY <1>1, RunningIs DEF MemoryOK, Typed, NoIter
<1>3. cache'[iter.page] = WithoutItem(cache[iter.page], s)
  BY <1>1, <1>2
<1> QED
  BY <1>1, <1>2, <1>3

LEMMA DeleteItemKeeps ==
  ASSUME PInv, NEW s \in 0..Capacity - 1, DeleteItem(s)
  PROVE  PInv'
<1> DEFINE new == WithoutItem(cache[iter.page], s)
<1>1. /\ pc \in Running /\ pc # "new_page" /\ iter.page \in 1..Len(cache)
      /\ cache' = [cache EXCEPT ![iter.page] = new] /\ WritePage(new)
  BY DeleteItemUpdates
<1>2. ImageOK(new) /\ new # Hole /\ new.id = cache[iter.page].id /\ cache[iter.page] # Hole
  BY DeleteItemUpdates, WithoutItemOK
<1>3. /\ pc' = "idle" /\ call' = call
      /\ UNCHANGED <<diskHeader, header, freePage, iter, crashes>>
  BY DEF DeleteItem
<1> HIDE DEF new
<1>4. call' \in [by : {"none", "init", "get_page", "put_item"}, payload : Payloads \cup {"none"}]
  BY <1>1, <1>3, RunningIs DEF Typed
<1> QED
  BY <1>1, <1>2, <1>3, <1>4, UpdateKeeps

(* A new iterator reads page 0, which is never a hole. *)
LEMMA IteratorNewKeeps ==
  ASSUME PInv, IteratorNew
  PROVE  PInv'
<1> DEFINE read == ReadPage(cache, 0)
<1>1. /\ pc = "idle" /\ pc \in Running /\ ~iter.on
      /\ cache' = read.pages /\ iter' = [on |-> TRUE, page |-> read.at, next |-> 1]
      /\ UNCHANGED <<diskHeader, disk, header, freePage, pc, call, crashes>>
  BY DEF IteratorNew, Running
<1>2. /\ Typed /\ FileOK /\ MemoryOK /\ CallOK /\ header = diskHeader /\ header # NoHeader
      /\ Held(cache) /\ Len(disk) \in Nat /\ Len(disk) > 0 /\ disk[1] # Hole
      /\ Len(cache) \in Nat
  BY <1>1, RunningIs, HeldIs DEF CallOK, FileOK
<1>3. /\ Held(read.pages) /\ Len(cache) <= Len(read.pages)
      /\ \A i \in 1..Len(cache) : read.pages[i] = cache[i]
      /\ read.at \in 1..Len(read.pages) /\ read.pages[read.at].id = 0
  <2>1. 0 \in Nat /\ 0 < Len(disk) /\ disk[0 + 1] # Hole
    BY <1>2
  <2> QED
    BY <1>2, <2>1, ReadHeld
<1> HIDE DEF read
<1>4. /\ read.pages[read.at] = disk[1]
      /\ \A i \in 1..Len(read.pages) :
           read.pages[i].id < Len(disk) /\ disk[read.pages[i].id + 1] = read.pages[i]
  <2>1. \A i \in 1..Len(read.pages) :
          read.pages[i].id < Len(disk) /\ disk[read.pages[i].id + 1] = read.pages[i]
    BY <1>1, <1>3 DEF Held
  <2>2. disk[0 + 1] = read.pages[read.at]
    BY <1>3, <2>1
  <2> QED
    BY <2>1, <2>2
<1>5. Len(read.pages) \in Nat /\ Len(disk) <= MaxPages /\ MaxPages \in Nat
  BY <1>2, <1>3, LenProperties, SizesAssumption DEF Held, Typed
<1>6. Typed'
  <2>1. iter' \in [on : BOOLEAN, page : Nat, next : 0..MaxPages]
    BY <1>1, <1>2, <1>3, <1>5
  <2> QED
    BY <1>1, <1>2, <1>3, <2>1 DEF Typed, Held
<1>7. FileOK'
  BY <1>1, <1>2, FileKept
<1>8. MemoryOK'
  <2>1. freePage # NULL => freePage \in 1..Len(cache') /\ cache'[freePage].id = header.free
    BY <1>1, <1>2, <1>3, <1>5 DEF MemoryOK
  <2>2. iter'.on /\ iter'.page = read.at /\ iter'.next = 1 /\ 1 \in 1..Len(disk)
    BY <1>1, <1>2
  <2> QED
    BY <1>1, <1>3, <1>4, <2>1, <2>2 DEF MemoryOK, Held
<1>9. CallOK'
  BY <1>1, <1>2 DEF CallOK
<1> QED
  BY <1>1, <1>2, <1>6, <1>7, <1>8, <1>9 DEF PInv, Down

(* The next page is read into an empty list: from the file, as it is       *)
(* there, or not at all when the file is too short.                        *)
LEMMA IteratorNextReads ==
  ASSUME PInv, IteratorNext
  PROVE  \/ /\ iter.next < Len(disk) /\ pc' = "idle"
            /\ cache' = <<disk[iter.next + 1]>>
            /\ iter' = [on |-> TRUE, page |-> 1, next |-> iter.next + 1]
         \/ /\ ~(iter.next < Len(disk)) /\ pc' = "read_failed"
            /\ cache' = <<NewPage(iter.next)>>
            /\ iter' = [on |-> TRUE, page |-> NULL, next |-> iter.next + 1]
<1> DEFINE read == ReadPage(<<>>, iter.next)
<1>1. /\ pc = "idle" /\ pc \in Running /\ iter.page # NULL /\ iter.next < header.count
      /\ cache' = read.pages /\ iter' = [iter EXCEPT !.page = read.at, !.next = @ + 1]
      /\ pc' = IF read.at = NULL THEN "read_failed" ELSE "idle"
  BY DEF IteratorNext, Running
<1>2. /\ disk \in Seq(Images) /\ iter.on /\ iter.next \in 0..MaxPages - 1
      /\ iter = [on |-> iter.on, page |-> iter.page, next |-> iter.next]
  <2>1. /\ Typed /\ MemoryOK /\ header.count \in 0..MaxPages /\ MaxPages \in Nat
    BY <1>1, RunningIs
  <2>2. iter.next \in 0..MaxPages /\ iter \in [on : BOOLEAN, page : Nat, next : 0..MaxPages]
    BY <2>1 DEF Typed
  <2>3. iter.on
    BY <1>1, <2>1 DEF MemoryOK, NoIter
  <2>4. iter.next \in 0..MaxPages - 1
    BY <1>1, <2>1, <2>2
  <2> QED
    BY <2>1, <2>2, <2>3, <2>4 DEF Typed
<1>3. iter' = [on |-> TRUE, page |-> read.at, next |-> iter.next + 1]
  <2> HIDE DEF read
  <2>1. iter.on = TRUE
    BY <1>2, RunningIs, <1>1 DEF Typed
  <2> QED
    BY <1>1, <1>2, <2>1
<1>4. \/ /\ iter.next < Len(disk)
         /\ read.pages = Append(<<>>, disk[iter.next + 1]) /\ read.at = Len(<<>>) + 1
      \/ /\ ~(iter.next < Len(disk))
         /\ read.pages = Append(<<>>, NewPage(iter.next)) /\ read.at = NULL
  <2>1. <<>> \in Seq(Images) /\ Len(<<>>) = 0 /\ ~\E i \in 1..Len(<<>>) : TRUE
    OBVIOUS
  <2> DEFINE none == <<>>
  <2>2. none \in Seq(Images) /\ iter.next \in 0..MaxPages - 1 /\ disk \in Seq(Images)
    BY <1>2, <2>1
  <2>3. read = ReadPage(none, iter.next)
    OBVIOUS
  <2> HIDE DEF read, none
  <2>4. IsRead(read, none, iter.next)
    BY <2>2, <2>3, ReadIs
  <2> QED
    BY <2>1, <2>4 DEF IsRead, none
<1> HIDE DEF read
<1>5. /\ Append(<<>>, disk[iter.next + 1]) = <<disk[iter.next + 1]>>
      /\ Append(<<>>, NewPage(iter.next)) = <<NewPage(iter.next)>>
      /\ Len(<<>>) + 1 = 1 /\ 1 # NULL
  BY DEF NULL
<1> QED
  BY <1>1, <1>3, <1>4, <1>5

LEMMA IteratorNextKeeps ==
  ASSUME PInv, IteratorNext
  PROVE  PInv'
<1>1. /\ pc = "idle" /\ pc \in Running /\ iter.page # NULL /\ iter.next < header.count
      /\ freePage' = NULL /\ UNCHANGED <<diskHeader, disk, header, call, crashes>>
  BY DEF IteratorNext, Running
<1>2. /\ Typed /\ FileOK /\ MemoryOK /\ CallOK /\ header = diskHeader /\ header # NoHeader
      /\ header.count \in 0..MaxPages /\ MaxPages \in Nat
      /\ Len(disk) \in Nat /\ iter.next \in Nat
  BY <1>1, RunningIs DEF Typed
<1>3. iter.next + 1 \in 0..MaxPages /\ iter.next \in 0..MaxPages - 1
  BY <1>1, <1>2
<1>4. FileOK'
  BY <1>1, <1>2, FileKept
<1>5. CASE /\ iter.next < Len(disk) /\ pc' = "idle"
           /\ cache' = <<disk[iter.next + 1]>>
           /\ iter' = [on |-> TRUE, page |-> 1, next |-> iter.next + 1]
  <2> DEFINE page == disk[iter.next + 1]
  <2>1. /\ iter.next + 1 \in 1..Len(disk) /\ page \in Images /\ ImageOK(page)
        /\ page.id = iter.next \/ page = Hole
    <3>1. iter.next + 1 \in 1..Len(disk)
      BY <1>2, <1>5
    <3>2. page.id = (iter.next + 1) - 1 \/ page = Hole
      BY <1>2, <3>1 DEF FileOK
    <3> QED
      BY <1>2, <3>1, <3>2 DEF Typed, ImageOK
  <2> HIDE DEF page
  <2>2. /\ cache' = <<page>> /\ cache' \in Seq(Images) /\ Len(cache') = 1 /\ cache'[1] = page
    BY <1>5, <2>1 DEF page
  <2>3. Typed'
    BY <1>1, <1>2, <1>3, <1>5, <2>1, <2>2 DEF Typed, Running, NULL
  <2>4. MemoryOK'
    <3>1. /\ iter'.on /\ iter'.page = 1 /\ iter'.next = iter.next + 1 /\ disk' = disk
          /\ freePage' = NULL
      BY <1>1, <1>5
    <3>2. page = Hole \/ (page.id < Len(disk) /\ disk[page.id + 1] = page)
      BY <1>5, <2>1 DEF page
    <3>3. \A i \in 1..Len(cache') : i = 1
      BY <2>2
    <3>4. 1 \in 1..Len(cache') /\ cache'[1] = disk[iter.next + 1]
      BY <2>2 DEF page
    <3> QED
      BY <2>1, <2>2, <3>1, <3>2, <3>3, <3>4 DEF MemoryOK
  <2>5. CallOK'
    BY <1>1, <1>2, <1>5 DEF CallOK
  <2> QED
    BY <1>1, <1>2, <1>4, <1>5, <2>3, <2>4, <2>5 DEF PInv, Down
<1>6. CASE /\ pc' = "read_failed" /\ cache' = <<NewPage(iter.next)>>
           /\ iter' = [on |-> TRUE, page |-> NULL, next |-> iter.next + 1]
  <2>1. NewPage(iter.next) \in Images /\ ImageOK(NewPage(iter.next))
    BY <1>3, NewPageOK
  <2>2. /\ cache' \in Seq(Images) /\ Len(cache') = 1 /\ cache'[1] = NewPage(iter.next)
    BY <1>6, <2>1
  <2>3. Typed'
    BY <1>1, <1>2, <1>3, <1>6, <2>1, <2>2 DEF Typed, Endings, NULL
  <2> QED
    BY <1>4, <1>6, <2>3 DEF PInv, Down, Running
<1> QED
  BY <1>5, <1>6, IteratorNextReads

(* The iterator that is left is on page 0, which is no hole. *)
LEMMA IteratorLeakKeeps ==
  ASSUME PInv, IteratorLeak
  PROVE  PInv'
<1>1. /\ pc = "idle" /\ pc \in Running /\ iter.on /\ iter.next = 1
      /\ iter' = [on |-> FALSE, page |-> 0, next |-> 0]
      /\ UNCHANGED <<diskHeader, disk, header, cache, freePage, pc, call, crashes>>
  BY DEF IteratorLeak, Running, NoIter, NULL
<1>2. /\ Typed /\ FileOK /\ MemoryOK /\ CallOK /\ header = diskHeader /\ header # NoHeader
      /\ Len(disk) \in Nat /\ Len(disk) > 0 /\ disk[1] # Hole
  BY <1>1, RunningIs DEF CallOK, FileOK
<1>3. Typed'
  BY <1>1, <1>2, SizesAssumption DEF Typed
<1>4. FileOK'
  BY <1>1, <1>2, FileKept
<1>5. MemoryOK'
  <2>1. cache[iter.page] # Hole
    BY <1>1, <1>2 DEF MemoryOK
  <2>2. ~iter'.on /\ iter' = NoIter
    BY <1>1 DEF NoIter, NULL
  <2> QED
    BY <1>1, <1>2, <2>1, <2>2 DEF MemoryOK
<1>6. CallOK'
  BY <1>1, <1>2 DEF CallOK
<1> QED
  BY <1>1, <1>2, <1>3, <1>4, <1>5, <1>6 DEF PInv, Down

LEMMA FreePagesKeeps ==
  ASSUME PInv, FreePages
  PROVE  PInv'
<1>1. /\ pc = "idle" /\ pc \in Running /\ cache' = <<>> /\ freePage' = NULL
      /\ iter' = [on |-> FALSE, page |-> 0, next |-> 0]
      /\ UNCHANGED <<diskHeader, disk, header, pc, call, crashes>>
  BY DEF FreePages, Running, NoIter, NULL
<1>2. Typed /\ FileOK /\ CallOK /\ header = diskHeader /\ header # NoHeader
  BY <1>1, RunningIs
<1>3. Typed'
  BY <1>1, <1>2, SizesAssumption DEF Typed, NULL
<1>4. FileOK'
  BY <1>1, <1>2, FileKept
<1>5. MemoryOK'
  <2>1. Len(cache') = 0 /\ ~iter'.on /\ iter' = NoIter
    BY <1>1 DEF NoIter, NULL
  <2> QED
    BY <1>1, <2>1 DEF MemoryOK
<1>6. CallOK'
  BY <1>1, <1>2 DEF CallOK
<1> QED
  BY <1>1, <1>2, <1>3, <1>4, <1>5, <1>6 DEF PInv, Down

(* Closed or killed, the process leaves the file and nothing else. *)
LEMMA ForgetKeeps ==
  ASSUME PInv, Forget, UNCHANGED <<diskHeader, disk>>, crashes' \in 0..MaxCrashes
  PROVE  PInv'
<1>1. Typed /\ FileOK
  BY DEF PInv
<1>2. /\ header' = NoHeader /\ cache' = <<>> /\ freePage' = NULL /\ iter' = NoIter
      /\ call' = NoCall /\ pc' = "down" /\ UNCHANGED <<diskHeader, disk>>
  BY DEF Forget
<1>3. Typed'
  <2>1. iter' \in [on : BOOLEAN, page : Nat, next : 0..MaxPages]
    BY <1>2, SizesAssumption DEF NoIter, NULL
  <2>2. call' \in [by : {"none", "init", "get_page", "put_item"},
                   payload : Payloads \cup {"none"}]
    BY <1>2 DEF NoCall
  <2>3. cache' \in Seq(Images) /\ Len(cache') = 0
    BY <1>2
  <2> QED
    BY <1>1, <1>2, <2>1, <2>2, <2>3 DEF Typed, NULL
<1>4. FileOK'
  BY <1>1, <1>2, FileKept
<1> QED
  BY <1>2, <1>3, <1>4 DEF PInv, Down, Running

LEMMA StepKeeps == PInv /\ [Next]_vars => PInv'
<1> SUFFICES ASSUME PInv, [Next]_vars PROVE PInv'
  OBVIOUS
<1>1. CASE InitNewFile
  BY <1>1, InitNewFileKeeps
<1>2. CASE InitOldFile
  BY <1>2, InitOldFileKeeps
<1>3. CASE NewPageHeader
  BY <1>3, NewPageHeaderKeeps
<1>4. CASE NewPageWrite
  BY <1>4, NewPageWriteKeeps
<1>5. CASE SetFreePage
  BY <1>5, SetFreePageKeeps
<1>6. CASE \E p \in Payloads : PutItem(p)
  BY <1>6, PutItemKeeps
<1>7. CASE WriteItem
  BY <1>7, WriteItemKeeps
<1>8. CASE \E s \in 0..Capacity - 1 : DeleteItem(s)
  BY <1>8, DeleteItemKeeps
<1>9. CASE IteratorNew
  BY <1>9, IteratorNewKeeps
<1>10. CASE IteratorNext
  BY <1>10, IteratorNextKeeps
<1>11. CASE IteratorLeak
  BY <1>11, IteratorLeakKeeps
<1>12. CASE FreePages
  BY <1>12, FreePagesKeeps
<1>13. CASE Close
  <2>1. Forget /\ UNCHANGED <<diskHeader, disk>> /\ crashes' = crashes
    BY <1>13 DEF Close
  <2>2. crashes' \in 0..MaxCrashes
    BY <2>1 DEF PInv, Typed
  <2> QED
    BY <2>1, <2>2, ForgetKeeps
<1>14. CASE Crash
  <2>1. Forget /\ UNCHANGED <<diskHeader, disk>> /\ crashes' = crashes + 1 /\ crashes < MaxCrashes
    BY <1>14 DEF Crash
  <2>2. crashes' \in 0..MaxCrashes
    BY <2>1, SizesAssumption DEF PInv, Typed
  <2> QED
    BY <2>1, <2>2, ForgetKeeps
<1>15. CASE UNCHANGED vars
  BY <1>15 DEF vars, ram, PInv, Typed, FileOK, Down, MemoryOK, CallOK
<1> QED
  BY <1>1, <1>2, <1>3, <1>4, <1>5, <1>6, <1>7, <1>8, <1>9, <1>10, <1>11, <1>12, <1>13,
     <1>14, <1>15 DEF Next

-----------------------------------------------------------------------------
(* The properties follow from the invariant, state by state. *)
LEMMA TypedState == PInv => TypeOK
  BY LenProperties DEF PInv, Typed, TypeOK

LEMMA HeaderState == PInv => HeaderCoversFile
<1> SUFFICES ASSUME PInv PROVE HeaderCoversFile
  OBVIOUS
<1>1. DOMAIN disk = 1..Len(disk) /\ FileOK
  BY LenProperties DEF PInv, Typed
<1> QED
  BY <1>1 DEF PInv, FileOK, HeaderCoversFile

LEMMA CacheState == PInv => OneCopyPerPage /\ CacheCoherent
<1> SUFFICES ASSUME PInv, pc \in Running
             PROVE  /\ \A i, j \in DOMAIN cache : cache[i].id = cache[j].id => i = j
                    /\ \A i \in DOMAIN cache :
                         \/ cache[i] = Hole
                         \/ cache[i].id < Len(disk) /\ disk[cache[i].id + 1] = cache[i]
                         \/ pc = "new_page" /\ i = Len(cache)
  BY DEF OneCopyPerPage, CacheCoherent
<1> QED
  BY RunningIs DEF MemoryOK

LEMMA FreePageState == PInv => FreePageValid
<1> SUFFICES ASSUME PInv PROVE FreePageValid
  OBVIOUS
<1>1. Len(disk) > 0 => diskHeader.free < Len(disk) /\ disk[diskHeader.free + 1] # Hole
  BY DEF PInv, FileOK
<1>2. pc \in Running /\ freePage # NULL =>
        freePage \in DOMAIN cache /\ cache[freePage].id = header.free
  BY RunningIs DEF MemoryOK
<1>3. pc = "write_item" => freePage # NULL /\ cache[freePage].room > 0
  BY RunningIs DEF CallOK, Running
<1> QED
  BY <1>1, <1>2, <1>3 DEF FreePageValid

LEMMA IteratorState == PInv => IteratorOnItsPage
  BY RunningIs DEF MemoryOK, IteratorOnItsPage

(* No crash, no hole: the header and the file agree after every step. *)
LEMMA CompleteKeeps == PInv /\ Complete /\ [Next]_vars => Complete'
<1> SUFFICES ASSUME PInv, Complete, [Next]_vars, crashes' = 0
             PROVE  /\ pc' \notin {"init_assert", "read_failed"}
                    /\ diskHeader' # NoHeader =>
                         diskHeader'.count =
                           IF pc' = "new_page" THEN Len(disk') + 1 ELSE Len(disk')
                    /\ \A i \in 1..Len(disk') : disk'[i] # Hole
  BY DEF Complete
<1> DEFINE Whole ==
      /\ pc \notin {"init_assert", "read_failed"}
      /\ diskHeader # NoHeader =>
           diskHeader.count = IF pc = "new_page" THEN Len(disk) + 1 ELSE Len(disk)
      /\ \A i \in 1..Len(disk) : disk[i] # Hole
<1>1. CASE InitNewFile
  <2>1. /\ crashes' = crashes /\ diskHeader' = [count |-> 0, free |-> 0] /\ disk' = disk
        /\ pc' = "new_header" /\ Len(disk) = 0
    BY <1>1 DEF InitNewFile, WriteHeader, PInv, FileOK
  <2> QED
    BY <2>1
<1>2. CASE InitOldFile
  <2> DEFINE read == ReadPage(cache, diskHeader.free)
  <2>1. /\ crashes = 0 /\ UNCHANGED <<diskHeader, disk>> /\ pc = "down" /\ diskHeader # NoHeader
        /\ IF diskHeader.count = 0
             THEN pc' = "new_header"
             ELSE pc' = IF read.at = NULL THEN "init_assert" ELSE "idle"
    BY <1>2 DEF InitOldFile
  <2>2. /\ Whole /\ diskHeader.count = Len(disk)
    BY <2>1 DEF Complete
  <2>3. CASE diskHeader.count = 0
    BY <2>1, <2>2, <2>3
  <2>4. CASE diskHeader.count # 0
    <3>1. /\ Typed /\ FileOK /\ Len(disk) \in Nat /\ Len(disk) > 0 /\ Held(cache)
          /\ diskHeader.free \in Nat /\ cache = <<>>
      <4>1. Typed /\ FileOK /\ cache = <<>> /\ Len(cache) = 0
        BY <2>1 DEF PInv, Down
      <4> QED
        BY <2>1, <2>2, <2>4, <4>1, LenProperties DEF Typed, Headers, Held
    <3>2. diskHeader.free < Len(disk) /\ disk[diskHeader.free + 1] # Hole
      BY <3>1 DEF FileOK
    <3>3. Held(read.pages) /\ read.at \in 1..Len(read.pages)
      BY <3>1, <3>2, ReadHeld
    <3> HIDE DEF read
    <3>4. read.at # NULL
      BY <3>3, LenProperties DEF Held, NULL
    <3> QED
      BY <2>1, <2>2, <2>4, <3>4
  <2> QED
    BY <2>3, <2>4
<1>3. CASE NewPageHeader
  <2>1. /\ pc = "new_header" /\ pc \in Running /\ header' = [header EXCEPT !.count = @ + 1]
        /\ diskHeader' = header' /\ pc' = "new_page" /\ UNCHANGED <<disk, crashes>>
    BY <1>3 DEF NewPageHeader, CountPage, WriteHeader, Running
  <2>2. Whole /\ diskHeader # NoHeader /\ header = diskHeader /\ header \in Headers
    BY <2>1, RunningIs DEF Complete
  <2>3. diskHeader'.count = diskHeader.count + 1
    BY <2>1, <2>2 DEF Headers
  <2> QED
    BY <2>1, <2>2, <2>3
<1>4. CASE NewPageWrite
  <2> DEFINE new == cache[Len(cache)]
  <2>1. /\ pc = "new_page" /\ pc \in Running /\ WritePage(new)
        /\ pc' \in {"idle", "set_free"} /\ UNCHANGED <<diskHeader, crashes>>
    BY <1>4 DEF NewPageWrite, Running
  <2>2. /\ Typed /\ header = diskHeader /\ header # NoHeader /\ Len(disk) \in Nat
        /\ header.count \in 1..MaxPages /\ MaxPages \in Nat \ {0} /\ disk \in Seq(Images)
        /\ new = NewPage(header.count - 1)
    BY <2>1, RunningIs DEF CallOK, Typed
  <2>3. Whole /\ header.count = Len(disk) + 1
    BY <2>1, <2>2 DEF Complete
  <2>4. new \in Images /\ new # Hole /\ new.id = header.count - 1
    BY <2>2, NewPageOK
  <2> HIDE DEF new
  <2>5. new.id = Len(disk) /\ ~(new.id < Len(disk))
    BY <2>2, <2>3, <2>4
  <2>6. /\ Len(disk') = Len(disk) + 1
        /\ \A i \in 1..Len(disk') :
             disk'[i] = IF i = Len(disk) + 1 THEN new ELSE IF i <= Len(disk) THEN disk[i] ELSE Hole
    BY <2>1, <2>2, <2>4, <2>5, WriteIs
  <2>7. \A i \in 1..Len(disk') : i = Len(disk) + 1 \/ (i \in 1..Len(disk) /\ i # Len(disk) + 1)
    BY <2>2, <2>6
  <2>8. \A i \in 1..Len(disk') : disk'[i] # Hole
    BY <2>3, <2>4, <2>6, <2>7
  <2> QED
    BY <2>1, <2>2, <2>3, <2>6, <2>8
<1>5. CASE SetFreePage
  <2>1. /\ pc = "set_free" /\ pc \in Running /\ pc' \in {"write_item", "new_header", "no_space"}
        /\ header' = [header EXCEPT !.free = cache[Len(cache)].id] /\ diskHeader' = header'
        /\ UNCHANGED <<disk, crashes>>
    BY <1>5 DEF SetFreePage, WriteHeader, Running
  <2>2. Whole /\ diskHeader # NoHeader /\ header = diskHeader /\ header \in Headers
    BY <2>1, RunningIs DEF Complete
  <2>3. diskHeader'.count = diskHeader.count
    BY <2>1, <2>2 DEF Headers
  <2> QED
    BY <2>1, <2>2, <2>3
<1>6. CASE \E p \in Payloads : PutItem(p)
  <2>1. PICK p \in Payloads : PutItem(p)
    BY <1>6
  <2>2. pc = "idle" /\ UNCHANGED <<diskHeader, disk, crashes>>
    BY <2>1 DEF PutItem
  <2>3. pc' \in {"new_header", "write_item"}
    BY <2>1, PutItemReads
  <2>4. Whole
    BY <2>2 DEF Complete
  <2> QED
    BY <2>2, <2>3, <2>4
<1>7. ASSUME NEW at \in 1..Len(cache), cache[at] # Hole, pc \in Running, pc # "new_page",
             NEW new, ImageOK(new), new # Hole, new.id = cache[at].id, WritePage(new),
             pc' = "idle", UNCHANGED <<diskHeader, crashes>>
      PROVE  /\ pc' \notin {"init_assert", "read_failed"}
             /\ diskHeader' # NoHeader =>
                  diskHeader'.count = IF pc' = "new_page" THEN Len(disk') + 1 ELSE Len(disk')
             /\ \A i \in 1..Len(disk') : disk'[i] # Hole
  <2>1. /\ Len(disk') = Len(disk)
        /\ \A i \in 1..Len(disk) : disk'[i] = IF i = new.id + 1 THEN new ELSE disk[i]
    BY <1>7, UpdateIs
  <2>2. Whole
    BY <1>7 DEF Complete
  <2> QED
    BY <1>7, <2>1, <2>2
<1>8. CASE WriteItem
  <2> DEFINE new == WithItem(cache[freePage], call.payload)
  <2>1. /\ pc \in Running /\ pc # "new_page" /\ freePage \in 1..Len(cache) /\ WritePage(new)
        /\ ImageOK(new) /\ new # Hole /\ new.id = cache[freePage].id /\ cache[freePage] # Hole
    BY <1>8, WriteItemUpdates, WithItemOK
  <2>2. pc' = "idle" /\ UNCHANGED <<diskHeader, crashes>>
    BY <1>8 DEF WriteItem
  <2> HIDE DEF new
  <2> QED
    BY <1>7, <2>1, <2>2
<1>9. CASE \E s \in 0..Capacity - 1 : DeleteItem(s)
  <2>1. PICK s \in 0..Capacity - 1 : DeleteItem(s)
    BY <1>9
  <2> DEFINE new == WithoutItem(cache[iter.page], s)
  <2>2. /\ pc \in Running /\ pc # "new_page" /\ iter.page \in 1..Len(cache) /\ WritePage(new)
        /\ ImageOK(new) /\ new # Hole /\ new.id = cache[iter.page].id /\ cache[iter.page] # Hole
    BY <2>1, DeleteItemUpdates, WithoutItemOK
  <2>3. pc' = "idle" /\ UNCHANGED <<diskHeader, crashes>>
    BY <2>1 DEF DeleteItem
  <2> HIDE DEF new
  <2> QED
    BY <1>7, <2>2, <2>3
<1>10. CASE IteratorNext
  <2>1. /\ pc = "idle" /\ pc \in Running /\ iter.next < header.count
        /\ UNCHANGED <<diskHeader, disk, crashes>>
    BY <1>10 DEF IteratorNext, Running
  <2>2. Whole /\ header.count = Len(disk)
    BY <2>1, RunningIs DEF Complete
  <2>3. pc' = "idle"
    BY <1>10, <2>1, <2>2, IteratorNextReads
  <2> QED
    BY <2>1, <2>2, <2>3
<1>11. CASE IteratorNew \/ IteratorLeak \/ FreePages
  <2>1. pc' = pc /\ UNCHANGED <<diskHeader, disk, crashes>>
    BY <1>11 DEF IteratorNew, IteratorLeak, FreePages
  <2> QED
    BY <2>1 DEF Complete
<1>12. CASE Close
  <2>1. /\ pc' = "down" /\ pc # "new_page" /\ UNCHANGED <<diskHeader, disk, crashes>>
    BY <1>12 DEF Close, Forget, Endings
  <2> QED
    BY <2>1 DEF Complete
<1>13. CASE Crash
  <2>1. crashes' = crashes + 1 /\ crashes \in Nat
    BY <1>13, SizesAssumption DEF Crash, PInv, Typed
  <2> QED
    BY <2>1
<1>14. CASE UNCHANGED vars
  BY <1>14 DEF vars, Complete
<1> QED
  BY <1>1, <1>2, <1>3, <1>4, <1>5, <1>6, <1>8, <1>9, <1>10, <1>11, <1>12, <1>13, <1>14 DEF Next

-----------------------------------------------------------------------------
(* The items of a list of pages, as Stored has those of the file. *)
ItemMap(pages) ==
  [id \in UNION {{<<i - 1, s>> : s \in DOMAIN pages[i].live} : i \in DOMAIN pages} |->
     pages[id[1] + 1].live[id[2]]]

LEMMA ItemMapIs ==
  ASSUME NEW d \in Seq(Images)
  PROVE  /\ \A i \in 1..Len(d) : \A s \in DOMAIN d[i].live :
              <<i - 1, s>> \in DOMAIN ItemMap(d) /\ ItemMap(d)[<<i - 1, s>>] = d[i].live[s]
         /\ \A id \in DOMAIN ItemMap(d) :
              \E i \in 1..Len(d) : \E s \in DOMAIN d[i].live : id = <<i - 1, s>>
<1>1. DOMAIN d = 1..Len(d)
  BY LenProperties
<1>2. DOMAIN ItemMap(d) = UNION {{<<i - 1, s>> : s \in DOMAIN d[i].live} : i \in 1..Len(d)}
  BY <1>1 DEF ItemMap
<1>3. ASSUME NEW i \in 1..Len(d), NEW s \in DOMAIN d[i].live
      PROVE  /\ <<i - 1, s>> \in DOMAIN ItemMap(d)
             /\ ItemMap(d)[<<i - 1, s>>] = d[i].live[s]
  <2>1. <<i - 1, s>> \in DOMAIN ItemMap(d)
    BY <1>2
  <2>2. ItemMap(d)[<<i - 1, s>>] = d[<<i - 1, s>>[1] + 1].live[<<i - 1, s>>[2]]
    BY <2>1 DEF ItemMap
  <2>3. <<i - 1, s>>[1] + 1 = i /\ <<i - 1, s>>[2] = s
    OBVIOUS
  <2> QED
    BY <2>1, <2>2, <2>3
<1>4. \A id \in DOMAIN ItemMap(d) :
        \E i \in 1..Len(d) : \E s \in DOMAIN d[i].live : id = <<i - 1, s>>
  BY <1>2
<1> QED
  BY <1>3, <1>4

(* Two maps of items with the same ids, and the same payload each. *)
LEMMA ItemsEqual ==
  ASSUME NEW d, NEW f, f = [id \in DOMAIN f |-> f[id]],
         \A id : id \in DOMAIN ItemMap(d) <=> id \in DOMAIN f,
         \A id \in DOMAIN f : ItemMap(d)[id] = f[id]
  PROVE  ItemMap(d) = f
<1>1. ItemMap(d) = [id \in DOMAIN ItemMap(d) |-> ItemMap(d)[id]]
  BY DEF ItemMap
<1> QED
  BY <1>1

(* Pages without items may come behind the others. *)
LEMMA SameItems ==
  ASSUME NEW d \in Seq(Images), NEW e \in Seq(Images), Len(d) <= Len(e),
         \A i \in 1..Len(d) : e[i] = d[i],
         \A i \in 1..Len(e) : i \in 1..Len(d) \/ DOMAIN e[i].live = {}
  PROVE  ItemMap(e) = ItemMap(d)
<1>1. \A i \in 1..Len(d) : i \in 1..Len(e)
  BY LenProperties
<1>2. ItemMap(d) = [id \in DOMAIN ItemMap(d) |-> ItemMap(d)[id]]
  BY DEF ItemMap
<1>3. ASSUME NEW id \in DOMAIN ItemMap(e)
      PROVE  id \in DOMAIN ItemMap(d)
  BY <1>3, ItemMapIs
<1>4. ASSUME NEW id \in DOMAIN ItemMap(d)
      PROVE  id \in DOMAIN ItemMap(e) /\ ItemMap(e)[id] = ItemMap(d)[id]
  BY <1>1, <1>4, ItemMapIs
<1> QED
  BY <1>2, <1>3, <1>4, ItemsEqual

(* What ItemStore does to a map of items when one is put and removed. *)
Bound(f, i, p) == [j \in DOMAIN f \cup {i} |-> IF j = i THEN p ELSE f[j]]

Unbound(f, i) == [j \in DOMAIN f \ {i} |-> f[j]]

(* An item more on one page is one more item. *)
IsPut(d, e, k, s, p, id) ==
  /\ id = <<k - 1, s>>
  /\ d \in Seq(Images) /\ e \in Seq(Images) /\ Len(e) = Len(d)
  /\ k \in 1..Len(d) /\ \A i \in 1..Len(d) : i # k => e[i] = d[i]
  /\ s \notin DOMAIN d[k].live /\ DOMAIN e[k].live = DOMAIN d[k].live \cup {s}
  /\ e[k].live[s] = p /\ \A t \in DOMAIN d[k].live : e[k].live[t] = d[k].live[t]

LEMMA ItemPut ==
  ASSUME NEW d, NEW e, NEW k, NEW s, NEW p, NEW id, IsPut(d, e, k, s, p, id)
  PROVE  id \notin DOMAIN ItemMap(d) /\ ItemMap(e) = Bound(ItemMap(d), id, p)
<1> USE DEF IsPut
<1> DEFINE f == Bound(ItemMap(d), id, p)
<1>0. id = <<k - 1, s>>
  OBVIOUS
<1>1. <<k - 1, s>> \notin DOMAIN ItemMap(d)
  <2>1. ASSUME NEW i \in 1..Len(d), NEW t \in DOMAIN d[i].live, <<k - 1, s>> = <<i - 1, t>>
        PROVE  FALSE
    <3>1. i = k /\ t = s
      BY <2>1
    <3> QED
      BY <2>1, <3>1
  <2> QED
    BY <2>1, ItemMapIs
<1>2. /\ f = [j \in DOMAIN f |-> f[j]] /\ DOMAIN f = DOMAIN ItemMap(d) \cup {<<k - 1, s>>}
      /\ f[<<k - 1, s>>] = p /\ \A j \in DOMAIN ItemMap(d) : f[j] = ItemMap(d)[j]
  BY <1>0, <1>1 DEF Bound
<1> HIDE DEF f
<1>3. ASSUME NEW i \in 1..Len(d), NEW t \in DOMAIN e[i].live
      PROVE  /\ <<i - 1, t>> \in DOMAIN f
             /\ f[<<i - 1, t>>] = e[i].live[t]
  <2>1. CASE i = k /\ t = s
    BY <1>2, <2>1
  <2>2. CASE i = k /\ t # s
    <3>1. t \in DOMAIN d[i].live /\ e[i].live[t] = d[i].live[t]
      BY <1>3, <2>2
    <3> QED
      BY <1>2, <3>1, ItemMapIs
  <2>3. CASE i # k
    <3>1. t \in DOMAIN d[i].live /\ e[i].live[t] = d[i].live[t]
      BY <1>3, <2>3
    <3> QED
      BY <1>2, <3>1, ItemMapIs
  <2> QED
    BY <2>1, <2>2, <2>3
<1>4. ASSUME NEW i \in 1..Len(d), NEW t \in DOMAIN d[i].live
      PROVE  t \in DOMAIN e[i].live
  BY <1>4
<1>5. \A j \in DOMAIN ItemMap(e) : j \in DOMAIN f /\ ItemMap(e)[j] = f[j]
  <2> TAKE j \in DOMAIN ItemMap(e)
  <2>1. PICK i \in 1..Len(e) : \E t \in DOMAIN e[i].live : j = <<i - 1, t>>
    BY ItemMapIs
  <2>2. PICK t \in DOMAIN e[i].live : j = <<i - 1, t>>
    BY <2>1
  <2>3. ItemMap(e)[j] = e[i].live[t]
    BY <2>2, ItemMapIs
  <2> QED
    BY <1>3, <2>2, <2>3
<1>6. \A j \in DOMAIN f : j \in DOMAIN ItemMap(e)
  <2>1. \A j \in DOMAIN ItemMap(d) : j \in DOMAIN ItemMap(e)
    BY <1>4, ItemMapIs
  <2>2. <<k - 1, s>> \in DOMAIN ItemMap(e)
    BY ItemMapIs
  <2> QED
    BY <1>2, <2>1, <2>2
<1>7. ItemMap(e) = f
  <2> HIDE DEF IsPut
  <2> QED
    BY <1>2, <1>5, <1>6, ItemsEqual
<1>8. id \notin DOMAIN ItemMap(d)
  BY <1>0, <1>1
<1> HIDE DEF IsPut
<1> QED
  BY <1>7, <1>8 DEF f

(* ... and one less is one less. *)
LEMMA ItemRemoved ==
  ASSUME NEW d \in Seq(Images), NEW e \in Seq(Images), Len(e) = Len(d),
         NEW k \in 1..Len(d), \A i \in 1..Len(d) : i # k => e[i] = d[i],
         NEW s \in DOMAIN d[k].live,
         DOMAIN e[k].live = DOMAIN d[k].live \ {s},
         \A t \in DOMAIN d[k].live \ {s} : e[k].live[t] = d[k].live[t]
  PROVE  /\ <<k - 1, s>> \in DOMAIN ItemMap(d)
         /\ ItemMap(e) = Unbound(ItemMap(d), <<k - 1, s>>)
<1> DEFINE f == Unbound(ItemMap(d), <<k - 1, s>>)
<1>1. <<k - 1, s>> \in DOMAIN ItemMap(d)
  BY ItemMapIs
<1>2. /\ f = [id \in DOMAIN f |-> f[id]] /\ DOMAIN f = DOMAIN ItemMap(d) \ {<<k - 1, s>>}
      /\ \A id \in DOMAIN f : f[id] = ItemMap(d)[id]
  BY DEF Unbound
<1> HIDE DEF f
<1>3. ASSUME NEW i \in 1..Len(d), NEW t \in DOMAIN e[i].live
      PROVE  /\ t \in DOMAIN d[i].live /\ e[i].live[t] = d[i].live[t]
             /\ <<i - 1, t>> # <<k - 1, s>>
  <2>1. CASE i = k
    BY <1>3, <2>1
  <2>2. CASE i # k
    <3>1. i - 1 # k - 1
      BY <2>2
    <3> QED
      BY <1>3, <2>2, <3>1
  <2> QED
    BY <2>1, <2>2
<1>4. \A id \in DOMAIN ItemMap(e) : id \in DOMAIN f /\ ItemMap(e)[id] = f[id]
  <2> TAKE id \in DOMAIN ItemMap(e)
  <2>1. PICK i \in 1..Len(e) : \E t \in DOMAIN e[i].live : id = <<i - 1, t>>
    BY ItemMapIs
  <2>2. PICK t \in DOMAIN e[i].live : id = <<i - 1, t>>
    BY <2>1
  <2>3. ItemMap(e)[id] = e[i].live[t]
    BY <2>2, ItemMapIs
  <2>4. /\ t \in DOMAIN d[i].live /\ e[i].live[t] = d[i].live[t] /\ id # <<k - 1, s>>
    BY <1>3, <2>2
  <2>5. id \in DOMAIN ItemMap(d) /\ ItemMap(d)[id] = d[i].live[t]
    BY <2>2, <2>4, ItemMapIs
  <2> QED
    BY <1>2, <2>3, <2>4, <2>5
<1>5. \A id \in DOMAIN f : id \in DOMAIN ItemMap(e)
  <2> TAKE id \in DOMAIN f
  <2>1. PICK i \in 1..Len(d) : \E t \in DOMAIN d[i].live : id = <<i - 1, t>>
    BY <1>2, ItemMapIs
  <2>2. PICK t \in DOMAIN d[i].live : id = <<i - 1, t>>
    BY <2>1
  <2>3. t \in DOMAIN e[i].live
    BY <1>2, <2>2
  <2> QED
    BY <2>2, <2>3, ItemMapIs
<1>6. ItemMap(e) = f
  BY <1>2, <1>4, <1>5, ItemsEqual
<1> QED
  BY <1>1, <1>6 DEF f

(* The file changes by an item only when one is written or deleted; page_new *)
(* adds pages without items.                                                *)
LEMMA NextImplements == PInv /\ [Next]_vars => [Abstract!Next]_Stored
<1> SUFFICES ASSUME PInv, [Next]_vars PROVE Abstract!Next \/ Stored' = Stored
  OBVIOUS
<1>1. /\ Stored = ItemMap(disk) /\ Stored' = ItemMap(disk') /\ disk \in Seq(Images)
      /\ Len(disk) \in Nat /\ Len(disk) <= MaxPages /\ MaxPages \in Nat
      /\ \A i \in 1..Len(disk) : ImageOK(disk[i])
  BY LenProperties, SizesAssumption DEF Stored, ItemMap, PInv, Typed
<1>2. ASSUME UNCHANGED disk PROVE Stored' = Stored
  BY <1>1, <1>2
<1>3. CASE NewPageWrite
  <2> DEFINE new == cache[Len(cache)]
  <2>1. /\ pc = "new_page" /\ pc \in Running /\ WritePage(new)
    BY <1>3 DEF NewPageWrite, Running
  <2>2. /\ header.count \in 1..MaxPages /\ MaxPages \in Nat /\ Len(disk) < header.count
        /\ new = NewPage(header.count - 1) /\ header.count \in Nat
    BY <2>1, RunningIs DEF CallOK
  <2>3. new \in Images /\ new.id = header.count - 1 /\ DOMAIN new.live = {}
    BY <2>2, NewPageOK
  <2> HIDE DEF new
  <2>4. /\ disk' \in Seq(Images) /\ Len(disk) <= Len(disk')
        /\ \A i \in 1..Len(disk') :
             disk'[i] = IF i = new.id + 1 THEN new ELSE IF i <= Len(disk) THEN disk[i] ELSE Hole
        /\ Len(disk') \in Nat
    BY <1>1, <2>1, <2>3, WriteIs, LenProperties
  <2>5. /\ \A i \in 1..Len(disk) : i \in 1..Len(disk') /\ i # new.id + 1
        /\ \A i \in 1..Len(disk') : i \in 1..Len(disk) \/ ~(i <= Len(disk))
    BY <1>1, <2>2, <2>3, <2>4
  <2>6. \A i \in 1..Len(disk) : disk'[i] = disk[i]
    BY <2>4, <2>5
  <2>7. \A i \in 1..Len(disk') : i \in 1..Len(disk) \/ DOMAIN disk'[i].live = {}
    BY <2>3, <2>4, <2>5, HoleIs
  <2> QED
    BY <1>1, <2>4, <2>6, <2>7, SameItems
<1>4. CASE WriteItem
  <2> DEFINE page == cache[freePage]
             new == WithItem(page, call.payload)
             k == new.id + 1
  <2>1. /\ pc \in Running /\ pc # "new_page" /\ freePage \in 1..Len(cache) /\ WritePage(new)
        /\ ImageOK(page) /\ page.room > 0 /\ call.payload \in Payloads
    BY <1>4, WriteItemUpdates
  <2>2. /\ ImageOK(new) /\ new.id = page.id /\ page # Hole
        /\ page.next \in 0..Capacity - 1 /\ page.next \notin DOMAIN page.live
        /\ DOMAIN new.live = DOMAIN page.live \cup {page.next}
        /\ \A s \in DOMAIN new.live :
             new.live[s] = IF s = page.next THEN call.payload ELSE page.live[s]
    BY <2>1, WithItemOK
  <2> HIDE DEF new
  <2>3. /\ disk' \in Seq(Images) /\ Len(disk') = Len(disk) /\ new.id \in Nat
        /\ k \in 1..Len(disk) /\ disk[k] = page
        /\ \A i \in 1..Len(disk) : disk'[i] = IF i = k THEN new ELSE disk[i]
    BY <2>1, <2>2, UpdateIs
  <2> DEFINE s == page.next
             p == call.payload
  <2> HIDE DEF page, k, s, p
  <2>4. /\ <<k - 1, s>> \notin DOMAIN ItemMap(disk)
        /\ ItemMap(disk') = Bound(ItemMap(disk), <<k - 1, s>>, p)
    <3>1. disk'[k] = new /\ \A i \in 1..Len(disk) : i # k => disk'[i] = disk[i]
      BY <2>3
    <3>2. /\ s \notin DOMAIN disk[k].live
          /\ DOMAIN disk'[k].live = DOMAIN disk[k].live \cup {s}
          /\ disk'[k].live[s] = p
          /\ \A t \in DOMAIN disk[k].live : disk'[k].live[t] = disk[k].live[t]
      BY <2>2, <2>3, <3>1 DEF s, p
    <3>3. /\ disk \in Seq(Images) /\ disk' \in Seq(Images)
          /\ Len(disk') = Len(disk) /\ k \in 1..Len(disk)
      BY <1>1, <2>3
    <3> DEFINE id == <<k - 1, s>>
    <3>4. IsPut(disk, disk', k, s, p, id)
      BY <3>1, <3>2, <3>3 DEF IsPut
    <3> HIDE DEF id
    <3>5. id \notin DOMAIN ItemMap(disk) /\ ItemMap(disk') = Bound(ItemMap(disk), id, p)
      BY <3>4, ItemPut
    <3> QED
      BY <3>5 DEF id
  <2>5. <<k - 1, s>> \in ItemIds
    BY <1>1, <2>2, <2>3 DEF ItemIds, s
  <2> QED
    BY <1>1, <2>1, <2>4, <2>5 DEF p, Abstract!Next, Abstract!Put, Bound
<1>5. CASE \E s \in 0..Capacity - 1 : DeleteItem(s)
  <2>1. PICK s \in 0..Capacity - 1 : DeleteItem(s)
    BY <1>5
  <2> DEFINE page == cache[iter.page]
             new == WithoutItem(page, s)
             k == new.id + 1
  <2>2. /\ pc \in Running /\ pc # "new_page" /\ iter.page \in 1..Len(cache) /\ WritePage(new)
        /\ ImageOK(page) /\ s \in DOMAIN page.live
    BY <2>1, DeleteItemUpdates
  <2>3. /\ ImageOK(new) /\ new.id = page.id /\ page # Hole
        /\ DOMAIN new.live = DOMAIN page.live \ {s}
        /\ \A t \in DOMAIN page.live \ {s} : new.live[t] = page.live[t]
    BY <2>2, WithoutItemOK
  <2> HIDE DEF new
  <2>4. /\ disk' \in Seq(Images) /\ Len(disk') = Len(disk) /\ new.id \in Nat
        /\ k \in 1..Len(disk) /\ disk[k] = page
        /\ \A i \in 1..Len(disk) : disk'[i] = IF i = k THEN new ELSE disk[i]
    BY <2>2, <2>3, UpdateIs
  <2> HIDE DEF page, k
  <2>5. /\ <<k - 1, s>> \in DOMAIN ItemMap(disk)
        /\ ItemMap(disk') = Unbound(ItemMap(disk), <<k - 1, s>>)
    <3>1. disk'[k] = new /\ \A i \in 1..Len(disk) : i # k => disk'[i] = disk[i]
      BY <2>4
    <3>2. /\ s \in DOMAIN disk[k].live
          /\ DOMAIN disk'[k].live = DOMAIN disk[k].live \ {s}
          /\ \A t \in DOMAIN disk[k].live \ {s} : disk'[k].live[t] = disk[k].live[t]
      BY <2>2, <2>3, <2>4, <3>1
    <3>3. /\ disk \in Seq(Images) /\ disk' \in Seq(Images)
          /\ Len(disk') = Len(disk) /\ k \in 1..Len(disk)
      BY <1>1, <2>4
    <3> QED
      BY <3>1, <3>2, <3>3, ItemRemoved
  <2>6. <<k - 1, s>> \in ItemIds
    BY <1>1, <2>4 DEF ItemIds
  <2> QED
    BY <1>1, <2>5, <2>6 DEF Abstract!Next, Abstract!Remove, Unbound
<1>6. CASE \E p \in Payloads : PutItem(p)
  BY <1>2, <1>6 DEF PutItem
<1>7. CASE InitNewFile \/ InitOldFile \/ NewPageHeader \/ SetFreePage
  BY <1>2, <1>7 DEF InitNewFile, InitOldFile, NewPageHeader, SetFreePage
<1>8. CASE IteratorNew \/ IteratorNext \/ IteratorLeak \/ FreePages
  BY <1>2, <1>8 DEF IteratorNew, IteratorNext, IteratorLeak, FreePages
<1>9. CASE Close \/ Crash
  BY <1>2, <1>9 DEF Close, Crash
<1>10. CASE UNCHANGED vars
  BY <1>2, <1>10 DEF vars
<1> QED
  BY <1>3, <1>4, <1>5, <1>6, <1>7, <1>8, <1>9, <1>10 DEF Next

-----------------------------------------------------------------------------
(* What holds of header, file, memory and iterator holds always: see PInv. *)
THEOREM Invariant == Spec => []PInv
<1>1. Init => PInv
  BY InitInv
<1> QED
  BY <1>1, StepKeeps, PTL DEF Spec

(* The variables keep their types, and a page of the file or in memory has *)
(* room for exactly what it does not hold.                                 *)
THEOREM ManagerTyped == Spec => []TypeOK
  BY Invariant, TypedState, PTL

(* After any number of crashes, at any step, the header in the file counts *)
(* at least the pages that are there, and they lie where their ids say.    *)
THEOREM HeaderCovers == Spec => []HeaderCoversFile
  BY Invariant, HeaderState, PTL

(* page_manager keeps at most one copy of a page in memory. *)
THEOREM OneCopy == Spec => []OneCopyPerPage
<1>1. PInv => OneCopyPerPage
  BY CacheState
<1> QED
  BY <1>1, Invariant, PTL

(* What page_manager has in memory is what the file has. *)
THEOREM Coherent == Spec => []CacheCoherent
<1>1. PInv => CacheCoherent
  BY CacheState
<1> QED
  BY <1>1, Invariant, PTL

(* The free page of the header is always a written one, the pointer to it  *)
(* never dangles, and what is put always finds room on it.                 *)
THEOREM FreePageStays == Spec => []FreePageValid
  BY Invariant, FreePageState, PTL

(* Puts, deletes and frees never take the page from under an open iterator. *)
THEOREM IteratorStays == Spec => []IteratorOnItsPage
  BY Invariant, IteratorState, PTL

(* A file that no crash hit can be opened, iterated and put to: no read of *)
(* a page ever fails.                                                      *)
THEOREM Readable == Spec => []ReadableWithoutCrash
<1>1. Init => Complete
  BY InitInv
<1>2. PInv /\ Complete => ReadableWithoutCrash
  <2> SUFFICES ASSUME PInv, Complete, crashes = 0
               PROVE  /\ pc \notin {"init_assert", "read_failed"}
                      /\ pc = "idle" => /\ header.count = Len(disk)
                                        /\ \A i \in DOMAIN disk : disk[i] # Hole
    BY DEF ReadableWithoutCrash
  <2>1. pc \notin {"init_assert", "read_failed"}
    BY DEF Complete
  <2>2. ASSUME pc = "idle"
        PROVE  header.count = Len(disk) /\ \A i \in DOMAIN disk : disk[i] # Hole
    <3>1. pc \in Running /\ pc # "new_page"
      BY <2>2 DEF Running
    <3> QED
      BY <3>1, RunningIs DEF Complete
  <2> QED
    BY <2>1, <2>2
<1> QED
  BY <1>1, <1>2, Invariant, CompleteKeeps, PTL DEF Spec

(* The file is an item store, through every step and every crash. *)
THEOREM ManagerImplementsItemStore == Spec => ImplementsItemStore
<1>1. Init => Abstract!Init
  BY DEF Init, Abstract!Init, Stored
<1> QED
  BY <1>1, Invariant, NextImplements, PTL DEF Spec, ImplementsItemStore, Abstract!Spec
=============================================================================
