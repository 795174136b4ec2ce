----------------------------- MODULE PageProofs -----------------------------
(***************************************************************************)
(* What holds of a page of any size, with records and payloads of any      *)
(* size: the invariants MCPage checks on a page of twelve bytes, and that  *)
(* a page implements an item store.  The invariants are inductive only     *)
(* together: popping the last record moves the free space back to the      *)
(* right place because the payloads tile the page (Layout), the next       *)
(* payload lands on nobody because they are ordered (NoOverlap), and what  *)
(* a reader gets is what was put because of both.                          *)
(***************************************************************************)
EXTENDS Page, FiniteSetTheorems, TLAPS

IndInv ==
  /\ TypeOK
  /\ Layout
  /\ NoOverlap
  /\ PayloadsIntact
  /\ MetadataIntact
  /\ CountMatchesLive
  /\ HandleFresh

-----------------------------------------------------------------------------
(* The records below an id all lie before the record of that id. *)
LEMMA RecordsOrdered ==
  ASSUME NEW i \in Nat, NEW n \in Nat, i < n
  PROVE  /\ MetaSize * i \in Nat /\ MetaSize * n \in Nat
         /\ MetaSize * i + MetaSize <= MetaSize * n
         /\ MetaSize * n >= n
<1>1. MetaSize \in Nat \ {0}
  BY SizesAssumption
<1>2. MetaSize * i \in Nat /\ MetaSize * n \in Nat
  BY <1>1
<1>3. MetaSize * (i + 1) = MetaSize * i + MetaSize
  BY <1>1
<1>4. MetaSize * (i + 1) <= MetaSize * n
  BY <1>1, SMT
<1>5. MetaSize * n >= n
  BY <1>1, SMT
<1> QED
  BY <1>2, <1>3, <1>4, <1>5

(* One more record takes MetaSize more bytes. *)
LEMMA RecordStep ==
  ASSUME NEW n \in Nat
  PROVE  /\ MetaSize * n \in Nat
         /\ MetaSize * (n + 1) = MetaSize * n + MetaSize
         /\ MetaSize * n >= n
<1>1. MetaSize \in Nat \ {0}
  BY SizesAssumption
<1> QED
  BY <1>1, SMT

-----------------------------------------------------------------------------
(* A new page satisfies every invariant. *)
LEMMA InitInv == Init => IndInv
<1> SUFFICES ASSUME Init PROVE IndInv
  OBVIOUS
<1> USE SizesAssumption DEF Init
<1>1. TypeOK
  BY DEF TypeOK, Slots, Bytes, Metadata, Items, NoItem, Endings, Fillers
<1>2. Layout
  BY DEF Layout, Slots
<1>3. NoOverlap /\ PayloadsIntact /\ MetadataIntact
  BY DEF NoOverlap, PayloadsIntact, MetadataIntact, Slots, Bytes
<1>4. CountMatchesLive
  <2>1. LiveSlots = {}
    BY DEF LiveSlots, Slots
  <2> QED
    BY <2>1, FS_EmptySet DEF CountMatchesLive
<1>5. HandleFresh
  BY DEF HandleFresh, NoItem
<1> QED
  BY <1>1, <1>2, <1>3, <1>4, <1>5 DEF IndInv

(* A finite number of ids can be live. *)
LEMMA LiveFinite == nextItemId \in Nat => IsFiniteSet(LiveSlots)
<1>1. IsFiniteSet(Slots)
  BY SizesAssumption, FS_Interval DEF Slots
<1>2. LiveSlots \in SUBSET Slots
  BY DEF LiveSlots
<1> QED
  BY <1>1, <1>2, FS_Subset

(* Where the items below next_item_id lie. *)
LEMMA ItemsPlaced ==
  ASSUME TypeOK, Layout, NoOverlap, NEW i \in Slots, i < nextItemId
  PROVE  /\ metadata[i].offset \in Nat /\ metadata[i].size \in Nat \ {0}
         /\ DataBytes(metadata[i]) \subseteq freeEnd .. PageSize - 1
         /\ freeEnd <= metadata[i].offset
         /\ metadata[i].offset + metadata[i].size <= PageSize
<1>1. PageSize \in Nat /\ freeEnd \in 0..PageSize
  BY SizesAssumption DEF TypeOK
<1>2. metadata[i].offset \in Nat /\ metadata[i].size \in Nat
  BY <1>1 DEF TypeOK, Metadata
<1>3. metadata[i].size > 0 /\ DataBytes(metadata[i]) \subseteq freeEnd .. PageSize - 1
  BY DEF Layout, NoOverlap
<1>4. metadata[i].offset \in DataBytes(metadata[i])
      /\ metadata[i].offset + metadata[i].size - 1 \in DataBytes(metadata[i])
  BY <1>2, <1>3 DEF DataBytes
<1>5. metadata[i].offset \in freeEnd .. PageSize - 1
      /\ metadata[i].offset + metadata[i].size - 1 \in freeEnd .. PageSize - 1
  BY <1>3, <1>4
<1> QED
  BY <1>1, <1>2, <1>3, <1>5

(* An add finds its id free, its record between the other records and the  *)
(* payloads, and its bytes below all the other payloads.                   *)
LEMMA AddItemFits ==
  ASSUME TypeOK, Layout, NEW p \in Payloads, SizeOf[p] <= AvailableSpace
  PROVE  /\ SizeOf[p] \in Nat \ {0}
         /\ nextItemId < PageSize
         /\ freeStart + MetaSize + SizeOf[p] <= freeEnd
         /\ MetaBytes(nextItemId) = freeStart .. freeStart + MetaSize - 1
<1>1. SizeOf[p] \in Nat \ {0} /\ MetaSize \in Nat \ {0} /\ PageSize \in Nat /\ HeaderSize \in Nat
  BY SizesAssumption
<1>2. freeStart + MetaSize + SizeOf[p] <= freeEnd
  BY <1>1 DEF AvailableSpace, TypeOK
<1>3. freeStart = HeaderSize + MetaSize * nextItemId /\ MetaSize * nextItemId \in Nat
      /\ MetaSize * nextItemId >= nextItemId
  BY RecordStep DEF Layout, TypeOK, Slots
<1>4. nextItemId < PageSize
  BY <1>1, <1>2, <1>3 DEF TypeOK, Slots
<1> QED
  BY <1>1, <1>2, <1>3, <1>4 DEF MetaBytes

(* Adding an item that fits preserves the invariants. *)
LEMMA AddItemInv ==
  ASSUME IndInv, NEW p \in Payloads, AddItem(p)
  PROVE  IndInv'
<1> DEFINE n == nextItemId
<1> DEFINE m == [offset |-> freeEnd - SizeOf[p], size |-> SizeOf[p], isDeleted |-> FALSE]
<1>1. /\ SizeOf[p] \in Nat \ {0} /\ n < PageSize /\ n \in Nat
      /\ freeStart + MetaSize + SizeOf[p] <= freeEnd
      /\ MetaBytes(n) = freeStart .. freeStart + MetaSize - 1
  BY AddItemFits DEF IndInv, AddItem, TypeOK, Slots
<1>2. /\ PageSize \in Nat /\ HeaderSize \in Nat /\ MetaSize \in Nat \ {0} /\ HeaderSize <= PageSize
  BY SizesAssumption
<1>3. /\ freeStart \in 0..PageSize /\ freeEnd \in 0..PageSize /\ freeStart <= freeEnd
      /\ freeStart = HeaderSize + MetaSize * n
  BY DEF IndInv, TypeOK, Layout
<1>4. n \in Slots /\ m \in Metadata /\ m.size = SizeOf[p] /\ m.offset = freeEnd - SizeOf[p]
      /\ ~m.isDeleted
  <2>1. n \in Slots
    BY <1>1, <1>2 DEF Slots
  <2>2. freeEnd - SizeOf[p] \in 0..PageSize
    BY <1>1, <1>2, <1>3
  <2> QED
    BY <2>1, <2>2, <1>1 DEF Metadata
<1>5. /\ metadata' = [metadata EXCEPT ![n] = m]
      /\ metadata \in [Slots -> Metadata]
      /\ freeStart' = freeStart + MetaSize /\ freeEnd' = m.offset
      /\ nextItemId' = n + 1 /\ itemsCount' = itemsCount + 1
      /\ item' = item /\ proc' = proc
  BY <1>4 DEF IndInv, TypeOK, AddItem, Write
<1>6. \A i \in Slots : metadata'[i] = IF i = n THEN m ELSE metadata[i]
  BY <1>4, <1>5
<1>7. /\ bytes \in [Bytes -> Payloads \cup Fillers]
      /\ bytes' = [b \in Bytes |-> IF b \in DataBytes(m) THEN p
                                   ELSE IF b \in MetaBytes(n) THEN "meta" ELSE bytes[b]]
  BY DEF IndInv, TypeOK, AddItem, Write
<1>8. DataBytes(m) = freeEnd - SizeOf[p] .. freeEnd - 1
  BY <1>1, <1>3, <1>4 DEF DataBytes
<1>9. \A i \in Slots : i < nextItemId' => i < n \/ i = n
  BY <1>1, <1>5 DEF Slots
<1>10. TypeOK'
  <2>1. bytes' \in [Bytes -> Payloads \cup Fillers]
    BY <1>7, Zenon DEF Fillers
  <2>2. metadata' \in [Slots -> Metadata]
    BY <1>4, <1>5
  <2> QED
    BY <1>1, <1>2, <1>3, <1>4, <1>5, <2>1, <2>2 DEF IndInv, TypeOK, Slots
<1>11. Layout'
  <2>1. freeStart' = HeaderSize + MetaSize * nextItemId'
    BY <1>1, <1>2, <1>3, <1>5, RecordStep
  <2>2. freeStart' <= freeEnd'
    BY <1>1, <1>3, <1>4, <1>5
  <2>3. freeEnd' = metadata'[nextItemId' - 1].offset /\ nextItemId' # 0
    BY <1>1, <1>4, <1>5, <1>6
  <2>4. ASSUME NEW i \in Slots, i < nextItemId'
        PROVE  /\ metadata'[i].size > 0
               /\ metadata'[i].offset + metadata'[i].size =
                    IF i = 0 THEN PageSize ELSE metadata'[i - 1].offset
    <3>1. CASE i < n
      <4>1. i # n /\ (i # 0 => i - 1 \in Slots /\ i - 1 # n)
        BY <3>1, <1>1, <1>2 DEF Slots
      <4> QED
        BY <3>1, <4>1, <1>6 DEF IndInv, Layout
    <3>2. CASE i = n
      <4>1. m.offset + m.size = freeEnd
        BY <1>1, <1>3, <1>4
      <4>2. i # 0 => i - 1 \in Slots /\ i - 1 # n
        BY <3>2, <1>1, <1>2 DEF Slots
      <4> QED
        BY <3>2, <4>1, <4>2, <1>1, <1>4, <1>6 DEF IndInv, Layout
    <3> QED
      BY <2>4, <3>1, <3>2, <1>9
  <2> QED
    BY <2>1, <2>2, <2>3, <2>4 DEF Layout
<1>12. \A i \in Slots : i < n => /\ metadata'[i] = metadata[i]
                                 /\ DataBytes(metadata[i]) \subseteq freeEnd .. PageSize - 1
                                 /\ freeEnd <= metadata[i].offset
  BY <1>1, <1>6, ItemsPlaced DEF IndInv, Slots
<1>13. metadata'[n] = m /\ DataBytes(m) = freeEnd' .. freeEnd - 1 /\ freeEnd' < freeEnd
  BY <1>1, <1>3, <1>4, <1>5, <1>6, <1>8
<1>14. NoOverlap'
  <2>1. ASSUME NEW i \in Slots, i < nextItemId'
        PROVE  DataBytes(metadata'[i]) \subseteq freeEnd' .. PageSize - 1
    <3>1. CASE i = n
      BY <3>1, <1>2, <1>3, <1>13
    <3>2. CASE i < n
      BY <3>2, <1>2, <1>3, <1>4, <1>1, <1>5, <1>12, <1>13
    <3> QED
      BY <2>1, <3>1, <3>2, <1>9
  <2>2. ASSUME NEW i \in Slots, NEW j \in Slots, i < j, j < nextItemId'
        PROVE  metadata'[j].offset + metadata'[j].size <= metadata'[i].offset
    <3>1. i < n /\ (j = n \/ j < n)
      BY <2>2, <1>1, <1>5 DEF Slots
    <3>2. CASE j = n
      BY <3>1, <3>2, <1>1, <1>3, <1>4, <1>12, <1>13
    <3>3. CASE j < n
      BY <3>1, <3>3, <2>2, <1>6, <1>1 DEF IndInv, NoOverlap, Slots
    <3> QED
      BY <3>1, <3>2, <3>3
  <2> QED
    BY <2>1, <2>2 DEF NoOverlap, DataBytes
<1>15. PayloadsIntact'
  <2> SUFFICES ASSUME NEW i \in Slots, i < nextItemId'
               PROVE  \E q \in Payloads : /\ SizeOf[q] = metadata'[i].size
                                          /\ \A b \in DataBytes(metadata'[i]) : bytes'[b] = q
    BY DEF PayloadsIntact, DataBytes
  <2>1. CASE i = n
    <3>1. DataBytes(m) \subseteq Bytes
      BY <1>1, <1>2, <1>3, <1>8 DEF Bytes
    <3> QED
      BY <2>1, <3>1, <1>4, <1>7, <1>13
  <2>2. CASE i < n
    <3>1. PICK q \in Payloads : /\ SizeOf[q] = metadata[i].size
                                /\ \A b \in DataBytes(metadata[i]) : bytes[b] = q
      BY <2>2 DEF IndInv, PayloadsIntact
    <3>2. ASSUME NEW b \in DataBytes(metadata[i])
          PROVE  bytes'[b] = bytes[b]
      <4>1. b \in freeEnd .. PageSize - 1
        BY <2>2, <1>12
      <4>2. b \in Bytes /\ b \notin DataBytes(m) /\ b \notin MetaBytes(n)
        BY <4>1, <1>1, <1>2, <1>3, <1>8 DEF Bytes
      <4> QED
        BY <4>2, <1>7
    <3> QED
      BY <2>2, <3>1, <3>2, <1>12
  <2> QED
    BY <2>1, <2>2, <1>9
<1>16. MetadataIntact'
  <2>1. ASSUME NEW b \in Bytes, b < HeaderSize
        PROVE  bytes'[b] = "header"
    <3>1. b \notin DataBytes(m) /\ b \notin MetaBytes(n)
      BY <2>1, <1>1, <1>2, <1>3, <1>8, RecordStep DEF Bytes
    <3> QED
      BY <2>1, <3>1, <1>7 DEF IndInv, MetadataIntact
  <2>2. ASSUME NEW i \in Slots, i < nextItemId', NEW b \in MetaBytes(i)
        PROVE  bytes'[b] = "meta"
    <3>1. CASE i = n
      <4>1. b \in freeStart .. freeStart + MetaSize - 1
        BY <3>1, <1>1
      <4>2. b \in Bytes /\ b \notin DataBytes(m)
        BY <4>1, <1>1, <1>2, <1>3, <1>8 DEF Bytes
      <4> QED
        BY <3>1, <4>2, <1>7
    <3>2. CASE i < n
      <4>1. i \in Nat /\ MetaSize * i \in Nat /\ MetaSize * n \in Nat
            /\ MetaSize * i + MetaSize <= MetaSize * n
        BY <3>2, <1>1, RecordsOrdered DEF Slots
      <4>2. b \in HeaderSize + MetaSize * i .. HeaderSize + MetaSize * i + MetaSize - 1
        BY DEF MetaBytes
      <4>3. b < freeStart /\ b \in Nat
        BY <4>1, <4>2, <1>2, <1>3
      <4>4. b \in Bytes /\ b \notin DataBytes(m) /\ b \notin MetaBytes(n)
        BY <4>3, <1>1, <1>2, <1>3, <1>8 DEF Bytes
      <4> QED
        BY <3>2, <4>4, <1>7 DEF IndInv, MetadataIntact
    <3> QED
      BY <2>2, <3>1, <3>2, <1>9
  <2> QED
    BY <2>1, <2>2 DEF MetadataIntact, MetaBytes
<1>17. LiveSlots' = LiveSlots \cup {n} /\ n \notin LiveSlots
  BY <1>1, <1>4, <1>5, <1>6, <1>9 DEF LiveSlots, Slots
<1>18. CountMatchesLive'
  BY <1>1, <1>5, <1>17, LiveFinite, FS_AddElement DEF IndInv, CountMatchesLive
<1>19. HandleFresh'
  <2>1. item.id \in LiveSlots => metadata'[item.id] = metadata[item.id]
    BY <1>1, <1>6 DEF LiveSlots, Slots
  <2> QED
    BY <1>5, <1>17, <2>1 DEF IndInv, HandleFresh
<1> QED
  BY <1>10, <1>11, <1>14, <1>15, <1>16, <1>18, <1>19 DEF IndInv

(* Reading an item changes only the caller's Item, or ends the process. *)
LEMMA GetItemInv ==
  ASSUME IndInv, NEW i \in Slots, GetItem(i)
  PROVE  IndInv'
<1>1. UNCHANGED <<nextItemId, itemsCount, freeStart, freeEnd, metadata, bytes>>
  BY DEF GetItem, header
<1>2. Layout' /\ NoOverlap' /\ PayloadsIntact' /\ MetadataIntact' /\ CountMatchesLive'
  <2>1. Layout'
    BY <1>1 DEF IndInv, Layout
  <2>2. NoOverlap'
    BY <1>1 DEF IndInv, NoOverlap, DataBytes
  <2>3. PayloadsIntact'
    BY <1>1 DEF IndInv, PayloadsIntact, DataBytes
  <2>4. MetadataIntact'
    BY <1>1 DEF IndInv, MetadataIntact, MetaBytes
  <2>5. CountMatchesLive'
    BY <1>1 DEF IndInv, CountMatchesLive, LiveSlots
  <2> QED
    BY <2>1, <2>2, <2>3, <2>4, <2>5
<1>3. CASE metadata[i].isDeleted
  BY <1>1, <1>2, <1>3
     DEF IndInv, TypeOK, HandleFresh, GetItem, LiveSlots, Endings
<1>4. CASE ~metadata[i].isDeleted
  <2>1. item' = [id |-> i, offset |-> metadata[i].offset, isDeleted |-> FALSE] /\ proc' = proc
        /\ i < nextItemId
    BY <1>4 DEF GetItem
  <2>2. metadata[i].offset \in 0..PageSize
    BY DEF IndInv, TypeOK, Metadata
  <2>3. TypeOK'
    BY <1>1, <2>1, <2>2 DEF IndInv, TypeOK, Items
  <2>4. HandleFresh'
    BY <1>1, <1>4, <2>1 DEF IndInv, HandleFresh, LiveSlots
  <2> QED
    BY <1>2, <2>3, <2>4 DEF IndInv
<1> QED
  BY <1>3, <1>4

(* The assertions of page_delete_item hold, so the record is marked. *)
LEMMA DeleteItemRuns ==
  ASSUME IndInv, DeleteItem
  PROVE  /\ item.id \in LiveSlots
         /\ item.id \in Slots /\ item.id < nextItemId
         /\ itemsCount > 0
         /\ item' = [item EXCEPT !.isDeleted = TRUE]
         /\ metadata' = [metadata EXCEPT ![item.id].isDeleted = TRUE]
         /\ itemsCount' = itemsCount - 1
         /\ bytes' = bytes /\ proc' = proc
         /\ IF item.id = nextItemId - 1
              THEN PopLast
              ELSE UNCHANGED <<nextItemId, freeStart, freeEnd>>
<1>1. item.id \in LiveSlots
  BY DEF IndInv, HandleFresh, DeleteItem
<1>2. itemsCount \in Nat /\ itemsCount # 0
  BY <1>1, LiveFinite, FS_EmptySet DEF IndInv, TypeOK, Slots, CountMatchesLive
<1>3. item.id \in Slots /\ item.id < nextItemId /\ nextItemId \in Slots
  BY <1>1 DEF LiveSlots, IndInv, TypeOK
<1>4. ~(item.id >= nextItemId \/ itemsCount = 0)
  BY <1>2, <1>3, SizesAssumption DEF Slots
<1> QED
  BY <1>1, <1>2, <1>3, <1>4 DEF DeleteItem, IsLast

(* Deleting an item preserves the invariants, whether it leaves a tombstone *)
(* or rewinds the free space over the last record.                          *)
LEMMA DeleteItemInv ==
  ASSUME IndInv, DeleteItem
  PROVE  IndInv'
<1> DEFINE k == item.id
<1> DEFINE n == nextItemId
<1>1. /\ k \in LiveSlots /\ k \in Slots /\ k < n /\ itemsCount > 0
      /\ item' = [item EXCEPT !.isDeleted = TRUE]
      /\ metadata' = [metadata EXCEPT ![k].isDeleted = TRUE]
      /\ itemsCount' = itemsCount - 1
      /\ bytes' = bytes /\ proc' = proc
      /\ IF k = n - 1 THEN PopLast ELSE UNCHANGED <<nextItemId, freeStart, freeEnd>>
  BY DeleteItemRuns
<1>2. /\ PageSize \in Nat /\ HeaderSize \in Nat /\ MetaSize \in Nat \ {0} /\ HeaderSize <= PageSize
  BY SizesAssumption
<1>3. /\ n \in 0..PageSize /\ k \in 0..PageSize /\ itemsCount \in Nat
      /\ freeStart \in 0..PageSize /\ freeEnd \in 0..PageSize /\ freeStart <= freeEnd
      /\ freeStart = HeaderSize + MetaSize * n
      /\ metadata \in [Slots -> Metadata] /\ item \in Items
  BY <1>1 DEF IndInv, TypeOK, Layout, Slots
<1>4. \A i \in Slots : /\ metadata'[i].offset = metadata[i].offset
                       /\ metadata'[i].size = metadata[i].size
                       /\ metadata'[i].isDeleted = (metadata[i].isDeleted \/ i = k)
  BY <1>1, <1>3 DEF Metadata
<1>5. n' \in Slots /\ n' <= n /\ \A i \in Slots : i < n' <=> (i < n /\ (k = n - 1 => i # k))
  BY <1>1, <1>2, <1>3 DEF PopLast, Slots
<1>6. /\ freeStart' = HeaderSize + MetaSize * n' /\ freeStart' <= freeStart
      /\ freeStart' \in 0..PageSize
  <2>1. CASE k = n - 1
    <3>1. n - 1 \in Nat /\ MetaSize * (n - 1) \in Nat /\ MetaSize * n = MetaSize * (n - 1) + MetaSize
      <4>1. n - 1 \in Nat
        BY <1>1, <1>3
      <4> QED
        BY <4>1, <1>3, RecordStep
    <3>2. n' = n - 1 /\ freeStart' = freeStart - MetaSize
      BY <2>1, <1>1 DEF PopLast
    <3> HIDE DEF n
    <3> QED
      BY <3>1, <3>2, <1>2, <1>3
  <2>2. CASE k # n - 1
    BY <2>2, <1>1, <1>3
  <2> QED
    BY <2>1, <2>2
<1>7. /\ freeEnd' \in freeEnd .. PageSize
      /\ freeEnd' = IF n' = 0 THEN PageSize ELSE metadata'[n' - 1].offset
  <2>1. CASE k = n - 1
    <3>1. n' = n - 1 /\ freeEnd' = freeEnd + metadata[k].size
      BY <2>1, <1>1 DEF PopLast
    <3>2. freeEnd = metadata[k].offset
      BY <2>1, <1>1, <1>2, <1>3 DEF IndInv, Layout
    <3>3. metadata[k].offset + metadata[k].size = IF k = 0 THEN PageSize ELSE metadata[k - 1].offset
      BY <1>1 DEF IndInv, Layout
    <3>4. metadata[k].size \in Nat /\ metadata[k].offset + metadata[k].size <= PageSize
      BY <1>1, ItemsPlaced DEF IndInv
    <3>5. k # 0 => metadata'[k - 1].offset = metadata[k - 1].offset
      BY <1>2, <1>3, <1>4 DEF Slots
    <3> QED
      BY <2>1, <3>1, <3>2, <3>3, <3>4, <3>5, <1>2, <1>3
  <2>2. CASE k # n - 1
    <3>1. n' = n /\ freeEnd' = freeEnd
      BY <2>2, <1>1
    <3>2. freeEnd = IF n = 0 THEN PageSize ELSE metadata[n - 1].offset
      BY DEF IndInv, Layout
    <3>3. n # 0 => metadata'[n - 1].offset = metadata[n - 1].offset
      BY <1>2, <1>3, <1>4 DEF Slots
    <3> QED
      BY <3>1, <3>2, <3>3, <1>3
  <2> QED
    BY <2>1, <2>2
<1>8. TypeOK'
  <2>1. metadata' \in [Slots -> Metadata]
    BY <1>1, <1>3 DEF Metadata
  <2>2. item' \in Items
    BY <1>1, <1>3 DEF Items
  <2> QED
    BY <1>1, <1>2, <1>3, <1>5, <1>6, <1>7, <2>1, <2>2 DEF IndInv, TypeOK
<1>9. Layout'
  <2>1. freeStart' <= freeEnd'
    BY <1>2, <1>3, <1>6, <1>7
  <2>2. ASSUME NEW i \in Slots, i < n'
        PROVE  /\ metadata'[i].size > 0
               /\ metadata'[i].offset + metadata'[i].size =
                    IF i = 0 THEN PageSize ELSE metadata'[i - 1].offset
    <3>1. i # 0 => i - 1 \in Slots
      BY <1>2 DEF Slots
    <3> QED
      BY <2>2, <3>1, <1>4, <1>5 DEF IndInv, Layout
  <2> QED
    BY <2>1, <2>2, <1>6, <1>7 DEF Layout
<1>10. NoOverlap'
  <2>1. ASSUME NEW i \in Slots, NEW j \in Slots, i < j, j < n'
        PROVE  metadata'[j].offset + metadata'[j].size <= metadata'[i].offset
    <3>1. i < n' /\ i < n /\ j < n
      BY <2>1, <1>2, <1>3, <1>5 DEF Slots
    <3>2. metadata[j].offset + metadata[j].size <= metadata[i].offset
      BY <2>1, <3>1 DEF IndInv, NoOverlap
    <3> QED
      BY <3>2, <1>4
  <2>2. ASSUME NEW i \in Slots, i < n'
        PROVE  DataBytes(metadata[i]) \subseteq freeEnd' .. PageSize - 1
    <3>1. i < n /\ metadata[i].offset \in Nat /\ metadata[i].size \in Nat
          /\ metadata[i].offset + metadata[i].size <= PageSize
      BY <2>2, <1>5, ItemsPlaced DEF IndInv
    <3>2. freeEnd' <= metadata[i].offset
      <4>1. CASE k = n - 1
        <5>1. i < k
          BY <4>1, <2>2, <1>2, <1>3, <1>5 DEF Slots
        <5>2. metadata[k].offset + metadata[k].size <= metadata[i].offset
          BY <5>1, <3>1, <1>1 DEF IndInv, NoOverlap
        <5>3. freeEnd' = metadata[k].offset + metadata[k].size
          BY <4>1, <1>1, <1>2, <1>3 DEF PopLast, IndInv, Layout
        <5> QED
          BY <5>2, <5>3
      <4>2. CASE k # n - 1
        BY <4>2, <3>1, <1>1, ItemsPlaced DEF IndInv
      <4> QED
        BY <4>1, <4>2
    <3> QED
      BY <3>1, <3>2, <1>2, <1>3, <1>7 DEF DataBytes
  <2>3. ASSUME NEW i \in Slots
        PROVE  DataBytes(metadata[i]) = DataBytes(metadata'[i])
    BY <1>4 DEF DataBytes
  <2> QED
    BY <2>1, <2>2, <2>3 DEF NoOverlap, DataBytes
<1>11. PayloadsIntact'
  <2> SUFFICES ASSUME NEW i \in Slots, i < n'
               PROVE  \E p \in Payloads : /\ SizeOf[p] = metadata'[i].size
                                          /\ \A b \in DataBytes(metadata'[i]) : bytes'[b] = p
    BY DEF PayloadsIntact, DataBytes
  <2>1. DataBytes(metadata'[i]) = DataBytes(metadata[i]) /\ metadata'[i].size = metadata[i].size
    BY <1>4 DEF DataBytes
  <2> QED
    BY <2>1, <1>1, <1>5 DEF IndInv, PayloadsIntact
<1>12. MetadataIntact'
  BY <1>1, <1>5 DEF IndInv, MetadataIntact, MetaBytes
<1>13. LiveSlots' = LiveSlots \ {k}
  <2>1. \A i \in Slots : (i < n' /\ ~metadata'[i].isDeleted) <=>
                         (i < n /\ ~metadata[i].isDeleted /\ i # k)
    BY <1>4, <1>5
  <2> QED
    BY <2>1 DEF LiveSlots
<1>14. CountMatchesLive'
  <2>1. IsFiniteSet(LiveSlots)
    BY <1>3, LiveFinite
  <2>2. Cardinality(LiveSlots \ {k}) = Cardinality(LiveSlots) - 1
    BY <2>1, <1>1, FS_RemoveElement
  <2> QED
    BY <2>2, <1>1, <1>13 DEF IndInv, CountMatchesLive
<1>15. HandleFresh'
  BY <1>1, <1>3 DEF IndInv, HandleFresh, Items
<1> QED
  BY <1>8, <1>9, <1>10, <1>11, <1>12, <1>14, <1>15 DEF IndInv

(* Every step preserves the invariants. *)
LEMMA NextInv == IndInv /\ [Next]_vars => IndInv'
<1> SUFFICES ASSUME IndInv, [Next]_vars PROVE IndInv'
  OBVIOUS
<1>1. ASSUME NEW p \in Payloads, AddItem(p) PROVE IndInv'
  BY <1>1, AddItemInv
<1>2. CASE /\ UNCHANGED <<nextItemId, itemsCount, freeStart, freeEnd, metadata, bytes, item>>
           /\ proc' \in {proc, "no_space"}
  BY <1>2 DEF IndInv, TypeOK, Layout, NoOverlap, PayloadsIntact, MetadataIntact, CountMatchesLive,
              HandleFresh, LiveSlots, DataBytes, MetaBytes, Endings
<1>3. ASSUME NEW p \in Payloads, AddItemTooLarge(p) PROVE IndInv'
  BY <1>2, <1>3 DEF AddItemTooLarge, header
<1>4. ASSUME NEW i \in Slots, GetItem(i) PROVE IndInv'
  BY <1>4, GetItemInv
<1>5. CASE DeleteItem
  BY <1>5, DeleteItemInv
<1>6. CASE UNCHANGED vars
  BY <1>2, <1>6 DEF vars, header
<1> QED
  BY <1>1, <1>3, <1>4, <1>5, <1>6 DEF Next

(* Whatever is added, read and deleted, all the invariants of a page hold. *)
THEOREM Invariant == Spec => []IndInv
<1> QED
  BY InitInv, NextInv, PTL DEF Spec

(* Type correctness. *)
THEOREM TypeCorrect == Spec => []TypeOK
<1>1. IndInv => TypeOK
  BY DEF IndInv
<1> QED
  BY <1>1, Invariant, PTL

(* The free space of a page is what lies between its records and its      *)
(* payloads.                                                               *)
THEOREM SpaceBetween == Spec => []Layout
<1>1. IndInv => Layout
  BY DEF IndInv
<1> QED
  BY <1>1, Invariant, PTL

(* Items never share a byte, with each other or with the records. *)
THEOREM ItemsApart == Spec => []NoOverlap
<1>1. IndInv => NoOverlap
  BY DEF IndInv
<1> QED
  BY <1>1, Invariant, PTL

(* Neither an add nor a delete ever damages a payload ... *)
THEOREM ContentSafe == Spec => []PayloadsIntact
<1>1. IndInv => PayloadsIntact
  BY DEF IndInv
<1> QED
  BY <1>1, Invariant, PTL

(* ... or a record.                                                       *)
THEOREM RecordsSafe == Spec => []MetadataIntact
<1>1. IndInv => MetadataIntact
  BY DEF IndInv
<1> QED
  BY <1>1, Invariant, PTL

(* The count the iterator trusts is right. *)
THEOREM CountRight == Spec => []CountMatchesLive
<1>1. IndInv => CountMatchesLive
  BY DEF IndInv
<1> QED
  BY <1>1, Invariant, PTL

(* The assertions a delete makes about the caller's item hold.            *)
THEOREM HandleStaysFresh == Spec => []HandleFresh
<1>1. IndInv => HandleFresh
  BY DEF IndInv
<1> QED
  BY <1>1, Invariant, PTL

-----------------------------------------------------------------------------
(* A page implements an item store. *)

(* An add leaves what the other ids read and makes its own id read p. *)
LEMMA AddItemStores ==
  ASSUME IndInv, NEW p \in Payloads, AddItem(p)
  PROVE  /\ nextItemId \in Slots /\ nextItemId \notin LiveSlots
         /\ Stored' = [j \in LiveSlots \cup {nextItemId} |->
                         IF j = nextItemId THEN p ELSE Stored[j]]
<1> DEFINE n == nextItemId
<1> DEFINE m == [offset |-> freeEnd - SizeOf[p], size |-> SizeOf[p], isDeleted |-> FALSE]
<1>1. /\ SizeOf[p] \in Nat \ {0} /\ n < PageSize /\ n \in Nat
      /\ freeStart + MetaSize + SizeOf[p] <= freeEnd
      /\ MetaBytes(n) = freeStart .. freeStart + MetaSize - 1
  BY AddItemFits DEF IndInv, AddItem, TypeOK, Slots
<1>2. /\ PageSize \in Nat /\ MetaSize \in Nat \ {0}
      /\ freeStart \in 0..PageSize /\ freeEnd \in 0..PageSize
  BY SizesAssumption DEF IndInv, TypeOK
<1>3. n \in Slots /\ m.size = SizeOf[p] /\ m.offset = freeEnd - SizeOf[p] /\ ~m.isDeleted
  BY <1>1, <1>2 DEF Slots
<1>4. /\ metadata' = [metadata EXCEPT ![n] = m] /\ metadata \in [Slots -> Metadata]
      /\ nextItemId' = n + 1
      /\ bytes' = [b \in Bytes |-> IF b \in DataBytes(m) THEN p
                                   ELSE IF b \in MetaBytes(n) THEN "meta" ELSE bytes[b]]
  BY DEF IndInv, TypeOK, AddItem, Write
<1>5. \A i \in Slots : metadata'[i] = IF i = n THEN m ELSE metadata[i]
  BY <1>3, <1>4
<1>6. LiveSlots' = LiveSlots \cup {n} /\ n \notin LiveSlots
  BY <1>1, <1>2, <1>3, <1>4, <1>5 DEF LiveSlots, Slots
<1>7. bytes'[metadata'[n].offset] = p
  <2>1. m.offset \in DataBytes(m) /\ m.offset \in Bytes
    BY <1>1, <1>2, <1>3 DEF DataBytes, Bytes
  <2> QED
    BY <2>1, <1>3, <1>4, <1>5
<1>8. ASSUME NEW i \in LiveSlots
      PROVE  bytes'[metadata'[i].offset] = bytes[metadata[i].offset]
  <2>1. i \in Slots /\ i < n /\ i # n
    BY <1>1, <1>6 DEF LiveSlots
  <2>2. /\ metadata[i].offset \in Nat /\ metadata[i].size \in Nat \ {0}
        /\ freeEnd <= metadata[i].offset
        /\ metadata[i].offset + metadata[i].size <= PageSize
    BY <2>1, ItemsPlaced DEF IndInv
  <2>3. DataBytes(m) = freeEnd - SizeOf[p] .. freeEnd - 1
    BY <1>1, <1>2, <1>3 DEF DataBytes
  <2>4. /\ metadata[i].offset \in Bytes
        /\ metadata[i].offset \notin DataBytes(m) /\ metadata[i].offset \notin MetaBytes(n)
    <3> DEFINE o == metadata[i].offset
    <3>1. o \in freeEnd .. PageSize - 1
      BY <2>2, <1>2
    <3>2. DataBytes(m) = freeEnd - SizeOf[p] .. freeEnd - 1
          /\ MetaBytes(n) = freeStart .. freeStart + MetaSize - 1
      BY <2>3, <1>1
    <3> HIDE DEF o, m, n
    <3>3. o \in Bytes
      BY <3>1, <1>2 DEF Bytes
    <3>4. o \notin DataBytes(m) /\ o \notin MetaBytes(n)
      BY <3>1, <3>2, <1>1, <1>2
    <3> QED
      BY <3>3, <3>4 DEF o
  <2> QED
    BY <2>1, <2>4, <1>4, <1>5
<1>9. Stored' = [i \in LiveSlots' |-> bytes'[metadata'[i].offset]]
  BY DEF Stored
<1> QED
  BY <1>3, <1>6, <1>7, <1>8, <1>9 DEF Stored

(* A delete unbinds the id of the caller's item and nothing else. *)
LEMMA DeleteItemRemoves ==
  ASSUME IndInv, DeleteItem
  PROVE  /\ item.id \in LiveSlots
         /\ Stored' = [j \in LiveSlots \ {item.id} |-> Stored[j]]
<1>1. /\ item.id \in LiveSlots /\ item.id \in Slots /\ item.id < nextItemId
      /\ metadata' = [metadata EXCEPT ![item.id].isDeleted = TRUE]
      /\ bytes' = bytes
      /\ IF item.id = nextItemId - 1 THEN PopLast ELSE UNCHANGED <<nextItemId, freeStart, freeEnd>>
  BY DeleteItemRuns
<1>2. nextItemId \in 0..PageSize /\ PageSize \in Nat /\ metadata \in [Slots -> Metadata]
  BY SizesAssumption DEF IndInv, TypeOK, Slots
<1>3. \A i \in Slots : /\ metadata'[i].offset = metadata[i].offset
                       /\ metadata'[i].isDeleted = (metadata[i].isDeleted \/ i = item.id)
  BY <1>1, <1>2 DEF Metadata
<1>4. \A i \in Slots : i < nextItemId' <=> (i < nextItemId /\ (item.id = nextItemId - 1 => i # item.id))
  BY <1>1, <1>2 DEF PopLast, Slots
<1>5. LiveSlots' = LiveSlots \ {item.id}
  BY <1>3, <1>4 DEF LiveSlots
<1>6. Stored' = [i \in LiveSlots' |-> bytes'[metadata'[i].offset]]
  BY DEF Stored
<1> QED
  BY <1>1, <1>3, <1>5, <1>6 DEF Stored, LiveSlots

(* Every step of a page is a step of the item store or a stuttering step. *)
LEMMA NextImplements == IndInv /\ [Next]_vars => [Abstract!Next]_Stored
<1> SUFFICES ASSUME IndInv, [Next]_vars PROVE Abstract!Next \/ Stored' = Stored
  OBVIOUS
<1>1. DOMAIN Stored = LiveSlots
  BY DEF Stored
<1>2. ASSUME NEW p \in Payloads, AddItem(p) PROVE Abstract!Next
  BY <1>1, <1>2, AddItemStores DEF Abstract!Next, Abstract!Put
<1>3. CASE DeleteItem
  <2>1. item.id \in Slots
    BY <1>3, DeleteItemRuns
  <2> QED
    BY <1>1, <1>3, <2>1, DeleteItemRemoves DEF Abstract!Next, Abstract!Remove
<1>4. ASSUME UNCHANGED <<nextItemId, metadata, bytes>> PROVE Stored' = Stored
  BY <1>4 DEF Stored, LiveSlots
<1>5. ASSUME NEW p \in Payloads, AddItemTooLarge(p) PROVE Stored' = Stored
  BY <1>4, <1>5 DEF AddItemTooLarge, header
<1>6. ASSUME NEW i \in Slots, GetItem(i) PROVE Stored' = Stored
  BY <1>4, <1>6 DEF GetItem, header
<1>7. CASE UNCHANGED vars
  BY <1>4, <1>7 DEF vars, header
<1> QED
  BY <1>2, <1>3, <1>5, <1>6, <1>7 DEF Next

(* A page of any size is an item store. *)
THEOREM PageImplementsItemStore == Spec => ImplementsItemStore
<1>1. Init => Abstract!Init
  BY DEF Init, Abstract!Init, Stored, LiveSlots, Slots
<1> QED
  BY <1>1, Invariant, NextImplements, PTL DEF Spec, ImplementsItemStore, Abstract!Spec

=============================================================================
