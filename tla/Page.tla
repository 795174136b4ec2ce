-------------------------------- MODULE Page --------------------------------
(***************************************************************************)
(* One slotted page of the storage layer (storage/page/page.c, util.c).    *)
(* The header sits at the start, the metadata records grow upwards behind  *)
(* it and the payloads grow downwards from the end of the page.  All three *)
(* share one byte array: `bytes' says who wrote each byte last, so that an *)
(* overlap shows as a byte that is no longer its owner's.                  *)
(*                                                                         *)
(* A payload of the model is an identity with a size; its content is that  *)
(* identity in every byte.  `metadata' holds the records the metadata      *)
(* bytes encode (MetadataIntact is what makes reading them sound).         *)
(*                                                                         *)
(* The caller keeps one Item at a time, the way every loop of document.c   *)
(* does: page_get_item fills it, page_delete_item takes it and marks it.   *)
(***************************************************************************)
EXTENDS Integers, FiniteSets

CONSTANTS PageSize,    \* bytes of a page
          HeaderSize,  \* sizeof(PageHeader)
          MetaSize,    \* sizeof(ItemMetadata)
          Payloads,    \* the payloads callers store
          SizeOf       \* their sizes

(* page_manager_put_item asserts payload.size > 0 before it gets here. *)
ASSUME SizesAssumption ==
  /\ PageSize \in Nat /\ HeaderSize \in Nat /\ MetaSize \in Nat \ {0}
  /\ HeaderSize <= PageSize
  /\ SizeOf \in [Payloads -> Nat \ {0}]

(* The bytes no payload wrote. *)
Fillers == {"blank", "header", "meta"}

ASSUME FillersAssumption == Payloads \cap Fillers = {}

VARIABLES
  nextItemId,   \* page_header.next_item_id
  itemsCount,   \* page_header.items_count
  freeStart,    \* page_header.free_space_start_offset
  freeEnd,      \* page_header.free_space_end_offset
  metadata,     \* the ItemMetadata records, by item id
  bytes,        \* the last writer of every byte of the page
  item,         \* the caller's Item
  proc          \* "up", or how the process ended

header == <<nextItemId, itemsCount, freeStart, freeEnd>>
vars == <<header, metadata, bytes, item, proc>>

(* No more than PageSize records fit a page. *)
Slots == 0..PageSize

Bytes == 0..PageSize - 1

(* ItemMetadata, without the fields this code never uses or never varies:  *)
(* its own id, and continues_on_page, which is always NULL_PAGE_INDEX.     *)
Metadata == [offset : 0..PageSize, size : Nat, isDeleted : BOOLEAN]

NoItem == [id |-> -1, offset |-> 0, isDeleted |-> TRUE]

Items == [id : Slots \cup {-1}, offset : 0..PageSize, isDeleted : BOOLEAN]

Endings == {"up", "no_space", "read_deleted", "delete_assertion"}

AvailableSpaceWithoutRecord == freeEnd - freeStart   \* mutant: sizeof(ItemMetadata) left out

(* page_get_payload_available_space *)
AvailableSpace ==
  LET space == (freeEnd - freeStart) - MetaSize
  IN  IF space > 0 THEN space ELSE 0

(* get_metadata and get_item_data_addr: the bytes a record and a payload   *)
(* occupy.                                                                 *)
MetaBytes(i) == HeaderSize + MetaSize * i .. HeaderSize + MetaSize * i + MetaSize - 1

DataBytes(m) == m.offset .. m.offset + m.size - 1

LiveSlots == {i \in Slots : i < nextItemId /\ ~metadata[i].isDeleted}

-----------------------------------------------------------------------------
(* page_new *)
Init ==
  /\ nextItemId = 0 /\ itemsCount = 0
  /\ freeStart = HeaderSize /\ freeEnd = PageSize
  /\ metadata = [i \in Slots |-> [offset |-> 0, size |-> 0, isDeleted |-> FALSE]]
  /\ bytes = [b \in Bytes |-> IF b < HeaderSize THEN "header" ELSE "blank"]
  /\ item = NoItem
  /\ proc = "up"

(* page_put_item_metadata_in_page, then page_put_item_data_in_page *)
Write(i, m, p) ==
  /\ metadata' = [metadata EXCEPT ![i] = m]
  /\ bytes' = [b \in Bytes |-> IF b \in DataBytes(m) THEN p
                               ELSE IF b \in MetaBytes(i) THEN "meta"
                               ELSE bytes[b]]

(* page_add_item of a payload that fits, with page_add_item_update_header *)
AddItem(p) ==
  /\ proc = "up"
  /\ SizeOf[p] <= AvailableSpace
  /\ Write(nextItemId,
           [offset |-> freeEnd - SizeOf[p], size |-> SizeOf[p], isDeleted |-> FALSE], p)
  /\ freeStart' = freeStart + MetaSize
  /\ freeEnd' = freeEnd - SizeOf[p]
  /\ nextItemId' = nextItemId + 1
  /\ itemsCount' = itemsCount + 1
  /\ UNCHANGED <<item, proc>>

(* page_add_item of a payload that does not fit: ABORT_EXIT *)
AddItemTooLarge(p) ==
  /\ proc = "up"
  /\ SizeOf[p] > AvailableSpace
  /\ proc' = "no_space"
  /\ UNCHANGED <<header, metadata, bytes, item>>

GetItemUnchecked(i) ==   \* mutant: is_deleted not looked at
  /\ proc = "up" /\ i < nextItemId
  /\ item' = [id |-> i, offset |-> metadata[i].offset, isDeleted |-> FALSE]
  /\ UNCHANGED <<header, metadata, bytes, proc>>

(* page_get_item; an id at or beyond next_item_id returns an error and     *)
(* changes nothing.                                                        *)
GetItem(i) ==
  /\ proc = "up"
  /\ i < nextItemId
  /\ IF metadata[i].isDeleted
       THEN proc' = "read_deleted" /\ UNCHANGED item
       ELSE /\ item' = [id |-> i, offset |-> metadata[i].offset, isDeleted |-> FALSE]
            /\ UNCHANGED proc
  /\ UNCHANGED <<header, metadata, bytes>>

IsLastAlways == TRUE   \* mutant: the header is rewound whatever item is deleted

IsLast == item.id = nextItemId - 1

PopLastGivesTwice ==   \* mutant: the record's bytes are given back at both ends
  /\ freeStart' = freeStart - MetaSize
  /\ freeEnd' = freeEnd + metadata[item.id].size + MetaSize
  /\ nextItemId' = nextItemId - 1

PopLastAndTombstones ==   \* mutant: ids rewound over tombstones, their space is not
  /\ freeStart' = freeStart - MetaSize
  /\ freeEnd' = freeEnd + metadata[item.id].size
  /\ nextItemId' = IF nextItemId > 1 /\ metadata[nextItemId - 2].isDeleted
                     THEN nextItemId - 2 ELSE nextItemId - 1

(* The last record is popped: its metadata and its bytes become free again *)
(* but a tombstone below it stays.                                         *)
PopLast ==
  /\ freeStart' = freeStart - MetaSize
  /\ freeEnd' = freeEnd + metadata[item.id].size
  /\ nextItemId' = nextItemId - 1

(* page_delete_item of the Item the caller got and has not deleted yet; its *)
(* two other assertions end the process.                                   *)
DeleteItem ==
  /\ proc = "up"
  /\ ~item.isDeleted
  /\ IF item.id >= nextItemId \/ itemsCount = 0
       THEN proc' = "delete_assertion" /\ UNCHANGED <<header, metadata, item>>
       ELSE /\ item' = [item EXCEPT !.isDeleted = TRUE]
            /\ metadata' = [metadata EXCEPT ![item.id].isDeleted = TRUE]
            /\ itemsCount' = itemsCount - 1
            /\ IF IsLast
                 THEN PopLast
                 ELSE UNCHANGED <<nextItemId, freeStart, freeEnd>>
            /\ UNCHANGED proc
  /\ UNCHANGED bytes

Next ==
  \/ \E p \in Payloads : AddItem(p) \/ AddItemTooLarge(p)
  \/ \E i \in Slots : GetItem(i)
  \/ DeleteItem

Spec == Init /\ [][Next]_vars

-----------------------------------------------------------------------------
(* Every header field, record, byte and the caller's Item has its type.    *)
TypeOK ==
  /\ nextItemId \in Slots /\ itemsCount \in Nat
  /\ freeStart \in 0..PageSize /\ freeEnd \in 0..PageSize
  /\ metadata \in [Slots -> Metadata]
  /\ bytes \in [Bytes -> Payloads \cup Fillers]
  /\ item \in Items
  /\ proc \in Endings

(* The free space is exactly what lies between the last record and the     *)
(* last payload: the payloads, tombstones included, tile the page from its *)
(* end downwards without a gap, so that popping the last record gives back *)
(* exactly its bytes, whatever was deleted before.                         *)
Layout ==
  /\ freeStart = HeaderSize + MetaSize * nextItemId
  /\ freeStart <= freeEnd
  /\ freeEnd = IF nextItemId = 0 THEN PageSize ELSE metadata[nextItemId - 1].offset
  /\ \A i \in Slots : i < nextItemId =>
       /\ metadata[i].size > 0
       /\ metadata[i].offset + metadata[i].size =
            IF i = 0 THEN PageSize ELSE metadata[i - 1].offset

(* No two items of the page share a byte, and none reaches into the        *)
(* metadata area or beyond the page.                                       *)
NoOverlap ==
  \A i \in Slots : i < nextItemId =>
    /\ DataBytes(metadata[i]) \subseteq freeEnd .. PageSize - 1
    /\ \A j \in Slots : i < j /\ j < nextItemId =>
         metadata[j].offset + metadata[j].size <= metadata[i].offset

(* Every item below next_item_id still holds, in all its bytes, one        *)
(* payload of its size: no later add or delete wrote over it.              *)
PayloadsIntact ==
  \A i \in Slots : i < nextItemId =>
    \E p \in Payloads :
      /\ SizeOf[p] = metadata[i].size
      /\ \A b \in DataBytes(metadata[i]) : bytes[b] = p

(* No payload was ever written over the record of an item or the header.   *)
MetadataIntact ==
  /\ \A b \in Bytes : b < HeaderSize => bytes[b] = "header"
  /\ \A i \in Slots : i < nextItemId => \A b \in MetaBytes(i) : bytes[b] = "meta"

(* items_count is the number of items that can be read; the item iterator  *)
(* skips a page by it.                                                     *)
CountMatchesLive == itemsCount = Cardinality(LiveSlots)

(* An Item that the caller has not deleted still names a live item of the  *)
(* page and its payload pointer still points at that item's bytes, so the  *)
(* assertions of page_delete_item on the id and on items_count never fail. *)
HandleFresh ==
  /\ ~item.isDeleted => item.id \in LiveSlots /\ item.offset = metadata[item.id].offset
  /\ proc # "delete_assertion"

(* What a caller reads through page_get_item: the live items' payloads. *)
Stored == [i \in LiveSlots |-> bytes[metadata[i].offset]]

Abstract == INSTANCE ItemStore WITH Ids <- Slots, store <- Stored

(* A page is an item store: adding binds a fresh id, deleting unbinds one, *)
(* and no operation disturbs the payload of another item.                  *)
ImplementsItemStore == Abstract!Spec
=============================================================================
