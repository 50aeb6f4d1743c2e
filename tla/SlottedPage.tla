------------------------------ MODULE SlottedPage ------------------------------
(***************************************************************************)
(* The layout of one page of the heap file: the header of page.h, the item *)
(* metadata that grows upwards from the header and the item data that      *)
(* grows downwards from the end of the page (page.c, page/util.c).         *)
(*                                                                         *)
(* A page is a record of its header fields and of its metadata array:      *)
(* slots[i] is what get_metadata(page, i) points at, for the item ids      *)
(* below next_item_id.  The field data stands for the bytes found at       *)
(* data_offset; module Page models those bytes one by one and shows that   *)
(* they are what was put there.                                            *)
(***************************************************************************)
EXTENDS Integers, FiniteSets

CONSTANT PageSize            \* page_size of the file header, the size of every page

HeaderSize == 28             \* sizeof(PageHeader), packed
MetaSize   == 21             \* sizeof(ItemMetadata), packed

\* A page that cannot take a single byte of payload is of no use to put_item.
ASSUME PageSizeAssumption == PageSize \in Nat /\ PageSize > HeaderSize + MetaSize

NullPage == -1               \* NULL_PAGE_INDEX

PageNew(id) ==
  [ page_id |-> id, next_item_id |-> 0, items_count |-> 0,
    free_start |-> HeaderSize, free_end |-> PageSize,
    slots |-> [i \in {} |-> NullPage] ]

(***************************************************************************)
(* Free space.  The C code subtracts the offsets as uint32_t and clamps    *)
(* the difference at 0 once the space for one more metadata is taken off.  *)
(***************************************************************************)
FreeSpaceLeft(p) == p.free_end - p.free_start

SpaceIgnoringMetadata(p) == FreeSpaceLeft(p)         \* fault: no room for the metadata

PayloadAvailableSpace(p) ==
  LET space == FreeSpaceLeft(p) - MetaSize IN IF space > 0 THEN space ELSE 0

CanFitPayload(p, size) == PayloadAvailableSpace(p) >= size

CanFitEmptyPayload(p) == PayloadAvailableSpace(p) >= 0          \* fault: off by one

CanFitAnyPayload(p) == PayloadAvailableSpace(p) > 0

(***************************************************************************)
(* Where get_metadata finds slot i, as an offset in the page.              *)
(***************************************************************************)
MetadataOffset(i) == HeaderSize + MetaSize * i

\* The items page_get_item returns: below next_item_id, and not deleted (asserted).
HasItem(p, i) == i \in 0 .. p.next_item_id - 1 /\ ~p.slots[i].is_deleted

Continuation(p, i) == p.slots[i].continues_on_page

(***************************************************************************)
(* page_add_item for a payload that fits.                                  *)
(***************************************************************************)
DataOffset(p, size) == p.free_end - size

AddItem(p, data, size, cont) ==
  LET slot == [ data_offset |-> DataOffset(p, size), size |-> size,
                is_deleted |-> FALSE, continues_on_page |-> cont, data |-> data ]
  IN [ p EXCEPT !.next_item_id = @ + 1,
                !.items_count  = @ + 1,
                !.free_start   = @ + MetaSize,
                !.free_end     = DataOffset(p, size),
                !.slots = [ i \in 0 .. p.next_item_id |->
                              IF i = p.next_item_id THEN slot ELSE @[i] ] ]

(***************************************************************************)
(* page_delete_item: the slot is marked, and when it is the last one its   *)
(* metadata and its data return to the free space.  Earlier deleted slots  *)
(* are not reclaimed: pages are never defragmented.                        *)
(***************************************************************************)
MarkDeletedKeepsCount(p, i) == [p EXCEPT !.slots[i].is_deleted = TRUE]     \* fault

MarkDeletedEndsItem(p, i) ==                         \* fault: the metadata is reset
  [ p EXCEPT !.items_count = @ - 1,
             !.slots = [@ EXCEPT ![i].is_deleted = TRUE, ![i].continues_on_page = NullPage] ]

MarkDeletedZeroes(p, i) ==                           \* fault: the metadata is cleared
  [ p EXCEPT !.items_count = @ - 1,
             !.slots = [@ EXCEPT ![i].is_deleted = TRUE, ![i].continues_on_page = 0] ]

MarkDeleted(p, i) ==
  [ p EXCEPT !.items_count = @ - 1, !.slots = [@ EXCEPT ![i].is_deleted = TRUE] ]

DropLastSlotKeepsData(p) ==                          \* fault: the data region leaks
  LET last == p.next_item_id - 1
  IN [ p EXCEPT !.next_item_id = last,
                !.free_start   = @ - MetaSize,
                !.slots        = [ i \in 0 .. last - 1 |-> @[i] ] ]

DropLastSlotKeepsId(p) ==                            \* fault: the id is not used again
  [ p EXCEPT !.free_start = @ - MetaSize,
             !.free_end   = @ + p.slots[p.next_item_id - 1].size,
             !.slots      = [ i \in 0 .. p.next_item_id - 2 |-> @[i] ] ]

DropLastSlot(p) ==
  LET last == p.next_item_id - 1
  IN [ p EXCEPT !.next_item_id = last,
                !.free_start   = @ - MetaSize,
                !.free_end     = @ + p.slots[last].size,
                !.slots        = [ i \in 0 .. last - 1 |-> @[i] ] ]

\* What page_get_item_continuation finds in the slot once it is deleted: a last slot
\* that was given back is beyond next_item_id, its bytes are still there.
ContinuationLeft(p, i) == Continuation(MarkDeleted(p, i), i)

DeleteItem(p, i) ==
  IF i = p.next_item_id - 1 THEN DropLastSlot(MarkDeleted(p, i))
                            ELSE MarkDeleted(p, i)

--------------------------------------------------------------------------------
(***************************************************************************)
(* The type of a page whose items have their payloads in D.                *)
(***************************************************************************)
Slot(D) == [ data_offset : Nat, size : Nat, is_deleted : BOOLEAN,
             continues_on_page : Nat \cup {NullPage}, data : D ]

PageType(p, D) ==
  /\ p \in [ page_id : Nat, next_item_id : Nat, items_count : Nat,
             free_start : Nat, free_end : Nat, slots : {p.slots} ]
  /\ p.slots \in [0 .. p.next_item_id - 1 -> Slot(D)]

(***************************************************************************)
(* The layout that adds and deletes preserve.  Data regions are adjacent,  *)
(* from the end of the page down to free_end, in slot order.               *)
(***************************************************************************)
MetadataBelowFreeSpace(p) == p.free_start = MetadataOffset(p.next_item_id)

RegionsAdjacent(p) ==
  \A i \in 0 .. p.next_item_id - 1 :
    p.slots[i].data_offset + p.slots[i].size =
      IF i = 0 THEN PageSize ELSE p.slots[i - 1].data_offset

RegionsOrdered(p) ==
  \A i \in 0 .. p.next_item_id - 1 :
    /\ p.slots[i].data_offset >= p.free_end
    /\ p.slots[i].data_offset + p.slots[i].size <= PageSize
    /\ \A j \in 0 .. i - 1 :
         p.slots[i].data_offset + p.slots[i].size <= p.slots[j].data_offset

DataAboveFreeSpace(p) ==
  p.free_end = IF p.next_item_id = 0 THEN PageSize
               ELSE p.slots[p.next_item_id - 1].data_offset

Layout(p) ==
  /\ MetadataBelowFreeSpace(p)
  /\ RegionsAdjacent(p)
  /\ RegionsOrdered(p)
  /\ DataAboveFreeSpace(p)
  /\ p.free_start <= p.free_end

(***************************************************************************)
(* items_count is the number of live slots: page_delete_item asserts it is *)
(* positive, and the item iterator skips a page by it.                     *)
(***************************************************************************)
LiveSlots(p) == {i \in 0 .. p.next_item_id - 1 : ~p.slots[i].is_deleted}

CountsLive(p) == p.items_count = Cardinality(LiveSlots(p))

WellFormed(p, D) == PageType(p, D) /\ Layout(p) /\ CountsLive(p)
================================================================================
