---------------------------------- MODULE Page ---------------------------------
(***************************************************************************)
(* One page in memory, byte by byte, under any sequence of the operations  *)
(* of page.c.  The other modules read an item straight from its slot; this *)
(* one keeps the bytes of page_payload as well, so that a layout error     *)
(* (two items sharing bytes, data running into the metadata array) shows   *)
(* as an item that no longer reads back.                                   *)
(***************************************************************************)
EXTENDS SlottedPage

CONSTANTS
  Data,                 \* payload contents, told apart only by identity
  Sizes                 \* payload sizes the callers use

ASSUME SizesAssumption == Sizes \subseteq Nat \ {0}

VARIABLES
  page,                 \* the header and the metadata array
  bytes,                \* page_payload: who wrote each byte last
  running               \* FALSE once ABORT_EXIT has ended the process

vars == <<page, bytes, running>>

PayloadOffsets == HeaderSize .. PageSize - 1

Byte == [kind : {"zero", "meta", "data"}, of : Data \cup Nat, at : Nat]

Zero       == [kind |-> "zero", of |-> 0, at |-> 0]
MetaByte(i, k) == [kind |-> "meta", of |-> i, at |-> k]
DataByte(d, k) == [kind |-> "data", of |-> d, at |-> k]

Init ==
  /\ page = PageNew(0)
  /\ bytes = [o \in PayloadOffsets |-> Zero]          \* calloc
  /\ running = TRUE

(***************************************************************************)
(* memcpy of the metadata to get_metadata(id), then of the payload to      *)
(* data_offset.                                                            *)
(***************************************************************************)
PutMetadata(b, i) ==
  [ o \in PayloadOffsets |->
      IF o \in MetadataOffset(i) .. MetadataOffset(i) + MetaSize - 1
        THEN MetaByte(i, o - MetadataOffset(i)) ELSE b[o] ]

PutData(b, d, offset, size) ==
  [ o \in PayloadOffsets |->
      IF o \in offset .. offset + size - 1 THEN DataByte(d, o - offset) ELSE b[o] ]

AddUnchecked(d, size) ==                             \* fault: no check that it fits
  /\ running
  /\ page' = AddItem(page, d, size, NullPage)
  /\ bytes' = PutData(PutMetadata(bytes, page.next_item_id),
                      d, DataOffset(page, size), size)
  /\ UNCHANGED running

Add(d, size) ==
  /\ running
  /\ CanFitPayload(page, size)
  /\ page' = AddItem(page, d, size, NullPage)
  /\ bytes' = PutData(PutMetadata(bytes, page.next_item_id),
                      d, DataOffset(page, size), size)
  /\ UNCHANGED running

\* page_add_item exits the process when the payload does not fit.
AddRefused(size) ==
  /\ running
  /\ ~CanFitPayload(page, size)
  /\ running' = FALSE
  /\ UNCHANGED <<page, bytes>>

\* The caller obtained the item from page_get_item.
Delete(i) ==
  /\ running
  /\ HasItem(page, i)
  /\ page' = DeleteItem(page, i)
  /\ UNCHANGED <<bytes, running>>

Next ==
  \/ \E d \in Data, size \in Sizes : Add(d, size)
  \/ \E size \in Sizes : AddRefused(size)
  \/ \E i \in 0 .. page.next_item_id - 1 : Delete(i)

Spec == Init /\ [][Next]_vars

--------------------------------------------------------------------------------
(***************************************************************************)
(* The types of the header fields, of the slots and of the bytes.  The     *)
(* page is page 0, and its items have no continuation.                     *)
(***************************************************************************)
TypeOK ==
  /\ PageType(page, Data) /\ page.page_id = 0
  /\ bytes \in [PayloadOffsets -> Byte]
  /\ running \in BOOLEAN

(***************************************************************************)
(* Whatever is added and deleted in whatever order, the metadata array     *)
(* ends where the free space starts and the data regions fill the rest of  *)
(* the page from its end (page_add_item, page_delete_item).                *)
(***************************************************************************)
LayoutInv == Layout(page)

\* Every item below next_item_id, deleted or not, still has the metadata and
\* the data bytes page_add_item wrote for it, inside the page.
SlotIntact(i) ==
  LET s == page.slots[i]
  IN /\ \A k \in 0 .. MetaSize - 1 :
          /\ MetadataOffset(i) + k \in PayloadOffsets
          /\ bytes[MetadataOffset(i) + k] = MetaByte(i, k)
     /\ \A k \in 0 .. s.size - 1 :
          /\ s.data_offset + k \in PayloadOffsets
          /\ bytes[s.data_offset + k] = DataByte(s.data, k)

(***************************************************************************)
(* Whatever was added and deleted before, no item's bytes were overwritten *)
(* by another item's metadata or data (page_put_item_metadata_in_page,     *)
(* page_put_item_data_in_page at the offsets page_add_item computes).      *)
(***************************************************************************)
ItemsIntact == \A i \in 0 .. page.next_item_id - 1 : SlotIntact(i)

(***************************************************************************)
(* items_count is the number of slots that are not deleted, so that the    *)
(* assertion of page_delete_item (page.c:136) holds at every delete.       *)
(***************************************************************************)
CountIsLive == CountsLive(page)
================================================================================
