------------------------------- MODULE PageProofs ------------------------------
(***************************************************************************)
(* Theorems about one page, for every page size and every set of payloads. *)
(***************************************************************************)
EXTENDS Page, SlottedPageProofs

\* What an add or a delete needs to know of the page.
PageInv == TypeOK /\ WellFormed(page, Data)

USE PageSizeAssumption, SizesAssumption DEF HeaderSize, MetaSize, NullPage

\* The page of page_new.
LEMMA InitPageInv == Init => PageInv
PROOF
<1> SUFFICES ASSUME Init PROVE PageInv
  OBVIOUS
<1>1. WellFormed(page, Data) /\ page.page_id = 0
  BY NewPageWellFormed DEF Init
<1>2. bytes \in [PayloadOffsets -> Byte] /\ running \in BOOLEAN
  BY DEF Init, Byte, Zero, PayloadOffsets
<1> QED BY <1>1, <1>2 DEF PageInv, TypeOK, WellFormed

\* What page_add_item does to the header and the metadata array.
LEMMA AddPage ==
  ASSUME PageInv, NEW d \in Data, NEW size \in Sizes, Add(d, size)
  PROVE  /\ page.next_item_id \in Nat /\ size \in Nat \ {0}
         /\ page.free_start \in Nat /\ page.free_end \in Nat
         /\ page.free_end - page.free_start - 21 >= size
         /\ AddEffect(page, page', d, size, -1)
         /\ WellFormed(page', Data)
PROOF
<1>1. /\ page.next_item_id \in Nat /\ size \in Nat \ {0}
      /\ page.free_start \in Nat /\ page.free_end \in Nat
      /\ page.free_end - page.free_start - 21 >= size
  BY DEF PageInv, WellFormed, PageType, Add, CanFitPayload, PayloadAvailableSpace,
     FreeSpaceLeft
<1>2. page' = AddItem(page, d, size, -1) /\ CanFitPayload(page, size)
  BY DEF Add
<1>3. -1 \in Nat \cup {-1}
  OBVIOUS
<1> QED BY <1>1, <1>2, <1>3, AddWellFormed DEF PageInv

\* What page_delete_item does to them.
LEMMA DeletePage ==
  ASSUME PageInv, NEW i \in 0 .. page.next_item_id - 1, Delete(i)
  PROVE  /\ DeleteEffect(page, page', i, Data)
         /\ WellFormed(page', Data)
         /\ page.next_item_id \in Nat
  BY DeleteWellFormed DEF PageInv, Delete, WellFormed, PageType

(***************************************************************************)
(* The bytes page_add_item writes: the metadata at the start of the free   *)
(* space, the data at its end, and no others.                              *)
(***************************************************************************)
LEMMA AddBytes ==
  ASSUME PageInv, NEW d \in Data, NEW size \in Sizes, Add(d, size)
  PROVE  /\ bytes' \in [PayloadOffsets -> Byte]
         /\ \A o \in PayloadOffsets :
              bytes'[o] = IF o \in page.free_end - size .. page.free_end - 1
                            THEN DataByte(d, o - (page.free_end - size))
                          ELSE IF o \in page.free_start .. page.free_start + 20
                            THEN MetaByte(page.next_item_id, o - page.free_start)
                          ELSE bytes[o]
PROOF
<1> DEFINE n == page.next_item_id
           off == page.free_end - size
<1>1. /\ n \in Nat /\ size \in Nat \ {0}
      /\ page.free_end - page.free_start - 21 >= size
      /\ off \in Int /\ page.free_start \in Nat /\ page.free_end \in Nat
  BY AddPage
<1>2. MetadataOffset(n) = page.free_start
  BY DEF PageInv, WellFormed, Layout, MetadataBelowFreeSpace
<1>3. ASSUME NEW o \in PayloadOffsets
      PROVE  bytes'[o] = IF o \in off .. page.free_end - 1 THEN DataByte(d, o - off)
                         ELSE IF o \in page.free_start .. page.free_start + 20
                           THEN MetaByte(n, o - page.free_start)
                         ELSE bytes[o]
  <2>1. PutMetadata(bytes, n)[o] = IF o \in page.free_start .. page.free_start + 20
                                     THEN MetaByte(n, o - page.free_start) ELSE bytes[o]
    <3>1. page.free_start + 21 - 1 = page.free_start + 20
      BY <1>1
    <3> QED BY <1>2, <3>1 DEF PutMetadata
  <2>2. bytes'[o] = IF o \in off .. off + size - 1 THEN DataByte(d, o - off)
                    ELSE PutMetadata(bytes, n)[o]
    BY DEF Add, PutData, DataOffset
  <2>3. off + size - 1 = page.free_end - 1
    BY <1>1
  <2> QED BY <2>1, <2>2, <2>3
<1>4. ASSUME NEW o \in PayloadOffsets
      PROVE  bytes'[o] \in Byte
  <2>1. CASE o \in off .. page.free_end - 1
    <3>1. o - off \in Nat
      BY <1>1, <2>1
    <3>2. DataByte(d, o - off) \in Byte
      BY <3>1 DEF DataByte, Byte
    <3> QED BY <1>3, <2>1, <3>2
  <2>2. CASE o \notin off .. page.free_end - 1 /\ o \in page.free_start .. page.free_start + 20
    <3>1. o - page.free_start \in Nat
      BY <1>1, <2>2
    <3>2. MetaByte(n, o - page.free_start) \in Byte
      BY <1>1, <3>1 DEF MetaByte, Byte
    <3> QED BY <1>3, <2>2, <3>2
  <2>3. CASE o \notin off .. page.free_end - 1 /\ o \notin page.free_start .. page.free_start + 20
    BY <1>3, <2>3 DEF PageInv, TypeOK
  <2> QED BY <2>1, <2>2, <2>3
<1>5. bytes' \in [PayloadOffsets -> Byte]
  BY <1>4 DEF Add, PutData
<1> QED BY <1>3, <1>5

(***************************************************************************)
(* An add writes into the free space only, which the layout keeps apart    *)
(* from every item; a delete writes nothing.                               *)
(***************************************************************************)
LEMMA AddIntact ==
  ASSUME PageInv, ItemsIntact, NEW d \in Data, NEW size \in Sizes, Add(d, size)
  PROVE  ItemsIntact'
PROOF
<1> DEFINE n == page.next_item_id
           off == page.free_end - size
<1>1. /\ n \in Nat /\ size \in Nat \ {0} /\ off \in Nat
      /\ page.free_end - page.free_start - 21 >= size
      /\ page.free_start \in Nat /\ page.free_end \in Nat
      /\ AddEffect(page, page', d, size, -1)
  BY AddPage DEF AddEffect
<1>2. /\ page'.next_item_id = n + 1
      /\ page'.slots[n].data_offset = off
      /\ page'.slots[n].size = size
      /\ page'.slots[n].data = d
      /\ \A j \in 0 .. n - 1 : page'.slots[j] = page.slots[j]
  BY <1>1 DEF AddEffect
<1>3. \A o \in PayloadOffsets :
        bytes'[o] = IF o \in off .. page.free_end - 1 THEN DataByte(d, o - off)
                    ELSE IF o \in page.free_start .. page.free_start + 20
                      THEN MetaByte(n, o - page.free_start)
                    ELSE bytes[o]
  BY AddBytes
<1>4. page.free_start = 28 + 21 * n /\ page.free_end <= PageSize
  <2>1. n # 0 => /\ page.free_end = page.slots[n - 1].data_offset
                 /\ n - 1 \in 0 .. n - 1
    BY <1>1 DEF PageInv, WellFormed, Layout, DataAboveFreeSpace
  <2>2. \A j \in 0 .. n - 1 : /\ page.slots[j].data_offset \in Nat /\ page.slots[j].size \in Nat
                              /\ page.slots[j].data_offset + page.slots[j].size <= PageSize
    BY DEF PageInv, WellFormed, PageType, Slot, Layout, RegionsOrdered
  <2>3. n = 0 => page.free_end = PageSize
    BY DEF PageInv, WellFormed, Layout, DataAboveFreeSpace
  <2> QED BY <1>1, <2>1, <2>2, <2>3 DEF PageInv, WellFormed, Layout, MetadataBelowFreeSpace,
             MetadataOffset
<1>5. ASSUME NEW i \in 0 .. n PROVE SlotIntact(i)'
  <2> DEFINE s == page'.slots[i]
  <2>1. ASSUME NEW k \in 0 .. 20
        PROVE  /\ MetadataOffset(i) + k \in PayloadOffsets
               /\ bytes'[MetadataOffset(i) + k] = MetaByte(i, k)
    <3> DEFINE o == 28 + 21 * i + k
    <3>1. /\ o \in PayloadOffsets /\ o \notin off .. page.free_end - 1
          /\ MetadataOffset(i) + k = o
      BY <1>1, <1>4 DEF MetadataOffset, PayloadOffsets
    <3>2. CASE i = n
      <4>1. o \in page.free_start .. page.free_start + 20 /\ o - page.free_start = k
        <5>1. o = page.free_start + k
          BY <1>4, <3>2
        <5> HIDE DEF o
        <5> QED BY <1>1, <5>1
      <4> HIDE DEF o
      <4>2. bytes'[o] = MetaByte(n, o - page.free_start)
        BY <1>3, <3>1, <4>1
      <4> QED BY <3>1, <3>2, <4>1, <4>2
    <3>3. CASE i # n
      <4>1. o \notin page.free_start .. page.free_start + 20 /\ i \in 0 .. n - 1
        BY <1>1, <1>4, <3>3
      <4>2. bytes'[o] = bytes[o]
        BY <1>3, <3>1, <4>1
      <4>3. bytes[MetadataOffset(i) + k] = MetaByte(i, k)
        BY <4>1 DEF ItemsIntact, SlotIntact
      <4> QED BY <3>1, <4>2, <4>3
    <3> QED BY <3>2, <3>3
  <2>2. ASSUME NEW k \in 0 .. s.size - 1
        PROVE  /\ s.data_offset + k \in PayloadOffsets
               /\ bytes'[s.data_offset + k] = DataByte(s.data, k)
    <3>1. CASE i = n
      <4>1. s.data_offset = off /\ s.size = size /\ s.data = d
        BY <1>2, <3>1
      <4>2. /\ off + k \in off .. page.free_end - 1 /\ off + k - off = k
            /\ off + k \in PayloadOffsets
        BY <1>1, <1>4, <4>1 DEF PayloadOffsets
      <4> DEFINE o == off + k
      <4>3. bytes'[o] = DataByte(d, o - off)
        <5> HIDE DEF o
        <5>1. o \in PayloadOffsets /\ o \in off .. page.free_end - 1
          BY <4>2 DEF o
        <5> QED BY <1>3, <5>1
      <4> HIDE DEF o, s, off
      <4>4. s.data_offset + k = o
        BY <4>1 DEF o
      <4>5. o - off = k
        BY <1>1 DEF o
      <4> QED BY <4>1, <4>2, <4>3, <4>4, <4>5 DEF o
    <3>2. CASE i # n
      <4>1. i \in 0 .. n - 1 /\ s = page.slots[i]
        BY <1>1, <1>2, <3>2
      <4>2. /\ s.data_offset \in Nat /\ s.size \in Nat
            /\ s.data_offset >= page.free_end
        BY <4>1 DEF PageInv, WellFormed, PageType, Slot, Layout, RegionsOrdered
      <4>3. /\ s.data_offset + k \in PayloadOffsets
            /\ bytes[s.data_offset + k] = DataByte(s.data, k)
        BY <4>1 DEF ItemsIntact, SlotIntact
      <4>4. /\ s.data_offset + k \notin off .. page.free_end - 1
            /\ s.data_offset + k \notin page.free_start .. page.free_start + 20
        BY <1>1, <4>2
      <4> DEFINE o == s.data_offset + k
      <4>5. bytes'[o] = bytes[o]
        <5> HIDE DEF o
        <5>1. /\ o \in PayloadOffsets
              /\ o \notin off .. page.free_end - 1
              /\ o \notin page.free_start .. page.free_start + 20
          BY <4>3, <4>4 DEF o
        <5> QED BY <1>3, <5>1
      <4> QED BY <4>3, <4>5
    <3> QED BY <3>1, <3>2
  <2> QED BY <2>1, <2>2 DEF SlotIntact
<1> QED BY <1>1, <1>2, <1>5 DEF ItemsIntact

\* A delete writes no bytes: the items that stay are intact.
LEMMA DeleteIntact ==
  ASSUME PageInv, ItemsIntact, NEW i \in 0 .. page.next_item_id - 1, Delete(i)
  PROVE  ItemsIntact'
PROOF
<1> DEFINE n == page.next_item_id
           m == page'.next_item_id
<1>1. DeleteEffect(page, page', i, Data) /\ n \in Nat
  BY DeletePage
<1>2. m = n \/ m = n - 1
  BY <1>1 DEF DeleteEffect
<1>3. ASSUME NEW j \in 0 .. m - 1 PROVE SlotIntact(j)'
  <2>1. j \in 0 .. n - 1 /\ page.slots[j] \in Slot(Data)
    BY <1>1, <1>2 DEF PageInv, WellFormed, PageType
  <2>2. page'.slots[j] = IF j = i THEN [page.slots[j] EXCEPT !.is_deleted = TRUE]
                         ELSE page.slots[j]
    BY <1>1 DEF DeleteEffect
  <2>3. /\ page'.slots[j].data_offset = page.slots[j].data_offset
        /\ page'.slots[j].size = page.slots[j].size
        /\ page'.slots[j].data = page.slots[j].data
    BY <2>1, <2>2 DEF Slot
  <2>4. bytes' = bytes /\ SlotIntact(j)
    BY <2>1 DEF Delete, ItemsIntact
  <2> QED BY <2>3, <2>4 DEF SlotIntact
<1> QED BY <1>3 DEF ItemsIntact

(***************************************************************************)
(* The inductive invariant.  Deleting keeps items_count a natural number   *)
(* only because it counts the live slots, and an item keeps its bytes only *)
(* because the free space separates the regions: the four invariants hold  *)
(* together or not at all.                                                 *)
(***************************************************************************)
IndInv == PageInv /\ ItemsIntact

\* A new page satisfies the invariant.
LEMMA InitIndInv == Init => IndInv
PROOF
<1> SUFFICES ASSUME Init PROVE IndInv
  OBVIOUS
<1>1. page.next_item_id = 0
  BY DEF Init, PageNew
<1>2. ItemsIntact
  BY <1>1 DEF ItemsIntact
<1> QED BY <1>2, InitPageInv DEF IndInv

\* Adds and deletes preserve it.
LEMMA NextIndInv == IndInv /\ [Next]_vars => IndInv'
PROOF
<1> SUFFICES ASSUME IndInv, [Next]_vars PROVE IndInv'
  OBVIOUS
<1>1. ASSUME NEW d \in Data, NEW size \in Sizes, Add(d, size) PROVE IndInv'
  <2>1. PageInv
    BY DEF IndInv
  <2>2. WellFormed(page', Data) /\ page'.page_id = 0
    BY <1>1, <2>1, AddPage DEF AddEffect, PageInv, TypeOK
  <2>3. bytes' \in [PayloadOffsets -> Byte]
    BY <1>1, <2>1, AddBytes
  <2>4. running' \in BOOLEAN
    BY <1>1, <2>1 DEF Add, PageInv, TypeOK
  <2>5. PageInv'
    BY <2>2, <2>3, <2>4 DEF PageInv, TypeOK, WellFormed
  <2> QED BY <1>1, <2>5, AddIntact DEF IndInv
<1>2. ASSUME NEW size \in Sizes, AddRefused(size) PROVE IndInv'
  BY <1>2 DEF AddRefused, IndInv, PageInv, TypeOK, ItemsIntact, SlotIntact
<1>3. ASSUME NEW i \in 0 .. page.next_item_id - 1, Delete(i) PROVE IndInv'
  <2>1. PageInv
    BY DEF IndInv
  <2>2. WellFormed(page', Data) /\ page'.page_id = 0
    BY <1>3, <2>1, DeletePage DEF DeleteEffect, PageInv, TypeOK
  <2>3. PageInv'
    BY <1>3, <2>1, <2>2 DEF Delete, PageInv, TypeOK, WellFormed
  <2> QED BY <1>3, <2>3, DeleteIntact DEF IndInv
<1>4. ASSUME UNCHANGED vars PROVE IndInv'
  BY <1>4 DEF vars, IndInv, PageInv, TypeOK, ItemsIntact, SlotIntact
<1> QED BY <1>1, <1>2, <1>3, <1>4 DEF Next

\* IndInv is an invariant of the page.
LEMMA Invariance == Spec => []IndInv
  BY InitIndInv, NextIndInv, PTL DEF Spec

(***************************************************************************)
(* For every page size, and every set of payloads and of payload sizes:    *)
(* the header fields and the slots of a page keep their types; in          *)
(* particular items_count never goes below 0 and the assertion of          *)
(* page_delete_item (page.c:136) holds.                                    *)
(***************************************************************************)
THEOREM PageTypeOK == Spec => []TypeOK
  BY Invariance, PTL DEF IndInv, PageInv

(***************************************************************************)
(* The metadata array ends where the free space starts, the data regions   *)
(* are adjacent from the end of the page down to free_end, whatever is     *)
(* added and deleted in whatever order (page_add_item, page_delete_item).  *)
(***************************************************************************)
THEOREM PageLayout == Spec => []LayoutInv
  BY Invariance, PTL DEF IndInv, PageInv, WellFormed, LayoutInv

(***************************************************************************)
(* No operation on the page overwrites a byte of another item: neither its *)
(* metadata nor its data.                                                  *)
(***************************************************************************)
THEOREM PageItemsIntact == Spec => []ItemsIntact
  BY Invariance, PTL DEF IndInv

(***************************************************************************)
(* items_count is the number of slots that are not deleted.                *)
(***************************************************************************)
THEOREM PageCountIsLive == Spec => []CountIsLive
  BY Invariance, PTL DEF IndInv, PageInv, WellFormed, CountIsLive
================================================================================
