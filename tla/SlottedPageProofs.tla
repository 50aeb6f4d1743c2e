--------------------------- MODULE SlottedPageProofs ---------------------------
(***************************************************************************)
(* What the operations of SlottedPage do to a page, for every page size    *)
(* and every set D of payloads: the effect of an add and of a delete on    *)
(* each field, and that both keep the page well formed.                    *)
(***************************************************************************)
EXTENDS SlottedPage, FiniteSetTheorems, TLAPS

USE PageSizeAssumption DEF HeaderSize, MetaSize, NullPage

\* A new page is well formed, whatever its items are going to be.
LEMMA NewPageWellFormed ==
  ASSUME NEW D, NEW id \in Nat
  PROVE  WellFormed(PageNew(id), D) /\ PageNew(id).page_id = id
PROOF
<1> DEFINE p == PageNew(id)
<1>1. /\ p.page_id = id /\ p.next_item_id = 0 /\ p.items_count = 0
      /\ p.free_start = 28 /\ p.free_end = PageSize
      /\ p \in [ page_id : Nat, next_item_id : Nat, items_count : Nat,
                 free_start : Nat, free_end : Nat, slots : {p.slots} ]
      /\ p.slots = [i \in {} |-> -1]
  BY DEF PageNew
<1> HIDE DEF p
<1>2. 0 .. p.next_item_id - 1 = {}
  BY <1>1
<1>3. p.slots \in [0 .. p.next_item_id - 1 -> Slot(D)]
  BY <1>1, <1>2
<1>4. PageType(p, D)
  BY <1>1, <1>3 DEF PageType
<1>5. Layout(p)
  BY <1>1, <1>2 DEF Layout, MetadataBelowFreeSpace, MetadataOffset, RegionsAdjacent,
     RegionsOrdered, DataAboveFreeSpace
<1>6. LiveSlots(p) = {}
  BY <1>2 DEF LiveSlots
<1>7. CountsLive(p)
  BY <1>1, <1>6, FS_EmptySet DEF CountsLive
<1> QED BY <1>1, <1>4, <1>5, <1>7 DEF WellFormed, p

\* A page is the record of its fields.
LEMMA PageFields ==
  ASSUME NEW D, NEW p, PageType(p, D)
  PROVE  \E pid, ic, fs, fe, s :
           /\ p = [ page_id |-> pid, next_item_id |-> p.next_item_id, items_count |-> ic,
                    free_start |-> fs, free_end |-> fe, slots |-> s ]
           /\ p.page_id = pid /\ p.items_count = ic /\ p.free_start = fs
           /\ p.free_end = fe /\ p.slots = s
PROOF
<1>1. p = [ page_id |-> p.page_id, next_item_id |-> p.next_item_id,
            items_count |-> p.items_count, free_start |-> p.free_start,
            free_end |-> p.free_end, slots |-> p.slots ]
  BY DEF PageType
<1> QED BY <1>1, Zenon

(***************************************************************************)
(* An add.  CanFitPayload leaves room for the metadata only when there is  *)
(* some payload to put: an empty one "fits" a page that has no space left. *)
(***************************************************************************)
AddEffect(p, q, d, size, cont) ==
  /\ q.page_id = p.page_id
  /\ q.next_item_id = p.next_item_id + 1
  /\ q.items_count = p.items_count + 1
  /\ q.free_start = p.free_start + 21
  /\ q.free_end = p.free_end - size
  /\ q.free_end \in Nat
  /\ q.free_start <= q.free_end
  /\ q.slots[p.next_item_id] =
       [ data_offset |-> p.free_end - size, size |-> size, is_deleted |-> FALSE,
         continues_on_page |-> cont, data |-> d ]
  /\ \A j \in 0 .. p.next_item_id - 1 : q.slots[j] = p.slots[j]

\* An add of a payload that fits has that effect, and the page keeps its type.
LEMMA AddFields ==
  ASSUME NEW D, NEW p, PageType(p, D), NEW d \in D, NEW size \in Nat \ {0},
         NEW cont \in Nat \cup {-1}, CanFitPayload(p, size)
  PROVE  /\ PageType(AddItem(p, d, size, cont), D)
         /\ AddEffect(p, AddItem(p, d, size, cont), d, size, cont)
PROOF
<1> DEFINE n == p.next_item_id
           off == p.free_end - size
           slot == [ data_offset |-> off, size |-> size, is_deleted |-> FALSE,
                     continues_on_page |-> cont, data |-> d ]
           q == AddItem(p, d, size, cont)
<1>1. /\ n \in Nat /\ p.page_id \in Nat /\ p.items_count \in Nat
      /\ p.free_start \in Nat /\ p.free_end \in Nat
      /\ p.free_end - p.free_start - 21 >= size
      /\ off \in Nat
  BY DEF PageType, CanFitPayload, PayloadAvailableSpace, FreeSpaceLeft
<1>2. q = [ page_id |-> p.page_id, next_item_id |-> n + 1, items_count |-> p.items_count + 1,
            free_start |-> p.free_start + 21, free_end |-> off,
            slots |-> [i \in 0 .. n |-> IF i = n THEN slot ELSE p.slots[i]] ]
  <2> DEFINE slots == [i \in 0 .. n |-> IF i = n THEN slot ELSE p.slots[i]]
  <2>1. PICK pid, ic, fs, fe, s :
          /\ p = [ page_id |-> pid, next_item_id |-> n, items_count |-> ic,
                   free_start |-> fs, free_end |-> fe, slots |-> s ]
          /\ p.page_id = pid /\ p.items_count = ic /\ p.free_start = fs
          /\ p.free_end = fe /\ p.slots = s
    BY PageFields
  <2> HIDE DEF n
  <2>2. ASSUME NEW r, r = [ p EXCEPT !.next_item_id = @ + 1, !.items_count = @ + 1,
                                     !.free_start = @ + 21, !.free_end = off,
                                     !.slots = slots ]
        PROVE  r = [ page_id |-> p.page_id, next_item_id |-> n + 1,
                     items_count |-> p.items_count + 1, free_start |-> p.free_start + 21,
                     free_end |-> off, slots |-> slots ]
    <3> HIDE DEF slots, off
    <3> QED BY <2>1, <2>2
  <2>3. q = [ p EXCEPT !.next_item_id = @ + 1, !.items_count = @ + 1,
                       !.free_start = @ + 21, !.free_end = off, !.slots = slots ]
    BY Zenon DEF AddItem, DataOffset, n
  <2> HIDE DEF slots, q
  <2> QED BY <2>2, <2>3, Zenon DEF slots
<1>3. slot \in Slot(D)
  BY <1>1 DEF Slot
<1>4. q.slots = [i \in 0 .. n |-> IF i = n THEN slot ELSE p.slots[i]]
  BY <1>2
<1>5. \A j \in 0 .. n : j # n => p.slots[j] \in Slot(D)
  BY <1>1 DEF PageType
<1> HIDE DEF slot, q
<1>6. /\ q.slots \in [0 .. n -> Slot(D)]
      /\ q.slots[n] = slot
      /\ \A j \in 0 .. n - 1 : q.slots[j] = p.slots[j]
  BY <1>1, <1>3, <1>4, <1>5
<1>7. /\ q.page_id = p.page_id /\ q.next_item_id = n + 1
      /\ q.items_count = p.items_count + 1
      /\ q.free_start = p.free_start + 21 /\ q.free_end = off
  BY <1>2
<1>8. q \in [ page_id : Nat, next_item_id : Nat, items_count : Nat,
              free_start : Nat, free_end : Nat, slots : {q.slots} ]
  BY <1>1, <1>2, <1>4
<1>9. q.next_item_id - 1 = n
  BY <1>1, <1>7
<1>10. PageType(q, D)
  BY <1>6, <1>8, <1>9 DEF PageType
<1>11. AddEffect(p, q, d, size, cont)
  BY <1>1, <1>6, <1>7 DEF slot, AddEffect
<1> QED BY <1>10, <1>11 DEF q

(***************************************************************************)
(* A delete.  The last slot goes away with its metadata and its data; any  *)
(* other one stays, marked.                                                *)
(***************************************************************************)
Fields(q) == [ page_id : Nat, next_item_id : Int, items_count : Int,
               free_start : Int, free_end : Int, slots : {q.slots} ]

DeleteEffect(p, q, i, D) ==
  /\ q.page_id = p.page_id
  /\ q.items_count = p.items_count - 1
  /\ IF i = p.next_item_id - 1
       THEN /\ q.next_item_id = p.next_item_id - 1
            /\ q.free_start = p.free_start - 21
            /\ q.free_end = p.free_end + p.slots[i].size
       ELSE /\ q.next_item_id = p.next_item_id
            /\ q.free_start = p.free_start
            /\ q.free_end = p.free_end
  /\ q \in Fields(q)
  /\ q.slots \in [0 .. q.next_item_id - 1 -> Slot(D)]
  /\ \A j \in 0 .. q.next_item_id - 1 :
       q.slots[j] = IF j = i THEN [p.slots[j] EXCEPT !.is_deleted = TRUE]
                             ELSE p.slots[j]

\* A delete has that effect.
LEMMA DeleteFields ==
  ASSUME NEW D, NEW p, PageType(p, D), NEW i \in 0 .. p.next_item_id - 1
  PROVE  DeleteEffect(p, DeleteItem(p, i), i, D)
PROOF
<1> DEFINE n == p.next_item_id
           marked == [p.slots EXCEPT ![i].is_deleted = TRUE]
           m == MarkDeleted(p, i)
           q == DeleteItem(p, i)
<1>1. n \in Nat \ {0} /\ i \in Nat /\ p.slots \in [0 .. n - 1 -> Slot(D)]
  BY DEF PageType
<1>2. /\ p.page_id \in Nat /\ p.items_count \in Nat
      /\ p.free_start \in Nat /\ p.free_end \in Nat
  BY DEF PageType
<1>3. m = [ page_id |-> p.page_id, next_item_id |-> n, items_count |-> p.items_count - 1,
            free_start |-> p.free_start, free_end |-> p.free_end, slots |-> marked ]
  <2>1. PICK pid, ic, fs, fe, s :
          /\ p = [ page_id |-> pid, next_item_id |-> n, items_count |-> ic,
                   free_start |-> fs, free_end |-> fe, slots |-> s ]
          /\ p.page_id = pid /\ p.items_count = ic /\ p.free_start = fs
          /\ p.free_end = fe /\ p.slots = s
    BY PageFields
  <2> HIDE DEF n
  <2>2. ASSUME NEW r, r = [ p EXCEPT !.items_count = @ - 1, !.slots = marked ]
        PROVE  r = [ page_id |-> pid, next_item_id |-> n, items_count |-> ic - 1,
                     free_start |-> fs, free_end |-> fe, slots |-> marked ]
    <3> HIDE DEF marked
    <3> QED BY <2>1, <2>2
  <2> QED BY <2>1, <2>2, Zenon DEF MarkDeleted
<1>4. /\ marked \in [0 .. n - 1 -> Slot(D)]
      /\ \A j \in 0 .. n - 1 :
           marked[j] = IF j = i THEN [p.slots[j] EXCEPT !.is_deleted = TRUE]
                                ELSE p.slots[j]
  BY <1>1 DEF Slot
<1>5. marked[n - 1].size = p.slots[n - 1].size /\ p.slots[i].size \in Nat
  BY <1>1, <1>4 DEF Slot
<1>6. CASE i # n - 1
  <2>1. q = m
    BY <1>6 DEF DeleteItem
  <2> HIDE DEF m, marked, q
  <2>2. /\ q.page_id = p.page_id /\ q.next_item_id = n
        /\ q.items_count = p.items_count - 1
        /\ q.free_start = p.free_start /\ q.free_end = p.free_end
        /\ q.slots = marked
    BY <1>3, <2>1
  <2>3. q \in Fields(q)
    BY <1>1, <1>2, <1>3, <2>1 DEF Fields
  <2>4. q.next_item_id - 1 = n - 1
    BY <2>2
  <2> QED BY <1>4, <1>6, <2>2, <2>3, <2>4 DEF DeleteEffect, q
<1>7. CASE i = n - 1
  <2> DEFINE left == [j \in 0 .. n - 1 - 1 |-> marked[j]]
  <2>1. q = DropLastSlot(m)
    BY <1>7 DEF DeleteItem
  <2>2. q = [ page_id |-> p.page_id, next_item_id |-> n - 1,
              items_count |-> p.items_count - 1,
              free_start |-> p.free_start - 21,
              free_end |-> p.free_end + p.slots[i].size, slots |-> left ]
    <3>1. m.next_item_id = n /\ m.slots = marked
      <4> HIDE DEF m, marked
      <4> QED BY <1>3
    <3>2. DropLastSlot(m) =
            [ m EXCEPT !.next_item_id = n - 1, !.free_start = @ - 21,
                       !.free_end = @ + p.slots[i].size, !.slots = left ]
      <4> HIDE DEF m, marked, left
      <4>1. [j \in 0 .. n - 1 - 1 |-> m.slots[j]] = left
        BY <3>1 DEF left
      <4>2. m.slots[n - 1].size = p.slots[i].size
        BY <1>5, <1>7, <3>1
      <4> QED BY <3>1, <4>1, <4>2 DEF DropLastSlot
    <3> HIDE DEF m, marked, left, q
    <3> QED BY <1>3, <2>1, <3>2
  <2>3. q.slots = left
    <3> HIDE DEF left, q
    <3> QED BY <2>2
  <2> HIDE DEF m, marked, q
  <2>4. \A j \in 0 .. n - 1 - 1 : j \in 0 .. n - 1 /\ q.slots[j] = marked[j]
    BY <1>1, <2>3
  <2>5. q.slots \in [0 .. n - 1 - 1 -> Slot(D)]
    BY <1>4, <2>3, <2>4
  <2>6. /\ q.page_id = p.page_id /\ q.next_item_id = n - 1
        /\ q.items_count = p.items_count - 1
        /\ q.free_start = p.free_start - 21
        /\ q.free_end = p.free_end + p.slots[i].size
    BY <2>2
  <2>7. q \in Fields(q)
    <3>1. /\ p.page_id \in Nat /\ n - 1 \in Int /\ p.items_count - 1 \in Int
          /\ p.free_start - 21 \in Int /\ p.free_end + p.slots[i].size \in Int
      BY <1>1, <1>2, <1>5
    <3> HIDE DEF left, n
    <3>2. q \in [ page_id : Nat, next_item_id : Int, items_count : Int,
                  free_start : Int, free_end : Int, slots : {left} ]
      BY <2>2, <3>1
    <3> QED BY <2>3, <3>2 DEF Fields
  <2> QED BY <1>4, <1>7, <2>4, <2>5, <2>6, <2>7 DEF DeleteEffect, q
<1> QED BY <1>6, <1>7

\* page_delete_item changes is_deleted in the metadata of the item, and no more: its
\* continuation can still be read there.
LEMMA ContinuationStays ==
  ASSUME NEW D, NEW p, WellFormed(p, D), NEW i, HasItem(p, i)
  PROVE  ContinuationLeft(p, i) = Continuation(p, i)
PROOF
<1> DEFINE marked == [p.slots EXCEPT ![i].is_deleted = TRUE]
<1>1. p.slots \in [0 .. p.next_item_id - 1 -> Slot(D)] /\ i \in 0 .. p.next_item_id - 1
  BY DEF WellFormed, PageType, HasItem
<1>2. MarkDeleted(p, i).slots = marked
  <2>1. PICK pid, ni, ic, fs, fe, s :
          p = [ page_id |-> pid, next_item_id |-> ni, items_count |-> ic,
                free_start |-> fs, free_end |-> fe, slots |-> s ]
    BY PageFields, <1>1 DEF WellFormed
  <2>2. ASSUME NEW r, r = [ p EXCEPT !.items_count = @ - 1, !.slots = marked ]
        PROVE  r.slots = marked
    <3> HIDE DEF marked
    <3> QED BY <2>1, <2>2
  <2> QED BY <2>2, Zenon DEF MarkDeleted
<1>3. marked[i].continues_on_page = p.slots[i].continues_on_page
  BY <1>1 DEF Slot
<1> QED BY <1>2, <1>3 DEF ContinuationLeft, Continuation

(***************************************************************************)
(* The live slots of a page are finitely many, and adds and deletes change *)
(* items_count as they change their number.                                *)
(***************************************************************************)
LEMMA LiveSlotsFinite ==
  ASSUME NEW D, NEW p, PageType(p, D)
  PROVE  /\ IsFiniteSet(LiveSlots(p))
         /\ Cardinality(LiveSlots(p)) \in Nat
         /\ \A i \in LiveSlots(p) : Cardinality(LiveSlots(p)) > 0
PROOF
<1>1. IsFiniteSet(0 .. p.next_item_id - 1)
  <2>1. 0 \in Int /\ p.next_item_id - 1 \in Int
    BY DEF PageType
  <2> QED BY <2>1, FS_Interval, Zenon
<1>2. IsFiniteSet(LiveSlots(p))
  BY <1>1, FS_Subset DEF LiveSlots
<1>3. Cardinality(LiveSlots(p)) \in Nat
  BY <1>2, FS_CardinalityType
<1>4. ASSUME NEW i \in LiveSlots(p) PROVE Cardinality(LiveSlots(p)) > 0
  BY <1>2, <1>3, FS_EmptySet
<1> QED BY <1>2, <1>3, <1>4

\* An add raises the number of live slots by one.
LEMMA AddCount ==
  ASSUME NEW D, NEW p, NEW q, PageType(p, D), CountsLive(p), NEW d \in D,
         NEW size, NEW cont, AddEffect(p, q, d, size, cont)
  PROVE  CountsLive(q)
PROOF
<1> DEFINE n == p.next_item_id
<1>1. n \in Nat
  BY DEF PageType
<1>2. /\ q.next_item_id = n + 1
      /\ q.items_count = p.items_count + 1
      /\ q.slots[n].is_deleted = FALSE
      /\ \A j \in 0 .. n - 1 : q.slots[j] = p.slots[j]
  BY DEF AddEffect
<1>3. 0 .. q.next_item_id - 1 = (0 .. n - 1) \cup {n}
  BY <1>1, <1>2
<1>4. LiveSlots(q) = LiveSlots(p) \cup {n} /\ n \notin LiveSlots(p)
  BY <1>1, <1>2, <1>3 DEF LiveSlots
<1>5. Cardinality(LiveSlots(q)) = Cardinality(LiveSlots(p)) + 1
  BY <1>4, LiveSlotsFinite, FS_AddElement
<1> QED BY <1>2, <1>5 DEF CountsLive

\* A delete of a live slot lowers it by one.
LEMMA DeleteCount ==
  ASSUME NEW D, NEW p, NEW q, PageType(p, D), CountsLive(p), NEW i, HasItem(p, i),
         DeleteEffect(p, q, i, D)
  PROVE  p.items_count > 0 /\ CountsLive(q)
PROOF
<1> DEFINE n == p.next_item_id
           m == q.next_item_id
<1>1. n \in Nat \ {0} /\ i \in LiveSlots(p) /\ i \in 0 .. n - 1
  BY DEF PageType, HasItem, LiveSlots
<1>2. p.items_count > 0
  BY <1>1, LiveSlotsFinite DEF CountsLive
<1>3. /\ q.items_count = p.items_count - 1
      /\ m = n \/ (m = n - 1 /\ i = n - 1)
      /\ \A j \in 0 .. m - 1 :
           q.slots[j] = IF j = i THEN [p.slots[j] EXCEPT !.is_deleted = TRUE]
                                 ELSE p.slots[j]
  BY DEF DeleteEffect
<1>4. \A j \in 0 .. m - 1 : j \in 0 .. n - 1 /\ p.slots[j] \in Slot(D)
  BY <1>1, <1>3 DEF PageType
<1>5. \A j \in 0 .. m - 1 :
        q.slots[j].is_deleted = (j = i \/ p.slots[j].is_deleted)
  BY <1>3, <1>4 DEF Slot
<1>6. \A j \in 0 .. n - 1 : j # i => j \in 0 .. m - 1
  BY <1>1, <1>3
<1>7. LiveSlots(q) = LiveSlots(p) \ {i}
  BY <1>4, <1>5, <1>6 DEF LiveSlots
<1>8. Cardinality(LiveSlots(q)) = Cardinality(LiveSlots(p)) - 1
  BY <1>1, <1>7, LiveSlotsFinite, FS_RemoveElement
<1> QED BY <1>2, <1>3, <1>8 DEF CountsLive

(***************************************************************************)
(* Adding an item that fits keeps the page well formed.                    *)
(***************************************************************************)
LEMMA AddWellFormed ==
  ASSUME NEW D, NEW p, WellFormed(p, D), NEW d \in D, NEW size \in Nat \ {0},
         NEW cont \in Nat \cup {-1}, CanFitPayload(p, size)
  PROVE  /\ WellFormed(AddItem(p, d, size, cont), D)
         /\ AddEffect(p, AddItem(p, d, size, cont), d, size, cont)
PROOF
<1> DEFINE n == p.next_item_id
           q == AddItem(p, d, size, cont)
<1>1. PageType(p, D) /\ Layout(p) /\ CountsLive(p)
  BY DEF WellFormed
<1>2. PageType(q, D) /\ AddEffect(p, q, d, size, cont)
  BY <1>1, AddFields
<1>3. /\ n \in Nat /\ p.free_start \in Nat /\ p.free_end \in Nat
      /\ p.free_end - size \in Nat
      /\ \A j \in 0 .. n - 1 : p.slots[j].data_offset \in Nat /\ p.slots[j].size \in Nat
  BY <1>1, <1>2 DEF PageType, Slot, AddEffect
<1> HIDE DEF q
<1>4. /\ q.next_item_id = n + 1 /\ q.free_start = p.free_start + 21
      /\ q.free_end = p.free_end - size
      /\ q.free_start <= q.free_end
      /\ q.slots[n].data_offset = p.free_end - size
      /\ q.slots[n].size = size
      /\ \A j \in 0 .. n - 1 : q.slots[j] = p.slots[j]
  BY <1>2 DEF AddEffect
<1>5. MetadataBelowFreeSpace(q)
  BY <1>1, <1>3, <1>4 DEF Layout, MetadataBelowFreeSpace, MetadataOffset
<1>6. /\ p.free_end <= PageSize /\ (n = 0 => p.free_end = PageSize)
      /\ (n # 0 => p.free_end = p.slots[n - 1].data_offset)
  BY <1>1, <1>3 DEF Layout, DataAboveFreeSpace, RegionsOrdered
<1>7. RegionsAdjacent(q)
  <2> SUFFICES ASSUME NEW j \in 0 .. n
               PROVE  q.slots[j].data_offset + q.slots[j].size =
                        IF j = 0 THEN PageSize ELSE q.slots[j - 1].data_offset
    BY <1>3, <1>4 DEF RegionsAdjacent
  <2>1. CASE j = n
    BY <1>3, <1>4, <1>6, <2>1
  <2>2. CASE j # n
    BY <1>1, <1>3, <1>4, <2>2 DEF Layout, RegionsAdjacent
  <2> QED BY <2>1, <2>2
<1>8. RegionsOrdered(q)
  <2> SUFFICES ASSUME NEW j \in 0 .. n
               PROVE  /\ q.slots[j].data_offset >= p.free_end - size
                      /\ q.slots[j].data_offset + q.slots[j].size <= PageSize
                      /\ \A k \in 0 .. j - 1 :
                           q.slots[j].data_offset + q.slots[j].size <= q.slots[k].data_offset
    BY <1>3, <1>4 DEF RegionsOrdered
  <2>1. CASE j = n
    <3>1. \A k \in 0 .. n - 1 : p.slots[k].data_offset >= p.free_end
      BY <1>1 DEF Layout, RegionsOrdered
    <3> QED BY <1>3, <1>4, <1>6, <2>1, <3>1
  <2>2. CASE j # n
    <3>1. j \in 0 .. n - 1 /\ \A k \in 0 .. j - 1 : k \in 0 .. n - 1
      BY <1>3, <2>2
    <3>2. /\ p.slots[j].data_offset >= p.free_end
          /\ p.slots[j].data_offset + p.slots[j].size <= PageSize
          /\ \A k \in 0 .. j - 1 :
               p.slots[j].data_offset + p.slots[j].size <= p.slots[k].data_offset
      BY <1>1, <3>1 DEF Layout, RegionsOrdered
    <3> QED BY <1>3, <1>4, <3>1, <3>2
  <2> QED BY <2>1, <2>2
<1>9. DataAboveFreeSpace(q)
  BY <1>3, <1>4 DEF DataAboveFreeSpace
<1>10. CountsLive(q)
  BY <1>1, <1>2, AddCount
<1>11. Layout(q)
  BY <1>4, <1>5, <1>7, <1>8, <1>9 DEF Layout
<1> QED BY <1>2, <1>10, <1>11 DEF WellFormed, q

(***************************************************************************)
(* Deleting a live item keeps the page well formed; the assertions of      *)
(* page_delete_item (page.c:134) hold.                                     *)
(***************************************************************************)
LEMMA DeleteWellFormed ==
  ASSUME NEW D, NEW p, WellFormed(p, D), NEW i, HasItem(p, i)
  PROVE  /\ p.items_count > 0
         /\ WellFormed(DeleteItem(p, i), D)
         /\ DeleteEffect(p, DeleteItem(p, i), i, D)
PROOF
<1> DEFINE n == p.next_item_id
           q == DeleteItem(p, i)
           m == q.next_item_id
<1>1. PageType(p, D) /\ Layout(p) /\ CountsLive(p) /\ i \in 0 .. n - 1
  BY DEF WellFormed, HasItem
<1>2. DeleteEffect(p, q, i, D)
  BY <1>1, DeleteFields
<1> HIDE DEF q
<1>3. p.items_count > 0 /\ CountsLive(q)
  BY <1>1, <1>2, DeleteCount
<1>4. /\ n \in Nat \ {0} /\ i \in Nat /\ i <= n - 1
      /\ p.free_start \in Nat /\ p.free_end \in Nat
      /\ p.items_count - 1 \in Nat
      /\ \A j \in 0 .. n - 1 : p.slots[j].data_offset \in Nat /\ p.slots[j].size \in Nat
  BY <1>1, <1>3 DEF PageType, Slot
<1>5. /\ m \in Nat /\ m <= n
      /\ \A j \in 0 .. m - 1 :
           /\ j \in 0 .. n - 1
           /\ q.slots[j].data_offset = p.slots[j].data_offset
           /\ q.slots[j].size = p.slots[j].size
  <2>1. m \in Nat /\ m <= n
    BY <1>4, <1>2 DEF DeleteEffect
  <2>2. ASSUME NEW j \in 0 .. m - 1
        PROVE  /\ j \in 0 .. n - 1
               /\ q.slots[j].data_offset = p.slots[j].data_offset
               /\ q.slots[j].size = p.slots[j].size
    <3>1. j \in 0 .. n - 1
      BY <1>4, <2>1
    <3>2. p.slots[j] \in Slot(D)
      BY <1>1, <3>1 DEF PageType
    <3>3. q.slots[j] = IF j = i THEN [p.slots[j] EXCEPT !.is_deleted = TRUE]
                           ELSE p.slots[j]
      BY <1>2 DEF DeleteEffect
    <3> QED BY <3>1, <3>2, <3>3 DEF Slot
  <2> QED BY <2>1, <2>2
<1>6. /\ p.free_start = 28 + 21 * n
      /\ p.free_start <= p.free_end
      /\ p.free_end = p.slots[n - 1].data_offset
      /\ p.slots[n - 1].data_offset + p.slots[n - 1].size =
           IF n = 1 THEN PageSize ELSE p.slots[n - 2].data_offset
  <2>1. n - 1 \in 0 .. n - 1 /\ n - 1 - 1 = n - 2
    BY <1>4
  <2>2. p.slots[n - 1].data_offset + p.slots[n - 1].size =
          IF n - 1 = 0 THEN PageSize ELSE p.slots[n - 1 - 1].data_offset
    BY <1>1, <2>1 DEF Layout, RegionsAdjacent
  <2> QED BY <1>1, <1>4, <2>1, <2>2 DEF Layout, MetadataBelowFreeSpace,
             MetadataOffset, DataAboveFreeSpace
<1>7. \/ /\ m = n /\ q.free_start = p.free_start /\ q.free_end = p.free_end
      \/ /\ m = n - 1 /\ q.free_start = p.free_start - 21
         /\ q.free_end = p.free_end + p.slots[n - 1].size
  BY <1>2 DEF DeleteEffect
<1>8. /\ q.free_start = 28 + 21 * m
      /\ q.free_end >= p.free_end
      /\ q.free_end \in Nat
      /\ q.free_start <= q.free_end
  BY <1>4, <1>6, <1>7
<1>9. PageType(q, D)
  <2>1. /\ m \in Nat /\ q.items_count \in Nat
        /\ q.free_start \in Nat /\ q.free_end \in Nat
    BY <1>4, <1>2, <1>5, <1>8 DEF DeleteEffect
  <2>2. q \in Fields(q)
    BY <1>2 DEF DeleteEffect
  <2>3. q \in [ page_id : Nat, next_item_id : Nat, items_count : Nat,
                free_start : Nat, free_end : Nat, slots : {q.slots} ]
    BY <2>1, <2>2 DEF Fields
  <2>4. q.slots \in [0 .. q.next_item_id - 1 -> Slot(D)]
    BY <1>2 DEF DeleteEffect
  <2> QED BY <2>3, <2>4 DEF PageType
<1>10. MetadataBelowFreeSpace(q)
  BY <1>8 DEF MetadataBelowFreeSpace, MetadataOffset
<1>11. RegionsAdjacent(q)
  <2> SUFFICES ASSUME NEW j \in 0 .. m - 1
               PROVE  q.slots[j].data_offset + q.slots[j].size =
                        IF j = 0 THEN PageSize ELSE q.slots[j - 1].data_offset
    BY DEF RegionsAdjacent
  <2>1. p.slots[j].data_offset + p.slots[j].size =
          IF j = 0 THEN PageSize ELSE p.slots[j - 1].data_offset
    BY <1>1, <1>5 DEF Layout, RegionsAdjacent
  <2>2. j # 0 => j - 1 \in 0 .. m - 1
    BY <1>5
  <2> QED BY <1>5, <2>1, <2>2
<1>12. RegionsOrdered(q)
  <2> SUFFICES ASSUME NEW j \in 0 .. m - 1
               PROVE  /\ q.slots[j].data_offset >= q.free_end
                      /\ q.slots[j].data_offset + q.slots[j].size <= PageSize
                      /\ \A k \in 0 .. j - 1 :
                           q.slots[j].data_offset + q.slots[j].size
                             <= q.slots[k].data_offset
    BY DEF RegionsOrdered
  <2>1. /\ p.slots[j].data_offset >= p.free_end
        /\ p.slots[j].data_offset + p.slots[j].size <= PageSize
        /\ \A k \in 0 .. j - 1 :
             p.slots[j].data_offset + p.slots[j].size <= p.slots[k].data_offset
    BY <1>1, <1>5 DEF Layout, RegionsOrdered
  <2>2. \A k \in 0 .. j - 1 : k \in 0 .. m - 1
    BY <1>5
  <2>3. p.slots[j].data_offset >= q.free_end
    <3>1. CASE m = n /\ q.free_end = p.free_end
      BY <2>1, <3>1
    <3>2. CASE m = n - 1 /\ q.free_end = p.free_end + p.slots[n - 1].size
      <4>1. n - 1 \in 0 .. n - 1 /\ j \in 0 .. (n - 1) - 1
        BY <1>4, <3>2
      <4>2. p.slots[n - 1].data_offset + p.slots[n - 1].size <= p.slots[j].data_offset
        BY <1>1, <4>1 DEF Layout, RegionsOrdered
      <4> QED BY <1>4, <1>5, <1>6, <3>2, <4>2
    <3> QED BY <1>7, <3>1, <3>2
  <2> QED BY <1>5, <2>1, <2>2, <2>3
<1>13. DataAboveFreeSpace(q)
  <2>1. CASE m = n /\ q.free_end = p.free_end
    <3>1. n - 1 \in 0 .. m - 1
      BY <1>4, <2>1
    <3> QED BY <1>4, <1>5, <1>6, <2>1, <3>1 DEF DataAboveFreeSpace
  <2>2. CASE m = n - 1 /\ q.free_end = p.free_end + p.slots[n - 1].size
    <3>1. q.free_end = IF n = 1 THEN PageSize ELSE p.slots[n - 2].data_offset
      BY <1>4, <1>6, <2>2
    <3>2. n # 1 => n - 2 \in 0 .. m - 1 /\ m - 1 = n - 2
      BY <1>4, <2>2
    <3> QED BY <1>4, <1>5, <2>2, <3>1, <3>2 DEF DataAboveFreeSpace
  <2> QED BY <1>7, <2>1, <2>2
<1>14. Layout(q)
  BY <1>8, <1>10, <1>11, <1>12, <1>13 DEF Layout
<1> QED BY <1>2, <1>3, <1>9, <1>14 DEF WellFormed, q

================================================================================
