----------------------------- MODULE ItemStoreProofs -----------------------------
(***************************************************************************)
(* The heap file keeps the items it is given: theorems for every page      *)
(* size, every set of payloads and every number of pages.                  *)
(*                                                                         *)
(* An item is a chain of parts, so its proofs are inductions along a       *)
(* chain.  They are done by a part of the chain that is nearest to the end *)
(* of its payload: the parts have bytes (PartsFit), so the rest of the     *)
(* payload shrinks from each part to the next one.                         *)
(***************************************************************************)
EXTENDS WriteThroughProofs, WellFoundedInduction

USE PageSizeAssumption, SizeAssumption, BoundsAssumption DEF NullPage

--------------------------------------------------------------------------------
(***************************************************************************)
(* Chains of parts.                                                        *)
(***************************************************************************)
\* A set of natural numbers has a least element.
LEMMA LeastNumber ==
  ASSUME NEW T \in SUBSET Nat, T # {}
  PROVE  \E n \in T : \A m \in T : n <= m
PROOF
<1>1. IsWellFoundedOn(OpToRel(<, Nat), Nat)
  BY NatLessThanWellFounded
<1>2. PICK n \in T : \A m \in T : ~ (<<m, n>> \in OpToRel(<, Nat))
  BY <1>1, WFMin
<1>3. \A m \in T : ~ (m < n)
  BY <1>2 DEF OpToRel
<1> QED BY <1>3

\* The next part is where the part at a says.
Joins(pages, a) ==
  /\ NextPart(pages, a) \in Slots(pages)
  /\ Continues(Part(pages, a), Part(pages, NextPart(pages, a)))

\* What is left of the payload from the part at a on.
Rest(pages, a) == Size[Part(pages, a).data.item] - Part(pages, a).data.from

\* Every part has bytes, and those of its payload.
PartsHaveBytes(pages) ==
  \A a \in Slots(pages) :
    /\ a.page \in Nat
    /\ Part(pages, a).data \in PartData /\ Part(pages, a).size \in Nat \ {0}
    /\ Part(pages, a).data.from + Part(pages, a).size <= Size[Part(pages, a).data.item]

\* Whole is what its definition by recursion says: an item is whole from a
\* part on if that part ends it or joins one it is whole from.
LEMMA WholeIsFixpoint ==
  ASSUME NEW pages
  PROVE  /\ Whole(pages) \subseteq Slots(pages)
         /\ \A a \in Slots(pages) :
              a \in Whole(pages) <=>
                \/ EndsItem(Part(pages, a))
                \/ Joins(pages, a) /\ NextPart(pages, a) \in Whole(pages)
PROOF
<1> DEFINE live == Slots(pages)
           Ends(a) == EndsItem(Part(pages, a))
           Closed(S) == \A b \in S : \/ Ends(b)
                                     \/ Joins(pages, b) /\ NextPart(pages, b) \in S
           W == {a \in live : \E S \in SUBSET live : a \in S /\ Closed(S)}
           step(f) == [a \in live |-> \/ Ends(a)
                                      \/ Joins(pages, a) /\ f[NextPart(pages, a)]]
           g == [a \in live |-> a \in W]
           whole == CHOOSE f : f = step(f)
<1>1. \A a \in live : a \in W <=> \/ Ends(a)
                                  \/ Joins(pages, a) /\ NextPart(pages, a) \in W
  <2>1. ASSUME NEW a \in W
        PROVE  \/ Ends(a)
               \/ Joins(pages, a) /\ NextPart(pages, a) \in W
    <3>1. PICK S \in SUBSET live : a \in S /\ Closed(S)
      OBVIOUS
    <3>2. CASE Ends(a)
      BY <3>2
    <3>3. CASE Joins(pages, a) /\ NextPart(pages, a) \in S
      BY <3>1, <3>3, Zenon
    <3> QED BY <3>1, <3>2, <3>3, Zenon
  <2>2. ASSUME NEW a \in live, Ends(a)
        PROVE  a \in W
    <3>1. {a} \in SUBSET live /\ a \in {a} /\ Closed({a})
      BY <2>2
    <3> QED BY <3>1, Zenon
  <2>3. ASSUME NEW a \in live, Joins(pages, a), NextPart(pages, a) \in W
        PROVE  a \in W
    <3>1. PICK S \in SUBSET live : NextPart(pages, a) \in S /\ Closed(S)
      BY <2>3
    <3>2. S \cup {a} \in SUBSET live /\ a \in S \cup {a}
      OBVIOUS
    <3>3. Closed(S \cup {a})
      BY <2>3, <3>1
    <3> QED BY <3>2, <3>3, Zenon
  <2> QED BY <2>1, <2>2, <2>3, Zenon
<1> HIDE DEF W
<1>2. g = step(g)
  <2>1. \A a \in live : Joins(pages, a) => g[NextPart(pages, a)] = (NextPart(pages, a) \in W)
    BY Zenon DEF Joins
  <2>2. ASSUME NEW a \in live
        PROVE  (a \in W) = (Ends(a) \/ (Joins(pages, a) /\ g[NextPart(pages, a)]))
    <3> DEFINE rest == Joins(pages, a) /\ g[NextPart(pages, a)]
               ends == Ends(a)
    <3>1. rest <=> Joins(pages, a) /\ NextPart(pages, a) \in W
      BY <2>1, Zenon
    <3>2. ends \in BOOLEAN
      BY DEF EndsItem
    <3>3. rest \in BOOLEAN
      OBVIOUS
    <3>4. (a \in W) <=> ends \/ rest
      BY <1>1, <3>1
    <3> HIDE DEF rest, ends
    <3>5. (a \in W) = (ends \/ rest)
      BY <3>2, <3>3, <3>4
    <3> QED BY <3>5, Zenon DEF rest, ends
  <2> QED BY <2>2, Zenon
<1>3. whole = step(whole)
  BY <1>2, Zenon
<1>4. Whole(pages) = {a \in live : whole[a]}
  BY Zenon DEF Whole, Joins
<1> HIDE DEF whole
<1>5. \A a \in live : whole[a] <=> \/ Ends(a)
                                   \/ Joins(pages, a) /\ whole[NextPart(pages, a)]
  BY <1>3, Zenon
<1>6. \A a \in live : Joins(pages, a) => NextPart(pages, a) \in live
  BY DEF Joins
<1>7. Whole(pages) \subseteq live /\ \A a \in live : a \in Whole(pages) <=> whole[a]
  BY <1>4, Zenon
<1> QED BY <1>5, <1>6, <1>7, Zenon

\* A set of parts has one that joins no other part of the set.
LEMMA NearestTheEnd ==
  ASSUME NEW pages, PartsHaveBytes(pages), NEW T \in SUBSET Slots(pages), T # {}
  PROVE  \E a \in T : ~ (Joins(pages, a) /\ NextPart(pages, a) \in T)
PROOF
<1> DEFINE R == {Rest(pages, b) : b \in T}
<1>1. \A b \in T : Rest(pages, b) \in Nat
  BY DEF PartsHaveBytes, PartData, Rest
<1>2. PICK n \in R : \A m \in R : n <= m
  <2>1. R \in SUBSET Nat /\ R # {}
    BY <1>1
  <2> HIDE DEF R
  <2> QED BY <2>1, LeastNumber
<1>3. PICK a \in T : n = Rest(pages, a)
  OBVIOUS
<1>4. ASSUME Joins(pages, a), NextPart(pages, a) \in T
      PROVE  FALSE
  <2> DEFINE b == NextPart(pages, a)
  <2>1. Rest(pages, a) <= Rest(pages, b)
    BY <1>2, <1>3, <1>4
  <2>2. /\ Part(pages, b).data.item = Part(pages, a).data.item
        /\ Part(pages, b).data.from = Part(pages, a).data.from + Part(pages, a).size
    BY <1>4 DEF Joins, Continues
  <2>3. /\ Part(pages, a).data.from \in Nat /\ Part(pages, a).size \in Nat \ {0}
        /\ Size[Part(pages, a).data.item] \in Nat
    BY DEF PartsHaveBytes, PartData
  <2> HIDE DEF b
  <2> QED BY <2>1, <2>2, <2>3 DEF Rest
<1> QED BY <1>4

\* Parts that each end their item or join one of them are parts of whole items.
LEMMA ChainIsWhole ==
  ASSUME NEW pages, PartsHaveBytes(pages), NEW S \in SUBSET Slots(pages),
         \A a \in S : \/ EndsItem(Part(pages, a))
                      \/ Joins(pages, a) /\ NextPart(pages, a) \in S \cup Whole(pages)
  PROVE  S \subseteq Whole(pages)
PROOF
<1>1. SUFFICES ASSUME S \ Whole(pages) # {} PROVE FALSE
  OBVIOUS
<1>2. PICK a \in S \ Whole(pages) :
        ~ (Joins(pages, a) /\ NextPart(pages, a) \in S \ Whole(pages))
  BY <1>1, NearestTheEnd
<1>3. EndsItem(Part(pages, a)) \/ (Joins(pages, a) /\ NextPart(pages, a) \in Whole(pages))
  BY <1>2
<1> QED BY <1>2, <1>3, WholeIsFixpoint

\* Two files that agree on a set of parts, where both lead to parts of the set
\* only, agree on which of them belong to whole items.
LEMMA WholeAgrees ==
  ASSUME NEW p, NEW q, PartsHaveBytes(p), NEW D, D \subseteq Slots(p) \cap Slots(q),
         \A a \in D : Part(q, a) = Part(p, a),
         \A a \in D : Joins(p, a) /\ NextPart(p, a) \in Whole(p) => NextPart(p, a) \in D,
         \A a \in D : Joins(q, a) /\ NextPart(q, a) \in Whole(q) => NextPart(q, a) \in D
  PROVE  \A a \in D : a \in Whole(q) <=> a \in Whole(p)
PROOF
<1> DEFINE T == {a \in D : ~ (a \in Whole(q) <=> a \in Whole(p))}
<1>1. SUFFICES ASSUME T # {} PROVE FALSE
  OBVIOUS
<1>2. PICK a \in T : ~ (Joins(p, a) /\ NextPart(p, a) \in T)
  <2>1. T \in SUBSET Slots(p)
    OBVIOUS
  <2> HIDE DEF T
  <2> QED BY <1>1, <2>1, NearestTheEnd
<1>3. a \in D /\ Part(q, a) = Part(p, a) /\ NextPart(q, a) = NextPart(p, a)
  BY DEF NextPart
<1>4. NextPart(p, a) \in D => (Joins(q, a) <=> Joins(p, a))
  BY <1>3 DEF Joins
<1>5. /\ a \in Whole(p) <=> \/ EndsItem(Part(p, a))
                            \/ Joins(p, a) /\ NextPart(p, a) \in Whole(p)
      /\ a \in Whole(q) <=> \/ EndsItem(Part(p, a))
                            \/ Joins(q, a) /\ NextPart(p, a) \in Whole(q)
  BY <1>3, WholeIsFixpoint
<1>6. PICK c \in {p, q} : Joins(c, a) /\ NextPart(p, a) \in Whole(c)
  BY <1>5
<1>7. NextPart(p, a) \in D
  BY <1>3, <1>6
<1>8. NextPart(p, a) \in T
  BY <1>2, <1>4, <1>5, <1>7
<1> QED BY <1>2, <1>4, <1>6, <1>7, <1>8

--------------------------------------------------------------------------------
(***************************************************************************)
(* The slots of a file, and what a write does to them.                     *)
(***************************************************************************)
\* A live slot is the address of a page of the file and of a slot of the page.
LEMMA SlotsOK ==
  ASSUME NEW pages, DiskOK(pages), NEW a \in Slots(pages)
  PROVE  /\ a.page \in DOMAIN pages /\ a.page \in Nat /\ a.item \in Nat
         /\ a.item \in LiveSlots(pages[a.page])
         /\ HasItem(pages[a.page], a.item)
         /\ a = [page |-> a.page, item |-> a.item]
PROOF
<1>1. PICK p \in DOMAIN pages : \E i \in 0 .. pages[p].next_item_id - 1 : a = Address(p, i)
  BY DEF Slots
<1>2. PICK i \in 0 .. pages[p].next_item_id - 1 : a = [page |-> p, item |-> i]
  BY <1>1 DEF Address
<1>3. HasItem(pages[a.page], a.item)
  BY DEF Slots
<1>4. pages[p].next_item_id \in Nat /\ p \in Nat
  BY DEF DiskOK, PageOK, PageType
<1> QED BY <1>1, <1>2, <1>3, <1>4 DEF HasItem, LiveSlots

\* Where a page has an item, the file has a live slot.
LEMMA SlotIsThere ==
  ASSUME NEW pages, NEW p \in DOMAIN pages, NEW i, HasItem(pages[p], i)
  PROVE  Address(p, i) \in Slots(pages)
PROOF
<1>1. i \in 0 .. pages[p].next_item_id - 1
  BY DEF HasItem
<1>2. Address(p, i).page = p /\ Address(p, i).item = i
  BY DEF Address
<1>3. Address(p, i) \in UNION { {Address(q, j) : j \in 0 .. pages[q].next_item_id - 1} :
                                q \in DOMAIN pages }
  BY <1>1
<1> QED BY <1>2, <1>3 DEF Slots

\* The part in a live slot, and the address of the next one.
LEMMA PartOK ==
  ASSUME NEW pages, DiskOK(pages), NEW a \in Slots(pages)
  PROVE  /\ Part(pages, a) \in Slot(PartData)
         /\ Part(pages, a).data \in PartData /\ Part(pages, a).size \in Nat
         /\ Part(pages, a).data.item \in Items /\ Part(pages, a).data.from \in Nat
         /\ Part(pages, a).continues_on_page \in Ids
         /\ NextPart(pages, a).page = Part(pages, a).continues_on_page
         /\ NextPart(pages, a).item = 0
PROOF
<1>1. /\ a.page \in DOMAIN pages /\ HasItem(pages[a.page], a.item)
  BY SlotsOK
<1>2. Part(pages, a) \in Slot(PartData)
  BY <1>1 DEF HasItem, DiskOK, PageOK, PageType, Part
<1>3. /\ NextPart(pages, a).page = Part(pages, a).continues_on_page
      /\ NextPart(pages, a).item = 0
  BY DEF NextPart, Address
<1> QED BY <1>2, <1>3 DEF Slot, PartData, Ids

\* The next part is not at the address of a page that is not there.
LEMMA JoinsOK ==
  ASSUME NEW pages, DiskOK(pages), NEW a, Joins(pages, a)
  PROVE  /\ Part(pages, a).continues_on_page \in DOMAIN pages
         /\ Part(pages, a).continues_on_page # -1
         /\ HasItem(pages[Part(pages, a).continues_on_page], 0)
PROOF
<1> DEFINE b == NextPart(pages, a)
<1>1. b \in Slots(pages) /\ b.page = Part(pages, a).continues_on_page /\ b.item = 0
  BY DEF Joins, NextPart, Address
<1> HIDE DEF b
<1>2. b.page \in DOMAIN pages /\ b.page \in Nat /\ HasItem(pages[b.page], b.item)
  BY <1>1, SlotsOK
<1> QED BY <1>1, <1>2

\* A page is written: its slots are those it has in memory, and the slots of
\* the other pages are what they were.
LEMMA WrittenSlots ==
  ASSUME DiskOK(diskPages), RamOK(ram'), NEW id \in DOMAIN ram', WritePage(id, TRUE)
  PROVE  /\ DiskOK(diskPages')
         /\ \A a : a.page # id =>
              /\ a \in Slots(diskPages') <=> a \in Slots(diskPages)
              /\ a \in Slots(diskPages) => Part(diskPages', a) = Part(diskPages, a)
         /\ \A a \in Slots(diskPages') : a.page = id => HasItem(ram'[id], a.item)
         /\ \A i : HasItem(ram'[id], i) => Address(id, i) \in Slots(diskPages')
         /\ \A i : Part(diskPages', Address(id, i)) = ram'[id].slots[i]
PROOF
<1>1. id \in Nat
  BY DEF RamOK
<1>2. /\ DOMAIN diskPages' = DOMAIN diskPages \cup 0 .. id
      /\ \A x \in DOMAIN diskPages' :
           diskPages'[x] = IF x = id THEN ram'[id]
                           ELSE IF x \in DOMAIN diskPages THEN diskPages[x] ELSE ZeroPage
  BY <1>1 DEF WritePage, Extended
<1>3. DiskOK(diskPages') /\ id \in DOMAIN diskPages' /\ diskPages'[id] = ram'[id]
  BY WrittenOK
<1>4. ASSUME NEW a \in Slots(diskPages), a.page # id
      PROVE  a \in Slots(diskPages') /\ Part(diskPages', a) = Part(diskPages, a)
  <2>1. /\ a.page \in DOMAIN diskPages /\ HasItem(diskPages[a.page], a.item)
        /\ a = Address(a.page, a.item)
    BY SlotsOK DEF Address
  <2>2. a.page \in DOMAIN diskPages' /\ diskPages'[a.page] = diskPages[a.page]
    BY <1>2, <1>4, <2>1
  <2>3. Address(a.page, a.item) \in Slots(diskPages')
    BY <2>1, <2>2, SlotIsThere
  <2> QED BY <2>1, <2>2, <2>3 DEF Part
<1>5. ASSUME NEW a \in Slots(diskPages'), a.page # id
      PROVE  a \in Slots(diskPages)
  <2>1. /\ a.page \in DOMAIN diskPages' /\ HasItem(diskPages'[a.page], a.item)
        /\ a = Address(a.page, a.item)
    BY <1>3, SlotsOK DEF Address
  <2>2. a.page \in DOMAIN diskPages /\ diskPages'[a.page] = diskPages[a.page]
    <3>1. ~ HasItem(ZeroPage, a.item)
      BY ZeroPageOK DEF HasItem
    <3> QED BY <1>2, <1>5, <2>1, <3>1
  <2> QED BY <2>1, <2>2, SlotIsThere
<1>6. \A a \in Slots(diskPages') : a.page = id => HasItem(ram'[id], a.item)
  BY <1>3, SlotsOK
<1>7. \A i : HasItem(ram'[id], i) => Address(id, i) \in Slots(diskPages')
  BY <1>3, SlotIsThere
<1>8. \A i : Part(diskPages', Address(id, i)) = ram'[id].slots[i]
  BY <1>3 DEF Part, Address
<1> QED BY <1>3, <1>4, <1>5, <1>6, <1>7, <1>8

--------------------------------------------------------------------------------
(***************************************************************************)
(* Every slot, live or deleted, in memory or in the file, holds at least   *)
(* one byte, no byte beyond the end of its payload, and there is room for  *)
(* it among the slots before it.                                           *)
(***************************************************************************)
PartsFit(p) ==
  \A i \in 0 .. p.next_item_id - 1 :
    /\ p.slots[i].size > 0
    /\ p.slots[i].data.from + p.slots[i].size <= Size[p.slots[i].data.item]
    /\ p.slots[i].data_offset + i < PageSize

AllFit(pages) == \A id \in DOMAIN pages : PartsFit(pages[id])

PartsFitInv == AllFit(ram) /\ AllFit(diskPages)

LEMMA EmptyPagesFit ==
  /\ PartsFit(ZeroPage)
  /\ \A id : PartsFit(PageNew(id))
  /\ AllFit(NoPages)
PROOF
<1>1. \A id : PageNew(id).next_item_id = 0
  BY DEF PageNew
<1>2. DOMAIN NoPages = {}
  BY EmptyOK
<1> QED BY <1>1, <1>2, ZeroPageOK DEF PartsFit, AllFit

\* A part that is added.
LEMMA AddFits ==
  ASSUME NEW p, WellFormed(p, PartData), PartsFit(p), NEW d \in PartData,
         NEW size \in Nat \ {0}, NEW cont \in Nat \cup {-1}, CanFitPayload(p, size),
         d.from + size <= Size[d.item]
  PROVE  PartsFit(AddItem(p, d, size, cont))
PROOF
<1> DEFINE n == p.next_item_id
           q == AddItem(p, d, size, cont)
<1>1. AddEffect(p, q, d, size, cont)
  BY AddWellFormed
<1>2. /\ n \in Nat /\ p.free_end \in Nat
      /\ p.free_end = IF n = 0 THEN PageSize ELSE p.slots[n - 1].data_offset
      /\ \A i \in 0 .. n - 1 : p.slots[i] \in Slot(PartData)
  BY DEF WellFormed, Layout, DataAboveFreeSpace, PageType
<1>3. p.free_end + n <= PageSize
  <2>1. CASE n = 0
    BY <1>2, <2>1
  <2>2. CASE n # 0
    <3>1. n - 1 \in 0 .. n - 1
      BY <1>2, <2>2
    <3>2. p.slots[n - 1].data_offset + (n - 1) < PageSize /\ p.slots[n - 1].data_offset \in Nat
      BY <1>2, <3>1 DEF PartsFit, Slot
    <3> QED BY <1>2, <2>2, <3>2
  <2> QED BY <2>1, <2>2
<1> HIDE DEF q
<1>4. /\ q.next_item_id = n + 1 /\ \A j \in 0 .. n - 1 : q.slots[j] = p.slots[j]
      /\ q.slots[n].size = size /\ q.slots[n].data = d /\ q.slots[n].data_offset = p.free_end - size
  BY <1>1 DEF AddEffect
<1>5. ASSUME NEW i \in 0 .. q.next_item_id - 1
      PROVE  /\ q.slots[i].size > 0
             /\ q.slots[i].data.from + q.slots[i].size <= Size[q.slots[i].data.item]
             /\ q.slots[i].data_offset + i < PageSize
  <2>1. CASE i = n
    BY <1>2, <1>3, <1>4, <2>1
  <2>2. CASE i # n
    <3>1. i \in 0 .. n - 1
      BY <1>2, <1>4, <2>2
    <3> QED BY <1>4, <3>1 DEF PartsFit
  <2> QED BY <2>1, <2>2
<1>6. PartsFit(q)
  BY <1>5 DEF PartsFit
<1> QED BY <1>6 DEF q

\* A part that is deleted.
LEMMA DeleteFits ==
  ASSUME NEW p, WellFormed(p, PartData), PartsFit(p), NEW i, HasItem(p, i)
  PROVE  PartsFit(DeleteItem(p, i))
PROOF
<1> DEFINE n == p.next_item_id
           q == DeleteItem(p, i)
<1>1. DeleteEffect(p, q, i, PartData)
  BY DeleteWellFormed
<1>2. n \in Nat /\ \A j \in 0 .. n - 1 : p.slots[j] \in Slot(PartData)
  BY DEF WellFormed, PageType
<1> HIDE DEF q
<1>3. q.next_item_id \in {n, n - 1}
  BY <1>1 DEF DeleteEffect
<1>4. ASSUME NEW j \in 0 .. q.next_item_id - 1
      PROVE  /\ j \in 0 .. n - 1
             /\ q.slots[j].size = p.slots[j].size /\ q.slots[j].data = p.slots[j].data
             /\ q.slots[j].data_offset = p.slots[j].data_offset
  <2>1. j \in 0 .. n - 1
    BY <1>2, <1>3
  <2>2. q.slots[j] = IF j = i THEN [p.slots[j] EXCEPT !.is_deleted = TRUE] ELSE p.slots[j]
    BY <1>1 DEF DeleteEffect
  <2> QED BY <1>2, <2>1, <2>2 DEF Slot
<1>5. PartsFit(q)
  BY <1>4 DEF PartsFit
<1> QED BY <1>5 DEF q

\* A page enters the memory, or the file.
LEMMA WithFits ==
  ASSUME NEW r, AllFit(r), NEW k, NEW p, PartsFit(p)
  PROVE  AllFit(With(r, k, p))
  BY DEF With, AllFit

LEMMA WrittenFits ==
  ASSUME AllFit(diskPages), AllFit(ram'), NEW id \in DOMAIN ram', id \in Nat,
         NEW ok, WritePage(id, ok)
  PROVE  AllFit(diskPages')
PROOF
<1>1. CASE ok
  <2>1. \A x \in DOMAIN diskPages' :
           diskPages'[x] = IF x = id THEN ram'[id]
                           ELSE IF x \in DOMAIN diskPages THEN diskPages[x] ELSE ZeroPage
    BY <1>1 DEF WritePage, Extended
  <2> QED BY <2>1, EmptyPagesFit DEF AllFit
<1>2. CASE ~ok
  BY <1>2 DEF WritePage
<1> QED BY <1>1, <1>2

LEMMA LoadedFits ==
  ASSUME PartsFitInv, NEW ids, \A id \in ids : Readable(id)
  PROVE  AllFit(Loaded(ids))
PROOF
<1> DEFINE found == {Read(id) : id \in ids}
           L == Loaded(ids)
<1>1. /\ DOMAIN L = DOMAIN ram \cup {p.page_id : p \in found}
      /\ \A id \in DOMAIN L :
           L[id] = IF \E p \in found : p.page_id = id
                     THEN CHOOSE p \in found : p.page_id = id ELSE ram[id]
  BY Zenon DEF Loaded
<1>2. \A p \in found : PartsFit(p)
  BY DEF Readable, Read, PartsFitInv, AllFit
<1> HIDE DEF found, L
<1>3. ASSUME NEW x \in DOMAIN L PROVE PartsFit(L[x])
  <2>1. CASE \E p \in found : p.page_id = x
    <3>1. L[x] \in found
      BY <1>1, <2>1
    <3> QED BY <1>2, <3>1
  <2>2. CASE ~ \E p \in found : p.page_id = x
    BY <1>1, <2>2 DEF PartsFitInv, AllFit
  <2> QED BY <2>1, <2>2
<1>4. AllFit(L)
  BY <1>3 DEF AllFit
<1> QED BY <1>4 DEF L

--------------------------------------------------------------------------------
(***************************************************************************)
(* The steps that change slots of the file.                                *)
(***************************************************************************)
\* The slot the part of the put in progress goes to.
NewSlot == Address(put.cur, ram[put.cur].next_item_id)

NewData == [item |-> put.item, from |-> put.written]

\* A part is added.
LEMMA AddPartEffect ==
  ASSUME IndInv, AddPart
  PROVE  /\ pc = "part" /\ pc' = "loop" /\ Running
         /\ put.item \in Items /\ put.written \in Nat /\ Left \in Nat \ {0}
         /\ put'.item = put.item /\ put'.page = put.page
         /\ put'.written = put.written + PartSize /\ Left' = Left - PartSize
         /\ put'.cur = put.free /\ put'.free = -1 /\ put'.cont = -1
         /\ put'.result = IF put.page = put.cur THEN NewSlot ELSE put.result
         /\ put.cur \in DOMAIN ram /\ put.cur \in Nat /\ DOMAIN ram' = DOMAIN ram
         /\ \A x \in DOMAIN ram : x # put.cur => ram'[x] = ram[x]
         /\ PartSize \in Nat \ {0} /\ PartSize <= Left
         /\ CanFitPayload(ram[put.cur], PartSize) /\ WellFormed(ram[put.cur], PartData)
         /\ ram'[put.cur] = AddItem(ram[put.cur], NewData, PartSize, put.cont)
         /\ AddEffect(ram[put.cur], ram'[put.cur], NewData, PartSize, put.cont)
         /\ NewData \in PartData /\ put.cont \in Nat \cup {-1}
         /\ WritePage(put.cur, TRUE) /\ RamOK(ram') /\ DiskOK(diskPages')
         /\ UNCHANGED <<diskHeader, header, freePage, target>>
PROOF
<1> DEFINE cur == put.cur
           page == ram[put.cur]
           size == PartSize
           new == AddItem(page, NewData, size, put.cont)
<1>1. /\ pc = "part" /\ Running /\ RamOK(ram) /\ DiskOK(diskPages)
      /\ put \in PutType /\ put.item \in Items /\ put.written \in Nat /\ put.written <= Size[put.item]
      /\ cur \in DOMAIN ram /\ cur \in Nat /\ PageOK(page) /\ put.cont \in Nat \cup {-1}
      /\ Left > 0
  BY DEF AddPart, WritePart, IndInv, Types, PutInv, PutType, Running, Dead, RamOK, Ids
<1>2. /\ CanFitPayload(page, size) /\ ram' = With(ram, cur, new) /\ WritePage(cur, TRUE)
      /\ pc' = "loop" /\ UNCHANGED <<diskHeader, header, freePage, target>>
      /\ put' = [put EXCEPT !.written = put.written + size, !.cur = put.free,
                            !.free = -1, !.cont = -1,
                            !.result = IF put.page = cur THEN NewSlot ELSE put.result]
  BY Zenon DEF AddPart, WritePart, NewSlot, NewData, NullPage
<1>3. size \in Nat \ {0} /\ size <= Left
  BY <1>1, PartSizeOK
<1>4. WellFormed(page, PartData) /\ NewData \in PartData
  <2>1. NewData \in PartData
    BY <1>1 DEF PartData, NewData
  <2> HIDE DEF page, size
  <2> QED BY <1>1, <1>2, <1>3, <2>1, NotZero
<1>5. AddEffect(page, new, NewData, size, put.cont)
  <2> HIDE DEF page, size
  <2> QED BY <1>1, <1>2, <1>3, <1>4, AddWellFormed
<1>6. RamOK(ram') /\ DiskOK(diskPages')
  BY AddPartOK DEF IndInv
<1> HIDE DEF page, size, new
<1>7. /\ put'.item = put.item /\ put'.page = put.page
      /\ put'.written = put.written + size
      /\ put'.cur = put.free /\ put'.free = -1 /\ put'.cont = -1
      /\ put'.result = IF put.page = cur THEN NewSlot ELSE put.result
  BY <1>1, <1>2 DEF PutType
<1>8. Left \in Nat \ {0} /\ Left' = Left - size
  <2>1. Size[put.item] \in Nat
    BY <1>1
  <2> QED BY <1>1, <1>3, <1>7, <2>1 DEF Left
<1>9. /\ DOMAIN ram' = DOMAIN ram /\ ram'[cur] = new
      /\ \A x \in DOMAIN ram : x # cur => ram'[x] = ram[x]
  <2> HIDE DEF cur
  <2> QED BY <1>1, <1>2 DEF With
<1> QED BY <1>1, <1>2, <1>3, <1>4, <1>5, <1>6, <1>7, <1>8, <1>9 DEF page, size, new

\* Its slot is new, and the other slots of the file stay, those of its page if
\* the page in memory is the one of the file.
LEMMA AddPartSlots ==
  ASSUME IndInv, AddPart
  PROVE  /\ NewSlot \in Slots(diskPages') /\ NewSlot.page = put.cur
         /\ NewSlot.item = ram[put.cur].next_item_id
         /\ Part(diskPages', NewSlot).data = NewData
         /\ Part(diskPages', NewSlot).size = PartSize
         /\ Part(diskPages', NewSlot).continues_on_page = put.cont
         /\ \A a \in Slots(diskPages) :
              a.page # put.cur \/ ram[put.cur] = diskPages[put.cur] =>
                a \in Slots(diskPages') /\ Part(diskPages', a) = Part(diskPages, a)
         /\ put.cur \in DOMAIN diskPages /\ ram[put.cur] = diskPages[put.cur] =>
              /\ NewSlot \notin Slots(diskPages)
              /\ Slots(diskPages') = Slots(diskPages) \cup {NewSlot}
PROOF
<1> DEFINE cur == put.cur
           page == ram[cur]
           new == ram'[cur]
           n == page.next_item_id
<1>1. /\ cur \in DOMAIN ram' /\ RamOK(ram') /\ WritePage(cur, TRUE) /\ DiskOK(diskPages)
      /\ AddEffect(page, new, NewData, PartSize, put.cont)
      /\ n \in Nat
  BY AddPartEffect DEF IndInv, WellFormed, PageType
<1>2. /\ NewSlot = Address(cur, n) /\ NewSlot.page = cur /\ NewSlot.item = n
  BY DEF NewSlot, Address
<1>3. /\ \A a : a.page # cur =>
           /\ a \in Slots(diskPages') <=> a \in Slots(diskPages)
           /\ a \in Slots(diskPages) => Part(diskPages', a) = Part(diskPages, a)
      /\ \A a \in Slots(diskPages') : a.page = cur => HasItem(new, a.item)
      /\ \A i : HasItem(new, i) => Address(cur, i) \in Slots(diskPages')
      /\ \A i : Part(diskPages', Address(cur, i)) = new.slots[i]
  <2> HIDE DEF cur
  <2> QED BY <1>1, WrittenSlots
<1> HIDE DEF cur, page, new, n
<1>4. /\ new.next_item_id = n + 1 /\ \A j \in 0 .. n - 1 : new.slots[j] = page.slots[j]
      /\ new.slots[n] = [ data_offset |-> page.free_end - PartSize, size |-> PartSize,
                          is_deleted |-> FALSE, continues_on_page |-> put.cont, data |-> NewData ]
  BY <1>1 DEF AddEffect, n
<1>5. \A i : HasItem(new, i) <=> i = n \/ HasItem(page, i)
  <2>1. page.next_item_id = n
    BY DEF n
  <2> QED BY <1>1, <1>4, <2>1 DEF HasItem
<1>6. /\ NewSlot \in Slots(diskPages')
      /\ Part(diskPages', NewSlot).data = NewData
      /\ Part(diskPages', NewSlot).size = PartSize
      /\ Part(diskPages', NewSlot).continues_on_page = put.cont
  BY <1>2, <1>3, <1>4, <1>5
<1>7. ASSUME NEW a \in Slots(diskPages), a.page # cur \/ page = diskPages[cur]
      PROVE  a \in Slots(diskPages') /\ Part(diskPages', a) = Part(diskPages, a)
  <2>1. a = Address(a.page, a.item) /\ HasItem(diskPages[a.page], a.item)
    BY <1>1, SlotsOK DEF Address
  <2>2. CASE a.page # cur
    BY <1>3, <2>2
  <2>3. CASE a.page = cur /\ page = diskPages[cur]
    <3>1. HasItem(page, a.item) /\ a.item \in 0 .. n - 1
      BY <2>1, <2>3 DEF HasItem, n
    <3>2. a \in Slots(diskPages') /\ Part(diskPages', a) = new.slots[a.item]
      BY <1>3, <1>5, <2>1, <2>3, <3>1
    <3> QED BY <1>4, <2>3, <3>1, <3>2 DEF Part
  <2> QED BY <1>7, <2>2, <2>3
<1>8. ASSUME cur \in DOMAIN diskPages, page = diskPages[cur]
      PROVE  /\ NewSlot \notin Slots(diskPages)
             /\ Slots(diskPages') = Slots(diskPages) \cup {NewSlot}
  <2>1. NewSlot \notin Slots(diskPages)
    <3>1. ~ HasItem(page, n)
      BY <1>1 DEF HasItem, n
    <3> QED BY <1>1, <1>2, <1>8, <3>1, SlotsOK
  <2>2. ASSUME NEW a \in Slots(diskPages'), a # NewSlot
        PROVE  a \in Slots(diskPages)
    <3>1. a = Address(a.page, a.item)
      <4>1. DiskOK(diskPages')
        BY AddPartEffect
      <4> QED BY <4>1, SlotsOK DEF Address
    <3>2. CASE a.page # cur
      BY <1>3, <3>2
    <3>3. CASE a.page = cur
      <4>1. HasItem(page, a.item)
        BY <1>2, <1>3, <1>5, <2>2, <3>1, <3>3
      <4> QED BY <1>8, <3>1, <3>3, <4>1, SlotIsThere
    <3> QED BY <3>2, <3>3
  <2> QED BY <1>6, <1>7, <1>8, <2>1, <2>2
<1> QED BY <1>2, <1>6, <1>7, <1>8 DEF cur, page, n

\* The page the program finds is the one the file has.
FileReads(id) == id \in DOMAIN diskPages /\ Readable(id) /\ Read(id) = diskPages[id]

\* A part is deleted: its slot is gone, the others stay, and the next part is
\* the one it named.
LEMMA DeletePartSlots ==
  ASSUME IndInv, FileInv \/ FileReads(target.page), DeletePart
  PROVE  /\ pc = "delete" /\ Running /\ UNCHANGED <<diskHeader, header, freePage, put>>
         /\ target.page \in DOMAIN diskPages /\ target \in Slots(diskPages)
         /\ IF Part(diskPages, target).continues_on_page = -1
              THEN pc' = "idle" /\ target' = NoAddress
              ELSE pc' = "delete" /\ target' = NextPart(diskPages, target)
         /\ Slots(diskPages') = Slots(diskPages) \ {target}
         /\ \A a \in Slots(diskPages') : Part(diskPages', a) = Part(diskPages, a)
         /\ DiskOK(diskPages') /\ RamOK(ram')
         /\ WellFormed(Read(target.page), PartData) /\ HasItem(Read(target.page), target.item)
         /\ ram' = With(ram, target.page, DeleteItem(Read(target.page), target.item))
         /\ WritePage(target.page, TRUE) /\ target.page \in DOMAIN ram' /\ target.page \in Nat
PROOF
<1> DEFINE id == target.page
           i == target.item
           page == Read(id)
           new == DeleteItem(page, i)
           n == page.next_item_id
<1>1. /\ pc = "delete" /\ Running /\ Readable(id) /\ HasItem(page, i)
      /\ ram' = With(ram, id, new) /\ WritePage(id, TRUE)
      /\ UNCHANGED <<diskHeader, header, freePage, put>>
      /\ RamOK(ram) /\ DiskOK(diskPages) /\ MemInv /\ Types
      /\ target = Address(id, i)
  BY DEF DeletePart, DeleteSlot, IndInv, Types, Running, Dead, Address
<1>2. page = diskPages[id] /\ id \in DOMAIN diskPages /\ id \in Nat
  BY <1>1, ReadOK DEF FileInv, WriteThrough, Running, Dead, Read, Readable, FileReads
<1>3. WellFormed(page, PartData) /\ DiskOK(diskPages') /\ RamOK(ram')
  <2>1. PageOK(page)
    BY <1>1, ReadOK
  <2>2. DiskOK(diskPages') /\ RamOK(ram')
    BY DeletePartOK DEF IndInv
  <2> HIDE DEF page
  <2> QED BY <1>1, <2>1, <2>2, NotZero
<1>4. IF Continuation(page, i) = -1
        THEN pc' = "idle" /\ target' = NoAddress
        ELSE pc' = "delete" /\ target' = Address(Continuation(page, i), 0)
  <2>1. ContinuationLeft(page, i) = Continuation(page, i)
    <3> HIDE DEF page, i
    <3> QED BY <1>1, <1>3, ContinuationStays
  <2> QED BY <1>1, <2>1 DEF DeletePart, DeleteSlot, NextTarget, Address
<1>5. DeleteEffect(page, new, i, PartData) /\ n \in Nat
  <2> HIDE DEF page, i
  <2> QED BY <1>1, <1>3, DeleteWellFormed DEF WellFormed, PageType
<1>6. /\ target \in Slots(diskPages) /\ Part(diskPages, target).continues_on_page = Continuation(page, i)
      /\ NextPart(diskPages, target) = Address(Continuation(page, i), 0)
  <2>1. target \in Slots(diskPages)
    BY <1>1, <1>2, SlotIsThere
  <2> QED BY <1>2, <2>1 DEF Part, Continuation, NextPart
<1> HIDE DEF id, i, page, new, n
<1>7. id \in DOMAIN ram' /\ ram'[id] = new
  BY <1>1 DEF With
<1>8. /\ \A a : a.page # id =>
           /\ a \in Slots(diskPages') <=> a \in Slots(diskPages)
           /\ a \in Slots(diskPages) => Part(diskPages', a) = Part(diskPages, a)
      /\ \A a \in Slots(diskPages') : a.page = id => HasItem(new, a.item)
      /\ \A j : HasItem(new, j) => Address(id, j) \in Slots(diskPages')
      /\ \A j : Part(diskPages', Address(id, j)) = new.slots[j]
  BY <1>1, <1>3, <1>7, WrittenSlots
<1>9. /\ \A j : HasItem(new, j) <=> j # i /\ HasItem(page, j)
      /\ \A j : HasItem(new, j) => new.slots[j] = page.slots[j]
  <2>1. /\ i \in 0 .. n - 1 /\ new.next_item_id = IF i = n - 1 THEN n - 1 ELSE n
        /\ \A j \in 0 .. new.next_item_id - 1 :
             new.slots[j] = IF j = i THEN [page.slots[j] EXCEPT !.is_deleted = TRUE]
                                     ELSE page.slots[j]
        /\ \A j \in 0 .. n - 1 : page.slots[j] \in Slot(PartData)
    BY <1>1, <1>3, <1>5 DEF DeleteEffect, HasItem, WellFormed, PageType, n
  <2>2. \A j \in 0 .. new.next_item_id - 1 : j \in 0 .. n - 1
    BY <1>5, <2>1
  <2>3. i \in 0 .. new.next_item_id - 1 => new.slots[i].is_deleted
    BY <2>1 DEF Slot
  <2>4. \A j \in 0 .. n - 1 : j # i => j \in 0 .. new.next_item_id - 1
    BY <1>5, <2>1
  <2> QED BY <2>1, <2>2, <2>3, <2>4 DEF HasItem, n
<1>10. ASSUME NEW a \in Slots(diskPages), a # target
       PROVE  a \in Slots(diskPages')
  <2>1. a = Address(a.page, a.item) /\ HasItem(diskPages[a.page], a.item)
    BY <1>1, SlotsOK DEF Address
  <2> QED BY <1>1, <1>2, <1>8, <1>9, <1>10, <2>1
<1>11. ASSUME NEW a \in Slots(diskPages')
       PROVE  /\ a \in Slots(diskPages) /\ a # target
              /\ Part(diskPages', a) = Part(diskPages, a)
  <2>1. a = Address(a.page, a.item)
    BY <1>3, SlotsOK DEF Address
  <2>2. target.page = id /\ target.item = i
    BY DEF id, i
  <2>3. CASE a.page # id
    BY <1>8, <2>2, <2>3
  <2>4. CASE a.page = id
    <3>1. HasItem(new, a.item) /\ HasItem(page, a.item) /\ a.item # i
      BY <1>8, <1>9, <2>4
    <3>2. Part(diskPages', a) = page.slots[a.item]
      BY <1>8, <1>9, <2>1, <2>4, <3>1
    <3>3. a \in Slots(diskPages)
      BY <1>2, <2>1, <2>4, <3>1, SlotIsThere
    <3> QED BY <1>2, <2>2, <2>4, <3>1, <3>2, <3>3 DEF Part
  <2> QED BY <2>3, <2>4
<1>12. Slots(diskPages') = Slots(diskPages) \ {target}
  BY <1>10, <1>11
<1>13. id = target.page /\ i = target.item /\ page = Read(target.page)
  BY DEF id, i, page
<1> QED BY <1>1, <1>2, <1>3, <1>4, <1>6, <1>7, <1>11, <1>12, <1>13 DEF new

--------------------------------------------------------------------------------
(***************************************************************************)
(* Every step keeps the sizes of the parts.                                *)
(***************************************************************************)
\* So the parts of the file have bytes.
LEMMA FitHasBytes ==
  ASSUME NEW pages, DiskOK(pages), AllFit(pages)
  PROVE  PartsHaveBytes(pages)
PROOF
<1>1. ASSUME NEW a \in Slots(pages)
      PROVE  /\ a.page \in Nat
             /\ Part(pages, a).data \in PartData /\ Part(pages, a).size \in Nat \ {0}
             /\ Part(pages, a).data.from + Part(pages, a).size <= Size[Part(pages, a).data.item]
  <2>1. a.page \in DOMAIN pages /\ a.page \in Nat /\ HasItem(pages[a.page], a.item)
    BY SlotsOK
  <2>2. Part(pages, a).size > 0
        /\ Part(pages, a).data.from + Part(pages, a).size <= Size[Part(pages, a).data.item]
    BY <2>1 DEF AllFit, PartsFit, HasItem, Part
  <2> QED BY <2>1, <2>2, PartOK
<1> QED BY <1>1 DEF PartsHaveBytes

\* A part is no larger than what is left of the payload.
LEMMA AddPartFits ==
  ASSUME IndInv, PartsFitInv, AddPart
  PROVE  PartsFitInv'
PROOF
<1>1. PartsFit(ram'[put.cur])
  <2> DEFINE page == ram[put.cur]
             size == PartSize
             cont == put.cont
  <2>1. /\ WellFormed(page, PartData) /\ PartsFit(page) /\ size \in Nat \ {0}
        /\ cont \in Nat \cup {-1} /\ CanFitPayload(page, size)
        /\ ram'[put.cur] = AddItem(page, NewData, size, cont)
        /\ NewData \in PartData
    BY AddPartEffect DEF PartsFitInv, AllFit
  <2>2. NewData.from + size <= Size[NewData.item]
    <3>1. /\ put.written \in Nat /\ size <= Left /\ Size[put.item] \in Nat
      BY AddPartEffect
    <3>2. NewData.from = put.written /\ NewData.item = put.item
      BY DEF NewData
    <3> HIDE DEF size
    <3> QED BY <2>1, <3>1, <3>2 DEF Left
  <2> HIDE DEF page, size, cont
  <2> QED BY <2>1, <2>2, AddFits
<1>2. AllFit(ram')
  BY <1>1, AddPartEffect DEF PartsFitInv, AllFit
<1>3. AllFit(diskPages')
  BY <1>2, AddPartEffect, WrittenFits DEF PartsFitInv
<1> QED BY <1>2, <1>3 DEF PartsFitInv

LEMMA DeletePartFits ==
  ASSUME IndInv, PartsFitInv, DeletePart
  PROVE  PartsFitInv'
PROOF
<1> DEFINE id == target.page
           i == target.item
           page == Read(id)
           new == DeleteItem(page, i)
<1>1. /\ Running /\ Readable(id) /\ HasItem(page, i) /\ ram' = With(ram, id, new)
      /\ WritePage(id, TRUE)
      /\ RamOK(ram) /\ DiskOK(diskPages) /\ MemInv /\ Types
  BY DEF DeletePart, DeleteSlot, IndInv, Running, Dead
<1>2. PartsFit(page) /\ PageOK(page) /\ id \in Nat
  BY <1>1, ReadOK DEF PartsFitInv, AllFit, Readable, Read
<1>3. PartsFit(new)
  <2> HIDE DEF page, i
  <2> QED BY <1>1, <1>2, NotZero, DeleteFits
<1> HIDE DEF id, page, i, new
<1>4. AllFit(ram') /\ id \in DOMAIN ram'
  BY <1>1, <1>3, WithFits DEF PartsFitInv, With
<1>5. AllFit(diskPages')
  BY <1>1, <1>2, <1>4, WrittenFits DEF PartsFitInv
<1> QED BY <1>4, <1>5 DEF PartsFitInv

LEMMA NewPageFits ==
  ASSUME IndInv, PartsFitInv, NEW ok \in Outcomes,
         AllocPage(ok) \/ WriteNewPage(ok) \/ SetFreePage(ok)
  PROVE  PartsFitInv'
PROOF
<1>1. CASE AllocPage(ok)
  <2>1. ram' = With(ram, header.page_count, PageNew(header.page_count)) /\ diskPages' = diskPages
    BY <1>1 DEF AllocPage, CountPage
  <2>2. AllFit(With(ram, header.page_count, PageNew(header.page_count)))
    BY EmptyPagesFit, WithFits DEF PartsFitInv
  <2> QED BY <2>1, <2>2 DEF PartsFitInv
<1>2. CASE WriteNewPage(ok)
  <2>1. ram' = ram /\ WritePage(put.free, ok) /\ put.free \in DOMAIN ram /\ put.free \in Nat
    BY <1>2 DEF WriteNewPage, IndInv, PutInv, RamOK
  <2>2. AllFit(diskPages')
    BY <2>1, WrittenFits DEF PartsFitInv
  <2> QED BY <2>1, <2>2 DEF PartsFitInv
<1>3. CASE SetFreePage(ok)
  BY <1>3 DEF SetFreePage, PartsFitInv
<1> QED BY <1>1, <1>2, <1>3

LEMMA NextPartsFit == IndInv /\ PartsFitInv /\ [Next]_vars => PartsFitInv'
PROOF
<1> SUFFICES ASSUME IndInv, PartsFitInv, [Next]_vars PROVE PartsFitInv'
  OBVIOUS
<1>1. ASSUME NEW ok \in WriteOutcomes, AllocPage(ok) \/ WriteNewPage(ok) \/ SetFreePage(ok)
      PROVE  PartsFitInv'
  <2>1. ok \in Outcomes
    BY TrueIsOutcome DEF WriteOutcomes
  <2> QED BY <1>1, <2>1, NewPageFits
<1>2. CASE AddPart
  BY <1>2, AddPartFits
<1>3. CASE DeletePart
  BY <1>3, DeletePartFits
<1>4. CASE diskPages' = diskPages /\ ram' \in {ram, NoPages}
  BY <1>4, EmptyPagesFit DEF PartsFitInv
<1>5. CASE PageFull \/ SplitItem \/ ItemFits \/ PutReturns \/ WriteAborts \/ AddPartAborts
           \/ OpenWithoutPages \/ OpenFails \/ OpenAborts \/ Close \/ Crash \/ FreePages
           \/ UNCHANGED vars
  <2>1. diskPages' = diskPages /\ ram' \in {ram, NoPages}
    BY <1>5 DEF PageFull, SplitItem, ItemFits, PutReturns, WriteAborts, AddPartAborts,
       OpenWithoutPages, OpenIfNone, OpenFails, OpenAborts, Close, Crash, FreePages, Die,
       disk, memory, vars
  <2> QED BY <1>4, <2>1
<1>6. CASE OpenWithPages
  <2> DEFINE page == diskPages[diskHeader.current_free_page]
  <2>1. /\ diskPages' = diskPages /\ ram' = With(NoPages, page.page_id, page)
        /\ diskHeader.current_free_page \in DOMAIN diskPages
    BY <1>6 DEF OpenWithPages, FreePageOnDisk, disk
  <2>2. PartsFit(page)
    BY <2>1 DEF PartsFitInv, AllFit
  <2> HIDE DEF page
  <2>3. AllFit(With(NoPages, page.page_id, page))
    BY <2>2, EmptyPagesFit, WithFits
  <2> QED BY <2>1, <2>3 DEF PartsFitInv
<1>7. ASSUME NEW x \in Items, PutStart(x) \/ PutAborts(x)
      PROVE  PartsFitInv'
  <2>1. CASE PutStart(x)
    <3>1. diskPages' = diskPages /\ ram' = Loaded({FreePageId}) /\ Readable(FreePageId)
      BY <2>1 DEF PutStart, disk
    <3>2. AllFit(Loaded({FreePageId}))
      BY <3>1, LoadedFits
    <3> QED BY <3>1, <3>2 DEF PartsFitInv
  <2>2. CASE PutAborts(x)
    BY <1>4, <2>2 DEF PutAborts, Die, disk
  <2> QED BY <1>7, <2>1, <2>2
<1>8. ASSUME NEW a \in DOMAIN Store, GetItem(a) \/ GetItemAborts(a) \/ DeleteStart(a)
      PROVE  PartsFitInv'
  <2>1. CASE GetItem(a) \/ DeleteStart(a)
    <3> DEFINE ids == ChainPages(diskPages, a)
    <3>1. /\ diskPages' = diskPages /\ ram' = Loaded(ids)
          /\ \A id \in ids : Readable(id)
      BY <2>1 DEF GetItem, DeleteStart, Reads, disk
    <3> HIDE DEF ids
    <3>2. AllFit(Loaded(ids))
      BY <3>1, LoadedFits
    <3> QED BY <3>1, <3>2 DEF PartsFitInv
  <2>2. CASE GetItemAborts(a)
    BY <1>4, <2>2 DEF GetItemAborts, Die, disk
  <2> QED BY <1>8, <2>1, <2>2
<1> QED BY <1>1, <1>2, <1>3, <1>5, <1>6, <1>7, <1>8, Zenon DEF Next, Steps, Calls

--------------------------------------------------------------------------------
(***************************************************************************)
(* The page a put goes on with is a new one, and not one of the pages the  *)
(* put already has parts on; a put of several parts only splits on pages   *)
(* where the rest does not fit.                                            *)
(***************************************************************************)
Allocating == pc \in {"alloc", "write_new", "set_free"}

\* The page for the continuation is needed, or it is there.
Splitting ==
  \/ Allocating /\ put.caller = "split"
  \/ pc = "part" /\ put.cont # -1

HasNewPage ==
  \/ pc \in {"write_new", "set_free"}
  \/ pc = "part" /\ put.cont # -1

\* Some parts of the item are written, and some are not.
Between == put.item \in Items /\ put.written > 0 /\ Left > 0

NewPageInv ==
  /\ HasNewPage => put.free \in DOMAIN ram /\ ram[put.free] = PageNew(put.free)
  /\ HasNewPage /\ Splitting => put.cur # put.free /\ put.page # put.free
  /\ Splitting => ~ CanFitPayload(ram[put.cur], Left)
  /\ put.item \in Items => put.page < header.page_count
  /\ Allocating /\ put.item \in Items => Left > 0
  /\ Between => /\ put.cur \in DOMAIN ram /\ ram[put.cur] = PageNew(put.cur)
                /\ put.page # put.cur
                /\ Allocating => put.caller = "split"

\* No put is in progress.
LEMMA NoPutNewPage ==
  ASSUME put' = NoPut, pc' \in Dead \cup {"idle", "delete"}
  PROVE  NewPageInv'
PROOF
<1>1. put'.item \notin Items
  BY NoPutOK, ItemsAssumption
<1> QED BY <1>1 DEF NewPageInv, HasNewPage, Splitting, Allocating, Between, Dead

\* A page is allocated.
LEMMA AllocatedNewPage ==
  ASSUME IndInv, NewPageInv, NEW ok \in Outcomes, AllocPage(ok)
  PROVE  NewPageInv'
PROOF
<1> DEFINE id == header.page_count
           new == PageNew(id)
<1>1. /\ pc = "alloc" /\ id \in Nat /\ header \in Header /\ put \in PutType /\ Running
      /\ \A x \in DOMAIN ram : x # id
      /\ put.cont = -1
      /\ put.caller = "split" => put.cur \in DOMAIN ram
  BY DEF AllocPage, CountPage, IndInv, Types, Header, MemInv, Running, Dead, PutInv, RamOK
<1>2. /\ ram' = With(ram, id, new) /\ header' = [header EXCEPT !.page_count = @ + 1]
      /\ IF ok THEN pc' = "write_new" /\ put' = [put EXCEPT !.free = id]
               ELSE NewPageReturned(id)
  BY DEF AllocPage, CountPage
<1>3. header'.page_count = id + 1
  BY <1>1, <1>2 DEF Header
<1> HIDE DEF id, new
<1>4. id \in DOMAIN ram' /\ ram'[id] = new /\ \A x \in DOMAIN ram : x \in DOMAIN ram' /\ ram'[x] = ram[x]
  BY <1>1, <1>2 DEF With
<1>5. CASE pc' = "idle" /\ put' = NoPut
  BY <1>5, NoPutNewPage
<1>6. CASE pc' \in {"write_new", "set_free"} /\ put' = [put EXCEPT !.free = id]
  <2>1. /\ put'.free = id /\ put'.cur = put.cur /\ put'.page = put.page /\ put'.caller = put.caller
        /\ put'.item = put.item /\ put'.written = put.written /\ put'.cont = put.cont
    BY <1>1, <1>6 DEF PutType
  <2>2. Left' = Left
    BY <2>1 DEF Left
  <2>3. Allocating /\ (Between' => Between) /\ (Splitting' => put.caller = "split" /\ Splitting)
    BY <1>1, <1>6, <2>1, <2>2 DEF Allocating, Between, Splitting
  <2>4. put.item \in Items => put.page < id
    BY DEF NewPageInv, id
  <2>5. put.page \in Ids
    BY <1>1 DEF PutType
  <2>6. put.caller = "split" => put.item \in Items
    BY <1>1 DEF IndInv, PutInv
  <2>7. ram'[put'.free] = PageNew(put'.free)
    BY <1>4, <2>1 DEF new
  <2>8. Splitting' => put.cur # id /\ put.page # id /\ ~ CanFitPayload(ram'[put.cur], Left)
    BY <1>1, <1>4, <2>3, <2>4, <2>5, <2>6 DEF NewPageInv, Ids
  <2>9. put.item \in Items => put.page < id + 1 /\ Left > 0
    BY <1>1, <2>3, <2>4, <2>5 DEF NewPageInv, Ids, id
  <2>10. Between' => /\ put.cur \in DOMAIN ram' /\ ram'[put.cur] = PageNew(put.cur)
                     /\ put.page # put.cur /\ put.caller = "split"
    BY <1>4, <2>3 DEF NewPageInv
  <2> QED BY <1>3, <1>4, <2>1, <2>2, <2>7, <2>8, <2>9, <2>10 DEF NewPageInv
<1> QED BY <1>2, <1>5, <1>6 DEF NewPageReturned

LEMMA WrittenNewPage ==
  ASSUME IndInv, NewPageInv, NEW ok \in Outcomes, WriteNewPage(ok)
  PROVE  NewPageInv'
PROOF
<1>1. /\ pc = "write_new" /\ put \in PutType /\ ram' = ram /\ header' = header
      /\ NewPageReturned(put.free) /\ put.cont = -1
  BY DEF WriteNewPage, IndInv, Types, PutInv
<1>2. CASE pc' = "idle" /\ put' = NoPut
  BY <1>2, NoPutNewPage
<1>3. CASE pc' = "set_free" /\ put' = [put EXCEPT !.free = put.free]
  <2>1. put' = put
    BY <1>1, <1>3 DEF PutType
  <2>2. Left' = Left
    BY <2>1 DEF Left
  <2> QED BY <1>1, <1>3, <2>1, <2>2 DEF NewPageInv, HasNewPage, Splitting, Allocating, Between
<1> QED BY <1>1, <1>2, <1>3 DEF NewPageReturned

LEMMA SetNewPage ==
  ASSUME IndInv, NewPageInv, NEW ok \in Outcomes, SetFreePage(ok)
  PROVE  NewPageInv'
PROOF
<1>1. /\ pc = "set_free" /\ put \in PutType /\ ram' = ram /\ header \in Header
      /\ header' = [header EXCEPT !.current_free_page = put.free]
      /\ PutGoesOn /\ put.cont = -1 /\ put.caller \notin {"init", "none"}
      /\ put.free \in DOMAIN ram /\ put.free < header.page_count
      /\ HasNewPage /\ Allocating
  BY DEF SetFreePage, IndInv, Types, PutInv, MemInv, Running, Dead, HasNewPage, Allocating
<1>2. header'.page_count = header.page_count
  BY <1>1 DEF Header
<1>3. CASE put.caller = "get_page"
  <2>1. /\ pc' = "loop" /\ put'.page = put.free /\ put'.cur = put.free /\ put'.item = put.item
        /\ put'.written = put.written
    BY <1>1, <1>3 DEF PutGoesOn, PutType
  <2>2. Left' = Left
    BY <2>1 DEF Left
  <2>3. ~ Between'
    BY <1>1, <1>3, <2>1, <2>2 DEF NewPageInv, Between
  <2> QED BY <1>1, <1>2, <2>1, <2>3 DEF NewPageInv, HasNewPage, Splitting, Allocating
<1>4. CASE put.caller = "full"
  <2>1. /\ pc' = "part" /\ put'.page = put.page /\ put'.cur = put.free /\ put'.item = put.item
        /\ put'.written = put.written /\ put'.cont = put.cont
    BY <1>1, <1>4 DEF PutGoesOn, PutType
  <2>2. Left' = Left
    BY <2>1 DEF Left
  <2>3. ~ Between'
    BY <1>1, <1>4, <2>1, <2>2 DEF NewPageInv, Between
  <2> QED BY <1>1, <1>2, <2>1, <2>3 DEF NewPageInv, HasNewPage, Splitting, Allocating
<1>5. CASE put.caller = "split"
  <2>1. /\ pc' = "part" /\ put'.page = put.page /\ put'.cur = put.cur /\ put'.item = put.item
        /\ put'.written = put.written /\ put'.cont = put.free /\ put'.free = put.free
    BY <1>1, <1>5 DEF PutGoesOn, PutType
  <2>2. Left' = Left
    BY <2>1 DEF Left
  <2>3. Splitting /\ ~ Allocating' /\ (Between' => Between)
    BY <1>1, <1>5, <2>1, <2>2 DEF Splitting, Allocating, Between
  <2> QED BY <1>1, <1>2, <2>1, <2>2, <2>3 DEF NewPageInv
<1> QED BY <1>1, <1>3, <1>4, <1>5 DEF PutType

\* A new page is not full, so only an item without parts asks for another.
LEMMA IterationNewPage ==
  ASSUME IndInv, NewPageInv, PageFull \/ SplitItem \/ ItemFits
  PROVE  NewPageInv'
PROOF
<1>1. /\ pc = "loop" /\ put \in PutType /\ put.cont = -1 /\ Left > 0
      /\ ram' = ram /\ header' = header
  BY DEF PageFull, SplitItem, ItemFits, IndInv, Types, PutInv, memory
<1>2. /\ put'.page = put.page /\ put'.cur = put.cur /\ put'.item = put.item
      /\ put'.written = put.written /\ put'.cont = put.cont
      /\ \/ pc' = "part"
         \/ /\ pc' = "alloc" /\ put'.caller = "full"
            /\ ~ CanFitAnyPayload(ram[put.cur])
         \/ /\ pc' = "alloc" /\ put'.caller = "split"
            /\ ~ CanFitPayload(ram[put.cur], Left)
  BY <1>1 DEF PageFull, SplitItem, ItemFits, PutType
<1>3. Left' = Left
  BY <1>2 DEF Left
<1>4. Between' => Between
  BY <1>2, <1>3 DEF Between
<1>5. Between => CanFitAnyPayload(ram[put.cur])
  BY NewPageHasRoom DEF NewPageInv
<1> QED BY <1>1, <1>2, <1>3, <1>4, <1>5 DEF NewPageInv, HasNewPage, Splitting, Allocating

\* The last part is the one that has no continuation.
LEMMA LastPart ==
  ASSUME IndInv, NewPageInv, AddPart
  PROVE  /\ Left' = 0 <=> put.cont = -1
         /\ Left' \in Nat
         /\ put.cont # -1 => put.cont = put.free /\ HasNewPage /\ Splitting
PROOF
<1>1. /\ pc = "part" /\ PartSize \in Nat \ {0} /\ PartSize <= Left /\ Left \in Nat \ {0}
      /\ Left' = Left - PartSize /\ WellFormed(ram[put.cur], PartData)
  BY AddPartEffect
<1>2. put.cont # -1 => put.cont = put.free /\ HasNewPage /\ Splitting
  BY <1>1 DEF IndInv, PutInv, HasNewPage, Splitting
<1>3. put.cont = -1 => PartSize = Left
  BY DEF PartSize
<1>4. put.cont # -1 => PartSize # Left
  <2> DEFINE space == PayloadAvailableSpace(ram[put.cur])
  <2>1. CASE put.cont # -1
    <3>1. PartSize = IF space < Left THEN space ELSE Left
      BY <2>1 DEF PartSize
    <3>2. ~ (space >= Left)
      BY <1>2, <2>1 DEF NewPageInv, CanFitPayload
    <3>3. space \in Nat
      BY <1>1 DEF WellFormed, PageType, PayloadAvailableSpace, FreeSpaceLeft, MetaSize
    <3> HIDE DEF space
    <3> QED BY <1>1, <3>1, <3>2, <3>3
  <2> QED BY <2>1
<1> QED BY <1>1, <1>2, <1>3, <1>4

LEMMA AddPartNewPage ==
  ASSUME IndInv, NewPageInv, AddPart
  PROVE  NewPageInv'
PROOF
<1>1. /\ pc' = "loop" /\ put'.page = put.page /\ put'.item = put.item /\ put'.cur = put.free
      /\ header' = header /\ DOMAIN ram' = DOMAIN ram /\ put.item \in Items
      /\ \A x \in DOMAIN ram : x # put.cur => ram'[x] = ram[x]
  BY AddPartEffect
<1>2. Between' => HasNewPage /\ Splitting
  BY LastPart DEF Between
<1>3. Between' => /\ put'.cur \in DOMAIN ram' /\ ram'[put'.cur] = PageNew(put'.cur)
                  /\ put'.page # put'.cur
  BY <1>1, <1>2 DEF NewPageInv
<1> QED BY <1>1, <1>3 DEF NewPageInv, HasNewPage, Splitting, Allocating

LEMMA PutStartNewPage ==
  ASSUME IndInv, NEW x \in Items, PutStart(x)
  PROVE  NewPageInv'
PROOF
<1> DEFINE id == FreePageId
<1>1. /\ pc = "idle" /\ Readable(id) /\ header' = header
      /\ \/ pc' = "alloc" /\ put' = [NoPut EXCEPT !.item = x, !.caller = "get_page"]
         \/ pc' = "loop" /\ put' = [NoPut EXCEPT !.item = x, !.page = Read(id).page_id,
                                                 !.cur = Read(id).page_id]
  BY DEF PutStart
<1>2. Read(id).page_id < header.page_count /\ header.page_count \in Nat
  BY <1>1, ReadOK DEF IndInv, Running, Dead
<1> HIDE DEF id
<1>3. /\ put'.item = x /\ put'.written = 0 /\ put'.cont = -1
      /\ put'.page < header'.page_count
      /\ pc' = "alloc" => put'.caller = "get_page"
  <2> DEFINE pid == Read(id).page_id
  <2>1. CASE pc' = "alloc" /\ put' = [NoPut EXCEPT !.item = x, !.caller = "get_page"]
    <3>1. /\ put'.item = x /\ put'.written = 0 /\ put'.cont = -1 /\ put'.page = -1
          /\ put'.caller = "get_page"
      BY <2>1 DEF NoPut
    <3> QED BY <1>1, <1>2, <3>1
  <2>2. CASE pc' = "loop" /\ put' = [NoPut EXCEPT !.item = x, !.page = pid, !.cur = pid]
    <3> HIDE DEF pid
    <3>1. put'.item = x /\ put'.written = 0 /\ put'.cont = -1 /\ put'.page = pid
      BY <2>2 DEF NoPut
    <3>2. pid < header'.page_count
      BY <1>1, <1>2 DEF pid
    <3> QED BY <2>2, <3>1, <3>2
  <2> QED BY <1>1, <2>1, <2>2
<1>4. Left' > 0
  <2>1. Size[x] \in Nat \ {0}
    OBVIOUS
  <2> QED BY <1>3, <2>1 DEF Left
<1> QED BY <1>1, <1>3, <1>4 DEF NewPageInv, HasNewPage, Splitting, Allocating, Between

LEMMA NextNewPage == IndInv /\ NewPageInv /\ [Next]_vars => NewPageInv'
PROOF
<1> SUFFICES ASSUME IndInv, NewPageInv, [Next]_vars PROVE NewPageInv'
  OBVIOUS
<1>1. ASSUME NEW ok \in WriteOutcomes, AllocPage(ok) \/ WriteNewPage(ok) \/ SetFreePage(ok)
      PROVE  NewPageInv'
  <2>1. ok \in Outcomes
    BY TrueIsOutcome DEF WriteOutcomes
  <2> QED BY <1>1, <2>1, AllocatedNewPage, WrittenNewPage, SetNewPage
<1>2. CASE PageFull \/ SplitItem \/ ItemFits
  BY <1>2, IterationNewPage
<1>3. CASE AddPart
  BY <1>3, AddPartNewPage
<1>4. CASE put' = NoPut /\ pc' \in Dead \cup {"idle", "delete"}
  BY <1>4, NoPutNewPage
<1>5. CASE PutReturns \/ DeletePart \/ WriteAborts \/ AddPartAborts \/ OpenFails
           \/ OpenWithPages \/ OpenAborts \/ Close \/ FreePages \/ Crash
           \/ (\E x \in Items : PutAborts(x))
           \/ (\E a \in DOMAIN Store : GetItem(a) \/ GetItemAborts(a) \/ DeleteStart(a))
  BY <1>4, <1>5 DEF PutReturns, DeletePart, DeleteSlot, WriteAborts, AddPartAborts, OpenFails,
     OpenWithPages, OpenAborts, Close, FreePages, Crash, PutAborts, GetItem, GetItemAborts,
     DeleteStart, Die, Dead, IndInv, PutInv, Called, Running
<1>6. CASE OpenWithoutPages
  <2>1. pc' = "alloc" /\ put' = [NoPut EXCEPT !.caller = "init"]
    BY <1>6 DEF OpenWithoutPages, OpenIfNone
  <2>2. put'.caller = "init" /\ put'.item \notin Items
    BY <2>1, ItemsAssumption DEF NoPut
  <2> QED BY <2>1, <2>2 DEF NewPageInv, HasNewPage, Splitting, Allocating, Between
<1>7. ASSUME NEW x \in Items, PutStart(x)
      PROVE  NewPageInv'
  BY <1>7, PutStartNewPage
<1>8. CASE UNCHANGED vars
  BY <1>8, Zenon DEF vars, memory, NewPageInv, HasNewPage, Splitting, Allocating, Between, Left
<1> QED BY <1>1, <1>2, <1>3, <1>5, <1>6, <1>7, <1>8, Zenon DEF Next, Steps, Calls

--------------------------------------------------------------------------------
(***************************************************************************)
(* The parts a put has written so far: they lead from the head at h, each  *)
(* to the next one, up to a part that names the page the put goes on with  *)
(* and ends where the put goes on.  The file has them as the memory does.  *)
(***************************************************************************)
LastWritten(a) ==
  /\ Part(diskPages, a).data.from + Part(diskPages, a).size = put.written
  /\ Part(diskPages, a).continues_on_page = put.cur

PutParts(S, h) ==
  /\ Part(diskPages, h).data.from = 0
  /\ \A a \in S : Part(diskPages, a).data.item = put.item
  /\ \A a \in S : \/ LastWritten(a)
                  \/ Joins(diskPages, a) /\ NextPart(diskPages, a) \in S
  /\ \A a \in S \ {h} : \E b \in S : NextPart(diskPages, b) = a
  /\ \E a \in S : LastWritten(a)
  /\ \A a \in S : a.page \in DOMAIN ram /\ ram[a.page] = diskPages[a.page]
  /\ ViaFreePage => h = put.result

PutPartsInv ==
  put.item \in Items /\ put.written > 0 =>
    IF Left > 0
      THEN \E S \in SUBSET Slots(diskPages) : \E h \in S : PutParts(S, h)
      ELSE ViaFreePage => put.result \in DOMAIN Store /\ Store[put.result] = put.item

\* The items of the file.
LEMMA StoreOK ==
  /\ DOMAIN Store = {a \in Slots(diskPages) : a \in Whole(diskPages)
                                               /\ Part(diskPages, a).data.from = 0}
  /\ \A a \in DOMAIN Store : Store[a] = Part(diskPages, a).data.item
PROOF
<1> DEFINE heads == {a \in Slots(diskPages) : a \in Whole(diskPages)
                                               /\ Part(diskPages, a).data.from = 0}
<1>1. Store = [a \in heads |-> Part(diskPages, a).data.item]
  BY Zenon DEF Store
<1> HIDE DEF heads
<1>2. DOMAIN Store = heads /\ \A a \in DOMAIN Store : Store[a] = Part(diskPages, a).data.item
  BY <1>1
<1> QED BY <1>2, Zenon DEF heads

LEMMA NextStoreOK ==
  /\ DOMAIN Store' = {a \in Slots(diskPages') : a \in Whole(diskPages')
                                                /\ Part(diskPages', a).data.from = 0}
  /\ \A a \in DOMAIN Store' : Store'[a] = Part(diskPages', a).data.item
PROOF
<1> DEFINE heads == {a \in Slots(diskPages') : a \in Whole(diskPages')
                                                /\ Part(diskPages', a).data.from = 0}
<1>1. Store' = [a \in heads |-> Part(diskPages', a).data.item]
  BY Zenon DEF Store
<1> HIDE DEF heads
<1>2. DOMAIN Store' = heads /\ \A a \in DOMAIN Store' : Store'[a] = Part(diskPages', a).data.item
  BY <1>1
<1> QED BY <1>2, Zenon DEF heads

\* A step that leaves the parts alone leaves their chain alone.
LEMMA PutPartsKept ==
  ASSUME NEW S \in SUBSET Slots(diskPages), NEW h \in S, PutParts(S, h),
         put'.item = put.item, put'.written = put.written, put'.cur = put.cur,
         put'.result = put.result,
         \A a \in S : /\ a \in Slots(diskPages') /\ Part(diskPages', a) = Part(diskPages, a)
                      /\ a.page \in DOMAIN ram' /\ ram'[a.page] = diskPages'[a.page]
  PROVE  S \in SUBSET Slots(diskPages') /\ PutParts(S, h)'
PROOF
<1>1. \A a \in S : NextPart(diskPages', a) = NextPart(diskPages, a)
  BY DEF NextPart
<1>2. \A a \in S : LastWritten(a)' <=> LastWritten(a)
  BY DEF LastWritten
<1>3. \A a \in S : Joins(diskPages, a) /\ NextPart(diskPages, a) \in S => Joins(diskPages', a)
  BY <1>1 DEF Joins
<1>4. S \in SUBSET Slots(diskPages')
  OBVIOUS
<1>5. /\ Part(diskPages', h).data.from = 0
      /\ \A a \in S : Part(diskPages', a).data.item = put'.item
      /\ \A a \in S : a.page \in DOMAIN ram' /\ ram'[a.page] = diskPages'[a.page]
      /\ ViaFreePage => h = put'.result
  BY DEF PutParts
<1>6. \A a \in S : \/ LastWritten(a)'
                   \/ Joins(diskPages', a) /\ NextPart(diskPages', a) \in S
  BY <1>1, <1>2, <1>3 DEF PutParts
<1>7. \A a \in S \ {h} : \E b \in S : NextPart(diskPages', b) = a
  BY <1>1 DEF PutParts
<1>8. \E a \in S : LastWritten(a)'
  BY <1>2 DEF PutParts
<1> QED BY <1>4, <1>5, <1>6, <1>7, <1>8, Zenon DEF PutParts

\* The parts are not on a page that has no slot.
LEMMA PutPartsElsewhere ==
  ASSUME IndInv, NEW S \in SUBSET Slots(diskPages), NEW h \in S, PutParts(S, h),
         NEW id, ram[id] = PageNew(id)
  PROVE  \A a \in S : a.page # id
PROOF
<1>1. SUFFICES ASSUME NEW a \in S, a.page = id PROVE FALSE
  OBVIOUS
<1>2. HasItem(diskPages[id], a.item) /\ ram[id] = diskPages[id]
  BY <1>1, SlotsOK DEF IndInv, PutParts
<1>3. ~ HasItem(PageNew(id), a.item)
  BY DEF PageNew, HasItem
<1> QED BY <1>2, <1>3

\* The part added after others is the one the last of them names.
LEMMA AddNext ==
  ASSUME IndInv, NewPageInv, AddPart, put.written > 0,
         NEW S \in SUBSET Slots(diskPages), NEW h \in S, PutParts(S, h)
  PROVE  /\ NewSlot = Address(put.cur, 0) /\ NewSlot \notin S
         /\ S \cup {NewSlot} \in SUBSET Slots(diskPages')
         /\ \A a \in S : /\ a.page # put.cur /\ Part(diskPages', a) = Part(diskPages, a)
                         /\ NextPart(diskPages', a) = NextPart(diskPages, a)
         /\ \A a \in S : LastWritten(a) => /\ Joins(diskPages', a)
                                           /\ NextPart(diskPages', a) = NewSlot
         /\ \A a \in S : Joins(diskPages', a) /\ NextPart(diskPages', a) \in S \cup {NewSlot}
         /\ \A a \in S \cup {NewSlot} :
              a.page \in DOMAIN ram' /\ ram'[a.page] = diskPages'[a.page]
         /\ put'.result = put.result
PROOF
<1>1. /\ put.item \in Items /\ Left \in Nat \ {0} /\ DOMAIN ram' = DOMAIN ram
      /\ put.cur \in DOMAIN ram /\ WritePage(put.cur, TRUE) /\ RamOK(ram')
      /\ \A x \in DOMAIN ram : x # put.cur => ram'[x] = ram[x]
      /\ DiskOK(diskPages)
  BY AddPartEffect DEF IndInv
<1>2. ram[put.cur] = PageNew(put.cur) /\ put.page # put.cur
  BY <1>1 DEF NewPageInv, Between
<1>3. NewSlot = Address(put.cur, 0)
  BY <1>2 DEF NewSlot, PageNew
<1>4. \A a \in S : a.page # put.cur
  BY <1>2, PutPartsElsewhere
<1>5. /\ NewSlot \in Slots(diskPages') /\ NewSlot.page = put.cur
      /\ Part(diskPages', NewSlot).data = NewData
      /\ \A a \in S : a \in Slots(diskPages') /\ Part(diskPages', a) = Part(diskPages, a)
  BY <1>4, AddPartSlots
<1>6. \A a \in S : NextPart(diskPages', a) = NextPart(diskPages, a)
  BY <1>5 DEF NextPart
<1>7. ASSUME NEW a \in S, LastWritten(a)
      PROVE  Joins(diskPages', a) /\ NextPart(diskPages', a) = NewSlot
  <2>1. NextPart(diskPages', a) = NewSlot
    BY <1>3, <1>6, <1>7 DEF LastWritten, NextPart
  <2>2. Continues(Part(diskPages', a), Part(diskPages', NewSlot))
    BY <1>5, <1>7 DEF Continues, LastWritten, PutParts, NewData
  <2> QED BY <1>5, <2>1, <2>2 DEF Joins
<1>8. \A a \in S : Joins(diskPages', a) /\ NextPart(diskPages', a) \in S \cup {NewSlot}
  <2>1. ASSUME NEW a \in S, Joins(diskPages, a), NextPart(diskPages, a) \in S
        PROVE  Joins(diskPages', a)
    BY <1>5, <1>6, <2>1 DEF Joins
  <2> QED BY <1>6, <1>7, <2>1 DEF PutParts
<1>9. \A a \in S : /\ a.page \in DOMAIN ram' /\ ram'[a.page] = diskPages'[a.page]
  <2>1. \A a \in S : a.page \in DOMAIN ram /\ a.page \in DOMAIN diskPages
                     /\ ram[a.page] = diskPages[a.page]
    BY <1>1, SlotsOK DEF PutParts
  <2>2. \A x \in DOMAIN diskPages : x # put.cur => diskPages'[x] = diskPages[x]
    BY <1>1, WrittenOK
  <2> QED BY <1>1, <1>4, <2>1, <2>2
<1>10. put.cur \in DOMAIN ram' /\ ram'[put.cur] = diskPages'[put.cur]
  BY <1>1, WrittenOK
<1>11. put'.result = put.result
  BY <1>2, AddPartEffect
<1> QED BY <1>3, <1>4, <1>5, <1>6, <1>7, <1>8, <1>9, <1>10, <1>11

\* The last part ends the item.
LEMMA LastPartEnds ==
  ASSUME IndInv, NewPageInv, AddPart, Left' = 0
  PROVE  EndsItem(Part(diskPages', NewSlot))
PROOF
<1>1. /\ put.item \in Items /\ put.written \in Nat /\ Left \in Nat \ {0}
      /\ Left' = Left - PartSize /\ PartSize \in Nat \ {0} /\ put.cont = -1
      /\ Size[put.item] \in Nat
  BY AddPartEffect, LastPart
<1>2. PartSize = Left
  BY <1>1
<1>3. Part(diskPages', NewSlot).continues_on_page = -1
  BY <1>1, AddPartSlots
<1>4. /\ Part(diskPages', NewSlot).data.item = put.item
      /\ Part(diskPages', NewSlot).data.from + Part(diskPages', NewSlot).size = put.written + Left
  BY <1>2, AddPartSlots DEF NewData
<1>5. put.written + Left = Size[put.item]
  BY <1>1 DEF Left
<1> QED BY <1>3, <1>4, <1>5 DEF EndsItem

\* The put goes on after a part, or all its parts are in the file.
LEMMA AddPartPutParts ==
  ASSUME IndInv, PartsFitInv, NewPageInv, PutPartsInv, AddPart, ViaFreePage => SavedInv
  PROVE  PutPartsInv'
PROOF
<1>1. /\ put.item \in Items /\ put.written \in Nat /\ Left \in Nat \ {0}
      /\ put'.item = put.item /\ put'.written = put.written + PartSize
      /\ put'.cur = put.free /\ PartSize \in Nat \ {0}
      /\ put'.result = IF put.page = put.cur THEN NewSlot ELSE put.result
      /\ pc = "part" /\ NewData.from = put.written /\ NewData.item = put.item
      /\ DiskOK(diskPages')
  BY AddPartEffect DEF NewData
<1>2. /\ NewSlot \in Slots(diskPages') /\ NewSlot.page = put.cur
      /\ Part(diskPages', NewSlot).data = NewData
      /\ Part(diskPages', NewSlot).size = PartSize
      /\ Part(diskPages', NewSlot).continues_on_page = put.cont
  BY AddPartSlots
\* The chain of the parts, and the new one at its end.
<1> DEFINE Chained(S, h) ==
        /\ NewSlot \in S /\ Part(diskPages', h).data.from = 0
        /\ \A a \in S : Part(diskPages', a).data.item = put.item
        /\ \A a \in S : \/ a = NewSlot
                        \/ Joins(diskPages', a) /\ NextPart(diskPages', a) \in S
        /\ \A a \in S \ {h} : \E b \in S : NextPart(diskPages', b) = a
        /\ \A a \in S : a.page \in DOMAIN ram' /\ ram'[a.page] = diskPages'[a.page]
        /\ ViaFreePage => h = put'.result
<1>3. \E S \in SUBSET Slots(diskPages') : \E h \in S : Chained(S, h)
  <2>1. CASE put.written = 0
    <3>1. Part(diskPages', NewSlot).data.from = 0 /\ Part(diskPages', NewSlot).data.item = put.item
      BY <1>1, <1>2, <2>1
    <3>2. put.cur \in DOMAIN ram' /\ ram'[put.cur] = diskPages'[put.cur]
      BY AddPartEffect, WrittenOK DEF IndInv
    <3>3. ViaFreePage => put'.result = NewSlot
      BY <1>1, <2>1 DEF SavedInv, FirstPage
    <3>4. {NewSlot} \in SUBSET Slots(diskPages') /\ NewSlot \in {NewSlot}
      BY <1>2
    <3>5. Chained({NewSlot}, NewSlot)
      BY <1>2, <3>1, <3>2, <3>3
    <3> QED BY <3>4, <3>5, Zenon
  <2>2. CASE put.written # 0
    <3>1. put.written > 0 /\ Left > 0
      BY <1>1, <2>2
    <3>2. PICK T \in SUBSET Slots(diskPages) : \E h \in T : PutParts(T, h)
      BY <1>1, <3>1 DEF PutPartsInv
    <3>9. PICK h \in T : PutParts(T, h)
      BY <3>2
    <3> DEFINE S == T \cup {NewSlot}
    <3>3. /\ S \in SUBSET Slots(diskPages')
          /\ \A a \in T : /\ Part(diskPages', a) = Part(diskPages, a)
                          /\ NextPart(diskPages', a) = NextPart(diskPages, a)
          /\ \A a \in T : LastWritten(a) => NextPart(diskPages', a) = NewSlot
          /\ \A a \in T : Joins(diskPages', a) /\ NextPart(diskPages', a) \in S
          /\ \A a \in S : a.page \in DOMAIN ram' /\ ram'[a.page] = diskPages'[a.page]
          /\ put'.result = put.result
      BY <3>1, <3>9, AddNext
    <3>4. Part(diskPages', h).data.from = 0 /\ h \in S /\ NewSlot \in S
      BY <3>9, <3>3 DEF PutParts
    <3>5. \A a \in S : Part(diskPages', a).data.item = put.item
      BY <1>1, <1>2, <3>9, <3>3 DEF PutParts
    <3>6. \A a \in S \ {h} : \E b \in S : NextPart(diskPages', b) = a
      BY <3>9, <3>3 DEF PutParts
    <3>7. ViaFreePage => h = put'.result
      BY <3>9, <3>3 DEF PutParts
    <3>8. \A a \in S : a = NewSlot \/ (Joins(diskPages', a) /\ NextPart(diskPages', a) \in S)
      BY <3>3
    <3>10. Chained(S, h)
      BY <3>3, <3>4, <3>5, <3>6, <3>7, <3>8, Zenon
    <3> QED BY <3>3, <3>4, <3>10, Zenon
  <2> QED BY <2>1, <2>2
<1>4. PICK S \in SUBSET Slots(diskPages') : \E h \in S : Chained(S, h)
  BY <1>3
<1>5. PICK h \in S : Chained(S, h)
  BY <1>4
<1>6. CASE Left' > 0
  <2>1. put.cont = put.free
    BY <1>6, LastPart
  <2>2. Part(diskPages', NewSlot).data.from + Part(diskPages', NewSlot).size = put'.written
    BY <1>1, <1>2
  <2>3. Part(diskPages', NewSlot).continues_on_page = put'.cur
    BY <1>1, <1>2, <2>1
  <2>4. \A a : a = NewSlot => LastWritten(a)'
    BY <2>2, <2>3 DEF LastWritten
  <2>5. PutParts(S, h)'
    <3>1. /\ Part(diskPages', h).data.from = 0
          /\ \A a \in S : Part(diskPages', a).data.item = put'.item
          /\ \A a \in S \ {h} : \E b \in S : NextPart(diskPages', b) = a
          /\ \A a \in S : a.page \in DOMAIN ram' /\ ram'[a.page] = diskPages'[a.page]
          /\ ViaFreePage => h = put'.result
      BY <1>1, <1>5
    <3>2. \A a \in S : \/ LastWritten(a)'
                       \/ Joins(diskPages', a) /\ NextPart(diskPages', a) \in S
      BY <1>5, <2>4, Zenon
    <3>3. \E a \in S : LastWritten(a)'
      BY <1>5, <2>4, Zenon
    <3> QED BY <3>1, <3>2, <3>3, Zenon DEF PutParts
  <2> QED BY <1>6, <2>5, Zenon DEF PutPartsInv
<1>7. CASE ~ (Left' > 0)
  <2>1. Left' = 0
    BY <1>7, LastPart
  <2>3. EndsItem(Part(diskPages', NewSlot))
    BY <2>1, LastPartEnds
  <2>4. PartsHaveBytes(diskPages')
    BY <1>1, AddPartFits, FitHasBytes DEF PartsFitInv
  <2>5. S \subseteq Whole(diskPages')
    <3>1. \A a \in S : \/ EndsItem(Part(diskPages', a))
                       \/ Joins(diskPages', a) /\ NextPart(diskPages', a) \in S \cup Whole(diskPages')
      BY <1>5, <2>3
    <3> QED BY <2>4, <3>1, ChainIsWhole
  <2>6. ViaFreePage => put'.result \in DOMAIN Store' /\ Store'[put'.result] = put'.item
    <3>1. h \in DOMAIN Store'
      BY <1>5, <2>5, NextStoreOK
    <3> QED BY <1>1, <1>5, <3>1, NextStoreOK
  <2> QED BY <1>7, <2>6, Zenon DEF PutPartsInv
<1> QED BY <1>6, <1>7

\* A step between two parts keeps the pages of the file that are in memory.
LEMMA PutPartsStay ==
  ASSUME PutPartsInv, put.item \in Items => Left > 0,
         put'.item = put.item, put'.written = put.written, put'.result = put.result,
         Between => put'.cur = put.cur,
         \A a \in Slots(diskPages) : a.page \in DOMAIN ram /\ ram[a.page] = diskPages[a.page] =>
           /\ a \in Slots(diskPages') /\ Part(diskPages', a) = Part(diskPages, a)
           /\ a.page \in DOMAIN ram' /\ ram'[a.page] = diskPages'[a.page]
  PROVE  PutPartsInv'
PROOF
<1>1. SUFFICES ASSUME put.item \in Items, put.written > 0
               PROVE  Left' > 0 /\ \E S \in SUBSET Slots(diskPages') : \E h \in S : PutParts(S, h)'
  BY Zenon DEF PutPartsInv
<1>2. Left' = Left /\ Left > 0 /\ put'.cur = put.cur
  BY <1>1 DEF Left, Between
<1>3. PICK S \in SUBSET Slots(diskPages) : \E h \in S : PutParts(S, h)
  BY <1>1, <1>2 DEF PutPartsInv
<1>4. PICK h \in S : PutParts(S, h)
  BY <1>3
<1>5. \A a \in S : a \in Slots(diskPages) /\ a.page \in DOMAIN ram /\ ram[a.page] = diskPages[a.page]
  BY <1>4 DEF PutParts
<1>6. S \in SUBSET Slots(diskPages') /\ PutParts(S, h)'
  BY <1>2, <1>4, <1>5, PutPartsKept
<1> QED BY <1>2, <1>6, Zenon

\* The new page for the next part is allocated, written and announced.
LEMMA NewPagePutParts ==
  ASSUME IndInv, NewPageInv, PutPartsInv, NEW ok \in Outcomes,
         AllocPage(ok) \/ WriteNewPage(ok) \/ SetFreePage(ok)
  PROVE  PutPartsInv'
PROOF
<1> DEFINE Kept == \A a \in Slots(diskPages) :
             a.page \in DOMAIN ram /\ ram[a.page] = diskPages[a.page] =>
               /\ a \in Slots(diskPages') /\ Part(diskPages', a) = Part(diskPages, a)
               /\ a.page \in DOMAIN ram' /\ ram'[a.page] = diskPages'[a.page]
<1>1. /\ Allocating /\ put \in PutType /\ DiskOK(diskPages) /\ RamOK(ram)
      /\ put.item \in Items => Left > 0
      /\ ok \in BOOLEAN
  BY DEF AllocPage, CountPage, WriteNewPage, SetFreePage, Allocating, NewPageInv, IndInv, Types,
     Outcomes
<1>2. CASE put' = NoPut
  <2>1. put'.item \notin Items
    BY <1>2, NoPutOK, ItemsAssumption
  <2> QED BY <2>1 DEF PutPartsInv
<1>3. CASE AllocPage(ok)
  <2> DEFINE id == header.page_count
             new == PageNew(id)
  <2>1. /\ diskPages' = diskPages /\ ram' = With(ram, id, new)
        /\ put' \in {NoPut, [put EXCEPT !.free = id]}
        /\ \A x \in DOMAIN ram : x # id
    BY <1>3 DEF AllocPage, CountPage, NewPageReturned, IndInv, MemInv, Types, Header, Running,
       Dead, RamOK
  <2> HIDE DEF id, new
  <2>2. \A x \in DOMAIN ram : x \in DOMAIN ram' /\ ram'[x] = ram[x]
    BY <2>1 DEF With
  <2>3. Kept
    BY <2>1, <2>2
  <2>4. CASE put' = [put EXCEPT !.free = id]
    <3>1. /\ put'.item = put.item /\ put'.written = put.written /\ put'.result = put.result
          /\ put'.cur = put.cur
      BY <1>1, <2>4 DEF PutType
    <3> QED BY <1>1, <2>3, <3>1, PutPartsStay
  <2> QED BY <1>2, <2>1, <2>4
<1>4. CASE WriteNewPage(ok)
  <2> DEFINE id == put.free
  <2>1. /\ ram' = ram /\ WritePage(id, ok) /\ put' \in {NoPut, [put EXCEPT !.free = id]}
        /\ id \in DOMAIN ram /\ ram[id] = PageNew(id)
    BY <1>4 DEF WriteNewPage, NewPageReturned, NewPageInv, HasNewPage
  <2> HIDE DEF id
  <2>2. Kept
    <3>1. CASE ok
      <4>1. WritePage(id, TRUE)
        BY <2>1, <3>1
      <4>2. ASSUME NEW a \in Slots(diskPages), a.page \in DOMAIN ram, ram[a.page] = diskPages[a.page]
            PROVE  a.page # id
        <5>1. HasItem(diskPages[a.page], a.item)
          BY <1>1, SlotsOK
        <5>2. ~ HasItem(PageNew(id), a.item)
          BY DEF PageNew, HasItem
        <5> QED BY <2>1, <4>2, <5>1, <5>2
      <4>3. /\ \A a : a.page # id =>
                 /\ a \in Slots(diskPages') <=> a \in Slots(diskPages)
                 /\ a \in Slots(diskPages) => Part(diskPages', a) = Part(diskPages, a)
            /\ \A x \in DOMAIN diskPages : x # id => diskPages'[x] = diskPages[x]
        BY <1>1, <2>1, <4>1, WrittenSlots, WrittenOK
      <4>4. \A a \in Slots(diskPages) : a.page \in DOMAIN diskPages
        BY <1>1, SlotsOK
      <4> QED BY <2>1, <4>2, <4>3, <4>4
    <3>2. CASE ~ ok
      BY <2>1, <3>2 DEF WritePage
    <3> QED BY <1>1, <3>1, <3>2
  <2>3. CASE put' = [put EXCEPT !.free = id]
    <3>1. /\ put'.item = put.item /\ put'.written = put.written /\ put'.result = put.result
          /\ put'.cur = put.cur
      BY <1>1, <2>3 DEF PutType
    <3> QED BY <1>1, <2>2, <3>1, PutPartsStay
  <2> QED BY <1>2, <2>1, <2>3
<1>5. CASE SetFreePage(ok)
  <2>1. ram' = ram /\ diskPages' = diskPages /\ PutGoesOn /\ put.caller \notin {"init", "none"}
    BY <1>5 DEF SetFreePage, IndInv, PutInv
  <2>2. Kept
    BY <2>1
  <2>3. /\ put'.item = put.item /\ put'.written = put.written /\ put'.result = put.result
        /\ put.caller = "split" => put'.cur = put.cur
    BY <1>1, <2>1 DEF PutGoesOn, PutType
  <2>4. Between => put'.cur = put.cur
    BY <1>1, <2>3 DEF NewPageInv
  <2> QED BY <1>1, <2>2, <2>3, <2>4, PutPartsStay
<1> QED BY <1>3, <1>4, <1>5

\* Every step keeps the chain of the parts.
LEMMA NextPutParts ==
  ASSUME IndInv, PartsFitInv, NewPageInv, PutPartsInv, ViaFreePage => SavedInv, [Next]_vars
  PROVE  PutPartsInv'
PROOF
<1>1. ASSUME NEW ok \in WriteOutcomes, AllocPage(ok) \/ WriteNewPage(ok) \/ SetFreePage(ok)
      PROVE  PutPartsInv'
  <2>1. ok \in Outcomes
    BY TrueIsOutcome DEF WriteOutcomes
  <2> QED BY <1>1, <2>1, NewPagePutParts
<1>2. CASE PageFull \/ SplitItem \/ ItemFits
  <2>1. /\ diskPages' = diskPages /\ ram' = ram /\ Left > 0 /\ put \in PutType
        /\ put'.item = put.item /\ put'.written = put.written /\ put'.result = put.result
        /\ put'.cur = put.cur
    BY <1>2 DEF PageFull, SplitItem, ItemFits, disk, memory, IndInv, Types, PutType
  <2> QED BY <2>1, PutPartsStay
<1>3. CASE AddPart
  BY <1>3, AddPartPutParts
<1>4. CASE put' = NoPut
  <2>1. put'.item \notin Items
    BY <1>4, NoPutOK, ItemsAssumption
  <2> QED BY <2>1 DEF PutPartsInv
<1>5. CASE PutReturns \/ DeletePart \/ WriteAborts \/ AddPartAborts \/ OpenFails
           \/ OpenWithPages \/ OpenAborts \/ Close \/ FreePages \/ Crash
           \/ (\E x \in Items : PutAborts(x))
           \/ (\E a \in DOMAIN Store : GetItem(a) \/ GetItemAborts(a) \/ DeleteStart(a))
  BY <1>4, <1>5 DEF PutReturns, DeletePart, DeleteSlot, WriteAborts, AddPartAborts, OpenFails,
     OpenWithPages, OpenAborts, Close, FreePages, Crash, PutAborts, GetItem, GetItemAborts,
     DeleteStart, Die, Dead, IndInv, PutInv, Called, Running
<1>6. CASE OpenWithoutPages
  <2>1. put' = [NoPut EXCEPT !.caller = "init"]
    BY <1>6 DEF OpenWithoutPages, OpenIfNone
  <2>2. put'.item \notin Items
    BY <2>1, ItemsAssumption DEF NoPut
  <2> QED BY <2>2 DEF PutPartsInv
<1>7. ASSUME NEW x \in Items, PutStart(x)
      PROVE  PutPartsInv'
  <2>1. put'.written = 0
    BY <1>7 DEF PutStart, NoPut
  <2> QED BY <2>1 DEF PutPartsInv
<1>8. CASE UNCHANGED vars
  <2>1. /\ diskPages' = diskPages /\ ram' = ram /\ put' = put
    BY <1>8 DEF vars, memory, disk
  <2>2. Left' = Left /\ Store' = Store
    BY <2>1 DEF Left, Store
  <2>3. \A S, h : PutParts(S, h)' <=> PutParts(S, h)
    BY <2>1 DEF PutParts, LastWritten
  <2> QED BY <2>1, <2>2, <2>3, Zenon DEF PutPartsInv
<1> QED BY <1>1, <1>2, <1>3, <1>5, <1>6, <1>7, <1>8, Zenon DEF Next, Steps, Calls

\* What the parts of the items and of the put in progress are.
ChainInv == PartsFitInv /\ NewPageInv /\ PutPartsInv /\ (ViaFreePage => SavedInv)

LEMMA InitChain == Init => IndInv /\ ChainInv
PROOF
<1> SUFFICES ASSUME Init PROVE IndInv /\ ChainInv
  OBVIOUS
<1>1. put.item \notin Items
  BY NoPutOK, ItemsAssumption DEF Init
<1>2. PartsFitInv
  BY DEF Init, PartsFitInv, AllFit, NoPages
<1>3. NewPageInv
  BY <1>1 DEF Init, NewPageInv, HasNewPage, Splitting, Allocating, Between
<1> QED BY <1>1, <1>2, <1>3, InitIndInv DEF ChainInv, PutPartsInv, SavedInv, Init

LEMMA NextChain == IndInv /\ ChainInv /\ [Next]_vars => IndInv' /\ ChainInv'
  BY NextIndInv, NextPartsFit, NextNewPage, NextPutParts, NextSaved DEF ChainInv

(***************************************************************************)
(* When put_item returns to a caller that uses page_manager_get_page_for_- *)
(* data, the address it returns is that of the head of the item it was     *)
(* given, and the item reads back in full from there, in however many      *)
(* parts, after failed writes and crashes too (PageManager!PutReturnsItem).*)
(***************************************************************************)
THEOREM HeapFilePutReturnsItem ==
  ASSUME ViaFreePage
  PROVE  Spec => []PutReturnsItem
PROOF
<1>1. ASSUME IndInv, ChainInv, pc = "loop", Left = 0
      PROVE  put.result \in DOMAIN Store /\ Store[put.result] = put.item
  <2>1. put.item \in Items /\ put.written \in Nat
    BY <1>1 DEF IndInv, PutInv, Types, PutType
  <2>2. Size[put.item] \in Nat \ {0}
    BY <2>1
  <2>3. put.written > 0
    BY <1>1, <2>1, <2>2 DEF Left
  <2> QED BY <1>1, <2>1, <2>3 DEF ChainInv, PutPartsInv
<1>2. IndInv /\ ChainInv => PutReturnsItem
  BY <1>1, Zenon DEF PutReturnsItem
<1> QED BY <1>2, InitChain, NextChain, PTL DEF Spec

--------------------------------------------------------------------------------
(***************************************************************************)
(* While no write fails, each page is named by one part at most: the one   *)
(* that is continued there.                                                *)
(***************************************************************************)
ContinuesOn(a) == Part(diskPages, a).continues_on_page

NamesInv ==
  /\ \A a \in Slots(diskPages) : ContinuesOn(a) < diskHeader.page_count
  /\ \A a, b \in Slots(diskPages) : ContinuesOn(a) = ContinuesOn(b) /\ ContinuesOn(a) # -1 => a = b
  /\ HasNewPage => \A a \in Slots(diskPages) : ContinuesOn(a) # put.free
  /\ pc = "write_new" => put.free \notin DOMAIN diskPages

\* The page a part is added to is in the file as it is in memory.
LEMMA AddPartPages ==
  ASSUME IndInv, FileInv, AddPart
  PROVE  /\ header = diskHeader /\ put.cur \in DOMAIN diskPages
         /\ \A x \in DOMAIN ram : x \in DOMAIN diskPages /\ ram[x] = diskPages[x]
         /\ NewSlot \notin Slots(diskPages)
         /\ Slots(diskPages') = Slots(diskPages) \cup {NewSlot}
         /\ \A a \in Slots(diskPages) : /\ Part(diskPages', a) = Part(diskPages, a)
                                        /\ NextPart(diskPages', a) = NextPart(diskPages, a)
PROOF
<1>1. /\ pc = "part" /\ Running /\ put.cur \in DOMAIN ram
  BY AddPartEffect
<1>2. /\ header = diskHeader
      /\ \A x \in DOMAIN ram : x \in DOMAIN diskPages /\ ram[x] = diskPages[x]
  BY <1>1 DEF FileInv, WriteThrough
<1>3. \A a \in Slots(diskPages) : Part(diskPages', a) = Part(diskPages, a)
  BY <1>1, <1>2, AddPartSlots
<1>4. \A a \in Slots(diskPages) : NextPart(diskPages', a) = NextPart(diskPages, a)
  BY <1>3 DEF NextPart
<1> QED BY <1>1, <1>2, <1>3, <1>4, AddPartSlots

\* A page that is new in the file has no slots.
LEMMA WriteNewPageSlots ==
  ASSUME IndInv, NewPageInv, NamesInv, WriteNewPage(TRUE)
  PROVE  /\ Slots(diskPages') = Slots(diskPages)
         /\ \A a \in Slots(diskPages) : Part(diskPages', a) = Part(diskPages, a)
         /\ DiskOK(diskPages')
PROOF
<1> DEFINE id == put.free
<1>1. /\ pc = "write_new" /\ ram' = ram /\ WritePage(id, TRUE) /\ id \in DOMAIN ram'
      /\ ram'[id] = PageNew(id) /\ id \notin DOMAIN diskPages
      /\ DiskOK(diskPages) /\ RamOK(ram')
  BY DEF WriteNewPage, NewPageInv, HasNewPage, NamesInv, IndInv
<1> HIDE DEF id
<1>2. /\ \A a : a.page # id =>
           /\ a \in Slots(diskPages') <=> a \in Slots(diskPages)
           /\ a \in Slots(diskPages) => Part(diskPages', a) = Part(diskPages, a)
      /\ \A a \in Slots(diskPages') : a.page = id => HasItem(ram'[id], a.item)
      /\ DiskOK(diskPages')
  BY <1>1, WrittenSlots
<1>3. \A a \in Slots(diskPages') : a.page # id
  BY <1>1, <1>2 DEF PageNew, HasItem
<1>4. \A a \in Slots(diskPages) : a.page # id
  BY <1>1, SlotsOK
<1> QED BY <1>2, <1>3, <1>4

LEMMA NewPageNames ==
  ASSUME IndInv, FileInv, NewPageInv, NamesInv,
         AllocPage(TRUE) \/ WriteNewPage(TRUE) \/ SetFreePage(TRUE)
  PROVE  NamesInv'
PROOF
<1>1. put \in PutType /\ header \in Header
  BY DEF IndInv, Types
<1>2. CASE AllocPage(TRUE)
  <2> DEFINE id == header.page_count
  <2>1. /\ pc = "alloc" /\ diskPages' = diskPages /\ put' = [put EXCEPT !.free = id]
        /\ diskHeader' = [header EXCEPT !.page_count = @ + 1] /\ header = diskHeader
        /\ id \in Nat
    BY <1>1, <1>2 DEF AllocPage, CountPage, WriteHeader, FileInv, WriteThrough, Running, Dead, Header
  <2>2. put'.free = id /\ diskHeader'.page_count = id + 1
    BY <1>1, <2>1 DEF PutType, Header
  <2>3. \A a \in Slots(diskPages) : ContinuesOn(a) < id /\ ContinuesOn(a) \in Ids
    BY <2>1, PartOK DEF NamesInv, ContinuesOn, IndInv
  <2>4. id \notin DOMAIN diskPages
    BY <2>1 DEF FileInv, CountedInv
  <2> HIDE DEF id
  <2>5. \A a \in Slots(diskPages) : ContinuesOn(a) < id + 1 /\ ContinuesOn(a) # id
    BY <2>1, <2>3 DEF Ids
  <2>6. \A a : ContinuesOn(a)' = ContinuesOn(a)
    BY <2>1 DEF ContinuesOn
  <2> QED BY <2>1, <2>2, <2>4, <2>5, <2>6 DEF NamesInv
<1>3. CASE WriteNewPage(TRUE)
  <2>1. /\ pc = "write_new" /\ diskHeader' = diskHeader /\ pc' \in {"idle", "set_free"}
        /\ pc' = "set_free" => put'.free = put.free
    BY <1>1, <1>3 DEF WriteNewPage, NewPageReturned, PutType
  <2>2. \A a \in Slots(diskPages) : ContinuesOn(a)' = ContinuesOn(a)
    BY <1>3, WriteNewPageSlots DEF ContinuesOn
  <2>3. Slots(diskPages') = Slots(diskPages)
    BY <1>3, WriteNewPageSlots
  <2> QED BY <2>1, <2>2, <2>3 DEF NamesInv, HasNewPage
<1>4. CASE SetFreePage(TRUE)
  <2>1. /\ pc = "set_free" /\ diskPages' = diskPages /\ header = diskHeader
        /\ diskHeader' = [header EXCEPT !.current_free_page = put.free]
        /\ PutGoesOn /\ put.cont = -1 /\ put.caller \notin {"init", "none"}
    BY <1>4 DEF SetFreePage, WriteHeader, FileInv, WriteThrough, Running, Dead, IndInv, PutInv
  <2>2. diskHeader'.page_count = diskHeader.page_count
    BY <1>1, <2>1 DEF Header
  <2>3. /\ pc' \in {"loop", "part"}
        /\ pc' = "part" /\ put'.cont # -1 => put'.free = put.free
    BY <1>1, <2>1 DEF PutGoesOn, PutType
  <2>4. \A a : ContinuesOn(a)' = ContinuesOn(a)
    BY <2>1 DEF ContinuesOn
  <2> QED BY <2>1, <2>2, <2>3, <2>4 DEF NamesInv, HasNewPage
<1> QED BY <1>2, <1>3, <1>4

\* The new part names the new page.
LEMMA AddPartNames ==
  ASSUME IndInv, FileInv, NewPageInv, NamesInv, AddPart
  PROVE  NamesInv'
PROOF
<1>1. /\ pc = "part" /\ pc' = "loop" /\ diskHeader' = diskHeader /\ header = diskHeader
      /\ put.cont \in Nat \cup {-1} /\ Running
  BY AddPartEffect, AddPartPages
<1>2. put.cont # -1 => HasNewPage /\ put.cont = put.free
  BY LastPart
<1>3. put.cont < diskHeader.page_count
  <2>1. put.cont # -1 => put.cont \in DOMAIN ram
    BY <1>2 DEF NewPageInv
  <2>2. header.page_count \in Nat
    BY DEF IndInv, Types, Header
  <2> QED BY <1>1, <2>1, <2>2 DEF IndInv, MemInv
<1>4. /\ \A a \in Slots(diskPages) : ContinuesOn(a)' = ContinuesOn(a)
      /\ \A a : a = NewSlot => ContinuesOn(a)' = put.cont
      /\ Slots(diskPages') = Slots(diskPages) \cup {NewSlot}
  BY AddPartPages, AddPartSlots DEF ContinuesOn
<1>5. put.cont # -1 => \A a \in Slots(diskPages) : ContinuesOn(a) # put.cont
  BY <1>2 DEF NamesInv
<1> QED BY <1>1, <1>3, <1>4, <1>5 DEF NamesInv, HasNewPage

\* Every step keeps the names.
LEMMA NextNames ==
  ASSUME MaxFaults = 0, IndInv, FileInv, NewPageInv, NamesInv, [Next]_vars
  PROVE  NamesInv'
PROOF
<1>1. ASSUME NEW ok \in WriteOutcomes, AllocPage(ok) \/ WriteNewPage(ok) \/ SetFreePage(ok)
      PROVE  NamesInv'
  <2>1. ok = TRUE
    BY <1>1, NoFaults
  <2> QED BY <1>1, <2>1, NewPageNames
<1>2. CASE AddPart
  BY <1>2, AddPartNames
<1>3. CASE DeletePart
  <2>1. /\ diskHeader' = diskHeader /\ pc' \in {"idle", "delete"}
        /\ Slots(diskPages') \subseteq Slots(diskPages)
        /\ \A a \in Slots(diskPages') : ContinuesOn(a)' = ContinuesOn(a)
    BY <1>3, DeletePartSlots DEF ContinuesOn
  <2> QED BY <2>1 DEF NamesInv, HasNewPage
<1>4. CASE /\ diskPages' = diskPages /\ diskHeader'.page_count = diskHeader.page_count
           /\ ~ HasNewPage' /\ pc' # "write_new"
  <2>1. \A a : ContinuesOn(a)' = ContinuesOn(a)
    BY <1>4 DEF ContinuesOn
  <2> QED BY <1>4, <2>1 DEF NamesInv
<1>5. CASE PageFull \/ SplitItem \/ ItemFits
  <2>1. /\ diskPages' = diskPages /\ diskHeader' = diskHeader /\ put.cont = -1 /\ put \in PutType
        /\ pc' \in {"alloc", "part"} /\ put'.cont = put.cont
    BY <1>5 DEF PageFull, SplitItem, ItemFits, disk, IndInv, Types, PutInv, PutType
  <2> QED BY <1>4, <2>1 DEF HasNewPage
<1>6. CASE PutReturns \/ WriteAborts \/ AddPartAborts \/ OpenFails
           \/ OpenWithPages \/ OpenAborts \/ Close \/ FreePages \/ Crash
           \/ (\E x \in Items : PutAborts(x) \/ PutStart(x))
           \/ (\E a \in DOMAIN Store : GetItem(a) \/ GetItemAborts(a) \/ DeleteStart(a))
  <2>1. /\ diskPages' = diskPages /\ diskHeader' = diskHeader
        /\ pc' \in Dead \cup {"idle", "delete", "loop", "alloc"}
    BY <1>6 DEF PutReturns, WriteAborts, AddPartAborts, OpenFails, PutStart,
     OpenWithPages, OpenAborts, Close, FreePages, Crash, PutAborts, GetItem, GetItemAborts,
     DeleteStart, Die, Dead, disk
  <2> QED BY <1>4, <2>1 DEF HasNewPage, Dead
<1>7. CASE OpenWithoutPages
  <2>1. /\ diskPages' = diskPages /\ diskHeader.page_count = 0 /\ diskHeader' = EmptyFile
        /\ pc' = "alloc"
    BY <1>7 DEF OpenWithoutPages, OpenIfNone
  <2> QED BY <1>4, <2>1 DEF HasNewPage, EmptyFile
<1>8. CASE UNCHANGED vars
  <2>1. diskPages' = diskPages /\ diskHeader' = diskHeader /\ put' = put /\ pc' = pc
    BY <1>8 DEF vars, disk
  <2>2. \A a : ContinuesOn(a)' = ContinuesOn(a)
    BY <2>1 DEF ContinuesOn
  <2> QED BY <2>1, <2>2 DEF NamesInv, HasNewPage
<1> QED BY <1>1, <1>2, <1>3, <1>5, <1>6, <1>7, <1>8, Zenon DEF Next, Steps, Calls

--------------------------------------------------------------------------------
(***************************************************************************)
(* A delete goes on with parts that are there, and after its first step    *)
(* no part leads to the one it goes on with.                               *)
(***************************************************************************)
DeleteInv ==
  pc = "delete" =>
    /\ target \in Whole(diskPages)
    /\ Part(diskPages, target).data.from > 0 =>
         \A a \in Slots(diskPages) : NextPart(diskPages, a) # target

\* A part that another one leads to is not the first of its item.
LEMMA JoinsLater ==
  ASSUME NEW pages, PartsHaveBytes(pages), NEW a \in Slots(pages), Joins(pages, a)
  PROVE  Part(pages, NextPart(pages, a)).data.from > 0
PROOF
<1>1. Part(pages, a).data.from \in Nat /\ Part(pages, a).size \in Nat \ {0}
  BY DEF PartsHaveBytes, PartData
<1>2. Part(pages, NextPart(pages, a)).data.from = Part(pages, a).data.from + Part(pages, a).size
  BY DEF Joins, Continues
<1> QED BY <1>1, <1>2

\* Two parts do not lead to the same one.
LEMMA OneLeads ==
  ASSUME IndInv, NamesInv, NEW a \in Slots(diskPages), NEW b \in Slots(diskPages),
         NEW c, c.page # -1, NextPart(diskPages, a) = c, NextPart(diskPages, b) = c
  PROVE  a = b
PROOF
<1>1. ContinuesOn(a) = c.page /\ ContinuesOn(b) = c.page
  BY PartOK DEF IndInv, ContinuesOn
<1> QED BY <1>1 DEF NamesInv

\* The part that is deleted is a part of no other item.
LEMMA DeletePartWhole ==
  ASSUME IndInv, FileInv, PartsFitInv, DeleteInv, DeletePart
  PROVE  /\ Whole(diskPages') = Whole(diskPages) \ {target}
         /\ \A a \in Slots(diskPages) :
              Joins(diskPages, a) => NextPart(diskPages, a) # target
PROOF
<1> DEFINE D == Slots(diskPages')
<1>1. /\ pc = "delete" /\ D = Slots(diskPages) \ {target}
      /\ \A a \in D : Part(diskPages', a) = Part(diskPages, a)
  BY DeletePartSlots
<1>2. PartsHaveBytes(diskPages)
  BY FitHasBytes DEF PartsFitInv, IndInv
<1>3. \A a \in Slots(diskPages) : Joins(diskPages, a) => NextPart(diskPages, a) # target
  BY <1>1, <1>2, JoinsLater DEF DeleteInv
<1>4. \A a \in D : Joins(diskPages, a) => NextPart(diskPages, a) \in D
  BY <1>1, <1>3 DEF Joins
<1>5. \A a \in D : Joins(diskPages', a) => NextPart(diskPages', a) \in D
  BY DEF Joins
<1> HIDE DEF D
<1>6. \A a \in D : a \in Whole(diskPages') <=> a \in Whole(diskPages)
  <2>1. D \subseteq Slots(diskPages) \cap Slots(diskPages')
    BY <1>1 DEF D
  <2> QED BY <1>1, <1>2, <1>4, <1>5, <2>1, WholeAgrees
<1>7. Whole(diskPages') \subseteq D /\ Whole(diskPages) \subseteq Slots(diskPages)
  BY WholeIsFixpoint DEF D
<1> QED BY <1>1, <1>3, <1>6, <1>7

LEMMA DeletePartGoesOn ==
  ASSUME IndInv, FileInv, PartsFitInv, NamesInv, DeleteInv, DeletePart
  PROVE  DeleteInv'
PROOF
<1>1. /\ pc = "delete" /\ target \in Slots(diskPages)
      /\ IF Part(diskPages, target).continues_on_page = -1
           THEN pc' = "idle" ELSE pc' = "delete" /\ target' = NextPart(diskPages, target)
      /\ Slots(diskPages') = Slots(diskPages) \ {target}
      /\ \A a \in Slots(diskPages') : Part(diskPages', a) = Part(diskPages, a)
  BY DeletePartSlots
<1>2. SUFFICES ASSUME Part(diskPages, target).continues_on_page # -1
               PROVE  /\ target' \in Whole(diskPages')
                      /\ \A a \in Slots(diskPages') : NextPart(diskPages', a) # target'
  BY <1>1 DEF DeleteInv
<1>3. Joins(diskPages, target) /\ NextPart(diskPages, target) \in Whole(diskPages)
  BY <1>1, <1>2, WholeIsFixpoint DEF DeleteInv, EndsItem
<1>4. target' \in Whole(diskPages')
  BY <1>1, <1>2, <1>3, DeletePartWhole
<1>5. target'.page # -1
  BY <1>1, <1>2, PartOK DEF IndInv
<1>6. ASSUME NEW a \in Slots(diskPages'), NextPart(diskPages', a) = target'
      PROVE  FALSE
  <2>1. a \in Slots(diskPages) /\ a # target /\ NextPart(diskPages, a) = target'
    BY <1>1, <1>6 DEF NextPart
  <2>2. NextPart(diskPages, target) = target'
    BY <1>1, <1>2
  <2> QED BY <1>1, <1>5, <2>1, <2>2, OneLeads
<1> QED BY <1>4, <1>6

\* Every step keeps what a delete goes on with.
LEMMA NextDelete ==
  ASSUME IndInv, FileInv, PartsFitInv, NamesInv, DeleteInv, [Next]_vars
  PROVE  DeleteInv'
PROOF
<1>1. CASE DeletePart
  BY <1>1, DeletePartGoesOn
<1>2. ASSUME NEW a \in DOMAIN Store, GetItem(a) \/ GetItemAborts(a) \/ DeleteStart(a)
      PROVE  DeleteInv'
  <2>1. CASE DeleteStart(a)
    <3>1. /\ a \in Whole(diskPages) /\ Part(diskPages, a).data.from = 0
          /\ diskPages' = diskPages /\ target' = a
      BY <2>1, StoreOK DEF DeleteStart, disk
    <3> QED BY <3>1 DEF DeleteInv
  <2>2. CASE GetItem(a) \/ GetItemAborts(a)
    BY <2>2 DEF GetItem, GetItemAborts, Die, DeleteInv
  <2> QED BY <1>2, <2>1, <2>2
<1>3. CASE pc' # "delete"
  BY <1>3 DEF DeleteInv
<1>4. ASSUME NEW ok \in WriteOutcomes, AllocPage(ok) \/ WriteNewPage(ok) \/ SetFreePage(ok)
      PROVE  DeleteInv'
  <2>1. CASE AllocPage(ok) \/ WriteNewPage(ok)
    BY <1>3, <2>1 DEF AllocPage, CountPage, WriteNewPage, NewPageReturned
  <2>2. CASE SetFreePage(ok)
    <3>1. put.caller \in {"get_page", "full", "split"}
      BY <2>2 DEF SetFreePage, IndInv, PutInv, Types, PutType
    <3> QED BY <1>3, <2>2, <3>1 DEF SetFreePage, PutGoesOn
  <2> QED BY <1>4, <2>1, <2>2
<1>5. CASE PageFull \/ SplitItem \/ ItemFits \/ AddPart \/ PutReturns \/ WriteAborts
           \/ AddPartAborts \/ OpenFails \/ OpenWithPages \/ OpenWithoutPages \/ OpenAborts
           \/ Close \/ FreePages \/ Crash
  BY <1>3, <1>5 DEF PageFull, SplitItem, ItemFits, AddPart, WritePart, PutReturns, WriteAborts,
     AddPartAborts, OpenFails, OpenWithPages, OpenWithoutPages, OpenIfNone, OpenAborts,
     Close, FreePages, Crash, Die
<1>6. ASSUME NEW x \in Items, PutStart(x) \/ PutAborts(x)
      PROVE  DeleteInv'
  <2>1. CASE PutStart(x)
    BY <1>3, <2>1 DEF PutStart
  <2>2. CASE PutAborts(x)
    BY <1>3, <2>2 DEF PutAborts, Die
  <2> QED BY <1>6, <2>1, <2>2
<1>7. CASE UNCHANGED vars
  BY <1>7, Zenon DEF vars, disk, DeleteInv
<1> QED BY <1>1, <1>2, <1>4, <1>5, <1>6, <1>7, Zenon DEF Next, Steps, Calls

\* What the parts of the file are while no write fails.
PartsInv == ChainInv /\ FileInv /\ NamesInv /\ DeleteInv

LEMMA PartsInvariance ==
  ASSUME MaxFaults = 0
  PROVE  Spec => [](IndInv /\ PartsInv)
PROOF
<1>1. Init => IndInv /\ PartsInv
  <2> SUFFICES ASSUME Init PROVE IndInv /\ PartsInv
    OBVIOUS
  <2>1. \A a : a \notin Slots(diskPages)
    BY DEF Init, Slots, NoPages
  <2> QED BY <2>1, InitChain, InitFileInv DEF PartsInv, NamesInv, DeleteInv, HasNewPage, Init
<1>2. IndInv /\ PartsInv /\ [Next]_vars => (IndInv /\ PartsInv)'
  <2> SUFFICES ASSUME IndInv, PartsInv, [Next]_vars PROVE IndInv' /\ PartsInv'
    OBVIOUS
  <2>1. IndInv' /\ ChainInv' /\ FileInv'
    BY NextChain, NextFileInv DEF PartsInv
  <2>2. NamesInv' /\ DeleteInv'
    BY NextNames, NextDelete DEF PartsInv, ChainInv
  <2> QED BY <2>1, <2>2 DEF PartsInv
<1> QED BY <1>1, <1>2, PTL DEF Spec

--------------------------------------------------------------------------------
(***************************************************************************)
(* The slots an item is read from.  Chain goes on for as many steps as     *)
(* there are slots: by then no step leads further.                         *)
(***************************************************************************)
Further(pages, S) ==
  S \cup {NextPart(pages, b) :
            b \in {c \in S \cap Slots(pages) : Part(pages, c).continues_on_page # NullPage}}

Reach(pages, a, f, m) ==
  f = [n \in 0 .. m |-> IF n = 0 THEN {a} ELSE Further(pages, f[n - 1])]

\* The image of a finite set is finite, and no larger.
LEMMA ImageFinite ==
  ASSUME NEW S, IsFiniteSet(S), NEW f, DOMAIN f = S
  PROVE  IsFiniteSet({f[x] : x \in S}) /\ Cardinality({f[x] : x \in S}) <= Cardinality(S)
PROOF
<1> DEFINE T == {f[x] : x \in S}
           g == [x \in S |-> f[x]]
<1>1. g \in Surjection(S, T)
  BY DEF Surjection
<1> HIDE DEF T, g
<1>2. IsFiniteSet(T) /\ Cardinality(T) <= Cardinality(S)
  BY <1>1, FS_Surjection
<1> QED BY <1>2 DEF T

\* A file has finitely many slots.
LEMMA SlotsFinite ==
  ASSUME NEW pages, DiskOK(pages), IsFiniteSet(DOMAIN pages)
  PROVE  IsFiniteSet(Slots(pages))
PROOF
<1> DEFINE at == [p \in DOMAIN pages |-> {Address(p, i) : i \in 0 .. pages[p].next_item_id - 1}]
           all == {at[p] : p \in DOMAIN pages}
<1>1. ASSUME NEW p \in DOMAIN pages PROVE IsFiniteSet(at[p])
  <2> DEFINE n == pages[p].next_item_id
             I == 0 .. n - 1
             f == [i \in I |-> Address(p, i)]
  <2>1. n \in Nat
    BY DEF DiskOK, PageOK, PageType
  <2>2. IsFiniteSet(I)
    <3> HIDE DEF n
    <3> QED BY <2>1, FS_Interval
  <2>3. at[p] = {f[i] : i \in I}
    OBVIOUS
  <2>4. DOMAIN f = I
    OBVIOUS
  <2> HIDE DEF f, I
  <2>5. IsFiniteSet({f[i] : i \in I})
    BY <2>2, <2>4, ImageFinite
  <2> HIDE DEF at
  <2> QED BY <2>3, <2>5
<1>2. DOMAIN at = DOMAIN pages
  OBVIOUS
<1>3. Slots(pages) \subseteq UNION all
  BY DEF Slots
<1> HIDE DEF at
<1>4. IsFiniteSet(all)
  BY <1>2, ImageFinite
<1>5. \A T \in all : IsFiniteSet(T)
  BY <1>1
<1> HIDE DEF all
<1>6. IsFiniteSet(UNION all)
  BY <1>4, <1>5, FS_UNION
<1> QED BY <1>3, <1>6, FS_Subset

\* The function that Chain is defined by is what its definition by recursion says.
LEMMA ReachIsThere ==
  ASSUME NEW pages, NEW a, NEW m \in Nat
  PROVE  \E f : Reach(pages, a, f, m)
PROOF
<1> DEFINE Has(k) == \E f : Reach(pages, a, f, k)
           T == {k \in Nat : ~ Has(k)}
<1> SUFFICES ASSUME T # {} PROVE FALSE
  BY Zenon
<1>1. PICK k \in T : \A j \in T : k <= j
  BY LeastNumber
<1>2. k # 0
  <2> SUFFICES ASSUME k = 0 PROVE Has(k)
    BY <1>1
  <2> DEFINE zero == [n \in 0 .. k |-> {a}]
  <2>1. Reach(pages, a, zero, k)
    BY DEF Reach
  <2> HIDE DEF zero
  <2> QED BY <2>1, Zenon
<1>3. k \in Nat /\ ~ Has(k) /\ k - 1 \in Nat /\ Has(k - 1)
  <2> HIDE DEF Has
  <2> QED BY <1>1, <1>2
<1>4. PICK f : Reach(pages, a, f, k - 1)
  BY <1>3
<1> DEFINE g == [n \in 0 .. k |-> IF n = k THEN Further(pages, f[k - 1]) ELSE f[n]]
<1>5. ASSUME NEW n \in 0 .. k
      PROVE  g[n] = IF n = 0 THEN {a} ELSE Further(pages, g[n - 1])
  <2>1. \A j \in 0 .. k - 1 : f[j] = IF j = 0 THEN {a} ELSE Further(pages, f[j - 1])
    BY <1>4 DEF Reach
  <2>2. \A j \in 0 .. k - 1 : g[j] = f[j]
    BY <1>3
  <2>3. g[k] = Further(pages, f[k - 1])
    BY <1>3
  <2> HIDE DEF g
  <2>4. CASE n = k
    BY <1>2, <1>3, <2>2, <2>3, <2>4
  <2>5. CASE n # k
    <3>1. n \in 0 .. k - 1 /\ (n # 0 => n - 1 \in 0 .. k - 1)
      BY <1>3, <2>5
    <3> QED BY <2>1, <2>2, <3>1
  <2> QED BY <2>4, <2>5
<1>6. Reach(pages, a, g, k)
  BY <1>5 DEF Reach
<1> HIDE DEF g
<1> QED BY <1>3, <1>6, Zenon

ChainBy(pages, a, f, m) ==
  /\ m = Cardinality(Slots(pages)) /\ Chain(pages, a) = f[m]
  /\ \A n \in 0 .. m : f[n] = IF n = 0 THEN {a} ELSE Further(pages, f[n - 1])

LEMMA ChainIsReach ==
  ASSUME NEW pages, NEW a, IsFiniteSet(Slots(pages))
  PROVE  \E m \in Nat : \E f : ChainBy(pages, a, f, m)
PROOF
<1> DEFINE m == Cardinality(Slots(pages))
           reach == CHOOSE f : Reach(pages, a, f, m)
<1>1. Chain(pages, a) = reach[m]
  BY Zenon DEF Chain, Reach, Further
<1>2. m \in Nat
  BY FS_CardinalityType
<1>3. Reach(pages, a, reach, m)
  <2>1. \E f : Reach(pages, a, f, m)
    BY <1>2, ReachIsThere
  <2> QED BY <2>1, Zenon
<1> HIDE DEF reach
<1>4. \A n \in 0 .. m : reach[n] = IF n = 0 THEN {a} ELSE Further(pages, reach[n - 1])
  BY <1>3 DEF Reach
<1>5. ChainBy(pages, a, reach, m)
  BY <1>1, <1>4 DEF ChainBy
<1> HIDE DEF m
<1> QED BY <1>2, <1>5

\* The part an item is read from is among those that are read.
LEMMA ChainStarts ==
  ASSUME NEW pages, NEW a, IsFiniteSet(Slots(pages))
  PROVE  a \in Chain(pages, a)
PROOF
<1>0. PICK m \in Nat : \E f : ChainBy(pages, a, f, m)
  BY ChainIsReach
<1>1. PICK f : ChainBy(pages, a, f, m)
  BY <1>0
<1>2. /\ Chain(pages, a) = f[m]
      /\ \A n \in 0 .. m : f[n] = IF n = 0 THEN {a} ELSE Further(pages, f[n - 1])
  BY <1>1 DEF ChainBy
<1> DEFINE T == {n \in 0 .. m : a \notin f[n]}
<1> SUFFICES ASSUME T # {} PROVE FALSE
  BY <1>1, <1>2
<1>3. T \in SUBSET Nat
  OBVIOUS
<1>4. PICK n \in T : \A k \in T : n <= k
  BY <1>3, LeastNumber
<1>5. n # 0
  BY <1>2, <1>4
<1>6. n - 1 \in 0 .. m /\ n - 1 \notin T
  BY <1>1, <1>4, <1>5
<1>7. a \in f[n - 1] /\ f[n] = Further(pages, f[n - 1])
  BY <1>2, <1>4, <1>5, <1>6
<1> QED BY <1>4, <1>7 DEF Further

\* The slot that a part read names is read too.
LEMMA ChainClosed ==
  ASSUME NEW pages, NEW a, IsFiniteSet(Slots(pages)),
         NEW b \in Chain(pages, a) \cap Slots(pages), Part(pages, b).continues_on_page # -1
  PROVE  NextPart(pages, b) \in Chain(pages, a)
PROOF
<1> DEFINE live == Slots(pages)
           next == [c \in live |-> NextPart(pages, c)]
           all == {next[c] : c \in live} \cup {a}
<1>0. PICK m \in Nat : \E f : ChainBy(pages, a, f, m)
  BY ChainIsReach
<1>1. PICK f : ChainBy(pages, a, f, m)
  BY <1>0
<1>2. /\ m = Cardinality(live) /\ Chain(pages, a) = f[m]
      /\ \A n \in 0 .. m : f[n] = IF n = 0 THEN {a} ELSE Further(pages, f[n - 1])
  BY <1>1 DEF ChainBy
<1> DEFINE F(S) == Further(pages, S)
<1>3. SUFFICES F(f[m]) = f[m]
  BY <1>2 DEF Further
<1>4. \A S : S \subseteq F(S) /\ (S \subseteq all => F(S) \subseteq all)
  BY DEF Further
<1>5. IsFiniteSet(all) /\ Cardinality(all) <= m + 1
  <2> DEFINE N == {next[c] : c \in live}
  <2>1. DOMAIN next = live
    OBVIOUS
  <2> HIDE DEF next
  <2>2. IsFiniteSet(N) /\ Cardinality(N) <= m
    BY <1>2, <2>1, ImageFinite
  <2> HIDE DEF N
  <2>3. /\ IsFiniteSet(N \cup {a}) /\ Cardinality(N) \in Nat
        /\ Cardinality(N \cup {a}) = IF a \in N THEN Cardinality(N) ELSE Cardinality(N) + 1
    BY <2>2, FS_AddElement, FS_CardinalityType
  <2>4. Cardinality(N \cup {a}) <= m + 1
    BY <1>1, <2>2, <2>3
  <2> QED BY <2>3, <2>4 DEF N
<1> HIDE DEF all, F
<1>6. a \in all
  BY DEF all
\* As long as the sets grow, they have one more element each time.
<1> DEFINE Grown(n) == f[n] \subseteq all /\ (F(f[n]) # f[n] => Cardinality(f[n]) >= n + 1)
           T == {n \in 0 .. m : ~ Grown(n)}
<1>7. \A n \in 0 .. m : Grown(n)
  <2> SUFFICES ASSUME T # {} PROVE FALSE
    OBVIOUS
  <2>1. T \in SUBSET Nat
    OBVIOUS
  <2>2. PICK n \in T : \A k \in T : n <= k
    BY <2>1, LeastNumber
  <2>3. n # 0
    <3>1. f[0] = {a}
      BY <1>1, <1>2
    <3>2. Cardinality({a}) = 1
      BY FS_Singleton
    <3> QED BY <1>6, <2>2, <3>1, <3>2
  <2>4. n - 1 \in 0 .. m /\ n - 1 \notin T
    BY <1>1, <2>2, <2>3
  <2> DEFINE S == f[n - 1]
  <2>5. S \subseteq all /\ (F(S) # S => Cardinality(S) >= n) /\ f[n] = F(S)
    BY <1>2, <2>2, <2>3, <2>4 DEF F
  <2> HIDE DEF S
  <2>6. ASSUME F(f[n]) # f[n] PROVE Cardinality(f[n]) >= n + 1
    <3>1. F(S) # S /\ S \subseteq F(S)
      BY <1>4, <2>5, <2>6
    <3>2. PICK c \in F(S) : c \notin S
      BY <3>1
    <3>3. IsFiniteSet(F(S)) /\ IsFiniteSet(S)
      BY <1>4, <1>5, <2>5, FS_Subset
    <3>4. Cardinality(S \cup {c}) = Cardinality(S) + 1 /\ S \cup {c} \in SUBSET F(S)
      BY <3>1, <3>2, <3>3, FS_AddElement
    <3>5. Cardinality(S \cup {c}) <= Cardinality(F(S))
      BY <3>3, <3>4, FS_Subset
    <3>6. Cardinality(S) \in Nat /\ Cardinality(F(S)) \in Nat /\ Cardinality(S) >= n
      BY <2>5, <3>1, <3>3, FS_CardinalityType
    <3> QED BY <2>2, <2>5, <3>4, <3>5, <3>6
  <2> QED BY <1>4, <2>2, <2>5, <2>6
\* There are no more than m + 1.
<1>8. SUFFICES ASSUME F(f[m]) # f[m] PROVE FALSE
  OBVIOUS
<1> DEFINE S == f[m]
<1>9. S \subseteq all /\ Cardinality(S) >= m + 1 /\ S \subseteq F(S) /\ F(S) \subseteq all
  BY <1>1, <1>4, <1>7, <1>8
<1>10. F(S) # S
  BY <1>8
<1> HIDE DEF S
<1>11. PICK c \in F(S) : c \notin S
  BY <1>9, <1>10
<1>12. IsFiniteSet(S) /\ S \cup {c} \in SUBSET all
  BY <1>5, <1>9, FS_Subset
<1>13. Cardinality(S \cup {c}) = Cardinality(S) + 1 /\ Cardinality(S \cup {c}) <= Cardinality(all)
  BY <1>5, <1>11, <1>12, FS_AddElement, FS_Subset
<1>14. Cardinality(S) \in Nat /\ Cardinality(all) \in Nat
  BY <1>5, <1>12, FS_CardinalityType
<1> QED BY <1>1, <1>5, <1>9, <1>13, <1>14

(***************************************************************************)
(* What a delete goes on with is in the file, whatever writes failed       *)
(* before it: the caller has read the item, so that the pages of its parts *)
(* are those of the file, and a delete whose write fails ends.             *)
(***************************************************************************)
\* Parts from which the rest of an item is read, each on a page of the file.
Sound(S) ==
  \A b \in S :
    /\ EndsItem(Part(diskPages, b)) \/ (Joins(diskPages, b) /\ NextPart(diskPages, b) \in S)
    /\ FileReads(b.page)

DeletesPart == \E S \in SUBSET Slots(diskPages) : target \in S /\ Sound(S)

DeletesInv == pc = "delete" => DeletesPart

\* The file has finitely many pages.
FinitePages == IsFiniteSet(DOMAIN diskPages)

\* A step writes a page of the memory, or leaves the pages of the file alone.
LEMMA PageWrites ==
  ASSUME IndInv, [Next]_vars
  PROVE  \/ diskPages' = diskPages
         \/ \E id \in Nat : \E ok \in BOOLEAN : WritePage(id, ok)
PROOF
<1>1. ASSUME NEW ok \in WriteOutcomes, AllocPage(ok) \/ WriteNewPage(ok) \/ SetFreePage(ok)
      PROVE  diskPages' = diskPages \/ \E id \in Nat : \E good \in BOOLEAN : WritePage(id, good)
  <2>1. CASE WriteNewPage(ok)
    <3>1. put.free \in Nat /\ WritePage(put.free, ok)
      BY <2>1 DEF WriteNewPage, IndInv, PutInv, RamOK
    <3>2. ok \in BOOLEAN
      BY DEF WriteOutcomes, Outcomes
    <3> QED BY <3>1, <3>2
  <2>2. CASE AllocPage(ok) \/ SetFreePage(ok)
    BY <2>2 DEF AllocPage, CountPage, SetFreePage
  <2> QED BY <1>1, <2>1, <2>2
<1>2. CASE AddPart
  <2>1. WritePage(put.cur, TRUE) /\ put.cur \in DOMAIN ram
    BY <1>2 DEF AddPart, WritePart, IndInv, PutInv
  <2>2. put.cur \in Nat
    BY <2>1 DEF IndInv, RamOK
  <2> QED BY <2>1, <2>2
<1>3. CASE DeletePart
  <2>1. WritePage(target.page, TRUE) /\ Readable(target.page)
    BY <1>3 DEF DeletePart, DeleteSlot
  <2>2. target.page \in Nat
    BY <2>1 DEF Readable, IndInv, RamOK, DiskOK
  <2> QED BY <2>1, <2>2
<1>4. CASE PageFull \/ SplitItem \/ ItemFits \/ PutReturns \/ WriteAborts \/ AddPartAborts
           \/ OpenFails \/ OpenWithPages \/ OpenWithoutPages \/ OpenAborts \/ Close \/ FreePages
           \/ Crash
  BY <1>4 DEF PageFull, SplitItem, ItemFits, PutReturns, WriteAborts, AddPartAborts, OpenFails,
     OpenWithPages, OpenWithoutPages, OpenIfNone, OpenAborts, Close, FreePages, Crash, disk
<1>5. ASSUME NEW x \in Items, PutStart(x) \/ PutAborts(x)
      PROVE  diskPages' = diskPages
  BY <1>5 DEF PutStart, PutAborts, disk
<1>6. ASSUME NEW a \in DOMAIN Store, GetItem(a) \/ GetItemAborts(a) \/ DeleteStart(a)
      PROVE  diskPages' = diskPages
  BY <1>6 DEF GetItem, GetItemAborts, DeleteStart, disk
<1>7. CASE UNCHANGED vars
  BY <1>7 DEF vars, disk
<1> QED BY <1>1, <1>2, <1>3, <1>4, <1>5, <1>6, <1>7, Zenon DEF Next, Steps, Calls

LEMMA NextFinitePages ==
  ASSUME IndInv, FinitePages, [Next]_vars
  PROVE  FinitePages'
PROOF
<1>1. ASSUME NEW id \in Nat, NEW ok \in BOOLEAN, WritePage(id, ok)
      PROVE  FinitePages'
  <2>1. DOMAIN diskPages' \in {DOMAIN diskPages, DOMAIN diskPages \cup 0 .. id}
    BY <1>1 DEF WritePage, Extended
  <2>2. IsFiniteSet(0 .. id)
    BY FS_Interval
  <2>3. IsFiniteSet(DOMAIN diskPages \cup 0 .. id)
    BY <2>2, FS_Union DEF FinitePages
  <2> QED BY <2>1, <2>3 DEF FinitePages
<1> QED BY <1>1, PageWrites DEF FinitePages

\* A caller that has read an item has the pages of its parts.
LEMMA DeleteStartReads ==
  ASSUME IndInv, FinitePages, NEW a \in DOMAIN Store, DeleteStart(a)
  PROVE  DeletesPart'
PROOF
<1> DEFINE chain == Chain(diskPages, a)
           S == chain \cap Whole(diskPages)
           ids == ChainPages(diskPages, a)
<1>1. /\ diskPages' = diskPages /\ header' = header /\ target' = a /\ ram' = Loaded(ids)
      /\ \A id \in ids : Readable(id) /\ Read(id) = diskPages[id] /\ Read(id).page_id = id
  BY DEF DeleteStart, Reads, disk
<1>2. DiskOK(diskPages) /\ IsFiniteSet(Slots(diskPages))
  BY SlotsFinite DEF IndInv, FinitePages
<1>3. S \in SUBSET Slots(diskPages) /\ a \in S
  <2>1. Whole(diskPages) \subseteq Slots(diskPages) /\ a \in Whole(diskPages)
    BY WholeIsFixpoint, StoreOK
  <2> QED BY <1>2, <2>1, ChainStarts
<1>4. ASSUME NEW b \in S
      PROVE  EndsItem(Part(diskPages, b)) \/ (Joins(diskPages, b) /\ NextPart(diskPages, b) \in S)
  <2>1. SUFFICES ASSUME ~ EndsItem(Part(diskPages, b))
                 PROVE  Joins(diskPages, b) /\ NextPart(diskPages, b) \in S
    OBVIOUS
  <2>2. b \in Slots(diskPages) /\ b \in Whole(diskPages) /\ b \in chain
    BY <1>3
  <2>3. Joins(diskPages, b) /\ NextPart(diskPages, b) \in Whole(diskPages)
    BY <2>1, <2>2, WholeIsFixpoint
  <2>4. Part(diskPages, b).continues_on_page # -1
    BY <1>2, <2>3, JoinsOK
  <2>5. NextPart(diskPages, b) \in chain
    BY <1>2, <2>2, <2>4, ChainClosed
  <2> QED BY <2>3, <2>5
<1>5. ASSUME NEW id \in ids, id \in DOMAIN diskPages
      PROVE  FileReads(id)'
  <2> DEFINE found == {Read(k) : k \in ids}
  <2>1. /\ Read(id) \in found /\ Read(id).page_id = id
        /\ \A p \in found : p.page_id = id => p = Read(id)
    <3>1. \A p \in found : \E k \in ids : p = Read(k) /\ p.page_id = k
      BY <1>1
    <3>2. Read(id) \in found
      OBVIOUS
    <3> HIDE DEF found, ids
    <3> QED BY <1>1, <3>1, <3>2
  <2>2. /\ DOMAIN ram' = DOMAIN ram \cup {p.page_id : p \in found}
        /\ \A k \in DOMAIN ram' :
             ram'[k] = IF \E p \in found : p.page_id = k
                         THEN CHOOSE p \in found : p.page_id = k ELSE ram[k]
    BY <1>1, Zenon DEF Loaded
  <2> HIDE DEF found, ids
  <2>3. id \in DOMAIN ram'
    BY <2>1, <2>2
  <2>4. ram'[id] = CHOOSE p \in found : p.page_id = id
    BY <2>1, <2>2, <2>3
  <2>5. ram'[id] = diskPages[id]
    BY <1>1, <2>1, <2>4
  <2> QED BY <1>1, <1>5, <2>3, <2>5 DEF FileReads, Readable, Read
<1>6. \A b \in S : b.page \in ids /\ b.page \in DOMAIN diskPages
  BY <1>2, <1>3, SlotsOK DEF ChainPages
<1> HIDE DEF S, ids, chain
<1>7. PICK R \in SUBSET Slots(diskPages) : R = S
  BY <1>3
<1>8. Sound(R)'
  <2>1. \A b \in R : /\ Part(diskPages', b) = Part(diskPages, b)
                     /\ NextPart(diskPages', b) = NextPart(diskPages, b)
                     /\ Joins(diskPages', b) = Joins(diskPages, b)
    BY <1>1
  <2>2. \A b \in R : FileReads(b.page)'
    BY <1>5, <1>6, <1>7
  <2> QED BY <1>4, <1>7, <2>1, <2>2 DEF Sound
<1>9. R \in SUBSET Slots(diskPages') /\ target' \in R
  BY <1>1, <1>3, <1>7
<1> QED BY <1>8, <1>9 DEF DeletesPart

\* The parts that are left are those further on.
LEMMA DeletePartReads ==
  ASSUME IndInv, PartsFitInv, DeletesPart, DeletePart, pc' = "delete"
  PROVE  DeletesPart'
PROOF
<1>0. PICK S \in SUBSET Slots(diskPages) : target \in S /\ Sound(S)
  BY DEF DeletesPart
<1>1. FileReads(target.page)
  BY <1>0 DEF Sound
<1>2. /\ target' = NextPart(diskPages, target) /\ header' = header
      /\ Part(diskPages, target).continues_on_page # -1
      /\ Slots(diskPages') = Slots(diskPages) \ {target}
      /\ \A b \in Slots(diskPages') : Part(diskPages', b) = Part(diskPages, b)
      /\ ram' = With(ram, target.page, DeleteItem(Read(target.page), target.item))
      /\ WritePage(target.page, TRUE) /\ target.page \in DOMAIN ram' /\ RamOK(ram')
  BY <1>1, DeletePartSlots
<1>3. Joins(diskPages, target) /\ target' \in S
  BY <1>0, <1>2 DEF Sound, EndsItem
<1>4. \A b \in S : Rest(diskPages, b) \in Nat
  BY FitHasBytes DEF IndInv, PartsFitInv, PartsHaveBytes, PartData, Rest
<1>5. \A b \in S : Joins(diskPages, b) =>
        Rest(diskPages, NextPart(diskPages, b)) < Rest(diskPages, b)
  <2> TAKE b \in S
  <2> SUFFICES ASSUME Joins(diskPages, b)
               PROVE  Rest(diskPages, NextPart(diskPages, b)) < Rest(diskPages, b)
    OBVIOUS
  <2>1. /\ Part(diskPages, b).data.from \in Nat /\ Part(diskPages, b).size \in Nat \ {0}
        /\ Size[Part(diskPages, b).data.item] \in Nat
    BY FitHasBytes DEF IndInv, PartsFitInv, PartsHaveBytes, PartData
  <2>2. /\ Part(diskPages, NextPart(diskPages, b)).data.item = Part(diskPages, b).data.item
        /\ Part(diskPages, NextPart(diskPages, b)).data.from
             = Part(diskPages, b).data.from + Part(diskPages, b).size
    BY DEF Joins, Continues
  <2> QED BY <2>1, <2>2 DEF Rest
<1> DEFINE T == {b \in S : Rest(diskPages, b) < Rest(diskPages, target)}
<1>6. target' \in T /\ T \in SUBSET Slots(diskPages')
  BY <1>0, <1>2, <1>3, <1>4, <1>5
<1>7. ASSUME NEW b \in T
      PROVE  \/ EndsItem(Part(diskPages', b))
             \/ Joins(diskPages', b) /\ NextPart(diskPages', b) \in T
  <2>1. Part(diskPages', b) = Part(diskPages, b) /\ NextPart(diskPages', b) = NextPart(diskPages, b)
    BY <1>2, <1>6 DEF NextPart
  <2>2. SUFFICES ASSUME ~ EndsItem(Part(diskPages, b))
                 PROVE  Joins(diskPages', b) /\ NextPart(diskPages, b) \in T
    BY <2>1
  <2>3. Joins(diskPages, b) /\ NextPart(diskPages, b) \in S
    BY <1>0, <2>2 DEF Sound
  <2>4. NextPart(diskPages, b) \in T
    BY <1>0, <1>4, <1>5, <2>3
  <2> HIDE DEF T
  <2>5. Joins(diskPages', b)
    BY <1>2, <1>6, <2>1, <2>3, <2>4 DEF Joins
  <2> QED BY <2>4, <2>5
<1>8. ASSUME NEW b \in T
      PROVE  FileReads(b.page)'
  <2>1. FileReads(b.page)
    BY <1>0 DEF Sound
  <2>2. /\ DiskOK(diskPages) /\ DOMAIN ram' = DOMAIN ram \cup {target.page}
        /\ \A k \in DOMAIN ram : k # target.page => ram'[k] = ram[k]
    BY <1>2 DEF With, IndInv
  <2>3. /\ DOMAIN diskPages \subseteq DOMAIN diskPages'
        /\ \A x \in DOMAIN diskPages : x # target.page => diskPages'[x] = diskPages[x]
        /\ diskPages'[target.page] = ram'[target.page]
    BY <1>2, <2>2, WrittenOK
  <2> QED BY <1>2, <2>1, <2>2, <2>3 DEF FileReads, Readable, Read
<1> HIDE DEF T
<1> QED BY <1>6, <1>7, <1>8 DEF DeletesPart, Sound

\* A step that leaves the program in a delete starts it or goes on with it.
LEMMA DeleteStep ==
  ASSUME IndInv, [Next]_vars, pc' = "delete"
  PROVE  \/ DeletePart \/ UNCHANGED vars
         \/ \E a \in DOMAIN Store : DeleteStart(a)
PROOF
<1>1. ~ (PageFull \/ SplitItem \/ ItemFits \/ AddPart \/ PutReturns \/ WriteAborts
         \/ AddPartAborts \/ OpenFails \/ OpenWithPages \/ OpenWithoutPages \/ OpenAborts
         \/ Close \/ FreePages \/ Crash)
  BY DEF PageFull, SplitItem, ItemFits, AddPart, WritePart, PutReturns, WriteAborts,
     AddPartAborts, OpenFails, OpenWithPages, OpenWithoutPages, OpenIfNone, OpenAborts,
     Close, FreePages, Crash, Die
<1>2. ASSUME NEW ok \in WriteOutcomes
      PROVE  ~ (AllocPage(ok) \/ WriteNewPage(ok) \/ SetFreePage(ok))
  <2>1. ~ (AllocPage(ok) \/ WriteNewPage(ok))
    BY DEF AllocPage, CountPage, WriteNewPage, NewPageReturned
  <2>2. ASSUME SetFreePage(ok) PROVE FALSE
    <3>1. put.caller \in {"get_page", "full", "split"}
      BY <2>2 DEF SetFreePage, IndInv, PutInv, Types, PutType
    <3> QED BY <2>2, <3>1 DEF SetFreePage, PutGoesOn
  <2> QED BY <2>1, <2>2
<1>3. \A x \in Items : ~ (PutStart(x) \/ PutAborts(x))
  BY DEF PutStart, PutAborts, Die
<1>4. \A a : ~ (GetItem(a) \/ GetItemAborts(a))
  BY DEF GetItem, GetItemAborts, Die
<1> QED BY <1>1, <1>2, <1>3, <1>4, Zenon DEF Next, Steps, Calls

LEMMA NextDeletes ==
  ASSUME IndInv, PartsFitInv, FinitePages, DeletesInv, [Next]_vars
  PROVE  DeletesInv'
PROOF
<1>1. SUFFICES ASSUME pc' = "delete" PROVE DeletesPart'
  BY DEF DeletesInv
<1>2. CASE DeletePart
  <2>1. DeletesPart
    BY <1>2 DEF DeletePart, DeleteSlot, DeletesInv
  <2> QED BY <1>1, <1>2, <2>1, DeletePartReads
<1>3. ASSUME NEW a \in DOMAIN Store, DeleteStart(a) PROVE DeletesPart'
  BY <1>3, DeleteStartReads
<1>4. CASE UNCHANGED vars
  <2>1. /\ diskPages' = diskPages /\ header' = header /\ ram' = ram /\ target' = target
        /\ DeletesPart
    BY <1>1, <1>4 DEF vars, disk, memory, DeletesInv
  <2> QED BY <2>1, Zenon DEF DeletesPart, Sound, FileReads, Readable, Read
<1> QED BY <1>1, <1>2, <1>3, <1>4, DeleteStep

LEMMA DeletesInvariance == Spec => [](IndInv /\ PartsFitInv /\ DeletesInv)
PROOF
<1> DEFINE Inv == IndInv /\ PartsFitInv /\ FinitePages /\ DeletesInv
<1>1. Init => Inv
  <2> SUFFICES ASSUME Init PROVE Inv
    OBVIOUS
  <2>1. DOMAIN diskPages = {} /\ pc # "delete"
    BY DEF Init, NoPages
  <2> QED BY <2>1, InitChain, FS_EmptySet DEF ChainInv, FinitePages, DeletesInv
<1>2. Inv /\ [Next]_vars => Inv'
  BY NextIndInv, NextPartsFit, NextFinitePages, NextDeletes
<1>3. Inv => IndInv /\ PartsFitInv /\ DeletesInv
  OBVIOUS
<1> HIDE DEF Inv
<1> QED BY <1>1, <1>2, <1>3, PTL DEF Spec

(***************************************************************************)
(* page_manager_delete_item finds every part it goes on with, whatever     *)
(* crashed and whatever writes failed before: its page is read, and no     *)
(* assertion of page_delete_item fails there                               *)
(* (PageManager!DeleteFindsItem).                                          *)
(***************************************************************************)
THEOREM HeapFileDeleteFindsItem == Spec => []DeleteFindsItem
PROOF
<1>1. ASSUME IndInv, DeletesInv, pc = "delete"
      PROVE  /\ Readable(target.page) /\ HasItem(Read(target.page), target.item)
             /\ Read(target.page).items_count > 0
  <2> DEFINE id == target.page
             page == diskPages[id]
  <2>1. target \in Slots(diskPages) /\ FileReads(id)
    BY <1>1 DEF DeletesInv, DeletesPart, Sound
  <2>2. HasItem(page, target.item) /\ PageOK(page) /\ target.item \in LiveSlots(page)
    BY <1>1, <2>1, SlotsOK DEF IndInv, DiskOK
  <2>3. page.items_count > 0
    <3> HIDE DEF page
    <3>1. WellFormed(page, PartData)
      BY <2>2, NotZero
    <3>2. /\ page.items_count = Cardinality(LiveSlots(page)) /\ page.items_count \in Nat
          /\ IsFiniteSet(LiveSlots(page))
      BY <3>1, LiveSlotsFinite DEF WellFormed, CountsLive, PageType
    <3>3. Cardinality(LiveSlots(page)) # 0
      BY <2>2, <3>2, FS_EmptySet
    <3> QED BY <3>2, <3>3
  <2> QED BY <2>1, <2>2, <2>3 DEF FileReads
<1>2. IndInv /\ DeletesInv => DeleteFindsItem
  BY <1>1, Zenon DEF DeleteFindsItem
<1> QED BY <1>2, DeletesInvariance, PTL
--------------------------------------------------------------------------------
(***************************************************************************)
(* No operation goes round its loop for ever: every step of one leaves     *)
(* less of it.  This is the part of OperationsEnd that fairness has        *)
(* nothing to do with.                                                     *)
(***************************************************************************)
Advance == StepsLeft' \in Nat /\ StepsLeft' < StepsLeft

LEMMA LeftOK == IndInv /\ put.item \in Items => Left \in Nat
  BY DEF IndInv, Types, PutType, PutInv, Left

\* A step that writes no part is followed by one of a later phase.
LEMMA PhaseAdvances ==
  ASSUME IndInv, pc # "delete", pc' # "delete", put'.item = put.item,
         put'.written = put.written, Phase \in Nat, Phase' \in Nat, Phase' < Phase
  PROVE  Advance
PROOF
<1>1. Left' = Left /\ put.item \in Items \cup {-1}
  BY DEF Left, IndInv, Types, PutType
<1>2. BytesToPut \in Nat /\ BytesToPut' = BytesToPut
  BY <1>1, LeftOK DEF BytesToPut
<1>3. StepsLeft = 8 * BytesToPut + Phase /\ StepsLeft' = 8 * BytesToPut + Phase'
  BY <1>2, Zenon DEF StepsLeft
<1> DEFINE p == Phase
           q == Phase'
           n == BytesToPut
<1>4. p \in Nat /\ q \in Nat /\ q < p /\ n \in Nat
  BY <1>2
<1> HIDE DEF p, q, n
<1>5. 8 * n + q \in Nat /\ 8 * n + q < 8 * n + p
  BY <1>4
<1> QED BY <1>3, <1>5 DEF Advance, p, q, n

\* The writes of a new page.
LEMMA NewPageAdvances ==
  ASSUME IndInv, NEW ok, AllocPage(ok) \/ WriteNewPage(ok) \/ SetFreePage(ok), pc' \in Called
  PROVE  Advance
PROOF
<1>1. put \in PutType /\ (pc = "set_free" => put.caller \in {"get_page", "full", "split"})
  BY DEF IndInv, Types, PutInv, PutType, Called
<1>2. CASE AllocPage(ok)
  <2>1. /\ pc = "alloc" /\ pc' \in {"write_new", "set_free"}
        /\ put' = [put EXCEPT !.free = header.page_count]
    BY <1>2 DEF AllocPage, CountPage, NewPageReturned, Called
  <2>2. put'.item = put.item /\ put'.written = put.written /\ put'.caller = put.caller
    BY <1>1, <2>1 DEF PutType
  <2>3. Phase \in Nat /\ Phase' \in Nat /\ Phase' < Phase
    BY <2>1, <2>2 DEF Phase
  <2> QED BY <2>1, <2>2, <2>3, PhaseAdvances
<1>3. CASE WriteNewPage(ok)
  <2>1. pc = "write_new" /\ pc' = "set_free" /\ put' = [put EXCEPT !.free = put.free]
    BY <1>3 DEF WriteNewPage, NewPageReturned, Called
  <2>2. put'.item = put.item /\ put'.written = put.written /\ put'.caller = put.caller
    BY <1>1, <2>1 DEF PutType
  <2>3. Phase \in Nat /\ Phase' \in Nat /\ Phase' < Phase
    BY <2>1, <2>2 DEF Phase
  <2> QED BY <2>1, <2>2, <2>3, PhaseAdvances
<1>4. CASE SetFreePage(ok)
  <2>1. pc = "set_free" /\ PutGoesOn /\ put.caller \in {"get_page", "full", "split"}
    BY <1>1, <1>4 DEF SetFreePage
  <2>2. /\ put'.item = put.item /\ put'.written = put.written
        /\ pc' = IF put.caller = "get_page" THEN "loop" ELSE "part"
    <3>1. CASE put.caller = "get_page"
      <4>1. /\ put' = [put EXCEPT !.page = put.free, !.cur = put.free, !.free = NullPage]
            /\ pc' = "loop"
        BY <2>1, <3>1 DEF PutGoesOn
      <4> QED BY <1>1, <3>1, <4>1 DEF PutType
    <3>2. CASE put.caller = "full"
      <4>1. put' = [put EXCEPT !.cur = put.free] /\ pc' = "part"
        BY <2>1, <3>2 DEF PutGoesOn
      <4> QED BY <1>1, <3>2, <4>1 DEF PutType
    <3>3. CASE put.caller = "split"
      <4>1. put' = [put EXCEPT !.cont = put.free] /\ pc' = "part"
        BY <2>1, <3>3 DEF PutGoesOn
      <4> QED BY <1>1, <3>3, <4>1 DEF PutType
    <3> QED BY <2>1, <3>1, <3>2, <3>3
  <2>3. Phase \in Nat /\ Phase' \in Nat /\ Phase' < Phase
    BY <2>1, <2>2 DEF Phase
  <2> QED BY <2>1, <2>2, <2>3, PhaseAdvances
<1> QED BY <1>2, <1>3, <1>4

\* An iteration of put_item begins.
LEMMA IterationAdvances ==
  ASSUME IndInv, PageFull \/ SplitItem \/ ItemFits
  PROVE  Advance
PROOF
<1>1. /\ pc = "loop" /\ put \in PutType
      /\ put'.item = put.item /\ put'.written = put.written
      /\ pc' = "part" \/ (pc' = "alloc" /\ put'.caller \in {"full", "split"})
  BY DEF PageFull, SplitItem, ItemFits, IndInv, Types, PutType
<1>2. Phase \in Nat /\ Phase' \in Nat /\ Phase' < Phase
  BY <1>1 DEF Phase
<1> QED BY <1>1, <1>2, PhaseAdvances

\* Every part has bytes.
LEMMA AddPartAdvances ==
  ASSUME IndInv, AddPart
  PROVE  Advance
PROOF
<1>1. /\ pc = "part" /\ pc' = "loop" /\ put.item \in Items /\ put'.item = put.item
      /\ Left \in Nat \ {0} /\ PartSize \in Nat \ {0} /\ PartSize <= Left
      /\ Left' = Left - PartSize
  BY AddPartEffect
<1>2. Phase = 0 /\ Phase' = 4
  BY <1>1 DEF Phase
<1>3. put.item # -1 /\ put'.item # -1 /\ pc # "delete" /\ pc' # "delete"
  BY <1>1, ItemsAssumption
<1>4. BytesToPut = Left /\ BytesToPut' = Left'
  BY <1>3 DEF BytesToPut
<1>5. StepsLeft = 8 * Left + 0 /\ StepsLeft' = 8 * Left' + 4
  <2> HIDE DEF Left, Phase, BytesToPut
  <2> QED BY <1>2, <1>3, <1>4 DEF StepsLeft
<1> HIDE DEF Left, PartSize
<1> QED BY <1>1, <1>5 DEF Advance

\* A part that is joined by another one has fewer bytes after it.
LEMMA DeletePartAdvances ==
  ASSUME IndInv, PartsFitInv, DeletesInv, DeletePart, pc' \in Called
  PROVE  Advance
PROOF
<1>1. PICK S \in SUBSET Slots(diskPages) : target \in S /\ Sound(S)
  BY DEF DeletePart, DeleteSlot, DeletesInv, DeletesPart
<1>2. FileReads(target.page) /\ target \in Slots(diskPages)
  BY <1>1 DEF Sound
<1>3. /\ pc = "delete" /\ pc' = "delete" /\ target' = NextPart(diskPages, target)
      /\ Part(diskPages, target).continues_on_page # -1
      /\ Slots(diskPages') = Slots(diskPages) \ {target}
      /\ \A b \in Slots(diskPages') : Part(diskPages', b) = Part(diskPages, b)
  BY <1>2, DeletePartSlots DEF Called
<1>4. Joins(diskPages, target)
  BY <1>1, <1>3 DEF Sound, EndsItem
<1>5. \A b \in Slots(diskPages) : Rest(diskPages, b) \in Nat
  BY FitHasBytes DEF IndInv, PartsFitInv, PartsHaveBytes, PartData, Rest
<1>6. /\ Part(diskPages, target).data.from \in Nat /\ Part(diskPages, target).size \in Nat \ {0}
      /\ Size[Part(diskPages, target).data.item] \in Nat
  BY <1>2, FitHasBytes DEF IndInv, PartsFitInv, PartsHaveBytes, PartData
<1>7. /\ target' \in Slots(diskPages)
      /\ Part(diskPages, target').data.item = Part(diskPages, target).data.item
      /\ Part(diskPages, target').data.from
           = Part(diskPages, target).data.from + Part(diskPages, target).size
  BY <1>3, <1>4 DEF Joins, Continues
<1>8. target' # target /\ Rest(diskPages, target') < Rest(diskPages, target)
  BY <1>6, <1>7 DEF Rest
<1>9. Part(diskPages', target') = Part(diskPages, target')
  BY <1>3, <1>7, <1>8
<1>10. StepsLeft = Rest(diskPages, target) /\ StepsLeft' = Rest(diskPages, target')
  BY <1>3, <1>9 DEF StepsLeft, BytesAfter, Rest
<1> QED BY <1>5, <1>7, <1>8, <1>10 DEF Advance

LEMMA NextAdvances ==
  ASSUME IndInv, PartsFitInv, DeletesInv, Next, {pc, pc'} \subseteq Called
  PROVE  Advance
PROOF
<1>1. ASSUME NEW ok \in WriteOutcomes, AllocPage(ok) \/ WriteNewPage(ok) \/ SetFreePage(ok)
      PROVE  Advance
  BY <1>1, NewPageAdvances
<1>2. CASE PageFull \/ SplitItem \/ ItemFits
  BY <1>2, IterationAdvances
<1>3. CASE AddPart
  BY <1>3, AddPartAdvances
<1>4. CASE DeletePart
  BY <1>4, DeletePartAdvances
<1>5. ~ (PutReturns \/ WriteAborts \/ AddPartAborts \/ OpenFails \/ OpenWithPages
         \/ OpenWithoutPages \/ OpenAborts \/ Close \/ FreePages \/ Crash)
  BY DEF PutReturns, WriteAborts, AddPartAborts, OpenFails, OpenWithPages, OpenWithoutPages,
     OpenIfNone, OpenAborts, Close, FreePages, Crash, Die, Called, Running, Dead
<1>6. \A x : ~ (PutStart(x) \/ PutAborts(x))
  BY DEF PutStart, PutAborts, Called
<1>7. \A a : ~ (GetItem(a) \/ GetItemAborts(a) \/ DeleteStart(a))
  BY DEF GetItem, GetItemAborts, DeleteStart, Called
<1> QED BY <1>1, <1>2, <1>3, <1>4, <1>5, <1>6, <1>7, Zenon DEF Next, Steps, Calls

(***************************************************************************)
(* Every step of a put or a delete, whatever crashed and whatever writes   *)
(* failed before it, leaves fewer steps of it (PageManager!-               *)
(* OperationsAdvance; the loops of page_manager_put_item and               *)
(* page_manager_delete_item).                                              *)
(***************************************************************************)
THEOREM HeapFileOperationsAdvance == Spec => OperationsAdvance
PROOF
<1>1. IndInv /\ PartsFitInv /\ DeletesInv /\ [Next]_vars
        => [{pc, pc'} \subseteq Called => StepsLeft' \in Nat /\ StepsLeft' < StepsLeft]_vars
  BY NextAdvances DEF Advance
<1> QED BY <1>1, DeletesInvariance, PTL DEF Spec, OperationsAdvance

--------------------------------------------------------------------------------
(***************************************************************************)
(* An item is put at one of the addresses the store may use: a put starts  *)
(* only where the bound on the pages leaves it room.                       *)
(***************************************************************************)
RoomInv ==
  put.item \in Items /\ put.written = 0 =>
    /\ pc \in {"loop", "part"} => put.cur < MaxPages
    /\ pc = "loop" /\ ~ CanFitAnyPayload(ram[put.cur]) => header.page_count < MaxPages
    /\ Allocating => IF put.caller = "split" THEN put.cur < MaxPages
                     ELSE IF pc = "alloc" THEN header.page_count < MaxPages
                     ELSE put.free < MaxPages

HeadsInv == \A a \in Slots(diskPages) : Part(diskPages, a).data.from = 0 => a.page < MaxPages

\* A payload needs a page.
LEMMA NeedsOnePage ==
  ASSUME NEW x \in Items
  PROVE  PagesAtMost(x) \in Nat /\ PagesAtMost(x) >= 1
PROOF
<1> DEFINE c == PageCapacity
           n == Size[x] + c - 1
<1>1. c \in Nat \ {0}
  BY DEF PageCapacity, HeaderSize, MetaSize
<1>2. n \in Nat /\ n >= c
  <2>1. Size[x] \in Nat \ {0}
    OBVIOUS
  <2> HIDE DEF c
  <2> QED BY <1>1, <2>1
<1> HIDE DEF n, c
<1>3. n \div c \in Nat /\ n \div c >= 1
  BY <1>1, <1>2
<1> QED BY <1>3 DEF PagesAtMost, n, c

\* A page is allocated, written and announced.
LEMMA NewPageRoom ==
  ASSUME IndInv, NewPageInv, RoomInv, NEW ok \in Outcomes,
         AllocPage(ok) \/ WriteNewPage(ok) \/ SetFreePage(ok)
  PROVE  RoomInv'
PROOF
<1>1. put \in PutType /\ header \in Header
  BY DEF IndInv, Types
<1>2. CASE put' = NoPut
  <2>1. put'.item \notin Items
    BY <1>2, NoPutOK, ItemsAssumption
  <2> QED BY <2>1 DEF RoomInv
<1>3. CASE AllocPage(ok)
  <2> DEFINE id == header.page_count
  <2>1. pc = "alloc" /\ \/ put' = NoPut
                        \/ pc' \in {"write_new", "set_free"} /\ put' = [put EXCEPT !.free = id]
    BY <1>3 DEF AllocPage, CountPage, NewPageReturned
  <2>2. CASE pc' \in {"write_new", "set_free"} /\ put' = [put EXCEPT !.free = id]
    <3>1. /\ put'.item = put.item /\ put'.written = put.written /\ put'.caller = put.caller
          /\ put'.cur = put.cur /\ put'.free = id
      BY <1>1, <2>2 DEF PutType
    <3> QED BY <2>1, <2>2, <3>1 DEF RoomInv, Allocating
  <2> QED BY <1>2, <2>1, <2>2
<1>4. CASE WriteNewPage(ok)
  <2>1. pc = "write_new" /\ (put' = NoPut \/ (pc' = "set_free" /\ put' = [put EXCEPT !.free = put.free]))
    BY <1>4 DEF WriteNewPage, NewPageReturned
  <2>2. CASE pc' = "set_free" /\ put' = [put EXCEPT !.free = put.free]
    <3>1. put' = put
      BY <1>1, <2>2 DEF PutType
    <3> QED BY <2>1, <2>2, <3>1 DEF RoomInv, Allocating
  <2> QED BY <1>2, <2>1, <2>2
<1>5. CASE SetFreePage(ok)
  <2>1. /\ pc = "set_free" /\ ram' = ram /\ PutGoesOn /\ Allocating
        /\ put.caller \in {"get_page", "full", "split"} /\ ram[put.free] = PageNew(put.free)
    BY <1>1, <1>5 DEF SetFreePage, IndInv, PutInv, PutType, NewPageInv, HasNewPage, Allocating
  <2>2. /\ put'.item = put.item /\ put'.written = put.written
        /\ put.caller = "get_page" => pc' = "loop" /\ put'.cur = put.free
        /\ put.caller = "full" => pc' = "part" /\ put'.cur = put.free
        /\ put.caller = "split" => pc' = "part" /\ put'.cur = put.cur
    BY <1>1, <2>1 DEF PutGoesOn, PutType
  <2>3. CanFitAnyPayload(ram[put.free])
    BY <2>1, NewPageHasRoom
  <2> QED BY <2>1, <2>2, <2>3 DEF RoomInv, Allocating
<1> QED BY <1>3, <1>4, <1>5

\* A put starts.
LEMMA PutStartRoom ==
  ASSUME IndInv, NEW x \in Items, PutStart(x)
  PROVE  RoomInv'
PROOF
<1> DEFINE id == FreePageId
           pid == Read(id).page_id
<1>1. /\ pc = "idle" /\ Readable(id) /\ header' = header
      /\ header.page_count + PagesAtMost(x) <= MaxPages
      /\ \/ pc' = "alloc" /\ put' = [NoPut EXCEPT !.item = x, !.caller = "get_page"]
         \/ pc' = "loop" /\ put' = [NoPut EXCEPT !.item = x, !.page = pid, !.cur = pid]
  BY DEF PutStart, RoomFor
<1>2. pid < header.page_count /\ pid \in Nat /\ header.page_count \in Nat
  BY <1>1, ReadOK DEF IndInv, Running, Dead
<1> HIDE DEF id, pid
<1>3. header'.page_count < MaxPages /\ pid < MaxPages
  BY <1>1, <1>2, NeedsOnePage
<1>4. CASE pc' = "alloc" /\ put' = [NoPut EXCEPT !.item = x, !.caller = "get_page"]
  <2>1. put'.caller = "get_page"
    BY <1>4 DEF NoPut
  <2> QED BY <1>3, <1>4, <2>1 DEF RoomInv, Allocating
<1>5. CASE pc' = "loop" /\ put' = [NoPut EXCEPT !.item = x, !.page = pid, !.cur = pid]
  <2>1. put'.cur = pid
    BY <1>5 DEF NoPut
  <2> QED BY <1>3, <1>5, <2>1 DEF RoomInv, Allocating
<1> QED BY <1>1, <1>4, <1>5

LEMMA NextRoom == IndInv /\ NewPageInv /\ RoomInv /\ [Next]_vars => RoomInv'
PROOF
<1> SUFFICES ASSUME IndInv, NewPageInv, RoomInv, [Next]_vars PROVE RoomInv'
  OBVIOUS
<1>1. ASSUME NEW ok \in WriteOutcomes, AllocPage(ok) \/ WriteNewPage(ok) \/ SetFreePage(ok)
      PROVE  RoomInv'
  <2>1. ok \in Outcomes
    BY TrueIsOutcome DEF WriteOutcomes
  <2> QED BY <1>1, <2>1, NewPageRoom
<1>2. CASE PageFull \/ SplitItem \/ ItemFits
  <2>1. /\ pc = "loop" /\ header' = header /\ put \in PutType
        /\ put'.item = put.item /\ put'.written = put.written /\ put'.cur = put.cur
        /\ \/ pc' = "part"
           \/ pc' = "alloc" /\ put'.caller = "full" /\ ~ CanFitAnyPayload(ram[put.cur])
           \/ pc' = "alloc" /\ put'.caller = "split"
    BY <1>2 DEF PageFull, SplitItem, ItemFits, memory, IndInv, Types, PutType
  <2> QED BY <2>1 DEF RoomInv, Allocating
<1>3. CASE AddPart
  <2>1. put'.written > 0
    <3>1. put'.written = put.written + PartSize /\ put.written \in Nat /\ PartSize \in Nat \ {0}
      BY <1>3, AddPartEffect
    <3> QED BY <3>1
  <2> QED BY <2>1 DEF RoomInv
<1>4. CASE put' = NoPut
  <2>1. put'.item \notin Items
    BY <1>4, NoPutOK, ItemsAssumption
  <2> QED BY <2>1 DEF RoomInv
<1>5. CASE PutReturns \/ DeletePart \/ WriteAborts \/ AddPartAborts \/ OpenFails
           \/ OpenWithPages \/ OpenAborts \/ Close \/ FreePages \/ Crash
           \/ (\E x \in Items : PutAborts(x))
           \/ (\E a \in DOMAIN Store : GetItem(a) \/ GetItemAborts(a) \/ DeleteStart(a))
  BY <1>4, <1>5 DEF PutReturns, DeletePart, DeleteSlot, WriteAborts, AddPartAborts, OpenFails,
     OpenWithPages, OpenAborts, Close, FreePages, Crash, PutAborts, GetItem, GetItemAborts,
     DeleteStart, Die, Dead, IndInv, PutInv, Called, Running
<1>6. CASE OpenWithoutPages
  <2>1. put' = [NoPut EXCEPT !.caller = "init"]
    BY <1>6 DEF OpenWithoutPages, OpenIfNone
  <2>2. put'.item \notin Items
    BY <2>1, ItemsAssumption DEF NoPut
  <2> QED BY <2>2 DEF RoomInv
<1>7. ASSUME NEW x \in Items, PutStart(x)
      PROVE  RoomInv'
  BY <1>7, PutStartRoom
<1>8. CASE UNCHANGED vars
  BY <1>8, Zenon DEF vars, memory, RoomInv, Allocating
<1> QED BY <1>1, <1>2, <1>3, <1>5, <1>6, <1>7, <1>8, Zenon DEF Next, Steps, Calls

\* A step changes the slots of the file or leaves its pages alone.
LEMMA DiskStep ==
  ASSUME MaxFaults = 0, IndInv, [Next]_vars
  PROVE  WriteNewPage(TRUE) \/ AddPart \/ DeletePart \/ diskPages' = diskPages
PROOF
<1>1. ASSUME NEW ok \in WriteOutcomes, AllocPage(ok) \/ WriteNewPage(ok) \/ SetFreePage(ok)
      PROVE  WriteNewPage(TRUE) \/ diskPages' = diskPages
  <2>1. ok = TRUE
    BY <1>1, NoFaults
  <2> QED BY <1>1, <2>1 DEF AllocPage, CountPage, SetFreePage
<1>2. CASE PageFull \/ SplitItem \/ ItemFits \/ PutReturns \/ WriteAborts \/ AddPartAborts
           \/ OpenFails \/ OpenWithPages \/ OpenWithoutPages \/ OpenAborts \/ Close \/ FreePages
           \/ Crash
  BY <1>2 DEF PageFull, SplitItem, ItemFits, PutReturns, WriteAborts, AddPartAborts, OpenFails,
     OpenWithPages, OpenWithoutPages, OpenIfNone, OpenAborts, Close, FreePages, Crash, disk
<1>3. ASSUME NEW x \in Items, PutStart(x) \/ PutAborts(x)
      PROVE  diskPages' = diskPages
  BY <1>3 DEF PutStart, PutAborts, disk
<1>4. ASSUME NEW a \in DOMAIN Store, GetItem(a) \/ GetItemAborts(a) \/ DeleteStart(a)
      PROVE  diskPages' = diskPages
  BY <1>4 DEF GetItem, GetItemAborts, DeleteStart, disk
<1>5. CASE UNCHANGED vars
  BY <1>5 DEF vars, disk
<1> QED BY <1>1, <1>2, <1>3, <1>4, <1>5, Zenon DEF Next, Steps, Calls

LEMMA NextHeads ==
  ASSUME MaxFaults = 0, IndInv, PartsInv, RoomInv, HeadsInv, [Next]_vars
  PROVE  HeadsInv'
PROOF
<1>1. CASE AddPart
  <2>1. /\ Slots(diskPages') = Slots(diskPages) \cup {NewSlot}
        /\ \A a \in Slots(diskPages) : Part(diskPages', a) = Part(diskPages, a)
        /\ NewSlot.page = put.cur /\ Part(diskPages', NewSlot).data = NewData
        /\ pc = "part" /\ put.item \in Items
    BY <1>1, AddPartPages, AddPartSlots, AddPartEffect DEF PartsInv
  <2>2. NewData.from = 0 => put.cur < MaxPages
    BY <2>1 DEF NewData, RoomInv
  <2>3. ASSUME NEW a \in Slots(diskPages'), Part(diskPages', a).data.from = 0
        PROVE  a.page < MaxPages
    <3>1. CASE a \in Slots(diskPages)
      BY <2>1, <2>3, <3>1 DEF HeadsInv
    <3>2. CASE a = NewSlot
      BY <2>1, <2>2, <2>3, <3>2
    <3> QED BY <2>1, <3>1, <3>2
  <2> QED BY <2>3 DEF HeadsInv
<1>2. CASE /\ Slots(diskPages') \subseteq Slots(diskPages)
           /\ \A a \in Slots(diskPages') : Part(diskPages', a) = Part(diskPages, a)
  BY <1>2 DEF HeadsInv
<1>3. CASE WriteNewPage(TRUE)
  BY <1>2, <1>3, WriteNewPageSlots DEF PartsInv, ChainInv
<1>4. CASE DeletePart
  BY <1>2, <1>4, DeletePartSlots DEF PartsInv
<1>5. CASE diskPages' = diskPages
  BY <1>2, <1>5
<1> QED BY <1>1, <1>3, <1>4, <1>5, DiskStep

\* So the head of an item has an address of the store.
LEMMA HeadAddress ==
  ASSUME NEW pages, DiskOK(pages), AllFit(pages), NEW a \in Slots(pages), a.page < MaxPages
  PROVE  a \in Addresses
PROOF
<1> DEFINE page == pages[a.page]
           n == page.next_item_id
           last == page.slots[n - 1]
<1>1. /\ a.page \in DOMAIN pages /\ a.page \in Nat /\ a.item \in Nat /\ HasItem(page, a.item)
      /\ a = [page |-> a.page, item |-> a.item]
  BY SlotsOK
<1>2. WellFormed(page, PartData) /\ PartsFit(page)
  <2>1. PageOK(page) /\ PartsFit(page)
    BY <1>1 DEF DiskOK, AllFit
  <2> HIDE DEF page
  <2> QED BY <1>1, <2>1, NotZero
<1> HIDE DEF page
<1>3. /\ n \in Nat /\ a.item \in 0 .. n - 1 /\ n # 0
      /\ last.data_offset \in Nat /\ last.data_offset + (n - 1) < PageSize
      /\ page.free_start \in Nat /\ page.free_end \in Nat
      /\ page.free_start = HeaderSize + MetaSize * n /\ page.free_end = last.data_offset
      /\ page.free_start <= page.free_end
  <2>1. n \in Nat /\ a.item \in 0 .. n - 1 /\ n # 0 /\ n - 1 \in 0 .. n - 1
    BY <1>1, <1>2 DEF WellFormed, PageType, HasItem
  <2>2. last \in Slot(PartData) /\ last.data_offset + (n - 1) < PageSize
    BY <1>2, <2>1 DEF WellFormed, PageType, PartsFit
  <2>3. page.free_start \in Nat /\ page.free_end \in Nat
    BY <1>2 DEF WellFormed, PageType
  <2> QED BY <1>2, <2>1, <2>2, <2>3 DEF WellFormed, Layout, MetadataBelowFreeSpace,
          MetadataOffset, DataAboveFreeSpace, Slot
<1> HIDE DEF n, last
<1>4. a.item <= (PageSize - 28) \div 22
  BY <1>3 DEF HeaderSize, MetaSize
<1>5. MaxItemId = (PageSize - 28) \div 22
  BY DEF MaxItemId, HeaderSize, MetaSize
<1>6. MaxItemId \in Int
  BY <1>5
<1>7. a.page \in 0 .. MaxPages - 1 /\ a.item \in 0 .. MaxItemId
  BY <1>1, <1>3, <1>4, <1>5, <1>6
<1> QED BY <1>1, <1>7 DEF Addresses

--------------------------------------------------------------------------------
(***************************************************************************)
(* What a step does to the items of the file.                              *)
(***************************************************************************)
LEMMA StoreIsFunction ==
  /\ Store = [a \in DOMAIN Store |-> Store[a]]
  /\ Store' = [a \in DOMAIN Store' |-> Store'[a]]
PROOF
<1> DEFINE heads == {a \in Slots(diskPages) : a \in Whole(diskPages)
                                               /\ Part(diskPages, a).data.from = 0}
           next == {a \in Slots(diskPages') : a \in Whole(diskPages')
                                               /\ Part(diskPages', a).data.from = 0}
<1>1. Store = [a \in heads |-> Part(diskPages, a).data.item]
  BY Zenon DEF Store
<1>2. Store' = [a \in next |-> Part(diskPages', a).data.item]
  BY Zenon DEF Store
<1> HIDE DEF heads, next
<1> QED BY <1>1, <1>2

\* The same whole items with the same parts are the same items.
LEMMA StoreKept ==
  ASSUME \A a \in Slots(diskPages) \cap Slots(diskPages') : Part(diskPages', a) = Part(diskPages, a),
         {a \in Whole(diskPages') : Part(diskPages', a).data.from = 0}
           = {a \in Whole(diskPages) : Part(diskPages, a).data.from = 0}
  PROVE  Store' = Store
PROOF
<1>1. /\ Whole(diskPages) \subseteq Slots(diskPages)
      /\ Whole(diskPages') \subseteq Slots(diskPages')
  BY WholeIsFixpoint
<1>2. DOMAIN Store' = {a \in Whole(diskPages') : Part(diskPages', a).data.from = 0}
  BY <1>1, NextStoreOK
<1>3. DOMAIN Store = {a \in Whole(diskPages) : Part(diskPages, a).data.from = 0}
  BY <1>1, StoreOK
<1>4. DOMAIN Store' = DOMAIN Store
  BY <1>2, <1>3
<1>5. \A a \in DOMAIN Store : Store'[a] = Store[a]
  BY <1>1, <1>2, <1>3, <1>4, StoreOK, NextStoreOK
<1> QED BY <1>4, <1>5, StoreIsFunction

\* A file with the same slots has the same items.
LEMMA SameSlots ==
  ASSUME IndInv, PartsFitInv, Slots(diskPages') = Slots(diskPages),
         \A a \in Slots(diskPages) : Part(diskPages', a) = Part(diskPages, a)
  PROVE  Store' = Store /\ Whole(diskPages') = Whole(diskPages)
PROOF
<1>1. PartsHaveBytes(diskPages)
  BY FitHasBytes DEF PartsFitInv, IndInv
<1>2. \A a \in Slots(diskPages) : a \in Whole(diskPages') <=> a \in Whole(diskPages)
  <2> DEFINE D == Slots(diskPages)
  <2>1. /\ D \subseteq Slots(diskPages) \cap Slots(diskPages')
        /\ \A a \in D : Joins(diskPages, a) => NextPart(diskPages, a) \in D
        /\ \A a \in D : Joins(diskPages', a) => NextPart(diskPages', a) \in D
        /\ \A a \in D : Part(diskPages', a) = Part(diskPages, a)
    BY DEF Joins
  <2> HIDE DEF D
  <2>2. \A a \in D : a \in Whole(diskPages') <=> a \in Whole(diskPages)
    BY <1>1, <2>1, WholeAgrees
  <2> QED BY <2>2 DEF D
<1>3. /\ Whole(diskPages) \subseteq Slots(diskPages)
      /\ Whole(diskPages') \subseteq Slots(diskPages)
  BY WholeIsFixpoint
<1>4. Whole(diskPages') = Whole(diskPages)
  BY <1>2, <1>3
<1>5. {a \in Whole(diskPages') : Part(diskPages', a).data.from = 0}
        = {a \in Whole(diskPages) : Part(diskPages, a).data.from = 0}
  BY <1>3, <1>4
<1> QED BY <1>4, <1>5, StoreKept

\* The deletion of a first part takes one item out of the store, that of a
\* later part none.
LEMMA DeletePartStore ==
  ASSUME IndInv, PartsInv, DeletePart
  PROVE  IF Part(diskPages, target).data.from = 0
           THEN Store' = [a \in DOMAIN Store \ {target} |-> Store[a]]
           ELSE Store' = Store
PROOF
<1>1. /\ Whole(diskPages') = Whole(diskPages) \ {target}
      /\ Slots(diskPages') = Slots(diskPages) \ {target}
      /\ \A a \in Slots(diskPages') : Part(diskPages', a) = Part(diskPages, a)
  BY DeletePartWhole, DeletePartSlots DEF PartsInv, ChainInv
<1>2. Whole(diskPages) \subseteq Slots(diskPages)
  BY WholeIsFixpoint
<1>3. CASE Part(diskPages, target).data.from # 0
  <2>1. {a \in Whole(diskPages') : Part(diskPages', a).data.from = 0}
          = {a \in Whole(diskPages) : Part(diskPages, a).data.from = 0}
    BY <1>1, <1>2, <1>3
  <2> QED BY <1>1, <1>3, <2>1, StoreKept
<1>4. CASE Part(diskPages, target).data.from = 0
  <2>1. DOMAIN Store' = DOMAIN Store \ {target}
    BY <1>1, <1>2, StoreOK, NextStoreOK
  <2>2. \A a \in DOMAIN Store' : Store'[a] = Store[a]
    BY <1>1, <2>1, StoreOK, NextStoreOK
  <2> QED BY <1>4, <2>1, <2>2, StoreIsFunction
<1> QED BY <1>3, <1>4

\* A part that names a page without slots is not whole, nor is what leads to it.
LEMMA AddPartMore ==
  ASSUME IndInv, PartsInv, AddPart, Left' # 0
  PROVE  Store' = Store /\ Whole(diskPages') = Whole(diskPages)
PROOF
<1>1. /\ NewSlot \notin Slots(diskPages)
      /\ Slots(diskPages') = Slots(diskPages) \cup {NewSlot}
      /\ \A a \in Slots(diskPages) : Part(diskPages', a) = Part(diskPages, a)
      /\ \A x \in DOMAIN ram : x \in DOMAIN diskPages /\ ram[x] = diskPages[x]
      /\ Part(diskPages', NewSlot).continues_on_page = put.cont /\ NewSlot.page = put.cur
  BY AddPartPages, AddPartSlots DEF PartsInv
<1>2. /\ put.cont # -1 /\ put.cont = put.free /\ HasNewPage /\ Splitting
  BY LastPart DEF PartsInv, ChainInv
<1>3. put.free \in DOMAIN ram /\ ram[put.free] = PageNew(put.free) /\ put.cur # put.free
  BY <1>2 DEF PartsInv, ChainInv, NewPageInv
<1>4. NextPart(diskPages', NewSlot) \notin Slots(diskPages')
  <2> DEFINE b == NextPart(diskPages', NewSlot)
  <2>1. b.page = put.free /\ b.item = 0
    BY <1>1, <1>2 DEF NextPart, Address
  <2> HIDE DEF b
  <2>2. b # NewSlot
    BY <1>1, <1>3, <2>1
  <2>3. ~ HasItem(diskPages[put.free], 0)
    BY <1>1, <1>3 DEF PageNew, HasItem
  <2>4. b \notin Slots(diskPages)
    BY <2>1, <2>3, SlotsOK DEF IndInv
  <2> QED BY <1>1, <2>2, <2>4 DEF b
<1>5. NewSlot \notin Whole(diskPages')
  <2>1. ~ EndsItem(Part(diskPages', NewSlot)) /\ ~ Joins(diskPages', NewSlot)
    BY <1>1, <1>2, <1>4 DEF EndsItem, Joins
  <2> QED BY <1>1, <2>1, WholeIsFixpoint
<1>6. \A a \in Slots(diskPages) : a \in Whole(diskPages') <=> a \in Whole(diskPages)
  <2> DEFINE D == Slots(diskPages)
  <2>1. D \subseteq Slots(diskPages) \cap Slots(diskPages')
    BY <1>1
  <2>2. \A a \in D : Joins(diskPages, a) => NextPart(diskPages, a) \in D
    BY DEF Joins
  <2>3. \A a \in D : Joins(diskPages', a) /\ NextPart(diskPages', a) \in Whole(diskPages')
                       => NextPart(diskPages', a) \in D
    BY <1>1, <1>5 DEF Joins
  <2>4. \A a \in D : Part(diskPages', a) = Part(diskPages, a)
    BY <1>1
  <2>5. PartsHaveBytes(diskPages)
    BY FitHasBytes DEF PartsInv, ChainInv, PartsFitInv, IndInv
  <2> HIDE DEF D
  <2>6. \A a \in D : a \in Whole(diskPages') <=> a \in Whole(diskPages)
    BY <2>1, <2>2, <2>3, <2>4, <2>5, WholeAgrees
  <2> QED BY <2>6 DEF D
<1>7. /\ Whole(diskPages) \subseteq Slots(diskPages)
      /\ Whole(diskPages') \subseteq Slots(diskPages')
  BY WholeIsFixpoint
<1>8. Whole(diskPages') = Whole(diskPages)
  BY <1>1, <1>5, <1>6, <1>7
<1>9. {a \in Whole(diskPages') : Part(diskPages', a).data.from = 0}
        = {a \in Whole(diskPages) : Part(diskPages, a).data.from = 0}
  BY <1>1, <1>7, <1>8
<1> QED BY <1>1, <1>8, <1>9, StoreKept

\* The last part makes its item whole, and no other one: the new parts are
\* those of the set S and the new slot, and h is the first one of them.
NewItem(S, h) ==
  /\ h \in S \cup {NewSlot} /\ S \cap Whole(diskPages) = {}
  /\ Whole(diskPages') = Whole(diskPages) \cup S \cup {NewSlot}
  /\ Part(diskPages', h).data.from = 0 /\ Part(diskPages', h).data.item = put.item
  /\ \A a \in S \cup {NewSlot} : a # h => Part(diskPages', a).data.from > 0

\* An item of one part.
LEMMA AddOnlyPart ==
  ASSUME IndInv, PartsInv, AddPart, Left' = 0, put.written = 0
  PROVE  NewItem({}, NewSlot)
PROOF
<1>1. /\ NewSlot \notin Slots(diskPages)
      /\ Slots(diskPages') = Slots(diskPages) \cup {NewSlot}
      /\ \A a \in Slots(diskPages) : Part(diskPages', a) = Part(diskPages, a)
      /\ Part(diskPages', NewSlot).data = NewData
      /\ DiskOK(diskPages')
  BY AddPartPages, AddPartSlots, AddPartEffect DEF PartsInv
<1>2. NewData.from = 0 /\ NewData.item = put.item
  BY DEF NewData
<1>3. PartsHaveBytes(diskPages) /\ PartsHaveBytes(diskPages')
  BY <1>1, FitHasBytes, AddPartFits DEF PartsInv, ChainInv, PartsFitInv, IndInv
<1>4. NewSlot \in Whole(diskPages')
  BY <1>1, LastPartEnds, WholeIsFixpoint DEF PartsInv, ChainInv
<1>5. \A a \in Slots(diskPages') : Joins(diskPages', a) => NextPart(diskPages', a) # NewSlot
  <2>1. ~ (Part(diskPages', NewSlot).data.from > 0)
    BY <1>1, <1>2
  <2> QED BY <1>3, <2>1, JoinsLater
<1>6. \A a \in Slots(diskPages) : a \in Whole(diskPages') <=> a \in Whole(diskPages)
  <2> DEFINE D == Slots(diskPages)
  <2>1. /\ D \subseteq Slots(diskPages) \cap Slots(diskPages')
        /\ \A a \in D : Joins(diskPages, a) => NextPart(diskPages, a) \in D
        /\ \A a \in D : Joins(diskPages', a) => NextPart(diskPages', a) \in D
        /\ \A a \in D : Part(diskPages', a) = Part(diskPages, a)
    BY <1>1, <1>5 DEF Joins
  <2> HIDE DEF D
  <2>2. \A a \in D : a \in Whole(diskPages') <=> a \in Whole(diskPages)
    BY <1>3, <2>1, WholeAgrees
  <2> QED BY <2>2 DEF D
<1>7. /\ Whole(diskPages) \subseteq Slots(diskPages)
      /\ Whole(diskPages') \subseteq Slots(diskPages')
  BY WholeIsFixpoint
<1>8. Whole(diskPages') = Whole(diskPages) \cup {NewSlot}
  BY <1>1, <1>4, <1>6, <1>7
<1> QED BY <1>1, <1>2, <1>8 DEF NewItem

\* Parts of an item that has no end yet are not parts of whole items.
LEMMA PutPartsNotWhole ==
  ASSUME IndInv, PartsInv, AddPart, put.written > 0,
         NEW S \in SUBSET Slots(diskPages), NEW h \in S, PutParts(S, h)
  PROVE  S \cap Whole(diskPages) = {}
PROOF
<1> DEFINE T == S \cap Whole(diskPages)
<1>1. SUFFICES ASSUME T # {} PROVE FALSE
  OBVIOUS
<1>2. PICK a \in T : ~ (Joins(diskPages, a) /\ NextPart(diskPages, a) \in T)
  <2>1. T \in SUBSET Slots(diskPages) /\ PartsHaveBytes(diskPages)
    BY FitHasBytes DEF PartsInv, ChainInv, PartsFitInv, IndInv
  <2> HIDE DEF T
  <2> QED BY <1>1, <2>1, NearestTheEnd
<1> DEFINE n == NextPart(diskPages, a)
<1>3. n \in S \cup {NewSlot} /\ S \cup {NewSlot} \subseteq Slots(diskPages')
  BY AddNext DEF PartsInv, ChainInv
<1>4. n.page # -1
  <2>1. DiskOK(diskPages') /\ n \in Slots(diskPages')
    BY <1>3, AddPartEffect
  <2> HIDE DEF n
  <2>2. n.page \in Nat
    BY <2>1, SlotsOK
  <2> QED BY <2>2
<1>5. ~ EndsItem(Part(diskPages, a))
  BY <1>4, PartOK DEF IndInv, EndsItem
<1>6. Joins(diskPages, a) /\ n \in Whole(diskPages) /\ n \in Slots(diskPages)
  BY <1>5, WholeIsFixpoint
<1>7. n # NewSlot
  BY <1>6, AddPartPages DEF PartsInv
<1> QED BY <1>2, <1>3, <1>6, <1>7

\* The last one of several parts.
LEMMA AddLastPart ==
  ASSUME IndInv, PartsInv, AddPart, Left' = 0, put.written > 0,
         NEW S \in SUBSET Slots(diskPages), NEW h \in S, PutParts(S, h)
  PROVE  NewItem(S, h)
PROOF
<1>1. /\ NewSlot \notin Slots(diskPages)
      /\ Slots(diskPages') = Slots(diskPages) \cup {NewSlot}
      /\ \A a \in Slots(diskPages) : /\ Part(diskPages', a) = Part(diskPages, a)
                                     /\ NextPart(diskPages', a) = NextPart(diskPages, a)
      /\ Part(diskPages', NewSlot).data = NewData
      /\ DiskOK(diskPages') /\ NewSlot.page = put.cur /\ put.cur \in Nat
  BY AddPartPages, AddPartSlots, AddPartEffect DEF PartsInv
<1>2. PartsHaveBytes(diskPages) /\ PartsHaveBytes(diskPages')
  BY <1>1, FitHasBytes, AddPartFits DEF PartsInv, ChainInv, PartsFitInv, IndInv
<1>3. /\ \A a \in S : /\ Joins(diskPages', a) /\ NextPart(diskPages', a) \in S \cup {NewSlot}
                      /\ LastWritten(a) => NextPart(diskPages', a) = NewSlot
      /\ NewSlot \notin S
  BY AddNext DEF PartsInv, ChainInv
<1>4. S \cap Whole(diskPages) = {}
  BY PutPartsNotWhole
<1>5. S \cup {NewSlot} \subseteq Whole(diskPages')
  <2>1. S \cup {NewSlot} \in SUBSET Slots(diskPages')
    BY <1>1
  <2>2. EndsItem(Part(diskPages', NewSlot))
    BY LastPartEnds DEF PartsInv, ChainInv
  <2> QED BY <1>2, <1>3, <2>1, <2>2, ChainIsWhole
\* No part of another item leads to one of these.
<1>6. ASSUME NEW a \in Slots(diskPages) \ S, Joins(diskPages', a)
      PROVE  NextPart(diskPages', a) \in Slots(diskPages) \ S
  <2> DEFINE n == NextPart(diskPages, a)
  <2>1. n = NextPart(diskPages', a) /\ n \in Slots(diskPages') /\ n.page # -1
    <3>1. n = NextPart(diskPages', a) /\ n \in Slots(diskPages')
      BY <1>1, <1>6 DEF Joins
    <3> HIDE DEF n
    <3>2. n.page \in Nat
      BY <1>1, <3>1, SlotsOK
    <3> QED BY <3>1, <3>2
  <2>2. ASSUME NEW b \in S, NextPart(diskPages, b) = n PROVE FALSE
    <3>1. a = b
      BY <2>1, <2>2, OneLeads DEF PartsInv
    <3> QED BY <3>1
  <2>3. n # NewSlot
    <3>1. PICK b \in S : LastWritten(b)
      BY DEF PutParts
    <3>2. NextPart(diskPages, b) = NewSlot
      BY <1>1, <1>3, <3>1
    <3> QED BY <2>2, <3>2
  <2>4. n # h
    <3>1. Part(diskPages', h).data.from = 0
      BY <1>1 DEF PutParts
    <3>2. Part(diskPages', n).data.from > 0
      BY <1>1, <1>2, <1>6, <2>1, JoinsLater
    <3> QED BY <3>1, <3>2
  <2>5. n \notin S
    BY <2>2, <2>4 DEF PutParts
  <2> QED BY <1>1, <2>1, <2>3, <2>5
<1>7. \A a \in Slots(diskPages) \ S : a \in Whole(diskPages') <=> a \in Whole(diskPages)
  <2> DEFINE D == Slots(diskPages) \ S
  <2>1. /\ D \subseteq Slots(diskPages) \cap Slots(diskPages')
        /\ \A a \in D : Part(diskPages', a) = Part(diskPages, a)
    BY <1>1
  <2>2. \A a \in D : Joins(diskPages, a) /\ NextPart(diskPages, a) \in Whole(diskPages)
                       => NextPart(diskPages, a) \in D
    BY <1>4 DEF Joins
  <2>3. \A a \in D : Joins(diskPages', a) => NextPart(diskPages', a) \in D
    BY <1>6
  <2> HIDE DEF D
  <2>4. \A a \in D : a \in Whole(diskPages') <=> a \in Whole(diskPages)
    BY <1>2, <2>1, <2>2, <2>3, WholeAgrees
  <2> QED BY <2>4 DEF D
<1>8. /\ Whole(diskPages) \subseteq Slots(diskPages)
      /\ Whole(diskPages') \subseteq Slots(diskPages')
  BY WholeIsFixpoint
<1>9. Whole(diskPages') = Whole(diskPages) \cup S \cup {NewSlot}
  BY <1>1, <1>4, <1>5, <1>7, <1>8
<1>10. /\ Part(diskPages', h).data.from = 0 /\ Part(diskPages', h).data.item = put.item
  BY <1>1 DEF PutParts
<1>11. ASSUME NEW a \in S \cup {NewSlot}, a # h
       PROVE  Part(diskPages', a).data.from > 0
  <2>1. CASE a = NewSlot
    BY <1>1, <2>1 DEF NewData
  <2>2. CASE a \in S
    <3>1. PICK b \in S : NextPart(diskPages, b) = a
      BY <1>11, <2>2 DEF PutParts
    <3>2. Joins(diskPages', b) /\ NextPart(diskPages', b) = a /\ b \in Slots(diskPages')
      BY <1>1, <1>3, <3>1
    <3> QED BY <1>2, <3>2, JoinsLater
  <2> QED BY <2>1, <2>2
<1> QED BY <1>4, <1>9, <1>10, <1>11 DEF NewItem

\* The last part adds one item to the store, at an address it may use.
LEMMA AddPartLast ==
  ASSUME IndInv, PartsInv, RoomInv, HeadsInv, IndInv', PartsFitInv', HeadsInv', AddPart, Left' = 0
  PROVE  \E h \in Addresses \ DOMAIN Store :
           Store' = [b \in DOMAIN Store \cup {h} |-> IF b = h THEN put.item ELSE Store[b]]
PROOF
<1>1. \E S \in SUBSET Slots(diskPages) : \E h : NewItem(S, h)
  <2>1. CASE put.written = 0
    <3>1. {} \in SUBSET Slots(diskPages) /\ NewItem({}, NewSlot)
      BY <2>1, AddOnlyPart
    <3> QED BY <3>1, Zenon
  <2>2. CASE put.written # 0
    <3>1. put.written > 0 /\ Left > 0 /\ put.item \in Items
      BY <2>2, AddPartEffect
    <3>2. PICK S \in SUBSET Slots(diskPages) : \E h \in S : PutParts(S, h)
      BY <3>1 DEF PartsInv, ChainInv, PutPartsInv
    <3>3. PICK h \in S : PutParts(S, h)
      BY <3>2
    <3>4. NewItem(S, h)
      BY <3>1, <3>3, AddLastPart
    <3> QED BY <3>4, Zenon
  <2> QED BY <2>1, <2>2
<1>2. PICK S \in SUBSET Slots(diskPages) : \E h : NewItem(S, h)
  BY <1>1
<1>3. PICK h : NewItem(S, h)
  BY <1>2
<1>4. /\ NewSlot \notin Slots(diskPages)
      /\ Slots(diskPages') = Slots(diskPages) \cup {NewSlot}
      /\ \A a \in Slots(diskPages) : Part(diskPages', a) = Part(diskPages, a)
      /\ Whole(diskPages) \subseteq Slots(diskPages)
  BY AddPartPages, WholeIsFixpoint DEF PartsInv
<1>5. h \notin DOMAIN Store /\ h \in Slots(diskPages')
  BY <1>3, <1>4, StoreOK DEF NewItem
<1>6. DOMAIN Store' = DOMAIN Store \cup {h}
  <2>1. \A a \in DOMAIN Store' : a \in DOMAIN Store \cup {h}
    <3> SUFFICES ASSUME NEW a \in DOMAIN Store', a # h PROVE a \in DOMAIN Store
      OBVIOUS
    <3>1. a \in Whole(diskPages') /\ Part(diskPages', a).data.from = 0
      BY NextStoreOK
    <3>2. a \notin S \cup {NewSlot}
      BY <1>3, <3>1 DEF NewItem
    <3>3. a \in Whole(diskPages)
      BY <1>3, <3>1, <3>2 DEF NewItem
    <3> QED BY <1>4, <3>1, <3>3, StoreOK
  <2>2. \A a \in DOMAIN Store : a \in DOMAIN Store'
    BY <1>3, <1>4, StoreOK, NextStoreOK DEF NewItem
  <2>3. h \in DOMAIN Store'
    BY <1>3, <1>5, NextStoreOK DEF NewItem
  <2> QED BY <2>1, <2>2, <2>3
<1>7. \A a \in DOMAIN Store : Store'[a] = Store[a]
  BY <1>4, <1>6, StoreOK, NextStoreOK
<1>8. Store'[h] = put.item
  BY <1>3, <1>6, NextStoreOK DEF NewItem
<1>9. h \in Addresses
  <2>1. DiskOK(diskPages') /\ AllFit(diskPages')
    BY DEF IndInv, PartsFitInv
  <2>2. h.page < MaxPages
    BY <1>3, <1>5 DEF HeadsInv, NewItem
  <2> QED BY <1>5, <2>1, <2>2, HeadAddress
<1>10. Store' = [b \in DOMAIN Store \cup {h} |-> IF b = h THEN put.item ELSE Store[b]]
  BY <1>5, <1>6, <1>7, <1>8, StoreIsFunction
<1> QED BY <1>5, <1>9, <1>10

--------------------------------------------------------------------------------
(***************************************************************************)
(* The heap file implements the store it promises, step by step.           *)
(***************************************************************************)
Putting == put.item # -1 /\ Left > 0

Deleting == pc = "delete" /\ Part(diskPages, target).data.from = 0

LEMMA CallCases ==
  ASSUME ~ (Putting /\ Deleting)
  PROVE  /\ Putting => Call = [op |-> "put", item |-> put.item]
         /\ Deleting => Call = [op |-> "delete", at |-> target]
         /\ ~ Putting /\ ~ Deleting => Call = [op |-> "none"]
  BY Zenon DEF Call, Putting, Deleting, NullPage

LEMMA NextCallCases ==
  ASSUME ~ (Putting' /\ Deleting')
  PROVE  /\ Putting' => Call' = [op |-> "put", item |-> put'.item]
         /\ Deleting' => Call' = [op |-> "delete", at |-> target']
         /\ ~ Putting' /\ ~ Deleting' => Call' = [op |-> "none"]
  BY Zenon DEF Call, Putting, Deleting, NullPage

\* A delete starts when no put is in progress.
LEMMA NotBoth ==
  ASSUME IndInv
  PROVE  Deleting => ~ Putting
  BY NoPutOK DEF IndInv, PutInv, Putting, Deleting

\* A step that keeps the items, and the call or drops it.
LEMMA QuietStep ==
  ASSUME IndInv, Store' = Store, pc' # "delete",
         \/ put'.item = -1
         \/ pc # "delete" /\ put'.item = put.item /\ put'.written = put.written
  PROVE  [Promise!Next]_<<Store, Call>>
PROOF
<1>1. ~ Deleting'
  BY DEF Deleting
<1>2. CASE put'.item = -1
  <2>1. Call' = [op |-> "none"]
    BY <1>1, <1>2, NextCallCases DEF Putting
  <2> QED BY <2>1 DEF Promise!Next, Promise!Die, Promise!NoCall
<1>3. CASE pc # "delete" /\ put'.item = put.item /\ put'.written = put.written
  <2>1. ~ Deleting
    BY <1>3 DEF Deleting
  <2>2. Left' = Left
    BY <1>3 DEF Left
  <2>3. Putting' <=> Putting
    BY <1>3, <2>2 DEF Putting
  <2>4. Call' = Call
    BY <1>1, <1>3, <2>1, <2>3, CallCases, NextCallCases
  <2> QED BY <2>4
<1> QED BY <1>2, <1>3

\* A part is added: the put has taken effect with the last one.
LEMMA AddPartStep ==
  ASSUME IndInv, PartsInv, RoomInv, HeadsInv, IndInv', PartsFitInv', HeadsInv', AddPart
  PROVE  [Promise!Next]_<<Store, Call>>
PROOF
<1>1. /\ put.item \in Items /\ put.item # -1 /\ Left > 0 /\ put'.item = put.item
      /\ pc = "part" /\ pc' = "loop"
  BY AddPartEffect, ItemsAssumption
<1>2. ~ Deleting /\ ~ Deleting' /\ Call = [op |-> "put", item |-> put.item]
  BY <1>1, CallCases DEF Deleting, Putting
<1>3. CASE Left' = 0
  <2>1. Call' = [op |-> "none"]
    BY <1>2, <1>3, NextCallCases DEF Putting
  <2>2. PICK h \in Addresses \ DOMAIN Store : Store' = Promise!With(Store, h, put.item)
    BY <1>3, AddPartLast, Zenon DEF Promise!With
  <2>3. Call.op = "put" /\ Call.item = put.item
    BY <1>2
  <2>4. Store' \in {Promise!With(s, a, Call.item) : s \in {Store}, a \in Addresses \ DOMAIN Store}
    BY <2>2, <2>3
  <2>5. Promise!Put
    BY <2>1, <2>3, <2>4 DEF Promise!Put, Promise!NoCall
  <2> QED BY <2>5 DEF Promise!Next
<1>4. CASE Left' # 0
  <2>1. Left' > 0
    BY <1>4, LastPart DEF PartsInv, ChainInv
  <2>2. Call' = Call
    BY <1>1, <1>2, <2>1, NextCallCases DEF Putting
  <2> QED BY <1>4, <2>2, AddPartMore
<1> QED BY <1>3, <1>4

\* A delete goes on with parts that are not the first one.
LEMMA DeletePartLater ==
  ASSUME IndInv, PartsInv, DeletePart, pc' = "delete"
  PROVE  Part(diskPages', target').data.from > 0
PROOF
<1>1. /\ target \in Slots(diskPages)
      /\ Part(diskPages, target).continues_on_page # -1 /\ target' = NextPart(diskPages, target)
      /\ Slots(diskPages') = Slots(diskPages) \ {target}
      /\ \A a \in Slots(diskPages') : Part(diskPages', a) = Part(diskPages, a)
  BY DeletePartSlots DEF PartsInv
<1>2. pc = "delete"
  BY DEF DeletePart, DeleteSlot
<1>3. Joins(diskPages, target)
  BY <1>1, <1>2, WholeIsFixpoint DEF PartsInv, DeleteInv, EndsItem
<1>4. target' \in Slots(diskPages) /\ target' # target
  BY <1>1, <1>3, DeletePartWhole DEF Joins, PartsInv, ChainInv
<1>5. Part(diskPages, target').data.from > 0
  BY <1>1, <1>3, JoinsLater, FitHasBytes DEF PartsInv, ChainInv, PartsFitInv, IndInv
<1> QED BY <1>1, <1>4, <1>5

\* A part is deleted: the delete has taken effect with the first one.
LEMMA DeletePartStep ==
  ASSUME IndInv, PartsInv, DeletePart
  PROVE  [Promise!Next]_<<Store, Call>>
PROOF
<1>1. /\ pc = "delete" /\ put' = put /\ put = NoPut /\ target \in Slots(diskPages)
      /\ IF Part(diskPages, target).continues_on_page = -1
           THEN pc' = "idle" ELSE pc' = "delete" /\ target' = NextPart(diskPages, target)
      /\ Slots(diskPages') = Slots(diskPages) \ {target}
      /\ \A a \in Slots(diskPages') : Part(diskPages', a) = Part(diskPages, a)
  BY DeletePartSlots DEF PartsInv, IndInv, PutInv
<1>2. ~ Putting /\ ~ Putting'
  BY <1>1, NoPutOK DEF Putting
<1>3. ~ Deleting'
  BY DeletePartLater DEF Deleting
<1>4. Call' = [op |-> "none"]
  BY <1>2, <1>3, NextCallCases
<1>5. CASE Part(diskPages, target).data.from = 0
  <2>1. Call = [op |-> "delete", at |-> target]
    BY <1>1, <1>2, <1>5, CallCases DEF Deleting
  <2>2. Store' = [a \in DOMAIN Store \ {target} |-> Store[a]]
    BY <1>5, DeletePartStore
  <2>3. Call.op = "delete" /\ Call.at = target
    BY <2>1
  <2>4. Promise!Delete
    BY <1>4, <2>2, <2>3 DEF Promise!Delete, Promise!NoCall
  <2> QED BY <2>4 DEF Promise!Next
<1>6. CASE Part(diskPages, target).data.from # 0
  <2>1. Store' = Store
    BY <1>6, DeletePartStore
  <2> QED BY <1>4, <2>1 DEF Promise!Next, Promise!Die, Promise!NoCall
<1> QED BY <1>5, <1>6

\* A put or a delete is called.
LEMMA CallStep ==
  ASSUME IndInv, \/ \E x \in Items : PutStart(x)
                 \/ \E a \in DOMAIN Store : DeleteStart(a)
  PROVE  [Promise!Next]_<<Store, Call>>
PROOF
<1>1. pc = "idle" /\ diskPages' = diskPages /\ put = NoPut
  BY DEF PutStart, DeleteStart, disk, IndInv, PutInv, Called
<1>2. Store' = Store
  BY <1>1 DEF Store
<1>3. Call = [op |-> "none"]
  BY <1>1, CallCases, NoPutOK DEF Putting, Deleting
<1>4. ASSUME NEW x \in Items, PutStart(x)
      PROVE  [Promise!Next]_<<Store, Call>>
  <2>1. put'.item = x /\ put'.written = 0 /\ pc' # "delete"
    BY <1>4 DEF PutStart, NoPut
  <2>2. Left' > 0
    <3>1. Size[x] \in Nat \ {0}
      OBVIOUS
    <3> QED BY <2>1, <3>1 DEF Left
  <2>3. Call' = [op |-> "put", item |-> x]
    BY <2>1, <2>2, NextCallCases, ItemsAssumption DEF Putting, Deleting
  <2>4. Promise!CallPut
    BY <1>2, <1>3, <2>3 DEF Promise!CallPut, Promise!NoCall
  <2> QED BY <2>4 DEF Promise!Next
<1>5. ASSUME NEW a \in DOMAIN Store, DeleteStart(a)
      PROVE  [Promise!Next]_<<Store, Call>>
  <2>1. pc' = "delete" /\ target' = a /\ put' = NoPut
    BY <1>1, <1>5 DEF DeleteStart
  <2>2. Part(diskPages', target').data.from = 0
    BY <1>1, <2>1, StoreOK
  <2>3. Call' = [op |-> "delete", at |-> a]
    BY <2>1, <2>2, NextCallCases, NoPutOK DEF Putting, Deleting
  <2>4. Promise!CallDelete
    BY <1>2, <1>3, <2>3 DEF Promise!CallDelete, Promise!NoCall
  <2> QED BY <2>4 DEF Promise!Next
<1> QED BY <1>4, <1>5

\* Every step of the heap file is one of the store, or leaves it as it is.
LEMMA NextStep ==
  ASSUME MaxFaults = 0, IndInv, PartsInv, RoomInv, HeadsInv,
         IndInv', PartsFitInv', HeadsInv', [Next]_vars
  PROVE  [Promise!Next]_<<Store, Call>>
PROOF
<1>1. CASE diskPages' = diskPages /\ pc' # "delete" /\
           \/ put'.item = -1
           \/ pc # "delete" /\ put'.item = put.item /\ put'.written = put.written
  <2>1. Store' = Store
    BY <1>1 DEF Store
  <2> QED BY <1>1, <2>1, QuietStep
<1>2. ASSUME NEW ok \in WriteOutcomes, AllocPage(ok) \/ WriteNewPage(ok) \/ SetFreePage(ok)
      PROVE  [Promise!Next]_<<Store, Call>>
  <2>1. ok = TRUE /\ put \in PutType
    BY <1>2, NoFaults DEF IndInv, Types
  <2>2. CASE AllocPage(TRUE)
    <3>1. /\ diskPages' = diskPages /\ pc = "alloc" /\ pc' = "write_new"
          /\ put' = [put EXCEPT !.free = header.page_count]
      BY <2>2 DEF AllocPage, CountPage
    <3>2. put'.item = put.item /\ put'.written = put.written
      BY <2>1, <3>1 DEF PutType
    <3> QED BY <1>1, <3>1, <3>2
  <2>3. CASE WriteNewPage(TRUE)
    <3>1. Store' = Store
      BY <2>3, WriteNewPageSlots, SameSlots DEF PartsInv, ChainInv
    <3>2. /\ pc = "write_new" /\ pc' # "delete"
          /\ put' = NoPut \/ put' = [put EXCEPT !.free = put.free]
      BY <2>3 DEF WriteNewPage, NewPageReturned
    <3>3. put'.item = -1 \/ (put'.item = put.item /\ put'.written = put.written)
      BY <2>1, <3>2, NoPutOK DEF PutType
    <3> QED BY <3>1, <3>2, <3>3, QuietStep
  <2>4. CASE SetFreePage(TRUE)
    <3>1. /\ diskPages' = diskPages /\ pc = "set_free" /\ PutGoesOn
          /\ put.caller \in {"get_page", "full", "split"}
      BY <2>1, <2>4 DEF SetFreePage, IndInv, PutInv, PutType
    <3>2. put'.item = put.item /\ put'.written = put.written /\ pc' # "delete"
      BY <2>1, <3>1 DEF PutGoesOn, PutType
    <3> QED BY <1>1, <3>1, <3>2
  <2> QED BY <1>2, <2>1, <2>2, <2>3, <2>4
<1>3. CASE PageFull \/ SplitItem \/ ItemFits
  <2>1. /\ diskPages' = diskPages /\ pc = "loop" /\ pc' # "delete"
        /\ put'.item = put.item /\ put'.written = put.written
    BY <1>3 DEF PageFull, SplitItem, ItemFits, disk, IndInv, Types, PutType
  <2> QED BY <1>1, <2>1
<1>4. CASE AddPart
  BY <1>4, AddPartStep
<1>5. CASE DeletePart
  BY <1>5, DeletePartStep
<1>6. CASE diskPages' = diskPages /\ pc' # "delete" /\ put' = NoPut
  BY <1>1, <1>6, NoPutOK
<1>7. CASE PutReturns \/ WriteAborts \/ AddPartAborts \/ OpenFails
           \/ OpenWithPages \/ OpenAborts \/ Close \/ FreePages \/ Crash
           \/ (\E x \in Items : PutAborts(x))
           \/ (\E a \in DOMAIN Store : GetItem(a) \/ GetItemAborts(a))
  BY <1>6, <1>7 DEF PutReturns, WriteAborts, AddPartAborts, OpenFails,
     OpenWithPages, OpenAborts, Close, FreePages, Crash, PutAborts, GetItem, GetItemAborts,
     Die, Dead, IndInv, PutInv, Called, Running, disk
<1>8. CASE OpenWithoutPages
  <2>1. diskPages' = diskPages /\ pc' = "alloc" /\ put' = [NoPut EXCEPT !.caller = "init"]
    BY <1>8 DEF OpenWithoutPages, OpenIfNone
  <2>2. put'.item = -1
    BY <2>1 DEF NoPut
  <2> QED BY <1>1, <2>1, <2>2
<1>9. CASE \/ \E x \in Items : PutStart(x)
           \/ \E a \in DOMAIN Store : DeleteStart(a)
  BY <1>9, CallStep
<1>10. CASE UNCHANGED vars
  <2>1. diskPages' = diskPages /\ put' = put /\ pc' = pc /\ target' = target
    BY <1>10 DEF vars, disk
  <2>2. Store' = Store
    BY <2>1 DEF Store
  <2>3. (Putting' <=> Putting) /\ (Deleting' <=> Deleting)
    BY <2>1 DEF Putting, Deleting, Left
  <2>4. Call' = Call
    BY <2>1, <2>3, NotBoth, CallCases, NextCallCases
  <2> QED BY <2>2, <2>4
<1> QED BY <1>2, <1>3, <1>4, <1>5, <1>7, <1>8, <1>9, <1>10, Zenon DEF Next, Steps, Calls

(***************************************************************************)
(* The heap file keeps the items it is given: whatever splits, partial     *)
(* deletes, crashes and restarts there are, a put adds its item to those   *)
(* that read back in full when its last part is written, a delete takes    *)
(* its item away when the deletion of the first part is written, and no    *)
(* other step adds, loses, moves or changes an item                        *)
(* (PageManager!ItemsKept, the specification of module ItemStore).         *)
(***************************************************************************)
THEOREM HeapFileItemsKept ==
  ASSUME MaxFaults = 0
  PROVE  Spec => ItemsKept
PROOF
<1> DEFINE Inv == IndInv /\ PartsInv /\ RoomInv /\ HeadsInv
<1>1. Init => RoomInv /\ HeadsInv /\ Promise!Init
  <2> SUFFICES ASSUME Init PROVE RoomInv /\ HeadsInv /\ Promise!Init
    OBVIOUS
  <2>1. put.item = -1 /\ put.item \notin Items /\ pc = "closed"
    BY NoPutOK, ItemsAssumption DEF Init
  <2>2. \A a : a \notin Slots(diskPages)
    BY DEF Init, Slots, NoPages
  <2>3. Call = [op |-> "none"]
    BY <2>1, CallCases DEF Putting, Deleting
  <2>4. DOMAIN Store = {}
    BY <2>2, StoreOK
  <2>5. Store = [a \in {} |-> a]
    BY <2>4, StoreIsFunction
  <2> QED BY <2>1, <2>2, <2>3, <2>5 DEF RoomInv, HeadsInv, Promise!Init, Promise!NoCall
<1>2. Inv /\ IndInv' /\ PartsInv' /\ [Next]_vars => RoomInv' /\ HeadsInv'
  BY NextRoom, NextHeads DEF PartsInv, ChainInv
<1>3. Inv /\ Inv' /\ [Next]_vars => [Promise!Next]_<<Store, Call>>
  BY NextStep DEF PartsInv, ChainInv
<1>4. Spec => []Inv
  BY <1>1, <1>2, PartsInvariance, PTL DEF Spec
<1> HIDE DEF Inv
<1> QED BY <1>1, <1>3, <1>4, PTL DEF Spec, ItemsKept, Promise!Spec

--------------------------------------------------------------------------------
(***************************************************************************)
(* No process dies either: every part leads on to the end of its item, but *)
(* the last one of a put in progress, and has one that leads to it, but a  *)
(* part that a delete goes on with.                                        *)
(***************************************************************************)
LeadsOn ==
  \A a \in Slots(diskPages) :
    \/ EndsItem(Part(diskPages, a))
    \/ Joins(diskPages, a)
    \/ Between /\ LastWritten(a) /\ Part(diskPages, a).data.item = put.item

IsLedTo ==
  \A a \in Slots(diskPages) :
    Part(diskPages, a).data.from > 0 =>
      \/ pc = "delete" /\ a = target
      \/ \E b \in Slots(diskPages) : NextPart(diskPages, b) = a

\* Only a put that has no parts yet may find that its item does not fit.
NextPartRoom ==
  Between /\ pc = "part" /\ put.cont = -1 => CanFitPayload(ram[put.cur], Left)

LiveInv == LeadsOn /\ IsLedTo /\ NextPartRoom

\* A step that leaves the slots alone, and the put in progress if it has parts.
LEMMA LiveStays ==
  ASSUME LiveInv, pc # "delete", NextPartRoom',
         Slots(diskPages') = Slots(diskPages),
         \A a \in Slots(diskPages) : Part(diskPages', a) = Part(diskPages, a),
         Between => /\ put'.item = put.item /\ put'.written = put.written
                    /\ put'.cur = put.cur
  PROVE  LiveInv'
PROOF
<1>1. \A a \in Slots(diskPages) : NextPart(diskPages', a) = NextPart(diskPages, a)
  BY DEF NextPart
<1>2. Between => Between'
  BY DEF Between, Left
<1>3. LeadsOn'
  <2> SUFFICES ASSUME NEW a \in Slots(diskPages)
               PROVE  \/ EndsItem(Part(diskPages', a))
                      \/ Joins(diskPages', a)
                      \/ Between' /\ LastWritten(a)' /\ Part(diskPages', a).data.item = put'.item
    BY Zenon DEF LeadsOn
  <2>1. CASE EndsItem(Part(diskPages, a))
    BY <2>1
  <2>2. CASE Joins(diskPages, a)
    BY <1>1, <2>2 DEF Joins
  <2>3. CASE Between /\ LastWritten(a) /\ Part(diskPages, a).data.item = put.item
    BY <1>2, <2>3 DEF LastWritten
  <2> QED BY <2>1, <2>2, <2>3 DEF LiveInv, LeadsOn
<1>4. IsLedTo'
  BY <1>1 DEF LiveInv, IsLedTo
<1> QED BY <1>3, <1>4 DEF LiveInv

\* A step of the memory.
LEMMA MemoryLive ==
  ASSUME LiveInv, pc # "delete", pc' # "part", diskPages' = diskPages,
         Between => /\ put'.item = put.item /\ put'.written = put.written
                    /\ put'.cur = put.cur
  PROVE  LiveInv'
PROOF
<1>1. NextPartRoom'
  BY DEF NextPartRoom
<1> QED BY <1>1, LiveStays

\* The page for the next part is allocated, written and announced.
LEMMA NewPageLive ==
  ASSUME IndInv, PartsInv, LiveInv, AllocPage(TRUE) \/ WriteNewPage(TRUE) \/ SetFreePage(TRUE)
  PROVE  LiveInv'
PROOF
<1>1. put \in PutType /\ NewPageInv /\ NamesInv /\ Allocating
  BY DEF IndInv, Types, PartsInv, ChainInv, AllocPage, CountPage, WriteNewPage, SetFreePage,
     Allocating
<1>2. Between => put.caller = "split"
  BY <1>1 DEF NewPageInv
<1>3. CASE AllocPage(TRUE)
  <2>1. /\ pc = "alloc" /\ pc' = "write_new" /\ diskPages' = diskPages
        /\ put' = [put EXCEPT !.free = header.page_count]
    BY <1>3 DEF AllocPage, CountPage
  <2>2. put'.item = put.item /\ put'.written = put.written /\ put'.cur = put.cur
    BY <1>1, <2>1 DEF PutType
  <2> QED BY <2>1, <2>2, MemoryLive
<1>4. CASE WriteNewPage(TRUE)
  <2>1. /\ pc = "write_new" /\ pc' # "part"
        /\ put.caller = "split" => put' = [put EXCEPT !.free = put.free]
    BY <1>4 DEF WriteNewPage, NewPageReturned
  <2>2. Between => /\ put'.item = put.item /\ put'.written = put.written /\ put'.cur = put.cur
    BY <1>1, <1>2, <2>1 DEF PutType
  <2>3. NextPartRoom'
    BY <2>1 DEF NextPartRoom
  <2>4. /\ Slots(diskPages') = Slots(diskPages)
        /\ \A a \in Slots(diskPages) : Part(diskPages', a) = Part(diskPages, a)
    BY <1>1, <1>4, WriteNewPageSlots
  <2> QED BY <2>1, <2>2, <2>3, <2>4, LiveStays
<1>5. CASE SetFreePage(TRUE)
  <2>1. /\ pc = "set_free" /\ diskPages' = diskPages /\ PutGoesOn
        /\ put.caller \in {"get_page", "full", "split"} /\ put.free \in Nat
    BY <1>1, <1>5 DEF SetFreePage, IndInv, PutInv, PutType, RamOK
  <2>2. /\ put'.item = put.item /\ put'.written = put.written
        /\ put.caller = "split" => put'.cur = put.cur /\ put'.cont # -1
    <3>1. CASE put.caller = "get_page"
      <4>1. put' = [put EXCEPT !.page = put.free, !.cur = put.free, !.free = NullPage]
        BY <2>1, <3>1 DEF PutGoesOn
      <4> QED BY <1>1, <3>1, <4>1 DEF PutType
    <3>2. CASE put.caller = "full"
      <4>1. put' = [put EXCEPT !.cur = put.free]
        BY <2>1, <3>2 DEF PutGoesOn
      <4> QED BY <1>1, <3>2, <4>1 DEF PutType
    <3>3. CASE put.caller = "split"
      <4>1. put' = [put EXCEPT !.cont = put.free]
        BY <2>1, <3>3 DEF PutGoesOn
      <4>2. put.free # -1
        BY <2>1
      <4> QED BY <1>1, <3>3, <4>1, <4>2 DEF PutType
    <3> QED BY <2>1, <3>1, <3>2, <3>3
  <2>3. Between' => Between
    BY <2>2 DEF Between, Left
  <2>4. NextPartRoom'
    BY <1>2, <2>2, <2>3 DEF NextPartRoom
  <2> QED BY <1>2, <2>1, <2>2, <2>4, LiveStays
<1> QED BY <1>3, <1>4, <1>5

\* An iteration of put_item begins.
LEMMA IterationLive ==
  ASSUME IndInv, LiveInv, PageFull \/ SplitItem \/ ItemFits
  PROVE  LiveInv'
PROOF
<1>1. /\ pc = "loop" /\ diskPages' = diskPages /\ ram' = ram /\ put \in PutType
      /\ put'.item = put.item /\ put'.written = put.written /\ put'.cur = put.cur
      /\ pc' = "alloc" \/ CanFitPayload(ram[put.cur], Left)
  BY DEF PageFull, SplitItem, ItemFits, disk, memory, IndInv, Types, PutType
<1>2. Left' = Left
  BY <1>1 DEF Left
<1>3. NextPartRoom'
  BY <1>1, <1>2 DEF NextPartRoom
<1> QED BY <1>1, <1>3, LiveStays

\* A part is added.
LEMMA AddPartLive ==
  ASSUME IndInv, PartsInv, LiveInv, AddPart
  PROVE  LiveInv'
PROOF
<1>1. /\ NewSlot \notin Slots(diskPages)
      /\ Slots(diskPages') = Slots(diskPages) \cup {NewSlot}
      /\ \A a \in Slots(diskPages) : /\ Part(diskPages', a) = Part(diskPages, a)
                                     /\ NextPart(diskPages', a) = NextPart(diskPages, a)
      /\ Part(diskPages', NewSlot).data = NewData
      /\ Part(diskPages', NewSlot).size = PartSize
      /\ Part(diskPages', NewSlot).continues_on_page = put.cont
      /\ NewData.item = put.item /\ NewData.from = put.written
  BY AddPartPages, AddPartSlots DEF PartsInv, NewData
<1>2. /\ pc = "part" /\ pc' = "loop" /\ put.item \in Items /\ put.written \in Nat
      /\ put'.item = put.item /\ put'.written = put.written + PartSize /\ Left > 0
      /\ put'.cur = put.free /\ PartSize \in Nat \ {0}
  BY AddPartEffect
<1>3. NewPageInv /\ Left' \in Nat
  BY LastPart DEF PartsInv, ChainInv
<1>4. ASSUME NEW a \in Slots(diskPages), Between, LastWritten(a),
             Part(diskPages, a).data.item = put.item
      PROVE  Joins(diskPages', a)
  <2>1. ram[put.cur] = PageNew(put.cur)
    BY <1>3, <1>4 DEF NewPageInv
  <2>2. NewSlot = Address(put.cur, 0)
    BY <2>1 DEF NewSlot, PageNew
  <2>3. NextPart(diskPages', a) = NewSlot
    BY <1>1, <1>4, <2>2 DEF NextPart, LastWritten
  <2>4. Continues(Part(diskPages', a), Part(diskPages', NewSlot))
    BY <1>1, <1>4 DEF Continues, LastWritten
  <2> QED BY <1>1, <2>3, <2>4 DEF Joins
<1>5. LeadsOn'
  <2>1. \A a \in Slots(diskPages) : EndsItem(Part(diskPages', a)) \/ Joins(diskPages', a)
    BY <1>1, <1>4 DEF LiveInv, LeadsOn, Joins
  <2>2. CASE Left' = 0
    <3>1. EndsItem(Part(diskPages', NewSlot))
      BY <1>3, <2>2, LastPartEnds
    <3> QED BY <1>1, <2>1, <3>1 DEF LeadsOn
  <2>3. CASE Left' # 0
    <3>1. Between'
      BY <1>2, <1>3, <2>3 DEF Between
    <3>2. put.cont = put.free
      BY <1>3, <2>3, LastPart
    <3>3. \A a : a = NewSlot => LastWritten(a)' /\ Part(diskPages', a).data.item = put'.item
      BY <1>1, <1>2, <3>2 DEF LastWritten
    <3> QED BY <1>1, <2>1, <3>1, <3>3, Zenon DEF LeadsOn
  <2> QED BY <2>2, <2>3
<1>6. IsLedTo'
  <2>1. put.written > 0 => \E b \in Slots(diskPages') : NextPart(diskPages', b) = NewSlot
    <3> SUFFICES ASSUME put.written > 0
                 PROVE  \E b \in Slots(diskPages') : NextPart(diskPages', b) = NewSlot
      OBVIOUS
    <3>1. PICK S \in SUBSET Slots(diskPages) : \E h \in S : PutParts(S, h)
      BY <1>2 DEF PartsInv, ChainInv, PutPartsInv
    <3>2. PICK h \in S : PutParts(S, h)
      BY <3>1
    <3>3. PICK b \in S : LastWritten(b)
      BY <3>2 DEF PutParts
    <3>4. NextPart(diskPages', b) = NewSlot
      BY <1>3, <3>2, <3>3, AddNext
    <3> QED BY <1>1, <3>4
  <2>2. \A a \in Slots(diskPages) : Part(diskPages, a).data.from > 0 =>
          \E b \in Slots(diskPages) : NextPart(diskPages, b) = a
    BY <1>2 DEF LiveInv, IsLedTo
  <2> QED BY <1>1, <2>1, <2>2 DEF IsLedTo
<1>7. NextPartRoom'
  BY <1>2 DEF NextPartRoom
<1> QED BY <1>5, <1>6, <1>7 DEF LiveInv

\* A part is deleted, with the way to the next one.
LEMMA DeletePartLive ==
  ASSUME IndInv, PartsInv, LiveInv, DeletePart
  PROVE  LiveInv'
PROOF
<1>1. /\ pc = "delete" /\ put' = put /\ put = NoPut /\ target \in Slots(diskPages)
      /\ IF Part(diskPages, target).continues_on_page = -1
           THEN pc' = "idle" ELSE pc' = "delete" /\ target' = NextPart(diskPages, target)
      /\ Slots(diskPages') = Slots(diskPages) \ {target}
      /\ \A a \in Slots(diskPages') : Part(diskPages', a) = Part(diskPages, a)
  BY DeletePartSlots DEF PartsInv, IndInv, PutInv
<1>2. ~ Between /\ ~ Between'
  BY <1>1, NoPutOK, ItemsAssumption DEF Between
<1>3. \A a \in Slots(diskPages') : NextPart(diskPages', a) = NextPart(diskPages, a)
  BY <1>1 DEF NextPart
<1>4. \A a \in Slots(diskPages) : Joins(diskPages, a) => NextPart(diskPages, a) # target
  BY DeletePartWhole DEF PartsInv, ChainInv
<1>5. LeadsOn'
  <2>1. \A a \in Slots(diskPages') : EndsItem(Part(diskPages', a)) \/ Joins(diskPages', a)
    BY <1>1, <1>2, <1>3, <1>4 DEF LiveInv, LeadsOn, Joins
  <2> QED BY <2>1 DEF LeadsOn
<1>6. IsLedTo'
  <2> SUFFICES ASSUME NEW a \in Slots(diskPages'), Part(diskPages', a).data.from > 0
               PROVE  \/ pc' = "delete" /\ a = target'
                      \/ \E b \in Slots(diskPages') : NextPart(diskPages', b) = a
    BY Zenon DEF IsLedTo
  <2>1. PICK b \in Slots(diskPages) : NextPart(diskPages, b) = a
    BY <1>1 DEF LiveInv, IsLedTo
  <2>2. a.page \in Nat
    BY DeletePartSlots, SlotsOK DEF PartsInv
  <2>3. CASE b = target
    <3>1. Part(diskPages, target).continues_on_page # -1
      BY <2>1, <2>2, <2>3, PartOK DEF IndInv
    <3> QED BY <1>1, <2>1, <2>3, <3>1
  <2>4. CASE b # target
    BY <1>1, <1>3, <2>1, <2>4
  <2> QED BY <2>3, <2>4
<1>7. NextPartRoom'
  BY <1>2 DEF NextPartRoom
<1> QED BY <1>5, <1>6, <1>7 DEF LiveInv

\* A put gives up only before its first part.
LEMMA AbortsLive ==
  ASSUME IndInv, LiveInv, AddPartAborts
  PROVE  LiveInv'
PROOF
<1>1. /\ pc = "part" /\ pc' = "aborted" /\ diskPages' = diskPages
      /\ ~ CanFitPayload(ram[put.cur], PartSize) /\ PageOK(ram[put.cur])
      /\ put.item \in Items /\ put.written \in Nat
  BY DEF AddPartAborts, Die, disk, IndInv, PutInv, RamOK, Types, PutType
<1>2. ~ Between
  <2> DEFINE space == PayloadAvailableSpace(ram[put.cur])
  <2> SUFFICES ASSUME Between PROVE FALSE
    OBVIOUS
  <2>1. CASE put.cont = -1
    <3>1. PartSize = Left
      BY <2>1 DEF PartSize
    <3> QED BY <1>1, <2>1, <3>1 DEF LiveInv, NextPartRoom
  <2>2. CASE put.cont # -1
    <3>1. PartSize = IF space < Left THEN space ELSE Left
      BY <2>2 DEF PartSize
    <3>2. ~ (space >= PartSize)
      BY <1>1 DEF CanFitPayload
    <3>3. space \in Nat /\ Left \in Int
      <4>1. Size[put.item] \in Nat
        BY <1>1
      <4>2. Left \in Int
        BY <1>1, <4>1 DEF Left
      <4>3. ram[put.cur].free_start \in Nat /\ ram[put.cur].free_end \in Nat
        BY <1>1 DEF PageOK, PageType
      <4>4. space \in Nat
        BY <4>3 DEF PayloadAvailableSpace, FreeSpaceLeft, MetaSize
      <4> QED BY <4>2, <4>4
    <3> HIDE DEF space
    <3> QED BY <3>1, <3>2, <3>3
  <2> QED BY <2>1, <2>2
<1> QED BY <1>1, <1>2, MemoryLive

\* Every step keeps the parts of the file parts of its items.
LEMMA NextLive ==
  ASSUME MaxFaults = 0, ~ CanCrash, IndInv, PartsInv, LiveInv, [Next]_vars
  PROVE  LiveInv'
PROOF
<1>1. ASSUME NEW ok \in WriteOutcomes, AllocPage(ok) \/ WriteNewPage(ok) \/ SetFreePage(ok)
      PROVE  LiveInv'
  <2>1. ok = TRUE
    BY <1>1, NoFaults
  <2> QED BY <1>1, <2>1, NewPageLive
<1>2. CASE PageFull \/ SplitItem \/ ItemFits
  BY <1>2, IterationLive
<1>3. CASE AddPart
  BY <1>3, AddPartLive
<1>4. CASE DeletePart
  BY <1>4, DeletePartLive
<1>5. CASE AddPartAborts
  BY <1>5, AbortsLive
<1>6. CASE PutReturns
  <2>1. pc = "loop" /\ pc' = "idle" /\ diskPages' = diskPages /\ Left = 0
    BY <1>6 DEF PutReturns, disk
  <2>2. ~ Between
    BY <2>1 DEF Between
  <2> QED BY <2>1, <2>2, MemoryLive
<1>7. CASE WriteAborts \/ OpenFails \/ Crash
  <2>1. FALSE \notin Outcomes
    BY NoFaults
  <2> QED BY <1>7, <2>1 DEF WriteAborts, OpenFails, Crash
<1>8. CASE pc \notin Called /\ pc' # "part" /\ diskPages' = diskPages
  <2>1. ~ Between
    BY <1>8, NoPutOK, ItemsAssumption DEF IndInv, PutInv, Between
  <2> QED BY <1>8, <2>1, MemoryLive DEF Called
<1>9. CASE OpenWithPages \/ OpenWithoutPages \/ OpenAborts \/ Close \/ FreePages
           \/ (\E x \in Items : PutAborts(x))
           \/ (\E a \in DOMAIN Store : GetItem(a) \/ GetItemAborts(a) \/ DeleteStart(a))
  BY <1>8, <1>9 DEF OpenWithPages, OpenWithoutPages, OpenIfNone, OpenAborts, Close, FreePages,
     PutAborts, GetItem, GetItemAborts, DeleteStart, Die, Dead, Called, Running, disk
<1>10. ASSUME NEW x \in Items, PutStart(x)
       PROVE  LiveInv'
  BY <1>8, <1>10 DEF PutStart, Called, disk
<1>11. CASE UNCHANGED vars
  <2>1. /\ diskPages' = diskPages /\ put' = put /\ pc' = pc /\ ram' = ram /\ target' = target
    BY <1>11 DEF vars, disk, memory
  <2>2. \A a : LastWritten(a)' <=> LastWritten(a)
    BY <2>1 DEF LastWritten
  <2>3. (Between' <=> Between) /\ Left' = Left
    BY <2>1 DEF Between, Left
  <2> QED BY <2>1, <2>2, <2>3, Zenon DEF LiveInv, LeadsOn, IsLedTo, NextPartRoom
<1> QED BY <1>1, <1>2, <1>3, <1>4, <1>5, <1>6, <1>7, <1>9, <1>10, <1>11, Zenon
        DEF Next, Steps, Calls

(***************************************************************************)
(* While no process dies and no write fails, the live slots of the file    *)
(* are the parts of its items and nothing else: no part is left behind,    *)
(* shared by two items, or out of reach                                    *)
(* (PageManager!PartsMakeItems; "continuation of item should always be the *)
(* first item in page", item_management.c:115).                            *)
(***************************************************************************)
THEOREM HeapFilePartsMakeItems ==
  ASSUME MaxFaults = 0, ~ CanCrash
  PROVE  Spec => []PartsMakeItems
PROOF
<1>1. Init => LiveInv
  <2> SUFFICES ASSUME Init PROVE LiveInv
    OBVIOUS
  <2>1. \A a : a \notin Slots(diskPages)
    BY DEF Init, Slots, NoPages
  <2> QED BY <2>1 DEF Init, LiveInv, LeadsOn, IsLedTo, NextPartRoom
<1>2. IndInv /\ PartsInv /\ LiveInv /\ [Next]_vars => LiveInv'
  BY NextLive
<1>3. ASSUME IndInv, PartsInv, LiveInv, pc = "idle", NEW a \in Slots(diskPages)
      PROVE  /\ a \in Whole(diskPages)
             /\ Cardinality({b \in Slots(diskPages) : NextPart(diskPages, b) = a}) =
                  IF Part(diskPages, a).data.from = 0 THEN 0 ELSE 1
  <2> DEFINE Leading == {b \in Slots(diskPages) : NextPart(diskPages, b) = a}
  <2>1. ~ Between
    BY <1>3, NoPutOK, ItemsAssumption DEF IndInv, PutInv, Between, Called
  <2>2. \A b \in Slots(diskPages) : EndsItem(Part(diskPages, b)) \/ Joins(diskPages, b)
    BY <1>3, <2>1 DEF LiveInv, LeadsOn
  <2>3. PartsHaveBytes(diskPages) /\ DiskOK(diskPages)
    BY <1>3, FitHasBytes DEF PartsInv, ChainInv, PartsFitInv, IndInv
  <2>4. a \in Whole(diskPages)
    <3> DEFINE S == Slots(diskPages)
    <3>1. /\ S \in SUBSET Slots(diskPages)
          /\ \A b \in S : \/ EndsItem(Part(diskPages, b))
                          \/ Joins(diskPages, b) /\ NextPart(diskPages, b) \in S \cup Whole(diskPages)
      BY <2>2 DEF Joins
    <3> HIDE DEF S
    <3>2. S \subseteq Whole(diskPages)
      BY <2>3, <3>1, ChainIsWhole
    <3> QED BY <3>2 DEF S
  <2>5. a.page \in Nat
    BY <2>3, SlotsOK
  <2>6. CASE Part(diskPages, a).data.from = 0
    <3>1. ASSUME NEW b \in Leading PROVE FALSE
      <4>1. ~ EndsItem(Part(diskPages, b))
        BY <2>3, <2>5, PartOK DEF EndsItem
      <4>2. Joins(diskPages, b)
        BY <2>2, <4>1
      <4> QED BY <2>3, <2>6, <4>2, JoinsLater
    <3>2. Leading = {}
      BY <3>1, Zenon
    <3> QED BY <2>4, <2>6, <3>2, FS_EmptySet
  <2>7. CASE Part(diskPages, a).data.from # 0
    <3>1. Part(diskPages, a).data.from > 0
      BY <2>3, <2>7 DEF PartsHaveBytes, PartData
    <3>2. PICK b \in Slots(diskPages) : NextPart(diskPages, b) = a
      BY <1>3, <3>1 DEF LiveInv, IsLedTo
    <3>3. ASSUME NEW c \in Leading PROVE c = b
      BY <1>3, <2>5, <3>2, OneLeads DEF PartsInv
    <3>4. Leading = {b}
      BY <3>2, <3>3
    <3> QED BY <2>4, <2>7, <3>4, FS_Singleton
  <2> QED BY <2>6, <2>7
<1>4. IndInv /\ PartsInv /\ LiveInv => PartsMakeItems
  BY <1>3 DEF PartsMakeItems
<1> QED BY <1>1, <1>2, <1>4, PartsInvariance, PTL DEF Spec

--------------------------------------------------------------------------------
(***************************************************************************)
(* What users of the heap file rely on: a step keeps the items, or adds    *)
(* that of the put in progress, or takes away that of the delete.          *)
(***************************************************************************)
ItemsInv == ChainInv /\ NamesInv /\ DeleteInv /\ RoomInv /\ HeadsInv

ItemAdded ==
  /\ AddPart /\ Left' = 0
  /\ \E h \in Addresses \ DOMAIN Store :
       Store' = [b \in DOMAIN Store \cup {h} |-> IF b = h THEN put.item ELSE Store[b]]

ItemDeleted ==
  /\ DeletePart /\ Part(diskPages, target).data.from = 0
  /\ Store' = [a \in DOMAIN Store \ {target} |-> Store[a]]

\* At first there are no items.
LEMMA InitItems == Init => ItemsInv /\ DOMAIN Store = {}
PROOF
<1> SUFFICES ASSUME Init PROVE ItemsInv /\ DOMAIN Store = {}
  OBVIOUS
<1>1. put.item \notin Items /\ pc = "closed"
  BY NoPutOK, ItemsAssumption DEF Init
<1>2. \A a : a \notin Slots(diskPages)
  BY DEF Init, Slots, NoPages
<1>3. DOMAIN Store = {}
  BY <1>2, StoreOK
<1>4. NamesInv /\ DeleteInv /\ RoomInv /\ HeadsInv
  BY <1>1, <1>2 DEF NamesInv, DeleteInv, HasNewPage, RoomInv, HeadsInv
<1> QED BY <1>3, <1>4, InitChain DEF ItemsInv

\* The write of the last part of an item adds it.
LEMMA LastPartAdds ==
  ASSUME MaxFaults = 0, IndInv, FileInv, ItemsInv, AddPart, Left' = 0
  PROVE  ItemAdded
PROOF
<1>1. [Next]_vars
  BY Zenon DEF Next, Steps
<1>2. PartsInv
  BY DEF ItemsInv, PartsInv
<1>3. IndInv' /\ ChainInv' /\ NamesInv' /\ DeleteInv'
  BY <1>1, <1>2, NextChain, NextNames, NextDelete DEF PartsInv, ChainInv
<1>4. RoomInv' /\ HeadsInv'
  BY <1>1, <1>2, NextRoom, NextHeads DEF ItemsInv, ChainInv
<1>5. \E h \in Addresses \ DOMAIN Store :
        Store' = [b \in DOMAIN Store \cup {h} |-> IF b = h THEN put.item ELSE Store[b]]
  BY <1>2, <1>3, <1>4, AddPartLast DEF ItemsInv, ChainInv
<1> QED BY <1>5 DEF ItemAdded

LEMMA NextItems ==
  ASSUME MaxFaults = 0, IndInv, FileInv, ItemsInv, [Next]_vars
  PROVE  ItemsInv' /\ (Store' = Store \/ ItemAdded \/ ItemDeleted)
PROOF
<1>1. PartsInv
  BY DEF ItemsInv, PartsInv
<1>2. IndInv' /\ ChainInv' /\ NamesInv' /\ DeleteInv'
  BY <1>1, NextChain, NextNames, NextDelete DEF PartsInv, ChainInv
<1>3. RoomInv' /\ HeadsInv'
  BY <1>1, NextRoom, NextHeads DEF ItemsInv, ChainInv
<1> SUFFICES Store' = Store \/ ItemAdded \/ ItemDeleted
  BY <1>2, <1>3 DEF ItemsInv
<1>4. CASE AddPart
  <2>1. CASE Left' = 0
    BY <1>4, <2>1, LastPartAdds
  <2>2. CASE Left' # 0
    BY <1>1, <1>4, <2>2, AddPartMore
  <2> QED BY <2>1, <2>2
<1>5. CASE DeletePart
  BY <1>1, <1>5, DeletePartStore DEF ItemDeleted
<1>6. CASE WriteNewPage(TRUE)
  BY <1>6, WriteNewPageSlots, SameSlots DEF ItemsInv, ChainInv
<1>7. CASE diskPages' = diskPages
  BY <1>7 DEF Store
<1> QED BY <1>4, <1>5, <1>6, <1>7, DiskStep

\* A step in memory, with no put or delete in progress after it.
LEMMA MemoryItems ==
  ASSUME ItemsInv, UNCHANGED disk, put' = NoPut, pc' \in Dead \cup {"idle"}, AllFit(ram')
  PROVE  ItemsInv' /\ Store' = Store
PROOF
<1>1. diskPages' = diskPages /\ diskHeader' = diskHeader /\ put'.item \notin Items
  BY NoPutOK, ItemsAssumption DEF disk
<1>2. NewPageInv'
  BY NoPutNewPage
<1>3. PartsFitInv' /\ PutPartsInv' /\ SavedInv'
  BY <1>1 DEF ItemsInv, ChainInv, PartsFitInv, PutPartsInv, SavedInv, Dead
<1>4. NamesInv'
  <2>1. \A a : ContinuesOn(a)' = ContinuesOn(a)
    BY <1>1 DEF ContinuesOn
  <2> QED BY <1>1, <2>1 DEF ItemsInv, NamesInv, HasNewPage, Dead
<1>5. DeleteInv' /\ RoomInv' /\ HeadsInv'
  BY <1>1 DEF ItemsInv, DeleteInv, RoomInv, HeadsInv, Dead
<1> QED BY <1>1, <1>2, <1>3, <1>4, <1>5 DEF ItemsInv, ChainInv, Store
================================================================================
