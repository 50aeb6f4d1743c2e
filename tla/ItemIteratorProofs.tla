--------------------------- MODULE ItemIteratorProofs ---------------------------
(***************************************************************************)
(* Theorems about the item iterator over the heap file, for every page     *)
(* size, every set of payloads, every number of pages and any crashes.  As *)
(* in WriteThroughProofs no write fails.                                   *)
(***************************************************************************)
EXTENDS ItemIterator, ItemStoreProofs

USE PageSizeAssumption, SizeAssumption, BoundsAssumption, NoFaultAssumption DEF NullPage

--------------------------------------------------------------------------------
(***************************************************************************)
(* No part of an item continues on the page it is on: the page for the     *)
(* continuation is one the header did not count before.  The iterator      *)
(* takes a slot that reads as its own page's for a continuation.           *)
(***************************************************************************)
ContinuesElsewhere(p) == \A i \in 0 .. p.next_item_id - 1 : Continuation(p, i) # p.page_id

ContInv ==
  /\ \A id \in DOMAIN ram : ContinuesElsewhere(ram[id])
  /\ \A id \in DOMAIN diskPages : ContinuesElsewhere(diskPages[id])
  /\ pc \in {"write_new", "set_free"} /\ put.caller = "split" => put.cur # put.free
  /\ pc = "part" /\ put.cont # -1 => put.cur # put.cont

\* Pages without slots.
LEMMA NoSlotsElsewhere ==
  ASSUME NEW p, p.next_item_id = 0
  PROVE  ContinuesElsewhere(p)
PROOF
<1>1. 0 .. p.next_item_id - 1 = {}
  OBVIOUS
<1> QED BY <1>1 DEF ContinuesElsewhere

\* A part that continues on another page is added.
LEMMA AddElsewhere ==
  ASSUME NEW p, PageType(p, PartData), ContinuesElsewhere(p), NEW d \in PartData,
         NEW size \in Nat \ {0}, NEW cont \in Nat \cup {-1}, CanFitPayload(p, size),
         cont # p.page_id
  PROVE  ContinuesElsewhere(AddItem(p, d, size, cont))
PROOF
<1> DEFINE n == p.next_item_id
           q == AddItem(p, d, size, cont)
<1>1. AddEffect(p, q, d, size, cont) /\ n \in Nat
  <2>1. AddEffect(p, q, d, size, cont)
    BY AddFields
  <2> QED BY <2>1 DEF PageType
<1> HIDE DEF q
<1>2. /\ q.page_id = p.page_id /\ q.next_item_id = n + 1
      /\ q.slots[n].continues_on_page = cont
      /\ \A j \in 0 .. n - 1 : q.slots[j] = p.slots[j]
  BY <1>1 DEF AddEffect
<1>3. ContinuesElsewhere(q)
  BY <1>1, <1>2 DEF ContinuesElsewhere, Continuation
<1> QED BY <1>3 DEF q

\* A slot is deleted: the slots that are left continue where they did, and no
\* slot comes back to life.
LEMMA DeleteShrinks ==
  ASSUME NEW p, PageType(p, PartData), NEW i, HasItem(p, i)
  PROVE  /\ ContinuesElsewhere(p) => ContinuesElsewhere(DeleteItem(p, i))
         /\ \A j : HasItem(DeleteItem(p, i), j) => HasItem(p, j)
PROOF
<1> DEFINE n == p.next_item_id
           q == DeleteItem(p, i)
<1>1. n \in Nat /\ i \in 0 .. n - 1 /\ p.slots \in [0 .. n - 1 -> Slot(PartData)]
  BY DEF HasItem, PageType
<1>2. DeleteEffect(p, q, i, PartData)
  BY <1>1, DeleteFields
<1> HIDE DEF q
<1>3. q.page_id = p.page_id /\ q.next_item_id \in {n, n - 1}
  BY <1>2 DEF DeleteEffect
<1>4. ASSUME NEW j \in 0 .. q.next_item_id - 1
      PROVE  /\ j \in 0 .. n - 1
             /\ q.slots[j].continues_on_page = p.slots[j].continues_on_page
             /\ ~ q.slots[j].is_deleted => ~ p.slots[j].is_deleted
  <2>1. j \in 0 .. n - 1 /\ p.slots[j] \in Slot(PartData)
    BY <1>1, <1>3
  <2>2. q.slots[j] = IF j = i THEN [p.slots[j] EXCEPT !.is_deleted = TRUE] ELSE p.slots[j]
    BY <1>2 DEF DeleteEffect
  <2> QED BY <2>1, <2>2 DEF Slot
<1>5. ContinuesElsewhere(p) => ContinuesElsewhere(q)
  BY <1>3, <1>4 DEF ContinuesElsewhere, Continuation
<1>6. \A j : HasItem(q, j) => HasItem(p, j)
  BY <1>4 DEF HasItem
<1> QED BY <1>5, <1>6 DEF q

\* A page that is written is one of the memory, and what is passed over has no slots.
LEMMA WrittenElsewhere ==
  ASSUME \A id \in DOMAIN diskPages : ContinuesElsewhere(diskPages[id]),
         \A id \in DOMAIN ram' : ContinuesElsewhere(ram'[id]),
         NEW k \in DOMAIN ram', NEW ok \in BOOLEAN, WritePage(k, ok)
  PROVE  \A id \in DOMAIN diskPages' : ContinuesElsewhere(diskPages'[id])
PROOF
<1>1. CASE ok = FALSE
  BY <1>1 DEF WritePage
<1>2. CASE ok = TRUE
  <2>1. diskPages' = [Extended(k) EXCEPT ![k] = ram'[k]]
    BY <1>2 DEF WritePage
  <2>2. \A id \in DOMAIN Extended(k) : ContinuesElsewhere(Extended(k)[id])
    BY ZeroPageOK, NoSlotsElsewhere DEF Extended
  <2> QED BY <2>1, <2>2
<1> QED BY <1>1, <1>2

\* Pages that are read are pages of the memory or of the file.
LEMMA LoadedElsewhere ==
  ASSUME ContInv, NEW ids, \A id \in ids : Readable(id)
  PROVE  \A x \in DOMAIN Loaded(ids) : ContinuesElsewhere(Loaded(ids)[x])
PROOF
<1> DEFINE found == {Read(id) : id \in ids}
           L == Loaded(ids)
<1>1. /\ DOMAIN L = DOMAIN ram \cup {p.page_id : p \in found}
      /\ \A id \in DOMAIN L :
           L[id] = IF \E p \in found : p.page_id = id
                     THEN CHOOSE p \in found : p.page_id = id ELSE ram[id]
  BY Zenon DEF Loaded
<1>2. \A p \in found : ContinuesElsewhere(p)
  BY DEF ContInv, Read, Readable
<1> HIDE DEF found, L
<1>3. ASSUME NEW x \in DOMAIN L PROVE ContinuesElsewhere(L[x])
  <2>1. CASE \E p \in found : p.page_id = x
    <3>1. L[x] \in found
      BY <1>1, <2>1
    <3> QED BY <1>2, <3>1
  <2>2. CASE ~ \E p \in found : p.page_id = x
    BY <1>1, <2>2 DEF ContInv
  <2> QED BY <2>1, <2>2
<1> QED BY <1>3 DEF L

\* Steps that leave the pages as they are, and are not in the middle of a split.
LEMMA LocalElsewhere ==
  ASSUME ContInv, UNCHANGED <<diskPages, ram>>,
         pc' \notin {"write_new", "set_free", "part"} \/ (pc' = "part" /\ put'.cont = -1)
  PROVE  ContInv'
  BY DEF ContInv

\* The end of a process.
LEMMA DieElsewhere ==
  ASSUME ContInv, NEW how \in Dead, Die(how), diskPages' = diskPages
  PROVE  ContInv'
  BY EmptyOK DEF Die, Dead, ContInv

\* Pages are read from the file.
LEMMA ReadsElsewhere ==
  ASSUME ContInv, NEW ids, \A id \in ids : Readable(id), ram' = Loaded(ids),
         diskPages' = diskPages, pc' \notin {"write_new", "set_free", "part"}
  PROVE  ContInv'
  BY LoadedElsewhere DEF ContInv

\* A page of the memory is replaced by one that continues elsewhere.
LEMMA WithElsewhere ==
  ASSUME \A id \in DOMAIN ram : ContinuesElsewhere(ram[id]), NEW k, NEW p,
         ContinuesElsewhere(p), ram' = With(ram, k, p)
  PROVE  \A id \in DOMAIN ram' : ContinuesElsewhere(ram'[id])
  BY DEF With

\* A page is allocated for the caller: it is not the one the caller is at.
LEMMA AllocatedElsewhere ==
  ASSUME IndInv, ContInv, AllocPage(TRUE) \/ WriteNewPage(TRUE) \/ SetFreePage(TRUE)
  PROVE  ContInv'
PROOF
<1>1. put \in PutType /\ PutInv /\ RamOK(ram)
  BY DEF IndInv, Types
<1>2. CASE AllocPage(TRUE)
  <2> DEFINE id == header.page_count
             new == PageNew(id)
  <2>1. /\ pc = "alloc" /\ ram' = With(ram, id, new) /\ diskPages' = diskPages
        /\ pc' = "write_new" /\ put' = [put EXCEPT !.free = id]
    BY <1>2 DEF AllocPage, CountPage
  <2>2. ContinuesElsewhere(new)
    <3>1. new.next_item_id = 0
      BY DEF PageNew
    <3> HIDE DEF new
    <3> QED BY <3>1, NoSlotsElsewhere
  <2>3. put.caller = "split" => put.cur \in DOMAIN ram /\ put.cur # id
    <3>1. \A x \in DOMAIN ram : x \in Nat /\ x < id
      BY <1>1, <2>1 DEF IndInv, MemInv, RamOK, Running, Dead
    <3>2. id \in Nat
      BY DEF IndInv, Types, Header
    <3> QED BY <1>1, <2>1, <3>1, <3>2 DEF PutInv
  <2>4. put'.cur = put.cur /\ put'.free = id /\ put'.caller = put.caller
    BY <1>1, <2>1 DEF PutType
  <2> HIDE DEF new, id
  <2>5. \A x \in DOMAIN ram' : ContinuesElsewhere(ram'[x])
    BY <2>1, <2>2, WithElsewhere DEF ContInv
  <2> QED BY <2>1, <2>3, <2>4, <2>5 DEF ContInv
<1>3. CASE WriteNewPage(TRUE)
  <2>1. /\ pc = "write_new" /\ ram' = ram /\ WritePage(put.free, TRUE)
        /\ pc' \in {"idle", "set_free"}
        /\ pc' = "set_free" => put' = [put EXCEPT !.free = put.free]
    BY <1>3 DEF WriteNewPage, NewPageReturned
  <2>2. put.free \in DOMAIN ram'
    BY <1>1, <2>1 DEF PutInv
  <2>3. \A id \in DOMAIN diskPages' : ContinuesElsewhere(diskPages'[id])
    BY <2>1, <2>2, WrittenElsewhere DEF ContInv
  <2>4. pc' = "set_free" =>
          put'.cur = put.cur /\ put'.free = put.free /\ put'.caller = put.caller
    BY <1>1, <2>1 DEF PutType
  <2> QED BY <2>1, <2>3, <2>4 DEF ContInv
<1>4. CASE SetFreePage(TRUE)
  <2>1. /\ pc = "set_free" /\ ram' = ram /\ diskPages' = diskPages /\ PutGoesOn
        /\ put.cont = -1
    BY <1>1, <1>4 DEF SetFreePage, PutInv
  <2>2. put.caller \in {"get_page", "full", "split"}
    BY <1>1, <2>1 DEF PutType, PutInv
  <2>3. CASE put.caller = "get_page"
    BY <2>1, <2>3, LocalElsewhere DEF PutGoesOn
  <2>4. CASE put.caller = "full"
    <3>1. pc' = "part" /\ put'.cont = -1
      BY <1>1, <2>1, <2>4 DEF PutGoesOn, PutType
    <3> QED BY <2>1, <3>1, LocalElsewhere
  <2>5. CASE put.caller = "split"
    <3>1. pc' = "part" /\ put'.cont = put.free /\ put'.cur = put.cur
      BY <1>1, <2>1, <2>5 DEF PutGoesOn, PutType
    <3> QED BY <2>1, <2>5, <3>1 DEF ContInv
  <2> QED BY <2>2, <2>3, <2>4, <2>5
<1> QED BY <1>2, <1>3, <1>4

\* A part is put: it continues on the page that was allocated for that.
LEMMA PutElsewhere ==
  ASSUME IndInv, ContInv, AddPart
  PROVE  ContInv'
PROOF
<1> DEFINE page == ram[put.cur]
           data == [item |-> put.item, from |-> put.written]
           new == AddItem(page, data, PartSize, put.cont)
<1>1. /\ pc = "part" /\ put.cur \in DOMAIN ram /\ PageType(page, PartData)
      /\ page.page_id = put.cur /\ put.cont \in Nat \cup {-1} /\ data \in PartData
      /\ put.cur \in Nat
  BY DEF AddPart, WritePart, IndInv, Types, PutInv, PutType, RamOK, PageOK, PartData, Ids
<1>2. /\ CanFitPayload(page, PartSize) /\ ram' = With(ram, put.cur, new)
      /\ WritePage(put.cur, TRUE) /\ pc' = "loop"
  BY DEF AddPart, WritePart
<1>3. PartSize \in Nat \ {0}
  BY <1>1, PartSizeOK
<1>4. put.cont # page.page_id /\ ContinuesElsewhere(page)
  BY <1>1 DEF ContInv
<1>5. ContinuesElsewhere(new)
  <2> HIDE DEF page, data
  <2> QED BY <1>1, <1>2, <1>3, <1>4, AddElsewhere
<1> HIDE DEF page, data, new
<1>6. \A x \in DOMAIN ram' : ContinuesElsewhere(ram'[x])
  BY <1>2, <1>5, WithElsewhere DEF ContInv
<1>7. put.cur \in DOMAIN ram'
  BY <1>2 DEF With
<1>8. \A x \in DOMAIN diskPages' : ContinuesElsewhere(diskPages'[x])
  BY <1>2, <1>6, <1>7, WrittenElsewhere DEF ContInv
<1> QED BY <1>2, <1>6, <1>8 DEF ContInv

\* A part is deleted.
LEMMA DeletedElsewhere ==
  ASSUME IndInv, ContInv, DeletePart
  PROVE  ContInv'
PROOF
<1> DEFINE id == target.page
           page == Read(id)
           new == DeleteItem(page, target.item)
<1>1. /\ pc = "delete" /\ Readable(id) /\ HasItem(page, target.item)
      /\ ram' = With(ram, id, new) /\ WritePage(id, TRUE) /\ pc' \in {"idle", "delete"}
  BY DEF DeletePart, DeleteSlot
<1>2. PageType(page, PartData)
  BY <1>1, ReadOK DEF IndInv, Running, Dead, PageOK
<1>3. ContinuesElsewhere(page)
  BY <1>1 DEF ContInv, Read, Readable
<1>4. ContinuesElsewhere(new)
  <2> HIDE DEF page
  <2> QED BY <1>1, <1>2, <1>3, DeleteShrinks
<1> HIDE DEF page, new, id
<1>5. \A x \in DOMAIN ram' : ContinuesElsewhere(ram'[x])
  BY <1>1, <1>4, WithElsewhere DEF ContInv
<1>6. id \in DOMAIN ram'
  BY <1>1 DEF With
<1>7. \A x \in DOMAIN diskPages' : ContinuesElsewhere(diskPages'[x])
  BY <1>1, <1>5, <1>6, WrittenElsewhere DEF ContInv
<1> QED BY <1>1, <1>5, <1>7 DEF ContInv

\* Every step of the heap file preserves it.
LEMMA NextElsewhere ==
  ASSUME IndInv, ContInv, Next
  PROVE  ContInv'
PROOF
<1>1. ASSUME NEW ok \in WriteOutcomes, AllocPage(ok) \/ WriteNewPage(ok) \/ SetFreePage(ok)
      PROVE  ContInv'
  <2>1. ok = TRUE
    BY NoFaults, Zenon
  <2>2. AllocPage(TRUE) \/ WriteNewPage(TRUE) \/ SetFreePage(TRUE)
    BY <1>1, <2>1, Zenon
  <2> QED BY <2>2, AllocatedElsewhere
<1>2. CASE PageFull \/ SplitItem \/ ItemFits \/ PutReturns
  <2>1. UNCHANGED <<diskPages, ram>> /\ pc = "loop" /\ put.cont = -1
    BY <1>2 DEF PageFull, SplitItem, ItemFits, PutReturns, disk, memory, IndInv, PutInv
  <2>2. pc' \in {"alloc", "idle"} \/ (pc' = "part" /\ put' = put)
    BY <1>2 DEF PageFull, SplitItem, ItemFits, PutReturns
  <2> QED BY <2>1, <2>2, LocalElsewhere
<1>3. CASE AddPart
  BY <1>3, PutElsewhere
<1>4. CASE DeletePart
  BY <1>4, DeletedElsewhere
<1>5. CASE WriteAborts \/ OpenFails \/ OpenAborts \/ Close \/ Crash \/ AddPartAborts
  BY <1>5, DieElsewhere
     DEF WriteAborts, OpenFails, OpenAborts, Close, Crash, AddPartAborts, Dead, disk
<1>6. CASE OpenWithoutPages
  BY <1>6, LocalElsewhere DEF OpenWithoutPages, OpenIfNone
<1>7. CASE OpenWithPages
  <2> DEFINE page == diskPages[diskHeader.current_free_page]
  <2>1. /\ ram' = With(NoPages, page.page_id, page) /\ diskPages' = diskPages /\ pc' = "idle"
        /\ diskHeader.current_free_page \in DOMAIN diskPages
    BY <1>7 DEF OpenWithPages, FreePageOnDisk, disk
  <2>2. ContinuesElsewhere(page)
    BY <2>1 DEF ContInv
  <2> HIDE DEF page
  <2> QED BY <2>1, <2>2, EmptyOK DEF ContInv, With
<1>8. ASSUME NEW x \in Items, PutStart(x) \/ PutAborts(x)
      PROVE  ContInv'
  <2>1. CASE PutStart(x)
    <3>1. \A id \in {FreePageId} : Readable(id)
      BY <2>1 DEF PutStart
    <3>2. /\ ram' = Loaded({FreePageId}) /\ diskPages' = diskPages /\ pc' \in {"alloc", "loop"}
      BY <2>1 DEF PutStart, disk
    <3> QED BY <3>1, <3>2, ReadsElsewhere
  <2>2. CASE PutAborts(x)
    BY <2>2, DieElsewhere DEF PutAborts, Dead, disk
  <2> QED BY <1>8, <2>1, <2>2
<1>9. ASSUME NEW a \in DOMAIN Store, GetItem(a) \/ GetItemAborts(a) \/ DeleteStart(a)
      PROVE  ContInv'
  <2>1. CASE GetItem(a) \/ DeleteStart(a)
    <3> DEFINE ids == ChainPages(diskPages, a)
    <3>1. /\ \A id \in ids : Readable(id)
          /\ ram' = Loaded(ids) /\ diskPages' = diskPages /\ pc' \in {"idle", "delete"}
      BY <2>1 DEF GetItem, DeleteStart, Reads, disk
    <3> HIDE DEF ids
    <3> QED BY <3>1, ReadsElsewhere
  <2>2. CASE GetItemAborts(a)
    BY <2>2, DieElsewhere DEF GetItemAborts, Dead, disk
  <2> QED BY <1>9, <2>1, <2>2
<1>10. CASE FreePages
  BY <1>10, EmptyOK DEF FreePages, disk, ContInv
<1> QED BY <1>1, <1>2, <1>3, <1>4, <1>5, <1>6, <1>7, <1>8, <1>9, <1>10,
           Zenon DEF Next, Steps, Calls

--------------------------------------------------------------------------------
(***************************************************************************)
(* The invariant of the iterator.  A page that was counted but never       *)
(* written is zeros in the file; the iterator finds it in memory as page   *)
(* 0, so that what memory has of page 0 is not what the file has until it  *)
(* moves on.                                                               *)
(***************************************************************************)
Payloads == Seq([page : Nat, item : Nat])

ItTyped ==
  it \in [page : Ids, next : Nat, index : Ids, moving : BOOLEAN, payloads : Payloads]

OnZeros ==
  /\ pc = "idle" /\ it.moving /\ it.page = 0
  /\ ram = With(NoPages, 0, ZeroPage) /\ freePage = -1
  /\ diskPages[it.next - 1] = ZeroPage
  /\ FreePageInv /\ CountedInv /\ header = diskHeader

OnPage == FileInv /\ it.page = it.next - 1 /\ it.page \in DOMAIN ram

ItPlace ==
  IF ~Iterating THEN FileInv
  ELSE /\ pc \in {"idle", "delete"}
       /\ it.next \in Nat \ {0} /\ it.next - 1 \in DOMAIN diskPages
       /\ OnPage \/ OnZeros

\* What was handed out is behind the iterator.
Behind(i, a) ==
  \/ a.page < i.next - 1
  \/ a.page = i.next - 1 /\ ~i.moving /\ a.item <= i.index

ItList ==
  /\ ~Iterating => it.payloads = <<>>
  /\ \A n \in 1 .. Len(it.payloads) : Behind(it, it.payloads[n])
  /\ HandedOutOnce

\* What is behind the iterator was handed out.
Passed(i, a) ==
  \/ a.page < i.next - 1
  \/ a.page = i.next - 1 /\ (i.moving \/ a.item <= i.index)

ItAll ==
  Iterating =>
    \A a \in Slots(diskPages) :
      Passed(it, a) => \E n \in 1 .. Len(it.payloads) : it.payloads[n] = a

ItInv ==
  IndInv /\ ContInv /\ ItTyped /\ ItPlace /\ ItList /\ (Unlucky = {} => ItAll)

\* An element of a sequence.
LEMMA SeqElement ==
  ASSUME NEW S, NEW s \in Seq(S), NEW n \in 1 .. Len(s)
  PROVE  s[n] \in S
  OBVIOUS

\* An iterator that is not in use.
LEMMA NoIteratorOK ==
  /\ NoIterator = [page |-> -1, next |-> 0, index |-> -1, moving |-> FALSE, payloads |-> <<>>]
  /\ it = NoIterator => ItTyped /\ ItList /\ ItAll
PROOF
<1>1. NoIterator =
        [page |-> -1, next |-> 0, index |-> -1, moving |-> FALSE, payloads |-> <<>>]
  BY DEF NoIterator
<1>2. ASSUME it = NoIterator PROVE ItTyped /\ ItList /\ ItAll
  <2>1. it.payloads = <<>> /\ ~Iterating
    BY <1>1, <1>2 DEF Iterating
  <2>2. ItTyped
    BY <1>1, <1>2 DEF ItTyped, Ids, Payloads
  <2>3. ItList
    BY <2>1 DEF ItList, HandedOutOnce
  <2> QED BY <2>1, <2>2, <2>3 DEF ItAll
<1> QED BY <1>1, <1>2

\* The same after a step.
LEMMA NoIteratorNext ==
  ASSUME it' = NoIterator
  PROVE  ~Iterating' /\ ItTyped' /\ ItList' /\ ItAll'
PROOF
<1>1. NoIterator =
        [page |-> -1, next |-> 0, index |-> -1, moving |-> FALSE, payloads |-> <<>>]
  BY DEF NoIterator
<1>2. it'.payloads = <<>> /\ ~Iterating'
  BY <1>1 DEF Iterating
<1>3. ItTyped'
  BY <1>1 DEF ItTyped, Ids, Payloads
<1>4. ItList'
  BY <1>2 DEF ItList, HandedOutOnce
<1> QED BY <1>2, <1>3, <1>4 DEF ItAll

\* Wherever the iterator is, the file can be opened again.
LEMMA PlaceFile ==
  ASSUME ItPlace
  PROVE  /\ FreePageInv /\ CountedInv
         /\ pc = "idle" => header = diskHeader
         /\ ~it.moving \/ pc # "idle" \/ ~Iterating => FileInv
  BY DEF ItPlace, OnPage, OnZeros, FileInv, WriteThrough, Running, Dead

\* The page the iterator is on, when it looks for an item there.
LEMMA PlacePage ==
  ASSUME ItPlace, Iterating, pc = "idle"
  PROVE  /\ it.page \in DOMAIN ram
         /\ CurrentPage = diskPages[it.next - 1]
PROOF
<1>1. CASE OnPage
  BY <1>1 DEF OnPage, FileInv, WriteThrough, Running, Dead, CurrentPage
<1>2. CASE OnZeros
  <2>1. 0 \in DOMAIN With(NoPages, 0, ZeroPage) /\ With(NoPages, 0, ZeroPage)[0] = ZeroPage
    BY DEF With
  <2> QED BY <1>2, <2>1 DEF OnZeros, CurrentPage
<1> QED BY <1>1, <1>2 DEF ItPlace

\* A page of which nothing in memory is left but what the file has.
LEMMA ResetFile ==
  ASSUME FreePageInv, CountedInv, DOMAIN diskPages # {}, header = diskHeader,
         pc' = "idle", freePage' = -1,
         UNCHANGED <<diskHeader, diskPages, header>>,
         \A x \in DOMAIN ram' : x \in DOMAIN diskPages /\ ram'[x] = diskPages[x]
  PROVE  FileInv'
PROOF
<1>1. WriteThrough' /\ StartInv'
  BY DEF WriteThrough, StartInv
<1> QED BY <1>1 DEF FileInv, FreePageInv, CountedInv, PointerInv, LastPageInv

\* Nothing is on a page that is passed over, unless the bytes there are unlucky.
LEMMA PassedPageEmpty ==
  ASSUME NEW p, PageOK(p), ContinuesElsewhere(p), ItTyped, it.index >= 0,
         Unlucky = {}, PassesOver(p)
  PROVE  LiveSlots(p) = {}
PROOF
<1>1. PageType(p, PartData) /\ p.next_item_id \in Nat
  BY DEF PageOK, PageType
<1>2. ~ ReadsOwnId(p)
  <2>1. CASE it.index < p.next_item_id
    <3>1. it.index \in 0 .. p.next_item_id - 1
      BY <1>1, <2>1 DEF ItTyped, Ids
    <3> QED BY <2>1, <3>1 DEF ReadsOwnId, ContinuesElsewhere
  <2>2. CASE ~ (it.index < p.next_item_id)
    BY <2>2, Zenon DEF ReadsOwnId
  <2> QED BY <2>1, <2>2
<1>3. p.items_count = 0
  BY <1>2 DEF PassesOver
<1>4. CASE p = ZeroPage
  <2>1. 0 .. p.next_item_id - 1 = {}
    BY <1>4, ZeroPageOK
  <2> QED BY <2>1 DEF LiveSlots
<1>5. CASE WellFormed(p, PartData)
  BY <1>1, <1>3, <1>5, LiveSlotsFinite DEF WellFormed, CountsLive
<1> QED BY <1>4, <1>5 DEF PageOK

--------------------------------------------------------------------------------
(***************************************************************************)
(* The steps.                                                              *)
(***************************************************************************)
\* The process ends, from outside or by an assertion.
LEMMA ItDiesOK ==
  ASSUME ItInv, NEW how \in Dead, Die(how), UNCHANGED <<disk, faults>>, it' = NoIterator
  PROVE  ItInv'
PROOF
<1>1. IndInv'
  BY DieOK DEF ItInv, IndInv, Types, disk
<1>2. ContInv'
  BY DieElsewhere DEF ItInv, disk
<1>3. FileInv'
  BY PlaceFile, DieFile DEF ItInv, disk
<1> QED BY <1>1, <1>2, <1>3, NoIteratorNext DEF ItInv, ItPlace

\* The heap file is used without an iterator.
LEMMA ItIdleOK ==
  ASSUME ItInv, ~Iterating, Next, UNCHANGED it
  PROVE  ItInv'
PROOF
<1>1. FileInv /\ it = NoIterator
  BY DEF ItInv, ItPlace, Iterating
<1>2. IndInv' /\ ContInv'
  BY NextIndInv, NextElsewhere DEF ItInv
<1>3. FileInv'
  BY <1>1, <1>2, NextFileInv DEF ItInv
<1>4. it' = NoIterator
  BY <1>1
<1> QED BY <1>2, <1>3, <1>4, NoIteratorNext DEF ItInv, ItPlace

\* Pages are read into the memory, and nothing else changes in the file.
LEMMA ItReadsOK ==
  ASSUME IndInv, ContInv, FileInv, pc = "idle",
         NEW ids, \A id \in ids : Readable(id) /\ Read(id).page_id = id,
         ram' = Loaded(ids),
         UNCHANGED <<disk, header, freePage, pc, put, target, faults>>
  PROVE  /\ IndInv' /\ ContInv' /\ FileInv'
         /\ DOMAIN ram \subseteq DOMAIN ram' /\ ids \subseteq DOMAIN ram'
PROOF
<1>1. Running /\ put = NoPut /\ diskPages' = diskPages /\ diskHeader' = diskHeader
  BY DEF Running, Dead, IndInv, PutInv, Called, disk
<1>2. RamOK(ram') /\ MemInv'
  BY <1>1, ReadKeepsMemory DEF Dead
<1>3. PutInv'
  BY <1>1, PutInvWithoutPut
<1>4. IndInv'
  BY <1>1, <1>2, <1>3 DEF IndInv, Types
<1>5. ContInv'
  BY <1>1, ReadsElsewhere
<1>6. put'.caller # "init"
  BY <1>1, NoPutOK
<1>7. freePage' = -1 \/ freePage' = header.current_free_page
  BY DEF FileInv, PointerInv
<1>8. \A x \in DOMAIN ram' : x \in DOMAIN diskPages /\ ram'[x] = diskPages[x]
  BY LoadedFile
<1>9. FileInv'
  BY <1>1, <1>6, <1>7, <1>8, MemoryFile DEF States, Called, Dead
<1>10. DOMAIN ram \subseteq DOMAIN ram' /\ ids \subseteq DOMAIN ram'
  BY <1>1, LoadedOK DEF IndInv
<1> QED BY <1>4, <1>5, <1>9, <1>10

\* An iterator starts on the first page.
LEMMA NewIteratorOK ==
  ASSUME ItInv, NewIterator
  PROVE  ItInv'
PROOF
<1>1. /\ pc = "idle" /\ ~Iterating /\ Readable(0) /\ ram' = Loaded({0})
      /\ it' = NewOn(Read(0).page_id)
      /\ UNCHANGED <<disk, header, freePage, pc, put, target, faults>>
  BY DEF NewIterator
<1>2. IndInv /\ ContInv /\ FileInv
  BY <1>1 DEF ItInv, ItPlace
<1>3. Read(0).page_id = 0 /\ 0 \in DOMAIN diskPages
  <2>1. 0 \in DOMAIN diskPages /\ Read(0) = diskPages[0]
    BY <1>1, <1>2 DEF Readable, Read, FileInv, WriteThrough, Running, Dead
  <2> QED BY <1>2, <2>1, ZeroPageOK DEF IndInv, DiskOK
<1>4. \A id \in {0} : Readable(id) /\ Read(id).page_id = id
  BY <1>1, <1>3
<1>5. IndInv' /\ ContInv' /\ FileInv' /\ 0 \in DOMAIN ram'
  BY <1>1, <1>2, <1>4, ItReadsOK
<1>6. it' = [page |-> 0, next |-> 1, index |-> -1, moving |-> FALSE, payloads |-> <<>>]
  BY <1>1, <1>3, NoIteratorOK DEF NewOn
<1>7. Iterating'
  BY <1>6, NoIteratorOK DEF Iterating
<1>8. ItTyped'
  BY <1>6 DEF ItTyped, Ids, Payloads
<1>9. ItPlace'
  <2>1. OnPage'
    BY <1>5, <1>6 DEF OnPage
  <2> QED BY <1>1, <1>3, <1>6, <1>7, <2>1 DEF ItPlace, disk
<1>10. ItList'
  BY <1>6 DEF ItList, HandedOutOnce
<1>11. ItAll'
  <2>1. ASSUME NEW a \in Slots(diskPages'), Passed(it', a) PROVE FALSE
    <3>1. a.page \in Nat /\ a.item \in Nat
      BY <1>5, SlotsOK DEF IndInv
    <3> QED BY <1>6, <2>1, <3>1 DEF Passed
  <2> QED BY <2>1 DEF ItAll
<1> QED BY <1>5, <1>8, <1>9, <1>10, <1>11 DEF ItInv

\* Where the iterator gets to on the next page of the file.
LEMMA ArriveOK ==
  ASSUME ItTyped, NEW p, p.page_id \in Nat, NEW passes \in BOOLEAN, Arrive(p, passes)
  PROVE  /\ it'.page = p.page_id /\ it'.next = it.next + 1 /\ it'.moving = passes
         /\ it'.index = IF passes THEN it.index ELSE -1
         /\ it'.payloads = it.payloads
         /\ ItTyped'
PROOF
<1> DEFINE index == IF passes THEN it.index ELSE -1
<1>1. it' = [it EXCEPT !.page = p.page_id, !.next = it.next + 1,
                       !.moving = passes, !.index = index]
  BY DEF Arrive
<1>2. index \in Ids
  BY DEF ItTyped, Ids
<1> HIDE DEF index
<1>3. /\ it'.page = p.page_id /\ it'.next = it.next + 1 /\ it'.moving = passes
      /\ it'.index = index /\ it'.payloads = it.payloads
  BY <1>1 DEF ItTyped
<1>4. ItTyped'
  <2> DEFINE page == p.page_id
             next == it.next + 1
  <2>1. page \in Ids /\ next \in Nat
    BY DEF ItTyped, Ids
  <2>2. it' = [it EXCEPT !.page = page, !.next = next, !.moving = passes, !.index = index]
    BY <1>1
  <2> HIDE DEF page, next
  <2> QED BY <1>2, <2>1, <2>2, Zenon DEF ItTyped
<1> QED BY <1>3, <1>4 DEF index

\* The memory has one page.
LEMMA OnePageOK ==
  ASSUME NEW k \in Nat, NEW p, PageOK(p), p.page_id = k
  PROVE  /\ RamOK(With(NoPages, k, p)) /\ DOMAIN With(NoPages, k, p) = {k}
         /\ With(NoPages, k, p)[k] = p
PROOF
<1>1. DOMAIN With(NoPages, k, p) = {k} /\ With(NoPages, k, p)[k] = p
  BY EmptyOK DEF With
<1> QED BY <1>1 DEF RamOK

\* The pages in memory are replaced by one that the file has.
LEMMA MovedMemory ==
  ASSUME IndInv, ContInv, pc = "idle", FreePageInv, CountedInv, header = diskHeader,
         NEW n \in DOMAIN diskPages,
         ram' = With(NoPages, diskPages[n].page_id, diskPages[n]), freePage' = -1,
         UNCHANGED <<disk, header, pc, put, target, faults>>
  PROVE  /\ IndInv' /\ ContInv'
         /\ DOMAIN ram' = {diskPages[n].page_id}
         /\ diskPages[n].page_id = n => FileInv'
PROOF
<1> DEFINE p == diskPages[n]
           k == p.page_id
<1>1. /\ put = NoPut /\ n \in Nat /\ PageOK(p) /\ k \in {0, n} /\ n < header.page_count
      /\ diskPages' = diskPages /\ diskHeader' = diskHeader
  BY ZeroPageOK DEF IndInv, PutInv, Called, DiskOK, CountedInv, disk
<1>2. header.page_count \in Nat
  BY DEF IndInv, Types, Header
<1>3. k \in Nat /\ k < header.page_count
  BY <1>1, <1>2
<1> HIDE DEF p
<1>4. RamOK(ram') /\ DOMAIN ram' = {k} /\ ram'[k] = p
  <2>1. ram' = With(NoPages, k, p) /\ p.page_id = k
    BY DEF p
  <2>2. PageOK(p) /\ k \in Nat
    BY <1>1, <1>3
  <2> HIDE DEF k
  <2>3. /\ RamOK(With(NoPages, k, p)) /\ DOMAIN With(NoPages, k, p) = {k}
        /\ With(NoPages, k, p)[k] = p
    BY <2>1, <2>2, OnePageOK
  <2> QED BY <2>1, <2>2, <2>3
<1> HIDE DEF k
<1>5. MemInv'
  BY <1>3, <1>4 DEF MemInv, Running, Dead
<1>6. PutInv'
  BY <1>1, PutInvWithoutPut
<1>7. IndInv'
  BY <1>1, <1>4, <1>5, <1>6 DEF IndInv, Types, Ids
<1>8. ContInv'
  BY <1>1, <1>4 DEF ContInv, p
<1>9. k = n => FileInv'
  BY <1>1, <1>4, ResetFile DEF p
<1> QED BY <1>4, <1>7, <1>8, <1>9 DEF p, k

\* The iterator moves on to the next page.
LEMMA NextPageOK ==
  ASSUME ItInv, NextPage
  PROVE  ItInv'
PROOF
<1> DEFINE n == it.next
           p == diskPages[n]
           passes == PassesOver(p)
<1>1. /\ pc = "idle" /\ Iterating /\ ~ItemHere /\ n \in DOMAIN diskPages /\ it.index >= 0
      /\ ram' = With(NoPages, p.page_id, p) /\ freePage' = -1 /\ Arrive(p, passes)
      /\ UNCHANGED <<disk, header, pc, put, target, faults>>
  BY DEF NextPage, MovesOn, CanMove, MoveTo
<1>2. /\ IndInv /\ ContInv /\ FreePageInv /\ CountedInv /\ header = diskHeader
      /\ ItTyped /\ ItList /\ n \in Nat \ {0} /\ n - 1 \in DOMAIN diskPages
  BY <1>1, PlaceFile DEF ItInv, ItPlace
<1>3. /\ IndInv' /\ ContInv' /\ DOMAIN ram' = {p.page_id}
      /\ p.page_id = n => FileInv'
  <2> HIDE DEF n
  <2> QED BY <1>1, <1>2, MovedMemory DEF p
<1>4. PageOK(p) /\ (p = ZeroPage \/ p.page_id = n) /\ p.page_id \in Nat
  BY <1>1, <1>2, ZeroPageOK DEF IndInv, DiskOK
<1>5. passes \in BOOLEAN
  BY DEF PassesOver
<1> HIDE DEF p, passes
<1>6. /\ it'.page = p.page_id /\ it'.next = it.next + 1 /\ it'.moving = passes
      /\ it'.index = IF passes THEN it.index ELSE -1
      /\ it'.payloads = it.payloads
      /\ ItTyped'
  BY <1>1, <1>2, <1>4, <1>5, ArriveOK
<1>7. Iterating' /\ diskPages' = diskPages
  <2>1. it'.page # -1
    BY <1>4, <1>6
  <2> QED BY <1>1, <2>1, NoIteratorOK DEF Iterating, disk
<1>8. ItPlace'
  <2>1. CASE p.page_id = n
    <3>1. OnPage'
      BY <1>3, <1>2, <1>6, <2>1 DEF OnPage
    <3> QED BY <1>1, <1>2, <1>6, <1>7, <3>1 DEF ItPlace
  <2>2. CASE p = ZeroPage
    <3>1. passes /\ p.page_id = 0
      BY <2>2 DEF passes, PassesOver, ZeroPage
    <3>2. ram' = With(NoPages, 0, ZeroPage)
      BY <1>1, <2>2, <3>1
    <3>3. diskPages'[it'.next - 1] = ZeroPage
      BY <1>2, <1>6, <1>7, <2>2 DEF p
    <3>4. FreePageInv' /\ CountedInv' /\ header' = diskHeader'
      BY <1>1, <1>2 DEF FreePageInv, CountedInv, disk
    <3>5. OnZeros'
      BY <1>1, <1>6, <3>1, <3>2, <3>3, <3>4 DEF OnZeros
    <3> QED BY <1>1, <1>2, <1>6, <1>7, <3>5 DEF ItPlace
  <2> QED BY <1>4, <2>1, <2>2
<1>9. ItList'
  <2>1. \A k \in 1 .. Len(it.payloads) : it.payloads[k].page < it'.next - 1
    <3>1. ASSUME NEW k \in 1 .. Len(it.payloads)
          PROVE  it.payloads[k].page < it'.next - 1
      <4>1. Behind(it, it.payloads[k])
        BY <1>2 DEF ItList
      <4>2. it.payloads[k] \in [page : Nat, item : Nat]
        BY <1>2, SeqElement DEF ItTyped, Payloads
      <4> QED BY <1>2, <1>6, <4>1, <4>2 DEF Behind
    <3> QED BY <3>1
  <2>2. \A k \in 1 .. Len(it'.payloads) : Behind(it', it'.payloads[k])
    BY <1>6, <2>1 DEF Behind
  <2>3. HandedOutOnce'
    BY <1>2, <1>6 DEF ItList, HandedOutOnce
  <2> QED BY <1>7, <2>2, <2>3 DEF ItList
<1>10. ASSUME Unlucky = {} PROVE ItAll'
  <2>1. passes => LiveSlots(p) = {}
    <3>1. ContinuesElsewhere(p)
      BY <1>1, <1>2 DEF ContInv, p
    <3> QED BY <1>1, <1>2, <1>4, <1>10, <3>1, PassedPageEmpty DEF passes
  <2>2. CurrentPage = diskPages[n - 1] /\ ItAll
    BY <1>1, <1>10, PlacePage DEF ItInv
  <2>3. ASSUME NEW a \in Slots(diskPages), Passed(it', a)
        PROVE  \E k \in 1 .. Len(it.payloads) : it.payloads[k] = a
    <3>1. /\ a.page \in Nat /\ a.item \in Nat /\ a.item \in LiveSlots(diskPages[a.page])
          /\ HasItem(diskPages[a.page], a.item)
      BY <1>2, SlotsOK DEF IndInv
    <3>2. a.page # n
      <4>1. SUFFICES ASSUME a.page = n PROVE FALSE
        OBVIOUS
      <4>2. diskPages[a.page] = p
        BY <4>1 DEF p
      <4>3. ~passes
        BY <2>1, <3>1, <4>2
      <4> QED BY <1>2, <1>6, <2>3, <3>1, <4>1, <4>3 DEF Passed
    <3>3. a.page <= n - 1
      BY <1>2, <1>6, <2>3, <3>1, <3>2 DEF Passed
    <3>4. Passed(it, a)
      <4>1. CASE a.page < n - 1
        BY <4>1 DEF Passed
      <4>2. CASE a.page = n - 1
        <5>1. CASE it.moving
          BY <4>2, <5>1 DEF Passed
        <5>2. CASE ~it.moving
          <6>1. it.index + 1 >= CurrentPage.next_item_id
            <7>1. CurrentPage.next_item_id \in Nat
              BY <1>2, <2>2 DEF IndInv, DiskOK, PageOK, PageType
            <7>2. it.index \in Int
              BY <1>2 DEF ItTyped, Ids
            <7> QED BY <1>1, <5>2, <7>1, <7>2 DEF ItemHere
          <6>2. a.item \in 0 .. CurrentPage.next_item_id - 1
            BY <2>2, <3>1, <4>2 DEF HasItem
          <6>3. CurrentPage.next_item_id \in Nat /\ it.index \in Int
            BY <1>2, <2>2 DEF IndInv, DiskOK, PageOK, PageType, ItTyped, Ids
          <6> QED BY <4>2, <6>1, <6>2, <6>3 DEF Passed
        <5> QED BY <5>1, <5>2
      <4> QED BY <1>2, <3>1, <3>3, <4>1, <4>2
    <3> QED BY <1>1, <2>2, <3>4 DEF ItAll
  <2> QED BY <1>6, <1>7, <2>3 DEF ItAll
<1> QED BY <1>3, <1>6, <1>8, <1>9, <1>10 DEF ItInv

\* The next item of the page is read and handed out.
LEMMA GetNextOK ==
  ASSUME ItInv, GetNext
  PROVE  ItInv'
PROOF
<1> DEFINE ids == ChainPages(diskPages, NextItem)
           k == it.index + 1
           len == Len(it.payloads)
<1>1. /\ pc = "idle" /\ Iterating /\ ~it.moving /\ Reads(NextItem)
      /\ ram' = Loaded(ids)
      /\ it' = [it EXCEPT !.index = k, !.payloads = Append(it.payloads, NextItem)]
      /\ UNCHANGED <<disk, header, freePage, pc, put, target, faults>>
  BY DEF GetNext, ItemHere, CanGet
<1>2. IndInv /\ ContInv /\ FileInv /\ ItTyped /\ ItList
  BY <1>1, PlaceFile DEF ItInv
<1>3. /\ it.page = it.next - 1 /\ it.page \in DOMAIN ram /\ it.page \in Nat
      /\ it.next \in Nat \ {0} /\ it.next - 1 \in DOMAIN diskPages
  BY <1>1, <1>2 DEF ItInv, ItPlace, OnPage, OnZeros, IndInv, RamOK
<1>4. \A id \in ids : Readable(id) /\ Read(id).page_id = id
  BY <1>1 DEF Reads
<1>5. /\ IndInv' /\ ContInv' /\ FileInv' /\ DOMAIN ram \subseteq DOMAIN ram'
  <2> HIDE DEF ids
  <2> QED BY <1>1, <1>2, <1>4, ItReadsOK
<1>6. k \in Nat /\ it.index \in Int /\ it.payloads \in Seq([page : Nat, item : Nat])
  BY <1>2 DEF ItTyped, Ids, Payloads
<1>7. /\ NextItem \in [page : Nat, item : Nat]
      /\ NextItem.page = it.page /\ NextItem.item = k
      /\ NextItem = [page |-> it.page, item |-> k]
  BY <1>3, <1>6 DEF NextItem, Address
<1>8. /\ Append(it.payloads, NextItem) \in Seq([page : Nat, item : Nat])
      /\ len \in Nat /\ Len(Append(it.payloads, NextItem)) = len + 1
      /\ Append(it.payloads, NextItem)[len + 1] = NextItem
      /\ \A n \in 1 .. len : Append(it.payloads, NextItem)[n] = it.payloads[n]
  BY <1>6, <1>7
<1>9. /\ it'.page = it.page /\ it'.next = it.next /\ it'.moving = it.moving
      /\ it'.index = k /\ it'.payloads = Append(it.payloads, NextItem)
  BY <1>1, <1>2 DEF ItTyped
<1>10. ItTyped'
  <2> DEFINE longer == Append(it.payloads, NextItem)
  <2>1. longer \in Payloads /\ k \in Ids
    BY <1>6, <1>8 DEF Payloads, Ids
  <2>2. it' = [it EXCEPT !.index = k, !.payloads = longer]
    BY <1>1
  <2> HIDE DEF longer, k
  <2> QED BY <1>2, <2>1, <2>2 DEF ItTyped
<1>11. Iterating'
  BY <1>3, <1>9, NoIteratorOK DEF Iterating
<1>12. ItPlace'
  <2>1. OnPage'
    BY <1>3, <1>5, <1>9 DEF OnPage
  <2> QED BY <1>1, <1>3, <1>9, <1>11, <2>1 DEF ItPlace, disk
<1>13. ItList'
  <2>1. ASSUME NEW n \in 1 .. len
        PROVE  /\ Behind(it, it.payloads[n]) /\ Behind(it', it.payloads[n])
               /\ it.payloads[n] # NextItem
    <3>1. Behind(it, it.payloads[n])
      BY <1>2 DEF ItList
    <3>2. it.payloads[n] \in [page : Nat, item : Nat]
      BY <1>6, SeqElement
    <3>3. Behind(it', it.payloads[n])
      BY <1>3, <1>6, <1>9, <3>1, <3>2 DEF Behind
    <3>4. it.payloads[n] # NextItem
      BY <1>3, <1>6, <1>7, <3>1, <3>2 DEF Behind
    <3> QED BY <3>1, <3>3, <3>4
  <2>2. Behind(it', NextItem)
    BY <1>1, <1>3, <1>7, <1>9 DEF Behind
  <2>3. ASSUME NEW n \in 1 .. Len(it'.payloads) PROVE Behind(it', it'.payloads[n])
    <3>1. CASE n \in 1 .. len
      BY <1>8, <1>9, <2>1, <3>1 DEF Behind
    <3>2. CASE n = len + 1
      BY <1>8, <1>9, <2>2, <3>2 DEF Behind
    <3> QED BY <1>8, <1>9, <3>1, <3>2
  <2>4. HandedOutOnce'
    <3>1. ASSUME NEW m \in 1 .. len + 1, NEW n \in 1 .. len + 1,
                 it'.payloads[m] = it'.payloads[n]
          PROVE  m = n
      <4>1. CASE m \in 1 .. len /\ n \in 1 .. len
        BY <1>2, <1>8, <1>9, <3>1, <4>1 DEF ItList, HandedOutOnce
      <4>2. CASE m = len + 1 /\ n \in 1 .. len
        BY <1>8, <1>9, <2>1, <3>1, <4>2
      <4>3. CASE m \in 1 .. len /\ n = len + 1
        BY <1>8, <1>9, <2>1, <3>1, <4>3
      <4>4. len \in Nat
        BY <1>8
      <4> QED BY <4>1, <4>2, <4>3, <4>4
    <3> QED BY <1>8, <1>9, <3>1 DEF HandedOutOnce
  <2> QED BY <1>11, <2>3, <2>4 DEF ItList
<1>14. ASSUME Unlucky = {} PROVE ItAll'
  <2>1. ASSUME NEW a \in Slots(diskPages), Passed(it', a)
        PROVE  \E n \in 1 .. len + 1 : it'.payloads[n] = a
    <3>1. a.page \in Nat /\ a.item \in Nat /\ a = [page |-> a.page, item |-> a.item]
      BY <1>2, SlotsOK DEF IndInv
    <3>2. CASE a.page = it.page /\ a.item = k
      <4>1. a = NextItem
        BY <1>7, <3>1, <3>2
      <4> QED BY <1>8, <1>9, <4>1
    <3>3. CASE ~ (a.page = it.page /\ a.item = k)
      <4>1. Passed(it, a)
        BY <1>1, <1>3, <1>6, <1>9, <2>1, <3>1, <3>3 DEF Passed
      <4>2. PICK n \in 1 .. len : it.payloads[n] = a
        BY <1>1, <1>14, <4>1 DEF ItInv, ItAll
      <4> QED BY <1>8, <1>9, <4>2
    <3> QED BY <3>2, <3>3
  <2> QED BY <1>1, <1>8, <1>9, <2>1 DEF ItAll, disk
<1> QED BY <1>5, <1>10, <1>12, <1>13, <1>14 DEF ItInv

\* All that the iterator has in memory is freed.
LEMMA DestroyOK ==
  ASSUME ItInv, Destroy
  PROVE  ItInv'
PROOF
<1>1. /\ pc = "idle" /\ Iterating /\ ram' = NoPages /\ freePage' = -1 /\ it' = NoIterator
      /\ UNCHANGED <<disk, header, pc, put, target, faults>>
  BY DEF Destroy
<1>2. FreePages
  BY <1>1 DEF FreePages
<1>3. IndInv'
  BY <1>2, FreePagesOK DEF ItInv
<1>4. ContInv'
  BY <1>1, EmptyOK DEF ItInv, ContInv, disk
<1>5. /\ FreePageInv /\ CountedInv /\ header = diskHeader /\ DOMAIN diskPages # {}
  BY <1>1, PlaceFile DEF ItInv, ItPlace
<1>6. FileInv'
  BY <1>1, <1>5, EmptyOK, ResetFile DEF disk
<1> QED BY <1>1, <1>3, <1>4, <1>6, NoIteratorNext DEF ItInv, ItPlace

\* The user starts to delete the item it is at.
LEMMA DeleteCurrentOK ==
  ASSUME ItInv, DeleteCurrent
  PROVE  ItInv'
PROOF
<1> DEFINE a == Address(it.page, it.index)
           ids == ChainPages(diskPages, a)
<1>1. /\ pc = "idle" /\ Iterating /\ ~it.moving /\ it.index >= 0 /\ DeleteStart(a)
      /\ UNCHANGED <<disk, header, freePage, put, faults>> /\ it' = it
      /\ Reads(a) /\ ram' = Loaded(ids) /\ pc' = "delete"
  BY DEF DeleteCurrent, DeleteStart
<1>2. IndInv /\ ContInv /\ FileInv /\ ItTyped
  BY <1>1, PlaceFile DEF ItInv
<1>3. OnPage
  BY <1>1 DEF ItInv, ItPlace, OnZeros
<1>4. a \in [page : Ids, item : Nat]
  BY <1>1, <1>2 DEF ItTyped, Address, Ids
<1> HIDE DEF a
<1>5. \A id \in ids : Readable(id) /\ Read(id).page_id = id
  BY <1>1 DEF Reads
<1>6. IndInv'
  BY <1>1, <1>2, <1>4, DeleteStartOK
<1>7. FileInv'
  BY <1>1, <1>2, ReadsFile DEF disk
<1> HIDE DEF ids
<1>8. ContInv'
  BY <1>1, <1>2, <1>5, ReadsElsewhere DEF disk
<1>9. DOMAIN ram \subseteq DOMAIN ram'
  BY <1>1, <1>2, <1>5, LoadedOK DEF IndInv, Running, Dead
<1>10. OnPage'
  BY <1>1, <1>3, <1>7, <1>9 DEF OnPage
<1>11. ItPlace'
  BY <1>1, <1>10 DEF ItInv, ItPlace, Iterating, disk
<1>12. ItTyped' /\ ItList' /\ (ItAll => ItAll')
  BY <1>1 DEF ItInv, ItTyped, ItList, HandedOutOnce, ItAll, Iterating, disk
<1> QED BY <1>6, <1>8, <1>11, <1>12 DEF ItInv

\* A deletion brings no slot to life.
LEMMA DeletePartShrinks ==
  ASSUME IndInv, FileInv, DeletePart
  PROVE  /\ Slots(diskPages') \subseteq Slots(diskPages)
         /\ DOMAIN diskPages \subseteq DOMAIN diskPages'
         /\ DOMAIN ram \subseteq DOMAIN ram'
PROOF
<1> DEFINE id == target.page
           page == Read(id)
           new == DeleteItem(page, target.item)
<1>1. /\ pc = "delete" /\ Readable(id) /\ HasItem(page, target.item)
      /\ ram' = With(ram, id, new) /\ WritePage(id, TRUE)
  BY DEF DeletePart, DeleteSlot
<1>2. PageType(page, PartData) /\ id \in Nat
  BY <1>1, ReadOK DEF IndInv, Running, Dead, PageOK
<1>3. page = diskPages[id] /\ id \in DOMAIN diskPages
  BY <1>1 DEF FileInv, WriteThrough, Running, Dead, Read, Readable
<1>4. \A j : HasItem(new, j) => HasItem(page, j)
  <2> HIDE DEF page
  <2> QED BY <1>1, <1>2, DeleteShrinks
<1> HIDE DEF page, new, id
<1>5. /\ DOMAIN ram' = DOMAIN ram \cup {id} /\ ram'[id] = new
  BY <1>1 DEF With
<1>6. diskPages' = [Extended(id) EXCEPT ![id] = ram'[id]]
  BY <1>1 DEF WritePage
<1>7. /\ DOMAIN diskPages' = DOMAIN diskPages \cup 0 .. id
      /\ \A x \in DOMAIN diskPages' :
           diskPages'[x] = IF x = id THEN new
                           ELSE IF x \in DOMAIN diskPages THEN diskPages[x] ELSE ZeroPage
  BY <1>2, <1>5, <1>6 DEF Extended
<1>8. ASSUME NEW a \in Slots(diskPages') PROVE a \in Slots(diskPages)
  <2>1. PICK p \in DOMAIN diskPages' :
          \E i \in 0 .. diskPages'[p].next_item_id - 1 : a = Address(p, i)
    BY DEF Slots
  <2>2. PICK i \in 0 .. diskPages'[p].next_item_id - 1 : a = Address(p, i)
    BY <2>1
  <2>3. a.page = p /\ a.item = i /\ HasItem(diskPages'[p], i)
    BY <2>2 DEF Slots, Address
  <2>4. p \in DOMAIN diskPages /\ HasItem(diskPages[p], i)
    <3>1. CASE p = id
      BY <1>3, <1>4, <1>7, <2>3, <3>1
    <3>2. CASE p # id /\ p \in DOMAIN diskPages
      BY <1>7, <2>3, <3>2
    <3>3. CASE p # id /\ p \notin DOMAIN diskPages
      BY <1>7, <2>3, <3>3, ZeroPageOK DEF HasItem
    <3> QED BY <3>1, <3>2, <3>3
  <2> QED BY <2>2, <2>4, SlotIsThere
<1> QED BY <1>5, <1>7, <1>8

\* A part of the item that the iterator is at is deleted.
LEMMA ItDeletePartOK ==
  ASSUME ItInv, Iterating, DeletePart, it' = it
  PROVE  ItInv'
PROOF
<1>1. /\ pc = "delete" /\ pc' \in {"idle", "delete"}
  BY DEF DeletePart, DeleteSlot
<1>2. IndInv /\ ContInv /\ OnPage /\ FileInv
  BY <1>1, PlaceFile DEF ItInv, ItPlace, OnZeros
<1>3. IndInv'
  BY <1>2, DeletePartOK
<1>4. ContInv'
  BY <1>2, DeletedElsewhere
<1>5. FileInv'
  BY <1>2, <1>3, DeletePartFile
<1>6. /\ Slots(diskPages') \subseteq Slots(diskPages)
      /\ DOMAIN diskPages \subseteq DOMAIN diskPages' /\ DOMAIN ram \subseteq DOMAIN ram'
  BY <1>2, DeletePartShrinks
<1>7. OnPage'
  BY <1>2, <1>5, <1>6 DEF OnPage
<1>8. ItPlace'
  BY <1>1, <1>6, <1>7 DEF ItInv, ItPlace, Iterating
<1>9. ItTyped' /\ ItList' /\ (ItAll => ItAll')
  BY <1>6 DEF ItInv, ItTyped, ItList, HandedOutOnce, ItAll, Iterating
<1> QED BY <1>3, <1>4, <1>8, <1>9 DEF ItInv

--------------------------------------------------------------------------------
(***************************************************************************)
(* The invariant, and what follows from it.                                *)
(***************************************************************************)
\* At first there is neither file nor iterator.
LEMMA InitItInv == ItInit => ItInv
PROOF
<1> SUFFICES ASSUME ItInit PROVE ItInv
  OBVIOUS
<1>1. IndInv /\ FileInv
  BY InitIndInv, InitFileInv DEF ItInit
<1>2. ContInv
  BY EmptyOK DEF ItInit, Init, ContInv
<1> QED BY <1>1, <1>2, NoIteratorOK DEF ItInit, ItInv, ItPlace, Iterating

\* Every step preserves it.
LEMMA NextItInv == ItInv /\ [ItNext]_itVars => ItInv'
PROOF
<1> SUFFICES ASSUME ItInv, [ItNext]_itVars PROVE ItInv'
  OBVIOUS
<1>1. CASE ~Iterating /\ Next /\ UNCHANGED it
  BY <1>1, ItIdleOK
<1>2. CASE NewIterator
  BY <1>2, NewIteratorOK
<1>3. CASE NextPage
  BY <1>3, NextPageOK
<1>4. CASE NextPageAborts \/ GetNextAborts \/ UserExits \/ ItCrash
  BY <1>4, ItDiesOK DEF NextPageAborts, GetNextAborts, UserExits, ItCrash, Crash, Dead
<1>5. CASE GetNext
  BY <1>5, GetNextOK
<1>6. CASE Destroy
  BY <1>6, DestroyOK
<1>7. CASE DeleteCurrent
  BY <1>7, DeleteCurrentOK
<1>8. CASE Iterating /\ DeletePart /\ UNCHANGED it
  BY <1>8, ItDeletePartOK
<1>9. CASE UNCHANGED itVars
  <2>1. UNCHANGED vars /\ it' = it
    BY <1>9 DEF itVars
  <2>2. IndInv'
    BY <2>1, NextIndInv DEF ItInv
  <2>3. /\ UNCHANGED <<diskHeader, diskPages, header, ram, freePage, pc, put>>
    BY <2>1, Zenon DEF vars, disk, memory
  <2>4. ContInv' /\ ItTyped' /\ ItList' /\ (ItAll => ItAll')
    BY <2>1, <2>3 DEF ItInv, ContInv, ItTyped, ItList, HandedOutOnce, ItAll, Iterating
  <2>5. ItPlace'
    BY <2>1, <2>3, Zenon DEF ItInv, ItPlace, Iterating, OnPage, OnZeros, FileInv, FreePageInv,
       CountedInv, StartInv, PointerInv, LastPageInv, WriteThrough, Running
  <2> QED BY <2>2, <2>4, <2>5 DEF ItInv
<1> QED BY <1>1, <1>2, <1>3, <1>4, <1>5, <1>6, <1>7, <1>8, <1>9, Zenon DEF ItNext

\* ItInv is an invariant of the iterator over the heap file.
LEMMA ItInvariance == ItSpec => []ItInv
  BY InitItInv, NextItInv, PTL DEF ItSpec

(***************************************************************************)
(* The iterator has its types (ItemIterator!ItTypeOK).                     *)
(***************************************************************************)
THEOREM IteratorTypeOK == ItSpec => []ItTypeOK
PROOF
<1>1. ItInv => ItTypeOK
  BY DEF ItInv, ItTyped, Payloads, Ids, ItTypeOK
<1> QED BY <1>1, ItInvariance, PTL

(***************************************************************************)
(* The page the iterator points at is in memory whenever its user or       *)
(* item_iterator_has_next looks at it, and it is the page of the file that *)
(* the iterator has got to (ItemIterator!IteratorPageValid).               *)
(***************************************************************************)
THEOREM IteratorKeepsItsPage == ItSpec => []IteratorPageValid
PROOF
<1>1. ASSUME ItInv PROVE IteratorPageValid
  BY <1>1, PlacePage DEF ItInv, ItPlace, IteratorPageValid
<1> QED BY <1>1, ItInvariance, PTL

(***************************************************************************)
(* No item is handed out twice (ItemIterator!HandedOutOnce).               *)
(***************************************************************************)
THEOREM IteratorHandsOutOnce == ItSpec => []HandedOutOnce
PROOF
<1>1. ItInv => HandedOutOnce
  BY DEF ItInv, ItList
<1> QED BY <1>1, ItInvariance, PTL

\* An iteration at its end has handed out every live slot of the file.
LEMMA AllHandedOut ==
  ASSUME ItInv, Unlucky = {}, Exhausted, NEW a \in Slots(diskPages)
  PROVE  \E n \in 1 .. Len(it.payloads) : it.payloads[n] = a
PROOF
<1>1. /\ pc = "idle" /\ Iterating /\ ~ItemHere /\ ~MorePages
  BY DEF Exhausted
<1>2. /\ IndInv /\ ItTyped /\ ItAll /\ CountedInv /\ header = diskHeader
      /\ it.next \in Nat \ {0} /\ it.next - 1 \in DOMAIN diskPages
  BY <1>1, PlaceFile DEF ItInv, ItPlace
<1>3. CurrentPage = diskPages[it.next - 1]
  BY <1>1, PlacePage DEF ItInv
<1>4. /\ a.page \in Nat /\ a.item \in Nat /\ a.page \in DOMAIN diskPages
      /\ a.item \in 0 .. diskPages[a.page].next_item_id - 1
  BY <1>2, SlotsOK DEF IndInv, HasItem
<1>5. a.page <= it.next - 1
  <2>1. a.page < header.page_count /\ header.page_count \in Nat
    BY <1>2, <1>4 DEF CountedInv, IndInv, Types, Header
  <2> QED BY <1>1, <1>2, <1>4, <2>1 DEF MorePages
<1>6. Passed(it, a)
  <2>1. CASE a.page < it.next - 1
    BY <2>1 DEF Passed
  <2>2. CASE a.page = it.next - 1 /\ it.moving
    BY <2>2 DEF Passed
  <2>3. CASE a.page = it.next - 1 /\ ~it.moving
    <3>1. CurrentPage.next_item_id \in Nat /\ it.index \in Int
      BY <1>2, <1>3 DEF IndInv, DiskOK, PageOK, PageType, ItTyped, Ids
    <3>2. it.index + 1 >= CurrentPage.next_item_id
      BY <1>1, <2>3, <3>1 DEF ItemHere
    <3> QED BY <1>3, <1>4, <2>3, <3>1, <3>2 DEF Passed
  <2> QED BY <1>2, <1>4, <1>5, <2>1, <2>2, <2>3
<1> QED BY <1>1, <1>2, <1>6 DEF ItAll

(***************************************************************************)
(* When no payload has bytes that read as the id of its own page, an       *)
(* iteration that has come to its end has handed out every item of the     *)
(* file (ItemIterator!IterationComplete).                                  *)
(***************************************************************************)
THEOREM IteratorComplete ==
  ASSUME Unlucky = {}
  PROVE  ItSpec => []IterationComplete
PROOF
<1>1. DOMAIN Store \subseteq Slots(diskPages)
  <2>1. DOMAIN Store = {b \in Slots(diskPages) :
                          b \in Whole(diskPages) /\ Part(diskPages, b).data.from = 0}
    BY Zenon DEF Store
  <2> QED BY <2>1
<1>2. ItInv => IterationComplete
  BY <1>1, AllHandedOut DEF IterationComplete
<1> QED BY <1>2, ItInvariance, PTL

(***************************************************************************)
(* The pages in memory and in the file keep their layout while an iterator *)
(* reads them and its user deletes (PageManager!PagesWellFormed).          *)
(***************************************************************************)
THEOREM IteratorPagesWellFormed == ItSpec => []PagesWellFormed
PROOF
<1>1. ASSUME ItInv PROVE PagesWellFormed
  <2>1. ASSUME NEW id \in DOMAIN ram
        PROVE  ram[id] = ZeroPage \/ WellFormed(ram[id], PartData)
    BY <1>1 DEF ItInv, IndInv, RamOK, PageOK
  <2>2. ASSUME NEW id \in DOMAIN diskPages
        PROVE  \/ diskPages[id] = ZeroPage
               \/ WellFormed(diskPages[id], PartData) /\ diskPages[id].page_id = id
    BY <1>1 DEF ItInv, IndInv, DiskOK, PageOK
  <2> QED BY <2>1, <2>2 DEF PagesWellFormed
<1> QED BY <1>1, ItInvariance, PTL

--------------------------------------------------------------------------------
\* No step of an iteration takes part in a put.
LEMMA ItNextSaved ==
  ASSUME ViaFreePage, IndInv, SavedInv, [ItNext]_itVars
  PROVE  SavedInv'
PROOF
<1>1. CASE [Next]_vars
  BY <1>1, NextSaved
<1>2. CASE pc' \in Dead \cup {"idle", "delete"}
  BY <1>2 DEF SavedInv, Dead
<1>3. CASE NewIterator \/ NextPage \/ GetNext \/ Destroy \/ DeleteCurrent \/ DeletePart
  BY <1>2, <1>3 DEF NewIterator, NextPage, MovesOn, MoveTo, GetNext, Destroy, DeleteCurrent,
     DeleteStart, DeletePart, DeleteSlot
<1>4. CASE NextPageAborts \/ GetNextAborts \/ UserExits \/ ItCrash
  BY <1>2, <1>4 DEF NextPageAborts, GetNextAborts, UserExits, ItCrash, Crash, Die, Dead
<1> QED BY <1>1, <1>3, <1>4, Zenon DEF ItNext, itVars

================================================================================
