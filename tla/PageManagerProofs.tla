--------------------------- MODULE PageManagerProofs ---------------------------
(***************************************************************************)
(* Theorems about the heap file, for every page size, every set of         *)
(* payloads of any sizes, any number of failed writes and any crashes.     *)
(***************************************************************************)
EXTENDS PageManager, SlottedPageProofs

USE PageSizeAssumption, ItemsAssumption, SizeAssumption, SwitchAssumption, BoundsAssumption
    DEF HeaderSize, MetaSize, NullPage

Ids == Nat \cup {-1}

PutType ==
  [ item : Items \cup {-1}, caller : {"none", "init", "get_page", "full", "split"},
    page : Ids, cur : Ids, free : Ids, cont : Ids,
    written : Nat, result : [page : Ids, item : Nat] ]

\* The types of everything but the pages.
Types ==
  /\ diskHeader \in Header /\ header \in Header
  /\ freePage \in Ids
  /\ pc \in States
  /\ put \in PutType
  /\ target \in [page : Ids, item : Nat]
  /\ faults \in 0 .. MaxFaults

PageOK(p) == PageType(p, PartData) /\ (p = ZeroPage \/ WellFormed(p, PartData))

RamOK(r) ==
  /\ DOMAIN r \subseteq Nat
  /\ \A id \in DOMAIN r : PageOK(r[id]) /\ r[id].page_id = id

DiskOK(d) ==
  /\ DOMAIN d \subseteq Nat
  /\ \A id \in DOMAIN d : PageOK(d[id]) /\ (d[id] = ZeroPage \/ d[id].page_id = id)

\* The pages in memory are among those the header counts, the free page among them.
MemInv ==
  /\ ~Running => DOMAIN ram = {} /\ freePage = -1
  /\ Running => \A id \in DOMAIN ram : id < header.page_count
  /\ freePage # -1 => freePage \in DOMAIN ram

(***************************************************************************)
(* The put in progress.  A page found to have some room keeps it while the *)
(* page for the continuation is allocated, so that every part has a size   *)
(* greater than 0 and fits: an empty part would pass CanFitPayload on a    *)
(* full page.                                                              *)
(***************************************************************************)
PutInv ==
  /\ put.item \in Items => put.written <= Size[put.item]
  /\ pc \notin Called => put = NoPut
  /\ pc = "delete" => put = NoPut
  /\ pc = "loop" =>
       put.item \in Items /\ put.cont = -1 /\ (Left > 0 => put.cur \in DOMAIN ram)
  /\ pc \in {"alloc", "write_new", "set_free"} =>
       /\ put.cont = -1 /\ put.caller # "none"
       /\ put.caller # "init" => put.item \in Items
       /\ put.caller \in {"full", "split"} => Left > 0 /\ put.cur \in DOMAIN ram
       /\ put.caller = "split" => CanFitAnyPayload(ram[put.cur])
  /\ pc \in {"write_new", "set_free"} => put.free \in DOMAIN ram
  /\ pc = "set_free" => put.caller # "init"
  /\ pc = "part" =>
       /\ put.item \in Items /\ Left > 0 /\ put.cur \in DOMAIN ram
       /\ put.cont # -1 => /\ put.cont = put.free /\ put.cont \in DOMAIN ram
                           /\ CanFitAnyPayload(ram[put.cur])

IndInv == Types /\ RamOK(ram) /\ DiskOK(diskPages) /\ MemInv /\ PutInv

--------------------------------------------------------------------------------
(***************************************************************************)
(* Pages: a page of zeros, a new page, and how pages enter the memory and  *)
(* the file.                                                               *)
(***************************************************************************)
LEMMA ZeroPageOK ==
  /\ PageOK(ZeroPage) /\ ZeroPage.page_id = 0
  /\ PayloadAvailableSpace(ZeroPage) = 0
  /\ ZeroPage.next_item_id = 0
PROOF
<1>1. ZeroPage = [ page_id |-> 0, next_item_id |-> 0, items_count |-> 0,
                   free_start |-> 0, free_end |-> 0, slots |-> [i \in {} |-> -1] ]
  BY DEF ZeroPage
<1>2. /\ ZeroPage.next_item_id = 0 /\ ZeroPage.page_id = 0
      /\ ZeroPage.free_end = 0 /\ ZeroPage.free_start = 0
      /\ ZeroPage.slots = [i \in {} |-> -1]
      /\ ZeroPage \in [ page_id : Nat, next_item_id : Nat, items_count : Nat,
                        free_start : Nat, free_end : Nat, slots : {ZeroPage.slots} ]
  BY <1>1
<1>3. ZeroPage.slots \in [0 .. ZeroPage.next_item_id - 1 -> Slot(PartData)]
  <2>1. 0 .. ZeroPage.next_item_id - 1 = {}
    BY <1>2
  <2> QED BY <1>2, <2>1
<1>4. PageType(ZeroPage, PartData)
  BY <1>2, <1>3 DEF PageType
<1>5. PayloadAvailableSpace(ZeroPage) = 0
  BY <1>2 DEF PayloadAvailableSpace, FreeSpaceLeft
<1> QED BY <1>2, <1>4, <1>5 DEF PageOK

\* A page with an item, or with room for some payload, is not a page of zeros.
LEMMA NotZero ==
  ASSUME NEW p, PageOK(p), (\E i : HasItem(p, i)) \/ CanFitAnyPayload(p)
                           \/ (\E size \in Nat \ {0} : CanFitPayload(p, size))
  PROVE  WellFormed(p, PartData)
PROOF
<1>1. CASE p = ZeroPage
  <2>1. PayloadAvailableSpace(p) = 0 /\ p.next_item_id = 0
    BY <1>1, ZeroPageOK
  <2>2. ~ CanFitAnyPayload(p) /\ \A size \in Nat \ {0} : ~ CanFitPayload(p, size)
    BY <2>1 DEF CanFitAnyPayload, CanFitPayload
  <2>3. \A i : ~ HasItem(p, i)
    BY <2>1 DEF HasItem
  <2> QED BY <2>2, <2>3
<1> QED BY <1>1 DEF PageOK

\* A page put in memory under its own id.
LEMMA WithOK ==
  ASSUME NEW r, RamOK(r), NEW k \in Nat, NEW p, PageOK(p), p.page_id = k
  PROVE  /\ RamOK(With(r, k, p))
         /\ DOMAIN With(r, k, p) = DOMAIN r \cup {k}
         /\ With(r, k, p)[k] = p
         /\ \A x \in DOMAIN r : x # k => With(r, k, p)[x] = r[x]
PROOF
<1>1. /\ DOMAIN With(r, k, p) = DOMAIN r \cup {k}
      /\ With(r, k, p)[k] = p
      /\ \A x \in DOMAIN r : x # k => With(r, k, p)[x] = r[x]
  BY DEF With
<1> QED BY <1>1 DEF RamOK

\* A page in memory is written at its place in the file, or the file stays as it is.
LEMMA WrittenOK ==
  ASSUME DiskOK(diskPages), RamOK(ram'), NEW id \in DOMAIN ram',
         NEW ok \in BOOLEAN, WritePage(id, ok)
  PROVE  /\ DiskOK(diskPages')
         /\ DOMAIN diskPages \subseteq DOMAIN diskPages'
         /\ \A x \in DOMAIN diskPages' : x \in DOMAIN diskPages \cup 0 .. id
         /\ \A x \in DOMAIN diskPages : x # id => diskPages'[x] = diskPages[x]
         /\ ok => id \in DOMAIN diskPages' /\ diskPages'[id] = ram'[id]
PROOF
<1>1. id \in Nat /\ PageOK(ram'[id]) /\ ram'[id].page_id = id
  BY DEF RamOK
<1>2. CASE ok
  <2>1. diskPages' = [Extended(id) EXCEPT ![id] = ram'[id]]
    BY <1>2 DEF WritePage
  <2>2. /\ DOMAIN diskPages' = DOMAIN diskPages \cup 0 .. id
        /\ \A x \in DOMAIN diskPages \cup 0 .. id :
             diskPages'[x] = IF x = id THEN ram'[id]
                             ELSE IF x \in DOMAIN diskPages THEN diskPages[x] ELSE ZeroPage
    BY <2>1 DEF Extended
  <2>3. id \in 0 .. id /\ 0 .. id \subseteq Nat
    BY <1>1
  <2>4. DiskOK(diskPages')
    BY <1>1, <2>2, <2>3, ZeroPageOK DEF DiskOK
  <2> QED BY <2>2, <2>3, <2>4
<1>3. CASE ~ok
  BY <1>3 DEF WritePage
<1> QED BY <1>2, <1>3

\* The page read_page finds.
LEMMA ReadOK ==
  ASSUME RamOK(ram), DiskOK(diskPages), MemInv, Types, Running, NEW id, Readable(id)
  PROVE  /\ PageOK(Read(id)) /\ id \in Nat
         /\ Read(id) = ZeroPage \/ Read(id).page_id = id
         /\ Read(id).page_id \in Nat /\ Read(id).page_id < header.page_count
         /\ header.page_count \in Nat
PROOF
<1>1. id \in Nat /\ id < header.page_count /\ header.page_count \in Nat
  BY DEF Readable, RamOK, DiskOK, Types, Header
<1>2. PageOK(Read(id)) /\ (Read(id) = ZeroPage \/ Read(id).page_id = id)
  BY DEF Readable, Read, RamOK, DiskOK
<1>3. Read(id).page_id = 0 \/ Read(id).page_id = id
  BY <1>2, ZeroPageOK
<1> QED BY <1>1, <1>2, <1>3

\* Reading pages leaves pages of the file in memory, each under its own id.
LEMMA LoadedOK ==
  ASSUME RamOK(ram), DiskOK(diskPages), MemInv, Types, Running,
         NEW ids, \A id \in ids : Readable(id)
  PROVE  /\ RamOK(Loaded(ids))
         /\ DOMAIN ram \subseteq DOMAIN Loaded(ids)
         /\ \A id \in DOMAIN Loaded(ids) : id < header.page_count
         /\ \A id \in ids : Read(id).page_id \in DOMAIN Loaded(ids)
PROOF
<1> DEFINE found == {Read(id) : id \in ids}
           L == Loaded(ids)
<1>1. /\ DOMAIN L = DOMAIN ram \cup {p.page_id : p \in found}
      /\ \A id \in DOMAIN L :
           L[id] = IF \E p \in found : p.page_id = id
                     THEN CHOOSE p \in found : p.page_id = id ELSE ram[id]
  BY Zenon DEF Loaded
<1>2. \A p \in found : PageOK(p) /\ p.page_id \in Nat /\ p.page_id < header.page_count
  BY ReadOK
<1>3. \A id \in ids : Read(id) \in found
  OBVIOUS
<1> HIDE DEF found, L
<1>4. ASSUME NEW id \in DOMAIN L
      PROVE  id \in Nat /\ id < header.page_count /\ PageOK(L[id]) /\ L[id].page_id = id
  <2>1. CASE \E p \in found : p.page_id = id
    <3>1. L[id] \in found /\ L[id].page_id = id
      BY <1>1, <2>1
    <3> QED BY <1>2, <3>1
  <2>2. CASE ~ \E p \in found : p.page_id = id
    <3>1. id \in DOMAIN ram /\ L[id] = ram[id]
      BY <1>1, <2>2
    <3> QED BY <3>1 DEF RamOK, MemInv
  <2> QED BY <2>1, <2>2
<1>5. RamOK(L)
  BY <1>4 DEF RamOK
<1> QED BY <1>1, <1>3, <1>4, <1>5 DEF L

\* A failed write counts as a fault.
LEMMA CountOK ==
  ASSUME faults \in 0 .. MaxFaults, NEW ok \in Outcomes, Count(ok)
  PROVE  faults' \in 0 .. MaxFaults /\ ok \in BOOLEAN
PROOF
<1>1. ok \in BOOLEAN /\ (ok = FALSE => faults < MaxFaults)
  BY Zenon DEF Outcomes
<1>2. CASE ok = TRUE
  BY <1>2 DEF Count
<1>3. CASE ok = FALSE
  BY <1>1, <1>3 DEF Count
<1> QED BY <1>1, <1>2, <1>3

\* A write may always succeed.
LEMMA TrueIsOutcome == TRUE \in Outcomes
  BY DEF Outcomes

--------------------------------------------------------------------------------
(***************************************************************************)
(* The initial state, and the end of a process.                            *)
(***************************************************************************)
\* Between operations no put is in progress, and the rest is a matter of types.
LEMMA NoPutOK ==
  /\ NoPut \in PutType
  /\ NoPut.item = -1 /\ NoPut.caller = "none" /\ NoPut.cont = -1
PROOF
<1>1. NoPut = [ item |-> -1, caller |-> "none", page |-> -1, cur |-> -1, free |-> -1,
                cont |-> -1, written |-> 0, result |-> [page |-> -1, item |-> 0] ]
  BY DEF NoPut, NoAddress, Address
<1> QED BY <1>1 DEF PutType, Ids

\* Memory without pages, a file without pages or header.
LEMMA EmptyOK ==
  /\ RamOK(NoPages) /\ DiskOK(NoPages) /\ DOMAIN NoPages = {}
  /\ NoHeader \in Header
  /\ NoHeader.page_count = 0
  /\ NoAddress \in [page : Ids, item : Nat]
  BY DEF RamOK, DiskOK, NoPages, NoHeader, Header, NoAddress, Address, Ids

\* With no put in progress PutInv asks for nothing else.
LEMMA PutInvWithoutPut ==
  ASSUME put' = NoPut, pc' \in Dead \cup {"idle", "delete"}
  PROVE  PutInv'
PROOF
<1>1. put'.item \notin Items
  BY NoPutOK
<1>2. pc' \notin {"loop", "alloc", "write_new", "set_free", "part"}
  BY DEF Dead
<1> QED BY <1>1, <1>2 DEF PutInv

\* The end of a process leaves a file and no memory.
LEMMA DieOK ==
  ASSUME Types, DiskOK(diskPages), NEW how \in Dead, Die(how),
         diskPages' = diskPages, diskHeader' = diskHeader, faults' \in 0 .. MaxFaults
  PROVE  IndInv'
PROOF
<1>1. Types'
  BY NoPutOK, EmptyOK DEF Types, Die, Dead, States, Ids
<1>2. RamOK(ram') /\ DiskOK(diskPages') /\ DOMAIN ram' = {} /\ freePage' = -1
  BY EmptyOK DEF Die
<1>3. MemInv'
  BY <1>2 DEF MemInv
<1>4. PutInv'
  BY PutInvWithoutPut DEF Die
<1> QED BY <1>1, <1>2, <1>3, <1>4 DEF IndInv

\* The first page is allocated by page_manager_init.
LEMMA OpenWithoutPagesOK ==
  ASSUME IndInv, OpenWithoutPages
  PROVE  IndInv'
PROOF
<1> USE DEF OpenWithoutPages, OpenIfNone, EmptyFile
<1>1. /\ Types /\ RamOK(ram) /\ DiskOK(diskPages) /\ DOMAIN ram = {} /\ freePage = -1
      /\ diskHeader \in Header
  BY DEF IndInv, MemInv, Types
<1>2. header' \in Header /\ diskHeader' \in Header
  BY <1>1 DEF Header
<1>3. /\ put' \in PutType /\ put'.caller = "init" /\ put'.cont = -1 /\ put'.item = -1
  BY NoPutOK DEF PutType
<1>4. Types'
  BY <1>1, <1>2, <1>3 DEF Types, States, Called
<1>5. RamOK(ram') /\ DiskOK(diskPages') /\ MemInv'
  BY <1>1 DEF MemInv
<1>6. PutInv'
  BY <1>3 DEF PutInv, Called
<1> QED BY <1>4, <1>5, <1>6 DEF IndInv

\* Without a header the program does not start.
LEMMA OpenFailsOK ==
  ASSUME IndInv, OpenFails
  PROVE  IndInv'
PROOF
<1>1. faults' \in 0 .. MaxFaults
  BY CountOK DEF OpenFails, IndInv, Types
<1> QED BY <1>1, DieOK DEF OpenFails, IndInv, Dead, disk

\* The page the header names is read back.
LEMMA OpenWithPagesOK ==
  ASSUME IndInv, OpenWithPages
  PROVE  IndInv'
PROOF
<1> DEFINE page == diskPages[diskHeader.current_free_page]
<1>1. /\ Types /\ DiskOK(diskPages) /\ diskHeader \in Header /\ diskHeader.page_count \in Nat
      /\ put = NoPut
  BY DEF IndInv, Types, Header, PutInv, OpenWithPages, Running, Dead, Called
<1>2. /\ diskHeader.current_free_page \in DOMAIN diskPages
      /\ diskHeader.current_free_page \in Nat
      /\ diskHeader.current_free_page < diskHeader.page_count
  BY <1>1 DEF OpenWithPages, FreePageOnDisk, DiskOK
<1>3. /\ PageOK(page) /\ page.page_id \in Nat
      /\ page.page_id < diskHeader.page_count
  BY <1>1, <1>2, ZeroPageOK DEF DiskOK
<1>4. ram' = With(NoPages, page.page_id, page) /\ freePage' = page.page_id
  BY DEF OpenWithPages
<1> HIDE DEF page
<1>5. RamOK(ram') /\ DOMAIN ram' = {page.page_id}
  <2> DEFINE id == page.page_id
  <2> HIDE DEF id
  <2>1. id \in Nat /\ PageOK(page) /\ page.page_id = id /\ ram' = With(NoPages, id, page)
    BY <1>3, <1>4 DEF id
  <2>2. RamOK(With(NoPages, id, page)) /\ DOMAIN With(NoPages, id, page) = DOMAIN NoPages \cup {id}
    BY <2>1, EmptyOK, WithOK
  <2> QED BY <2>1, <2>2, EmptyOK
<1>6. Types'
  BY <1>1, <1>3, <1>4 DEF Types, OpenWithPages, disk, States, Ids
<1>7. MemInv'
  BY <1>3, <1>4, <1>5 DEF MemInv, OpenWithPages, Running, Dead
<1>8. PutInv'
  BY <1>1, PutInvWithoutPut DEF OpenWithPages
<1> QED BY <1>1, <1>5, <1>6, <1>7, <1>8 DEF IndInv, OpenWithPages, disk

\* The program ends without touching the file.
LEMMA EndOK ==
  ASSUME IndInv, OpenAborts \/ Close \/ Crash \/ (\E x : PutAborts(x))
                 \/ (\E a : GetItemAborts(a)) \/ AddPartAborts
  PROVE  IndInv'
  BY DieOK DEF OpenAborts, Close, Crash, PutAborts, GetItemAborts, AddPartAborts,
     IndInv, Types, Dead, disk

\* The program ends on a failed write, which changes nothing.
LEMMA WriteAbortsOK ==
  ASSUME IndInv, WriteAborts
  PROVE  IndInv'
PROOF
<1>1. faults' \in 0 .. MaxFaults
  BY CountOK DEF WriteAborts, IndInv, Types
<1> QED BY <1>1, DieOK DEF WriteAborts, IndInv, Dead, disk

--------------------------------------------------------------------------------
(***************************************************************************)
(* Allocating a page, for init or for the put in progress.                 *)
(***************************************************************************)
\* The put keeps its own pages while a page is allocated for it.
LEMMA PutKeepsPages ==
  ASSUME IndInv, pc \in {"alloc", "write_new"}, NEW id \in DOMAIN ram', id \in Nat,
         DOMAIN ram \subseteq DOMAIN ram', \A x \in DOMAIN ram : ram'[x] = ram[x],
         put' = [put EXCEPT !.free = id], pc' \in {"write_new", "set_free"},
         pc' = "set_free" => put.caller # "init"
  PROVE  put' \in PutType /\ PutInv'
PROOF
<1>1. put \in PutType /\ PutInv
  BY DEF IndInv, Types
<1>2. /\ put'.item = put.item /\ put'.caller = put.caller /\ put'.cur = put.cur
      /\ put'.cont = put.cont /\ put'.written = put.written /\ put'.free = id
      /\ put' \in PutType
  BY <1>1 DEF PutType, Ids
<1>3. Left' = Left
  BY <1>2 DEF Left
<1>4. /\ put.item \in Items => put.written <= Size[put.item]
      /\ put.cont = -1 /\ put.caller # "none"
      /\ put.caller # "init" => put.item \in Items
      /\ put.caller \in {"full", "split"} => Left > 0 /\ put.cur \in DOMAIN ram
      /\ put.caller = "split" => CanFitAnyPayload(ram[put.cur])
  BY <1>1 DEF PutInv
<1>5. pc' \in Called /\ pc' \notin {"delete", "loop", "part"}
  BY DEF Called
<1> QED BY <1>2, <1>3, <1>4, <1>5 DEF PutInv

\* What the program does once page_new has returned the page id.
LEMMA NewPageReturnedOK ==
  ASSUME IndInv, pc \in {"alloc", "write_new"}, NEW id \in DOMAIN ram', id \in Nat,
         DOMAIN ram \subseteq DOMAIN ram', \A x \in DOMAIN ram : ram'[x] = ram[x],
         NewPageReturned(id)
  PROVE  /\ put' \in PutType /\ PutInv' /\ pc' \in States \ Dead
         /\ freePage' \in Ids /\ (freePage' # -1 => freePage' \in DOMAIN ram')
PROOF
<1>1. freePage \in Ids /\ (freePage # -1 => freePage \in DOMAIN ram)
  BY DEF IndInv, Types, MemInv
<1>2. CASE put.caller = "init"
  <2>1. put' = NoPut /\ pc' = "idle" /\ freePage' = id
    BY <1>2 DEF NewPageReturned
  <2>2. PutInv'
    BY <2>1, PutInvWithoutPut
  <2> QED BY <2>1, <2>2, NoPutOK DEF Ids, States, Dead
<1>3. CASE put.caller # "init"
  <2>1. pc' = "set_free" /\ put' = [put EXCEPT !.free = id] /\ freePage' = freePage
    BY <1>3 DEF NewPageReturned
  <2>2. put' \in PutType /\ PutInv'
    BY <1>3, <2>1, PutKeepsPages
  <2> QED BY <1>1, <2>1, <2>2 DEF States, Called, Dead
<1> QED BY <1>2, <1>3

\* The next page is counted, in memory and in the file.
LEMMA AllocPageOK ==
  ASSUME IndInv, NEW ok \in Outcomes, AllocPage(ok)
  PROVE  IndInv'
PROOF
<1> DEFINE id == header.page_count
<1>1. /\ Types /\ RamOK(ram) /\ DiskOK(diskPages) /\ MemInv /\ PutInv /\ Running
      /\ pc = "alloc" /\ id \in Nat /\ header \in Header
  BY DEF IndInv, Types, Header, AllocPage, CountPage, Running, Dead
<1>2. /\ ram' = With(ram, id, PageNew(id)) /\ header' = [header EXCEPT !.page_count = @ + 1]
      /\ WriteHeader(ok) /\ diskPages' = diskPages /\ target' = target
  BY DEF AllocPage, CountPage
<1>3. header' \in Header /\ header'.page_count = id + 1
  BY <1>1, <1>2 DEF Header
<1>4. diskHeader' \in Header /\ faults' \in 0 .. MaxFaults
  <2>1. diskHeader' = IF ok THEN header' ELSE diskHeader
    BY <1>2 DEF WriteHeader
  <2>2. faults' \in 0 .. MaxFaults
    BY <1>1, <1>2, CountOK DEF WriteHeader, Types
  <2> QED BY <1>1, <1>3, <2>1, <2>2 DEF Types
<1>5. PageOK(PageNew(id)) /\ PageNew(id).page_id = id
  BY <1>1, NewPageWellFormed DEF PageOK, WellFormed
<1>6. \A x \in DOMAIN ram : x \in Nat /\ x < id
  BY <1>1 DEF MemInv, RamOK
<1>7. /\ RamOK(ram') /\ id \in DOMAIN ram' /\ DOMAIN ram \subseteq DOMAIN ram'
      /\ \A x \in DOMAIN ram : ram'[x] = ram[x]
      /\ \A x \in DOMAIN ram' : x < header'.page_count
  <2> DEFINE new == PageNew(id)
  <2>1. RamOK(ram) /\ id \in Nat /\ PageOK(new) /\ new.page_id = id /\ ram' = With(ram, id, new)
    BY <1>1, <1>2, <1>5
  <2> HIDE DEF id, new
  <2>2. /\ RamOK(With(ram, id, new)) /\ DOMAIN With(ram, id, new) = DOMAIN ram \cup {id}
        /\ \A x \in DOMAIN ram : x # id => With(ram, id, new)[x] = ram[x]
    BY <2>1, WithOK
  <2> QED BY <1>3, <1>6, <2>1, <2>2
<1>8. /\ put' \in PutType /\ PutInv' /\ pc' \in States \ Dead
      /\ freePage' \in Ids /\ (freePage' # -1 => freePage' \in DOMAIN ram')
  <2>1. CASE ok
    <3>1. pc' = "write_new" /\ put' = [put EXCEPT !.free = id] /\ freePage' = freePage
      BY <2>1 DEF AllocPage, CountPage
    <3>2. put' \in PutType /\ PutInv'
      BY <1>1, <1>7, <3>1, PutKeepsPages
    <3> QED BY <1>1, <1>7, <3>1, <3>2 DEF Types, MemInv, States, Called, Dead
  <2>2. CASE ~ok
    <3>1. NewPageReturned(id)
      BY <2>2 DEF AllocPage, CountPage
    <3> QED BY <1>1, <1>7, <3>1, NewPageReturnedOK
  <2> QED BY <2>1, <2>2
<1>9. Types'
  BY <1>1, <1>2, <1>3, <1>4, <1>8 DEF Types
<1>10. MemInv'
  BY <1>7, <1>8 DEF MemInv, Running
<1> QED BY <1>1, <1>2, <1>7, <1>8, <1>9, <1>10 DEF IndInv

\* The new page is written behind the header.
LEMMA WriteNewPageOK ==
  ASSUME IndInv, NEW ok \in Outcomes, WriteNewPage(ok)
  PROVE  IndInv'
PROOF
<1>1. /\ Types /\ RamOK(ram) /\ DiskOK(diskPages) /\ MemInv /\ Running /\ pc = "write_new"
      /\ put.free \in DOMAIN ram /\ put.free \in Nat
  BY DEF IndInv, WriteNewPage, Running, Dead, PutInv, RamOK
<1>2. /\ ram' = ram /\ header' = header /\ diskHeader' = diskHeader /\ target' = target
      /\ WritePage(put.free, ok) /\ NewPageReturned(put.free)
  BY DEF WriteNewPage
<1>3. ok \in BOOLEAN /\ faults' \in 0 .. MaxFaults
  BY <1>1, <1>2, CountOK DEF WritePage, Types
<1>4. DiskOK(diskPages') /\ RamOK(ram')
  BY <1>1, <1>2, <1>3, WrittenOK
<1>5. /\ put' \in PutType /\ PutInv' /\ pc' \in States \ Dead
      /\ freePage' \in Ids /\ (freePage' # -1 => freePage' \in DOMAIN ram')
  BY <1>1, <1>2, NewPageReturnedOK
<1>6. Types'
  BY <1>1, <1>2, <1>3, <1>5 DEF Types
<1>7. MemInv'
  BY <1>1, <1>2, <1>5 DEF MemInv, Running
<1> QED BY <1>4, <1>5, <1>6, <1>7 DEF IndInv

\* The new page becomes the free one, and the put goes on.
LEMMA SetFreePageOK ==
  ASSUME IndInv, NEW ok \in Outcomes, SetFreePage(ok)
  PROVE  IndInv'
PROOF
<1>1. /\ Types /\ RamOK(ram) /\ DiskOK(diskPages) /\ MemInv /\ Running /\ pc = "set_free"
      /\ header \in Header /\ put \in PutType /\ put.caller # "init"
      /\ put.free \in DOMAIN ram /\ put.free \in Nat
  BY DEF IndInv, Types, SetFreePage, Running, Dead, PutInv, RamOK
<1>2. /\ ram' = ram /\ diskPages' = diskPages /\ target' = target /\ freePage' = put.free
      /\ header' = [header EXCEPT !.current_free_page = put.free]
      /\ WriteHeader(ok) /\ PutGoesOn
  BY DEF SetFreePage
<1>3. header' \in Header /\ header'.page_count = header.page_count
  BY <1>1, <1>2 DEF Header
<1>4. diskHeader' \in Header /\ faults' \in 0 .. MaxFaults
  BY <1>1, <1>2, <1>3, CountOK DEF WriteHeader, Types
<1>5. /\ put.cont = -1
      /\ put.item \in Items /\ put.written <= Size[put.item]
      /\ put.caller \in {"full", "split"} => Left > 0 /\ put.cur \in DOMAIN ram
      /\ put.caller = "split" => CanFitAnyPayload(ram[put.cur])
      /\ put.caller \in {"get_page", "full", "split"}
  BY <1>1 DEF IndInv, PutInv, PutType
<1>6. put' \in PutType /\ PutInv' /\ pc' \in {"loop", "part"}
  <2>1. CASE put.caller = "get_page"
    <3>1. /\ pc' = "loop"
          /\ put' = [put EXCEPT !.page = put.free, !.cur = put.free, !.free = -1]
      BY <1>2, <2>1 DEF PutGoesOn
    <3>2. /\ put' \in PutType /\ put'.item = put.item /\ put'.written = put.written
          /\ put'.cont = -1 /\ put'.cur = put.free
      BY <1>1, <1>5, <3>1 DEF PutType, Ids
    <3> QED BY <1>1, <1>2, <1>5, <3>1, <3>2 DEF PutInv, Called
  <2>2. CASE put.caller = "full"
    <3>1. pc' = "part" /\ put' = [put EXCEPT !.cur = put.free]
      BY <1>2, <2>2 DEF PutGoesOn
    <3>2. /\ put' \in PutType /\ put'.item = put.item /\ put'.written = put.written
          /\ put'.cont = -1 /\ put'.cur = put.free
      BY <1>1, <1>5, <3>1 DEF PutType, Ids
    <3>3. Left' > 0
      BY <1>5, <2>2, <3>2 DEF Left
    <3> QED BY <1>1, <1>2, <1>5, <3>1, <3>2, <3>3 DEF PutInv, Called
  <2>3. CASE put.caller = "split"
    <3>1. pc' = "part" /\ put' = [put EXCEPT !.cont = put.free]
      BY <1>2, <2>3 DEF PutGoesOn
    <3>2. /\ put' \in PutType /\ put'.item = put.item /\ put'.written = put.written
          /\ put'.cont = put.free /\ put'.cur = put.cur /\ put'.free = put.free
      BY <1>1, <1>5, <3>1 DEF PutType, Ids
    <3>3. Left' > 0
      BY <1>5, <2>3, <3>2 DEF Left
    <3> QED BY <1>1, <1>2, <1>5, <2>3, <3>1, <3>2, <3>3 DEF PutInv, Called
  <2> QED BY <1>5, <2>1, <2>2, <2>3
<1>7. Types'
  BY <1>1, <1>2, <1>3, <1>4, <1>6 DEF Types, States, Called, Ids
<1>8. MemInv'
  BY <1>1, <1>2, <1>3, <1>6 DEF MemInv, Running, Dead
<1> QED BY <1>1, <1>2, <1>6, <1>7, <1>8 DEF IndInv

--------------------------------------------------------------------------------
(***************************************************************************)
(* put_item.                                                               *)
(***************************************************************************)
\* Pages read from the file come to those in memory.
LEMMA ReadKeepsMemory ==
  ASSUME IndInv, Running, NEW ids, \A id \in ids : Readable(id), ram' = Loaded(ids),
         header' = header, pc' \notin Dead, freePage' = freePage \/ freePage' \in DOMAIN ram'
  PROVE  RamOK(ram') /\ MemInv' /\ freePage' \in Ids
PROOF
<1>1. /\ RamOK(ram') /\ DOMAIN ram \subseteq DOMAIN ram'
      /\ \A id \in DOMAIN ram' : id < header.page_count
  BY LoadedOK DEF IndInv
<1>2. freePage \in Ids /\ (freePage # -1 => freePage \in DOMAIN ram)
  BY DEF IndInv, Types, MemInv
<1>3. DOMAIN ram' \subseteq Nat
  BY <1>1 DEF RamOK
<1>4. MemInv'
  BY <1>1, <1>2 DEF MemInv, Running
<1> QED BY <1>1, <1>2, <1>3, <1>4 DEF Ids

\* A put starts on the current free page, or on a new one.
LEMMA PutStartOK ==
  ASSUME IndInv, NEW x \in Items, PutStart(x)
  PROVE  IndInv'
PROOF
<1> DEFINE id == FreePageId
           page == Read(id)
<1>1. /\ pc = "idle" /\ Running /\ Types /\ DiskOK(diskPages) /\ RamOK(ram) /\ MemInv
      /\ Readable(id) /\ freePage' = page.page_id /\ ram' = Loaded({id})
      /\ diskHeader' = diskHeader /\ diskPages' = diskPages /\ header' = header
      /\ target' = target /\ faults' = faults
      /\ pc' \in {"alloc", "loop"}
  BY DEF PutStart, IndInv, Running, Dead, disk
<1>2. page.page_id \in DOMAIN ram' /\ page.page_id \in Nat
  BY <1>1, LoadedOK, ReadOK
<1>3. RamOK(ram') /\ MemInv' /\ freePage' \in Ids
  <2> HIDE DEF id, page
  <2>1. \A k \in {id} : Readable(k)
    BY <1>1
  <2> QED BY <1>1, <1>2, <2>1, ReadKeepsMemory DEF Dead
<1>4. Size[x] \in Nat \ {0}
  OBVIOUS
<1> HIDE DEF id, page
<1>5. put' \in PutType /\ PutInv'
  <2>1. CASE pc' = "alloc" /\ put' = [NoPut EXCEPT !.item = x, !.caller = "get_page"]
    <3>1. /\ put' \in PutType /\ put'.item = x /\ put'.written = 0
          /\ put'.cont = -1 /\ put'.caller = "get_page"
      BY <2>1 DEF NoPut, NoAddress, Address, PutType, Ids
    <3> QED BY <1>4, <2>1, <3>1 DEF PutInv, Called
  <2>2. CASE /\ pc' = "loop"
             /\ put' = [NoPut EXCEPT !.item = x, !.page = page.page_id, !.cur = page.page_id]
    <3>1. /\ put' \in PutType /\ put'.item = x /\ put'.written = 0
          /\ put'.cont = -1 /\ put'.cur = page.page_id
      BY <1>2, <2>2 DEF NoPut, NoAddress, Address, PutType, Ids
    <3> QED BY <1>2, <1>4, <2>2, <3>1 DEF PutInv, Called
  <2> QED BY <2>1, <2>2 DEF PutStart, id, page
<1>6. Types'
  BY <1>1, <1>3, <1>5 DEF Types, States, Called
<1> QED BY <1>1, <1>3, <1>5, <1>6 DEF IndInv

\* An iteration of put_item's loop begins.
LEMMA IterationOK ==
  ASSUME IndInv, PageFull \/ SplitItem \/ ItemFits
  PROVE  IndInv'
PROOF
<1>1. /\ pc = "loop" /\ Left > 0 /\ put \in PutType /\ put.item \in Items
      /\ put.written <= Size[put.item] /\ put.cont = -1 /\ put.cur \in DOMAIN ram
      /\ Types /\ MemInv /\ pc \notin Dead
      /\ UNCHANGED <<diskHeader, diskPages, header, ram, freePage, target, faults>>
  BY DEF PageFull, SplitItem, ItemFits, IndInv, Types, PutInv, disk, memory, Dead
<1>2. put' \in PutType /\ PutInv' /\ pc' \in {"alloc", "part"}
  <2>1. CASE PageFull
    <3>1. pc' = "alloc" /\ put' = [put EXCEPT !.caller = "full"]
      BY <2>1 DEF PageFull
    <3>2. /\ put' \in PutType /\ put'.item = put.item /\ put'.written = put.written
          /\ put'.cont = put.cont /\ put'.cur = put.cur /\ put'.caller = "full"
      BY <1>1, <3>1 DEF PutType
    <3>3. Left' > 0
      BY <1>1, <3>2 DEF Left
    <3> QED BY <1>1, <3>1, <3>2, <3>3 DEF PutInv, Called
  <2>2. CASE SplitItem
    <3>1. pc' = "alloc" /\ put' = [put EXCEPT !.caller = "split"] /\ CanFitAnyPayload(ram[put.cur])
      BY <2>2 DEF SplitItem
    <3>2. /\ put' \in PutType /\ put'.item = put.item /\ put'.written = put.written
          /\ put'.cont = put.cont /\ put'.cur = put.cur /\ put'.caller = "split"
      BY <1>1, <3>1 DEF PutType
    <3>3. Left' > 0
      BY <1>1, <3>2 DEF Left
    <3> QED BY <1>1, <3>1, <3>2, <3>3 DEF PutInv, Called
  <2>3. CASE ItemFits
    <3>1. pc' = "part" /\ put' = put
      BY <2>3 DEF ItemFits
    <3> QED BY <1>1, <3>1 DEF PutInv, Called, Left
  <2> QED BY <2>1, <2>2, <2>3
<1>3. Types'
  BY <1>1, <1>2 DEF Types, States, Called
<1>4. MemInv'
  BY <1>1, <1>2 DEF MemInv, Running, Dead
<1> QED BY <1>1, <1>2, <1>3, <1>4 DEF IndInv

\* A part is never empty, and never more than what is left of the item.
LEMMA PartSizeOK ==
  ASSUME IndInv, pc = "part"
  PROVE  PartSize \in Nat \ {0} /\ PartSize <= Left /\ (put.cont = -1 => PartSize = Left)
PROOF
<1>1. /\ put.item \in Items /\ Left > 0 /\ put.cur \in DOMAIN ram /\ put.written \in Nat
      /\ put.cont # -1 => CanFitAnyPayload(ram[put.cur])
      /\ PageType(ram[put.cur], PartData)
  BY DEF IndInv, PutInv, Types, PutType, RamOK, PageOK
<1>2. Size[put.item] \in Nat
  BY <1>1
<1>3. Left \in Nat \ {0}
  BY <1>1, <1>2 DEF Left
<1>4. CASE put.cont = -1
  BY <1>3, <1>4 DEF PartSize
<1>5. CASE put.cont # -1
  <2>1. PayloadAvailableSpace(ram[put.cur]) \in Nat \ {0}
    BY <1>1, <1>5 DEF CanFitAnyPayload, PayloadAvailableSpace, FreeSpaceLeft, PageType
  <2> HIDE DEF Left
  <2> QED BY <1>3, <1>5, <2>1 DEF PartSize
<1> QED BY <1>4, <1>5

\* The part is added to its page, and the page is written.
LEMMA AddPartOK ==
  ASSUME IndInv, AddPart
  PROVE  IndInv'
PROOF
<1> DEFINE page == ram[put.cur]
           data == [item |-> put.item, from |-> put.written]
           new == AddItem(page, data, PartSize, put.cont)
<1>1. /\ pc = "part" /\ Types /\ DiskOK(diskPages) /\ RamOK(ram) /\ MemInv /\ Running
      /\ put \in PutType /\ put.item \in Items /\ put.written \in Nat
      /\ put.written <= Size[put.item]
      /\ put.cur \in DOMAIN ram /\ put.cur \in Nat /\ PageOK(page) /\ page.page_id = put.cur
      /\ put.cont # -1 => put.cont = put.free /\ put.cont \in DOMAIN ram
      /\ put.cont \in Ids
  BY DEF AddPart, WritePart, IndInv, Types, PutInv, PutType, Running, Dead, RamOK
<1>2. /\ CanFitPayload(page, PartSize)
      /\ ram' = With(ram, put.cur, new)
      /\ WritePage(put.cur, TRUE)
      /\ pc' = "loop" /\ diskHeader' = diskHeader /\ header' = header
      /\ freePage' = freePage /\ target' = target
  BY DEF AddPart, WritePart
<1>3. PartSize \in Nat \ {0} /\ PartSize <= Left /\ (put.cont = -1 => PartSize = Left)
  BY <1>1, PartSizeOK
<1>4. WellFormed(page, PartData)
  <2> HIDE DEF page
  <2> QED BY <1>1, <1>2, <1>3, NotZero
<1>5. data \in PartData
  BY <1>1 DEF PartData
<1>6. PageOK(new) /\ new.page_id = put.cur
  <2>1. put.cont \in Nat \cup {-1}
    BY <1>1 DEF Ids
  <2> HIDE DEF page, data
  <2>2. /\ WellFormed(new, PartData)
        /\ AddEffect(page, new, data, PartSize, put.cont)
    BY <1>2, <1>3, <1>4, <1>5, <2>1, AddWellFormed
  <2> QED BY <1>1, <2>2 DEF PageOK, WellFormed, AddEffect
<1> HIDE DEF page, data, new
<1>7. RamOK(ram') /\ DOMAIN ram' = DOMAIN ram
  <2> DEFINE cur == put.cur
  <2>1. cur \in Nat /\ cur \in DOMAIN ram /\ new.page_id = cur /\ ram' = With(ram, cur, new)
    BY <1>1, <1>2, <1>6
  <2> HIDE DEF cur
  <2>2. RamOK(With(ram, cur, new)) /\ DOMAIN With(ram, cur, new) = DOMAIN ram \cup {cur}
    BY <1>1, <1>6, <2>1, WithOK
  <2> QED BY <2>1, <2>2
<1>8. DiskOK(diskPages')
  BY <1>1, <1>2, <1>7, WrittenOK
<1>9. faults' \in 0 .. MaxFaults
  BY <1>1, <1>2, CountOK, TrueIsOutcome DEF WritePage, Types
<1>10. put' \in PutType /\ PutInv'
  <2>1. page.next_item_id \in Nat
    BY <1>4 DEF WellFormed, PageType
  <2>2. /\ put'.item = put.item /\ put'.written = put.written + PartSize
        /\ put'.cont = -1 /\ put'.cur = put.free /\ put' \in PutType
    <3> DEFINE result == IF put.page = put.cur THEN Address(put.cur, page.next_item_id)
                                               ELSE put.result
               size == PartSize
    <3>1. result \in [page : Ids, item : Nat]
      BY <1>1, <2>1 DEF Address, PutType, Ids
    <3>2. put' = [put EXCEPT !.written = put.written + size, !.cur = put.free,
                             !.free = -1, !.cont = -1, !.result = result]
      BY Zenon DEF AddPart, WritePart, page, NullPage
    <3>3. put.written + size \in Nat /\ put.free \in Ids
      BY <1>1, <1>3 DEF PutType
    <3> HIDE DEF result, size
    <3>4. /\ put'.item = put.item /\ put'.written = put.written + size
          /\ put'.cont = -1 /\ put'.cur = put.free /\ put' \in PutType
      BY <1>1, <3>1, <3>2, <3>3 DEF PutType, Ids
    <3> QED BY <3>4 DEF size
  <2>3. Left' = Left - PartSize /\ Left \in Int
    <3>1. Size[put.item] \in Nat
      BY <1>1
    <3> DEFINE size == PartSize
    <3>2. size \in Nat /\ put'.written = put.written + size
      BY <1>3, <2>2
    <3> HIDE DEF size
    <3>3. Left' = Left - size /\ Left \in Int
      BY <1>1, <2>2, <3>1, <3>2 DEF Left
    <3> QED BY <3>3 DEF size
  <2>4. put'.written <= Size[put'.item]
    <3>1. Size[put.item] \in Nat /\ Left = Size[put.item] - put.written
      BY <1>1 DEF Left
    <3> QED BY <1>1, <1>3, <2>2, <3>1
  <2>5. Left' > 0 => put'.cur \in DOMAIN ram'
    BY <1>1, <1>3, <1>7, <2>2, <2>3
  <2> QED BY <1>1, <1>2, <2>2, <2>4, <2>5 DEF PutInv, Called
<1>11. Types'
  BY <1>1, <1>2, <1>9, <1>10 DEF Types, States, Called
<1>12. MemInv'
  BY <1>1, <1>2, <1>7 DEF MemInv, Running, Dead
<1> QED BY <1>7, <1>8, <1>10, <1>11, <1>12 DEF IndInv

\* The put returns.
LEMMA PutReturnsOK ==
  ASSUME IndInv, PutReturns
  PROVE  IndInv'
PROOF
<1>1. Types'
  BY NoPutOK DEF PutReturns, IndInv, Types, States, disk, memory
<1>2. PutInv'
  BY PutInvWithoutPut DEF PutReturns
<1> QED BY <1>1, <1>2 DEF PutReturns, IndInv, MemInv, Running, Dead, disk, memory

--------------------------------------------------------------------------------
(***************************************************************************)
(* get_item, delete_item, free_pages.                                      *)
(***************************************************************************)
\* An item is at the address of a page and a slot.
LEMMA StoreAddresses ==
  ASSUME DiskOK(diskPages), NEW a \in DOMAIN Store
  PROVE  a \in [page : Ids, item : Nat]
PROOF
<1>1. DOMAIN Store = {b \in Slots(diskPages) :
                        b \in Whole(diskPages) /\ Part(diskPages, b).data.from = 0}
  BY Zenon DEF Store
<1>2. a \in Slots(diskPages)
  BY <1>1
<1>3. PICK p \in DOMAIN diskPages : \E i \in 0 .. diskPages[p].next_item_id - 1 :
        a = Address(p, i)
  BY <1>2 DEF Slots
<1> QED BY <1>3 DEF Address, DiskOK, PageOK, PageType, Ids

\* The pages of the item are read.
LEMMA GetItemOK ==
  ASSUME IndInv, NEW a, GetItem(a)
  PROVE  IndInv'
PROOF
<1> DEFINE ids == ChainPages(diskPages, a)
<1>1. /\ Running /\ \A id \in ids : Readable(id)
      /\ ram' = Loaded(ids) /\ pc' \notin Dead
      /\ UNCHANGED <<diskHeader, diskPages, header, freePage, pc, put, target, faults>>
      /\ put = NoPut /\ pc = "idle"
  BY DEF GetItem, Reads, Running, Dead, disk, IndInv, PutInv, Called
<1> HIDE DEF ids
<1>2. RamOK(ram') /\ MemInv'
  BY <1>1, ReadKeepsMemory
<1>3. PutInv'
  BY <1>1, PutInvWithoutPut
<1> QED BY <1>1, <1>2, <1>3 DEF IndInv, Types

\* The pages of the item are read before it is deleted.
LEMMA DeleteStartOK ==
  ASSUME IndInv, NEW a \in [page : Ids, item : Nat], DeleteStart(a)
  PROVE  IndInv'
PROOF
<1> DEFINE ids == ChainPages(diskPages, a)
<1>1. /\ Running /\ \A id \in ids : Readable(id)
      /\ ram' = Loaded(ids) /\ pc' = "delete" /\ target' = a
      /\ UNCHANGED <<diskHeader, diskPages, header, freePage, put, faults>>
      /\ put = NoPut
  BY DEF DeleteStart, Reads, Running, Dead, disk, IndInv, PutInv, Called
<1> HIDE DEF ids
<1>2. RamOK(ram') /\ MemInv'
  BY <1>1, ReadKeepsMemory DEF Dead
<1>3. PutInv'
  BY <1>1, PutInvWithoutPut
<1> QED BY <1>1, <1>2, <1>3 DEF IndInv, Types, States, Called

\* A part is deleted on its page, and the page is written.
LEMMA DeletePartOK ==
  ASSUME IndInv, DeletePart
  PROVE  IndInv'
PROOF
<1> DEFINE id == target.page
           page == Read(target.page)
           i == target.item
           next == NextTarget(0)
           new == DeleteItem(page, i)
<1>1. /\ pc = "delete" /\ Types /\ DiskOK(diskPages) /\ RamOK(ram) /\ MemInv /\ Running
      /\ put = NoPut /\ Readable(id) /\ HasItem(page, i)
      /\ ram' = With(ram, id, new) /\ WritePage(id, TRUE)
      /\ pc' \in {"idle", "delete"} /\ target' \in {NoAddress, next}
      /\ UNCHANGED <<diskHeader, header, freePage, put>>
  BY DEF DeletePart, DeleteSlot, IndInv, Running, Dead, PutInv
<1>2. PageOK(page) /\ id \in Nat /\ id < header.page_count /\ (page = ZeroPage \/ page.page_id = id)
  BY <1>1, ReadOK DEF Readable
<1>3. WellFormed(page, PartData) /\ page.page_id = id
  <2> HIDE DEF page, i
  <2>1. page # ZeroPage
    BY <1>1, ZeroPageOK DEF HasItem
  <2> QED BY <1>1, <1>2, <2>1, NotZero
<1>4. PageOK(new) /\ new.page_id = id
  <2> HIDE DEF page, i, id
  <2>1. WellFormed(new, PartData) /\ DeleteEffect(page, new, i, PartData)
    BY <1>1, <1>3, DeleteWellFormed
  <2> QED BY <1>3, <2>1 DEF PageOK, WellFormed, DeleteEffect
<1>5. next \in [page : Ids, item : Nat]
  <2>1. page.slots[i] \in Slot(PartData)
    <3> HIDE DEF page, i
    <3> QED BY <1>1, <1>3 DEF HasItem, WellFormed, PageType
  <2>2. next.page = page.slots[i].continues_on_page /\ next.item = 0
        /\ next = [page |-> page.slots[i].continues_on_page, item |-> 0]
    <3>1. ContinuationLeft(page, i) = page.slots[i].continues_on_page
      <4> HIDE DEF page, i
      <4> QED BY <1>1, <1>3, ContinuationStays DEF Continuation
    <3> QED BY <3>1 DEF NextTarget, Address
  <2> HIDE DEF page, i, next
  <2>3. page.slots[i].continues_on_page \in Ids
    BY <2>1 DEF Slot, Ids
  <2> QED BY <2>2, <2>3
<1> HIDE DEF id, page, i, next, new
<1>6. RamOK(ram') /\ DOMAIN ram' = DOMAIN ram \cup {id}
  <2>1. RamOK(With(ram, id, new)) /\ DOMAIN With(ram, id, new) = DOMAIN ram \cup {id}
    BY <1>1, <1>2, <1>4, WithOK
  <2> QED BY <1>1, <2>1
<1>7. DiskOK(diskPages')
  BY <1>1, <1>2, <1>6, WrittenOK
<1>8. faults' \in 0 .. MaxFaults
  BY <1>1, CountOK, TrueIsOutcome DEF WritePage, Types
<1>9. PutInv'
  BY <1>1, PutInvWithoutPut
<1>10. Types'
  BY <1>1, <1>5, <1>8, EmptyOK DEF Types, States, Called
<1>11. MemInv'
  BY <1>1, <1>2, <1>6 DEF MemInv, Running, Dead
<1> QED BY <1>6, <1>7, <1>9, <1>10, <1>11 DEF IndInv

\* The memory is released, and the pointer to the current free page with it.
LEMMA FreePagesOK ==
  ASSUME IndInv, FreePages
  PROVE  IndInv'
PROOF
<1>1. /\ ram' = NoPages /\ freePage' = -1 /\ pc = "idle" /\ put = NoPut
      /\ UNCHANGED <<diskHeader, diskPages, header, pc, put, target, faults>>
  BY DEF FreePages, disk, IndInv, PutInv, Called
<1>2. RamOK(ram') /\ MemInv'
  BY <1>1, EmptyOK DEF MemInv, Running, Dead
<1>3. PutInv'
  BY <1>1, PutInvWithoutPut
<1> QED BY <1>1, <1>2, <1>3 DEF IndInv, Types, Ids

--------------------------------------------------------------------------------
(***************************************************************************)
(* The invariant.                                                          *)
(***************************************************************************)
\* The program starts with no pages, and not running.
LEMMA InitIndInv == Init => IndInv
PROOF
<1> SUFFICES ASSUME Init PROVE IndInv
  OBVIOUS
<1>1. Types
  BY NoPutOK, EmptyOK DEF Init, Types, States, Dead, Ids
<1>2. RamOK(ram) /\ DiskOK(diskPages) /\ MemInv
  BY EmptyOK DEF Init, MemInv, Running, Dead
<1>3. PutInv
  BY NoPutOK DEF Init, PutInv, Called
<1> QED BY <1>1, <1>2, <1>3 DEF IndInv

\* Every step preserves it.
LEMMA NextIndInv == IndInv /\ [Next]_vars => IndInv'
PROOF
<1> SUFFICES ASSUME IndInv, [Next]_vars PROVE IndInv'
  OBVIOUS
<1>1. ASSUME NEW ok \in WriteOutcomes, AllocPage(ok) \/ WriteNewPage(ok) \/ SetFreePage(ok)
      PROVE  IndInv'
  <2>1. ok \in Outcomes
    BY TrueIsOutcome DEF WriteOutcomes
  <2> QED BY <1>1, <2>1, AllocPageOK, WriteNewPageOK, SetFreePageOK
<1>2. CASE PageFull \/ SplitItem \/ ItemFits
  BY <1>2, IterationOK
<1>3. CASE AddPart
  BY <1>3, AddPartOK
<1>4. CASE PutReturns
  BY <1>4, PutReturnsOK
<1>5. CASE DeletePart
  BY <1>5, DeletePartOK
<1>6. CASE WriteAborts
  BY <1>6, WriteAbortsOK
<1>7. CASE OpenWithoutPages
  BY <1>7, OpenWithoutPagesOK
<1>8. CASE OpenFails
  BY <1>8, OpenFailsOK
<1>9. CASE OpenWithPages
  BY <1>9, OpenWithPagesOK
<1>10. CASE OpenAborts \/ Close \/ Crash \/ AddPartAborts
  BY <1>10, EndOK
<1>11. ASSUME NEW x \in Items, PutStart(x) \/ PutAborts(x)
       PROVE  IndInv'
  BY <1>11, PutStartOK, EndOK
<1>12. ASSUME NEW a \in DOMAIN Store, GetItem(a) \/ GetItemAborts(a) \/ DeleteStart(a)
       PROVE  IndInv'
  <2>1. a \in [page : Ids, item : Nat]
    BY StoreAddresses DEF IndInv
  <2> QED BY <1>12, <2>1, GetItemOK, EndOK, DeleteStartOK
<1>13. CASE FreePages
  BY <1>13, FreePagesOK
<1>14. CASE UNCHANGED vars
  BY <1>14, Zenon DEF vars, disk, memory, IndInv, Types, MemInv, PutInv, Running, Left
<1> QED BY <1>1, <1>2, <1>3, <1>4, <1>5, <1>6, <1>7, <1>8, <1>9, <1>10, <1>11, <1>12,
           <1>13, <1>14, Zenon DEF Next, Steps, Calls

\* IndInv is an invariant of the heap file.
LEMMA Invariance == Spec => []IndInv
  BY InitIndInv, NextIndInv, PTL DEF Spec

(***************************************************************************)
(* The file, the memory and the locals have their types, whatever writes   *)
(* fail and whenever the process dies (PageManager!TypeOK).                *)
(***************************************************************************)
THEOREM HeapFileTypeOK == Spec => []TypeOK
PROOF
<1>1. IndInv => TypeOK
  BY Zenon DEF IndInv, Types, RamOK, DiskOK, PageOK, TypeOK, Ids, PutType, NullPage
<1> QED BY <1>1, Invariance, PTL

(***************************************************************************)
(* Every page in memory and in the file keeps the layout of page.c and     *)
(* counts its live items, or is all zeros (PageManager!PagesWellFormed).   *)
(***************************************************************************)
THEOREM HeapFilePagesWellFormed == Spec => []PagesWellFormed
PROOF
<1>1. ASSUME IndInv PROVE PagesWellFormed
  <2>1. ASSUME NEW id \in DOMAIN ram
        PROVE  ram[id] = ZeroPage \/ WellFormed(ram[id], PartData)
    BY <1>1 DEF IndInv, RamOK, PageOK
  <2>2. ASSUME NEW id \in DOMAIN diskPages
        PROVE  \/ diskPages[id] = ZeroPage
               \/ WellFormed(diskPages[id], PartData) /\ diskPages[id].page_id = id
    BY <1>1 DEF IndInv, DiskOK, PageOK
  <2> QED BY <2>1, <2>2 DEF PagesWellFormed
<1> QED BY <1>1, Invariance, PTL

--------------------------------------------------------------------------------
(***************************************************************************)
(* The address that a put returns.  put_item saves it when it adds a part  *)
(* to the page the caller passed, and page_manager_get_page_for_data has   *)
(* seen to it that the first part goes there.                              *)
(***************************************************************************)
ItemAddresses == [page : Nat, item : Nat]

\* Before the first part, the page passed is the one being filled, and has room.
FirstPage ==
  /\ pc \in {"loop", "part"} \/ put.caller = "split" => put.page = put.cur
  /\ pc = "loop" => CanFitAnyPayload(ram[put.cur])
  /\ pc \in {"write_new", "set_free"} /\ put.caller = "get_page" =>
       CanFitAnyPayload(ram[put.free])
  /\ pc \notin {"loop", "part"} => put.caller # "full"

SavedInv ==
  pc \in {"loop", "part", "alloc", "write_new", "set_free"} =>
    IF put.written > 0 THEN put.result \in ItemAddresses ELSE FirstPage

\* A new page has room.
LEMMA NewPageHasRoom ==
  ASSUME NEW id
  PROVE  CanFitAnyPayload(PageNew(id))
  BY DEF PageNew, CanFitAnyPayload, PayloadAvailableSpace, FreeSpaceLeft, HeaderSize, MetaSize

\* A page is allocated.
LEMMA NewPageSaved ==
  ASSUME IndInv, SavedInv, NEW ok, AllocPage(ok) \/ WriteNewPage(ok) \/ SetFreePage(ok)
  PROVE  SavedInv'
PROOF
<1>1. put \in PutType /\ (put.caller = "split" /\ pc = "alloc" => put.cur \in DOMAIN ram)
  BY DEF IndInv, Types, PutInv
<1>2. CASE AllocPage(ok)
  <2> DEFINE id == header.page_count
             new == PageNew(id)
  <2>1. /\ pc = "alloc" /\ ram' = With(ram, id, new) /\ CanFitAnyPayload(new)
        /\ \/ pc' = "write_new" /\ put' = [put EXCEPT !.free = id]
           \/ NewPageReturned(id)
    BY <1>2, NewPageHasRoom DEF AllocPage, CountPage
  <2> HIDE DEF id, new
  <2>2. \/ pc' \in {"write_new", "set_free"} /\ put' = [put EXCEPT !.free = id]
        \/ pc' = "idle"
    BY <2>1 DEF NewPageReturned
  <2>3. CASE pc' = "idle"
    BY <2>3 DEF SavedInv
  <2>4. CASE pc' \in {"write_new", "set_free"} /\ put' = [put EXCEPT !.free = id]
    <3>1. /\ put'.written = put.written /\ put'.result = put.result /\ put'.page = put.page
          /\ put'.cur = put.cur /\ put'.caller = put.caller
      BY <1>1, <2>4 DEF PutType
    <3>2. header.page_count \in Nat
      BY DEF IndInv, Types, Header
    <3>3. put'.free = id
      BY <1>1, <2>4, <3>2 DEF PutType, Ids, id
    <3>4. ram'[put'.free] = new
      BY <2>1, <3>3 DEF With
    <3> QED BY <2>1, <2>4, <3>1, <3>4 DEF SavedInv, FirstPage, CanFitAnyPayload
  <2> QED BY <2>2, <2>3, <2>4
<1>3. CASE WriteNewPage(ok)
  <2>1. pc = "write_new" /\ ram' = ram /\ NewPageReturned(put.free)
    BY <1>3 DEF WriteNewPage
  <2>2. \/ pc' = "set_free" /\ put' = put
        \/ pc' = "idle"
    BY <1>1, <2>1 DEF NewPageReturned, PutType
  <2> QED BY <2>1, <2>2 DEF SavedInv, FirstPage
<1>4. CASE SetFreePage(ok)
  <2>1. pc = "set_free" /\ ram' = ram /\ PutGoesOn
    BY <1>4 DEF SetFreePage
  <2>2. put.caller \in {"get_page", "full", "split"}
    BY <1>1, <2>1 DEF IndInv, PutInv, PutType
  <2>3. CASE put.caller = "get_page"
    <3>1. /\ pc' = "loop" /\ put'.page = put.free /\ put'.cur = put.free
          /\ put'.written = put.written /\ put'.result = put.result /\ put'.caller = put.caller
      BY <1>1, <2>1, <2>3 DEF PutGoesOn, PutType
    <3> QED BY <2>1, <2>3, <3>1 DEF SavedInv, FirstPage
  <2>4. CASE put.caller = "full"
    <3>1. put.written > 0
      BY <1>1, <2>1, <2>4 DEF SavedInv, FirstPage, PutType
    <3>2. put'.written = put.written /\ put'.result = put.result
      BY <1>1, <2>1, <2>4 DEF PutGoesOn, PutType
    <3> QED BY <2>1, <3>1, <3>2 DEF SavedInv
  <2>5. CASE put.caller = "split"
    <3>1. /\ pc' = "part" /\ put'.page = put.page /\ put'.cur = put.cur
          /\ put'.written = put.written /\ put'.result = put.result
      BY <1>1, <2>1, <2>5 DEF PutGoesOn, PutType
    <3> QED BY <2>1, <2>5, <3>1 DEF SavedInv, FirstPage
  <2> QED BY <2>2, <2>3, <2>4, <2>5
<1> QED BY <1>2, <1>3, <1>4

\* A part is added: the first one to the page that was passed.
LEMMA AddPartSaved ==
  ASSUME IndInv, SavedInv, AddPart
  PROVE  SavedInv'
PROOF
<1> DEFINE size == PartSize
           address == Address(put.cur, ram[put.cur].next_item_id)
<1>1. /\ pc = "part" /\ pc' = "loop" /\ put \in PutType /\ put.cur \in DOMAIN ram
      /\ put.cur \in Nat /\ PageType(ram[put.cur], PartData) /\ put.free \in Ids
  BY DEF AddPart, WritePart, IndInv, Types, PutType, PutInv, RamOK, PageOK
<1>2. size \in Nat \ {0}
  BY <1>1, PartSizeOK
<1>3. address \in ItemAddresses
  BY <1>1 DEF PageType, Address, ItemAddresses
<1>4. put' = [put EXCEPT !.written = put.written + size, !.cur = put.free, !.free = -1,
                         !.cont = -1,
                         !.result = IF put.page = put.cur THEN address ELSE put.result]
  BY Zenon DEF AddPart, WritePart, NullPage
<1> HIDE DEF size, address
<1>5. /\ put'.written = put.written + size /\ put.written \in Nat
      /\ put'.result = IF put.page = put.cur THEN address ELSE put.result
  BY <1>1, <1>4 DEF PutType
<1>6. put.written > 0 \/ put.page = put.cur
  BY <1>1 DEF SavedInv, FirstPage
<1>7. put'.result \in ItemAddresses
  BY <1>1, <1>3, <1>5, <1>6 DEF SavedInv
<1>8. put'.written > 0
  BY <1>2, <1>5
<1> QED BY <1>7, <1>8 DEF SavedInv

\* A put starts on a page that has room, or with a new one.
LEMMA PutStartSaved ==
  ASSUME ViaFreePage, NEW x \in Items, PutStart(x)
  PROVE  SavedInv'
PROOF
<1> DEFINE id == FreePageId
           page == Read(id)
<1>1. /\ ram' = Loaded({id})
      /\ \/ /\ PayloadAvailableSpace(page) < MinimumDataPart
            /\ pc' = "alloc" /\ put' = [NoPut EXCEPT !.item = x, !.caller = "get_page"]
         \/ /\ ~(PayloadAvailableSpace(page) < MinimumDataPart)
            /\ pc' = "loop"
            /\ put' = [NoPut EXCEPT !.item = x, !.page = page.page_id, !.cur = page.page_id]
  BY DEF PutStart
<1>2. page.page_id \in DOMAIN ram' /\ ram'[page.page_id] = page
  <2> DEFINE found == {Read(k) : k \in {id}}
  <2>1. found = {page}
    OBVIOUS
  <2>2. Loaded({id}) = [ k \in DOMAIN ram \cup {p.page_id : p \in {page}} |->
                           IF \E p \in {page} : p.page_id = k
                             THEN CHOOSE p \in {page} : p.page_id = k ELSE ram[k] ]
    BY <2>1, Zenon DEF Loaded
  <2> HIDE DEF page, id
  <2> QED BY <1>1, <2>2
<1> HIDE DEF page, id
<1>3. CASE pc' = "alloc"
  <2>1. put'.written = 0 /\ put'.caller = "get_page"
    BY <1>1, <1>3 DEF NoPut
  <2> QED BY <1>3, <2>1 DEF SavedInv, FirstPage
<1>4. CASE pc' = "loop"
  <2>1. /\ put'.page = page.page_id /\ put'.cur = page.page_id /\ put'.written = 0
        /\ put'.caller = "none"
    BY <1>1, <1>4 DEF NoPut
  <2>2. CanFitAnyPayload(page)
    BY <1>1, <1>4 DEF CanFitAnyPayload, PayloadAvailableSpace, MinimumDataPart
  <2> QED BY <1>2, <1>4, <2>1, <2>2 DEF SavedInv, FirstPage
<1> QED BY <1>1, <1>3, <1>4

\* Every step preserves it.
LEMMA NextSaved ==
  ASSUME ViaFreePage
  PROVE  IndInv /\ SavedInv /\ [Next]_vars => SavedInv'
PROOF
<1> SUFFICES ASSUME IndInv, SavedInv, [Next]_vars PROVE SavedInv'
  OBVIOUS
<1>1. ASSUME NEW ok \in WriteOutcomes, AllocPage(ok) \/ WriteNewPage(ok) \/ SetFreePage(ok)
      PROVE  SavedInv'
  BY <1>1, NewPageSaved
<1>2. CASE PageFull \/ SplitItem \/ ItemFits
  <2>1. /\ pc = "loop" /\ ram' = ram /\ put \in PutType
        /\ put'.written = put.written /\ put'.result = put.result /\ put'.page = put.page
        /\ put'.cur = put.cur
        /\ \/ pc' = "part"
           \/ pc' = "alloc" /\ put'.caller = "split"
           \/ pc' = "alloc" /\ put'.caller = "full" /\ ~CanFitAnyPayload(ram[put.cur])
    BY <1>2 DEF PageFull, SplitItem, ItemFits, IndInv, Types, PutType, memory
  <2> QED BY <2>1 DEF SavedInv, FirstPage, PutType
<1>3. CASE AddPart
  BY <1>3, AddPartSaved
<1>4. CASE pc' \in Dead \cup {"idle", "delete"}
  BY <1>4 DEF SavedInv, Dead
<1>5. CASE PutReturns \/ DeletePart \/ WriteAborts \/ AddPartAborts \/ OpenFails
           \/ OpenWithPages \/ OpenAborts \/ Close \/ FreePages \/ Crash
  BY <1>4, <1>5 DEF PutReturns, DeletePart, DeleteSlot, WriteAborts, AddPartAborts, OpenFails,
     OpenWithPages, OpenAborts, Close, FreePages, Crash, Die, Dead
<1>6. CASE OpenWithoutPages
  <2>1. pc' = "alloc" /\ put' = [NoPut EXCEPT !.caller = "init"]
    BY <1>6 DEF OpenWithoutPages, OpenIfNone
  <2>2. put'.caller = "init" /\ put'.written = 0
    BY <2>1 DEF NoPut
  <2> QED BY <2>1, <2>2 DEF SavedInv, FirstPage
<1>7. ASSUME NEW x \in Items, PutStart(x) \/ PutAborts(x)
      PROVE  SavedInv'
  BY <1>4, <1>7, PutStartSaved DEF PutAborts, Die, Dead
<1>8. ASSUME NEW a \in DOMAIN Store, GetItem(a) \/ GetItemAborts(a) \/ DeleteStart(a)
      PROVE  SavedInv'
  BY <1>4, <1>8 DEF GetItem, GetItemAborts, DeleteStart, Die, Dead
<1>9. CASE UNCHANGED vars
  BY <1>9, Zenon DEF vars, memory, SavedInv, FirstPage
<1> QED BY <1>1, <1>2, <1>3, <1>5, <1>6, <1>7, <1>8, <1>9, Zenon DEF Next, Steps, Calls

\* A put whose parts are all written has an address to return.
LEMMA SavedAtEnd ==
  ASSUME IndInv, SavedInv, pc = "loop", Left = 0
  PROVE  put.result \in ItemAddresses
PROOF
<1>1. put.item \in Items /\ put.written \in Nat
  BY DEF IndInv, PutInv, Types, PutType
<1>2. Size[put.item] \in Nat \ {0}
  BY <1>1
<1>3. put.written > 0
  BY <1>1, <1>2 DEF Left
<1> QED BY <1>3 DEF SavedInv

(***************************************************************************)
(* A put through page_manager_get_page_for_data returns an address, also   *)
(* after writes that failed: the page passed never turns out full before   *)
(* the first part is on it (item_management.c:84).                         *)
(***************************************************************************)
THEOREM HeapFileAddressSaved ==
  ASSUME ViaFreePage
  PROVE  Spec => [](pc = "loop" /\ Left = 0 => put.result \in ItemAddresses)
PROOF
<1>1. Init => IndInv /\ SavedInv
  BY InitIndInv DEF Init, SavedInv
<1>2. IndInv /\ SavedInv /\ [Next]_vars => IndInv' /\ SavedInv'
  BY NextIndInv, NextSaved
<1>3. IndInv /\ SavedInv => (pc = "loop" /\ Left = 0 => put.result \in ItemAddresses)
  BY SavedAtEnd
<1> QED BY <1>1, <1>2, <1>3, PTL DEF Spec

================================================================================
