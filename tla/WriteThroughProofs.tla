--------------------------- MODULE WriteThroughProofs ---------------------------
(***************************************************************************)
(* What the file holds while no write fails, whenever the process dies:    *)
(* theorems for every page size, every set of payloads and every number of *)
(* pages.  MaxFaults = 0 is their hypothesis: page_manager_init and        *)
(* page_manager_get_page_for_data ignore a write that fails, and then none *)
(* of them holds.                                                          *)
(***************************************************************************)
EXTENDS PageManagerProofs

USE PageSizeAssumption, SizeAssumption, BoundsAssumption DEF NullPage

\* The free page is in the file, where its page_id says.
FreePageInv ==
  DOMAIN diskPages # {} =>
    /\ diskHeader.current_free_page \in DOMAIN diskPages
    /\ diskPages[diskHeader.current_free_page].page_id = diskHeader.current_free_page

\* A page is counted before it is written.
CountedInv == \A id \in DOMAIN diskPages : id < diskHeader.page_count

\* The first page is written before the first operation.
StartInv ==
  Running =>
    IF pc \in {"alloc", "write_new"} /\ put.caller = "init"
      THEN /\ DOMAIN diskPages = {} /\ header.current_free_page = 0
           /\ header.page_count = IF pc = "alloc" THEN 0 ELSE 1
      ELSE DOMAIN diskPages # {}

PointerInv == freePage # -1 => freePage = header.current_free_page

\* The page page_new is writing is the last one counted.
LastPageInv == pc = "write_new" => put.free = header.page_count - 1

FileInv ==
  FreePageInv /\ CountedInv /\ StartInv /\ PointerInv /\ LastPageInv /\ WriteThrough

--------------------------------------------------------------------------------
\* No write fails.
LEMMA NoFaults ==
  ASSUME MaxFaults = 0, IndInv
  PROVE  Outcomes = {TRUE} /\ WriteOutcomes = {TRUE}
PROOF
<1>1. faults = 0
  BY DEF IndInv, Types
<1>2. ~ (faults < MaxFaults)
  BY <1>1
<1>3. Outcomes = {TRUE}
  BY <1>2, Zenon DEF Outcomes
<1> QED BY <1>3, Zenon DEF WriteOutcomes

\* The end of a process leaves the file as it is.
LEMMA DieFile ==
  ASSUME FreePageInv, CountedInv, NEW how \in Dead, Die(how),
         diskPages' = diskPages, diskHeader' = diskHeader
  PROVE  FileInv'
PROOF
<1>1. ~Running' /\ pc' # "write_new" /\ freePage' = -1
  BY DEF Die, Running, Dead
<1> QED BY <1>1 DEF FileInv, FreePageInv, CountedInv, StartInv, PointerInv, LastPageInv,
           WriteThrough

\* A step between operations that changes neither the file nor the header.
LEMMA MemoryFile ==
  ASSUME FileInv, pc = "idle", diskPages' = diskPages, diskHeader' = diskHeader,
         header' = header, freePage' = -1 \/ freePage' = header.current_free_page,
         pc' \in States \ (Dead \cup {"write_new"}), put'.caller # "init",
         \A id \in DOMAIN ram' : id \in DOMAIN diskPages /\ ram'[id] = diskPages[id]
  PROVE  FileInv'
PROOF
<1>1. /\ FreePageInv /\ CountedInv /\ header = diskHeader /\ DOMAIN diskPages # {}
  BY DEF FileInv, StartInv, WriteThrough, Running, Dead
<1>2. WriteThrough' /\ StartInv'
  BY <1>1 DEF WriteThrough, StartInv
<1> QED BY <1>1, <1>2 DEF FileInv, FreePageInv, CountedInv, PointerInv, LastPageInv

\* The pages read from the file are those of the file.
LEMMA LoadedFile ==
  ASSUME FileInv, pc = "idle",
         NEW ids, \A id \in ids : Readable(id) /\ Read(id).page_id = id
  PROVE  \A x \in DOMAIN Loaded(ids) :
           x \in DOMAIN diskPages /\ Loaded(ids)[x] = diskPages[x]
PROOF
<1> DEFINE found == {Read(id) : id \in ids}
           L == Loaded(ids)
<1>1. /\ DOMAIN L = DOMAIN ram \cup {p.page_id : p \in found}
      /\ \A id \in DOMAIN L :
           L[id] = IF \E p \in found : p.page_id = id
                     THEN CHOOSE p \in found : p.page_id = id ELSE ram[id]
  BY Zenon DEF Loaded
<1>2. \A x \in DOMAIN ram : x \in DOMAIN diskPages /\ ram[x] = diskPages[x]
  BY DEF FileInv, WriteThrough, Running, Dead
<1>3. \A id \in ids : id \in DOMAIN diskPages /\ Read(id) = diskPages[id]
  BY <1>2 DEF Readable, Read
<1>4. \A p \in found : p.page_id \in DOMAIN diskPages /\ p = diskPages[p.page_id]
  BY <1>3
<1> HIDE DEF found, L
<1>5. ASSUME NEW x \in DOMAIN L
      PROVE  x \in DOMAIN diskPages /\ L[x] = diskPages[x]
  <2>1. CASE \E p \in found : p.page_id = x
    <3>1. L[x] \in found /\ L[x].page_id = x
      BY <1>1, <2>1
    <3> QED BY <1>4, <3>1
  <2>2. CASE ~ \E p \in found : p.page_id = x
    <3>1. x \in DOMAIN ram /\ L[x] = ram[x]
      BY <1>1, <2>2
    <3> QED BY <1>2, <3>1
  <2> QED BY <2>1, <2>2
<1> QED BY <1>5 DEF L

--------------------------------------------------------------------------------
(***************************************************************************)
(* Starting, and allocating a page.                                        *)
(***************************************************************************)
\* A file whose header counts no page has none.
LEMMA OpenWithoutPagesFile ==
  ASSUME IndInv, FileInv, OpenWithoutPages
  PROVE  FileInv'
PROOF
<1>1. /\ CountedInv /\ diskHeader \in Header /\ diskHeader.page_count = 0
      /\ header' = EmptyFile /\ diskHeader' = header'
      /\ diskPages' = diskPages /\ pc' = "alloc" /\ put' = [NoPut EXCEPT !.caller = "init"]
      /\ ram' = ram /\ freePage' = freePage
      /\ DOMAIN ram = {} /\ freePage = -1
  BY DEF IndInv, Types, MemInv, FileInv, OpenWithoutPages, OpenIfNone
<1>2. DOMAIN diskPages = {}
  <2>1. ASSUME NEW id \in DOMAIN diskPages PROVE FALSE
    <3>1. id \in Nat /\ id < 0
      BY <1>1 DEF CountedInv, IndInv, DiskOK
    <3> QED BY <3>1
  <2> QED BY <2>1, Zenon
<1>3. header'.current_free_page = 0 /\ header'.page_count = 0 /\ put'.caller = "init"
  BY <1>1 DEF EmptyFile, NoPut
<1> QED BY <1>1, <1>2, <1>3 DEF FileInv, FreePageInv, CountedInv, StartInv, PointerInv,
           LastPageInv, WriteThrough

\* The free page is read from where the header says.
LEMMA OpenWithPagesFile ==
  ASSUME IndInv, FileInv, OpenWithPages
  PROVE  FileInv'
PROOF
<1> DEFINE free == diskHeader.current_free_page
           page == diskPages[free]
<1>1. /\ free \in DOMAIN diskPages
      /\ ram' = With(NoPages, page.page_id, page) /\ freePage' = page.page_id
      /\ header' = diskHeader /\ diskHeader' = diskHeader /\ diskPages' = diskPages
      /\ pc' = "idle"
  BY DEF OpenWithPages, FreePageOnDisk, disk
<1>2. page.page_id = free /\ FreePageInv /\ CountedInv
  BY <1>1 DEF FileInv, FreePageInv
<1>3. freePage' = header'.current_free_page
  BY <1>1, <1>2
<1>4. \A x \in DOMAIN ram' : x = free /\ ram'[x] = page
  <2>1. ram' = With(NoPages, free, page)
    BY <1>1, <1>2
  <2> HIDE DEF page, free
  <2>2. \A x \in DOMAIN With(NoPages, free, page) : x = free /\ With(NoPages, free, page)[x] = page
    BY EmptyOK DEF With
  <2> QED BY <2>1, <2>2
<1> QED BY <1>1, <1>2, <1>3, <1>4 DEF FileInv, FreePageInv, CountedInv, StartInv,
           PointerInv, LastPageInv, WriteThrough

\* The header counts a page that is in memory only.
LEMMA AllocPageFile ==
  ASSUME IndInv, FileInv, AllocPage(TRUE)
  PROVE  FileInv'
PROOF
<1> DEFINE id == header.page_count
           new == PageNew(id)
<1>1. /\ header \in Header /\ id \in Nat /\ header = diskHeader /\ pc = "alloc"
      /\ put \in PutType /\ \A x \in DOMAIN ram : x \in DOMAIN diskPages /\ diskPages[x] = ram[x]
      /\ PointerInv /\ CountedInv /\ FreePageInv /\ StartInv /\ Running
      /\ \A x \in DOMAIN diskPages : x \in Nat
  BY DEF IndInv, Types, Header, FileInv, WriteThrough, Running, Dead, AllocPage, CountPage, DiskOK
<1>2. /\ ram' = With(ram, id, new)
      /\ header' = [header EXCEPT !.page_count = @ + 1]
      /\ WriteHeader(TRUE) /\ diskPages' = diskPages
      /\ pc' = "write_new" /\ put' = [put EXCEPT !.free = id] /\ freePage' = freePage
  BY DEF AllocPage, CountPage
<1>3. /\ header'.page_count = id + 1
      /\ header'.current_free_page = header.current_free_page
      /\ put'.free = id /\ put'.caller = put.caller
  BY <1>1, <1>2 DEF Header, PutType
<1>4. diskHeader' = header'
  BY <1>2 DEF WriteHeader
<1> HIDE DEF new
<1>5. \A x \in DOMAIN ram' : x # id => x \in DOMAIN ram /\ ram'[x] = ram[x]
  <2> HIDE DEF id
  <2> QED BY <1>2 DEF With
<1>6. WriteThrough'
  BY <1>1, <1>2, <1>3, <1>4, <1>5 DEF WriteThrough
<1>7. FreePageInv' /\ PointerInv'
  BY <1>1, <1>2, <1>3, <1>4 DEF FreePageInv, PointerInv
<1>8. CountedInv'
  BY <1>1, <1>2, <1>3, <1>4 DEF CountedInv
<1>9. StartInv' /\ LastPageInv'
  BY <1>1, <1>2, <1>3 DEF StartInv, LastPageInv, Running
<1> QED BY <1>6, <1>7, <1>8, <1>9 DEF FileInv

\* The page that was counted is written, and zeros where one was never written.
LEMMA WriteNewPageFile ==
  ASSUME IndInv, FileInv, WriteNewPage(TRUE)
  PROVE  FileInv'
PROOF
<1> DEFINE id == put.free
<1>1. /\ RamOK(ram) /\ DiskOK(diskPages) /\ id \in DOMAIN ram /\ id \in Nat
      /\ header \in Header /\ header.page_count \in Nat /\ id = header.page_count - 1
      /\ header = diskHeader /\ pc = "write_new"
      /\ \A x \in DOMAIN ram : x # id => x \in DOMAIN diskPages /\ diskPages[x] = ram[x]
      /\ PointerInv /\ CountedInv /\ FreePageInv /\ StartInv /\ Running
      /\ ram[id].page_id = id
  BY DEF IndInv, Types, Header, FileInv, WriteThrough, LastPageInv, Running, Dead, WriteNewPage,
     PutInv, RamOK
<1>2. /\ ram' = ram /\ header' = header /\ diskHeader' = diskHeader
      /\ WritePage(id, TRUE) /\ NewPageReturned(id)
  BY DEF WriteNewPage
<1> HIDE DEF id
<1>3. /\ DOMAIN diskPages \subseteq DOMAIN diskPages'
      /\ \A x \in DOMAIN diskPages' : x \in DOMAIN diskPages \cup 0 .. id
      /\ \A x \in DOMAIN diskPages : x # id => diskPages'[x] = diskPages[x]
      /\ id \in DOMAIN diskPages' /\ diskPages'[id] = ram'[id]
  BY <1>1, <1>2, WrittenOK
<1>4. CountedInv'
  BY <1>1, <1>2, <1>3 DEF CountedInv
<1>5. /\ pc' \in {"idle", "set_free"}
      /\ put.caller = "init" => freePage' = id /\ pc' = "idle"
      /\ put.caller # "init" => freePage' = freePage /\ put' = [put EXCEPT !.free = id]
  BY <1>2 DEF NewPageReturned
<1>6. WriteThrough'
  BY <1>1, <1>2, <1>3, <1>5 DEF WriteThrough
<1>7. put.caller = "init" => DOMAIN diskPages = {} /\ header.current_free_page = 0 /\ id = 0
  BY <1>1 DEF StartInv
<1>8. PointerInv'
  BY <1>1, <1>2, <1>5, <1>7 DEF PointerInv
<1>9. FreePageInv'
  <2>1. CASE put.caller = "init"
    BY <1>1, <1>2, <1>3, <1>7, <2>1 DEF FreePageInv
  <2>2. CASE put.caller # "init"
    <3>1. DOMAIN diskPages # {}
      BY <1>1, <2>2 DEF StartInv
    <3> QED BY <1>1, <1>2, <1>3, <3>1 DEF FreePageInv
  <2> QED BY <2>1, <2>2
<1>10. StartInv' /\ LastPageInv'
  BY <1>3, <1>5 DEF StartInv, LastPageInv
<1> QED BY <1>4, <1>6, <1>8, <1>9, <1>10 DEF FileInv

\* A page of the file becomes the free one.
LEMMA SetFreePageFile ==
  ASSUME IndInv, FileInv, SetFreePage(TRUE)
  PROVE  FileInv'
PROOF
<1> DEFINE id == put.free
<1>1. /\ id \in DOMAIN ram /\ ram[id].page_id = id /\ header \in Header
      /\ header = diskHeader /\ pc = "set_free" /\ put.caller # "init"
      /\ \A x \in DOMAIN ram : x \in DOMAIN diskPages /\ diskPages[x] = ram[x]
      /\ CountedInv
  BY DEF IndInv, Types, FileInv, WriteThrough, Running, Dead, SetFreePage, PutInv, RamOK
<1>2. /\ ram' = ram /\ diskPages' = diskPages /\ freePage' = id
      /\ header' = [header EXCEPT !.current_free_page = id]
      /\ WriteHeader(TRUE) /\ PutGoesOn
  BY DEF SetFreePage
<1>3. /\ header'.current_free_page = id /\ header'.page_count = header.page_count
      /\ diskHeader' = header'
  BY <1>1, <1>2 DEF Header, WriteHeader
<1>4. pc' \in {"loop", "part"}
  <2>1. put.caller \in {"get_page", "full", "split"}
    BY <1>1 DEF IndInv, Types, PutType, PutInv
  <2> QED BY <1>2, <2>1 DEF PutGoesOn
<1>5. id \in DOMAIN diskPages /\ diskPages[id].page_id = id
  BY <1>1
<1> HIDE DEF id
<1>6. FreePageInv' /\ CountedInv' /\ PointerInv'
  BY <1>1, <1>2, <1>3, <1>5 DEF FreePageInv, CountedInv, PointerInv
<1>7. StartInv' /\ LastPageInv' /\ WriteThrough'
  BY <1>1, <1>2, <1>3, <1>4, <1>5 DEF StartInv, LastPageInv, WriteThrough
<1> QED BY <1>6, <1>7 DEF FileInv

--------------------------------------------------------------------------------
(***************************************************************************)
(* The operations.                                                         *)
(***************************************************************************)
\* Steps that change neither pages nor header.
LEMMA LocalFile ==
  ASSUME FileInv, pc \notin Dead, pc # "write_new", pc' \notin Dead \cup {"write_new"},
         put.caller = "init" => pc # "alloc", put'.caller = "init" => pc' # "alloc",
         UNCHANGED <<diskHeader, diskPages, header, ram, freePage>>
  PROVE  FileInv'
PROOF
<1>1. WriteThrough'
  BY DEF FileInv, WriteThrough, Running, Dead
<1>2. StartInv' /\ LastPageInv'
  BY DEF FileInv, StartInv, LastPageInv, Running
<1> QED BY <1>1, <1>2 DEF FileInv, FreePageInv, CountedInv, PointerInv

\* A put starts.
LEMMA PutStartFile ==
  ASSUME IndInv, FileInv, NEW x \in Items, PutStart(x)
  PROVE  FileInv'
PROOF
<1> DEFINE id == FreePageId
<1>1. /\ pc = "idle" /\ Readable(id) /\ freePage' = Read(id).page_id /\ ram' = Loaded({id})
      /\ diskHeader' = diskHeader /\ diskPages' = diskPages /\ header' = header
      /\ pc' \in {"alloc", "loop"}
      /\ header = diskHeader /\ PointerInv /\ FreePageInv /\ DOMAIN diskPages # {}
      /\ \A k \in DOMAIN ram : k \in DOMAIN diskPages /\ diskPages[k] = ram[k]
  BY DEF PutStart, disk, FileInv, WriteThrough, StartInv, Running, Dead
<1>2. id = header.current_free_page
  BY <1>1 DEF PointerInv, FreePageId
<1>3. Read(id).page_id = id
  BY <1>1, <1>2 DEF FreePageInv, Readable, Read
<1>4. \A k \in DOMAIN ram' : k \in DOMAIN diskPages /\ ram'[k] = diskPages[k]
  <2> HIDE DEF id
  <2>1. \A k \in {id} : Readable(k) /\ Read(k).page_id = k
    BY <1>1, <1>3
  <2> QED BY <1>1, <2>1, LoadedFile
<1>5. put'.caller # "init"
  BY DEF PutStart, NoPut
<1> HIDE DEF id
<1> QED BY <1>1, <1>2, <1>3, <1>4, <1>5, MemoryFile DEF States, Called, Dead

\* The pages of an item are read.
LEMMA ReadsFile ==
  ASSUME IndInv, FileInv, pc = "idle", NEW a, Reads(a), ram' = Loaded(ChainPages(diskPages, a)),
         UNCHANGED <<diskHeader, diskPages, header, freePage, put>>, pc' \in {"idle", "delete"}
  PROVE  FileInv'
PROOF
<1> DEFINE ids == ChainPages(diskPages, a)
<1>1. \A id \in ids : Readable(id) /\ Read(id).page_id = id
  BY DEF Reads
<1>2. put'.caller = "none"
  BY NoPutOK DEF IndInv, PutInv, Called
<1>3. freePage' = -1 \/ freePage' = header.current_free_page
  BY DEF FileInv, PointerInv
<1> HIDE DEF ids
<1>4. \A x \in DOMAIN ram' : x \in DOMAIN diskPages /\ ram'[x] = diskPages[x]
  BY <1>1, LoadedFile DEF ids
<1> QED BY <1>2, <1>3, <1>4, MemoryFile DEF States, Called, Dead

\* A page that the file has is changed and written at once.
LEMMA RewriteFile ==
  ASSUME IndInv, IndInv', FileInv, pc \in {"part", "delete"}, NEW id \in DOMAIN ram',
         NEW new, ram' = With(ram, id, new), id < header.page_count,
         WritePage(id, TRUE), pc' \in {"idle", "delete", "loop"},
         UNCHANGED <<diskHeader, header, freePage>>
  PROVE  FileInv'
PROOF
<1>1. /\ DiskOK(diskPages) /\ RamOK(ram') /\ id \in Nat /\ ram'[id].page_id = id
      /\ header = diskHeader /\ header.page_count \in Nat
      /\ \A x \in DOMAIN ram : x \in DOMAIN diskPages /\ diskPages[x] = ram[x]
      /\ FreePageInv /\ CountedInv /\ PointerInv /\ DOMAIN diskPages # {}
      /\ \A x \in DOMAIN diskPages : x \in Nat
  BY DEF IndInv, Types, Header, FileInv, WriteThrough, StartInv, Running, Dead, RamOK, DiskOK
<1>2. /\ DOMAIN diskPages \subseteq DOMAIN diskPages'
      /\ \A x \in DOMAIN diskPages' : x \in DOMAIN diskPages \cup 0 .. id
      /\ \A x \in DOMAIN diskPages : x # id => diskPages'[x] = diskPages[x]
      /\ id \in DOMAIN diskPages' /\ diskPages'[id] = ram'[id]
  BY <1>1, WrittenOK
<1>3. \A x \in DOMAIN ram' : x # id => x \in DOMAIN ram /\ ram'[x] = ram[x]
  BY DEF With
<1>4. WriteThrough'
  BY <1>1, <1>2, <1>3 DEF WriteThrough
<1>5. CountedInv'
  BY <1>1, <1>2 DEF CountedInv
<1>6. FreePageInv' /\ PointerInv'
  BY <1>1, <1>2 DEF FreePageInv, PointerInv
<1>7. StartInv' /\ LastPageInv'
  BY <1>1, <1>2 DEF StartInv, LastPageInv
<1> QED BY <1>4, <1>5, <1>6, <1>7 DEF FileInv

\* A part is added.
LEMMA AddPartFile ==
  ASSUME IndInv, IndInv', FileInv, AddPart
  PROVE  FileInv'
PROOF
<1> DEFINE id == put.cur
           new == AddItem(ram[id], [item |-> put.item, from |-> put.written], PartSize, put.cont)
<1>1. /\ pc = "part" /\ pc' = "loop" /\ ram' = With(ram, id, new) /\ WritePage(id, TRUE)
      /\ UNCHANGED <<diskHeader, header, freePage>>
      /\ id \in DOMAIN ram /\ id < header.page_count
  BY DEF AddPart, WritePart, IndInv, PutInv, MemInv, Running, Dead
<1> HIDE DEF id, new
<1>2. id \in DOMAIN ram'
  BY <1>1 DEF With
<1> QED BY <1>1, <1>2, RewriteFile

\* A part is deleted.
LEMMA DeletePartFile ==
  ASSUME IndInv, IndInv', FileInv, DeletePart
  PROVE  FileInv'
PROOF
<1> DEFINE id == target.page
           new == DeleteItem(Read(id), target.item)
<1>1. /\ pc = "delete" /\ pc' \in {"idle", "delete"}
      /\ ram' = With(ram, id, new) /\ WritePage(id, TRUE)
      /\ UNCHANGED <<diskHeader, header, freePage>>
      /\ id < header.page_count
  BY DEF DeletePart, DeleteSlot, Readable
<1> HIDE DEF id, new
<1>2. id \in DOMAIN ram'
  BY <1>1 DEF With
<1> QED BY <1>1, <1>2, RewriteFile

\* The memory is released.
LEMMA FreePagesFile ==
  ASSUME IndInv, FileInv, FreePages
  PROVE  FileInv'
PROOF
<1>1. put'.caller = "none" /\ DOMAIN ram' = {} /\ freePage' = -1
  BY NoPutOK, EmptyOK DEF FreePages, IndInv, PutInv, Called
<1> QED BY <1>1, MemoryFile DEF FreePages, disk, States, Called, Dead

--------------------------------------------------------------------------------
(***************************************************************************)
(* The invariant.                                                          *)
(***************************************************************************)
\* A new file has no pages.
LEMMA InitFileInv == Init => FileInv
  BY EmptyOK DEF Init, FileInv, FreePageInv, CountedInv, StartInv, PointerInv, LastPageInv,
     WriteThrough, Running, Dead

\* Every step preserves it, as long as no write fails.
LEMMA NextFileInv ==
  ASSUME MaxFaults = 0
  PROVE  IndInv /\ IndInv' /\ FileInv /\ [Next]_vars => FileInv'
PROOF
<1> SUFFICES ASSUME IndInv, IndInv', FileInv, [Next]_vars PROVE FileInv'
  OBVIOUS
<1>1. ASSUME NEW ok \in WriteOutcomes, AllocPage(ok) \/ WriteNewPage(ok) \/ SetFreePage(ok)
      PROVE  FileInv'
  <2>1. ok = TRUE
    BY NoFaults, Zenon
  <2>2. AllocPage(TRUE) \/ WriteNewPage(TRUE) \/ SetFreePage(TRUE)
    BY <1>1, <2>1, Zenon
  <2> QED BY <2>2, AllocPageFile, WriteNewPageFile, SetFreePageFile
<1>2. CASE PageFull \/ SplitItem \/ ItemFits \/ PutReturns
  <2>1. pc = "loop" /\ UNCHANGED <<diskHeader, diskPages, header, ram, freePage>>
    BY <1>2 DEF PageFull, SplitItem, ItemFits, PutReturns, disk, memory
  <2>2. pc' \in {"alloc", "part", "idle"} /\ (pc' = "alloc" => put'.caller # "init")
    <3>1. put \in PutType
      BY DEF IndInv, Types
    <3>2. CASE PageFull \/ SplitItem
      BY <3>1, <3>2 DEF PageFull, SplitItem, PutType
    <3>3. CASE ItemFits \/ PutReturns
      BY <3>3 DEF ItemFits, PutReturns
    <3> QED BY <1>2, <3>2, <3>3
  <2> QED BY <2>1, <2>2, LocalFile DEF Dead
<1>3. CASE AddPart
  BY <1>3, AddPartFile
<1>4. CASE DeletePart
  BY <1>4, DeletePartFile
<1>5. CASE WriteAborts \/ OpenFails
  BY <1>5, NoFaults, Zenon DEF WriteAborts, OpenFails
<1>6. CASE OpenWithoutPages
  BY <1>6, OpenWithoutPagesFile
<1>7. CASE OpenWithPages
  BY <1>7, OpenWithPagesFile
<1>8. CASE OpenAborts \/ Close \/ Crash \/ AddPartAborts
  BY <1>8, DieFile DEF OpenAborts, Close, Crash, AddPartAborts, FileInv, Dead, disk
<1>9. ASSUME NEW x \in Items, PutStart(x) \/ PutAborts(x)
      PROVE  FileInv'
  BY <1>9, PutStartFile, DieFile DEF PutAborts, FileInv, Dead, disk
<1>10. ASSUME NEW a \in DOMAIN Store, GetItem(a) \/ GetItemAborts(a) \/ DeleteStart(a)
       PROVE  FileInv'
  <2>1. CASE GetItem(a) \/ DeleteStart(a)
    BY <2>1, ReadsFile DEF GetItem, DeleteStart, disk
  <2>2. CASE GetItemAborts(a)
    BY <2>2, DieFile DEF GetItemAborts, FileInv, Dead, disk
  <2> QED BY <1>10, <2>1, <2>2
<1>11. CASE FreePages
  BY <1>11, FreePagesFile
<1>12. CASE UNCHANGED vars
  BY <1>12, Zenon DEF vars, disk, memory, FileInv, FreePageInv, CountedInv, StartInv, PointerInv,
     LastPageInv, WriteThrough, Running
<1> QED BY <1>1, <1>2, <1>3, <1>4, <1>5, <1>6, <1>7, <1>8, <1>9, <1>10, <1>11, <1>12,
           Zenon DEF Next, Steps, Calls

\* IndInv and FileInv are invariants of the heap file.
LEMMA FileInvariance ==
  ASSUME MaxFaults = 0
  PROVE  Spec => [](IndInv /\ FileInv)
PROOF
<1>1. IndInv /\ FileInv /\ [Next]_vars => (IndInv /\ FileInv)'
  BY NextIndInv, NextFileInv
<1>2. Init => IndInv /\ FileInv
  BY InitIndInv, InitFileInv
<1> QED BY <1>1, <1>2, PTL DEF Spec

(***************************************************************************)
(* No operation leaves a change in memory that the file does not have: a   *)
(* crash, or free_pages, between two operations loses nothing              *)
(* (PageManager!WriteThrough).                                             *)
(***************************************************************************)
THEOREM HeapFileWriteThrough ==
  ASSUME MaxFaults = 0
  PROVE  Spec => []WriteThrough
PROOF
<1>1. FileInv => WriteThrough
  BY DEF FileInv
<1> QED BY <1>1, FileInvariance, PTL

(***************************************************************************)
(* Once the first page is written, page_manager_init finds the current     *)
(* free page whenever the process died (PageManager!CanRestart).           *)
(***************************************************************************)
THEOREM HeapFileCanRestart ==
  ASSUME MaxFaults = 0
  PROVE  Spec => []CanRestart
PROOF
<1>1. ASSUME IndInv, FileInv PROVE CanRestart
  <2> SUFFICES ASSUME DOMAIN diskPages # {}
               PROVE  diskHeader.page_count > 0 /\ FreePageOnDisk
    BY DEF CanRestart
  <2> DEFINE free == diskHeader.current_free_page
  <2>1. free \in DOMAIN diskPages /\ free < diskHeader.page_count
    BY <1>1 DEF FileInv, FreePageInv, CountedInv
  <2>2. free \in Nat /\ diskHeader.page_count \in Nat
    BY <1>1, <2>1 DEF IndInv, DiskOK, Types, Header
  <2> QED BY <2>1, <2>2 DEF FreePageOnDisk
<1> QED BY <1>1, FileInvariance, PTL

(***************************************************************************)
(* The pointers that the program holds across calls of the memory          *)
(* management point at pages it still has (PageManager!PointersValid).     *)
(***************************************************************************)
THEOREM HeapFilePointersValid ==
  ASSUME MaxFaults = 0
  PROVE  Spec => []PointersValid
PROOF
<1>1. ASSUME IndInv, FileInv PROVE PointersValid
  BY <1>1 DEF IndInv, MemInv, PutInv, FileInv, PointerInv, PointersValid
<1> QED BY <1>1, FileInvariance, PTL

--------------------------------------------------------------------------------
(***************************************************************************)
(* No process dies between two writes either: the file has no holes.       *)
(***************************************************************************)
\* Every page counted is in the file but the one being written, and the free
\* page is the last one unless another is about to take its place.
NoHoles ==
  /\ DOMAIN diskPages = 0 .. diskHeader.page_count - (IF pc = "write_new" THEN 2 ELSE 1)
  /\ pc = "set_free" => put.free = diskHeader.page_count - 1
  /\ pc \notin {"write_new", "set_free"} /\ DOMAIN diskPages # {} =>
       diskHeader.current_free_page = diskHeader.page_count - 1

\* A page is counted, and one that is to be written is the last one.
LEMMA AllocPageNoHoles ==
  ASSUME IndInv, NoHoles, AllocPage(TRUE), diskHeader = header
  PROVE  NoHoles'
PROOF
<1>1. /\ header \in Header /\ header.page_count \in Nat /\ pc = "alloc" /\ pc' = "write_new"
      /\ header' = [header EXCEPT !.page_count = @ + 1] /\ WriteHeader(TRUE)
      /\ diskPages' = diskPages
  BY DEF IndInv, Types, Header, AllocPage, CountPage
<1>2. diskHeader'.page_count = diskHeader.page_count + 1
  BY <1>1 DEF WriteHeader, Header
<1> QED BY <1>1, <1>2 DEF NoHoles

\* It is written, and nothing is passed over.
LEMMA WriteNewPageNoHoles ==
  ASSUME IndInv, FileInv, NoHoles, WriteNewPage(TRUE)
  PROVE  NoHoles'
PROOF
<1> DEFINE id == put.free
<1>1. /\ RamOK(ram') /\ DiskOK(diskPages) /\ id \in DOMAIN ram' /\ id \in Nat
      /\ WritePage(id, TRUE) /\ diskHeader' = diskHeader /\ NewPageReturned(id)
      /\ diskHeader = header /\ id = diskHeader.page_count - 1 /\ diskHeader.page_count \in Nat
      /\ pc = "write_new" /\ put \in PutType
  BY DEF IndInv, Types, Header, FileInv, WriteThrough, LastPageInv, Running, Dead, WriteNewPage,
     PutInv, RamOK
<1> HIDE DEF id
<1>2. /\ DOMAIN diskPages \subseteq DOMAIN diskPages' /\ id \in DOMAIN diskPages'
      /\ \A x \in DOMAIN diskPages' : x \in DOMAIN diskPages \cup 0 .. id
  BY <1>1, WrittenOK
<1>3. DOMAIN diskPages = 0 .. id - 1
  BY <1>1 DEF NoHoles
<1>4. DOMAIN diskPages' = 0 .. id
  <2>1. \A x \in 0 .. id : x \in 0 .. id - 1 \/ x = id
    BY <1>1
  <2>2. \A x \in 0 .. id - 1 : x \in 0 .. id
    BY <1>1
  <2> QED BY <1>2, <1>3, <2>1, <2>2, Zenon
<1>5. CASE put.caller = "init"
  <2>1. header.current_free_page = 0 /\ header.page_count = 1
    BY <1>1, <1>5 DEF FileInv, StartInv, Running, Dead
  <2>2. pc' = "idle"
    BY <1>1, <1>5 DEF NewPageReturned
  <2> QED BY <1>1, <1>4, <2>1, <2>2 DEF NoHoles
<1>6. CASE put.caller # "init"
  <2>1. pc' = "set_free" /\ put'.free = id
    BY <1>1, <1>6 DEF NewPageReturned, PutType
  <2> QED BY <1>1, <1>4, <2>1 DEF NoHoles
<1> QED BY <1>5, <1>6

\* The page that was written becomes the free one.
LEMMA SetFreePageNoHoles ==
  ASSUME IndInv, FileInv, NoHoles, SetFreePage(TRUE)
  PROVE  NoHoles'
PROOF
<1>1. /\ header \in Header /\ diskHeader = header /\ pc = "set_free" /\ put.caller # "init"
      /\ header' = [header EXCEPT !.current_free_page = put.free] /\ WriteHeader(TRUE)
      /\ diskPages' = diskPages /\ PutGoesOn
      /\ put.caller \in {"get_page", "full", "split"}
  BY DEF IndInv, Types, PutType, PutInv, FileInv, WriteThrough, Running, Dead, SetFreePage
<1>2. /\ diskHeader'.page_count = diskHeader.page_count
      /\ diskHeader'.current_free_page = put.free
  BY <1>1 DEF WriteHeader, Header
<1>3. pc' \in {"loop", "part"}
  BY <1>1 DEF PutGoesOn
<1> QED BY <1>1, <1>2, <1>3 DEF NoHoles

\* A page of the file is written again.
LEMMA RewriteNoHoles ==
  ASSUME IndInv, IndInv', NoHoles, pc \in {"part", "delete"}, NEW id \in DOMAIN ram',
         WritePage(id, TRUE), id < diskHeader.page_count, diskHeader' = diskHeader,
         pc' \in {"idle", "delete", "loop"}
  PROVE  NoHoles'
PROOF
<1>1. DiskOK(diskPages) /\ RamOK(ram') /\ id \in Nat /\ diskHeader.page_count \in Nat
  BY DEF IndInv, Types, Header, RamOK
<1>2. /\ DOMAIN diskPages \subseteq DOMAIN diskPages'
      /\ \A x \in DOMAIN diskPages' : x \in DOMAIN diskPages \cup 0 .. id
  BY <1>1, WrittenOK
<1>3. DOMAIN diskPages = 0 .. diskHeader.page_count - 1
  BY DEF NoHoles
<1>4. \A x \in 0 .. id : x \in 0 .. diskHeader.page_count - 1
  BY <1>1
<1>5. DOMAIN diskPages' = DOMAIN diskPages
  BY <1>2, <1>3, <1>4, Zenon
<1>6. DOMAIN diskPages # {}
  BY <1>1, <1>3
<1> QED BY <1>5, <1>6 DEF NoHoles

\* Any other step leaves the file alone.
LEMMA FileAloneNoHoles ==
  ASSUME NoHoles, diskPages' = diskPages, diskHeader' = diskHeader,
         pc \notin {"write_new", "set_free"}, pc' \notin {"write_new", "set_free"}
  PROVE  NoHoles'
  BY DEF NoHoles

\* Every step preserves it, as long as no write fails and no process is killed.
LEMMA NextNoHoles ==
  ASSUME MaxFaults = 0, ~CanCrash
  PROVE  IndInv /\ IndInv' /\ FileInv /\ NoHoles /\ [Next]_vars => NoHoles'
PROOF
<1> SUFFICES ASSUME IndInv, IndInv', FileInv, NoHoles, [Next]_vars PROVE NoHoles'
  OBVIOUS
<1>1. ASSUME NEW ok \in WriteOutcomes, AllocPage(ok) \/ WriteNewPage(ok) \/ SetFreePage(ok)
      PROVE  NoHoles'
  <2>1. ok = TRUE
    BY NoFaults, Zenon
  <2>2. AllocPage(TRUE) \/ WriteNewPage(TRUE) \/ SetFreePage(TRUE)
    BY <1>1, <2>1, Zenon
  <2>3. AllocPage(TRUE) => diskHeader = header
    BY DEF AllocPage, CountPage, FileInv, WriteThrough, Running, Dead
  <2> QED BY <2>2, <2>3, AllocPageNoHoles, WriteNewPageNoHoles, SetFreePageNoHoles
<1>2. CASE AddPart
  <2> DEFINE id == put.cur
             new == AddItem(ram[id], [item |-> put.item, from |-> put.written], PartSize, put.cont)
  <2>1. /\ pc = "part" /\ pc' = "loop" /\ ram' = With(ram, id, new) /\ WritePage(id, TRUE)
        /\ diskHeader' = diskHeader /\ diskHeader = header
        /\ id \in DOMAIN ram /\ id < header.page_count
    BY <1>2 DEF AddPart, WritePart, IndInv, PutInv, MemInv, FileInv, WriteThrough, Running, Dead
  <2> HIDE DEF id, new
  <2>2. id \in DOMAIN ram'
    BY <2>1 DEF With
  <2> QED BY <2>1, <2>2, RewriteNoHoles
<1>3. CASE DeletePart
  <2> DEFINE id == target.page
             new == DeleteItem(Read(id), target.item)
  <2>1. /\ pc = "delete" /\ pc' \in {"idle", "delete"}
        /\ ram' = With(ram, id, new) /\ WritePage(id, TRUE)
        /\ diskHeader' = diskHeader /\ diskHeader = header
        /\ id < header.page_count
    BY <1>3 DEF DeletePart, DeleteSlot, Readable, FileInv, WriteThrough, Running, Dead
  <2> HIDE DEF id, new
  <2>2. id \in DOMAIN ram'
    BY <2>1 DEF With
  <2> QED BY <2>1, <2>2, RewriteNoHoles
<1>4. CASE PageFull \/ SplitItem \/ ItemFits \/ PutReturns \/ AddPartAborts
  BY <1>4, FileAloneNoHoles
     DEF PageFull, SplitItem, ItemFits, PutReturns, AddPartAborts, Die, disk
<1>5. CASE WriteAborts \/ OpenFails
  BY <1>5, NoFaults, Zenon DEF WriteAborts, OpenFails
<1>6. CASE OpenWithoutPages
  <2>1. /\ diskHeader.page_count = 0 /\ diskHeader' = EmptyFile /\ diskPages' = diskPages
        /\ pc' = "alloc" /\ pc \in Dead
    BY <1>6 DEF OpenWithoutPages, OpenIfNone, Running
  <2>2. DOMAIN diskPages = {}
    BY <2>1 DEF NoHoles, Dead
  <2> QED BY <2>1, <2>2 DEF NoHoles, Dead, EmptyFile
<1>7. CASE OpenWithPages \/ OpenAborts \/ Close
  BY <1>7, FileAloneNoHoles DEF OpenWithPages, OpenAborts, Close, Die, disk, Running, Dead
<1>8. ASSUME NEW x \in Items, PutStart(x) \/ PutAborts(x)
      PROVE  NoHoles'
  BY <1>8, FileAloneNoHoles DEF PutStart, PutAborts, Die, disk
<1>9. ASSUME NEW a \in DOMAIN Store, GetItem(a) \/ GetItemAborts(a) \/ DeleteStart(a)
      PROVE  NoHoles'
  BY <1>9, FileAloneNoHoles DEF GetItem, GetItemAborts, DeleteStart, Die, disk
<1>10. CASE FreePages
  BY <1>10, FileAloneNoHoles DEF FreePages, disk
<1>11. CASE Crash
  BY <1>11 DEF Crash
<1>12. CASE UNCHANGED vars
  BY <1>12, Zenon DEF vars, disk, memory, NoHoles
<1> QED BY <1>1, <1>2, <1>3, <1>4, <1>5, <1>6, <1>7, <1>8, <1>9, <1>10, <1>11, <1>12,
           Zenon DEF Next, Steps, Calls

(***************************************************************************)
(* While no process is killed and no write fails, the page new items go to *)
(* is the last one of the file, and every page the header counts is there  *)
(* (PageManager!FreePageIsLast).                                           *)
(***************************************************************************)
THEOREM HeapFileFreePageIsLast ==
  ASSUME MaxFaults = 0, ~CanCrash
  PROVE  Spec => []FreePageIsLast
PROOF
<1>1. Init => NoHoles
  BY EmptyOK DEF Init, NoHoles, NoHeader
<1>2. IndInv /\ IndInv' /\ FileInv /\ NoHoles /\ [Next]_vars => NoHoles'
  BY NextNoHoles
<1>3. ASSUME FileInv, NoHoles PROVE FreePageIsLast
  BY <1>3 DEF NoHoles, FileInv, StartInv, WriteThrough, Running, Dead, FreePageIsLast
<1> QED BY <1>1, <1>2, <1>3, FileInvariance, PTL DEF Spec

================================================================================
