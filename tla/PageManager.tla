------------------------------ MODULE PageManager ------------------------------
(***************************************************************************)
(* The heap file: a file header and an array of slotted pages on disk, the *)
(* pages the program holds in memory, and the operations of page_manager   *)
(* on them.  An item larger than the space left on a page is split: each   *)
(* part names the page its continuation is on, and the continuation is     *)
(* the first item of that page.                                            *)
(*                                                                         *)
(* Every write to the file is flushed at once (file_write), so a step here *)
(* is the code from one file write to the next.  The process may die, by   *)
(* an assertion, by ABORT_EXIT or from outside, between any two writes.    *)
(***************************************************************************)
EXTENDS SlottedPage

CONSTANTS
  Items,                \* payloads
  Size,                 \* Size[x]: the size of payload x in bytes
  ViaFreePage,          \* TRUE: callers put through page_manager_get_page_for_data;
                        \* FALSE: they hand put_item the current free page as it is
  CanCrash,             \* may the process be killed?
  MaxFaults,            \* bound: how many file writes may fail
  MaxPages              \* bound: no put starts that could need more pages

ASSUME ItemsAssumption == NullPage \notin Items
ASSUME SizeAssumption == Size \in [Items -> Nat \ {0}]
ASSUME SwitchAssumption == ViaFreePage \in BOOLEAN /\ CanCrash \in BOOLEAN
ASSUME BoundsAssumption == MaxFaults \in Nat /\ MaxPages \in Nat

VARIABLES
  diskHeader,           \* FileHeader.dynamic as the file has it
  diskPages,            \* the pages the file has, by their position
  header,               \* file_manager->header.dynamic
  ram,                  \* allocated_pages, by page id
  freePage,             \* current_free_page: the page it points at, NullPage for NULL
  pc,                   \* where the program is
  put,                  \* the locals of the put in progress
  target,               \* the part of an item the delete in progress is at
  faults                \* how many writes have failed so far

disk   == <<diskHeader, diskPages>>
memory == <<header, ram, freePage>>
vars   == <<disk, memory, pc, put, target, faults>>

MinimumDataPart == 8    \* MINIMUM_DATA_PART_SIZE_BYTES

\* A file of less than a header's size: new, or left empty by a crash.
NoHeader == [page_count |-> 0, current_free_page |-> NullPage]

NoPages == [id \in {} |-> NullPage]

\* What the file has where a page was passed over: zeros, whose page_id is 0.
ZeroPage ==
  [ page_id |-> 0, next_item_id |-> 0, items_count |-> 0,
    free_start |-> 0, free_end |-> 0, slots |-> [i \in {} |-> NullPage] ]

Address(p, i) == [page |-> p, item |-> i]

NoAddress == Address(NullPage, 0)

NoPut ==
  [ item |-> NullPage, caller |-> "none", page |-> NullPage, cur |-> NullPage,
    free |-> NullPage, cont |-> NullPage, written |-> 0, result |-> NoAddress ]

Dead    == {"closed", "aborted"}
Running == pc \notin Dead

Init ==
  /\ diskHeader = NoHeader /\ diskPages = NoPages
  /\ header = NoHeader /\ ram = NoPages /\ freePage = NullPage
  /\ pc = "closed"
  /\ put = NoPut /\ target = NoAddress
  /\ faults = 0

--------------------------------------------------------------------------------
(***************************************************************************)
(* Memory and file.                                                        *)
(***************************************************************************)
With(f, k, v) == [x \in DOMAIN f \cup {k} |-> IF x = k THEN v ELSE f[x]]

\* page_manager_read_page finds the page, in memory or in the file, or it fails.
Readable(id) == id < header.page_count /\ id \in DOMAIN ram \cup DOMAIN diskPages

\* The page it returns.
Read(id) == IF id \in DOMAIN ram THEN ram[id] ELSE diskPages[id]

(***************************************************************************)
(* allocated_pages once the pages of ids have been read.  Pages are found  *)
(* there by the page_id in their header, and the last one read is found    *)
(* first: a page of zeros passes for page 0.                               *)
(***************************************************************************)
Loaded(ids) ==
  LET found == {Read(id) : id \in ids}
  IN [ id \in DOMAIN ram \cup {p.page_id : p \in found} |->
         IF \E p \in found : p.page_id = id
           THEN CHOOSE p \in found : p.page_id = id ELSE ram[id] ]

\* A file write succeeds, or fails and changes nothing.
Outcomes == IF faults < MaxFaults THEN BOOLEAN ELSE {TRUE}

Count(ok) == faults' = IF ok THEN faults ELSE faults + 1

WriteHeader(ok) ==
  /\ diskHeader' = IF ok THEN header' ELSE diskHeader
  /\ Count(ok)

\* Writing beyond the end of the file leaves zeros in between.
Extended(id) ==
  [ x \in DOMAIN diskPages \cup 0 .. id |->
      IF x \in DOMAIN diskPages THEN diskPages[x] ELSE ZeroPage ]

WritePage(id, ok) ==
  /\ diskPages' = IF ok THEN [Extended(id) EXCEPT ![id] = ram'[id]] ELSE diskPages
  /\ Count(ok)

\* Memory is lost with the process.
Die(how) ==
  /\ pc' = how
  /\ header' = NoHeader /\ ram' = NoPages /\ freePage' = NullPage
  /\ put' = NoPut /\ target' = NoAddress

--------------------------------------------------------------------------------
(***************************************************************************)
(* The items of the file.  A slot holds a part of a payload: data says of  *)
(* which payload and from which byte on.                                   *)
(***************************************************************************)
Slots(pages) ==
  { a \in UNION { {Address(p, i) : i \in 0 .. pages[p].next_item_id - 1} :
                  p \in DOMAIN pages } :
    HasItem(pages[a.page], a.item) }

Part(pages, a) == pages[a.page].slots[a.item]

\* The next part, where the code looks for it: slot 0 of the page it continues on.
NextPart(pages, a) == Address(Part(pages, a).continues_on_page, 0)

EndsItem(part) ==
  /\ part.continues_on_page = NullPage
  /\ part.data.from + part.size = Size[part.data.item]

Continues(part, next) ==
  /\ next.data.item = part.data.item
  /\ next.data.from = part.data.from + part.size

\* The slots from which page_manager_get_item reads the rest of one payload, part by part.
Whole(pages) ==
  LET live == Slots(pages)
      whole[a \in live] ==
        LET next == NextPart(pages, a)
        IN \/ EndsItem(Part(pages, a))
           \/ next \in live /\ Continues(Part(pages, a), Part(pages, next)) /\ whole[next]
  IN {a \in live : whole[a]}

\* The items that read back in full, each at the address of its head.
Store ==
  LET whole == Whole(diskPages)
      heads == {a \in Slots(diskPages) : a \in whole /\ Part(diskPages, a).data.from = 0}
  IN [a \in heads |-> Part(diskPages, a).data.item]

\* The slots page_manager_get_item reads for the item at a, whatever is there.
Chain(pages, a) ==
  LET live == Slots(pages)
      reach[n \in 0 .. Cardinality(live)] ==
        IF n = 0 THEN {a}
        ELSE LET nearer == reach[n - 1]
             IN nearer \cup {NextPart(pages, b) :
                  b \in {c \in nearer \cap live : Part(pages, c).continues_on_page # NullPage}}
  IN reach[Cardinality(live)]

ChainPages(pages, a) == {b.page : b \in Chain(pages, a)}

--------------------------------------------------------------------------------
(***************************************************************************)
(* page_manager_init, page_manager_destroy.                                *)
(***************************************************************************)
EmptyFile == [page_count |-> 0, current_free_page |-> 0]

OpenIfNone(none) ==
  /\ ~Running /\ none
  /\ header' = EmptyFile
  /\ diskHeader' = header'
  /\ pc' = "alloc" /\ put' = [NoPut EXCEPT !.caller = "init"]
  /\ UNCHANGED <<diskPages, ram, freePage, target, faults>>

OpenOnePageAnew ==                         \* fault: a file of one page counts as empty
  OpenIfNone(diskHeader.page_count <= 1)

\* A new file, or one whose first page was never counted: the header is written
\* if there was none, and a first page is allocated.
OpenWithoutPages == OpenIfNone(diskHeader.page_count = 0)

\* Without a header file_manager_init returns the error of writing one.
OpenFails ==
  /\ ~Running /\ diskHeader = NoHeader
  /\ FALSE \in Outcomes /\ Count(FALSE)
  /\ Die("closed")
  /\ UNCHANGED disk

FreePageOnDisk ==
  /\ diskHeader.current_free_page < diskHeader.page_count
  /\ diskHeader.current_free_page \in DOMAIN diskPages

OpenWithPages ==
  /\ ~Running /\ diskHeader.page_count > 0
  /\ FreePageOnDisk
  /\ LET page == diskPages[diskHeader.current_free_page]
     IN /\ ram' = With(NoPages, page.page_id, page)
        /\ freePage' = page.page_id
  /\ header' = diskHeader
  /\ pc' = "idle"
  /\ UNCHANGED <<disk, put, target, faults>>

\* read_page exits, or fails and leaves the assertion current_free_page != NULL to fail.
OpenAborts ==
  /\ ~Running /\ diskHeader.page_count > 0
  /\ ~FreePageOnDisk
  /\ Die("aborted")
  /\ UNCHANGED <<disk, faults>>

Close ==
  /\ pc = "idle"
  /\ Die("closed")
  /\ UNCHANGED <<disk, faults>>

Crash ==
  /\ CanCrash /\ Running
  /\ Die("closed")
  /\ UNCHANGED <<disk, faults>>

--------------------------------------------------------------------------------
(***************************************************************************)
(* page_manager_page_new and page_manager_set_current_free_page, for the   *)
(* caller named in put.caller: page_manager_init, page_manager_get_page_-  *)
(* for_data ("get_page"), or put_item when the page is full or the item    *)
(* must be split.  Two of them ignore an error, the others exit.           *)
(***************************************************************************)
IgnoresErrors == put.caller \in {"init", "get_page"}

WriteOutcomes == IF IgnoresErrors THEN Outcomes ELSE {TRUE}

NewPageNotAnnounced(id) ==                 \* fault: a split does not set the free page
  /\ freePage' = IF put.caller = "init" THEN id ELSE freePage
  /\ CASE put.caller = "init"  -> pc' = "idle" /\ put' = NoPut
       [] put.caller = "split" -> pc' = "part" /\ put' = [put EXCEPT !.free = id, !.cont = id]
       [] OTHER                -> pc' = "set_free" /\ put' = [put EXCEPT !.free = id]

NewPageReturned(id) ==
  IF put.caller = "init"
    THEN /\ freePage' = id
         /\ pc' = "idle" /\ put' = NoPut
    ELSE /\ pc' = "set_free" /\ put' = [put EXCEPT !.free = id]
         /\ UNCHANGED freePage

CountPage(h, ok) ==
  LET id == header.page_count
  IN /\ pc = "alloc"
     /\ ram' = With(ram, id, PageNew(id))
     /\ header' = [h EXCEPT !.page_count = @ + 1]
     /\ WriteHeader(ok)
     /\ IF ok THEN /\ pc' = "write_new" /\ put' = [put EXCEPT !.free = id]
                   /\ UNCHANGED freePage
              ELSE NewPageReturned(id)
     /\ UNCHANGED <<diskPages, target>>

AllocFreePage(ok) ==                       \* fault: free before it is in the file
  CountPage([header EXCEPT !.current_free_page = header.page_count], ok)

AllocPage(ok) == CountPage(header, ok)

WriteNewPage(ok) ==
  /\ pc = "write_new"
  /\ UNCHANGED <<diskHeader, header, ram, target>>
  /\ WritePage(put.free, ok)
  /\ NewPageReturned(put.free)

PutGoesOn ==
  CASE put.caller = "get_page" ->
         /\ pc' = "loop"
         /\ put' = [put EXCEPT !.page = put.free, !.cur = put.free, !.free = NullPage]
    [] put.caller = "full" ->
         /\ pc' = "part" /\ put' = [put EXCEPT !.cur = put.free]
    [] put.caller = "split" ->
         /\ pc' = "part" /\ put' = [put EXCEPT !.cont = put.free]

SetFreePageInMemory(ok) ==                 \* fault: the header is not written
  /\ pc = "set_free"
  /\ header' = [header EXCEPT !.current_free_page = put.free]
  /\ freePage' = put.free
  /\ PutGoesOn
  /\ UNCHANGED <<disk, ram, target, faults>>

SetFreePage(ok) ==
  /\ pc = "set_free"
  /\ header' = [header EXCEPT !.current_free_page = put.free]
  /\ freePage' = put.free
  /\ WriteHeader(ok)
  /\ PutGoesOn
  /\ UNCHANGED <<diskPages, ram, target>>

--------------------------------------------------------------------------------
(***************************************************************************)
(* page_manager_put_item, from page_manager_get_page_for_data on.          *)
(***************************************************************************)
PageCapacity == PageSize - HeaderSize - MetaSize

PagesAtMost(x) == (Size[x] + PageCapacity - 1) \div PageCapacity

RoomFor(x) == header.page_count + PagesAtMost(x) <= MaxPages    \* bound

\* page_manager_get_current_free_page reads the page when no pointer to it is held.
FreePageId == IF freePage = NullPage THEN header.current_free_page ELSE freePage

PutStart(x) ==
  /\ pc = "idle" /\ RoomFor(x)
  /\ Readable(FreePageId)
  /\ LET page == Read(FreePageId)
     IN /\ freePage' = page.page_id
        /\ IF ViaFreePage /\ PayloadAvailableSpace(page) < MinimumDataPart
             THEN /\ pc' = "alloc"
                  /\ put' = [NoPut EXCEPT !.item = x, !.caller = "get_page"]
             ELSE /\ pc' = "loop"
                  /\ put' = [NoPut EXCEPT !.item = x, !.page = page.page_id,
                                          !.cur = page.page_id]
  /\ ram' = Loaded({FreePageId})
  /\ UNCHANGED <<disk, header, target, faults>>

PutAborts(x) ==
  /\ pc = "idle" /\ RoomFor(x)
  /\ ~Readable(FreePageId)
  /\ Die("aborted")
  /\ UNCHANGED <<disk, faults>>

Left == Size[put.item] - put.written        \* what is left to write

PageFullStays ==                           \* fault: tries the same page again
  /\ pc = "loop" /\ Left > 0
  /\ ~CanFitAnyPayload(ram[put.cur])
  /\ UNCHANGED vars

\* The three ways an iteration of put_item's loop begins.
PageFull ==
  /\ pc = "loop" /\ Left > 0
  /\ ~CanFitAnyPayload(ram[put.cur])
  /\ pc' = "alloc" /\ put' = [put EXCEPT !.caller = "full"]
  /\ UNCHANGED <<disk, memory, target, faults>>

SplitItemStays ==                          \* fault: tries the same page again
  /\ pc = "loop" /\ Left > 0
  /\ CanFitAnyPayload(ram[put.cur]) /\ ~CanFitPayload(ram[put.cur], Left)
  /\ UNCHANGED vars

SplitItem ==
  /\ pc = "loop" /\ Left > 0
  /\ CanFitAnyPayload(ram[put.cur]) /\ ~CanFitPayload(ram[put.cur], Left)
  /\ pc' = "alloc" /\ put' = [put EXCEPT !.caller = "split"]
  /\ UNCHANGED <<disk, memory, target, faults>>

ItemFits ==
  /\ pc = "loop" /\ Left > 0
  /\ CanFitPayload(ram[put.cur], Left)
  /\ pc' = "part"
  /\ UNCHANGED <<disk, memory, put, target, faults>>

\* page_manager_add_part_of_item, and the end of the iteration.
PartSize ==
  IF put.cont = NullPage THEN Left
  ELSE LET space == PayloadAvailableSpace(ram[put.cur])
       IN IF space < Left THEN space ELSE Left

WritePart(isFirst, ok) ==
  LET page == ram[put.cur]
      data == [item |-> put.item, from |-> put.written]
  IN /\ pc = "part"
     /\ CanFitPayload(page, PartSize)
     /\ ram' = With(ram, put.cur, AddItem(page, data, PartSize, put.cont))
     /\ WritePage(put.cur, ok)
     /\ put' = [put EXCEPT !.written = @ + PartSize, !.cur = put.free,
                           !.free = NullPage, !.cont = NullPage,
                           !.result = IF isFirst THEN Address(put.cur, page.next_item_id)
                                                 ELSE @]
     /\ pc' = "loop"
     /\ UNCHANGED <<diskHeader, header, freePage, target>>

AddPartSavesLast == WritePart(TRUE, TRUE)  \* fault: the address of the last part

AddPartUnwritten ==                        \* fault: goes on after a failed write
  \E ok \in Outcomes : WritePart(put.page = put.cur, ok)

AddPart == WritePart(put.page = put.cur, TRUE)

\* An item that found its page full is put on the next one in one piece, or not at all.
AddPartAborts ==
  /\ pc = "part"
  /\ ~CanFitPayload(ram[put.cur], PartSize)
  /\ Die("aborted")
  /\ UNCHANGED <<disk, faults>>

PutReturns ==
  /\ pc = "loop" /\ Left = 0
  /\ pc' = "idle" /\ put' = NoPut
  /\ UNCHANGED <<disk, memory, target, faults>>

--------------------------------------------------------------------------------
(***************************************************************************)
(* page_manager_get_item, page_manager_delete_item, and the release of the *)
(* pages in memory that the users of both call between operations.         *)
(***************************************************************************)
\* read_page finds every page of the item, and the page it finds is that page.
Reads(a) ==
  \A id \in ChainPages(diskPages, a) :
    Readable(id) /\ Read(id) = diskPages[id] /\ Read(id).page_id = id

GetItem(a) ==
  /\ pc = "idle"
  /\ Reads(a)
  /\ ram' = Loaded(ChainPages(diskPages, a))
  /\ UNCHANGED <<disk, header, freePage, pc, put, target, faults>>

\* read_page exits, or page_get_item does not find the slot and the caller exits.
GetItemAborts(a) ==
  /\ pc = "idle"
  /\ ~Reads(a)
  /\ Die("aborted")
  /\ UNCHANGED <<disk, faults>>

\* The caller has read the item it deletes.
DeleteStart(a) ==
  /\ pc = "idle"
  /\ Reads(a)
  /\ ram' = Loaded(ChainPages(diskPages, a))
  /\ pc' = "delete" /\ target' = a
  /\ UNCHANGED <<disk, header, freePage, put, faults>>

\* DeleteFindsItem: read_page does not exit, nor do the assertions of page_delete_item.
DeleteSlot(i, next) ==
  LET page == Read(target.page)
  IN /\ pc = "delete"
     /\ Readable(target.page) /\ HasItem(page, i)
     /\ ram' = With(ram, target.page, DeleteItem(page, i))
     /\ WritePage(target.page, TRUE)
     /\ IF next.page = NullPage THEN pc' = "idle" /\ target' = NoAddress
                                ELSE pc' = pc /\ target' = next
     /\ UNCHANGED <<diskHeader, header, freePage, put>>

\* The continuation is read from the slot that has just been deleted:
\* "continuation of item should always be the first item in page".
NextTarget(i) == Address(ContinuationLeft(Read(target.page), target.item), i)

DeleteSameSlot  == DeleteSlot(target.item, NextTarget(target.item))     \* fault
DeleteHeadOnly  == DeleteSlot(target.item, Address(NullPage, 0))        \* fault
DeleteFirstSlot == DeleteSlot(0, NextTarget(0))                         \* fault

DeletePart == DeleteSlot(target.item, NextTarget(0))

FreePagesKeepsPointer ==                   \* fault: current_free_page is left dangling
  /\ pc = "idle"
  /\ ram' = NoPages
  /\ UNCHANGED <<disk, header, freePage, pc, put, target, faults>>

FreePages ==
  /\ pc = "idle"
  /\ ram' = NoPages /\ freePage' = NullPage
  /\ UNCHANGED <<disk, header, pc, put, target, faults>>

\* A write fails where the caller exits on the error.
WriteAborts ==
  /\ FALSE \in Outcomes
  /\ \/ pc \in {"alloc", "write_new", "set_free"} /\ ~IgnoresErrors
     \/ pc \in {"part", "delete"}
  /\ Die("aborted")
  /\ Count(FALSE)
  /\ UNCHANGED disk

--------------------------------------------------------------------------------
Steps ==
  \/ \E ok \in WriteOutcomes : AllocPage(ok) \/ WriteNewPage(ok) \/ SetFreePage(ok)
  \/ PageFull \/ SplitItem \/ ItemFits
  \/ AddPart \/ AddPartAborts \/ PutReturns
  \/ DeletePart
  \/ WriteAborts

Calls ==
  \/ OpenWithoutPages \/ OpenFails \/ OpenWithPages \/ OpenAborts \/ Close
  \/ \E x \in Items : PutStart(x) \/ PutAborts(x)
  \/ \E a \in DOMAIN Store : GetItem(a) \/ GetItemAborts(a) \/ DeleteStart(a)
  \/ FreePages

Next == Steps \/ Calls \/ Crash

Spec == Init /\ [][Next]_vars

\* The program is one thread: an operation once called runs to its end.
FairSpec == Spec /\ WF_vars(Steps)

--------------------------------------------------------------------------------
Header == [page_count : Nat, current_free_page : Nat \cup {NullPage}]

PartData == [item : Items, from : Nat]

Called == {"alloc", "write_new", "set_free", "loop", "part", "delete"}

States == Dead \cup {"idle"} \cup Called

(***************************************************************************)
(* The types of the file, of the memory and of the locals.                 *)
(***************************************************************************)
TypeOK ==
  /\ diskHeader \in Header /\ header \in Header
  /\ DOMAIN diskPages \subseteq Nat /\ DOMAIN ram \subseteq Nat
  /\ \A id \in DOMAIN diskPages : PageType(diskPages[id], PartData)
  /\ \A id \in DOMAIN ram : PageType(ram[id], PartData) /\ ram[id].page_id = id
  /\ freePage \in Nat \cup {NullPage}
  /\ pc \in States
  /\ put \in [ item : Items \cup {NullPage},
              caller : {"none", "init", "get_page", "full", "split"},
              page : Nat \cup {NullPage}, cur : Nat \cup {NullPage},
              free : Nat \cup {NullPage}, cont : Nat \cup {NullPage},
              written : Nat, result : [page : Nat \cup {NullPage}, item : Nat] ]
  /\ target \in [page : Nat \cup {NullPage}, item : Nat]
  /\ faults \in 0 .. MaxFaults

(***************************************************************************)
(* Every page, in memory and in the file, keeps the layout of page.c and   *)
(* counts its live items, through splits, parts, deletes, failed writes    *)
(* and crashes; a page of the file that was never written is all zeros.    *)
(***************************************************************************)
PagesWellFormed ==
  /\ \A id \in DOMAIN ram : ram[id] = ZeroPage \/ WellFormed(ram[id], PartData)
  /\ \A id \in DOMAIN diskPages :
       \/ diskPages[id] = ZeroPage
       \/ WellFormed(diskPages[id], PartData) /\ diskPages[id].page_id = id

(***************************************************************************)
(* The pages in memory and the header in memory are those of the file: no  *)
(* operation leaves a change behind that a later free_pages, or a restart, *)
(* would drop.  The page page_new has not written yet is the one exception.*)
(***************************************************************************)
WriteThrough ==
  Running =>
    /\ header = diskHeader
    /\ \A id \in DOMAIN ram :
         \/ pc = "write_new" /\ id = put.free
         \/ id \in DOMAIN diskPages /\ diskPages[id] = ram[id]

(***************************************************************************)
(* The pointers the program holds across calls point at pages that are     *)
(* still allocated: free_pages is called while current_free_page is held   *)
(* (page_manager_free_pages), put_item goes on with its own pages while    *)
(* others are allocated.                                                   *)
(***************************************************************************)
PointersValid ==
  /\ freePage # NullPage =>
       freePage \in DOMAIN ram /\ freePage = header.current_free_page
  /\ pc \in {"loop", "part"} /\ Left > 0 => put.cur \in DOMAIN ram
  /\ pc = "part" /\ put.cont # NullPage => put.cont \in DOMAIN ram

(***************************************************************************)
(* page_manager_delete_item reads every part of the item: its page exists, *)
(* and the assertions of page_delete_item hold there: the slot is below    *)
(* next_item_id, it is not deleted, and the page counts it.                *)
(***************************************************************************)
DeleteFindsItem ==
  pc = "delete" =>
    /\ Readable(target.page)
    /\ HasItem(Read(target.page), target.item)
    /\ Read(target.page).items_count > 0

(***************************************************************************)
(* Between operations every live slot of the file belongs to exactly one   *)
(* item that reads back in full: it is a head, or slot 0 of the page that  *)
(* one other live slot continues on ("continuation of item should always   *)
(* be the first item in page", item_management.c:115).  No part is leaked, *)
(* shared or dangling.                                                     *)
(***************************************************************************)
PartsMakeItems ==
  pc = "idle" =>
    LET live  == Slots(diskPages)
        whole == Whole(diskPages)
    IN \A a \in live :
         /\ a \in whole
         /\ Cardinality({b \in live : NextPart(diskPages, b) = a}) =
              IF Part(diskPages, a).data.from = 0 THEN 0 ELSE 1

(***************************************************************************)
(* put_item returns the address of the head of the item it has put, and    *)
(* the item can be read back from there when it returns.                   *)
(***************************************************************************)
PutReturnsItem ==
  pc = "loop" /\ Left = 0 =>
    put.result \in DOMAIN Store /\ Store[put.result] = put.item

(***************************************************************************)
(* While no process dies in the middle, the page new items go to is the    *)
(* last one of the file, and every page the header counts is there.        *)
(***************************************************************************)
FreePageIsLast ==
  pc = "idle" =>
    /\ DOMAIN diskPages = 0 .. header.page_count - 1
    /\ header.current_free_page = header.page_count - 1

(***************************************************************************)
(* Once the first page has been written, the program can be started again  *)
(* at any time: the page the header names as the current free page is in   *)
(* the file (page_manager_init, page_manager_get_current_free_page).       *)
(***************************************************************************)
CanRestart == DOMAIN diskPages # {} => diskHeader.page_count > 0 /\ FreePageOnDisk

(***************************************************************************)
(* The file implements the store it promises, through splits, partial      *)
(* deletes, failed writes and crashes: the item a put was given appears    *)
(* when its last part is written, the item a delete was given disappears   *)
(* when the deletion of its first part is written, and no other step adds, *)
(* loses, moves or changes an item.                                        *)
(***************************************************************************)
MaxItemId == (PageSize - HeaderSize) \div (MetaSize + 1)

Addresses == [page : 0 .. MaxPages - 1, item : 0 .. MaxItemId]

Call ==
  CASE put.item # NullPage /\ Left > 0 -> [op |-> "put", item |-> put.item]
    [] pc = "delete" /\ Part(diskPages, target).data.from = 0 ->
         [op |-> "delete", at |-> target]
    [] OTHER -> [op |-> "none"]

Promise == INSTANCE ItemStore WITH store <- Store, call <- Call

ItemsKept == Promise!Spec

(***************************************************************************)
(* Every operation that is called ends, in the caller's hands or with the  *)
(* process: no put or delete goes round its loop for ever.                 *)
(***************************************************************************)
OperationsEnd == pc \in Called ~> pc \notin Called

(***************************************************************************)
(* Every step of an operation, a new page that has to be allocated first   *)
(* included, brings it nearer to its end: StepsLeft only falls until it    *)
(* returns or dies.  put_item and delete_item have no other reason to stop *)
(* (their loops count bytes and follow continues_on_page).                 *)
(***************************************************************************)
Phase ==
  LET pages == IF put.caller \in {"full", "split"} THEN 0 ELSE 4
  IN CASE pc = "alloc"     -> pages + 3
       [] pc = "write_new" -> pages + 2
       [] pc = "set_free"  -> pages + 1
       [] pc = "loop"      -> 4
       [] OTHER            -> 0

BytesToPut == IF put.item = NullPage THEN 0 ELSE Left

BytesAfter(a) == Size[Part(diskPages, a).data.item] - Part(diskPages, a).data.from

StepsLeft == IF pc = "delete" THEN BytesAfter(target) ELSE 8 * BytesToPut + Phase

OperationsAdvance ==
  [][{pc, pc'} \subseteq Called => StepsLeft' \in Nat /\ StepsLeft' < StepsLeft]_vars

(***************************************************************************)
(* Without crashes and failed writes every operation of a caller that uses *)
(* page_manager_get_page_for_data returns.                                 *)
(***************************************************************************)
OperationsReturn == pc \in Called ~> pc = "idle"

--------------------------------------------------------------------------------
(***************************************************************************)
(* What a comment of the repository says and the code does not do.         *)
(*                                                                         *)
(* page_manager_init finds the current free page again whenever the        *)
(* program is started: "Page should exist in memory or on disk"            *)
(* (page_manager_internal.c:53), and the file has none or the free one.    *)
(***************************************************************************)
FreePageExists == ~Running => diskHeader.page_count = 0 \/ FreePageOnDisk
================================================================================
