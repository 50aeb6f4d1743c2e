------------------------------ MODULE ItemIterator ------------------------------
(***************************************************************************)
(* The item iterator of page_manager_iter.c over the heap file: it goes    *)
(* through the pages in the order of the file and through the slots of     *)
(* each page, and hands out every item it finds, read in full.  It has one *)
(* page in memory at a time: the pages read before are freed when it moves *)
(* on, and all of them when it is destroyed.                               *)
(*                                                                         *)
(* A step is one call of page_iterator_next or of item_iterator_next.      *)
(* Only memory changes, except when the user deletes the item it is at.    *)
(***************************************************************************)
EXTENDS PageManager, Sequences

\* Payloads with bytes that read as the id of the page they are on.
CONSTANT Unlucky

ASSUME UnluckyAssumption == Unlucky \subseteq Items

\* No write of the file fails here, so that what read_page finds in memory is
\* what the file has; module PageManager has the writes that fail.
ASSUME NoFaultAssumption == MaxFaults = 0

VARIABLE it             \* the ItemIterator, its PageIterator and its payloads

itVars == <<vars, it>>

NoIterator ==
  [ page |-> NullPage, next |-> 0, index |-> -1, moving |-> FALSE, payloads |-> <<>> ]

NewOnGivenItem(id) ==                      \* fault: the item the user lent is in the list
  [NoIterator EXCEPT !.page = id, !.next = 1, !.payloads = <<NoAddress>>]

\* item_iterator_new.  Of the list of payloads the model keeps where each is from.
NewOn(id) == [NoIterator EXCEPT !.page = id, !.next = 1]

Iterating == it # NoIterator

CurrentPage == ram[it.page]

\* The first test of item_iterator_has_next.
ItemHere == ~it.moving /\ it.index + 1 < CurrentPage.next_item_id

\* page_iterator_has_next.
MorePages == it.next < header.page_count

\* item_iterator_has_next is false.
Exhausted == pc = "idle" /\ Iterating /\ ~ItemHere /\ ~MorePages

ItInit == Init /\ it = NoIterator

--------------------------------------------------------------------------------
(***************************************************************************)
(* page_manager_get_items.  Every file that is open has a page 0.          *)
(***************************************************************************)
NewIterator ==
  /\ pc = "idle" /\ ~Iterating
  /\ Readable(0)
  /\ ram' = Loaded({0})
  /\ it' = NewOn(Read(0).page_id)
  /\ UNCHANGED <<disk, header, freePage, pc, put, target, faults>>

(***************************************************************************)
(* item_iterator_has_next, from one page to the next.  get_metadata finds  *)
(* on the new page the bytes that are where the slot of the last item was  *)
(* on an earlier one: a slot, free space or the data of an item.           *)
(***************************************************************************)
IdField(i) == MetadataOffset(i) + 17 .. MetadataOffset(i) + 20     \* continues_on_page

ReadsOwnId(p) ==
  IF it.index < p.next_item_id
    THEN Continuation(p, it.index) = p.page_id
    ELSE \E i \in 0 .. p.next_item_id - 1 :
           LET slot == p.slots[i]
           IN /\ slot.data.item \in Unlucky
              /\ IdField(it.index) \subseteq
                   slot.data_offset .. slot.data_offset + slot.size - 1

PassesOverSingleItems(p) == p.items_count <= 1       \* fault: any single item is passed over

PassesOver(p) == p.items_count = 0 \/ (p.items_count = 1 /\ ReadsOwnId(p))

Arrive(p, passes) ==
  it' = [it EXCEPT !.page = p.page_id, !.next = @ + 1,
                   !.moving = passes, !.index = IF passes THEN @ ELSE -1]

MovesOn == pc = "idle" /\ Iterating /\ ~ItemHere /\ MorePages

MoveTo(p, passes) ==
  /\ ram' = With(NoPages, p.page_id, p) /\ freePage' = NullPage
  /\ Arrive(p, passes)
  /\ UNCHANGED <<disk, header, pc, put, target, faults>>

\* page_iterator_next reads the page and the slot index is not -1.
CanMove == it.next \in DOMAIN diskPages /\ it.index >= 0

NextPageFreesLast ==                       \* fault: free_pages after read_page
  /\ MovesOn /\ CanMove
  /\ ram' = NoPages /\ freePage' = NullPage
  /\ Arrive(diskPages[it.next], PassesOver(diskPages[it.next]))
  /\ UNCHANGED <<disk, header, pc, put, target, faults>>

NextPage ==
  /\ MovesOn /\ CanMove
  /\ MoveTo(diskPages[it.next], PassesOver(diskPages[it.next]))

\* The page cannot be read, or get_metadata asserts an index that is not negative.
NextPageAborts ==
  /\ MovesOn /\ ~CanMove
  /\ Die("aborted") /\ it' = NoIterator
  /\ UNCHANGED <<disk, faults>>

--------------------------------------------------------------------------------
(***************************************************************************)
(* item_iterator_next, which reads the item in full and keeps its payload. *)
(***************************************************************************)
NextItem == Address(it.page, it.index + 1)

CanGet == Reads(NextItem) /\ Chain(diskPages, NextItem) \subseteq Slots(diskPages)

GetNextKeepsIndex ==                       \* fault: the index is not moved
  /\ pc = "idle" /\ Iterating /\ ItemHere
  /\ CanGet
  /\ ram' = Loaded(ChainPages(diskPages, NextItem))
  /\ it' = [it EXCEPT !.payloads = Append(@, NextItem)]
  /\ UNCHANGED <<disk, header, freePage, pc, put, target, faults>>

GetNext ==
  /\ pc = "idle" /\ Iterating /\ ItemHere
  /\ CanGet
  /\ ram' = Loaded(ChainPages(diskPages, NextItem))
  /\ it' = [it EXCEPT !.index = @ + 1, !.payloads = Append(@, NextItem)]
  /\ UNCHANGED <<disk, header, freePage, pc, put, target, faults>>

\* page_get_item asserts that the slot is in use and not deleted.
GetNextAborts ==
  /\ pc = "idle" /\ Iterating /\ ItemHere
  /\ ~CanGet
  /\ Die("aborted") /\ it' = NoIterator
  /\ UNCHANGED <<disk, faults>>

\* item_iterator_destroy frees the payloads and every page in memory.
Destroy ==
  /\ pc = "idle" /\ Iterating
  /\ ram' = NoPages /\ freePage' = NullPage
  /\ it' = NoIterator
  /\ UNCHANGED <<disk, header, pc, put, target, faults>>

\* page_manager_delete_item of the item the iterator handed out last.
DeleteCurrent ==
  /\ Iterating /\ ~it.moving /\ it.index >= 0
  /\ HasItem(CurrentPage, it.index)
  /\ DeleteStart(Address(it.page, it.index))
  /\ UNCHANGED it

\* The user exits on the item it was handed (ABORT_EXIT in document.c).
UserExits ==
  /\ pc = "idle" /\ Iterating
  /\ Die("aborted") /\ it' = NoIterator
  /\ UNCHANGED <<disk, faults>>

ItCrash ==
  /\ Iterating /\ Crash
  /\ it' = NoIterator

--------------------------------------------------------------------------------
\* Nothing is put while an iterator is in use: see module Document.
ItNext ==
  \/ ~Iterating /\ Next /\ UNCHANGED it
  \/ NewIterator \/ NextPage \/ NextPageAborts \/ GetNext \/ GetNextAborts \/ Destroy
  \/ DeleteCurrent \/ UserExits
  \/ Iterating /\ DeletePart /\ UNCHANGED it
  \/ ItCrash

ItSpec == ItInit /\ [][ItNext]_itVars

--------------------------------------------------------------------------------
ItTypeOK ==
  /\ it.page \in Nat \cup {NullPage} /\ it.next \in Nat
  /\ it.index \in Nat \cup {-1} /\ it.moving \in BOOLEAN
  /\ it.payloads \in Seq([page : Nat, item : Nat])

(***************************************************************************)
(* The page the iterator points at has not been freed, although every move *)
(* frees all pages and every item that continues reads others, and it is   *)
(* still the page of the file the iterator has got to.                     *)
(***************************************************************************)
IteratorPageValid ==
  pc = "idle" /\ Iterating =>
    /\ it.page \in DOMAIN ram
    /\ it.next - 1 \in DOMAIN diskPages
    /\ CurrentPage = diskPages[it.next - 1]

(***************************************************************************)
(* An iteration that comes to its end has handed out every item of the     *)
(* file: the pages item_iterator_has_next passes over have none, and no    *)
(* item is missed when the one before it is deleted or when its page is    *)
(* found by the item that continues there.                                 *)
(***************************************************************************)
IterationComplete ==
  Exhausted => \A a \in DOMAIN Store : \E n \in 1 .. Len(it.payloads) : it.payloads[n] = a

(***************************************************************************)
(* No item is handed out twice.                                            *)
(***************************************************************************)
HandedOutOnce ==
  \A m, n \in 1 .. Len(it.payloads) : it.payloads[m] = it.payloads[n] => m = n

--------------------------------------------------------------------------------
(***************************************************************************)
(* What comments of the repository say and the code does not do: "most     *)
(* likely yes, there should be no deleted items" up to next_item_id        *)
(* (page_manager_iter.c:83), and the assertion at page.c:48: the slot that *)
(* has_next finds on the page holds an item.                               *)
(***************************************************************************)
HasNextMeansLive ==
  pc = "idle" /\ Iterating /\ ItemHere => HasItem(CurrentPage, it.index + 1)
================================================================================
