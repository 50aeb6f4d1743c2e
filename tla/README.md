# TLA+ models and proofs for itmo_llp_lab

The repository stores a document tree in one file: `document` (nodes with a
parent) on top of `item_iterator` and `page_manager` (items of any size), on top
of slotted `page`s, `file_manager` (header and pages) and `file` (stdio). This
directory models the storage core, page by page and write by write, the iterators
and the documents on top of it, checks them with TLC on small instances and proves the
results that matter most with TLAPS.

Paths below are relative to the directory that holds `src/` (the repository's
root is `src/`, its C code is in `src/src/` and `src/include/`).

## 1. Inventory

| Component | State it keeps | Operations | Used by |
|---|---|---|---|
| **page** (`storage/page/page.c`, `util.c`) | header: ids, `items_count`, `free_space_start/end_offset`; the `ItemMetadata` array growing up; item data growing down | `page_new`, `page_add_item`, `page_delete_item`, `page_get_item`, free-space helpers | page_manager, iterators |
| **page_manager: items** (`item_management.c`, `page_manager_free_pages.c`) | locals of one call: current page, next free page, bytes written, the result | `put_item` (splits an item over pages), `get_item`, `delete_item`, `get_page_for_data` | document, iterators |
| **page_manager: pages** (`page_manager.c`, `page_manager_internal.c`, `utils.c`) | `allocated_pages` (list of pages in memory), `current_free_page` (pointer) | `init`, `destroy`, `page_new`, `read_page`, `free_pages`, `set/get_current_free_page` | items, iterators |
| **file_manager**, **file** (`file_manager.c`, `file.c`) | `FileHeader`: constant part (signature, page size) and dynamic part (`page_count`, `current_free_page`); the `FILE*` | read/write the header, read/write at an offset, every write followed by `fflush` | page_manager |
| **iterators** (`page_manager_iter.c`) | current page (a pointer into `allocated_pages`), next page, current item index, list of payloads allocated so far | `page_iterator_new/has_next/next/destroy`, `item_iterator_new/has_next/next/destroy` | document |
| **document** (`document_db/document.c`) | nothing between calls but the page manager; each call has an iterator of its own; a node's id is the address of its item | `init`, `destroy`, `add_node` (root, child), `add_bulk_nodes`, `delete_node`, `update_node`, `get_all_children` | `main.c`, benchmark |
| `document_tree.h`, `storage.h`, `storage.c`, `free_pages.h` | none | declarations with no code behind, or stubs | nobody |
| log, error, result macros (`util/`) | none | `ABORT_EXIT`, `RETURN_IF_FAIL`, `ABORT_IF_FAIL`, `ASSERT_ARG_*` | all |
| `main.c`, `src/main.c`, benchmark, tests | none | callers | |

Interactions. Everything is a direct call in one thread: there are no locks, no
messages and no callbacks. Components share state in three ways, and this is
where the difficulty is:

* **the file and the memory**: a page lives in `allocated_pages`, in the file, or
  in both; every change of a page is written and flushed at once; a page found in
  memory is never read from the file again, and it is found by the `page_id` in its
  own bytes;
* **two copies of the header** and a third copy of one of its fields, the pointer
  `current_free_page`;
* **`free_pages`** frees every page in memory, whoever points at it; iterators
  call it at every page, and `page_get_item` hands out pointers into pages.

Hard behaviours: a put of `n` parts is a sequence of up to `4n` file writes
(count, new page, free page, part) with a process that may die between any two (by a signal, by `assert`, by
`ABORT_EXIT`, which is `exit`); write errors that some callers propagate and two callers
ignore; a singly linked list of parts over pages whose links assume "slot 0";
32-bit unsigned offsets whose difference is clamped; and the fact that a page, once
it is no longer the current free page, is never looked at again by `put_item`.

What makes each component correct:

* **page**: data regions never overlap each other or the metadata, whatever the order
  of adds and deletes; an item reads back the bytes it was given; `items_count` is
  the number of live slots.
* **page_manager, pages**: the memory never holds what the file does not; a
  restart finds a current free page; no pointer held across a call dangles.
* **page_manager, items**: a put creates exactly one readable item at the address
  it returns, a delete removes exactly that one, nothing else changes, also when the
  process is killed; no loop runs for ever; no part is leaked without a crash.
* **iterators**: every item of the file is handed out once and none twice, also when the
  user deletes the item it was handed; the current page is never freed under the iterator.
* **document**: the file holds a tree (one root, every other node below a node that
  is there, no node with children deleted); a delete finds the node that is there; the
  scans of `get_all_children` miss no child; every call ends and
  frees its iterator and its pages.

`PROJECT.json` lists the hazards at their lines, with the properties that cover
each one or the reason why none does.

## 2. Modules

| Module | Extends | What it is |
|---|---|---|
| `SlottedPage` | | the operators of one page: layout, free space, add, delete, well-formedness |
| `Page` | SlottedPage | state machine of one page with its bytes |
| `ItemStore` | | abstract specification: a set of items, each at the address its put returned |
| `PageManager` | SlottedPage, `INSTANCE ItemStore` | the heap file: file, memory, operations in steps from one write to the next |
| `ItemIterator` | PageManager | the iterators over the heap file, and what their user may do meanwhile |
| `NodeTree` | | abstract specification: a tree of nodes, changed by one request at a time |
| `Document` | ItemIterator, `INSTANCE NodeTree` | the calls of `document.c`, item by item and write by write |
| `MCPage`, `MCPageManager`, `MCItemIterator`, `MCDocument` | Page, PageManager, ItemIterator, Document | the finite instances TLC checks |
| `SlottedPageProofs` | SlottedPage | lemmas about add, delete, free space |
| `PageProofs` | Page, SlottedPageProofs | theorems about `Page` |
| `PageManagerProofs` | PageManager, SlottedPageProofs | theorems about `PageManager` with any faults and crashes |
| `WriteThroughProofs` | PageManagerProofs | theorems about `PageManager` while no write fails |
| `ItemStoreProofs` | WriteThroughProofs | theorems about items as chains of parts, and that `PageManager` implements `ItemStore` |
| `ItemIteratorProofs` | ItemIterator, ItemStoreProofs | theorems about `ItemIterator` |
| `NodeTreeProofs` | NodeTree | what `NodeTree` promises is a tree |
| `DocumentProofs` | Document, ItemIteratorProofs | theorems about `Document` |

A definition whose comment begins with `fault:` (or that ends in `\* fault`) is not
part of any specification: it is a variant of the definition after it with a
plausible bug. `PROJECT.json` "mutants" says which property notices each one.

### `SlottedPage` and `Page`

A page is a record of the header fields and of the metadata array: `slots[i]` is
what `get_metadata(page, i)` points at, for `i < next_item_id`. `AddItem`,
`DeleteItem` (`MarkDeleted`, then `DropLastSlot` for the last slot),
`PayloadAvailableSpace`, `CanFitPayload` are the functions of `page.c` and
`util.c`. Sizes of the packed structures are the real ones (28 and 21 bytes).

`Page` adds `bytes`: for each byte of the payload area, whose datum (or which
metadata entry) it holds. `Add`, `AddRefused` (a payload that does not fit ends the
process) and `Delete` may come in any order. `ItemsIntact` reads the bytes
back, so it would notice what the record of slots alone would hide. `data` in a
slot is justified by that property: `PageManager` reads items from the
slot.

### `PageManager`

| Variable | In the code |
|---|---|
| `diskHeader`, `diskPages` | the file: dynamic header; pages by position, with zeros where a page was passed over |
| `header`, `ram`, `freePage` | `file_manager->header.dynamic`, `allocated_pages`, `current_free_page` |
| `pc` | where the running call is; `closed` and `aborted` when no process runs |
| `put`, `target` | the locals of `put_item` (with `page_new`'s caller) and of `delete_item` |
| `faults` | failed writes so far |

| Action | Code |
|---|---|
| `OpenWithoutPages`, `OpenFails`, `OpenWithPages`, `OpenAborts` | `page_manager_init`, with `file_manager_init` |
| `AllocPage`, `WriteNewPage`, `SetFreePage` | the three writes of `page_manager_page_new` and `set_current_free_page`, for each of the four callers |
| `PutStart`, `PutAborts` | `get_current_free_page` and `get_page_for_data`, up to the first write |
| `PageFull`, `SplitItem`, `ItemFits`, `AddPart`, `AddPartAborts`, `PutReturns` | the loop of `put_item` |
| `GetItem`, `GetItemAborts` | `get_item`: what it leaves in memory |
| `DeleteStart`, `DeletePart` | `delete_item`, one part and one write at a time; where it goes next is read from the slot it has just released (`ContinuationLeft`) |
| `FreePages`, `Close` | `page_manager_free_pages`, `page_manager_destroy` |
| `WriteAborts` | a failed write whose error the caller turns into an exit |
| `Crash` | the process is killed |

One step reaches from one file write to the next: between two writes nothing can
be observed by anybody but the process itself, and what it does in memory is lost if
it dies. A part of an item is a slot whose `data` says of which payload and from
which byte on. `Whole` is the set of slots from which `get_item` reads the rest of one payload, part by
part: a part ends its item, or slot 0 of the page it continues on holds the next bytes of the same payload
and is itself in `Whole`. `Store` is what a reader finds in the file: the heads of `Whole`.

`ViaFreePage` says how callers put: through `page_manager_get_page_for_data`, as
`document.c` does, or by handing `put_item` the current free page as it is, as
`test_page_manager.cpp` does.

### `ItemStore`

`store` maps addresses to items, `call` is the call that has not taken effect. A put
or a delete takes effect in one step, or the process dies and it has none; nothing
else ever changes the store. `PageManager!ItemsKept` is `ItemStore!Spec` under the
mapping `store <- Store`, `call <- Call`: a put takes effect with the write of its
*last* part (each earlier part has no readable end), a delete with the write that
deletes the *head*.

### `ItemIterator`

`it` is the `ItemIterator` with its `PageIterator`: `page` is the page `current_page` points
at, `next` is `next_page_id`, `index` is `current_item_index.item_id`, `payloads` says of each
allocated payload which item it is from. `moving` is TRUE while `item_iterator_has_next` is in its
loop: one step is one page. Nothing is left out of that loop: the page is read
(`NextPage`), its metadata are looked at *at the index of an earlier page* (`PassesOver`), and the
index is reset only if the page is not passed over.

`get_metadata` at an index that the page does not have points at free space or into
the data of an item. `Unlucky` is the set of payloads whose bytes there read as the page's
own id; with `Unlucky = {}` only slots can. `GetNext` hands out the item at `NextItem`
and loads the pages of its parts, `GetNextAborts` is the assertion of `page_get_item`.

Between two calls of the iterator its user may delete the item it was handed
(`DeleteCurrent`, then `DeletePart`), exit (`UserExits`) or destroy the iterator. Without an iterator, every step
of `PageManager` is possible: iterations start on every file that puts, deletes and crashes
can leave. `MaxFaults = 0` is an assumption of the module: a failed write can leave a
page in memory that the file does not have, and `PageManager` has these cases.

### `NodeTree` and `Document`

`doc.step` says which statement of which function of `document.c` comes next, `doc.node` is the node of the
request or of the result, `doc.count` the children counted, `doc.i` those collected, `doc.left` the nodes a bulk add has left.

| Actions | Code |
|---|---|
| `AddNode`, `DeleteNode`, `UpdateNode`, `AddBulkNodes`, `GetAllChildren` | the calls, up to the iterator they start with |
| `ScanMoves`, `ScanPasses`, `ScanFinds`, `FindsObstacle`, `ScanAborts`, `ScanEnds`, `ScanAgain` | the seven `while (item_iterator_has_next(...))` loops; `Matches` is what each one compares |
| `ParentFound`, `Persist`, `PutGoesOnOrDies`, `PutDone`, `Release` | `document_persist_new_node`; the put takes its steps from `PageManager` |
| `DeleteFound`, `DeleteGoesOn`, `Deleted`, `AddAgain` | `document_delete_second_step`, and the add of an update |
| `BulkPersist`, `BulkRelease`, `DestroyBulk`, `DestroyTwice` | the loop of `document_add_bulk_nodes`. Freeing the freed iterator again is undefined: the process dies or goes on |
| `Start`, `StartGoesOn`, `DocCrash` | `document_init`, `document_destroy`; the process is killed |

A payload is the bytes of a `Node` (`NodeOf`), with the id that was in the caller's memory
*before* the put. What a scan reads from a slot that is not a whole item (a tail, or a part a
crash has left) may be any node of `Fragments`. Callers give ids and nodes they got from the document
(`GivenIds`, `GivenNodes`) that are still in the file; `StaleIds` adds ids that are not.

`NodeTree` is a tree of nodes by id: a node is added below one that is there, or as the only
root, and only a node without children is deleted. `Document!TreeKept` is its specification under the mapping
`nodes <- StoredNodes` (the whole items of the file, each read as a node at its address) and
`request <- Request` (what the put or delete in progress is for). A crash may happen at any write,
and must leave the tree before or after the change.

## 3. Runs

| Run | Instance | Shows |
|---|---|---|
| `page` | page of 104 bytes, payloads of 1 and 14 bytes, two contents (symmetric) | layout, bytes and count of live items survive any sequence of adds and deletes |
| `heap_file` | no crash, no failed write, payloads of 5 and 40 bytes, 4 pages | the file implements `ItemStore`; every live slot belongs to one item; memory and file agree; the address returned is right; every operation returns |
| `heap_file_crash` | killed anywhere, 3 pages | restart always possible once the first page is written; items stay whole or absent; no loop for ever |
| `heap_file_faults` | crashes and one failed write, payloads of 5 and 60 bytes, 3 pages | pages stay well formed, a put that returns has put its item, a delete finds its parts |
| `heap_file_direct` | puts on the current free page as it is, payloads of 5 and 60 bytes, 4 pages | a full page moves the item to the next page; items are not damaged; every step brings an operation nearer to its end; an item that needs more than a page after that exits cleanly |
| `item_iterator` | crashes, payloads of 5 and 40 bytes, 4 pages | the page of the iterator is never freed under it; an iteration that ends has handed out every item; none is handed out twice |
| `document` | pages of 130 bytes (two nodes of 29 bytes), one value, bulk adds of up to 2, ids of nodes that are gone, crashes, 3 pages | the root is the first item; a delete finds its node; children are counted right; every call ends, with no memory left |
| `document_split` | pages of 112 bytes (one node and a part of another), two values, bulk adds of up to 2, crashes, 3 pages | the file implements `NodeTree`, when nodes are split and scans read their tails as nodes; both scans of `get_all_children` find every child, and no more than there are tails besides |

Four runs end in a violation. Each one states what a comment of the repository says, and is
a finding (quoted with its line in `PROJECT.json`):

| Run | The code |
|---|---|
| `free_page_exists` | killed between the count and the first page, the file can never be opened again |
| `ignored_errors` | `page_manager_init` ignores a failed first count, and the next start overwrites the items |
| `has_next_means_live` | `has_next` says yes to a deleted slot below `next_item_id`; `next` then dies on an assertion |
| `parent_is_found` | a node that is not the root is not found as a parent: its bytes have no id of its own |

The models hold more of what the code does against its comments, each in the action that stands for
the line:

* killed between two parts (`WritePart`), a part continues on a page that stays empty or on the next item
  put there, where `item_management.c:115` says "continuation of item should always be the first item in page";
* `PageFull`: handed a full page, `put_item` puts the item on a new one and never stores its address, so
  that `PutReturnsItem` holds of callers of `get_page_for_data` only;
* `PutStart` looks at the current free page only, although `page_manager.h:15` says all pages are gone through;
* `IgnoresErrors`: after a header write that failed a page of zeros is read for page 0 (`Loaded`);
* `GetNext` hands out the tail of a split item that is in slot 0 as an item (`page_manager_iter.c:89` says it
  is checked), and keeps every payload, where `ROADMAP.md:30` has memory tend to O(1);
* `NextPageAborts`: an empty first page ends the process at `util.c:39`;
* `PassesOver` with `Unlucky` payloads passes over a page that has an item on it;
* `ScanFinds` with `StaleIds`: a parent is found by the id in bytes that an update has moved since, and a child
  is added below an id that names nothing. `TreeKept` therefore is about callers that give ids of nodes that are there;
* `ScanFinds` in `get_all_children`: the second scan may take a tail for a child that the first one did not, and then writes beyond
  the end of `nodes[count]` (`document.c:276`); `ChildrenCounted` says by how many nodes at most, and that it is none where no tail reads as a child;
* the space a delete frees on a page that is not the current free page is not used again, where `ROADMAP.md:39` asks for a file whose size is always
  proportional to the number of stored items;
* `DestroyTwice`: a bulk add of one node or more frees its iterator twice;
* `ScanAborts` between `Deleted` and `Persist`: an update dies with its node deleted.

What the code does wrong is thereby part of the models, and the passing runs show what holds
*nevertheless*: a document whose scans die on a deleted slot still is a tree; an iterator that takes tails for
items still hands out every item once.

### Bounds

* `PageSize = 100` leaves an empty page 51 bytes of payload: the 5-byte payload fits
  several times, two of them leave less than `MINIMUM_DATA_PART_SIZE_BYTES` or
  just more, depending on what else is there. The 40-byte payload fits an empty page
  and splits on a used one; the 60-byte one always needs two pages, three on a nearly full
  one. So pages become full, are split, receive a continuation in slot 0 and more
  items after it.
* `PageSize = 104`, sizes 1 and 14 for one page: three items (and a deleted one)
  at once, so that deletes of a first, middle and last slot and re-adds of another size
  occur.
* `MaxPages` (3 or 4) bounds `PutStart`: no put starts that could need more. With
  4 pages an item is split, another follows it on the continuation page, is
  split in its turn, and both are deleted in either order.
* `MaxFaults` is 0 or 1. All findings need at most one failed write; with none, the
  code's own error paths are out of reach, which is why `heap_file_faults` exists.
* `MCItemIterator` has the payloads of `heap_file`: pages with several items, with a deleted first,
  middle or last one, with only a tail, and empty ones all occur on 4 pages, and crashes leave heads without
  tails and tails without heads.
* `MCDocument`: 3 pages hold four nodes or more. That is enough for a root, a child, and a
  sibling on another page; for a root deleted and added again; and for an update that moves a node.
  `StaleIds` are the ids of the first two nodes of a file in `document`, and none in `document_split`. `Fragments` let a tail read as the root or as the node after it,
  or as a child of one of these: whatever a scan compares, it can match.
* `Unlucky = {}`: a payload with the wrong bytes makes `has_next` pass over its page, and `IterationComplete`
  is false of it. The theorems that do not say `Unlucky = {}` hold with such payloads too.
* No deadlock: in every state of `PageManager` some step is possible. `page` stops
  after `AddRefused`, as the program does (`CHECK_DEADLOCK FALSE`).

### Fairness

`WF_docVars(DocSteps)` in `Document`: the steps of a call of the document once it has been made, for the same
reason as below; none of callers, of starts and stops or of crashes. `CallsEnd` says that every scan and
every loop of a call ends; its fault is a bulk add whose counter stays. In `PageManager`:
`WF_vars(Steps)`: the steps of an operation that has been called. The program is one
thread and waits for nothing but the file system, so an operation once called
runs on. No fairness is assumed of the callers (`Calls`) or of crashes.
`OperationsReturn` and `OperationsEnd` say that the loops of `put_item` and
`delete_item` end; an iteration that kept its page, the fault each of them is tested with,
would go round for ever. `OperationsAdvance` says the part of it that needs no fairness: every step of an
operation takes something off `StepsLeft` (8 for each byte to put, and the number of steps until the next byte is written; the bytes
after the part to delete), so a step that is taken at all brings the end nearer. Its fault takes a full page for one with room.

## 4. Proofs

All hold for every page size that can hold a byte (`PageSize > 49`), every set of
payloads with sizes greater than 0, any number of pages and operations. An empty
payload is excluded by assumption: it would "fit" a full page
(`CanFitPayload` compares `0 >= 0`) and push the metadata over the data.

| Theorem | Says |
|---|---|
| `PageTypeOK`, `PageLayout`, `PageItemsIntact`, `PageCountIsLive` | the four invariants of `Page` |
| `HeapFileTypeOK`, `HeapFilePagesWellFormed` | types, and the layout of every page in memory and in the file, with any crashes and any failed writes |
| `HeapFileWriteThrough` | memory and header agree with the file but for the page being written (`MaxFaults = 0`) |
| `HeapFileCanRestart` | after the first page is written, the header names a free page the file has, at every instant (`MaxFaults = 0`) |
| `HeapFilePointersValid` | held pointers point at pages still in memory (`MaxFaults = 0`) |
| `HeapFileFreePageIsLast` | the file has no holes and new items go to its last page (`MaxFaults = 0`, `CanCrash = FALSE`) |
| `HeapFileAddressSaved` | a put whose parts are written has an address to return, with any crashes and failed writes (`ViaFreePage`) |
| `HeapFilePutReturnsItem` | the address that a put returns is that of its item, whole, with any crashes and failed writes (`ViaFreePage`) |
| `HeapFileDeleteFindsItem` | a delete finds every part that it goes to, with any crashes and failed writes |
| `HeapFileOperationsAdvance` | every step of a put or a delete leaves fewer of them, with any crashes and failed writes |
| `HeapFileItemsKept` | the heap file implements `ItemStore`, with any crashes (`MaxFaults = 0`) |
| `HeapFilePartsMakeItems` | between operations every live slot is a part of exactly one whole item (`MaxFaults = 0`, `CanCrash = FALSE`) |
| `IteratorTypeOK`, `IteratorKeepsItsPage`, `IteratorHandsOutOnce` | the invariants of `ItemIterator`, with any crashes |
| `IteratorComplete` | an iteration that ends has handed out every item (`Unlucky = {}`) |
| `IteratorPagesWellFormed` | iterations, and deletes during them, keep pages well formed |
| `NodesMakeTree` | `NodeTree`: one root at most, parents are there (`NoParent` is not an id) |
| `DocumentUsesIterator` | `DocSpec => ItSpec`: a document uses its iterator as `ItemIterator` has it (`MaxBulk = 0`) |
| `DocumentTypeOK` | the type of a call, the id a put returned included (`ViaFreePage`) |
| `DocumentDeletes` | "Node doesn't exist" is said only of a node that does not (`Unlucky = {}`) |
| `DocumentReleasesMemory` | between calls there is no iterator and no page but the free page |
| `DocumentChildrenCounted` | both scans of `get_all_children` find every child, and beyond these at most the parts that may read as one (`Unlucky = {}`) |
| `DocumentTreeKept` | the file implements `NodeTree`, with any crashes (`Unlucky = {}`, `StaleIds = {}`) |
| `DocumentRootIsFirst` | the root is at `ROOT_NODE_ID`, with any crashes (as `DocumentTreeKept`, and `NodesFit`) |

**Page.** `Layout` and `CountsLive` are inductive together with the type of the
page. The hard half is `DropLastSlot`: the data of the last slot ends where the
free space begins only because regions are *adjacent* in slot order, deleted ones
included, so adjacency is part of the invariant although the user only cares that
regions do not overlap. The count needs lemmas about the cardinality of the set of
live slots when one is added, marked or dropped.

**Heap file, any faults.** The invariant `IndInv` is types, pages (`RamOK`, `DiskOK`),
what the memory may hold (`MemInv`) and the put in progress (`PutInv`). `PagesWellFormed`
alone is not inductive: `AddItem` keeps a page well formed only for a part of at least
one byte that fits. That a *split* part is not empty depends on a fact
established three writes earlier, that the page had some room before its continuation page
was allocated; `PutInv` carries it along (`put.caller = "split" => CanFitAnyPayload(...)`),
which in turn needs that the newly allocated page has another id than the page being
filled: ids in memory are below `page_count` (`MemInv`). Crashes and failed writes are
steps of the proof like the others. One lemma per action, one theorem that
combines them.

**Heap file, no failed write.** `FileInv` adds that the free page is in the file where
its `page_id` says (`FreePageInv`), that a page in the file has been counted
(`CountedInv`), that the first page is written before the first operation
(`StartInv`), that the held pointer is the header's free page (`PointerInv`) and that the
page being written is the last one counted (`LastPageInv`). `CanRestart` needs all of them: the
header names the new page only after it is written, and the old free page stays in the
file in the meantime. The hypothesis `MaxFaults = 0` cannot be
dropped: the run `ignored_errors` shows why. `NoHoles` goes further for a process that is not killed: the pages of
the file are those counted but the one being written.

**The address of a put.** `SavedInv` follows `put.page` and `put.cur` until the first part is written: they are the same
page, and it has room, since `get_page_for_data` hands over a page with eight bytes free or a new one. That room has to
be carried through the allocation (`FirstPage`); without `ViaFreePage` it is not there, and the address is lost.

**Items.** `ItemStoreProofs` is about chains. What a recursive function computes for every input is an induction,
which the provers cannot do with an operator as the induction hypothesis; but every part has bytes (`PartsFitInv`), so the rest of
the payload shrinks from each part to the next, and each induction along a chain can be done by the part with the least
rest: `LeastNumber` (from `WFMin`, the minimum of a well-founded relation) finds it, and a counterexample with the least rest is
none. In that way it is proved that `Whole` satisfies its equation, and then the facts the steps need: `ChainIsWhole` (a set of slots each of which ends its item or
joins another one of the set is whole), that a write that keeps slots keeps what is whole, that a new slot makes nothing but itself and the
parts that lead to it whole, that a deleted one takes nothing else away.

* `PutReturnsItem` needs `PutPartsInv`: the parts the put has written are a set in which each joins the next, but for the
  last one, which ends where `put.written` is and continues on the page that was allocated for the next part. That this page is empty when
  the part gets there, so that the part lands in the slot 0 that the one before it names, is `NewPageInv`. Where a write fails, the put ends: nothing has to
  be known of the file then, and the theorem needs no `MaxFaults = 0`. It needs `ViaFreePage`, without which the address is not stored.
* `DeleteFindsItem` is about a file that failed writes may have left in any state, and about a memory that need not agree with
  it. What a delete can rely on is what its caller has read (`Reads`). So the invariant (`DeletesInv`) is a set of parts from the one the delete is at on, each on a page that
  memory and file agree on, each of which ends its item or joins another one of the set (`Sound`). Deleting a part leaves those that
  have a smaller rest, and they lie on other pages or in slots of their own. That such a set is there at the start is the fact about
  `Chain`: as many steps as there are live slots reach every part that can be reached (`ChainClosed`), by counting, since the
  slots are finite in number (`FinitePages`, `SlotsFinite`).
* `OperationsAdvance` needs two facts of those invariants: a page that is not full takes at least one byte (`PutInv`), and
  the part that a delete goes to next belongs to the same payload and lies behind the part it leaves (`Sound`).
* `ItemsKept` adds `NamesInv`: no two live slots continue on the same page, also when a crash has left some of
  them, and none on the page that is being allocated. So at most one part leads to a slot: the write of a last part makes exactly one head
  whole, and the delete of a head takes exactly one away. `DeleteInv` follows the delete: where it is, the rest of the item is whole and
  nobody leads there any more. `ItemsKept` also needs that heads are at addresses the abstract store has
  (`HeadsInv`), so that no put stores a first part beyond the last page that `PutStart` makes room for (`RoomInv`).
* `PartsMakeItems` adds `LiveInv`: every live slot ends its item, joins another one, or is the last one written by the put in
  progress (`LeadsOn`); every one that is not a head is led to, or is next for the delete (`IsLedTo`). A put must not give up in the middle of an item, which is
  `NextPartRoom`: the next part fits the page allocated for it.

**Iterator.** The invariant is `ItInv`. Beside that of the heap file it says that no part continues on its
own page (`ContInv`), where the iterator is (`ItPlace`), that what was handed out is behind it
(`ItList`), and that every live slot behind it was handed out (`ItAll`). The first is the heart: with it,
the test of `has_next` is never true of a slot, whichever index it looks at, so that a page with an item
is passed over only if bytes of the item are unlucky. `ContInv` in turn needs that the page allocated for a continuation
is another one than the page being split, the same fact about ids that `PutInv` carries.
`ItPlace` has a case of its own, `OnZeros`: a page that a crash left counted but
unwritten reads as zeros and is kept in memory *as page 0*; while the iterator is there, memory and file
disagree, and the proof shows that it always moves on from there before anybody looks.

**Document.** `DocumentUsesIterator` is a refinement: every step of `Document` maps to a step of `ItSpec` or to a
stutter, along with `DocInv` (an iterator is in use at exactly the steps of `Using`). This one
excludes bulk adds (`MaxBulk = 0`), and not for convenience: they put while an iterator is in use, which is no behaviour of `ItSpec`.
The other theorems include them, with a second invariant for a bulk add from where its parent is found, `BulkInv`: that of the heap file, the types of the call,
and that no delete is in progress. The iterator is not asked about there, since nobody uses it any more: every step of `[DocNext]` is one of the
heap file or the abort of the second free (`NextBulk`). It is entered only from the scan for the parent (`EnterBulk`) and left
only with no iterator and nothing but the free page in memory (`BulkOver`), where `ItInv` holds again; so `DocBase`, one or the other, is inductive. `NodesHaveBytes` says that
every node is some payload. `DocumentDeletes` adds `NotYetFound` (what the scan has been handed is not the node) and
takes the rest from the iterator: at the end everything was handed out. `DocumentChildrenCounted` adds that each scan has counted
every child that it was handed (`Seen`), and besides at most the parts that may read as one (`SeenLikes`, `CountInv`): each item is handed out once, and at the end of a
scan all of them were, so both counts lie between the number of children in the file and that number plus the parts that may read as a child (`FoundAll`); nobody changes
the file in between (`ChildrenInv`). `DocumentReleasesMemory` adds what the steps of
`document_init` leave in memory.

**The tree.** `DocumentTreeKept` is the refinement of `NodeTree`. What happens to the items comes from below: `ItemsInv` (the chain
invariants of `ItemStoreProofs`) is kept by every step of the iterator, and a step keeps the items, adds that of the put
(`ItemAdded`) or takes away that of the delete (`ItemDeleted`). `PutCall` and `DeleteCall` say that these are of the node of the call. The rest is
`TreeInv`, what a call knows: it has looked at the tree with one or two scans, item by item, and writes steps later, so
each thing it has read has to stay true until then. It does because nobody but the call itself writes, and it writes once, at
its end: the parent is there (`ParentThere`), no item handed out is the root or a child (`Unmatched`), hence, at the end of the
scan, none in the file is (`NoRootYet`, `NoChildren`), and the node to delete has the parent the caller said (`NodeThere`), which an
update will add it below again. A bulk add looks once and then puts many times: its parent stays (`BulkTreeInv`), since it deletes nothing, and
each put is of a node below it (`PutBulk`). The theorem is for any `Fragments`: an add or a delete that takes a tail for a node may be refused or may die, it never breaks the tree,
*provided that* ids given are of nodes that are there. With `StaleIds` a scan can find the parent of an add in bytes that are
no node with that id.

**The root.** `DocumentRootIsFirst` is about where a root can be put: `add_node` gets there only if its scan for the root ends
without an item, and `has_next` never passes over an item, so it ends on a page 0 that is empty and the only page
(`AtFirst`, `EmptyFirst`). If page 0 has the root, the scan finds it and the program exits; if it has a deleted item in its first
slot, or nothing while other pages follow, the program dies. From the end of the scan to the write of the root nothing else happens to the file
(`FirstFree`), and the root is written in one piece because it fits an empty page (`NodesFit`: `sizeof(Node)` is
far below a page; nodes that do not fit what is *left* of a page are split as ever). So the root gets slot 0 of page 0, and no later item does while it is
there (`RootSlot`). A bulk add never puts a root: its parent is in the file, so page 0 was written before (`FirstWritten`, `BulkRootInv`). That it is there as long as any node is (`RootThere`) needs that no nodes are left over when it is deleted: it
has no children then, and every other node is below one that is there. With paths to the root this
would be an induction; `Grounded` says it without: no nonempty set of nodes holds the parent of each of its members. An add keeps that, since nobody is below the new node, and a
delete keeps it for every subset; the nodes that a delete of the root would leave are such a set, so there are none.

**Only model-checked.** The liveness
properties (`OperationsReturn`, `OperationsEnd`, `CallsEnd`), which are out of the prover's reach; what is proved of `OperationsEnd` is that no
operation has infinitely many steps (`OperationsAdvance`).

## 5. Abstractions, and what is not modelled

* A write of a header or of a page happens entirely or not at all. A torn page and an
  `fflush` that fails (its result is not looked at, `src/src/storage/file.c:69`) are left out: the code has no
  defence (no checksum, no log), and nothing could be stated of it.
* A failed *read* of a page that is in the file is left out.
* Signature and page size of the header always match: one program, one file.
* Payload bytes are told apart by payload and offset; sizes are exact.
* Offsets are integers, not `uint32_t`. `free_start <= free_end <= PageSize` is
  proved, so with a page size below 2^31 nothing wraps; the one subtraction that could, `free_end -
  free_start`, is covered by that.
* What freeing an iterator twice does is undefined. `DestroyTwice` has the process die or go on; a damaged heap is not modelled, so what holds of bulk
  adds of one node or more holds of processes that outlive it unharmed. The same goes for the write beyond `nodes[count]`.
* `get_all_children` copies the nodes it collects into an array of its own and never into its result, of which it sets only the count
  (`document.c:276-289`): `doc.i` says how many were collected, and there is no result to state a property of.
* `page_manager_flush_page` has no caller. Logging and messages are left out.
* The order of pages in `allocated_pages` matters only when two pages have the same
  `page_id`, and is then kept: the last one read is found (`Loaded`).
* Callers read or delete only items that are in the file (`a \in DOMAIN Store`), as
  `document.c` does after it has found the node; a stale address is the caller's error.
* The `continues_on_page` that `has_next` reads from *free space* of a page is never that page's id: free space
  holds zeros or the bytes of deleted items, and these are counted as lucky.
* `page_iterator_next` and `item_iterator_next` are called only after `has_next` said yes, as `document.c`
  does: their `ABORT_EXIT` for a misuse is left out, and so is the branch of `has_next` for a file without pages.
* The bytes of a document's node are told apart by id, parent and value; that `string_value` is a
  pointer, written to the file as it is, is left out (no reader follows it).
* `result->node` of a bulk add has zeros before the call, as in the callers of `add_node`; the clocks are left out; `malloc` does not fail.
* `document_tree.h`, `storage.h` and `free_pages.h` declare what has no code. The tests of the repository
  have none for iterators and documents.

## 6. What is left

A document under failed writes: `ItemIterator` would have to let memory and file disagree.
