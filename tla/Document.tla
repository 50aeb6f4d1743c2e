-------------------------------- MODULE Document --------------------------------
(***************************************************************************)
(* A document is a tree of nodes kept as items of a heap file              *)
(* (document.c).  Nothing is kept between calls: every call finds what it  *)
(* needs by going through all items with an iterator, and then puts or     *)
(* deletes one item.  A node holds its own id and the id of its parent; it *)
(* is written with the id the caller's memory has before the call.         *)
(***************************************************************************)
EXTENDS ItemIterator

CONSTANTS
  Values,               \* values of nodes
  NodeOf,               \* NodeOf[x]: the node that payload x is the bytes of
  Fragments,            \* Fragments[x]: what a part of a split x may read as
  StaleIds,             \* ids callers give whether or not there is a node; they
                        \* always give those of the nodes that are in the file
  MaxBulk               \* bound: nodes added by one call of document_add_bulk_nodes

VARIABLE doc            \* the call in progress

docVars == <<itVars, doc>>

ROOT_NODE_ID == Address(0, 0)
NULL_NODE_ID == Address(NullPage, NullPage)
NoValue == NullPage

NoNode == [id |-> NULL_NODE_ID, parent_id |-> NULL_NODE_ID, value |-> NoValue]

NodeIds == [page : Nat, item : Nat] \cup {NULL_NODE_ID}

ASSUME NodesAssumption ==
  /\ Values \subseteq Nat
  /\ \A x \in Items : NodeOf[x] \in [id : NodeIds, parent_id : NodeIds, value : Values]
  /\ \A x, y \in Items : NodeOf[x] = NodeOf[y] => x = y

ASSUME CallersAssumption == StaleIds \subseteq Addresses /\ MaxBulk \in Nat

ItemOf(node) == CHOOSE x \in Items : NodeOf[x] = node

\* step says where the call is; node is the request's, or the caller's result; i is
\* how far get_all_children has filled its array.
NoCall ==
  [step |-> "idle", node |-> NoNode, update |-> NoValue, count |-> 0, i |-> 0, left |-> 0]

DocInit == ItInit /\ doc = NoCall

NodeAt(a) == NodeOf[Part(diskPages, a).data.item]

\* The memory that the iterator's next item is read into, taken for a Node: what
\* is not an item from its head to its end may read as anything.
NodesRead ==
  IF NextItem \in DOMAIN Store THEN {NodeAt(NextItem)}
  ELSE Fragments[Part(diskPages, NextItem).data.item]

GoTo(step) == doc' = [doc EXCEPT !.step = step]

Return == doc' = NoCall

--------------------------------------------------------------------------------
(***************************************************************************)
(* The calls.  Each one but delete starts with a scan of its own; update   *)
(* is delete followed by add.                                              *)
(***************************************************************************)
Ready == pc = "idle" /\ doc.step = "idle"

GivenIds == DOMAIN Store \cup StaleIds

\* document_add_node into the memory that node is.
AddInto(node, call) ==
  doc' = [call EXCEPT !.node = node,
                      !.step = IF node.parent_id = NULL_NODE_ID THEN "find_root"
                                                                ELSE "find_parent"]

\* What main.c and main_benchmark.c hand over as the result: a Node of zeros.
NewNode(parent, value) == [id |-> ROOT_NODE_ID, parent_id |-> parent, value |-> value]

AddNode(parent, value) ==
  /\ Ready /\ RoomFor(ItemOf(NewNode(parent, value)))
  /\ NewIterator
  /\ AddInto(NewNode(parent, value), NoCall)

DeleteFirst(node, update) ==
  doc' = [NoCall EXCEPT !.step = "find_children", !.node = node, !.update = update]

\* The Node the caller got when it was added, or one it kept since.
GivenNodes ==
  { [NodeAt(a) EXCEPT !.id = a] : a \in DOMAIN Store }
    \cup [id : StaleIds, parent_id : StaleIds \cup {NULL_NODE_ID}, value : Values]

DeleteNode(node) ==
  /\ Ready
  /\ NewIterator
  /\ DeleteFirst(node, NoValue)

UpdateNode(node, value) ==
  /\ Ready /\ RoomFor(ItemOf([node EXCEPT !.value = value]))
  /\ NewIterator
  /\ DeleteFirst(node, value)

AddBulkNodes(parent, value, count) ==
  /\ Ready /\ header.page_count + count <= MaxPages
  /\ NewIterator
  /\ doc' = [NoCall EXCEPT !.step = "find_bulk_parent", !.node = NewNode(parent, value),
                           !.left = count]

GetAllChildren(id) ==
  /\ Ready
  /\ NewIterator
  /\ doc' = [NoCall EXCEPT !.step = "count", !.node.id = id]

--------------------------------------------------------------------------------
(***************************************************************************)
(* The scan that every step of a call begins with: what it looks for, and  *)
(* what it does when an item is that, or when no item was.                 *)
(***************************************************************************)
Scans == { "find_root", "find_parent", "find_children", "find_node", "find_bulk_parent",
           "count", "collect" }

Scanning == doc.step \in Scans

IsNullNode(node) == node.id = NULL_NODE_ID                  \* fault: no node has it
IsRoot(node) == node.id = ROOT_NODE_ID

IsChildById(node) == node.id = doc.node.id                      \* fault
IsChild(node) == node.parent_id = doc.node.id

IsNodeById(node) == node.id = doc.node.id                       \* fault: the id it was put with
IsNode(node) == NextItem = doc.node.id

Matches(node) ==
  CASE doc.step = "find_root" -> IsRoot(node)
    [] doc.step \in {"find_parent", "find_bulk_parent"} -> node.id = doc.node.parent_id
    [] doc.step \in {"find_children", "count", "collect"} -> IsChild(node)
    [] doc.step = "find_node" -> IsNode(node)

ScanMoves == Scanning /\ NextPage /\ UNCHANGED doc

ScanAborts == Scanning /\ (NextPageAborts \/ GetNextAborts) /\ Return

ScanPasses ==
  /\ Scanning /\ GetNext
  /\ \E node \in NodesRead : ~Matches(node)
  /\ UNCHANGED doc

\* "Root node already exists in document tree", "Node contains children".
FindsObstacle ==
  /\ doc.step \in {"find_root", "find_children"}
  /\ ItemHere /\ CanGet
  /\ \E node \in NodesRead : Matches(node)
  /\ UserExits /\ Return

Found(step) ==
  CASE step = "find_parent"      -> GoTo("parent_found")
    [] step = "find_node"        -> GoTo("found")
    [] step = "find_bulk_parent" -> GoTo("bulk")
    [] step = "count"            -> doc' = [doc EXCEPT !.count = @ + 1]
    [] step = "collect"          -> doc' = [doc EXCEPT !.i = @ + 1]

ScanFinds ==
  /\ Scanning /\ doc.step \notin {"find_root", "find_children"}
  /\ GetNext
  /\ \E node \in NodesRead : Matches(node)
  /\ Found(doc.step)

AfterScan ==
  CASE doc.step = "find_root" -> doc' = [doc EXCEPT !.step = "persist", !.node.id = ROOT_NODE_ID]
    [] doc.step = "find_children" -> GoTo("rescan_node")
    [] doc.step = "count" -> IF doc.count = 0 THEN Return ELSE GoTo("rescan_children")
    [] doc.step = "collect" -> Return
    \* "Parent node doesn't exist", "Node doesn't exist": an error is returned
    [] OTHER -> Return

ScanEnds ==
  /\ Scanning /\ Exhausted
  /\ Destroy
  /\ AfterScan

\* The second scan of a delete and of get_all_children.
ScanAgain ==
  /\ doc.step \in {"rescan_node", "rescan_children"}
  /\ NewIterator
  /\ GoTo(IF doc.step = "rescan_node" THEN "find_node" ELSE "collect")

--------------------------------------------------------------------------------
(***************************************************************************)
(* document_persist_new_node: put_item, then the id, then free_pages.      *)
(***************************************************************************)
ParentFoundKeepsIterator ==                \* fault: the iterator is not destroyed
  /\ doc.step = "parent_found" /\ pc = "idle"
  /\ GoTo("persist")
  /\ UNCHANGED itVars

ParentFound ==
  /\ doc.step = "parent_found"
  /\ Destroy
  /\ GoTo("persist")

Persist ==
  /\ doc.step = "persist"
  /\ PutStart(ItemOf(doc.node))
  /\ GoTo("put") /\ UNCHANGED it

PutGoesOnOrDies ==
  /\ doc.step \in {"put", "bulk_put"}
  /\ Steps /\ pc' # "idle"
  /\ IF pc' \in Dead THEN Return /\ it' = NoIterator ELSE UNCHANGED <<it, doc>>

PutDoneTooLate ==                          \* fault: the result is cleared first
  /\ doc.step \in {"put", "bulk_put"}
  /\ PutReturns
  /\ doc' = [doc EXCEPT !.node.id = put'.result,
                        !.step = IF doc.step = "put" THEN "release" ELSE "bulk_release"]
  /\ UNCHANGED it

\* put.result is still there when put_item returns.
PutDone ==
  /\ doc.step \in {"put", "bulk_put"}
  /\ PutReturns
  /\ doc' = [doc EXCEPT !.node.id = put.result,
                        !.step = IF doc.step = "put" THEN "release" ELSE "bulk_release"]
  /\ UNCHANGED it

Release ==
  /\ doc.step = "release"
  /\ FreePages
  /\ Return /\ UNCHANGED it

--------------------------------------------------------------------------------
(***************************************************************************)
(* document_delete_second_step, and the rest of document_update_node.      *)
(***************************************************************************)
DeleteFound ==
  /\ doc.step = "found"
  /\ DeleteCurrent
  /\ GoTo("deleting")

DeleteGoesOn ==
  /\ doc.step = "deleting"
  /\ DeletePart
  /\ UNCHANGED <<it, doc>>

Deleted ==
  /\ doc.step = "deleting" /\ pc = "idle"
  /\ Destroy
  /\ IF doc.update = NoValue THEN Return ELSE GoTo("readd")

AddAgain ==
  /\ doc.step = "readd"
  /\ NewIterator
  /\ AddInto([doc.node EXCEPT !.value = doc.update], doc)

--------------------------------------------------------------------------------
(***************************************************************************)
(* document_add_bulk_nodes from where the parent is found.  The iterator   *)
(* is destroyed after every node, and once more at the end: what the       *)
(* second free of the same memory does is not defined, the process may die *)
(* or go on.                                                               *)
(***************************************************************************)
BulkPersist ==
  /\ doc.step = "bulk" /\ doc.left > 0
  /\ PutStart(ItemOf([doc.node EXCEPT !.id = ROOT_NODE_ID]))
  /\ GoTo("bulk_put") /\ UNCHANGED it

BulkReleaseKeepsCount ==                   \* fault: the same node once more
  /\ doc.step = "bulk_release"
  /\ FreePages
  /\ GoTo("bulk_destroy")
  /\ UNCHANGED it

BulkRelease ==
  /\ doc.step = "bulk_release"
  /\ FreePages
  /\ \E value \in Values :                \* values[i] for the next i
       doc' = [doc EXCEPT !.step = "bulk_destroy", !.left = @ - 1, !.node.value = value]
  /\ UNCHANGED it

BulkGoesOn ==
  IF doc.step = "bulk_destroy" THEN GoTo("bulk") ELSE Return

Destroying == doc.step = "bulk_destroy" \/ (doc.step = "bulk" /\ doc.left = 0)

DestroyBulk == Destroying /\ Destroy /\ BulkGoesOn

DestroyTwice ==
  /\ Destroying /\ pc = "idle" /\ ~Iterating
  /\ \/ FreePages /\ BulkGoesOn
     \/ Die("aborted") /\ UNCHANGED <<disk, faults>> /\ Return
  /\ UNCHANGED it

--------------------------------------------------------------------------------
DocCrash ==
  /\ Crash
  /\ it' = NoIterator /\ Return

\* document_init, document_destroy.
Start ==
  /\ doc.step = "idle"
  /\ OpenWithoutPages \/ OpenWithPages \/ OpenAborts \/ Close
  /\ UNCHANGED <<it, doc>>

StartGoesOn ==
  /\ doc.step = "idle"
  /\ Steps
  /\ UNCHANGED <<it, doc>>

DocCalls ==
  \/ \E parent \in GivenIds \cup {NULL_NODE_ID}, value \in Values : AddNode(parent, value)
  \/ \E node \in GivenNodes : DeleteNode(node) \/ \E value \in Values : UpdateNode(node, value)
  \/ \E parent \in GivenIds, value \in Values, count \in 1 .. MaxBulk :
       AddBulkNodes(parent, value, count)
  \/ \E id \in GivenIds : GetAllChildren(id)

DocSteps ==
  \/ StartGoesOn
  \/ ScanMoves \/ ScanAborts \/ ScanPasses \/ FindsObstacle \/ ScanFinds \/ ScanEnds \/ ScanAgain
  \/ ParentFound \/ Persist \/ PutGoesOnOrDies \/ PutDone \/ Release
  \/ DeleteFound \/ DeleteGoesOn \/ Deleted \/ AddAgain
  \/ BulkPersist \/ BulkRelease \/ DestroyBulk \/ DestroyTwice

DocNext == Start \/ DocCalls \/ DocSteps \/ DocCrash

DocSpec == DocInit /\ [][DocNext]_docVars

\* The program is one thread: a call runs to its end.
DocFairSpec == DocSpec /\ WF_docVars(DocSteps)

--------------------------------------------------------------------------------
CallSteps ==
  Scans \cup { "idle", "rescan_node", "rescan_children", "parent_found", "persist", "put",
               "release", "found", "deleting", "readd", "bulk", "bulk_put", "bulk_release",
               "bulk_destroy" }

DocTypeOK ==
  /\ doc.step \in CallSteps
  /\ doc.node \in [id : NodeIds, parent_id : NodeIds, value : Values \cup {NoValue}]
  /\ doc.update \in Values \cup {NoValue}
  /\ doc.count \in Nat /\ doc.i \in Nat /\ doc.left \in 0 .. MaxBulk

(***************************************************************************)
(* The file implements the tree it promises: a node appears when its put   *)
(* is written, below a parent that is there or as the only root, with the  *)
(* parent and the value of the request; it disappears when the delete of   *)
(* it is written, and it has no children then.  No other step of any call, *)
(* and no crash, changes the tree.                                         *)
(***************************************************************************)
StoredNodes ==
  LET store == Store
  IN [a \in DOMAIN store |->
        [parent_id |-> NodeOf[store[a]].parent_id, value |-> NodeOf[store[a]].value]]

Request ==
  CASE doc.step \in {"put", "bulk_put"} ->
         [op |-> "add", parent_id |-> doc.node.parent_id, value |-> doc.node.value]
    [] doc.step = "deleting" -> [op |-> "delete", id |-> doc.node.id]
    [] OTHER -> [op |-> "none"]

Tree == INSTANCE NodeTree WITH
          Ids <- Addresses, NoParent <- NULL_NODE_ID, nodes <- StoredNodes, request <- Request

TreeKept == Tree!TreeSpec

(***************************************************************************)
(* The root is the first item of the first page, where users look for it   *)
(* by ROOT_NODE_ID, also when it was updated, or deleted and added again.  *)
(***************************************************************************)
RootIsFirst ==
  \A a \in DOMAIN Store : NodeAt(a).parent_id = NULL_NODE_ID => a = ROOT_NODE_ID

(***************************************************************************)
(* Both scans of get_all_children find every child that is in the file,    *)
(* and beyond that at most the parts of split nodes that may read as one.  *)
(* Where no part reads as a child, its count is that of the children, the  *)
(* second scan never fills more of nodes[count] than the first one made    *)
(* room for, and when it ends it has filled all of it.                     *)
(***************************************************************************)
Children == {a \in DOMAIN Store : NodeAt(a).parent_id = doc.node.id}

Lookalikes ==
  { a \in Slots(diskPages) \ DOMAIN Store :
      \E node \in Fragments[Part(diskPages, a).data.item] : node.parent_id = doc.node.id }

FoundAll(n) ==
  n \in Cardinality(Children) .. Cardinality(Children) + Cardinality(Lookalikes)

ChildrenCounted ==
  /\ doc.step \in {"rescan_children", "collect"} \/ (doc.step = "count" /\ Exhausted) =>
       FoundAll(doc.count)
  /\ doc.step = "collect" => doc.i <= Cardinality(Children) + Cardinality(Lookalikes)
  /\ doc.step = "collect" /\ Exhausted => FoundAll(doc.i)

(***************************************************************************)
(* delete_node returns "Node doesn't exist" only for a node that is not    *)
(* there: the scan does not lose the node between the first and the second *)
(* pass.                                                                   *)
(***************************************************************************)
DeletedIfThere ==
  doc.step = "find_node" /\ Exhausted => doc.node.id \notin DOMAIN Store

(***************************************************************************)
(* Between calls no iterator is left and no page is in memory but the free *)
(* page that document_init reads: every way through a call destroys its    *)
(* iterator and frees its pages.                                           *)
(***************************************************************************)
MemoryReleased ==
  Ready => ~Iterating /\ DOMAIN ram \subseteq {freePage}

(***************************************************************************)
(* Every call of the document ends: it returns, or the process dies.       *)
(***************************************************************************)
CallsEnd == doc.step # "idle" ~> doc.step = "idle"

--------------------------------------------------------------------------------
(***************************************************************************)
(* What a comment of the repository says and the code does not do:         *)
(* "if parent node is not null, then check that it exists in file"         *)
(* (document.c:131).  add_node finds a parent that is in the file.         *)
(***************************************************************************)
ParentIsFound ==
  doc.step = "find_parent" /\ Exhausted => doc.node.parent_id \notin DOMAIN Store
================================================================================
