----------------------------- MODULE DocumentProofs -----------------------------
(***************************************************************************)
(* Theorems about documents, for every page size, all nodes, any number of *)
(* pages and any crashes.  A bulk add puts nodes while its iterator is in  *)
(* use, and that one is freed twice: from where its parent is found it has *)
(* invariants of its own (BulkInv, BulkTreeInv, BulkRootInv).              *)
(***************************************************************************)
EXTENDS Document, ItemIteratorProofs

USE PageSizeAssumption, SizeAssumption, BoundsAssumption, NoFaultAssumption DEF NullPage

Node == [id : NodeIds, parent_id : NodeIds, value : Values]

\* Every node is the bytes of a payload: memory can hold any.
NodesHaveBytes == \A node \in Node : \E x \in Items : NodeOf[x] = node

--------------------------------------------------------------------------------
(***************************************************************************)
(* Where a call is: with an iterator in use, or without one.  The steps of *)
(* a bulk add from where its parent is found have an invariant of their    *)
(* own: the iterator is not used any more, and not always destroyed.       *)
(***************************************************************************)
Using == { "find_root", "find_parent", "find_children", "find_node", "find_bulk_parent", "count",
           "collect", "parent_found", "found", "deleting" }

Without == {"idle", "rescan_node", "rescan_children", "persist", "put", "release", "readd"}

BulkSteps == {"bulk", "bulk_put", "bulk_release", "bulk_destroy"}

\* The steps at which the call holds a node to be put or deleted.
WithNode == { "find_root", "find_parent", "find_bulk_parent", "parent_found", "persist",
              "find_children", "rescan_node", "find_node", "found", "deleting", "readd" }

DocTyped ==
  doc \in [ step : Using \cup Without, node : {doc.node}, update : Values \cup {NoValue},
            count : Nat, i : Nat, left : 0 .. MaxBulk ]

NodeGiven ==
  /\ doc.step \in WithNode => doc.node \in Node
  /\ doc.step = "readd" => doc.update \in Values
  /\ doc.step = "find_bulk_parent" => doc.left > 0

IteratorUsed == Iterating <=> doc.step \in Using

DocInv == DocTyped /\ NodeGiven /\ IteratorUsed

\* No call.
LEMMA NoCallOK ==
  /\ NoCall = [step |-> "idle", node |-> NoNode, update |-> -1, count |-> 0, i |-> 0, left |-> 0]
  /\ NoCall.step = "idle"
  /\ doc' = NoCall => DocTyped' /\ NodeGiven'
PROOF
<1>1. NoCall = [step |-> "idle", node |-> NoNode, update |-> -1, count |-> 0, i |-> 0, left |-> 0]
  BY DEF NoCall, NoValue
<1>2. ASSUME doc' = NoCall PROVE DocTyped' /\ NodeGiven'
  <2>1. 0 \in 0 .. MaxBulk
    BY CallersAssumption
  <2> QED BY <1>1, <1>2, <2>1 DEF DocTyped, NodeGiven, Without, WithNode, NoValue
<1> QED BY <1>1, <1>2

\* A call goes on.
LEMMA GoToOK ==
  ASSUME DocTyped, NEW step \in Using \cup Without, GoTo(step)
  PROVE  /\ doc'.step = step /\ doc'.node = doc.node /\ doc'.update = doc.update
         /\ doc'.count = doc.count
         /\ DocTyped'
  BY DEF DocTyped, GoTo

\* The bytes at the address of an item.
LEMMA StoredItem ==
  ASSUME ItInv, NEW a \in DOMAIN Store
  PROVE  a \in NodeIds /\ Part(diskPages, a).data.item \in Items
PROOF
<1>1. a \in Slots(diskPages)
  BY StoreOK
<1>2. DiskOK(diskPages)
  BY DEF ItInv, IndInv
<1>3. /\ a.page \in DOMAIN diskPages /\ a.page \in Nat /\ a.item \in Nat
      /\ HasItem(diskPages[a.page], a.item)
      /\ a = [page |-> a.page, item |-> a.item]
  BY <1>1, <1>2, SlotsOK
<1>4. a \in NodeIds
  BY <1>3 DEF NodeIds
<1>5. PageType(diskPages[a.page], PartData)
  BY <1>2, <1>3 DEF DiskOK, PageOK
<1>6. diskPages[a.page].slots[a.item] \in Slot(PartData)
  BY <1>3, <1>5 DEF PageType, HasItem
<1> QED BY <1>4, <1>6 DEF Part, Slot, PartData

\* A node that a caller may give.
LEMMA StoredIsNode ==
  ASSUME ItInv, NEW a \in DOMAIN Store
  PROVE  /\ a \in NodeIds
         /\ [NodeAt(a) EXCEPT !.id = a] \in Node
PROOF
<1>1. a \in NodeIds /\ Part(diskPages, a).data.item \in Items
  BY StoredItem
<1>2. NodeAt(a) \in Node
  BY <1>1, NodesAssumption DEF NodeAt, Node
<1>3. \A node \in Node : [node EXCEPT !.id = a] \in Node
  BY <1>1 DEF Node
<1> QED BY <1>1, <1>2, <1>3

LEMMA StaleIsNode ==
  StaleIds \subseteq NodeIds
PROOF
<1>1. MaxItemId \in Int
  BY DEF MaxItemId, HeaderSize, MetaSize
<1>2. Addresses \subseteq [page : Nat, item : Nat]
  BY <1>1 DEF Addresses
<1> QED BY <1>2, CallersAssumption DEF NodeIds

\* The payload of a node is one.
LEMMA ItemOfOK ==
  ASSUME NodesHaveBytes, NEW node \in Node
  PROVE  ItemOf(node) \in Items
  BY DEF NodesHaveBytes, ItemOf

--------------------------------------------------------------------------------
(***************************************************************************)
(* The iterator is in use after these steps of it.                         *)
(***************************************************************************)
LEMMA StartsUsing ==
  ASSUME NewIterator
  PROVE  Iterating' /\ ~Iterating /\ it'.payloads = <<>>
PROOF
<1> DEFINE id == Read(0).page_id
<1>1. it' = [page |-> id, next |-> 1, index |-> -1, moving |-> FALSE, payloads |-> <<>>]
  BY NoIteratorOK DEF NewIterator, NewOn
<1> HIDE DEF id
<1> QED BY <1>1, NoIteratorOK DEF Iterating, NewIterator

LEMMA KeepsUsing ==
  ASSUME ItInv, NextPage \/ GetNext
  PROVE  /\ Iterating /\ Iterating'
         /\ NextPage => it'.payloads = it.payloads
         /\ GetNext => it'.payloads = Append(it.payloads, NextItem)
PROOF
<1>1. /\ ItTyped /\ Iterating /\ pc = "idle"
  BY DEF ItInv, NextPage, MovesOn, GetNext
<1>2. it.next \in Nat \ {0}
  BY <1>1 DEF ItInv, ItPlace
<1>3. CASE NextPage
  <2> DEFINE p == diskPages[it.next]
             passes == PassesOver(p)
             index == IF passes THEN it.index ELSE -1
  <2>1. Arrive(p, passes)
    BY <1>3 DEF NextPage, MoveTo
  <2>2. it' = [it EXCEPT !.page = p.page_id, !.next = it.next + 1, !.moving = passes,
                         !.index = index]
    BY <2>1 DEF Arrive
  <2> HIDE DEF p, passes, index
  <2>3. it'.next = it.next + 1 /\ it'.payloads = it.payloads
    BY <1>1, <2>2 DEF ItTyped
  <2>4. it' # NoIterator
    BY <1>2, <2>3, NoIteratorOK
  <2>5. ~ GetNext
    BY <1>3 DEF GetNext, NextPage, MovesOn
  <2> QED BY <1>1, <2>3, <2>4, <2>5 DEF Iterating
<1>4. CASE GetNext
  <2> DEFINE k == it.index + 1
             longer == Append(it.payloads, NextItem)
  <2>1. it' = [it EXCEPT !.index = k, !.payloads = longer]
    BY <1>4 DEF GetNext
  <2> HIDE DEF k, longer
  <2>2. it'.next = it.next /\ it'.payloads = longer
    BY <1>1, <2>1 DEF ItTyped
  <2>3. it' # NoIterator
    BY <1>2, <2>2, NoIteratorOK
  <2>4. ~ NextPage
    BY <1>4 DEF GetNext, NextPage, MovesOn
  <2> QED BY <1>1, <2>2, <2>3, <2>4 DEF Iterating, longer
<1> QED BY <1>3, <1>4

--------------------------------------------------------------------------------
(***************************************************************************)
(* Every step of a call is a step of the iterator, or one of the heap file *)
(* while no iterator is in use.                                            *)
(***************************************************************************)
DocOK == [ItNext]_itVars /\ DocInv'

\* A step of the heap file when no iterator is in use.
LEMMA HeapStepOK ==
  ASSUME DocInv, doc.step \in Without, Next, UNCHANGED it
  PROVE  ItNext /\ ~Iterating /\ ~Iterating'
PROOF
<1>1. doc.step \notin Using
  BY DEF Using, Without
<1> QED BY <1>1 DEF DocInv, IteratorUsed, Iterating, ItNext

\* The program starts and stops between calls.
LEMMA StartOK ==
  ASSUME DocInv, Start \/ StartGoesOn
  PROVE  DocOK
PROOF
<1>1. doc.step = "idle" /\ Next /\ it' = it /\ doc' = doc
  BY Zenon DEF Start, StartGoesOn, Next, Calls
<1>2. ItNext /\ ~Iterating /\ ~Iterating'
  BY <1>1, HeapStepOK DEF Without
<1>3. DocInv'
  BY <1>1, <1>2 DEF DocInv, DocTyped, NodeGiven, IteratorUsed
<1> QED BY <1>2, <1>3 DEF DocOK

\* A call that is over, and its iterator with it.
LEMMA ReturnOK ==
  ASSUME Return, ~Iterating'
  PROVE  DocInv'
PROOF
<1>1. doc'.step = "idle" /\ DocTyped' /\ NodeGiven'
  BY NoCallOK DEF Return
<1> QED BY <1>1 DEF DocInv, IteratorUsed, Using

\* A node is to be added by a call that is new, or by an update.
LEMMA AddIntoOK ==
  ASSUME NEW node \in Node, NEW call, AddInto(node, call), Iterating',
         call \in [ step : Using \cup Without, node : {call.node},
                    update : Values \cup {NoValue}, count : Nat, i : Nat, left : 0 .. MaxBulk ]
  PROVE  DocInv'
PROOF
<1> DEFINE step == IF node.parent_id = NULL_NODE_ID THEN "find_root" ELSE "find_parent"
<1>1. doc' = [call EXCEPT !.node = node, !.step = step]
  BY DEF AddInto
<1>2. step \in {"find_root", "find_parent"}
  OBVIOUS
<1> HIDE DEF step
<1>3. /\ doc' = [ step |-> step, node |-> node, update |-> call.update,
                  count |-> call.count, i |-> call.i, left |-> call.left ]
      /\ call.update \in Values \cup {NoValue} /\ call.count \in Nat /\ call.i \in Nat
      /\ call.left \in 0 .. MaxBulk
  BY <1>1
<1>4. doc'.step = step /\ doc'.node = node /\ DocTyped'
  BY <1>2, <1>3 DEF DocTyped, Using
<1> QED BY <1>2, <1>4 DEF DocInv, NodeGiven, IteratorUsed, Using

\* A call starts with an iterator.
LEMMA CallOK ==
  ASSUME ItInv, DocInv, DocCalls
  PROVE  DocOK
PROOF
<1>1. NoCall \in [ step : Using \cup Without, node : {NoCall.node},
                   update : Values \cup {NoValue}, count : Nat, i : Nat, left : 0 .. MaxBulk ]
  BY NoCallOK, CallersAssumption DEF Without, NoValue
<1>2. GivenIds \subseteq NodeIds /\ NULL_NODE_ID \in NodeIds /\ ROOT_NODE_ID \in NodeIds
  BY StoredIsNode, StaleIsNode DEF GivenIds, NodeIds, ROOT_NODE_ID, Address
<1>3. ASSUME NEW parent \in GivenIds \cup {NULL_NODE_ID}, NEW value \in Values,
             AddNode(parent, value)
      PROVE  DocOK
  <2>1. NewIterator /\ AddInto(NewNode(parent, value), NoCall)
    BY <1>3 DEF AddNode
  <2>2. NewNode(parent, value) \in Node
    BY <1>2 DEF NewNode, Node
  <2>3. Iterating'
    BY <2>1, StartsUsing
  <2>4. DocInv'
    BY <1>1, <2>1, <2>2, <2>3, AddIntoOK
  <2> QED BY <2>1, <2>4 DEF DocOK, ItNext
<1>4. ASSUME NEW node \in GivenNodes, NEW update \in Values \cup {NoValue},
             NewIterator, DeleteFirst(node, update)
      PROVE  DocOK
  <2>1. node \in Node
    <3>1. [id : StaleIds, parent_id : StaleIds \cup {NULL_NODE_ID}, value : Values]
            \subseteq Node
      BY <1>2, StaleIsNode DEF Node
    <3>2. { [NodeAt(a) EXCEPT !.id = a] : a \in DOMAIN Store } \subseteq Node
      BY StoredIsNode
    <3> QED BY <3>1, <3>2 DEF GivenNodes
  <2>2. doc' = [ step |-> "find_children", node |-> node, update |-> update,
                 count |-> 0, i |-> 0, left |-> 0 ]
    BY <1>4, NoCallOK DEF DeleteFirst
  <2>3. Iterating'
    BY <1>4, StartsUsing
  <2>4. DocInv'
    BY <2>1, <2>2, <2>3, CallersAssumption DEF DocInv, DocTyped, NodeGiven, IteratorUsed, Using
  <2> QED BY <1>4, <2>4 DEF DocOK, ItNext
<1>5. ASSUME NEW id \in GivenIds, GetAllChildren(id)
      PROVE  DocOK
  <2> DEFINE node == [NoNode EXCEPT !.id = id]
  <2>1. NewIterator /\ doc' = [NoCall EXCEPT !.step = "count", !.node.id = id]
    BY <1>5 DEF GetAllChildren
  <2>2. doc' = [step |-> "count", node |-> node, update |-> -1, count |-> 0, i |-> 0, left |-> 0]
    BY <2>1, NoCallOK
  <2> HIDE DEF node
  <2>3. Iterating'
    BY <2>1, StartsUsing
  <2>4. DocInv'
    BY <2>2, <2>3, CallersAssumption
    DEF DocInv, DocTyped, NodeGiven, IteratorUsed, Using, WithNode, NoValue
  <2> QED BY <2>1, <2>4 DEF DocOK, ItNext
<1>6. ASSUME NEW parent \in GivenIds, NEW value \in Values, NEW count \in 1 .. MaxBulk,
             AddBulkNodes(parent, value, count)
      PROVE  DocOK
  <2> DEFINE node == NewNode(parent, value)
  <2>1. /\ NewIterator
        /\ doc' = [NoCall EXCEPT !.step = "find_bulk_parent", !.node = node, !.left = count]
    BY <1>6 DEF AddBulkNodes
  <2>2. node \in Node
    BY <1>2 DEF NewNode, Node
  <2> HIDE DEF node
  <2>3. doc' = [ step |-> "find_bulk_parent", node |-> node, update |-> -1, count |-> 0, i |-> 0,
                 left |-> count ]
    BY <2>1, NoCallOK
  <2>4. count \in 0 .. MaxBulk /\ count > 0
    BY CallersAssumption
  <2>5. Iterating'
    BY <2>1, StartsUsing
  <2>6. DocInv'
    BY <2>2, <2>3, <2>4, <2>5 DEF DocInv, DocTyped, NodeGiven, IteratorUsed, Using, NoValue
  <2> QED BY <2>1, <2>6 DEF DocOK, ItNext
<1>7. ASSUME NEW node \in GivenNodes, DeleteNode(node) PROVE DocOK
  BY <1>4, <1>7 DEF DeleteNode
<1>8. ASSUME NEW node \in GivenNodes, NEW value \in Values, UpdateNode(node, value)
      PROVE  DocOK
  BY <1>4, <1>8 DEF UpdateNode
<1> QED BY <1>3, <1>5, <1>6, <1>7, <1>8, Zenon DEF DocCalls

\* A step that goes on to another one with the node it has.
LEMMA GoesOnOK ==
  ASSUME DocInv, NEW step \in Using \cup Without, GoTo(step), step # "find_bulk_parent",
         step \in WithNode => doc.step \in WithNode,
         step = "readd" => doc.update # NoValue,
         Iterating' <=> step \in Using
  PROVE  DocInv'
PROOF
<1>1. /\ doc'.step = step /\ doc'.node = doc.node /\ doc'.update = doc.update
      /\ DocTyped'
  BY GoToOK DEF DocInv
<1>2. doc.update \in Values \cup {NoValue}
  BY DEF DocInv, DocTyped
<1> QED BY <1>1, <1>2 DEF DocInv, NodeGiven, IteratorUsed

\* A scan goes on.
LEMMA ScanOK ==
  ASSUME ItInv, DocInv, ScanMoves \/ ScanPasses \/ ScanAborts \/ FindsObstacle
  PROVE  DocOK
PROOF
<1>1. CASE ScanMoves \/ ScanPasses
  <2>1. (NextPage \/ GetNext) /\ doc' = doc
    BY <1>1 DEF ScanMoves, ScanPasses
  <2>2. Iterating /\ Iterating'
    BY <2>1, KeepsUsing
  <2>3. DocInv'
    BY <2>1, <2>2 DEF DocInv, DocTyped, NodeGiven, IteratorUsed
  <2> QED BY <2>1, <2>3 DEF DocOK, ItNext
<1>2. CASE ScanAborts \/ FindsObstacle
  <2>1. (NextPageAborts \/ GetNextAborts \/ UserExits) /\ Return
    BY <1>2 DEF ScanAborts, FindsObstacle
  <2>2. ~Iterating'
    BY <2>1 DEF NextPageAborts, GetNextAborts, UserExits, Iterating
  <2> QED BY <2>1, <2>2, ReturnOK DEF DocOK, ItNext
<1> QED BY <1>1, <1>2

\* An item is what the scan looks for.
LEMMA ScanFindsOK ==
  ASSUME ItInv, DocInv, ScanFinds, doc'.step \notin BulkSteps
  PROVE  DocOK
PROOF
<1>1. /\ GetNext /\ Found(doc.step) /\ doc.step \in Scans
      /\ doc.step \notin {"find_root", "find_children"}
  BY DEF ScanFinds, Scanning
<1>2. Iterating /\ Iterating'
  BY <1>1, KeepsUsing
<1>3. doc.step \in {"find_parent", "find_node", "count", "collect"}
  <2>1. doc.step = "find_bulk_parent" => GoTo("bulk")
    BY <1>1 DEF Found
  <2>2. ~ GoTo("bulk")
    BY DEF GoTo, DocInv, DocTyped, BulkSteps
  <2> QED BY <1>1, <2>1, <2>2 DEF Scans
<1> SUFFICES DocInv'
  BY <1>1 DEF DocOK, ItNext
<1>4. CASE doc.step = "find_parent"
  <2>1. GoTo("parent_found")
    BY <1>1, <1>4 DEF Found
  <2> QED BY <1>2, <1>4, <2>1, GoesOnOK DEF Using, WithNode
<1>5. CASE doc.step = "find_node"
  <2>1. GoTo("found")
    BY <1>1, <1>5 DEF Found
  <2> QED BY <1>2, <1>5, <2>1, GoesOnOK DEF Using, WithNode
<1>6. CASE doc.step = "count"
  <2>1. doc' = [doc EXCEPT !.count = doc.count + 1]
    BY <1>1, <1>6 DEF Found
  <2>2. doc'.step = "count" /\ DocTyped'
    BY <1>6, <2>1 DEF DocInv, DocTyped, Using
  <2> QED BY <1>2, <2>2 DEF DocInv, NodeGiven, IteratorUsed, WithNode, Using
<1>7. CASE doc.step = "collect"
  <2>1. doc' = [doc EXCEPT !.i = doc.i + 1]
    BY <1>1, <1>7 DEF Found
  <2>2. doc'.step = "collect" /\ DocTyped'
    BY <1>7, <2>1 DEF DocInv, DocTyped, Using
  <2> QED BY <1>2, <2>2 DEF DocInv, NodeGiven, IteratorUsed, WithNode, Using
<1> QED BY <1>3, <1>4, <1>5, <1>6, <1>7

\* No item was.
LEMMA ScanEndsOK ==
  ASSUME ItInv, DocInv, ScanEnds
  PROVE  DocOK
PROOF
<1>1. Destroy /\ AfterScan /\ doc.step \in Scans
  BY DEF ScanEnds, Scanning
<1>2. ~Iterating'
  BY <1>1 DEF Destroy, Iterating
<1>3. CASE Return
  BY <1>1, <1>2, <1>3, ReturnOK DEF DocOK, ItNext
<1>4. CASE doc.step = "find_root"
  <2> DEFINE node == [doc.node EXCEPT !.id = ROOT_NODE_ID]
  <2>1. doc' = [doc EXCEPT !.step = "persist", !.node.id = ROOT_NODE_ID]
    BY <1>1, <1>4 DEF AfterScan
  <2>2. doc.node \in Node
    BY <1>4 DEF DocInv, NodeGiven, WithNode
  <2>3. node \in Node
    <3>1. ROOT_NODE_ID \in NodeIds
      BY DEF ROOT_NODE_ID, Address, NodeIds
    <3> QED BY <2>2, <3>1 DEF Node
  <2>4. doc'.step = "persist" /\ doc'.node = node /\ DocTyped'
    BY <2>1 DEF DocInv, DocTyped, Without
  <2> QED BY <1>1, <1>2, <2>3, <2>4 DEF DocOK, DocInv, NodeGiven, IteratorUsed, Using, ItNext
<1>5. CASE doc.step = "find_children"
  <2>1. GoTo("rescan_node")
    BY <1>1, <1>5 DEF AfterScan
  <2> QED BY <1>1, <1>2, <1>5, <2>1, GoesOnOK DEF Using, Without, WithNode, DocOK, ItNext
<1>6. CASE doc.step = "count" /\ ~Return
  <2>1. GoTo("rescan_children")
    BY <1>1, <1>6 DEF AfterScan
  <2> QED BY <1>1, <1>2, <1>6, <2>1, GoesOnOK DEF Using, Without, WithNode, DocOK, ItNext
<1>7. doc.step \in {"find_parent", "find_node", "find_bulk_parent", "collect"} => Return
  BY <1>1 DEF AfterScan
<1> QED BY <1>1, <1>3, <1>4, <1>5, <1>6, <1>7 DEF Scans

\* The second scan starts.
LEMMA ScanAgainOK ==
  ASSUME DocInv, ScanAgain
  PROVE  DocOK
PROOF
<1>1. NewIterator /\ Iterating'
  BY StartsUsing DEF ScanAgain
<1>2. CASE doc.step = "rescan_node"
  <2>1. GoTo("find_node")
    BY <1>2 DEF ScanAgain
  <2> QED BY <1>1, <1>2, <2>1, GoesOnOK DEF Using, WithNode, DocOK, ItNext
<1>3. CASE doc.step = "rescan_children"
  <2>1. GoTo("collect")
    BY <1>3 DEF ScanAgain
  <2> QED BY <1>1, <1>3, <2>1, GoesOnOK DEF Using, WithNode, DocOK, ItNext
<1> QED BY <1>2, <1>3 DEF ScanAgain

\* A node is put.
LEMMA PersistsOK ==
  ASSUME NodesHaveBytes, DocInv,
         ParentFound \/ Persist \/ PutGoesOnOrDies \/ PutDone \/ Release
  PROVE  DocOK
PROOF
<1>1. CASE ParentFound
  <2>1. Destroy /\ GoTo("persist") /\ doc.step = "parent_found"
    BY <1>1 DEF ParentFound
  <2>2. ~Iterating'
    BY <2>1 DEF Destroy, Iterating
  <2> QED BY <2>1, <2>2, GoesOnOK DEF Using, Without, WithNode, DocOK, ItNext
<1>2. CASE Persist
  <2>1. /\ PutStart(ItemOf(doc.node)) /\ GoTo("put") /\ it' = it
        /\ doc.step = "persist"
    BY <1>2 DEF Persist
  <2>2. ItemOf(doc.node) \in Items
    BY <2>1, ItemOfOK DEF DocInv, NodeGiven, WithNode
  <2>3. Next
    BY <2>1, <2>2, Zenon DEF Next, Calls
  <2>4. ItNext /\ ~Iterating'
    BY <2>1, <2>3, HeapStepOK DEF Without
  <2> QED BY <2>1, <2>4, GoesOnOK DEF Using, Without, WithNode, DocOK
<1>3. CASE PutGoesOnOrDies
  <2>1. doc.step = "put" /\ ~Iterating
    BY <1>3 DEF PutGoesOnOrDies, DocInv, DocTyped, IteratorUsed, Using, Without
  <2>2. it' = it /\ (Return \/ doc' = doc)
    BY <1>3, <2>1 DEF PutGoesOnOrDies, Iterating
  <2>3. Next
    BY <1>3, Zenon DEF PutGoesOnOrDies, Next
  <2>4. ItNext /\ ~Iterating'
    BY <2>1, <2>2, <2>3, HeapStepOK DEF Without
  <2>5. CASE Return
    BY <2>4, <2>5, ReturnOK DEF DocOK
  <2>6. CASE doc' = doc
    BY <2>1, <2>4, <2>6 DEF DocOK, DocInv, DocTyped, NodeGiven, IteratorUsed
  <2> QED BY <2>2, <2>5, <2>6
<1>4. CASE PutDone
  <2>1. doc.step = "put" /\ PutReturns /\ it' = it
    BY <1>4 DEF PutDone, DocInv, DocTyped, Using, Without
  <2>2. doc' = [doc EXCEPT !.node.id = put.result, !.step = "release"]
    BY <1>4, <2>1 DEF PutDone
  <2>3. Next
    BY <2>1, Zenon DEF Next, Steps
  <2>4. ItNext /\ ~Iterating'
    BY <2>1, <2>3, HeapStepOK DEF Without
  <2>5. doc'.step = "release" /\ DocTyped'
    BY <2>2 DEF DocInv, DocTyped, Without
  <2> QED BY <2>4, <2>5 DEF DocOK, DocInv, NodeGiven, IteratorUsed, WithNode, Using
<1>5. CASE Release
  <2>1. doc.step = "release" /\ FreePages /\ Return /\ it' = it
    BY <1>5 DEF Release
  <2>2. Next
    BY <2>1, Zenon DEF Next, Calls
  <2>3. ItNext /\ ~Iterating'
    BY <2>1, <2>2, HeapStepOK DEF Without
  <2> QED BY <2>1, <2>3, ReturnOK DEF DocOK
<1> QED BY <1>1, <1>2, <1>3, <1>4, <1>5

\* A node is deleted, or updated.
LEMMA DeletesOK ==
  ASSUME ItInv, DocInv, DeleteFound \/ DeleteGoesOn \/ Deleted \/ AddAgain
  PROVE  DocOK
PROOF
<1>1. CASE DeleteFound
  <2>1. doc.step = "found" /\ DeleteCurrent /\ GoTo("deleting")
    BY <1>1 DEF DeleteFound
  <2>2. Iterating'
    BY <2>1 DEF DeleteCurrent, Iterating
  <2> QED BY <2>1, <2>2, GoesOnOK DEF Using, WithNode, DocOK, ItNext
<1>2. CASE DeleteGoesOn
  <2>1. doc.step = "deleting" /\ DeletePart /\ it' = it /\ doc' = doc
    BY <1>2 DEF DeleteGoesOn
  <2>2. Iterating /\ Iterating'
    BY <2>1 DEF DocInv, IteratorUsed, Iterating, Using
  <2>3. DocInv'
    BY <2>1, <2>2 DEF DocInv, DocTyped, NodeGiven, IteratorUsed
  <2> QED BY <2>1, <2>2, <2>3 DEF DocOK, ItNext
<1>3. CASE Deleted
  <2>1. doc.step = "deleting" /\ Destroy /\ (Return \/ GoTo("readd"))
    BY <1>3 DEF Deleted
  <2>2. ~Iterating'
    BY <2>1 DEF Destroy, Iterating
  <2>3. DocInv'
    BY <1>3, <2>1, <2>2, ReturnOK, GoesOnOK DEF Deleted, Using, Without, WithNode
  <2> QED BY <2>1, <2>3 DEF DocOK, ItNext
<1>4. CASE AddAgain
  <2> DEFINE node == [doc.node EXCEPT !.value = doc.update]
  <2>1. NewIterator /\ AddInto(node, doc) /\ doc.step = "readd"
    BY <1>4 DEF AddAgain
  <2>2. doc.node \in Node /\ doc.update \in Values
    BY <2>1 DEF DocInv, NodeGiven, WithNode
  <2>3. node \in Node
    BY <2>1, <2>2 DEF Node
  <2>4. Iterating'
    BY <2>1, StartsUsing
  <2>5. DocInv'
    BY <2>1, <2>3, <2>4, AddIntoOK DEF DocInv, DocTyped
  <2> QED BY <2>1, <2>5 DEF DocOK, ItNext
<1> QED BY <1>1, <1>2, <1>3, <1>4

--------------------------------------------------------------------------------
(***************************************************************************)
(* The invariant: that of the iterator, and where the call is.             *)
(***************************************************************************)
\* At first there is no call.
LEMMA InitDoc == DocInit => DocInv
PROOF
<1> SUFFICES ASSUME DocInit PROVE DocInv
  OBVIOUS
<1>1. doc = NoCall /\ ~Iterating
  BY DEF DocInit, ItInit, Iterating
<1> QED BY <1>1, NoCallOK, CallersAssumption DEF DocInv, DocTyped, NodeGiven, IteratorUsed,
       Using, Without, WithNode, NoValue

\* The call dies with the process.
LEMMA DocCrashOK ==
  ASSUME DocInv, DocCrash
  PROVE  DocOK
PROOF
<1>1. Crash /\ it' = NoIterator /\ Return
  BY DEF DocCrash
<1>2. ~Iterating'
  BY <1>1 DEF Iterating
<1>3. CASE Iterating
  BY <1>1, <1>2, <1>3, ReturnOK DEF DocOK, ItNext, ItCrash
<1>4. CASE ~Iterating
  <2>1. Next /\ it' = it
    BY <1>1, <1>4 DEF Next, Iterating
  <2> QED BY <1>1, <1>2, <1>4, <2>1, ReturnOK DEF DocOK, ItNext
<1> QED BY <1>3, <1>4

\* Every step of a document is one of its iterator, or one that the iterator does not see.
LEMMA NextDoc ==
  ASSUME NodesHaveBytes, ItInv, DocInv, [DocNext]_docVars, doc'.step \notin BulkSteps
  PROVE  DocOK
PROOF
<1>1. CASE Start \/ StartGoesOn
  BY <1>1, StartOK
<1>2. CASE DocCalls
  BY <1>2, CallOK
<1>3. CASE ScanMoves \/ ScanPasses \/ ScanAborts \/ FindsObstacle
  BY <1>3, ScanOK
<1>4. CASE ScanFinds
  BY <1>4, ScanFindsOK
<1>5. CASE ScanEnds
  BY <1>5, ScanEndsOK
<1>6. CASE ScanAgain
  BY <1>6, ScanAgainOK
<1>7. CASE ParentFound \/ Persist \/ PutGoesOnOrDies \/ PutDone \/ Release
  BY <1>7, PersistsOK
<1>8. CASE DeleteFound \/ DeleteGoesOn \/ Deleted \/ AddAgain
  BY <1>8, DeletesOK
<1>9. ~ (BulkPersist \/ BulkRelease \/ DestroyBulk \/ DestroyTwice)
  <2>1. doc.step \notin {"bulk", "bulk_release", "bulk_destroy"}
    BY DEF DocInv, DocTyped, Using, Without
  <2> QED BY <2>1 DEF BulkPersist, BulkRelease, DestroyBulk, DestroyTwice, Destroying
<1>10. CASE DocCrash
  BY <1>10, DocCrashOK
<1>11. CASE UNCHANGED docVars
  <2>1. UNCHANGED itVars /\ it' = it /\ doc' = doc
    BY <1>11, Zenon DEF docVars, itVars
  <2> QED BY <2>1 DEF DocOK, DocInv, DocTyped, NodeGiven, IteratorUsed, Iterating
<1> QED BY <1>1, <1>2, <1>3, <1>4, <1>5, <1>6, <1>7, <1>8, <1>9, <1>10, <1>11,
           Zenon DEF DocNext, DocSteps

--------------------------------------------------------------------------------
(***************************************************************************)
(* A bulk add from where its parent is found on.  It puts one node after   *)
(* the other; the iterator is destroyed after the first one, and what it   *)
(* would find is not looked at any more.  Every step is one of the heap    *)
(* file, or the abort of a second free of the same memory.                 *)
(***************************************************************************)
HeapInv == IndInv /\ ContInv /\ FileInv

\* The node that is put again and again.
BulkNode == [doc.node EXCEPT !.id = ROOT_NODE_ID]

BulkTyped ==
  /\ doc \in [ step : BulkSteps, node : {doc.node}, update : Values \cup {NoValue},
               count : Nat, i : Nat, left : 0 .. MaxBulk ]
  /\ doc.node \in [id : {doc.node.id}, parent_id : NodeIds, value : Values]
  /\ doc.step \in {"bulk_put", "bulk_release"} => doc.left > 0

BulkInv == HeapInv /\ BulkTyped /\ pc # "delete"

Aborts == Die("aborted") /\ UNCHANGED <<disk, faults>>

LEMMA NextHeap ==
  ASSUME HeapInv, [Next]_vars \/ Aborts
  PROVE  HeapInv'
PROOF
<1>1. CASE [Next]_vars
  <2>1. IndInv'
    BY <1>1, NextIndInv DEF HeapInv
  <2>2. FileInv'
    BY <1>1, <2>1, NextFileInv DEF HeapInv
  <2>3. CASE Next
    BY <2>1, <2>2, <2>3, NextElsewhere DEF HeapInv
  <2>4. CASE UNCHANGED vars
    <3>1. UNCHANGED <<diskPages, ram, pc, put>>
      BY <2>4, Zenon DEF vars, disk, memory
    <3> QED BY <2>1, <2>2, <3>1 DEF HeapInv, ContInv
  <2> QED BY <1>1, <2>3, <2>4
<1>2. CASE Aborts
  <2>1. IndInv'
    BY <1>2, DieOK DEF Aborts, HeapInv, IndInv, Types, disk, Dead
  <2>2. ContInv'
    BY <1>2, DieElsewhere DEF Aborts, HeapInv, disk, Dead
  <2>3. FileInv'
    BY <1>2, DieFile DEF Aborts, HeapInv, FileInv, disk, Dead
  <2> QED BY <2>1, <2>2, <2>3 DEF HeapInv
<1> QED BY <1>1, <1>2

\* A step of an operation keeps the item of its put, or ends the put.
LEMMA StepsPut ==
  ASSUME IndInv, Steps, put'.item # -1
  PROVE  put'.item = put.item /\ (Putting' => Putting)
PROOF
<1>1. put \in PutType /\ Outcomes = {TRUE} /\ WriteOutcomes = {TRUE}
  BY NoFaults DEF IndInv, Types
<1>2. CASE put'.item = put.item /\ put'.written = put.written
  BY <1>2 DEF Putting, Left
<1>3. put' # NoPut
  BY NoPutOK
<1>4. CASE AllocPage(TRUE)
  <2>1. put' = [put EXCEPT !.free = header.page_count]
    BY <1>4 DEF AllocPage, CountPage
  <2> QED BY <1>1, <1>2, <2>1 DEF PutType
<1>5. CASE WriteNewPage(TRUE)
  <2>1. put' = [put EXCEPT !.free = put.free]
    BY <1>3, <1>5 DEF WriteNewPage, NewPageReturned
  <2> QED BY <1>1, <1>2, <2>1 DEF PutType
<1>6. CASE SetFreePage(TRUE)
  <2>1. PutGoesOn /\ put.caller \in {"get_page", "full", "split"}
    BY <1>1, <1>6 DEF SetFreePage, IndInv, PutInv, PutType
  <2>2. put'.item = put.item /\ put'.written = put.written
    BY <1>1, <2>1 DEF PutGoesOn, PutType
  <2> QED BY <1>2, <2>2
<1>7. CASE PageFull \/ SplitItem \/ ItemFits
  <2>1. put'.item = put.item /\ put'.written = put.written
    BY <1>1, <1>7 DEF PageFull, SplitItem, ItemFits, PutType
  <2> QED BY <1>2, <2>1
<1>8. CASE AddPart
  <2>1. put.item \in Items /\ put.item # -1 /\ Left > 0 /\ put'.item = put.item
    BY <1>8, AddPartEffect, ItemsAssumption
  <2> QED BY <2>1 DEF Putting
<1>9. CASE DeletePart
  BY <1>2, <1>9 DEF DeletePart, DeleteSlot
<1>10. ~ (AddPartAborts \/ PutReturns \/ WriteAborts)
  BY <1>3 DEF AddPartAborts, PutReturns, WriteAborts, Die
<1> QED BY <1>1, <1>4, <1>5, <1>6, <1>7, <1>8, <1>9, <1>10 DEF Steps

\* A step of an operation that leaves a delete in progress is one of it.
LEMMA StepsDelete ==
  ASSUME IndInv, Steps, pc' = "delete"
  PROVE  DeletePart
PROOF
<1>1. ASSUME NEW ok \in WriteOutcomes, AllocPage(ok) \/ WriteNewPage(ok) \/ SetFreePage(ok)
      PROVE  FALSE
  <2>1. ~ (AllocPage(ok) \/ WriteNewPage(ok))
    BY DEF AllocPage, CountPage, WriteNewPage, NewPageReturned
  <2>2. CASE SetFreePage(ok)
    <3>1. put.caller \in {"get_page", "full", "split"}
      BY <2>2 DEF SetFreePage, IndInv, PutInv, Types, PutType
    <3> QED BY <2>2, <3>1 DEF SetFreePage, PutGoesOn
  <2> QED BY <1>1, <2>1, <2>2
<1>2. ~ (PageFull \/ SplitItem \/ ItemFits \/ AddPart \/ AddPartAborts \/ PutReturns
         \/ WriteAborts)
  BY DEF PageFull, SplitItem, ItemFits, AddPart, WritePart, AddPartAborts, PutReturns,
     WriteAborts, Die
<1> QED BY <1>1, <1>2, Zenon DEF Steps

\* The node has bytes of its own.
LEMMA BulkNodeOK ==
  ASSUME BulkTyped
  PROVE  /\ BulkNode \in Node
         /\ BulkNode.parent_id = doc.node.parent_id /\ BulkNode.value = doc.node.value
PROOF
<1>1. ROOT_NODE_ID \in NodeIds
  BY DEF ROOT_NODE_ID, Address, NodeIds
<1> QED BY <1>1 DEF BulkTyped, BulkNode, Node

\* The steps of a bulk add.
LEMMA BulkGoes ==
  ASSUME BulkTyped, [DocNext]_docVars
  PROVE  \/ BulkPersist \/ PutGoesOnOrDies \/ PutDone \/ BulkRelease
         \/ DestroyBulk \/ DestroyTwice \/ DocCrash \/ UNCHANGED docVars
PROOF
<1>1. doc.step \notin Scans \cup { "idle", "rescan_node", "rescan_children", "parent_found",
                                   "persist", "put", "release", "found", "deleting", "readd" }
  BY DEF BulkTyped, BulkSteps, Scans
<1>2. ~ (Start \/ StartGoesOn \/ DocCalls)
  BY <1>1 DEF Start, StartGoesOn, DocCalls, AddNode, DeleteNode, UpdateNode, AddBulkNodes,
     GetAllChildren, Ready
<1>3. ~ (ScanMoves \/ ScanAborts \/ ScanPasses \/ FindsObstacle \/ ScanFinds \/ ScanEnds
         \/ ScanAgain)
  BY <1>1 DEF ScanMoves, ScanAborts, ScanPasses, FindsObstacle, ScanFinds, ScanEnds, ScanAgain,
     Scanning, Scans
<1>4. ~ (ParentFound \/ Persist \/ Release \/ DeleteFound \/ DeleteGoesOn \/ Deleted
         \/ AddAgain)
  BY <1>1 DEF ParentFound, Persist, Release, DeleteFound, DeleteGoesOn, Deleted, AddAgain
<1> QED BY <1>2, <1>3, <1>4, Zenon DEF DocNext, DocSteps

\* The heap file takes part in each of them.
LEMMA BulkHeap ==
  ASSUME NodesHaveBytes, BulkTyped, [DocNext]_docVars
  PROVE  [Next]_vars \/ Aborts
PROOF
<1>1. CASE BulkPersist
  <2>1. PutStart(ItemOf(BulkNode))
    BY <1>1 DEF BulkPersist, BulkNode
  <2>2. ItemOf(BulkNode) \in Items
    BY BulkNodeOK, ItemOfOK
  <2> QED BY <2>1, <2>2, Zenon DEF Next, Calls
<1>2. CASE PutGoesOnOrDies \/ PutDone
  BY <1>2, Zenon DEF PutGoesOnOrDies, PutDone, Next, Steps
<1>3. CASE BulkRelease
  BY <1>3, Zenon DEF BulkRelease, Next, Calls
<1>4. CASE DestroyBulk
  <2>1. FreePages
    BY <1>4 DEF DestroyBulk, Destroy, FreePages
  <2> QED BY <2>1, Zenon DEF Next, Calls
<1>5. CASE DestroyTwice
  BY <1>5, Zenon DEF DestroyTwice, Aborts, Next, Calls
<1>6. CASE DocCrash \/ UNCHANGED docVars
  BY <1>6, Zenon DEF DocCrash, docVars, itVars, Next
<1> QED BY <1>1, <1>2, <1>3, <1>4, <1>5, <1>6, BulkGoes

\* A bulk add goes on, or it is over with nothing in memory.
BulkOn == BulkInv' /\ doc'.node.parent_id = doc.node.parent_id

BulkOver ==
  /\ Return /\ ItInv' /\ DocInv'
  /\ pc' \in Dead \/ (pc' = "idle" /\ ram' = NoPages)

LEMMA BulkReturns ==
  ASSUME HeapInv', Return, it' = NoIterator \/ (it' = it /\ ~Iterating),
         pc' \in Dead \/ (pc' = "idle" /\ ram' = NoPages)
  PROVE  BulkOver
PROOF
<1>1. it' = NoIterator
  BY DEF Iterating
<1>2. ~Iterating' /\ ItTyped' /\ ItList' /\ ItAll'
  BY <1>1, NoIteratorNext
<1>3. ItInv'
  BY <1>2 DEF ItInv, ItPlace, HeapInv
<1>4. DocInv'
  BY <1>2, ReturnOK
<1> QED BY <1>3, <1>4 DEF BulkOver

LEMMA NextBulk ==
  ASSUME NodesHaveBytes, BulkInv, [DocNext]_docVars
  PROVE  HeapInv' /\ (BulkOn \/ BulkOver)
PROOF
<1>1. HeapInv'
  BY BulkHeap, NextHeap DEF BulkInv
<1>2. ASSUME NEW step \in BulkSteps, GoTo(step), pc' # "delete",
             step \in {"bulk_put", "bulk_release"} => doc.left > 0
      PROVE  BulkOn
  <2>1. BulkTyped' /\ doc'.node = doc.node
    BY <1>2 DEF BulkInv, BulkTyped, GoTo
  <2> QED BY <1>1, <1>2, <2>1 DEF BulkInv, BulkOn
<1>3. CASE doc' = doc /\ pc' # "delete"
  BY <1>1, <1>3 DEF BulkInv, BulkTyped, BulkOn
<1>4. CASE BulkPersist
  <2>1. GoTo("bulk_put") /\ doc.left > 0
    BY <1>4 DEF BulkPersist
  <2>2. pc' # "delete"
    BY <1>4 DEF BulkPersist, PutStart
  <2>3. "bulk_put" \in BulkSteps
    BY DEF BulkSteps
  <2> QED BY <1>1, <1>2, <2>1, <2>2, <2>3
<1>5. CASE PutGoesOnOrDies
  <2>1. CASE pc' \in Dead
    <3>1. Return /\ it' = NoIterator
      BY <1>5, <2>1 DEF PutGoesOnOrDies
    <3> QED BY <1>1, <2>1, <3>1, BulkReturns
  <2>2. CASE pc' \notin Dead
    <3>1. doc' = doc /\ Steps
      BY <1>5, <2>2 DEF PutGoesOnOrDies
    <3>2. pc' # "delete"
      BY <3>1, StepsDelete DEF BulkInv, HeapInv, DeletePart, DeleteSlot
    <3> QED BY <1>3, <3>1, <3>2
  <2> QED BY <2>1, <2>2
<1>6. CASE PutDone
  <2>1. doc.step = "bulk_put" /\ PutReturns /\ doc.left > 0
    BY <1>6 DEF PutDone, BulkInv, BulkTyped, BulkSteps
  <2>2. doc' = [doc EXCEPT !.node.id = put.result, !.step = "bulk_release"]
    BY <1>6, <2>1 DEF PutDone
  <2>3. BulkTyped' /\ doc'.node.parent_id = doc.node.parent_id
    BY <2>1, <2>2 DEF BulkInv, BulkTyped, BulkSteps
  <2> QED BY <1>1, <2>1, <2>3 DEF BulkInv, BulkOn, PutReturns
<1>7. CASE BulkRelease
  <2>1. PICK value \in Values :
          /\ doc.step = "bulk_release" /\ FreePages
          /\ doc' = [doc EXCEPT !.step = "bulk_destroy", !.left = @ - 1, !.node.value = value]
    BY <1>7, Zenon DEF BulkRelease
  <2>2. doc.left \in 0 .. MaxBulk /\ doc.left > 0
    BY <2>1 DEF BulkInv, BulkTyped
  <2>3. doc.left - 1 \in 0 .. MaxBulk
    BY <2>2, CallersAssumption
  <2>4. BulkTyped' /\ doc'.node.parent_id = doc.node.parent_id
    BY <2>1, <2>3 DEF BulkInv, BulkTyped, BulkSteps
  <2> QED BY <1>1, <2>1, <2>4 DEF BulkInv, BulkOn, FreePages
<1>8. CASE DestroyBulk \/ DestroyTwice
  <2>1. CASE Return
    BY <1>1, <1>8, <2>1, BulkReturns DEF DestroyBulk, DestroyTwice, Destroy, FreePages, Die, Dead
  <2>2. CASE ~ Return
    <3>1. GoTo("bulk") /\ pc = "idle" /\ pc' = "idle"
      BY <1>8, <2>2 DEF DestroyBulk, DestroyTwice, Destroy, FreePages, BulkGoesOn
    <3>2. "bulk" \in BulkSteps
      BY DEF BulkSteps
    <3> QED BY <1>1, <1>2, <3>1, <3>2
  <2> QED BY <2>1, <2>2
<1>9. CASE DocCrash
  BY <1>1, <1>9, BulkReturns DEF DocCrash, Crash, Die, Dead
<1>10. CASE UNCHANGED docVars
  <2>1. doc' = doc /\ pc' = pc
    BY <1>10 DEF docVars, itVars, vars
  <2> QED BY <1>3, <2>1 DEF BulkInv
<1> QED BY <1>1, <1>4, <1>5, <1>6, <1>7, <1>8, <1>9, <1>10, BulkGoes DEF BulkInv

\* The put of the first node is prepared by the scan for the parent, and by nothing else.
LEMMA EnterBulk ==
  ASSUME DocInv, [DocNext]_docVars, doc'.step \in BulkSteps
  PROVE  /\ doc.step = "find_bulk_parent" /\ ScanFinds /\ GetNext
         /\ doc' = [doc EXCEPT !.step = "bulk"]
         /\ doc'.step = "bulk" /\ doc'.node = doc.node
PROOF
<1>1. ~ Return
  BY NoCallOK DEF Return, BulkSteps
<1>2. ASSUME NEW step, GoTo(step) PROVE step \in BulkSteps
  BY <1>2 DEF GoTo, DocInv, DocTyped
<1>3. ~ (doc' = doc)
  BY DEF DocInv, DocTyped, Using, Without, BulkSteps
<1>4. ASSUME NEW node, NEW call, AddInto(node, call), call = NoCall \/ call = doc PROVE FALSE
  BY <1>4, NoCallOK DEF AddInto, DocInv, DocTyped, BulkSteps
<1>5. ~ DocCalls
  <2>1. ASSUME NEW node, NEW update, DeleteFirst(node, update) PROVE FALSE
    BY <2>1, NoCallOK DEF DeleteFirst, BulkSteps
  <2>2. ASSUME NEW parent, NEW value, NEW count, AddBulkNodes(parent, value, count) PROVE FALSE
    BY <2>2, NoCallOK DEF AddBulkNodes, BulkSteps
  <2>3. ASSUME NEW id, GetAllChildren(id) PROVE FALSE
    BY <2>3, NoCallOK DEF GetAllChildren, BulkSteps
  <2> QED BY <1>4, <2>1, <2>2, <2>3, Zenon DEF DocCalls, AddNode, DeleteNode, UpdateNode
<1>6. ~ (ScanAgain \/ AddAgain)
  <2>1. ~ ScanAgain
    BY <1>2 DEF ScanAgain, BulkSteps
  <2> QED BY <1>4, <2>1, Zenon DEF AddAgain
<1>7. ~ (Start \/ StartGoesOn \/ ScanMoves \/ ScanPasses \/ DeleteGoesOn \/ UNCHANGED docVars)
  BY <1>3, Zenon DEF Start, StartGoesOn, ScanMoves, ScanPasses, DeleteGoesOn, docVars
<1>8. ~ ScanEnds
  <2>1. ~ (doc' = [doc EXCEPT !.step = "persist", !.node.id = ROOT_NODE_ID])
    BY DEF DocInv, DocTyped, BulkSteps
  <2>2. ~ GoTo("rescan_node") /\ ~ GoTo("rescan_children")
    BY <1>2 DEF BulkSteps
  <2> QED BY <1>1, <2>1, <2>2 DEF ScanEnds, AfterScan
<1>9. ~ (ScanAborts \/ FindsObstacle \/ Release \/ DocCrash)
  BY <1>1 DEF ScanAborts, FindsObstacle, Release, DocCrash
<1>10. ~ (ParentFound \/ Persist \/ DeleteFound \/ Deleted)
  BY <1>1, <1>2 DEF ParentFound, Persist, DeleteFound, Deleted, BulkSteps
<1>11. ~ PutGoesOnOrDies
  BY <1>1, <1>3 DEF PutGoesOnOrDies
<1>12. ~ PutDone
  <2>1. ASSUME NEW id, doc' = [doc EXCEPT !.node.id = id, !.step = "release"] PROVE FALSE
    BY <2>1 DEF DocInv, DocTyped, BulkSteps
  <2>2. doc.step # "bulk_put"
    BY DEF DocInv, DocTyped, Using, Without
  <2> QED BY <2>1, <2>2 DEF PutDone
<1>13. ~ (BulkPersist \/ BulkRelease \/ DestroyBulk \/ DestroyTwice)
  <2>1. doc.step \notin {"bulk", "bulk_release", "bulk_destroy"}
    BY DEF DocInv, DocTyped, Using, Without
  <2> QED BY <2>1 DEF BulkPersist, BulkRelease, DestroyBulk, DestroyTwice, Destroying
<1>14. ScanFinds
  BY <1>5, <1>6, <1>7, <1>8, <1>9, <1>10, <1>11, <1>12, <1>13, Zenon DEF DocNext, DocSteps
<1>15. Found(doc.step) /\ doc.step \in Scans /\ doc.step \notin {"find_root", "find_children"}
  BY <1>14 DEF ScanFinds, Scanning
<1>16. doc.step = "find_bulk_parent"
  <2>1. ~ GoTo("parent_found") /\ ~ GoTo("found")
    BY <1>2 DEF BulkSteps
  <2>2. ASSUME doc.step \in {"count", "collect"} PROVE FALSE
    BY <1>15, <2>2 DEF Found, DocInv, DocTyped, BulkSteps
  <2>3. doc.step = "find_parent" => GoTo("parent_found")
    BY <1>15 DEF Found
  <2>4. doc.step = "find_node" => GoTo("found")
    BY <1>15 DEF Found
  <2> QED BY <1>15, <2>1, <2>2, <2>3, <2>4 DEF Scans
<1>17. GoTo("bulk")
  BY <1>15, <1>16 DEF Found
<1> QED BY <1>14, <1>16, <1>17 DEF GoTo, DocInv, DocTyped, ScanFinds

\* The file and the memory agree there.
LEMMA EnterBulkOK ==
  ASSUME ItInv, DocInv, [DocNext]_docVars, doc'.step \in BulkSteps
  PROVE  BulkInv'
PROOF
<1>1. /\ doc.step = "find_bulk_parent" /\ GetNext /\ doc' = [doc EXCEPT !.step = "bulk"]
      /\ doc'.node = doc.node
  BY EnterBulk
<1>2. ItInv'
  BY <1>1, GetNextOK
<1>3. pc' = "idle" /\ ~it.moving
  BY <1>1 DEF GetNext, ItemHere
<1>4. it'.moving = it.moving
  <2> DEFINE k == it.index + 1
             longer == Append(it.payloads, NextItem)
  <2>1. it' = [it EXCEPT !.index = k, !.payloads = longer] /\ ItTyped
    BY <1>1 DEF GetNext, ItInv
  <2> HIDE DEF k, longer
  <2> QED BY <2>1 DEF ItTyped
<1>5. HeapInv'
  <2>1. FileInv'
    BY <1>2, <1>3, <1>4 DEF ItInv, ItPlace, OnZeros, OnPage
  <2> QED BY <1>2, <2>1 DEF ItInv, HeapInv
<1>6. BulkTyped'
  <2>1. doc.node \in Node
    BY <1>1 DEF DocInv, NodeGiven, WithNode
  <2> QED BY <1>1, <2>1 DEF DocInv, DocTyped, BulkTyped, BulkSteps, Node
<1> QED BY <1>3, <1>5, <1>6 DEF BulkInv

(***************************************************************************)
(* The invariant of a document: that of its iterator and where the call    *)
(* is, or that of a bulk add.                                              *)
(***************************************************************************)
DocBase == (ItInv /\ DocInv) \/ BulkInv

LEMMA InitBase == DocInit => DocBase
  BY InitItInv, InitDoc DEF DocInit, DocBase

LEMMA NextBase ==
  ASSUME NodesHaveBytes, DocBase, [DocNext]_docVars
  PROVE  DocBase'
PROOF
<1>1. CASE BulkInv
  BY <1>1, NextBulk DEF DocBase, BulkOn, BulkOver
<1>2. CASE ItInv /\ DocInv /\ doc'.step \notin BulkSteps
  <2>1. DocOK
    BY <1>2, NextDoc
  <2> QED BY <1>2, <2>1, NextItInv DEF DocOK, DocBase
<1>3. CASE ItInv /\ DocInv /\ doc'.step \in BulkSteps
  BY <1>3, EnterBulkOK DEF DocBase
<1> QED BY <1>1, <1>2, <1>3 DEF DocBase

\* A bulk add goes on to a step of its own, or ends.
LEMMA BulkStays ==
  ASSUME NodesHaveBytes, BulkInv, [DocNext]_docVars
  PROVE  doc'.step \in BulkSteps \cup {"idle"}
PROOF
<1>1. CASE BulkInv'
  BY <1>1 DEF BulkInv, BulkTyped
<1>2. CASE Return
  BY <1>2, NoCallOK DEF Return
<1> QED BY <1>1, <1>2, NextBulk DEF BulkOn, BulkOver

(***************************************************************************)
(* document.c uses the iterator as ItemIterator!ItSpec has it: one at a    *)
(* time, nothing put while it is in use, and nothing deleted but the item  *)
(* it is at.  What is proved of the iterator then holds of every document  *)
(* whose nodes are added one at a time.  A bulk add puts them while an     *)
(* iterator is in use: it is not a behaviour of ItSpec.                    *)
(***************************************************************************)
THEOREM DocumentUsesIterator ==
  ASSUME MaxBulk = 0, NodesHaveBytes
  PROVE  DocSpec => ItSpec
PROOF
<1>1. DocInit => ItInit /\ ItInv /\ DocInv
  BY InitItInv, InitDoc DEF DocInit
<1>2. ItInv /\ DocInv /\ [DocNext]_docVars => [ItNext]_itVars /\ ItInv' /\ DocInv'
  <2> SUFFICES ASSUME ItInv, DocInv, [DocNext]_docVars
               PROVE  [ItNext]_itVars /\ ItInv' /\ DocInv'
    OBVIOUS
  <2>1. doc.step # "find_bulk_parent"
    BY DEF DocInv, DocTyped, NodeGiven
  <2>2. DocOK
    BY <2>1, EnterBulk, NextDoc
  <2> QED BY <2>2, NextItInv DEF DocOK
<1> QED BY <1>1, <1>2, PTL DEF DocSpec, ItSpec

--------------------------------------------------------------------------------
(***************************************************************************)
(* The scan for the node to delete.                                        *)
(***************************************************************************)
NotYetFound ==
  doc.step = "find_node" =>
    \A n \in 1 .. Len(it.payloads) : it.payloads[n] # doc.node.id

\* A call that starts does not look for a node yet.
LEMMA CallsLookElsewhere ==
  ASSUME DocCalls
  PROVE  doc'.step # "find_node"
PROOF
<1>1. ASSUME NEW node, AddInto(node, NoCall) PROVE doc'.step # "find_node"
  BY <1>1, NoCallOK DEF AddInto
<1>2. ASSUME NEW node, NEW update, DeleteFirst(node, update) PROVE doc'.step # "find_node"
  BY <1>2, NoCallOK DEF DeleteFirst
<1>3. ASSUME NEW parent, NEW value, NEW count, AddBulkNodes(parent, value, count)
      PROVE  doc'.step # "find_node"
  BY <1>3, NoCallOK DEF AddBulkNodes
<1>4. ASSUME NEW id, GetAllChildren(id) PROVE doc'.step # "find_node"
  BY <1>4, NoCallOK DEF GetAllChildren
<1> QED BY <1>1, <1>2, <1>3, <1>4, Zenon DEF DocCalls, AddNode, DeleteNode, UpdateNode

\* The address of the item that is handed out next.
LEMMA NextItemOK ==
  ASSUME ItInv, GetNext
  PROVE  NextItem \in [page : Nat, item : Nat]
PROOF
<1>1. Iterating /\ pc = "idle" /\ ItTyped /\ RamOK(ram)
  BY DEF GetNext, ItInv, IndInv
<1>2. it.page \in Nat /\ it.index \in Nat \cup {-1}
  BY <1>1, PlacePage DEF ItInv, ItTyped, RamOK, Ids
<1> QED BY <1>2 DEF NextItem, Address

\* The iterator hands out other items than the node until the scan finds it.
LEMMA StillNotFound ==
  ASSUME ItInv, DocInv, NotYetFound, [DocNext]_docVars
  PROVE  NotYetFound'
PROOF
<1> SUFFICES ASSUME doc'.step = "find_node"
             PROVE  \A n \in 1 .. Len(it'.payloads) : it'.payloads[n] # doc'.node.id
  BY DEF NotYetFound
<1>1. ~ Return
  BY NoCallOK DEF Return
<1>2. ASSUME NEW step, GoTo(step) PROVE step = "find_node"
  BY <1>2 DEF GoTo, DocInv, DocTyped
<1>3. ~ DocCalls
  BY CallsLookElsewhere
<1>4. CASE ScanAgain
  BY <1>4, StartsUsing DEF ScanAgain
<1>5. CASE doc' = doc /\ it'.payloads = it.payloads
  BY <1>5 DEF NotYetFound
<1>6. CASE ScanPasses
  <2>1. /\ GetNext /\ doc' = doc /\ doc.step = "find_node" /\ NextItem # doc.node.id
    BY <1>6 DEF ScanPasses, Matches, IsNode
  <2>2. it'.payloads = Append(it.payloads, NextItem) /\ it.payloads \in Payloads
    BY <2>1, KeepsUsing DEF ItInv, ItTyped
  <2>3. NextItem \in [page : Nat, item : Nat]
    BY <2>1, NextItemOK
  <2>4. /\ Len(it'.payloads) = Len(it.payloads) + 1
        /\ \A n \in 1 .. Len(it.payloads) + 1 :
             it'.payloads[n] = IF n = Len(it.payloads) + 1 THEN NextItem ELSE it.payloads[n]
    BY <2>2, <2>3 DEF Payloads
  <2> QED BY <2>1, <2>4 DEF NotYetFound
<1>7. CASE ScanMoves
  <2>1. doc' = doc /\ it'.payloads = it.payloads
    BY <1>7, KeepsUsing DEF ScanMoves
  <2> QED BY <1>5, <2>1
<1>8. CASE Start \/ StartGoesOn \/ DeleteGoesOn \/ UNCHANGED docVars
  <2>1. doc' = doc /\ it' = it
    BY <1>8, Zenon DEF Start, StartGoesOn, DeleteGoesOn, docVars, itVars
  <2> QED BY <1>5, <2>1
<1>9. ~ ScanFinds
  <2>1. ASSUME Found(doc.step), doc.step \in Scans \ {"find_root", "find_children"}
        PROVE  doc.step # "find_node" /\ doc'.step # "find_node"
    BY <1>2, <2>1 DEF Found, Scans, DocInv, DocTyped
  <2> QED BY <2>1 DEF ScanFinds, Scanning
<1>10. ~ ScanEnds
  <2>1. ~ (doc' = [doc EXCEPT !.step = "persist", !.node.id = ROOT_NODE_ID])
    BY DEF DocInv, DocTyped
  <2> QED BY <1>1, <1>2, <2>1 DEF ScanEnds, AfterScan
<1>11. ~ (ScanAborts \/ FindsObstacle \/ Release \/ DocCrash)
  BY <1>1 DEF ScanAborts, FindsObstacle, Release, DocCrash
<1>12. ~ (ParentFound \/ Persist \/ DeleteFound \/ Deleted)
  BY <1>1, <1>2 DEF ParentFound, Persist, DeleteFound, Deleted
<1>13. ~ (PutGoesOnOrDies \/ PutDone)
  <2>1. ASSUME NEW id, doc' = [doc EXCEPT !.node.id = id, !.step = "release"] PROVE FALSE
    BY <2>1 DEF DocInv, DocTyped
  <2>2. doc.step # "bulk_put"
    BY DEF DocInv, DocTyped, Using, Without
  <2> QED BY <1>1, <2>1, <2>2 DEF PutGoesOnOrDies, PutDone
<1>14. ~ AddAgain
  BY DEF AddAgain, AddInto, DocInv, DocTyped
<1>15. ~ (BulkPersist \/ BulkRelease \/ DestroyBulk \/ DestroyTwice)
  <2>1. doc.step \notin {"bulk", "bulk_release", "bulk_destroy"}
    BY DEF DocInv, DocTyped, Using, Without
  <2> QED BY <2>1 DEF BulkPersist, BulkRelease, DestroyBulk, DestroyTwice, Destroying
<1> QED BY <1>3, <1>4, <1>6, <1>7, <1>8, <1>9, <1>10, <1>11, <1>12, <1>13, <1>14, <1>15,
           Zenon DEF DocNext, DocSteps

(***************************************************************************)
(* document_delete_node says that a node does not exist only when it does  *)
(* not (Document!DeletedIfThere).                                          *)
(***************************************************************************)
THEOREM DocumentDeletes ==
  ASSUME NodesHaveBytes, Unlucky = {}
  PROVE  DocSpec => []DeletedIfThere
PROOF
<1>1. DocInit => DocBase /\ NotYetFound
  <2>1. DocInit => NotYetFound
    BY NoCallOK DEF DocInit, NotYetFound
  <2> QED BY <2>1, InitBase
<1>2. DocBase /\ NotYetFound /\ [DocNext]_docVars => DocBase' /\ NotYetFound'
  <2>1. ASSUME BulkInv, [DocNext]_docVars PROVE NotYetFound'
    BY <2>1, BulkStays DEF NotYetFound, BulkSteps
  <2> QED BY <2>1, NextBase, StillNotFound DEF DocBase
<1>3. ASSUME DocBase, NotYetFound PROVE DeletedIfThere
  <2> SUFFICES ASSUME doc.step = "find_node", Exhausted, doc.node.id \in DOMAIN Store
               PROVE  FALSE
    BY DEF DeletedIfThere
  <2>0. ItInv
    BY <1>3 DEF DocBase, BulkInv, BulkTyped, BulkSteps
  <2>1. DOMAIN Store \subseteq Slots(diskPages)
    BY Zenon DEF Store
  <2>2. \E n \in 1 .. Len(it.payloads) : it.payloads[n] = doc.node.id
    BY <2>0, <2>1, AllHandedOut
  <2> QED BY <1>3, <2>2 DEF NotYetFound
<1> QED BY <1>1, <1>2, <1>3, PTL DEF DocSpec

--------------------------------------------------------------------------------
(***************************************************************************)
(* What is in memory between calls: nothing but the page that              *)
(* document_init allocates or reads.                                       *)
(***************************************************************************)
IdleMemory ==
  doc.step = "idle" =>
    /\ pc \in Dead \cup {"idle", "alloc", "write_new"}
    /\ pc = "idle" => DOMAIN ram \subseteq {freePage}
    /\ pc = "alloc" => DOMAIN ram = {} /\ put.caller = "init"
    /\ pc = "write_new" => DOMAIN ram \subseteq {put.free} /\ put.caller = "init"

\* The memory of a process that frees its pages or ends.
LEMMA EmptyMemory ==
  ASSUME pc' \in Dead \/ (pc' = "idle" /\ ram' = NoPages)
  PROVE  IdleMemory'
  BY DEF IdleMemory, NoPages, Dead

\* The program starts or stops.
LEMMA StartMemory ==
  ASSUME IndInv, IdleMemory, Start \/ StartGoesOn
  PROVE  IdleMemory'
PROOF
<1>1. /\ doc'.step = "idle" /\ pc \in Dead \cup {"idle", "alloc", "write_new"}
      /\ put \in PutType
  BY DEF Start, StartGoesOn, IdleMemory, IndInv, Types
<1>2. CASE OpenWithoutPages
  <2>1. /\ pc \in Dead /\ pc' = "alloc" /\ ram' = ram
        /\ put' = [NoPut EXCEPT !.caller = "init"]
    BY <1>2 DEF OpenWithoutPages, OpenIfNone, Running
  <2>2. DOMAIN ram = {}
    BY <2>1 DEF IndInv, MemInv, Running
  <2>3. put'.caller = "init"
    BY <2>1 DEF NoPut
  <2> QED BY <2>1, <2>2, <2>3 DEF IdleMemory, Dead
<1>3. CASE OpenWithPages
  <2> DEFINE page == diskPages[diskHeader.current_free_page]
  <2>1. ram' = With(NoPages, page.page_id, page) /\ freePage' = page.page_id /\ pc' = "idle"
    BY <1>3 DEF OpenWithPages
  <2> HIDE DEF page
  <2>2. DOMAIN ram' = {freePage'}
    BY <2>1 DEF With, NoPages
  <2> QED BY <2>1, <2>2 DEF IdleMemory, Dead
<1>4. CASE OpenAborts \/ Close
  BY <1>4, EmptyMemory DEF OpenAborts, Close, Die, Dead
<1>5. CASE StartGoesOn
  <2>1. Steps
    BY <1>5 DEF StartGoesOn
  <2>2. Outcomes = {TRUE} /\ WriteOutcomes = {TRUE}
    BY DEF Outcomes, WriteOutcomes, IndInv, Types
  <2>3. CASE AllocPage(TRUE)
    <3> DEFINE id == header.page_count
    <3>1. /\ pc = "alloc" /\ ram' = With(ram, id, PageNew(id)) /\ pc' = "write_new"
          /\ put' = [put EXCEPT !.free = id]
      BY <2>3 DEF AllocPage, CountPage
    <3> HIDE DEF id
    <3>2. DOMAIN ram = {} /\ put.caller = "init"
      BY <1>5, <3>1 DEF IdleMemory, StartGoesOn
    <3>3. DOMAIN ram' = {id} /\ put'.free = id /\ put'.caller = "init"
      BY <1>1, <3>1, <3>2 DEF With, PutType
    <3> QED BY <3>1, <3>3 DEF IdleMemory, Dead
  <2>4. CASE WriteNewPage(TRUE)
    <3>1. pc = "write_new" /\ ram' = ram /\ NewPageReturned(put.free)
      BY <2>4 DEF WriteNewPage
    <3>2. DOMAIN ram \subseteq {put.free} /\ put.caller = "init"
      BY <1>5, <3>1 DEF IdleMemory, StartGoesOn
    <3>3. pc' = "idle" /\ freePage' = put.free
      BY <3>1, <3>2 DEF NewPageReturned
    <3> QED BY <3>1, <3>2, <3>3 DEF IdleMemory, Dead
  <2>5. ~ SetFreePage(TRUE)
    BY <1>1 DEF SetFreePage, Dead
  <2>6. ~ (PageFull \/ SplitItem \/ ItemFits \/ AddPart \/ AddPartAborts \/ PutReturns)
    BY <1>1 DEF PageFull, SplitItem, ItemFits, AddPart, WritePart, AddPartAborts, PutReturns,
       Dead
  <2>7. ~ (DeletePart \/ WriteAborts)
    BY <1>1, <2>2 DEF DeletePart, DeleteSlot, WriteAborts, Dead
  <2> QED BY <2>1, <2>2, <2>3, <2>4, <2>5, <2>6, <2>7 DEF Steps
<1> QED BY <1>2, <1>3, <1>4, <1>5 DEF Start

\* A call that returns has freed the pages.
LEMMA NextMemory ==
  ASSUME ItInv, DocInv, IdleMemory, [DocNext]_docVars
  PROVE  IdleMemory'
PROOF
<1>1. CASE Start \/ StartGoesOn
  BY <1>1, StartMemory DEF ItInv
<1>2. CASE UNCHANGED docVars
  BY <1>2 DEF docVars, itVars, vars, memory, IdleMemory
<1>3. CASE ScanEnds \/ Release \/ Deleted \/ ParentFound
  BY <1>3, EmptyMemory DEF ScanEnds, Release, Deleted, ParentFound, Destroy, FreePages
<1>4. CASE ScanAborts \/ FindsObstacle \/ DocCrash
  BY <1>4, EmptyMemory DEF ScanAborts, FindsObstacle, DocCrash, NextPageAborts, GetNextAborts,
     UserExits, Crash, Die, Dead
<1>5. CASE doc' = doc /\ doc.step # "idle"
  BY <1>5 DEF IdleMemory
<1>6. CASE ScanMoves \/ ScanPasses \/ DeleteGoesOn
  BY <1>5, <1>6 DEF ScanMoves, ScanPasses, DeleteGoesOn, Scanning, Scans
<1>7. CASE doc'.step # "idle"
  BY <1>7 DEF IdleMemory
<1>8. CASE DocCalls
  <2>1. ASSUME NEW node, AddInto(node, NoCall) PROVE doc'.step # "idle"
    BY <2>1, NoCallOK DEF AddInto
  <2>2. ASSUME NEW node, NEW update, DeleteFirst(node, update) PROVE doc'.step # "idle"
    BY <2>2, NoCallOK DEF DeleteFirst
  <2>3. ASSUME NEW parent, NEW value, NEW count, AddBulkNodes(parent, value, count)
        PROVE  doc'.step # "idle"
    BY <2>3, NoCallOK DEF AddBulkNodes
  <2>4. ASSUME NEW id, GetAllChildren(id) PROVE doc'.step # "idle"
    BY <2>4, NoCallOK DEF GetAllChildren
  <2> QED BY <1>7, <1>8, <2>1, <2>2, <2>3, <2>4, Zenon
       DEF DocCalls, AddNode, DeleteNode, UpdateNode
<1>9. CASE ScanFinds
  <2>1. doc.step \in Scans \ {"find_root", "find_children"} /\ Found(doc.step)
    BY <1>9 DEF ScanFinds, Scanning
  <2>2. doc'.step # "idle"
    BY <2>1 DEF Found, GoTo, Scans, DocInv, DocTyped
  <2> QED BY <1>7, <2>2
<1>10. CASE ScanAgain \/ Persist \/ DeleteFound \/ AddAgain
  <2>1. ASSUME NEW step, GoTo(step) PROVE doc'.step = step
    BY <2>1 DEF GoTo, DocInv, DocTyped
  <2>2. ASSUME AddAgain PROVE doc'.step # "idle"
    BY <2>2 DEF AddAgain, AddInto, DocInv, DocTyped
  <2>3. doc'.step # "idle"
    BY <1>10, <2>1, <2>2 DEF ScanAgain, Persist, DeleteFound
  <2> QED BY <1>7, <2>3
<1>11. CASE PutGoesOnOrDies
  BY <1>5, <1>11, EmptyMemory DEF PutGoesOnOrDies
<1>12. CASE PutDone
  <2>1. doc.step = "put" /\ doc' = [doc EXCEPT !.node.id = put.result, !.step = "release"]
    BY <1>12 DEF PutDone, DocInv, DocTyped, Using, Without
  <2>2. doc'.step = "release"
    BY <2>1 DEF DocInv, DocTyped
  <2> QED BY <1>7, <2>2
<1>13. ~ (BulkPersist \/ BulkRelease \/ DestroyBulk \/ DestroyTwice)
  <2>1. doc.step \notin {"bulk", "bulk_release", "bulk_destroy"}
    BY DEF DocInv, DocTyped, Using, Without
  <2> QED BY <2>1 DEF BulkPersist, BulkRelease, DestroyBulk, DestroyTwice, Destroying
<1> QED BY <1>1, <1>2, <1>3, <1>4, <1>6, <1>8, <1>9, <1>10, <1>11, <1>12, <1>13,
           Zenon DEF DocNext, DocSteps

(***************************************************************************)
(* Every call that returns has destroyed its iterator and freed its pages  *)
(* (Document!MemoryReleased).                                              *)
(***************************************************************************)
THEOREM DocumentReleasesMemory ==
  ASSUME NodesHaveBytes
  PROVE  DocSpec => []MemoryReleased
PROOF
<1>1. DocInit => DocBase /\ IdleMemory
  <2>1. DocInit => IdleMemory
    BY EmptyMemory DEF DocInit, ItInit, Init, IdleMemory, Dead
  <2> QED BY <2>1, InitBase
<1>2. DocBase /\ IdleMemory /\ [DocNext]_docVars => DocBase' /\ IdleMemory'
  <2>1. ASSUME BulkInv, [DocNext]_docVars PROVE IdleMemory'
    <3>1. CASE BulkInv'
      BY <3>1 DEF BulkInv, BulkTyped, BulkSteps, IdleMemory
    <3>2. CASE BulkOver
      BY <3>2, EmptyMemory DEF BulkOver
    <3> QED BY <2>1, <3>1, <3>2, NextBulk DEF BulkOn
  <2> QED BY <2>1, NextBase, NextMemory DEF DocBase
<1>3. DocBase /\ IdleMemory => MemoryReleased
  BY DEF DocBase, BulkInv, BulkTyped, BulkSteps, DocInv, IteratorUsed, Using, IdleMemory,
     MemoryReleased, Ready
<1> QED BY <1>1, <1>2, <1>3, PTL DEF DocSpec

--------------------------------------------------------------------------------
(***************************************************************************)
(* The node of a call: the request's, or the caller's result with the      *)
(* address that put_item returned.                                         *)
(***************************************************************************)
CallNodes == [id : NodeIds, parent_id : NodeIds, value : Values \cup {NoValue}]

NodeTyped == doc.node \in CallNodes

\* A call keeps its node, ends, or goes on with a node to put or delete.
LEMMA NodeStays ==
  ASSUME NodeTyped, DocInv', doc'.node = doc.node \/ Return \/ doc'.step \in WithNode
  PROVE  NodeTyped'
PROOF
<1>1. NULL_NODE_ID \in NodeIds
  BY DEF NodeIds
<1>2. CASE doc'.step \in WithNode
  BY <1>2 DEF NodeTyped, CallNodes, DocInv, NodeGiven, Node
<1>3. CASE Return
  <2>1. doc'.node = NoNode
    BY <1>3, NoCallOK DEF Return
  <2> QED BY <1>1, <2>1 DEF NodeTyped, CallNodes, NoNode
<1> QED BY <1>2, <1>3 DEF NodeTyped

\* The calls give nodes and ids of nodes.
LEMMA CallNode ==
  ASSUME ItInv, NodeTyped, DocInv', DocCalls
  PROVE  NodeTyped'
PROOF
<1>1. ASSUME NEW node, AddInto(node, NoCall) PROVE doc'.step \in WithNode
  BY <1>1, NoCallOK DEF AddInto, WithNode
<1>2. ASSUME NEW node, NEW update, DeleteFirst(node, update) PROVE doc'.step \in WithNode
  BY <1>2, NoCallOK DEF DeleteFirst, WithNode
<1>3. ASSUME NEW id \in GivenIds, GetAllChildren(id) PROVE NodeTyped'
  <2>1. id \in NodeIds /\ NULL_NODE_ID \in NodeIds
    BY StoredIsNode, StaleIsNode DEF GivenIds, NodeIds
  <2>2. doc'.node = [id |-> id, parent_id |-> NULL_NODE_ID, value |-> NoValue]
    BY <1>3, NoCallOK DEF GetAllChildren, NoNode
  <2> QED BY <2>1, <2>2 DEF NodeTyped, CallNodes
<1>4. ASSUME NEW parent, NEW value, NEW count, AddBulkNodes(parent, value, count)
      PROVE  doc'.step \in WithNode
  BY <1>4, NoCallOK DEF AddBulkNodes, WithNode
<1> QED BY <1>1, <1>2, <1>3, <1>4, NodeStays, Zenon DEF DocCalls, AddNode, DeleteNode, UpdateNode

\* The result of a put is an id.
LEMMA PutDoneNode ==
  ASSUME IndInv, SavedInv, NodeTyped, PutDone
  PROVE  NodeTyped'
PROOF
<1>1. put.result \in NodeIds
  BY SavedAtEnd DEF PutDone, PutReturns, NodeIds, ItemAddresses
<1>2. \E step : doc' = [doc EXCEPT !.node.id = put.result, !.step = step]
  BY Zenon DEF PutDone
<1> QED BY <1>1, <1>2 DEF NodeTyped, CallNodes

\* Every step keeps the node a node.
LEMMA NextNode ==
  ASSUME ItInv, DocInv, DocInv', SavedInv, NodeTyped, [DocNext]_docVars
  PROVE  NodeTyped'
PROOF
<1>1. ASSUME NEW step, GoTo(step) PROVE doc'.node = doc.node
  BY <1>1 DEF GoTo, DocInv, DocTyped
<1>2. CASE doc' = doc
  BY <1>2, NodeStays
<1>3. CASE Start \/ StartGoesOn \/ ScanMoves \/ ScanPasses \/ DeleteGoesOn \/ UNCHANGED docVars
  BY <1>2, <1>3, Zenon DEF Start, StartGoesOn, ScanMoves, ScanPasses, DeleteGoesOn, docVars
<1>4. CASE DocCalls
  BY <1>4, CallNode
<1>5. CASE ScanAborts \/ FindsObstacle \/ Release \/ DocCrash
  BY <1>5, NodeStays, Zenon DEF ScanAborts, FindsObstacle, Release, DocCrash
<1>6. CASE ScanAgain \/ ParentFound \/ Persist \/ DeleteFound \/ Deleted
  BY <1>1, <1>6, NodeStays, Zenon DEF ScanAgain, ParentFound, Persist, DeleteFound, Deleted
<1>7. CASE ScanFinds
  <2>1. doc.step \in Scans \ {"find_root", "find_children"} /\ Found(doc.step)
    BY <1>7 DEF ScanFinds, Scanning
  <2>2. doc'.node = doc.node
    BY <1>1, <2>1 DEF Found, Scans, DocInv, DocTyped
  <2> QED BY <2>2, NodeStays
<1>8. CASE ScanEnds
  <2>1. CASE doc.step = "find_root"
    <3>1. doc' = [doc EXCEPT !.step = "persist", !.node.id = ROOT_NODE_ID]
      BY <1>8, <2>1 DEF ScanEnds, AfterScan
    <3>2. doc'.step \in WithNode
      BY <3>1 DEF DocInv, DocTyped, WithNode
    <3> QED BY <3>2, NodeStays
  <2>2. CASE doc.step # "find_root"
    <3>1. (\E step : GoTo(step)) \/ Return
      BY <1>8, <2>2, Zenon DEF ScanEnds, AfterScan
    <3> QED BY <1>1, <3>1, NodeStays
  <2> QED BY <2>1, <2>2
<1>9. CASE PutGoesOnOrDies
  BY <1>2, <1>9, NodeStays, Zenon DEF PutGoesOnOrDies
<1>10. CASE PutDone
  BY <1>10, PutDoneNode DEF ItInv
<1>11. CASE AddAgain
  <2>1. doc'.step \in WithNode
    BY <1>11 DEF AddAgain, AddInto, DocInv, DocTyped, WithNode
  <2> QED BY <2>1, NodeStays
<1>12. ~ (BulkPersist \/ BulkRelease \/ DestroyBulk \/ DestroyTwice)
  <2>1. doc.step \notin {"bulk", "bulk_release", "bulk_destroy"}
    BY DEF DocInv, DocTyped, Using, Without
  <2> QED BY <2>1 DEF BulkPersist, BulkRelease, DestroyBulk, DestroyTwice, Destroying
<1> QED BY <1>3, <1>4, <1>5, <1>6, <1>7, <1>8, <1>9, <1>10, <1>11, <1>12,
           Zenon DEF DocNext, DocSteps

\* So does a bulk add, whose node gets the address of each put.
LEMMA BulkNodeStays ==
  ASSUME NodesHaveBytes, ViaFreePage, BulkInv, SavedInv, NodeTyped, [DocNext]_docVars
  PROVE  SavedInv' /\ NodeTyped'
PROOF
<1>1. IndInv /\ IndInv'
  BY NextBulk DEF BulkInv, HeapInv
<1>2. SavedInv'
  <2>1. CASE [Next]_vars
    BY <1>1, <2>1, NextSaved
  <2>2. CASE Aborts
    BY <2>2 DEF Aborts, Die, SavedInv, Dead
  <2> QED BY <2>1, <2>2, BulkHeap DEF BulkInv
<1>3. CASE Return
  <2>1. doc'.node = NoNode /\ NULL_NODE_ID \in NodeIds
    BY <1>3, NoCallOK DEF Return, NodeIds
  <2>2. NodeTyped'
    BY <2>1 DEF NodeTyped, CallNodes, NoNode
  <2> QED BY <1>2, <2>2
<1>4. CASE doc'.node = doc.node
  BY <1>2, <1>4 DEF NodeTyped
<1>5. ASSUME NEW step, GoTo(step) PROVE doc'.node = doc.node
  BY <1>5 DEF GoTo, BulkInv, BulkTyped
<1>6. CASE BulkPersist \/ DestroyBulk \/ DestroyTwice
  BY <1>3, <1>4, <1>5, <1>6, Zenon DEF BulkPersist, DestroyBulk, DestroyTwice, BulkGoesOn
<1>7. CASE PutGoesOnOrDies \/ DocCrash \/ UNCHANGED docVars
  BY <1>3, <1>4, <1>7, Zenon DEF PutGoesOnOrDies, DocCrash, docVars
<1>8. CASE BulkRelease
  <2>1. PICK value \in Values :
          doc' = [doc EXCEPT !.step = "bulk_destroy", !.left = @ - 1, !.node.value = value]
    BY <1>8, Zenon DEF BulkRelease
  <2>2. doc'.node = [doc.node EXCEPT !.value = value]
    BY <2>1 DEF BulkInv, BulkTyped
  <2>3. NodeTyped'
    BY <2>2 DEF NodeTyped, CallNodes
  <2> QED BY <1>2, <2>3
<1>9. CASE PutDone
  BY <1>1, <1>2, <1>9, PutDoneNode
<1> QED BY <1>6, <1>7, <1>8, <1>9, BulkGoes DEF BulkInv

(***************************************************************************)
(* The node of a call has its type at every step, the id that a put has    *)
(* just returned among its fields (Document!DocTypeOK).                    *)
(***************************************************************************)
THEOREM DocumentTypeOK ==
  ASSUME NodesHaveBytes, ViaFreePage
  PROVE  DocSpec => []DocTypeOK
PROOF
<1>1. DocInit => DocBase /\ SavedInv /\ NodeTyped
  <2>1. DocInit => SavedInv
    BY DEF DocInit, ItInit, Init, SavedInv
  <2>2. DocInit => NodeTyped
    BY NoCallOK DEF DocInit, NodeTyped, CallNodes, NoNode, NodeIds
  <2> QED BY <2>1, <2>2, InitBase
<1>2. DocBase /\ SavedInv /\ NodeTyped /\ [DocNext]_docVars
        => DocBase' /\ SavedInv' /\ NodeTyped'
  <2> SUFFICES ASSUME DocBase, SavedInv, NodeTyped, [DocNext]_docVars
               PROVE  SavedInv' /\ NodeTyped'
    BY NextBase
  <2>1. CASE BulkInv
    BY <2>1, BulkNodeStays
  <2>2. CASE ItInv /\ DocInv /\ doc'.step \in BulkSteps
    <3>1. GetNext /\ doc'.node = doc.node
      BY <2>2, EnterBulk
    <3>2. SavedInv'
      BY <3>1 DEF GetNext, SavedInv, ItemHere
    <3> QED BY <3>1, <3>2 DEF NodeTyped
  <2>3. CASE ItInv /\ DocInv /\ doc'.step \notin BulkSteps
    <3>1. [ItNext]_itVars /\ DocInv'
      BY <2>3, NextDoc DEF DocOK
    <3>2. SavedInv'
      BY <2>3, <3>1, NextItInv, ItNextSaved DEF ItInv
    <3> QED BY <2>3, <3>1, <3>2, NextNode
  <2> QED BY <2>1, <2>2, <2>3 DEF DocBase
<1>3. ASSUME DocBase, NodeTyped PROVE DocTypeOK
  <2>1. CASE DocInv
    BY <1>3, <2>1 DEF DocInv, DocTyped, NodeTyped, CallNodes, DocTypeOK, CallSteps, Using,
       Without, Scans
  <2>2. CASE BulkTyped
    BY <1>3, <2>2 DEF BulkTyped, BulkSteps, NodeTyped, CallNodes, DocTypeOK, CallSteps
  <2> QED BY <1>3, <2>1, <2>2 DEF DocBase, BulkInv
<1> QED BY <1>1, <1>2, <1>3, PTL DEF DocSpec

--------------------------------------------------------------------------------
(***************************************************************************)
(* What the steps of a document do to the items of the file.               *)
(***************************************************************************)
\* An iterator that reads changes nothing that items depend on.
LEMMA ReadsItems ==
  ASSUME ItInv, ItemsInv, NewIterator \/ NextPage \/ GetNext \/ Destroy
  PROVE  ItemsInv' /\ Store' = Store
PROOF
<1>1. /\ pc = "idle" /\ UNCHANGED disk /\ put' = put /\ pc' = "idle" /\ put = NoPut
      /\ PartsFitInv
  BY DEF NewIterator, NextPage, MovesOn, MoveTo, GetNext, Destroy, ItInv, IndInv, PutInv,
     Called, ItemsInv, ChainInv
<1>2. CASE NewIterator
  <2>1. ram' = Loaded({0}) /\ \A id \in {0} : Readable(id)
    BY <1>2 DEF NewIterator
  <2>2. AllFit(ram')
    BY <1>1, <2>1, LoadedFits
  <2> QED BY <1>1, <2>2, MemoryItems
<1>3. CASE NextPage
  <2> DEFINE p == diskPages[it.next]
  <2>1. ram' = With(NoPages, p.page_id, p) /\ it.next \in DOMAIN diskPages
    BY <1>3 DEF NextPage, MoveTo, CanMove
  <2>2. PartsFit(p)
    BY <1>1, <2>1 DEF PartsFitInv, AllFit
  <2> HIDE DEF p
  <2>3. AllFit(ram')
    BY <2>1, <2>2, EmptyPagesFit, WithFits
  <2> QED BY <1>1, <2>3, MemoryItems
<1>4. CASE GetNext
  <2>1. /\ ram' = Loaded(ChainPages(diskPages, NextItem))
        /\ \A id \in ChainPages(diskPages, NextItem) : Readable(id)
    BY <1>4 DEF GetNext, CanGet, Reads
  <2>2. AllFit(ram')
    BY <1>1, <2>1, LoadedFits
  <2> QED BY <1>1, <2>2, MemoryItems
<1>5. CASE Destroy
  <2>1. AllFit(ram')
    BY <1>5, EmptyPagesFit DEF Destroy
  <2> QED BY <1>1, <2>1, MemoryItems
<1> QED BY <1>2, <1>3, <1>4, <1>5

LEMMA ItNextItems ==
  ASSUME ItInv, ItemsInv, [ItNext]_itVars,
         DeleteCurrent => Address(it.page, it.index) \in DOMAIN Store
  PROVE  ItemsInv' /\ (Store' = Store \/ ItemAdded \/ ItemDeleted)
PROOF
<1>1. CASE FileInv /\ [Next]_vars
  BY <1>1, NextItems DEF ItInv
<1>2. CASE ~Iterating /\ Next
  BY <1>1, <1>2, PlaceFile DEF ItInv
<1>3. CASE UNCHANGED itVars
  <2>1. CASE pc # "idle"
    BY <1>1, <1>3, <2>1, PlaceFile, Zenon DEF itVars, ItInv
  <2>2. CASE pc = "idle"
    <3>1. /\ UNCHANGED disk /\ put' = put /\ pc' = "idle" /\ put = NoPut /\ ram' = ram
      BY <1>3, <2>2 DEF itVars, vars, disk, memory, ItInv, IndInv, PutInv, Called
    <3>2. AllFit(ram')
      BY <3>1 DEF ItemsInv, ChainInv, PartsFitInv
    <3> QED BY <3>1, <3>2, MemoryItems
  <2> QED BY <2>1, <2>2
<1>4. CASE NewIterator \/ NextPage \/ GetNext \/ Destroy
  BY <1>4, ReadsItems
<1>5. CASE NextPageAborts \/ GetNextAborts \/ UserExits \/ ItCrash
  <2>1. UNCHANGED disk /\ put' = NoPut /\ pc' \in Dead /\ ram' = NoPages
    BY <1>5 DEF NextPageAborts, GetNextAborts, UserExits, ItCrash, Crash, Die, Dead
  <2> QED BY <2>1, EmptyPagesFit, MemoryItems
<1>6. CASE DeleteCurrent
  <2> DEFINE a == Address(it.page, it.index)
  <2>1. a \in DOMAIN Store /\ DeleteStart(a) /\ ~it.moving
    BY <1>6 DEF DeleteCurrent
  <2>2. Next
    BY <2>1, Zenon DEF Next, Calls
  <2> QED BY <1>1, <2>1, <2>2, PlaceFile DEF ItInv
<1>7. CASE DeletePart
  <2>1. pc = "delete"
    BY <1>7 DEF DeletePart, DeleteSlot
  <2>2. Next
    BY <1>7, Zenon DEF Next, Steps
  <2> QED BY <1>1, <2>1, <2>2, PlaceFile DEF ItInv
<1> QED BY <1>2, <1>3, <1>4, <1>5, <1>6, <1>7, Zenon DEF ItNext

\* A put or a delete in progress is the one of the call.
PutCall == put.item # -1 => doc.step = "put" /\ NodeOf[put.item] = doc.node

DeleteCall ==
  pc = "delete" =>
    /\ doc.step = "deleting"
    /\ Part(diskPages, target).data.from = 0 => target = doc.node.id

\* The call waits for its put, or for its delete.
LEMMA CallWaits ==
  ASSUME DocInv, [DocNext]_docVars, pc' \notin Dead,
         \/ doc.step = "put" /\ pc' # "idle"
         \/ doc.step = "deleting" /\ pc = "delete"
  PROVE  doc' = doc /\ it' = it /\ (Steps \/ UNCHANGED vars)
PROOF
<1>1. doc.step \notin Scans \cup {"idle", "rescan_node", "rescan_children", "parent_found",
                                  "persist", "release", "found", "readd", "bulk", "bulk_put",
                                  "bulk_release", "bulk_destroy"}
  BY DEF Scans
<1>2. ~ (Start \/ StartGoesOn \/ DocCalls)
  BY <1>1 DEF Start, StartGoesOn, DocCalls, AddNode, DeleteNode, UpdateNode, AddBulkNodes,
     GetAllChildren, Ready
<1>3. ~ (ScanMoves \/ ScanAborts \/ ScanPasses \/ FindsObstacle \/ ScanFinds \/ ScanEnds
         \/ ScanAgain)
  BY <1>1 DEF ScanMoves, ScanAborts, ScanPasses, FindsObstacle, ScanFinds, ScanEnds, ScanAgain,
     Scanning, Scans
<1>4. ~ (ParentFound \/ Persist \/ Release \/ DeleteFound \/ AddAgain \/ BulkPersist
         \/ BulkRelease \/ DestroyBulk \/ DestroyTwice)
  BY <1>1 DEF ParentFound, Persist, Release, DeleteFound, AddAgain, BulkPersist, BulkRelease,
     DestroyBulk, DestroyTwice, Destroying
<1>5. ~ (PutDone \/ Deleted \/ DocCrash)
  BY DEF PutDone, PutReturns, Deleted, DocCrash, Crash, Die, Dead
<1>6. CASE PutGoesOnOrDies
  BY <1>6 DEF PutGoesOnOrDies
<1>7. CASE DeleteGoesOn
  BY <1>7, Zenon DEF DeleteGoesOn, Steps
<1>8. CASE UNCHANGED docVars
  BY <1>8, Zenon DEF docVars, itVars
<1> QED BY <1>2, <1>3, <1>4, <1>5, <1>6, <1>7, <1>8, Zenon DEF DocNext, DocSteps

\* The put in progress is one that the call has started.
LEMMA NextPutCall ==
  ASSUME NodesHaveBytes, ItInv, DocInv, IndInv', PutCall, [DocNext]_docVars
  PROVE  PutCall' /\ (Putting' => Putting \/ Persist)
PROOF
<1> SUFFICES ASSUME put'.item # -1
             PROVE  /\ doc'.step = "put" /\ NodeOf[put'.item] = doc'.node
                    /\ Putting' => Putting \/ Persist
  BY DEF PutCall, Putting
<1>1. pc' \in {"alloc", "write_new", "set_free", "loop", "part"}
  BY NoPutOK DEF IndInv, PutInv, Called
<1>2. pc = "idle" => put.item = -1
  BY NoPutOK DEF ItInv, IndInv, PutInv, Called
<1>3. CASE Persist
  <2>1. doc.step = "persist" /\ PutStart(ItemOf(doc.node)) /\ GoTo("put")
    BY <1>3 DEF Persist
  <2>2. doc'.step = "put" /\ doc'.node = doc.node /\ doc.node \in Node
    BY <2>1, GoToOK DEF DocInv, NodeGiven, WithNode, Without
  <2>3. put'.item = ItemOf(doc.node)
    BY <2>1 DEF PutStart, NoPut
  <2>4. NodeOf[ItemOf(doc.node)] = doc.node
    BY <2>2 DEF NodesHaveBytes, ItemOf
  <2> QED BY <1>3, <2>2, <2>3, <2>4
<1>4. CASE put.item # -1
  <2>1. doc.step = "put" /\ NodeOf[put.item] = doc.node
    BY <1>4 DEF PutCall
  <2>2. doc' = doc /\ (Steps \/ UNCHANGED vars)
    BY <1>1, <2>1, CallWaits DEF Dead
  <2>3. put'.item = put.item /\ (Putting' => Putting)
    <3>1. CASE Steps
      BY <3>1, StepsPut DEF ItInv
    <3>2. CASE UNCHANGED vars
      BY <3>2 DEF vars, Putting, Left
    <3> QED BY <2>2, <3>1, <3>2
  <2> QED BY <2>1, <2>2, <2>3
<1>5. ASSUME put.item = -1, ~ Persist PROVE FALSE
  <2>1. ~ Steps
    BY <1>5, StepsPut DEF ItInv
  <2>2. ~ (Start \/ StartGoesOn)
    <3>1. ~ OpenWithoutPages
      BY DEF OpenWithoutPages, OpenIfNone, NoPut
    <3> QED BY <1>1, <2>1, <3>1 DEF Start, StartGoesOn, OpenWithPages, OpenAborts, Close, Die
  <2>3. ~ (NewIterator \/ NextPage \/ GetNext \/ Destroy \/ FreePages \/ DeleteCurrent
           \/ PutReturns \/ DeletePart)
    BY <1>1 DEF NewIterator, NextPage, MovesOn, MoveTo, GetNext, Destroy, FreePages,
       DeleteCurrent, DeleteStart, PutReturns, DeletePart, DeleteSlot
  <2>4. ~ (\E how \in Dead : Die(how))
    BY <1>1 DEF Die, Dead
  <2>5. ~ (DocCalls \/ ScanAgain \/ AddAgain)
    BY <2>3, Zenon DEF DocCalls, AddNode, DeleteNode, UpdateNode, AddBulkNodes, GetAllChildren,
       ScanAgain, AddAgain
  <2>6. ~ (ScanMoves \/ ScanPasses \/ ScanFinds \/ ScanEnds \/ ParentFound \/ Release
           \/ DeleteFound \/ DeleteGoesOn \/ Deleted \/ PutDone \/ PutGoesOnOrDies)
    BY <2>1, <2>3, Zenon DEF ScanMoves, ScanPasses, ScanFinds, ScanEnds, ParentFound, Release,
       DeleteFound, DeleteGoesOn, Deleted, PutDone, PutGoesOnOrDies
  <2>7. ~ (ScanAborts \/ FindsObstacle \/ DocCrash)
    BY <2>4 DEF ScanAborts, FindsObstacle, DocCrash, NextPageAborts, GetNextAborts, UserExits,
       Crash, Dead
  <2>8. ~ (BulkPersist \/ BulkRelease \/ DestroyBulk \/ DestroyTwice)
    <3>1. doc.step \notin {"bulk", "bulk_release", "bulk_destroy"}
      BY DEF DocInv, DocTyped, Using, Without
    <3> QED BY <3>1 DEF BulkPersist, BulkRelease, DestroyBulk, DestroyTwice, Destroying
  <2>9. ~ UNCHANGED docVars
    BY <1>5 DEF docVars, itVars, vars
  <2> QED BY <1>5, <2>2, <2>5, <2>6, <2>7, <2>8, <2>9, Zenon DEF DocNext, DocSteps
<1> QED BY <1>3, <1>4, <1>5

\* The item that the iterator is at when it is to be deleted.
AtNode == doc.step = "found" => Address(it.page, it.index) = doc.node.id

\* A delete in progress is one that the call has started.
LEMMA DeletesHow ==
  ASSUME ItInv, DocInv, pc' = "delete", [DocNext]_docVars
  PROVE  DeleteFound \/ DeletePart \/ UNCHANGED docVars
PROOF
<1>1. Steps => DeletePart
  BY StepsDelete DEF ItInv
<1>2. Start \/ StartGoesOn => DeletePart
  BY <1>1 DEF Start, StartGoesOn, OpenWithoutPages, OpenIfNone, OpenWithPages, OpenAborts,
     Close, Die
<1>3. ~ (NewIterator \/ NextPage \/ GetNext \/ Destroy \/ FreePages \/ PutReturns)
  BY DEF NewIterator, NextPage, MovesOn, MoveTo, GetNext, Destroy, FreePages, PutReturns
<1>4. ~ (\E how \in Dead : Die(how)) /\ ~ (\E x : PutStart(x))
  BY DEF Die, Dead, PutStart
<1>5. ~ (DocCalls \/ ScanAgain \/ AddAgain)
  BY <1>3, Zenon DEF DocCalls, AddNode, DeleteNode, UpdateNode, AddBulkNodes, GetAllChildren,
     ScanAgain, AddAgain
<1>6. ~ (ScanMoves \/ ScanPasses \/ ScanFinds \/ ScanEnds \/ ParentFound \/ Release \/ Persist
         \/ Deleted \/ PutDone)
  BY <1>3, <1>4, Zenon DEF ScanMoves, ScanPasses, ScanFinds, ScanEnds, ParentFound, Release,
     Persist, Deleted, PutDone
<1>7. ~ (ScanAborts \/ FindsObstacle \/ DocCrash)
  BY <1>4 DEF ScanAborts, FindsObstacle, DocCrash, NextPageAborts, GetNextAborts, UserExits,
     Crash, Dead
<1>8. PutGoesOnOrDies \/ DeleteGoesOn => DeletePart
  BY <1>1 DEF PutGoesOnOrDies, DeleteGoesOn
<1>9. ~ (BulkPersist \/ BulkRelease \/ DestroyBulk \/ DestroyTwice)
  <2>1. doc.step \notin {"bulk", "bulk_release", "bulk_destroy"}
    BY DEF DocInv, DocTyped, Using, Without
  <2> QED BY <2>1 DEF BulkPersist, BulkRelease, DestroyBulk, DestroyTwice, Destroying
<1> QED BY <1>2, <1>5, <1>6, <1>7, <1>8, <1>9, Zenon DEF DocNext, DocSteps

LEMMA NextDeleteCall ==
  ASSUME ItInv, DocInv, ItemsInv, DeleteCall, AtNode, [DocNext]_docVars
  PROVE  DeleteCall' /\ (DeleteCurrent => Address(it.page, it.index) = doc.node.id)
PROOF
<1>1. ASSUME DeleteFound
      PROVE  /\ doc.node.id = Address(it.page, it.index) /\ doc'.node = doc.node
             /\ doc'.step = "deleting" /\ target' = doc.node.id
  <2>1. doc.step = "found" /\ DeleteCurrent /\ GoTo("deleting")
    BY <1>1 DEF DeleteFound
  <2> QED BY <2>1, GoToOK DEF DocInv, Using, AtNode, DeleteCurrent, DeleteStart
<1>2. ASSUME pc' = "delete" PROVE DeleteCall'
  <2>1. CASE DeleteFound
    BY <1>1, <2>1 DEF DeleteCall
  <2>2. CASE DeletePart
    <3>1. pc = "delete" /\ doc.step = "deleting"
      BY <2>2 DEF DeletePart, DeleteSlot, DeleteCall
    <3>2. doc' = doc
      BY <1>2, <3>1, CallWaits DEF Dead
    <3>3. FileInv
      BY <3>1, PlaceFile DEF ItInv
    <3>4. Part(diskPages', target').data.from > 0
      BY <1>2, <2>2, <3>3, DeletePartLater DEF ItInv, ItemsInv, PartsInv
    <3> QED BY <3>1, <3>2, <3>4 DEF DeleteCall
  <2>3. CASE UNCHANGED docVars
    BY <2>3, Zenon DEF docVars, itVars, vars, disk, DeleteCall
  <2> QED BY <1>2, <2>1, <2>2, <2>3, DeletesHow
<1>3. ASSUME DeleteCurrent PROVE Address(it.page, it.index) = doc.node.id
  <2>1. pc = "idle" /\ pc' = "delete"
    BY <1>3 DEF DeleteCurrent, DeleteStart
  <2>2. ~ DeletePart /\ ~ UNCHANGED docVars
    BY <2>1 DEF DeletePart, DeleteSlot, docVars, itVars, vars
  <2> QED BY <1>1, <2>1, <2>2, DeletesHow
<1> QED BY <1>2, <1>3 DEF DeleteCall

--------------------------------------------------------------------------------
(***************************************************************************)
(* The tree, and what a call knows of it: what it has read stays true of   *)
(* the file until it writes, since the items stay until then.              *)
(***************************************************************************)
NodeIn(a) == NodeOf[Store[a]]

ToDelete == {"find_children", "rescan_node", "find_node", "found"}

ToAdd == {"find_parent", "find_bulk_parent", "parent_found", "persist", "put"}

StoredTree ==
  \A a \in DOMAIN Store :
    /\ NodeIn(a).parent_id \in DOMAIN Store \cup {NULL_NODE_ID}
    /\ NodeIn(a).parent_id = NULL_NODE_ID => NodeIn(a).id = ROOT_NODE_ID

ParentThere ==
  doc.step \in ToDelete \cup ToAdd \cup {"deleting", "readd"} =>
    doc.node.parent_id \in DOMAIN Store \cup {NULL_NODE_ID}

NodeThere ==
  doc.step \in ToDelete =>
    doc.node.id \in DOMAIN Store /\ NodeIn(doc.node.id).parent_id = doc.node.parent_id

\* No node that has been handed out is what the scan looks for.
Unmatched ==
  \A n \in 1 .. Len(it.payloads) :
    it.payloads[n] \in DOMAIN Store =>
      /\ doc.step = "find_root" => NodeIn(it.payloads[n]).id # ROOT_NODE_ID
      /\ doc.step = "find_children" => NodeIn(it.payloads[n]).parent_id # doc.node.id

NoChildren ==
  doc.step \in {"rescan_node", "find_node", "found", "deleting"} =>
    /\ doc.node.parent_id # doc.node.id
    /\ \A a \in DOMAIN Store : NodeIn(a).parent_id # doc.node.id

\* A root is put only where there is none, and its bytes say that it is one.
NoRootYet ==
  /\ doc.step = "find_root" => doc.node.parent_id = NULL_NODE_ID
  /\ doc.step \in {"find_parent", "find_bulk_parent", "parent_found"} =>
       doc.node.parent_id # NULL_NODE_ID
  /\ (doc.step = "persist" \/ Putting) /\ doc.node.parent_id = NULL_NODE_ID =>
       /\ doc.node.id = ROOT_NODE_ID
       /\ \A a \in DOMAIN Store : NodeIn(a).parent_id # NULL_NODE_ID

TreeInv ==
  StoredTree /\ ParentThere /\ NodeThere /\ Unmatched /\ NoChildren /\ NoRootYet /\ AtNode

\* A step that keeps the items and the call.
LEMMA SameCallTree ==
  ASSUME TreeInv, Store' = Store, doc' = doc, it'.payloads = it.payloads,
         doc.step = "found" => it' = it, Putting' => Putting
  PROVE  TreeInv'
PROOF
<1>1. \A a : NodeIn(a)' = NodeIn(a)
  BY DEF NodeIn
<1>2. StoredTree' /\ ParentThere' /\ NodeThere' /\ NoChildren' /\ NoRootYet'
  BY <1>1 DEF TreeInv, StoredTree, ParentThere, NodeThere, NoChildren, NoRootYet
<1>3. Unmatched'
  BY <1>1 DEF TreeInv, Unmatched
<1>4. AtNode'
  BY DEF TreeInv, AtNode
<1> QED BY <1>2, <1>3, <1>4 DEF TreeInv

\* A step to where the call has nothing to know of the tree.
LEMMA NothingAsked ==
  ASSUME StoredTree', ~ Putting',
         doc'.step \in {"idle", "release", "count", "rescan_children", "collect"}
  PROVE  TreeInv'
PROOF
<1>1. doc'.step \notin ToDelete \cup ToAdd \cup {"deleting", "readd", "find_root"}
  BY DEF ToDelete, ToAdd
<1> QED BY <1>1 DEF TreeInv, ParentThere, NodeThere, Unmatched, NoChildren, NoRootYet, AtNode,
     ToDelete, ToAdd

LEMMA NothingToKnow ==
  ASSUME TreeInv, Store' = Store, ~ Putting',
         doc'.step \in {"idle", "release", "count", "rescan_children", "collect"}
  PROVE  TreeInv'
PROOF
<1>1. \A a : NodeIn(a)' = NodeIn(a)
  BY DEF NodeIn
<1>2. StoredTree'
  BY <1>1 DEF TreeInv, StoredTree
<1> QED BY <1>2, NothingAsked

\* A call goes on to a step that does not start a scan.
LEMMA GoesOnTree ==
  ASSUME DocInv, TreeInv, Store' = Store, NEW step \in Using \cup Without, GoTo(step),
         step # "find_root", step # "find_children",
         step \in ToDelete \cup ToAdd \cup {"deleting", "readd"} =>
           doc.step \in ToDelete \cup ToAdd \cup {"deleting", "readd"},
         step \in ToDelete => doc.step \in ToDelete,
         step \in {"rescan_node", "find_node", "found", "deleting"} =>
           doc.step \in {"rescan_node", "find_node", "found", "deleting"},
         step \in {"find_parent", "find_bulk_parent", "parent_found"} => doc.step = "find_parent",
         step = "persist" => doc.step = "parent_found",
         Putting' => Putting \/ doc.step = "persist",
         step = "found" => Address(it'.page, it'.index) = doc.node.id
  PROVE  TreeInv'
PROOF
<1>1. doc'.step = step /\ doc'.node = doc.node
  BY GoToOK DEF DocInv
<1>2. \A a : NodeIn(a)' = NodeIn(a)
  BY DEF NodeIn
<1>3. StoredTree' /\ ParentThere' /\ NodeThere' /\ NoChildren'
  BY <1>1, <1>2 DEF TreeInv, StoredTree, ParentThere, NodeThere, NoChildren
<1>4. NoRootYet'
  <2>1. step = "persist" => doc.node.parent_id # NULL_NODE_ID
    BY DEF TreeInv, NoRootYet
  <2> QED BY <1>1, <1>2, <2>1 DEF TreeInv, NoRootYet
<1>5. Unmatched' /\ AtNode'
  BY <1>1 DEF Unmatched, AtNode
<1> QED BY <1>3, <1>4, <1>5 DEF TreeInv

\* A node is to be added below one that is there, or as a root.
LEMMA AddIntoTree ==
  ASSUME TreeInv, Store' = Store, ~ Putting', it'.payloads = <<>>,
         NEW node, NEW call, AddInto(node, call),
         node.parent_id \in DOMAIN Store \cup {NULL_NODE_ID},
         call \in [ step : Using \cup Without, node : {call.node},
                    update : Values \cup {NoValue}, count : Nat, i : Nat, left : 0 .. MaxBulk ]
  PROVE  TreeInv'
PROOF
<1>1. /\ doc'.node = node
      /\ doc'.step = IF node.parent_id = NULL_NODE_ID THEN "find_root" ELSE "find_parent"
  BY DEF AddInto
<1>2. \A a : NodeIn(a)' = NodeIn(a)
  BY DEF NodeIn
<1>3. StoredTree' /\ ParentThere'
  BY <1>1, <1>2 DEF TreeInv, StoredTree, ParentThere
<1>4. NodeThere' /\ NoChildren' /\ AtNode' /\ NoRootYet'
  BY <1>1 DEF NodeThere, NoChildren, AtNode, NoRootYet, ToDelete
<1>5. Unmatched'
  BY DEF Unmatched
<1> QED BY <1>3, <1>4, <1>5 DEF TreeInv

\* The id of no node is that of none.
LEMMA NullNotStored ==
  /\ IndInv => NULL_NODE_ID \notin DOMAIN Store
  /\ NULL_NODE_ID # ROOT_NODE_ID /\ NULL_NODE_ID \notin Addresses
PROOF
<1>1. NULL_NODE_ID = [page |-> -1, item |-> -1] /\ ROOT_NODE_ID = [page |-> 0, item |-> 0]
  BY DEF NULL_NODE_ID, ROOT_NODE_ID, Address
<1>2. ASSUME IndInv, NULL_NODE_ID \in DOMAIN Store PROVE FALSE
  <2>1. NULL_NODE_ID \in Slots(diskPages) /\ DiskOK(diskPages)
    BY <1>2, StoreOK DEF IndInv
  <2>2. NULL_NODE_ID.page \in Nat
    BY <2>1, SlotsOK
  <2> QED BY <1>1, <2>2
<1>3. NULL_NODE_ID \notin Addresses
  BY <1>1 DEF Addresses
<1> QED BY <1>1, <1>2, <1>3

\* A call starts with nodes and ids that the file has.
LEMMA CallTree ==
  ASSUME StaleIds = {}, ItInv, TreeInv, Store' = Store, ~ Putting', DocCalls
  PROVE  TreeInv'
PROOF
<1>1. NoCall \in [ step : Using \cup Without, node : {NoCall.node},
                   update : Values \cup {NoValue}, count : Nat, i : Nat, left : 0 .. MaxBulk ]
  BY NoCallOK, CallersAssumption DEF Without, NoValue
<1>2. ASSUME NEW parent \in GivenIds \cup {NULL_NODE_ID}, NEW value \in Values,
             AddNode(parent, value)
      PROVE  TreeInv'
  <2>1. NewIterator /\ AddInto(NewNode(parent, value), NoCall)
    BY <1>2 DEF AddNode
  <2>2. it'.payloads = <<>>
    BY <2>1, StartsUsing
  <2>3. NewNode(parent, value).parent_id \in DOMAIN Store \cup {NULL_NODE_ID}
    BY DEF NewNode, GivenIds
  <2> QED BY <1>1, <2>1, <2>2, <2>3, AddIntoTree
<1>3. ASSUME NEW node \in GivenNodes, NEW update, NewIterator, DeleteFirst(node, update)
      PROVE  TreeInv'
  <2>1. doc'.step = "find_children" /\ doc'.node = node
    BY <1>3, NoCallOK DEF DeleteFirst
  <2>2. it'.payloads = <<>>
    BY <1>3, StartsUsing
  <2>3. node \in { [NodeAt(a) EXCEPT !.id = a] : a \in DOMAIN Store }
    BY DEF GivenNodes
  <2>4. PICK a \in DOMAIN Store : node = [NodeAt(a) EXCEPT !.id = a]
    BY <2>3
  <2>5. NodeIn(a) \in Node /\ NodeAt(a) = NodeIn(a)
    <3>1. Store[a] = Part(diskPages, a).data.item
      BY StoreOK
    <3>2. Part(diskPages, a).data.item \in Items
      BY StoredItem
    <3> QED BY <3>1, <3>2, NodesAssumption DEF NodeIn, NodeAt, Node
  <2>6. node.id = a /\ node.parent_id = NodeIn(a).parent_id
    BY <2>4, <2>5 DEF Node
  <2>7. \A b : NodeIn(b)' = NodeIn(b)
    BY DEF NodeIn
  <2>8. StoredTree' /\ ParentThere' /\ NodeThere'
    BY <2>1, <2>4, <2>6, <2>7 DEF TreeInv, StoredTree, ParentThere, NodeThere
  <2>9. Unmatched' /\ NoChildren' /\ NoRootYet' /\ AtNode'
    BY <2>1, <2>2 DEF Unmatched, NoChildren, NoRootYet, AtNode
  <2> QED BY <2>8, <2>9 DEF TreeInv
<1>4. ASSUME NEW id, GetAllChildren(id)
      PROVE  TreeInv'
  <2>1. doc'.step = "count"
    BY <1>4, NoCallOK DEF GetAllChildren
  <2> QED BY <2>1, NothingToKnow
<1>5. ASSUME NEW parent \in GivenIds, NEW value \in Values, NEW count \in 1 .. MaxBulk,
             AddBulkNodes(parent, value, count)
      PROVE  TreeInv'
  <2>1. NewIterator
        /\ doc'.step = "find_bulk_parent" /\ doc'.node = NewNode(parent, value)
    BY <1>5, NoCallOK DEF AddBulkNodes
  <2>2. it'.payloads = <<>>
    BY <2>1, StartsUsing
  <2>3. doc'.node.parent_id = parent /\ parent \in DOMAIN Store /\ parent # NULL_NODE_ID
    BY <2>1, NullNotStored DEF NewNode, GivenIds, ItInv
  <2>4. \A a : NodeIn(a)' = NodeIn(a)
    BY DEF NodeIn
  <2>5. StoredTree' /\ ParentThere'
    BY <2>3, <2>4 DEF TreeInv, StoredTree, ParentThere
  <2>6. NoRootYet'
    BY <2>1, <2>3 DEF NoRootYet, NULL_NODE_ID
  <2>7. NodeThere' /\ NoChildren' /\ AtNode' /\ Unmatched'
    BY <2>1, <2>2 DEF NodeThere, NoChildren, AtNode, Unmatched, ToDelete
  <2> QED BY <2>5, <2>6, <2>7 DEF TreeInv
<1>6. ASSUME NEW node \in GivenNodes, DeleteNode(node) PROVE TreeInv'
  BY <1>3, <1>6 DEF DeleteNode
<1>7. ASSUME NEW node \in GivenNodes, NEW value \in Values, UpdateNode(node, value)
      PROVE  TreeInv'
  BY <1>3, <1>7 DEF UpdateNode
<1> QED BY <1>2, <1>4, <1>5, <1>6, <1>7, Zenon DEF DocCalls

\* An item that is not what a scan of the whole file looks for.
LEMMA PassesTree ==
  ASSUME ItInv, DocInv, TreeInv, Store' = Store, ~ Putting', ScanPasses
  PROVE  TreeInv'
PROOF
<1>1. /\ GetNext /\ doc' = doc /\ doc.step \in Scans
      /\ \E node \in NodesRead : ~Matches(node)
  BY DEF ScanPasses, Scanning
<1>2. it'.payloads = Append(it.payloads, NextItem) /\ it.payloads \in Payloads
  BY <1>1, KeepsUsing DEF ItInv, ItTyped
<1>3. NextItem \in [page : Nat, item : Nat]
  BY <1>1, NextItemOK
<1>4. /\ Len(it'.payloads) = Len(it.payloads) + 1
      /\ \A n \in 1 .. Len(it.payloads) + 1 :
           it'.payloads[n] = IF n = Len(it.payloads) + 1 THEN NextItem ELSE it.payloads[n]
  BY <1>2, <1>3 DEF Payloads
<1>5. \A a : NodeIn(a)' = NodeIn(a)
  BY DEF NodeIn
<1>6. ASSUME NextItem \in DOMAIN Store
      PROVE  /\ doc.step = "find_root" => NodeIn(NextItem).id # ROOT_NODE_ID
             /\ doc.step = "find_children" => NodeIn(NextItem).parent_id # doc.node.id
  <2>1. ~ Matches(NodeAt(NextItem))
    BY <1>1, <1>6 DEF NodesRead
  <2>2. NodeAt(NextItem) = NodeIn(NextItem)
    BY <1>6, StoreOK DEF NodeAt, NodeIn
  <2> QED BY <2>1, <2>2 DEF Matches, IsRoot, IsChild
<1>7. Unmatched'
  BY <1>1, <1>4, <1>5, <1>6 DEF TreeInv, Unmatched
<1>8. StoredTree' /\ ParentThere' /\ NodeThere' /\ NoChildren' /\ NoRootYet'
  BY <1>1, <1>5 DEF TreeInv, StoredTree, ParentThere, NodeThere, NoChildren, NoRootYet
<1>9. AtNode'
  BY <1>1 DEF AtNode, Scans
<1> QED BY <1>7, <1>8, <1>9 DEF TreeInv

\* The scan finds the parent, or the node.
LEMMA FindsTree ==
  ASSUME ItInv, DocInv, TreeInv, Store' = Store, ~ Putting', ScanFinds,
         doc'.step \notin BulkSteps
  PROVE  TreeInv'
PROOF
<1>1. GetNext /\ Found(doc.step) /\ \E node \in NodesRead : Matches(node)
  BY DEF ScanFinds
<1>2. doc.step \in {"find_parent", "find_node", "count", "collect"}
  <2>1. doc.step # "find_bulk_parent"
    BY <1>1 DEF Found, GoTo, BulkSteps, DocInv, DocTyped
  <2> QED BY <2>1 DEF ScanFinds, Scanning, Scans
<1>3. CASE doc.step = "find_parent"
  <2>1. GoTo("parent_found")
    BY <1>1, <1>3 DEF Found
  <2> QED BY <1>3, <2>1, GoesOnTree DEF Using, ToDelete, ToAdd
<1>4. CASE doc.step = "find_node"
  <2>1. GoTo("found")
    BY <1>1, <1>4 DEF Found
  <2>2. NextItem = doc.node.id
    BY <1>1, <1>4 DEF Matches, IsNode
  <2>3. it'.page = it.page /\ it'.index = it.index + 1
    <3> DEFINE longer == Append(it.payloads, NextItem)
               k == it.index + 1
    <3>1. it' = [it EXCEPT !.index = k, !.payloads = longer] /\ ItTyped
      BY <1>1 DEF GetNext, ItInv
    <3> HIDE DEF longer, k
    <3>2. it'.page = it.page /\ it'.index = k
      BY <3>1 DEF ItTyped
    <3> QED BY <3>2 DEF k
  <2>4. Address(it'.page, it'.index) = doc.node.id
    BY <2>2, <2>3 DEF NextItem
  <2> QED BY <1>4, <2>1, <2>4, GoesOnTree DEF Using, ToDelete, ToAdd
<1>5. CASE doc.step \in {"count", "collect"}
  <2>1. doc'.step = doc.step
    BY <1>1, <1>5 DEF Found, DocInv, DocTyped
  <2> QED BY <1>5, <2>1, NothingToKnow
<1> QED BY <1>2, <1>3, <1>4, <1>5

\* A scan that has seen all items knows what none of them is.
LEMMA EndsTree ==
  ASSUME Unlucky = {}, ItInv, DocInv, TreeInv, Store' = Store, ~ Putting', ScanEnds
  PROVE  TreeInv'
PROOF
<1>1. Exhausted /\ AfterScan /\ doc.step \in Scans
  BY DEF ScanEnds, Scanning
<1>2. \A a \in DOMAIN Store : \E n \in 1 .. Len(it.payloads) : it.payloads[n] = a
  BY <1>1, AllHandedOut, StoreOK
<1>3. \A a : NodeIn(a)' = NodeIn(a)
  BY DEF NodeIn
<1>4. CASE Return
  BY <1>4, NoCallOK, NothingToKnow DEF Return
<1>5. CASE doc.step = "find_root"
  <2>1. doc' = [doc EXCEPT !.step = "persist", !.node.id = ROOT_NODE_ID]
    BY <1>1, <1>5 DEF AfterScan
  <2>2. doc.node \in Node
    BY <1>5 DEF DocInv, NodeGiven, WithNode
  <2>3. /\ doc'.step = "persist" /\ doc'.node.id = ROOT_NODE_ID
        /\ doc'.node.parent_id = doc.node.parent_id /\ doc.node.parent_id = NULL_NODE_ID
    BY <1>5, <2>1, <2>2 DEF DocInv, DocTyped, Node, TreeInv, NoRootYet
  <2>4. \A a \in DOMAIN Store : NodeIn(a).parent_id # NULL_NODE_ID
    BY <1>2, <1>5 DEF TreeInv, Unmatched, StoredTree
  <2>5. StoredTree' /\ ParentThere' /\ NoRootYet'
    BY <1>3, <2>3, <2>4 DEF TreeInv, StoredTree, ParentThere, NoRootYet
  <2>6. NodeThere' /\ NoChildren' /\ Unmatched' /\ AtNode'
    BY <2>3 DEF NodeThere, NoChildren, Unmatched, AtNode, ToDelete
  <2> QED BY <2>5, <2>6 DEF TreeInv
<1>6. CASE doc.step = "find_children"
  <2>1. GoTo("rescan_node")
    BY <1>1, <1>6 DEF AfterScan
  <2>2. doc'.step = "rescan_node" /\ doc'.node = doc.node
    BY <2>1, GoToOK DEF DocInv, Without
  <2>3. \A a \in DOMAIN Store : NodeIn(a).parent_id # doc.node.id
    BY <1>2, <1>6 DEF TreeInv, Unmatched
  <2>4. doc.node.parent_id # doc.node.id
    BY <1>6, <2>3 DEF TreeInv, NodeThere, ToDelete
  <2>5. StoredTree' /\ ParentThere' /\ NodeThere' /\ NoChildren'
    BY <1>3, <1>6, <2>2, <2>3, <2>4
       DEF TreeInv, StoredTree, ParentThere, NodeThere, NoChildren, ToDelete
  <2>6. Unmatched' /\ NoRootYet' /\ AtNode'
    BY <2>2 DEF Unmatched, NoRootYet, AtNode
  <2> QED BY <2>5, <2>6 DEF TreeInv
<1>7. CASE doc.step = "count" /\ ~Return
  <2>1. GoTo("rescan_children")
    BY <1>1, <1>7 DEF AfterScan
  <2>2. doc'.step = "rescan_children"
    BY <2>1, GoToOK DEF DocInv, Without
  <2> QED BY <2>2, NothingToKnow
<1>8. doc.step \in {"find_parent", "find_node", "find_bulk_parent", "collect"} => Return
  BY <1>1 DEF AfterScan
<1> QED BY <1>1, <1>4, <1>5, <1>6, <1>7, <1>8 DEF Scans

\* The other steps of a call that keep the items.
LEMMA CallKeepsTree ==
  ASSUME DocInv, TreeInv, Store' = Store, Putting' => Putting \/ Persist,
         \/ ScanAgain \/ ParentFound \/ Persist \/ PutDone \/ DeleteFound
         \/ Deleted \/ AddAgain,
         doc'.step # "put" => ~ Putting'
  PROVE  TreeInv'
PROOF
<1>1. CASE ScanAgain
  <2>1. CASE doc.step = "rescan_node"
    <3>1. GoTo("find_node")
      BY <1>1, <2>1 DEF ScanAgain
    <3>2. ~ Putting'
      BY <3>1, GoToOK DEF DocInv, Using
    <3> QED BY <2>1, <3>1, <3>2, GoesOnTree DEF Using, ToDelete, ToAdd
  <2>2. CASE doc.step = "rescan_children"
    <3>1. GoTo("collect")
      BY <1>1, <2>2 DEF ScanAgain
    <3>2. doc'.step = "collect"
      BY <3>1, GoToOK DEF DocInv, Using
    <3> QED BY <3>2, NothingToKnow
  <2> QED BY <1>1, <2>1, <2>2 DEF ScanAgain
<1>2. CASE ParentFound
  <2>1. GoTo("persist") /\ doc.step = "parent_found"
    BY <1>2 DEF ParentFound
  <2>2. ~ Putting'
    BY <2>1, GoToOK DEF DocInv, Without
  <2> QED BY <2>1, <2>2, GoesOnTree DEF Without, ToDelete, ToAdd
<1>3. CASE Persist
  <2>1. GoTo("put") /\ doc.step = "persist"
    BY <1>3 DEF Persist
  <2> QED BY <2>1, GoesOnTree DEF Without, ToDelete, ToAdd
<1>4. CASE PutDone
  <2>1. doc'.step = "release"
    BY <1>4 DEF PutDone, DocInv, DocTyped, Using, Without
  <2> QED BY <2>1, NothingToKnow
<1>5. CASE DeleteFound
  <2>1. GoTo("deleting") /\ doc.step = "found"
    BY <1>5 DEF DeleteFound
  <2>2. ~ Putting'
    BY <2>1, GoToOK DEF DocInv, Using
  <2> QED BY <2>1, <2>2, GoesOnTree DEF Using, ToDelete, ToAdd
<1>6. CASE Deleted
  <2>1. CASE Return
    BY <2>1, NoCallOK, NothingToKnow DEF Return
  <2>2. CASE GoTo("readd")
    <3>1. doc.step = "deleting"
      BY <1>6 DEF Deleted
    <3>2. ~ Putting'
      BY <2>2, GoToOK DEF DocInv, Without
    <3> QED BY <2>2, <3>1, <3>2, GoesOnTree DEF Without, ToDelete, ToAdd
  <2> QED BY <1>6, <2>1, <2>2 DEF Deleted
<1>7. CASE AddAgain
  <2> DEFINE node == [doc.node EXCEPT !.value = doc.update]
  <2>1. NewIterator /\ AddInto(node, doc) /\ doc.step = "readd"
    BY <1>7 DEF AddAgain
  <2>2. doc.node \in Node
    BY <2>1 DEF DocInv, NodeGiven, WithNode
  <2>3. node.parent_id = doc.node.parent_id
    BY <2>2 DEF Node
  <2>4. node.parent_id \in DOMAIN Store \cup {NULL_NODE_ID}
    BY <2>1, <2>3 DEF TreeInv, ParentThere
  <2>5. it'.payloads = <<>>
    BY <2>1, StartsUsing
  <2> HIDE DEF node
  <2>6. doc'.step \in {"find_root", "find_parent"}
    BY <2>1 DEF AddInto, DocInv, DocTyped
  <2> QED BY <2>1, <2>4, <2>5, <2>6, AddIntoTree DEF DocInv, DocTyped
<1> QED BY <1>1, <1>2, <1>3, <1>4, <1>5, <1>6, <1>7

\* The node that is put is below one that is there, or it is the only root.
LEMMA AddedTree ==
  ASSUME IndInv, DocInv, PutCall, TreeInv, ItemAdded, [DocNext]_docVars
  PROVE  /\ TreeInv' /\ doc' = doc /\ doc.step = "put"
         /\ \E h \in Addresses \ DOMAIN Store :
              /\ DOMAIN Store' = DOMAIN Store \cup {h}
              /\ NodeIn(h)' = doc.node
              /\ \A a \in DOMAIN Store : NodeIn(a)' = NodeIn(a)
PROOF
<1>1. /\ pc = "part" /\ pc' = "loop" /\ put.item # -1 /\ Left > 0
      /\ Left' = 0
  BY AddPartEffect, ItemsAssumption DEF ItemAdded
<1>2. doc.step = "put" /\ NodeOf[put.item] = doc.node
  BY <1>1 DEF PutCall
<1>3. doc' = doc /\ it' = it
  BY <1>1, <1>2, CallWaits DEF Dead
<1>4. PICK h \in Addresses \ DOMAIN Store :
        Store' = [b \in DOMAIN Store \cup {h} |-> IF b = h THEN put.item ELSE Store[b]]
  BY DEF ItemAdded
<1>5. /\ DOMAIN Store' = DOMAIN Store \cup {h}
      /\ NodeIn(h)' = doc.node
      /\ \A a \in DOMAIN Store : NodeIn(a)' = NodeIn(a)
  BY <1>2, <1>4 DEF NodeIn
<1>6. Putting /\ ~ Putting'
  BY <1>1 DEF Putting
<1>7. doc.node.parent_id \in DOMAIN Store \cup {NULL_NODE_ID}
  BY <1>2 DEF TreeInv, ParentThere, ToAdd
<1>8. doc.node.parent_id = NULL_NODE_ID => doc.node.id = ROOT_NODE_ID
  BY <1>6 DEF TreeInv, NoRootYet
<1>9. StoredTree'
  BY <1>5, <1>7, <1>8 DEF TreeInv, StoredTree
<1>10. ParentThere'
  BY <1>3, <1>5, <1>7 DEF ParentThere
<1>11. NodeThere' /\ NoChildren' /\ Unmatched' /\ AtNode' /\ NoRootYet'
  BY <1>2, <1>3, <1>6 DEF NodeThere, NoChildren, Unmatched, AtNode, NoRootYet, ToDelete
<1> QED BY <1>2, <1>3, <1>5, <1>9, <1>10, <1>11 DEF TreeInv

\* The node that is deleted has no children.
LEMMA DeletedTree ==
  ASSUME DocInv, DeleteCall, PutCall', TreeInv, ItemDeleted, [DocNext]_docVars
  PROVE  /\ TreeInv' /\ doc' = doc /\ doc.step = "deleting"
         /\ Store' = [a \in DOMAIN Store \ {doc.node.id} |-> Store[a]]
PROOF
<1>1. pc = "delete" /\ pc' \notin Dead /\ Part(diskPages, target).data.from = 0
  BY DEF ItemDeleted, DeletePart, DeleteSlot, Dead
<1>2. doc.step = "deleting" /\ target = doc.node.id
  BY <1>1 DEF DeleteCall
<1>3. doc' = doc /\ it' = it
  BY <1>1, <1>2, CallWaits
<1>4. Store' = [a \in DOMAIN Store \ {doc.node.id} |-> Store[a]]
  BY <1>2 DEF ItemDeleted
<1>5. /\ DOMAIN Store' = DOMAIN Store \ {doc.node.id}
      /\ \A a \in DOMAIN Store' : NodeIn(a)' = NodeIn(a)
  BY <1>4 DEF NodeIn
<1>6. /\ doc.node.parent_id # doc.node.id
      /\ \A a \in DOMAIN Store : NodeIn(a).parent_id # doc.node.id
      /\ doc.node.parent_id \in DOMAIN Store \cup {NULL_NODE_ID}
  BY <1>2 DEF TreeInv, NoChildren, ParentThere
<1>7. StoredTree' /\ ParentThere' /\ NoChildren'
  BY <1>3, <1>5, <1>6 DEF TreeInv, StoredTree, ParentThere, NoChildren
<1>8. ~ Putting'
  BY <1>2, <1>3 DEF PutCall, Putting
<1>9. NodeThere' /\ Unmatched' /\ AtNode' /\ NoRootYet'
  BY <1>2, <1>3, <1>8 DEF NodeThere, Unmatched, AtNode, NoRootYet, ToDelete
<1> QED BY <1>2, <1>3, <1>4, <1>7, <1>9 DEF TreeInv

\* No other step changes what the call knows.
LEMMA KeptTree ==
  ASSUME Unlucky = {}, StaleIds = {}, ItInv, IndInv', DocInv, TreeInv, PutCall',
         Store' = Store, Putting' => Putting \/ Persist, [DocNext]_docVars,
         doc'.step \notin BulkSteps
  PROVE  TreeInv'
PROOF
<1>1. doc'.step # "put" => ~ Putting'
  BY DEF PutCall, Putting
<1>2. pc' = "idle" => ~ Putting'
  BY NoPutOK DEF IndInv, PutInv, Called, Putting
<1>3. CASE Return
  BY <1>1, <1>3, NoCallOK, NothingToKnow DEF Return
<1>4. CASE doc' = doc /\ it' = it
  <2>1. ~ Persist
    <3>1. ~ (GoTo("put") /\ doc.step = "persist")
      BY <1>4, GoToOK DEF DocInv, Without
    <3> QED BY <3>1 DEF Persist
  <2> QED BY <1>4, <2>1, SameCallTree
<1>5. CASE Start \/ StartGoesOn \/ DeleteGoesOn \/ UNCHANGED docVars
  BY <1>4, <1>5, Zenon DEF Start, StartGoesOn, DeleteGoesOn, docVars, itVars
<1>6. CASE PutGoesOnOrDies
  BY <1>3, <1>4, <1>6 DEF PutGoesOnOrDies
<1>7. CASE ScanAborts \/ FindsObstacle \/ Release \/ DocCrash
  BY <1>3, <1>7, Zenon DEF ScanAborts, FindsObstacle, Release, DocCrash
<1>8. CASE DocCalls
  <2>1. pc' = "idle"
    <3>1. NewIterator
      BY <1>8, Zenon DEF DocCalls, AddNode, DeleteNode, UpdateNode, AddBulkNodes, GetAllChildren
    <3> QED BY <3>1 DEF NewIterator
  <2> QED BY <1>2, <1>8, <2>1, CallTree
<1>9. CASE ScanMoves
  <2>1. /\ doc' = doc /\ it'.payloads = it.payloads /\ doc.step # "found" /\ pc' = "idle"
    BY <1>9, KeepsUsing DEF ScanMoves, Scanning, Scans, NextPage, MovesOn, MoveTo
  <2> QED BY <1>2, <2>1, SameCallTree
<1>10. CASE ScanPasses \/ ScanFinds
  <2>1. pc' = "idle"
    BY <1>10 DEF ScanPasses, ScanFinds, GetNext
  <2> QED BY <1>2, <1>10, <2>1, PassesTree, FindsTree
<1>11. CASE ScanEnds
  <2>1. pc' = "idle"
    BY <1>11 DEF ScanEnds, Destroy
  <2> QED BY <1>2, <1>11, <2>1, EndsTree
<1>12. CASE ScanAgain \/ ParentFound \/ Persist \/ PutDone \/ DeleteFound \/ Deleted \/ AddAgain
  BY <1>1, <1>12, CallKeepsTree
<1>13. ~ (BulkPersist \/ BulkRelease \/ DestroyBulk \/ DestroyTwice)
  <2>1. doc.step \notin {"bulk", "bulk_release", "bulk_destroy"}
    BY DEF DocInv, DocTyped, Using, Without
  <2> QED BY <2>1 DEF BulkPersist, BulkRelease, DestroyBulk, DestroyTwice, Destroying
<1> QED BY <1>5, <1>6, <1>7, <1>8, <1>9, <1>10, <1>11, <1>12, <1>13, Zenon DEF DocNext, DocSteps

(***************************************************************************)
(* The invariant of a document but for its bulk adds, if callers give      *)
(* nodes that are in the file.                                             *)
(***************************************************************************)
DocTreeInv == ItInv /\ DocInv /\ ItemsInv /\ PutCall /\ DeleteCall /\ TreeInv

LEMMA InitDocTree == DocInit => DocTreeInv /\ DOMAIN Store = {}
PROOF
<1> SUFFICES ASSUME DocInit PROVE DocTreeInv /\ DOMAIN Store = {}
  OBVIOUS
<1>1. doc.step = "idle" /\ put.item = -1 /\ pc = "closed" /\ it.payloads = <<>>
  BY NoCallOK, NoPutOK, NoIteratorOK DEF DocInit, ItInit, Init
<1>2. ItInv /\ DocInv /\ ItemsInv /\ DOMAIN Store = {}
  BY InitItInv, InitDoc, InitItems DEF DocInit, ItInit
<1>3. PutCall /\ DeleteCall /\ TreeInv
  BY <1>1, <1>2 DEF PutCall, DeleteCall, TreeInv, StoredTree, ParentThere, NodeThere, Unmatched,
     NoChildren, NoRootYet, AtNode, ToDelete, ToAdd, Putting
<1> QED BY <1>2, <1>3 DEF DocTreeInv

LEMMA NextDocTree ==
  ASSUME NodesHaveBytes, Unlucky = {}, StaleIds = {}, DocTreeInv, [DocNext]_docVars,
         doc'.step \notin BulkSteps
  PROVE  /\ DocTreeInv' /\ (Store' = Store \/ ItemAdded \/ ItemDeleted)
         /\ Putting' => Putting \/ Persist
PROOF
<1>1. [ItNext]_itVars /\ DocInv'
  BY NextDoc DEF DocOK, DocTreeInv
<1>2. ItInv' /\ IndInv'
  BY <1>1, NextItInv DEF DocTreeInv, ItInv
<1>3. PutCall' /\ (Putting' => Putting \/ Persist)
  BY <1>2, NextPutCall DEF DocTreeInv
<1>4. DeleteCall' /\ (DeleteCurrent => Address(it.page, it.index) = doc.node.id)
  BY NextDeleteCall DEF DocTreeInv, TreeInv
<1>5. DeleteCurrent => Address(it.page, it.index) \in DOMAIN Store
  <2> SUFFICES ASSUME DeleteCurrent PROVE doc.node.id \in DOMAIN Store
    BY <1>4
  <2>1. pc = "idle" /\ pc' = "delete"
    BY DEF DeleteCurrent, DeleteStart
  <2>2. DeleteFound
    <3>1. ~ DeletePart /\ ~ UNCHANGED docVars
      BY <2>1 DEF DeletePart, DeleteSlot, docVars, itVars, vars
    <3> QED BY <2>1, <3>1, DeletesHow DEF DocTreeInv
  <2> QED BY <2>2 DEF DeleteFound, DocTreeInv, TreeInv, NodeThere, ToDelete
<1>6. ItemsInv' /\ (Store' = Store \/ ItemAdded \/ ItemDeleted)
  BY <1>1, <1>5, ItNextItems DEF DocTreeInv
<1>7. TreeInv'
  <2>1. CASE Store' = Store
    BY <1>2, <1>3, <2>1, KeptTree DEF DocTreeInv
  <2>2. CASE ItemAdded
    BY <2>2, AddedTree DEF DocTreeInv, ItInv
  <2>3. CASE ItemDeleted
    BY <1>3, <2>3, DeletedTree DEF DocTreeInv
  <2> QED BY <1>6, <2>1, <2>2, <2>3
<1> QED BY <1>1, <1>2, <1>3, <1>4, <1>6, <1>7 DEF DocTreeInv

--------------------------------------------------------------------------------
(***************************************************************************)
(* What a bulk add knows of the tree is its parent, which stays: a bulk    *)
(* add deletes nothing.                                                    *)
(***************************************************************************)
PutBulk == put.item # -1 => doc.step = "bulk_put" /\ NodeOf[put.item] = BulkNode

BulkTreeInv ==
  BulkInv /\ ItemsInv /\ PutBulk /\ StoredTree /\ doc.node.parent_id \in DOMAIN Store

LEMMA NextPutBulk ==
  ASSUME NodesHaveBytes, BulkInv, IndInv', PutBulk, [DocNext]_docVars
  PROVE  PutBulk'
PROOF
<1> SUFFICES ASSUME put'.item # -1
             PROVE  doc'.step = "bulk_put" /\ NodeOf[put'.item] = BulkNode'
  BY DEF PutBulk
<1>1. pc' \notin Dead \cup {"idle"} /\ put' # NoPut
  BY NoPutOK DEF IndInv, PutInv, Called, Dead
<1>2. CASE BulkPersist
  <2>1. PutStart(ItemOf(BulkNode)) /\ GoTo("bulk_put")
    BY <1>2 DEF BulkPersist, BulkNode
  <2>2. doc'.step = "bulk_put" /\ doc'.node = doc.node
    BY <2>1 DEF GoTo, BulkInv, BulkTyped
  <2>3. BulkNode' = BulkNode
    BY <2>2 DEF BulkNode, ROOT_NODE_ID
  <2>4. put'.item = ItemOf(BulkNode)
    BY <2>1 DEF PutStart, NoPut
  <2>5. NodeOf[ItemOf(BulkNode)] = BulkNode
    BY BulkNodeOK DEF BulkInv, NodesHaveBytes, ItemOf
  <2> QED BY <2>2, <2>3, <2>4, <2>5
<1>3. CASE doc' = doc /\ put'.item = put.item
  <2>1. BulkNode' = BulkNode
    BY <1>3 DEF BulkNode, ROOT_NODE_ID
  <2> QED BY <1>3, <2>1 DEF PutBulk
<1>4. CASE PutGoesOnOrDies
  <2>1. doc' = doc /\ Steps
    BY <1>1, <1>4 DEF PutGoesOnOrDies
  <2>2. put'.item = put.item
    BY <2>1, StepsPut DEF BulkInv, HeapInv
  <2> QED BY <1>3, <2>1, <2>2
<1>5. CASE UNCHANGED docVars
  BY <1>3, <1>5 DEF docVars, itVars, vars
<1>6. ~ (PutDone \/ BulkRelease \/ DestroyBulk \/ DestroyTwice \/ DocCrash)
  BY <1>1 DEF PutDone, PutReturns, BulkRelease, DestroyBulk, DestroyTwice, Destroy, FreePages,
     DocCrash, Crash, Die, Dead
<1> QED BY <1>2, <1>4, <1>5, <1>6, BulkGoes DEF BulkInv

LEMMA BulkItems ==
  ASSUME NodesHaveBytes, BulkInv, ItemsInv, [DocNext]_docVars
  PROVE  ItemsInv' /\ (Store' = Store \/ ItemAdded)
PROOF
<1>1. CASE [Next]_vars
  <2>1. ~ ItemDeleted
    BY DEF ItemDeleted, DeletePart, DeleteSlot, BulkInv
  <2> QED BY <1>1, <2>1, NextItems DEF BulkInv, HeapInv
<1>2. CASE Aborts
  <2>1. UNCHANGED disk /\ put' = NoPut /\ pc' \in Dead /\ ram' = NoPages
    BY <1>2 DEF Aborts, Die, Dead
  <2> QED BY <2>1, EmptyPagesFit, MemoryItems
<1> QED BY <1>1, <1>2, BulkHeap DEF BulkInv

\* The node that is put is below the parent.
LEMMA AddedBulk ==
  ASSUME BulkTreeInv, ItemAdded, [DocNext]_docVars
  PROVE  /\ doc' = doc /\ doc.step = "bulk_put" /\ put'.item = put.item
         /\ \E h \in Addresses \ DOMAIN Store :
              /\ DOMAIN Store' = DOMAIN Store \cup {h}
              /\ NodeIn(h)' = BulkNode
              /\ \A a \in DOMAIN Store : NodeIn(a)' = NodeIn(a)
PROOF
<1>1. pc = "part" /\ pc' = "loop" /\ put.item # -1 /\ put'.item = put.item
  BY AddPartEffect, ItemsAssumption DEF ItemAdded, BulkTreeInv, BulkInv, HeapInv
<1>2. doc.step = "bulk_put" /\ NodeOf[put.item] = BulkNode
  BY <1>1 DEF BulkTreeInv, PutBulk
<1>3. doc' = doc
  <2>1. ~ (BulkPersist \/ PutDone \/ BulkRelease \/ DestroyBulk \/ DestroyTwice \/ DocCrash)
    BY <1>1 DEF BulkPersist, PutStart, PutDone, PutReturns, BulkRelease, DestroyBulk,
       DestroyTwice, Destroy, FreePages, DocCrash, Crash, Die, Dead
  <2>2. PutGoesOnOrDies \/ UNCHANGED docVars
    BY <2>1, BulkGoes DEF BulkTreeInv, BulkInv
  <2> QED BY <1>1, <2>2 DEF PutGoesOnOrDies, Dead, docVars
<1>4. PICK h \in Addresses \ DOMAIN Store :
        Store' = [b \in DOMAIN Store \cup {h} |-> IF b = h THEN put.item ELSE Store[b]]
  BY DEF ItemAdded
<1>5. /\ DOMAIN Store' = DOMAIN Store \cup {h}
      /\ NodeIn(h)' = BulkNode
      /\ \A a \in DOMAIN Store : NodeIn(a)' = NodeIn(a)
  BY <1>2, <1>4 DEF NodeIn
<1> QED BY <1>1, <1>2, <1>3, <1>5

\* Every node stays, and so does the parent.
LEMMA BulkStored ==
  ASSUME NodesHaveBytes, BulkTreeInv, [DocNext]_docVars
  PROVE  StoredTree' /\ DOMAIN Store \subseteq DOMAIN Store'
PROOF
<1>1. StoredTree /\ doc.node.parent_id \in DOMAIN Store
  BY DEF BulkTreeInv
<1>2. CASE Store' = Store
  <2>1. \A a : NodeIn(a)' = NodeIn(a)
    BY <1>2 DEF NodeIn
  <2> QED BY <1>1, <1>2, <2>1 DEF StoredTree
<1>3. CASE ItemAdded
  <2>1. PICK h \in Addresses \ DOMAIN Store :
          /\ DOMAIN Store' = DOMAIN Store \cup {h}
          /\ NodeIn(h)' = BulkNode
          /\ \A a \in DOMAIN Store : NodeIn(a)' = NodeIn(a)
    BY <1>3, AddedBulk
  <2>2. BulkNode.parent_id = doc.node.parent_id /\ doc.node.parent_id # NULL_NODE_ID
    BY <1>1, BulkNodeOK, NullNotStored DEF BulkTreeInv, BulkInv, HeapInv
  <2> QED BY <1>1, <2>1, <2>2 DEF StoredTree, NULL_NODE_ID, ROOT_NODE_ID
<1> QED BY <1>2, <1>3, BulkItems DEF BulkTreeInv

\* A bulk add goes on below its parent, or leaves a tree.
LEMMA NextBulkTree ==
  ASSUME NodesHaveBytes, BulkTreeInv, [DocNext]_docVars
  PROVE  /\ BulkTreeInv' \/ (DocTreeInv' /\ doc'.step = "idle" /\ ~ Putting')
         /\ StoredTree' /\ (Store' = Store \/ ItemAdded)
PROOF
<1>1. /\ ItemsInv' /\ (Store' = Store \/ ItemAdded)
      /\ StoredTree' /\ DOMAIN Store \subseteq DOMAIN Store' /\ IndInv'
      /\ BulkOn \/ BulkOver
  BY BulkItems, BulkStored, NextBulk DEF BulkTreeInv, HeapInv
<1>2. CASE BulkOn
  <2>1. PutBulk'
    BY <1>1, NextPutBulk DEF BulkTreeInv
  <2> QED BY <1>1, <1>2, <2>1 DEF BulkTreeInv, BulkOn
<1>3. CASE BulkOver
  <2>1. /\ ItInv' /\ DocInv' /\ pc' \in Dead \cup {"idle"} /\ doc'.step = "idle"
    BY <1>3, NoCallOK DEF BulkOver, Return
  <2>2. put'.item = -1 /\ pc' # "delete"
    BY <1>1, <2>1, NoPutOK DEF IndInv, PutInv, Called, Dead
  <2>3. ~ Putting' /\ PutCall' /\ DeleteCall'
    BY <2>2 DEF Putting, PutCall, DeleteCall
  <2>4. TreeInv'
    BY <1>1, <2>1, <2>3, NothingAsked
  <2> QED BY <1>1, <2>1, <2>3, <2>4 DEF DocTreeInv
<1> QED BY <1>1, <1>2, <1>3

\* A bulk add starts below a parent that is there.
LEMMA EnterBulkTree ==
  ASSUME DocTreeInv, [DocNext]_docVars, doc'.step \in BulkSteps
  PROVE  BulkTreeInv' /\ Store' = Store /\ diskPages' = diskPages
PROOF
<1>1. doc.step = "find_bulk_parent" /\ GetNext /\ doc'.node = doc.node
  BY EnterBulk DEF DocTreeInv
<1>2. BulkInv'
  BY EnterBulkOK DEF DocTreeInv
<1>3. ItemsInv' /\ Store' = Store
  BY <1>1, ReadsItems DEF DocTreeInv
<1>4. pc' = "idle" /\ diskPages' = diskPages
  BY <1>1 DEF GetNext, disk
<1>5. PutBulk'
  BY <1>2, <1>4, NoPutOK DEF BulkInv, HeapInv, IndInv, PutInv, Called, PutBulk
<1>6. StoredTree'
  <2>1. \A a : NodeIn(a)' = NodeIn(a)
    BY <1>3 DEF NodeIn
  <2> QED BY <1>3, <2>1 DEF DocTreeInv, TreeInv, StoredTree
<1>7. doc.node.parent_id \in DOMAIN Store
  BY <1>1 DEF DocTreeInv, TreeInv, ParentThere, NoRootYet, ToAdd
<1> QED BY <1>1, <1>2, <1>3, <1>4, <1>5, <1>6, <1>7 DEF BulkTreeInv

(***************************************************************************)
(* The invariant of a document whose callers give nodes that are in the    *)
(* file.                                                                   *)
(***************************************************************************)
TreeBase == DocTreeInv \/ BulkTreeInv

LEMMA NextTreeBase ==
  ASSUME NodesHaveBytes, Unlucky = {}, StaleIds = {}, TreeBase, [DocNext]_docVars
  PROVE  TreeBase'
PROOF
<1>1. CASE DocTreeInv /\ doc'.step \in BulkSteps
  BY <1>1, EnterBulkTree DEF TreeBase
<1>2. CASE DocTreeInv /\ doc'.step \notin BulkSteps
  BY <1>2, NextDocTree DEF TreeBase
<1>3. CASE BulkTreeInv
  BY <1>3, NextBulkTree DEF TreeBase
<1> QED BY <1>1, <1>2, <1>3 DEF TreeBase

--------------------------------------------------------------------------------
(***************************************************************************)
(* The tree that the file holds is one that NodeTree allows.               *)
(***************************************************************************)
TreeNode(node) == [parent_id |-> node.parent_id, value |-> node.value]

LEMMA StoredNodesOK ==
  /\ StoredNodes = [a \in DOMAIN Store |-> TreeNode(NodeIn(a))]
  /\ StoredNodes' = [a \in DOMAIN Store' |-> TreeNode(NodeIn(a)')]
PROOF
<1>1. StoredNodes = [a \in DOMAIN Store |-> TreeNode(NodeIn(a))]
  BY DEF StoredNodes, NodeIn, TreeNode
<1>2. StoredNodes' = [a \in DOMAIN Store' |-> TreeNode(NodeIn(a)')]
  BY DEF StoredNodes, NodeIn, TreeNode
<1> QED BY <1>1, <1>2

LEMMA KeptIsAsk ==
  ASSUME Store' = Store PROVE Tree!Ask
PROOF
<1>1. \A a : NodeIn(a)' = NodeIn(a)
  BY DEF NodeIn
<1> QED BY <1>1, StoredNodesOK DEF Tree!Ask

LEMMA AddedIsAdd ==
  ASSUME IndInv, DocInv, PutCall, TreeInv, ItemAdded, [DocNext]_docVars
  PROVE  Tree!AddRoot \/ Tree!AddChild
PROOF
<1>1. PICK h \in Addresses \ DOMAIN Store :
        /\ DOMAIN Store' = DOMAIN Store \cup {h}
        /\ NodeIn(h)' = doc.node
        /\ \A a \in DOMAIN Store : NodeIn(a)' = NodeIn(a)
  BY AddedTree
<1>2. doc.step = "put"
  BY AddedTree
<1>3. Request = [op |-> "add", parent_id |-> doc.node.parent_id, value |-> doc.node.value]
  BY <1>2 DEF Request
<1>4. DOMAIN StoredNodes = DOMAIN Store
  BY StoredNodesOK
<1>5. Tree!Add
  <2>1. StoredNodes' = [ x \in DOMAIN StoredNodes \cup {h} |->
                           IF x = h THEN TreeNode(doc.node) ELSE StoredNodes[x] ]
    BY <1>1, StoredNodesOK
  <2> QED BY <1>3, <1>4, <2>1 DEF Tree!Add, TreeNode
<1>6. CASE doc.node.parent_id = NULL_NODE_ID
  <2>1. Putting
    BY AddPartEffect, ItemsAssumption DEF ItemAdded, Putting
  <2>2. \A a \in DOMAIN Store : NodeIn(a).parent_id # NULL_NODE_ID
    BY <1>6, <2>1 DEF TreeInv, NoRootYet
  <2>3. Tree!Roots = {}
    BY <1>4, <2>2, StoredNodesOK DEF Tree!Roots, TreeNode
  <2> QED BY <1>3, <1>5, <1>6, <2>3 DEF Tree!AddRoot
<1>7. CASE doc.node.parent_id # NULL_NODE_ID
  <2>1. doc.node.parent_id \in DOMAIN Store
    BY <1>2, <1>7 DEF TreeInv, ParentThere, ToAdd
  <2> QED BY <1>3, <1>4, <1>5, <2>1 DEF Tree!AddChild
<1> QED BY <1>6, <1>7

LEMMA AddedBulkIsAdd ==
  ASSUME BulkTreeInv, ItemAdded, [DocNext]_docVars
  PROVE  Tree!AddChild
PROOF
<1>1. PICK h \in Addresses \ DOMAIN Store :
        /\ DOMAIN Store' = DOMAIN Store \cup {h}
        /\ NodeIn(h)' = BulkNode
        /\ \A a \in DOMAIN Store : NodeIn(a)' = NodeIn(a)
  BY AddedBulk
<1>2. doc.step = "bulk_put"
  BY AddedBulk
<1>3. Request = [op |-> "add", parent_id |-> doc.node.parent_id, value |-> doc.node.value]
  BY <1>2 DEF Request
<1>4. DOMAIN StoredNodes = DOMAIN Store
  BY StoredNodesOK
<1>5. doc.node.parent_id \in DOMAIN Store /\ doc.node.parent_id # NULL_NODE_ID
  BY NullNotStored DEF BulkTreeInv, BulkInv, HeapInv
<1>6. TreeNode(BulkNode) = [parent_id |-> doc.node.parent_id, value |-> doc.node.value]
  BY BulkNodeOK DEF BulkTreeInv, BulkInv, TreeNode
<1>7. Tree!Add
  <2>1. StoredNodes' = [ x \in DOMAIN StoredNodes \cup {h} |->
                           IF x = h THEN TreeNode(BulkNode) ELSE StoredNodes[x] ]
    BY <1>1, StoredNodesOK
  <2> QED BY <1>3, <1>4, <1>6, <2>1 DEF Tree!Add
<1> QED BY <1>3, <1>4, <1>5, <1>7 DEF Tree!AddChild

LEMMA DeletedIsDelete ==
  ASSUME DocInv, DeleteCall, PutCall', TreeInv, ItemDeleted, [DocNext]_docVars
  PROVE  Tree!Ask \/ Tree!Delete
PROOF
<1>1. /\ doc.step = "deleting"
      /\ Store' = [a \in DOMAIN Store \ {doc.node.id} |-> Store[a]]
  BY DeletedTree
<1>2. Request = [op |-> "delete", id |-> doc.node.id]
  BY <1>1 DEF Request
<1>3. DOMAIN StoredNodes = DOMAIN Store
  BY StoredNodesOK
<1>4. StoredNodes' = [x \in DOMAIN StoredNodes \ {doc.node.id} |-> StoredNodes[x]]
  <2>1. \A a \in DOMAIN Store' : NodeIn(a)' = NodeIn(a)
    BY <1>1 DEF NodeIn
  <2>2. DOMAIN Store' = DOMAIN Store \ {doc.node.id}
    BY <1>1
  <2> QED BY <1>3, <2>1, <2>2, StoredNodesOK
<1>5. CASE doc.node.id \in DOMAIN Store
  <2>1. \A a \in DOMAIN Store : NodeIn(a).parent_id # doc.node.id
    BY <1>1 DEF TreeInv, NoChildren
  <2>2. Tree!Children(doc.node.id) = {}
    BY <1>3, <2>1, StoredNodesOK DEF Tree!Children, TreeNode
  <2> QED BY <1>2, <1>3, <1>4, <1>5, <2>2 DEF Tree!Delete
<1>6. CASE doc.node.id \notin DOMAIN Store
  <2>1. StoredNodes' = [x \in DOMAIN StoredNodes |-> StoredNodes[x]]
    BY <1>3, <1>4, <1>6
  <2>2. StoredNodes = [x \in DOMAIN StoredNodes |-> StoredNodes[x]]
    BY StoredNodesOK
  <2> QED BY <2>1, <2>2 DEF Tree!Ask
<1> QED BY <1>5, <1>6

(***************************************************************************)
(* The file implements the tree of NodeTree: a node is put only below one  *)
(* that is in the file, or as its only root, and only a node without       *)
(* children is deleted, although add_node and delete_node look at the tree *)
(* with iterators of their own before put_item and delete_item write, in   *)
(* several steps, with crashes between any two, and add_bulk_nodes puts    *)
(* any number of nodes after it has looked once.  Callers name nodes that  *)
(* are in the file.                                                        *)
(***************************************************************************)
THEOREM DocumentTreeKept ==
  ASSUME NodesHaveBytes, Unlucky = {}, StaleIds = {}
  PROVE  DocSpec => TreeKept
PROOF
<1>1. DocInit => TreeBase /\ Tree!TreeInit
  BY InitDocTree, StoredNodesOK DEF Tree!TreeInit, TreeBase
<1>2. TreeBase /\ [DocNext]_docVars => TreeBase'
  BY NextTreeBase
<1>3. TreeBase /\ [DocNext]_docVars => [Tree!TreeNext]_(Tree!treeVars)
  <2> SUFFICES ASSUME TreeBase, [DocNext]_docVars PROVE Tree!TreeNext
    OBVIOUS
  <2>1. CASE Store' = Store
    BY <2>1, KeptIsAsk DEF Tree!TreeNext
  <2>2. CASE BulkTreeInv
    <3>1. Store' = Store \/ ItemAdded
      BY <2>2, NextBulkTree
    <3> QED BY <2>1, <2>2, <3>1, AddedBulkIsAdd DEF Tree!TreeNext
  <2>3. CASE DocTreeInv /\ doc'.step \in BulkSteps
    BY <2>1, <2>3, EnterBulkTree
  <2>4. CASE DocTreeInv /\ doc'.step \notin BulkSteps
    <3>1. DocTreeInv' /\ (Store' = Store \/ ItemAdded \/ ItemDeleted)
      BY <2>4, NextDocTree
    <3>2. CASE ItemAdded
      BY <2>4, <3>2, AddedIsAdd DEF Tree!TreeNext, DocTreeInv, ItInv
    <3>3. CASE ItemDeleted
      BY <2>4, <3>1, <3>3, DeletedIsDelete DEF Tree!TreeNext, DocTreeInv
    <3> QED BY <2>1, <3>1, <3>2, <3>3
  <2> QED BY <2>2, <2>3, <2>4 DEF TreeBase
<1> QED BY <1>1, <1>2, <1>3, PTL DEF DocSpec, TreeKept, Tree!TreeSpec

--------------------------------------------------------------------------------
(***************************************************************************)
(* The root is the first item of the file.  A root is put when a scan has  *)
(* found none, and a scan of a file in which page 0 has a slot finds the   *)
(* root there, or dies on a deleted one; a scan of a file in which page 0  *)
(* is empty and is not the last one dies on the index -1.                  *)
(***************************************************************************)
\* A node fits an empty page, and an empty page is not taken for a full one.
NodesFit == PageCapacity >= MinimumDataPart /\ \A x \in Items : Size[x] <= PageCapacity

EmptyFirst ==
  DOMAIN diskPages = {0} /\ diskPages[0].next_item_id = 0 /\ diskPages[0] # ZeroPage

\* The first page is never passed over.
FirstWritten == DOMAIN diskPages # {} => 0 \in DOMAIN diskPages /\ diskPages[0] # ZeroPage

\* The scan for a root does not get beyond the first item.
AtFirst == doc.step = "find_root" => it = NewOn(0)

\* A root is put into an empty file.
\* A put that has not written yet, and that writes to page 0.
Unwritten == pc \in {"loop", "part"} /\ put.cur = 0 /\ put.written = 0 /\ put.cont = -1

FirstFree ==
  (doc.step = "persist" \/ Putting) /\ doc.node.parent_id = NULL_NODE_ID =>
    EmptyFirst /\ (Putting => Unwritten)

\* A step that writes a page, while memory and file agree, or none.
PageWritten ==
  \/ FileInv /\ (WriteNewPage(TRUE) \/ AddPart \/ DeletePart)
  \/ diskPages' = diskPages

LEMMA PageStep ==
  ASSUME ItInv, [ItNext]_itVars
  PROVE  PageWritten
PROOF
<1>1. CASE ~Iterating /\ [Next]_vars
  <2>1. FileInv
    BY <1>1, PlaceFile DEF ItInv
  <2> QED BY <1>1, <2>1, DiskStep DEF ItInv, PageWritten
<1>2. CASE Iterating /\ DeletePart
  <2>1. pc # "idle"
    BY <1>2 DEF DeletePart, DeleteSlot
  <2>2. FileInv
    BY <2>1, PlaceFile DEF ItInv
  <2> QED BY <1>2, <2>2 DEF PageWritten
<1>3. CASE NewIterator \/ NextPage \/ NextPageAborts \/ GetNext \/ GetNextAborts \/ Destroy
           \/ DeleteCurrent \/ UserExits \/ ItCrash
  BY <1>3 DEF NewIterator, NextPage, MoveTo, NextPageAborts, GetNext, GetNextAborts, Destroy,
     DeleteCurrent, DeleteStart, UserExits, ItCrash, Crash, disk, PageWritten
<1>4. CASE UNCHANGED itVars
  BY <1>4 DEF itVars, vars, disk, PageWritten
<1> QED BY <1>1, <1>2, <1>3, <1>4, Zenon DEF ItNext

LEMMA WellFormedNotZero ==
  ASSUME NEW p, WellFormed(p, PartData) PROVE p # ZeroPage
PROOF
<1>1. p.next_item_id \in Nat /\ p.free_start = 28 + 21 * p.next_item_id
  BY DEF WellFormed, PageType, Layout, MetadataBelowFreeSpace, MetadataOffset, HeaderSize, MetaSize
<1>2. ZeroPage.free_start = 0
  BY DEF ZeroPage
<1> QED BY <1>1, <1>2

LEMMA NextFirstWritten ==
  ASSUME IndInv, ItemsInv, FirstWritten, PageWritten
  PROVE  FirstWritten'
PROOF
<1>1. CASE diskPages' = diskPages
  BY <1>1 DEF FirstWritten
<1>2. CASE FileInv /\ WriteNewPage(TRUE)
  <2> DEFINE id == put.free
  <2>1. /\ pc = "write_new" /\ ram' = ram /\ WritePage(id, TRUE) /\ id \in DOMAIN ram'
        /\ ram'[id] = PageNew(id) /\ id \notin DOMAIN diskPages
        /\ DiskOK(diskPages) /\ RamOK(ram')
    BY <1>2 DEF WriteNewPage, ItemsInv, ChainInv, NewPageInv, HasNewPage, NamesInv, IndInv
  <2> HIDE DEF id
  <2>2. /\ DOMAIN diskPages \subseteq DOMAIN diskPages'
        /\ \A x \in DOMAIN diskPages : x # id => diskPages'[x] = diskPages[x]
        /\ id \in DOMAIN diskPages' /\ diskPages'[id] = ram'[id]
    BY <2>1, WrittenOK
  <2>3. CASE DOMAIN diskPages # {}
    BY <2>1, <2>2, <2>3 DEF FirstWritten
  <2>4. CASE DOMAIN diskPages = {}
    <3>1. id = 0
      BY <1>2, <2>1, <2>4 DEF FileInv, StartInv, LastPageInv, Running, Dead, id
    <3>2. PageNew(id) # ZeroPage
      BY DEF PageNew, ZeroPage, HeaderSize
    <3> QED BY <2>1, <2>2, <3>1, <3>2 DEF FirstWritten
  <2> QED BY <2>3, <2>4
<1>3. ASSUME NEW id \in DOMAIN diskPages, DiskOK(diskPages), RamOK(ram'), id \in DOMAIN ram',
             WritePage(id, TRUE), WellFormed(ram'[id], PartData)
      PROVE  FirstWritten'
  <2>1. /\ DOMAIN diskPages \subseteq DOMAIN diskPages'
        /\ \A x \in DOMAIN diskPages : x # id => diskPages'[x] = diskPages[x]
        /\ diskPages'[id] = ram'[id]
    BY <1>3, WrittenOK
  <2> QED BY <1>3, <2>1, WellFormedNotZero DEF FirstWritten
<1>4. CASE FileInv /\ AddPart
  <2> DEFINE p == ram[put.cur]
             q == ram'[put.cur]
  <2>1. /\ put.cur \in DOMAIN ram' /\ WritePage(put.cur, TRUE) /\ RamOK(ram') /\ DiskOK(diskPages)
        /\ q = AddItem(p, NewData, PartSize, put.cont) /\ CanFitPayload(p, PartSize)
        /\ WellFormed(p, PartData) /\ NewData \in PartData /\ PartSize \in Nat \ {0}
        /\ put.cont \in Nat \cup {-1} /\ put.cur \in DOMAIN diskPages
    BY <1>4, AddPartEffect, AddPartPages DEF IndInv
  <2> HIDE DEF p
  <2>2. WellFormed(q, PartData)
    BY <2>1, AddWellFormed
  <2> QED BY <1>3, <2>1, <2>2
<1>5. CASE FileInv /\ DeletePart
  <2> DEFINE p == Read(target.page)
             q == DeleteItem(p, target.item)
  <2>1. /\ target.page \in DOMAIN diskPages /\ target.page \in DOMAIN ram'
        /\ WritePage(target.page, TRUE) /\ RamOK(ram') /\ DiskOK(diskPages)
        /\ WellFormed(p, PartData) /\ HasItem(p, target.item) /\ ram' = With(ram, target.page, q)
    BY <1>5, DeletePartSlots DEF IndInv
  <2>2. WellFormed(q, PartData)
    BY <2>1, DeleteWellFormed
  <2>3. ram'[target.page] = q
    <3> HIDE DEF q
    <3> QED BY <2>1 DEF With
  <2> QED BY <1>3, <2>1, <2>2, <2>3
<1> QED BY <1>1, <1>2, <1>4, <1>5 DEF PageWritten

\* A new iterator is before the first item of page 0.
LEMMA NewOnFirst ==
  ASSUME ItInv, NewIterator
  PROVE  it' = NewOn(0)
PROOF
<1>1. it' = NewOn(Read(0).page_id) /\ Readable(0)
  BY DEF NewIterator
<1>2. Read(0).page_id = 0
  BY <1>1, ZeroPageOK DEF Readable, Read, ItInv, IndInv, RamOK, DiskOK
<1> QED BY <1>1, <1>2

\* The file has finitely many slots.
LEMMA FiniteSlots ==
  ASSUME ItInv
  PROVE  IsFiniteSet(Slots(diskPages))
PROOF
<1>1. DiskOK(diskPages) /\ CountedInv /\ diskHeader.page_count \in Nat
  BY PlaceFile DEF ItInv, IndInv, Types, Header
<1>2. DOMAIN diskPages \subseteq 0 .. diskHeader.page_count - 1
  BY <1>1 DEF DiskOK, CountedInv
<1>3. IsFiniteSet(0 .. diskHeader.page_count - 1)
  BY <1>1, FS_Interval
<1> QED BY <1>1, <1>2, <1>3, FS_Subset, SlotsFinite

\* A scan for a root that gets beyond the first item has found it.
RootSlot ==
  ROOT_NODE_ID \in Slots(diskPages) =>
    ROOT_NODE_ID \in DOMAIN Store /\ NodeIn(ROOT_NODE_ID).id = ROOT_NODE_ID

LEMMA RootPassed ==
  ASSUME ItInv, RootSlot, it = NewOn(0), doc.step = "find_root",
         ScanMoves \/ ScanPasses
  PROVE  FALSE
PROOF
<1>1. it.index = -1 /\ it.page = 0
  BY NoIteratorOK DEF NewOn
<1>2. ~ ScanMoves
  BY <1>1 DEF ScanMoves, NextPage, CanMove
<1>3. CASE ScanPasses
  <2>1. /\ CanGet /\ GetNext /\ \E node \in NodesRead : ~Matches(node)
    BY <1>3 DEF ScanPasses, GetNext
  <2>2. NextItem = ROOT_NODE_ID
    BY <1>1 DEF NextItem, ROOT_NODE_ID
  <2>3. NextItem \in Slots(diskPages)
    <3>1. NextItem \in Chain(diskPages, NextItem)
      BY FiniteSlots, ChainStarts
    <3> QED BY <2>1, <3>1 DEF CanGet
  <2>4. NextItem \in DOMAIN Store /\ NodeIn(NextItem).id = ROOT_NODE_ID
    BY <2>2, <2>3 DEF RootSlot
  <2>5. NodeAt(NextItem) = NodeIn(NextItem)
    BY <2>4, StoreOK DEF NodeAt, NodeIn
  <2>6. ~ Matches(NodeAt(NextItem))
    BY <2>1, <2>4 DEF NodesRead
  <2> QED BY <2>4, <2>5, <2>6 DEF Matches, IsRoot
<1> QED BY <1>2, <1>3

LEMMA NextAtFirst ==
  ASSUME ItInv, DocInv, RootSlot, AtFirst, [DocNext]_docVars
  PROVE  AtFirst'
PROOF
<1> SUFFICES ASSUME doc'.step = "find_root" PROVE it' = NewOn(0)
  BY DEF AtFirst, NewOn, NoIterator
<1>1. ~ Return
  BY NoCallOK DEF Return
<1>2. ASSUME NEW step, GoTo(step) PROVE step = "find_root"
  BY <1>2 DEF GoTo, DocInv, DocTyped
<1>3. CASE NewIterator
  BY <1>3, NewOnFirst
<1>4. CASE DocCalls \/ ScanAgain \/ AddAgain
  <2>1. NewIterator
    BY <1>4, Zenon DEF DocCalls, AddNode, DeleteNode, UpdateNode, AddBulkNodes, GetAllChildren,
       ScanAgain, AddAgain
  <2> QED BY <1>3, <2>1
<1>5. CASE doc' = doc /\ it' = it
  BY <1>5 DEF AtFirst
<1>6. ~ (ScanMoves \/ ScanPasses)
  <2>1. ASSUME ScanMoves \/ ScanPasses PROVE doc' = doc
    BY <2>1 DEF ScanMoves, ScanPasses
  <2> QED BY <2>1, RootPassed DEF AtFirst
<1>7. CASE Start \/ StartGoesOn \/ DeleteGoesOn \/ UNCHANGED docVars
  BY <1>5, <1>7, Zenon DEF Start, StartGoesOn, DeleteGoesOn, docVars, itVars
<1>8. ~ ScanFinds
  <2>1. ASSUME Found(doc.step), doc.step \in Scans \ {"find_root", "find_children"}
        PROVE  doc'.step # "find_root"
    BY <1>2, <2>1 DEF Found, Scans, DocInv, DocTyped
  <2> QED BY <2>1 DEF ScanFinds, Scanning
<1>9. ~ ScanEnds
  <2>1. ~ (doc' = [doc EXCEPT !.step = "persist", !.node.id = ROOT_NODE_ID])
    BY DEF DocInv, DocTyped
  <2> QED BY <1>1, <1>2, <2>1 DEF ScanEnds, AfterScan
<1>10. ~ (ScanAborts \/ FindsObstacle \/ Release \/ DocCrash)
  BY <1>1 DEF ScanAborts, FindsObstacle, Release, DocCrash
<1>11. ~ (ParentFound \/ Persist \/ DeleteFound \/ Deleted)
  BY <1>1, <1>2 DEF ParentFound, Persist, DeleteFound, Deleted
<1>12. CASE PutGoesOnOrDies
  BY <1>1, <1>5, <1>12 DEF PutGoesOnOrDies
<1>13. ~ PutDone
  <2>1. ASSUME NEW id, doc' = [doc EXCEPT !.node.id = id, !.step = "release"] PROVE FALSE
    BY <2>1 DEF DocInv, DocTyped
  <2>2. doc.step # "bulk_put"
    BY DEF DocInv, DocTyped, Using, Without
  <2> QED BY <2>1, <2>2 DEF PutDone
<1>14. ~ (BulkPersist \/ BulkRelease \/ DestroyBulk \/ DestroyTwice)
  <2>1. doc.step \notin {"bulk", "bulk_release", "bulk_destroy"}
    BY DEF DocInv, DocTyped, Using, Without
  <2> QED BY <2>1 DEF BulkPersist, BulkRelease, DestroyBulk, DestroyTwice, Destroying
<1> QED BY <1>4, <1>6, <1>7, <1>8, <1>9, <1>10, <1>11, <1>12, <1>13, <1>14,
           Zenon DEF DocNext, DocSteps

\* What an empty page has room for.
LEMMA EmptyPageFits ==
  ASSUME NodesFit, NEW p, WellFormed(p, PartData), p.next_item_id = 0
  PROVE  /\ PayloadAvailableSpace(p) = PageCapacity /\ PageCapacity >= 8
         /\ \A x \in Items : CanFitPayload(p, Size[x])
         /\ CanFitAnyPayload(p)
PROOF
<1>1. p.free_start = 28 /\ p.free_end = PageSize
  BY DEF WellFormed, Layout, MetadataBelowFreeSpace, DataAboveFreeSpace, MetadataOffset,
     HeaderSize, MetaSize
<1>2. PayloadAvailableSpace(p) = PageCapacity /\ PageCapacity >= 8
  BY <1>1 DEF PayloadAvailableSpace, FreeSpaceLeft, PageCapacity, NodesFit, MinimumDataPart,
     HeaderSize, MetaSize
<1>3. PageCapacity \in Int
  BY DEF PageCapacity, HeaderSize, MetaSize
<1> QED BY <1>2, <1>3 DEF CanFitPayload, CanFitAnyPayload, NodesFit

LEMMA EmptyFirstOK ==
  ASSUME ItInv, EmptyFirst
  PROVE  /\ WellFormed(diskPages[0], PartData) /\ diskPages[0].page_id = 0
         /\ Slots(diskPages) = {}
PROOF
<1>1. DiskOK(diskPages)
  BY DEF ItInv, IndInv
<1>2. WellFormed(diskPages[0], PartData) /\ diskPages[0].page_id = 0
  BY <1>1 DEF EmptyFirst, DiskOK, PageOK
<1>3. ASSUME NEW a \in Slots(diskPages) PROVE FALSE
  BY <1>1, <1>3, SlotsOK DEF EmptyFirst, HasItem
<1> QED BY <1>2, <1>3

\* The scan for a root finds that the file is empty.
LEMMA EndsFirst ==
  ASSUME ItInv, AtFirst, FirstWritten, ScanEnds, doc.step = "find_root"
  PROVE  EmptyFirst'
PROOF
<1>1. pc = "idle" /\ Iterating /\ ~ItemHere /\ ~MorePages /\ UNCHANGED disk
  BY DEF ScanEnds, Exhausted, Destroy
<1>2. it.next = 1 /\ it.index = -1 /\ it.moving = FALSE
  BY NoIteratorOK DEF AtFirst, NewOn
<1>3. /\ it.next - 1 \in DOMAIN diskPages /\ CurrentPage = diskPages[it.next - 1]
      /\ CountedInv /\ header = diskHeader
  BY <1>1, PlacePage, PlaceFile DEF ItInv, ItPlace
<1>4. 0 \in DOMAIN diskPages /\ CurrentPage = diskPages[0]
  BY <1>2, <1>3
<1>5. diskPages[0].next_item_id = 0
  <2>1. diskPages[0].next_item_id \in Nat
    BY <1>4 DEF ItInv, IndInv, DiskOK, PageOK, PageType
  <2> QED BY <1>1, <1>2, <1>4, <2>1 DEF ItemHere
<1>6. \A id \in DOMAIN diskPages : id = 0
  <2>1. header.page_count \in Nat /\ DOMAIN diskPages \subseteq Nat
    BY DEF ItInv, IndInv, Types, Header, DiskOK
  <2>2. header.page_count <= 1
    BY <1>1, <1>2, <2>1 DEF MorePages
  <2> QED BY <1>3, <2>1, <2>2 DEF CountedInv
<1>7. diskPages' = diskPages
  BY <1>1 DEF disk
<1>8. EmptyFirst
  BY <1>4, <1>5, <1>6 DEF EmptyFirst, FirstWritten
<1> QED BY <1>7, <1>8 DEF EmptyFirst

\* A put into the empty file starts on the first page.
LEMMA PersistFirst ==
  ASSUME ItInv, ~Iterating, NodesFit, EmptyFirst, NEW x \in Items, PutStart(x)
  PROVE  EmptyFirst' /\ Unwritten'
PROOF
<1>1. /\ FileInv /\ pc = "idle" /\ Readable(FreePageId)
  BY PlaceFile DEF ItInv, PutStart
<1>2. /\ DOMAIN diskPages = {0} /\ header = diskHeader
      /\ \A id \in DOMAIN ram : id \in DOMAIN diskPages /\ diskPages[id] = ram[id]
  BY <1>1 DEF EmptyFirst, FileInv, WriteThrough, Running, Dead
<1>3. FreePageId = 0
  BY <1>1, <1>2 DEF FreePageId, FileInv, FreePageInv, PointerInv
<1>4. Read(0) = diskPages[0]
  BY <1>2 DEF Read
<1>5. /\ WellFormed(diskPages[0], PartData) /\ diskPages[0].page_id = 0
      /\ diskPages[0].next_item_id = 0
  BY EmptyFirstOK DEF EmptyFirst
<1>6. PayloadAvailableSpace(diskPages[0]) >= 8
  BY <1>5, EmptyPageFits
<1>7. PayloadAvailableSpace(diskPages[0]) \in Int
  <2>1. PageCapacity \in Int
    BY DEF PageCapacity, HeaderSize, MetaSize
  <2> QED BY <2>1, <1>5, EmptyPageFits
<1>8. ~ (PayloadAvailableSpace(Read(FreePageId)) < MinimumDataPart)
  BY <1>3, <1>4, <1>6, <1>7 DEF MinimumDataPart
<1>9. /\ pc' = "loop" /\ diskPages' = diskPages
      /\ put' = [NoPut EXCEPT !.item = x, !.page = Read(FreePageId).page_id,
                              !.cur = Read(FreePageId).page_id]
  BY <1>8 DEF PutStart, disk
<1>10. put'.cur = 0 /\ put'.written = 0 /\ put'.cont = -1
  BY <1>3, <1>4, <1>5, <1>9 DEF NoPut
<1> QED BY <1>9, <1>10 DEF EmptyFirst, Unwritten

\* It is written there in one piece.
LEMMA StepsFirst ==
  ASSUME ItInv, FileInv, NodesFit, EmptyFirst, Putting, Unwritten, Steps, Putting'
  PROVE  EmptyFirst' /\ Unwritten'
PROOF
<1>1. /\ put \in PutType /\ WriteOutcomes = {TRUE}
  BY NoFaults DEF ItInv, IndInv, Types
<1>2. put.item \in Items /\ Left = Size[put.item] /\ Size[put.item] \in Nat \ {0}
  <2>1. put.item \in Items
    BY DEF ItInv, IndInv, PutInv, Unwritten
  <2> QED BY <2>1 DEF Left, Unwritten
<1>3. 0 \in DOMAIN ram /\ ram[0] = diskPages[0]
  <2>1. put.cur \in DOMAIN ram
    BY <1>2 DEF ItInv, IndInv, PutInv, Unwritten
  <2> QED BY <2>1 DEF Unwritten, FileInv, WriteThrough, Running, Dead
<1>4. CanFitPayload(ram[put.cur], Left) /\ CanFitAnyPayload(ram[put.cur])
  BY <1>2, <1>3, EmptyFirstOK, EmptyPageFits DEF EmptyFirst, Unwritten
<1>5. ~ (PageFull \/ SplitItem)
  BY <1>4 DEF PageFull, SplitItem
<1>6. CASE ItemFits
  BY <1>6 DEF ItemFits, EmptyFirst, Unwritten, disk
<1>7. ~ AddPart
  <2> SUFFICES ASSUME AddPart PROVE FALSE
    OBVIOUS
  <2>1. Left' = Left - PartSize
    BY AddPartEffect DEF ItInv
  <2>2. PartSize = Left
    BY DEF PartSize, Unwritten
  <2> QED BY <1>2, <2>1, <2>2 DEF Putting
<1>8. ~ (AddPartAborts \/ PutReturns \/ WriteAborts)
  BY NoPutOK DEF AddPartAborts, PutReturns, WriteAborts, Die, Putting
<1>9. ~ DeletePart
  BY DEF DeletePart, DeleteSlot, Unwritten
<1>10. ~ (AllocPage(TRUE) \/ WriteNewPage(TRUE) \/ SetFreePage(TRUE))
  BY DEF AllocPage, CountPage, WriteNewPage, SetFreePage, Unwritten
<1> QED BY <1>1, <1>5, <1>6, <1>7, <1>8, <1>9, <1>10 DEF Steps

\* A call comes to where it puts its node from a scan for the root or the parent.
LEMMA PersistComes ==
  ASSUME DocInv, [DocNext]_docVars, doc'.step = "persist"
  PROVE  UNCHANGED docVars \/ (ScanEnds /\ doc.step = "find_root") \/ ParentFound
PROOF
<1>1. ~ Return
  BY NoCallOK DEF Return
<1>2. ASSUME NEW step, GoTo(step) PROVE step = "persist"
  BY <1>2 DEF GoTo, DocInv, DocTyped
<1>3. ~ (doc' = doc /\ doc.step # "persist")
  OBVIOUS
<1>4. ASSUME NEW node, NEW call, AddInto(node, call), call = NoCall \/ call = doc PROVE FALSE
  BY <1>4, NoCallOK DEF AddInto, DocInv, DocTyped
<1>5. ~ DocCalls
  <2>1. ASSUME NEW node, NEW update, DeleteFirst(node, update) PROVE FALSE
    BY <2>1, NoCallOK DEF DeleteFirst
  <2>2. ASSUME NEW parent, NEW value, NEW count, AddBulkNodes(parent, value, count) PROVE FALSE
    BY <2>2, NoCallOK DEF AddBulkNodes
  <2>3. ASSUME NEW id, GetAllChildren(id) PROVE FALSE
    BY <2>3, NoCallOK DEF GetAllChildren
  <2> QED BY <1>4, <2>1, <2>2, <2>3, Zenon DEF DocCalls, AddNode, DeleteNode, UpdateNode
<1>6. ~ (ScanAgain \/ AddAgain)
  <2>1. ~ ScanAgain
    BY <1>2 DEF ScanAgain
  <2> QED BY <1>4, <2>1, Zenon DEF AddAgain
<1>7. ~ (Start \/ StartGoesOn \/ ScanMoves \/ ScanPasses \/ DeleteGoesOn)
  BY <1>3 DEF Start, StartGoesOn, ScanMoves, ScanPasses, DeleteGoesOn, Scanning, Scans
<1>8. ~ ScanFinds
  <2>1. ASSUME Found(doc.step), doc.step \in Scans \ {"find_root", "find_children"}
        PROVE  FALSE
    BY <1>2, <2>1 DEF Found, Scans, DocInv, DocTyped
  <2> QED BY <2>1 DEF ScanFinds, Scanning
<1>9. ScanEnds => doc.step = "find_root"
  BY <1>1, <1>2 DEF ScanEnds, AfterScan
<1>10. ~ (ScanAborts \/ FindsObstacle \/ Release \/ DocCrash)
  BY <1>1 DEF ScanAborts, FindsObstacle, Release, DocCrash
<1>11. ~ (Persist \/ DeleteFound \/ Deleted)
  BY <1>1, <1>2 DEF Persist, DeleteFound, Deleted
<1>12. ~ PutGoesOnOrDies
  BY <1>1, <1>3 DEF PutGoesOnOrDies
<1>13. ~ PutDone
  <2>1. ASSUME NEW id, doc' = [doc EXCEPT !.node.id = id, !.step = "release"] PROVE FALSE
    BY <2>1 DEF DocInv, DocTyped
  <2>2. doc.step # "bulk_put"
    BY DEF DocInv, DocTyped, Using, Without
  <2> QED BY <2>1, <2>2 DEF PutDone
<1>14. ~ (BulkPersist \/ BulkRelease \/ DestroyBulk \/ DestroyTwice)
  <2>1. doc.step \notin {"bulk", "bulk_release", "bulk_destroy"}
    BY DEF DocInv, DocTyped, Using, Without
  <2> QED BY <2>1 DEF BulkPersist, BulkRelease, DestroyBulk, DestroyTwice, Destroying
<1> QED BY <1>5, <1>6, <1>7, <1>8, <1>9, <1>10, <1>11, <1>12, <1>13, <1>14,
           Zenon DEF DocNext, DocSteps

LEMMA NextFirstFree ==
  ASSUME NodesHaveBytes, NodesFit, ItInv, IndInv', DocInv, PutCall, TreeInv,
         AtFirst, FirstWritten, FirstFree, [DocNext]_docVars
  PROVE  FirstFree'
PROOF
<1> SUFFICES ASSUME doc'.step = "persist" \/ Putting', doc'.node.parent_id = NULL_NODE_ID
             PROVE  EmptyFirst' /\ (Putting' => Unwritten')
  BY DEF FirstFree
<1>1. CASE UNCHANGED docVars
  <2>1. /\ doc' = doc /\ (Putting' <=> Putting) /\ (Unwritten' <=> Unwritten)
        /\ (EmptyFirst' <=> EmptyFirst)
    BY <1>1 DEF docVars, itVars, vars, disk, Putting, Left, Unwritten, EmptyFirst
  <2> QED BY <2>1 DEF FirstFree
<1>2. CASE doc'.step = "persist" /\ ~ UNCHANGED docVars
  <2>1. CASE ScanEnds /\ doc.step = "find_root"
    <3>1. pc' = "idle"
      BY <2>1 DEF ScanEnds, Destroy
    <3>2. ~ Putting'
      BY <3>1, NoPutOK DEF IndInv, PutInv, Called, Putting
    <3> QED BY <2>1, <3>2, EndsFirst
  <2>2. ~ ParentFound
    <3> SUFFICES ASSUME ParentFound PROVE FALSE
      OBVIOUS
    <3>1. doc.step = "parent_found" /\ GoTo("persist")
      BY DEF ParentFound
    <3>2. doc'.node = doc.node
      BY <3>1, GoToOK DEF DocInv, Without
    <3> QED BY <3>1, <3>2 DEF TreeInv, NoRootYet
  <2> QED BY <1>2, <2>1, <2>2, PersistComes
<1>3. CASE Putting' /\ Persist
  <2>1. /\ doc.step = "persist" /\ PutStart(ItemOf(doc.node)) /\ GoTo("put")
    BY <1>3 DEF Persist
  <2>2. ItemOf(doc.node) \in Items
    BY <2>1, ItemOfOK DEF DocInv, NodeGiven, WithNode
  <2>3. doc'.node = doc.node /\ ~Iterating
    BY <2>1, GoToOK DEF DocInv, IteratorUsed, Using, Without
  <2>4. EmptyFirst
    BY <2>1, <2>3 DEF FirstFree
  <2> QED BY <2>1, <2>2, <2>3, <2>4, PersistFirst
<1>4. CASE Putting' /\ Putting /\ ~ UNCHANGED docVars
  <2>1. doc.step = "put"
    BY <1>4 DEF PutCall, Putting
  <2>2. pc # "idle" /\ pc' \notin Dead \cup {"idle"}
    BY <1>4, NoPutOK DEF ItInv, IndInv, PutInv, Called, Dead, Putting
  <2>3. doc' = doc /\ it' = it /\ Steps
    <3>1. doc' = doc /\ it' = it /\ (Steps \/ UNCHANGED vars)
      BY <2>1, <2>2, CallWaits
    <3> QED BY <1>4, <3>1 DEF docVars, itVars
  <2>4. FileInv
    BY <2>2, PlaceFile DEF ItInv
  <2>5. EmptyFirst /\ Unwritten
    BY <1>4, <2>3 DEF FirstFree
  <2> QED BY <1>4, <2>3, <2>4, <2>5, StepsFirst
<1>5. Putting' => Putting \/ Persist
  BY NextPutCall
<1> QED BY <1>1, <1>2, <1>3, <1>4, <1>5

(***************************************************************************)
(* The root in the tree: every other node is below one that is there, and  *)
(* no set of nodes is without a root, so that the root, while it is there, *)
(* is the one that has no parent, and the last node that is deleted.       *)
(***************************************************************************)
RootThere == DOMAIN Store # {} => ROOT_NODE_ID \in DOMAIN Store

RootOnly == \A a \in DOMAIN Store : NodeIn(a).parent_id = NULL_NODE_ID <=> a = ROOT_NODE_ID

Grounded == \A S \in SUBSET DOMAIN Store : (\A a \in S : NodeIn(a).parent_id \in S) => S = {}

RootTree == RootThere /\ RootOnly /\ Grounded /\ RootSlot

\* The first slot holds the root.
LEMMA RootTreeMade ==
  ASSUME StoredTree', RootThere', RootOnly', Grounded',
         ROOT_NODE_ID \in Slots(diskPages') => ROOT_NODE_ID \in DOMAIN Store'
  PROVE  RootTree'
PROOF
<1>1. ROOT_NODE_ID \in DOMAIN Store' => NodeIn(ROOT_NODE_ID)'.id = ROOT_NODE_ID
  BY DEF StoredTree, RootOnly
<1>2. RootSlot'
  BY <1>1 DEF RootSlot, ROOT_NODE_ID
<1> QED BY <1>2 DEF RootTree

\* A part is added to the tree's file.
LEMMA AddPartRoot ==
  ASSUME ItInv, ItemsInv, PutCall, TreeInv, FirstFree, AddPart
  PROVE  /\ FileInv /\ doc.step = "put" /\ NewSlot \notin Slots(diskPages)
         /\ Slots(diskPages') = Slots(diskPages) \cup {NewSlot}
         /\ doc.node.parent_id \in DOMAIN Store \cup {NULL_NODE_ID}
         /\ doc.node.parent_id = NULL_NODE_ID =>
              NewSlot = ROOT_NODE_ID /\ Slots(diskPages) = {} /\ ItemAdded
PROOF
<1>1. /\ pc = "part" /\ put.item \in Items /\ put.item # -1 /\ Left \in Nat \ {0}
      /\ Left' = Left - PartSize
  BY AddPartEffect, ItemsAssumption DEF ItInv
<1>2. FileInv
  BY <1>1, PlaceFile DEF ItInv
<1>3. /\ NewSlot \notin Slots(diskPages) /\ Slots(diskPages') = Slots(diskPages) \cup {NewSlot}
      /\ ram[put.cur] = diskPages[put.cur]
      /\ NewSlot.page = put.cur /\ NewSlot.item = ram[put.cur].next_item_id
  BY <1>2, AddPartEffect, AddPartPages, AddPartSlots DEF ItInv
<1>4. doc.step = "put" /\ Putting
  BY <1>1 DEF PutCall, Putting
<1>5. doc.node.parent_id \in DOMAIN Store \cup {NULL_NODE_ID}
  BY <1>4 DEF TreeInv, ParentThere, ToAdd
<1>6. ASSUME doc.node.parent_id = NULL_NODE_ID
      PROVE  NewSlot = ROOT_NODE_ID /\ Slots(diskPages) = {} /\ ItemAdded
  <2>1. EmptyFirst /\ Unwritten
    BY <1>4, <1>6 DEF FirstFree
  <2>2. Slots(diskPages) = {}
    BY <2>1, EmptyFirstOK
  <2>3. NewSlot = ROOT_NODE_ID
    BY <1>3, <2>1 DEF EmptyFirst, Unwritten, NewSlot, ROOT_NODE_ID
  <2>4. Left' = 0
    BY <1>1, <2>1 DEF PartSize, Unwritten
  <2> QED BY <1>2, <2>2, <2>3, <2>4, LastPartAdds DEF ItInv
<1> QED BY <1>2, <1>3, <1>4, <1>5, <1>6

\* The items stay.
LEMMA KeptRoot ==
  ASSUME ItInv, ItemsInv, PutCall, TreeInv, StoredTree', FirstFree, RootTree, Store' = Store,
         [ItNext]_itVars
  PROVE  RootTree'
PROOF
<1>1. \A a : NodeIn(a)' = NodeIn(a)
  BY DEF NodeIn
<1>2. RootThere' /\ RootOnly' /\ Grounded'
  BY <1>1 DEF RootTree, RootThere, RootOnly, Grounded, ROOT_NODE_ID, NULL_NODE_ID
<1> SUFFICES ASSUME ROOT_NODE_ID \in Slots(diskPages'), ROOT_NODE_ID \notin DOMAIN Store
             PROVE  FALSE
  BY <1>2, RootTreeMade
<1>3. ROOT_NODE_ID \notin Slots(diskPages)
  BY DEF RootTree, RootSlot
<1>4. CASE FileInv /\ WriteNewPage(TRUE)
  <2>1. Slots(diskPages') = Slots(diskPages)
    BY <1>4, WriteNewPageSlots DEF ItemsInv, ChainInv, ItInv
  <2> QED BY <1>3, <2>1
<1>5. CASE FileInv /\ DeletePart
  <2>1. Slots(diskPages') = Slots(diskPages) \ {target}
    BY <1>5, DeletePartSlots DEF ItInv
  <2> QED BY <1>3, <2>1
<1>6. CASE FileInv /\ AddPart
  <2>1. NewSlot = ROOT_NODE_ID
    BY <1>3, <1>6, AddPartRoot
  <2>2. CASE doc.node.parent_id = NULL_NODE_ID
    <3>1. ItemAdded
      BY <1>6, <2>2, AddPartRoot
    <3>2. PICK h \in Addresses \ DOMAIN Store : h \in DOMAIN Store'
      BY <3>1 DEF ItemAdded
    <3> QED BY <3>2
  <2>3. CASE doc.node.parent_id \in DOMAIN Store
    BY <2>3 DEF RootTree, RootThere
  <2> QED BY <1>6, <2>2, <2>3, AddPartRoot
<1>7. CASE diskPages' = diskPages
  BY <1>3, <1>7
<1> QED BY <1>4, <1>5, <1>6, <1>7, PageStep DEF PageWritten

\* A node is put below one that is there.
LEMMA AddedBelow ==
  ASSUME IndInv, RootTree, StoredTree, StoredTree', NEW h \in Addresses \ DOMAIN Store,
         DOMAIN Store' = DOMAIN Store \cup {h}, NodeIn(h)'.parent_id \in DOMAIN Store,
         \A a \in DOMAIN Store : NodeIn(a)' = NodeIn(a)
  PROVE  RootTree'
PROOF
<1>1. /\ ROOT_NODE_ID \in DOMAIN Store /\ h # ROOT_NODE_ID
      /\ NodeIn(h)'.parent_id # NULL_NODE_ID
  BY NullNotStored DEF RootTree, RootThere
<1>2. RootThere' /\ RootOnly'
  BY <1>1 DEF RootTree, RootThere, RootOnly, ROOT_NODE_ID, NULL_NODE_ID
<1>3. Grounded'
  <2> SUFFICES ASSUME NEW S \in SUBSET DOMAIN Store', \A a \in S : NodeIn(a)'.parent_id \in S
               PROVE  S = {}
    BY DEF Grounded
  <2>1. \A a \in S \ {h} : a \in DOMAIN Store /\ NodeIn(a).parent_id \in S
    OBVIOUS
  <2>2. \A a \in S \ {h} : NodeIn(a).parent_id # h
    BY <2>1, NullNotStored DEF StoredTree
  <2>3. S \ {h} = {}
    BY <2>1, <2>2 DEF RootTree, Grounded
  <2>4. h \notin S
    BY <2>3
  <2> QED BY <2>3, <2>4
<1> QED BY <1>1, <1>2, <1>3, RootTreeMade

\* A node is put: the root into an empty file, another one below one that is there.
LEMMA AddedRoot ==
  ASSUME ItInv, ItemsInv, DocInv, PutCall, TreeInv, FirstFree, RootTree, ItemAdded,
         [DocNext]_docVars
  PROVE  RootTree'
PROOF
<1>1. AddPart
  BY DEF ItemAdded
<1>2. PICK h \in Addresses \ DOMAIN Store :
        /\ DOMAIN Store' = DOMAIN Store \cup {h}
        /\ NodeIn(h)' = doc.node
        /\ \A a \in DOMAIN Store : NodeIn(a)' = NodeIn(a)
  BY AddedTree DEF ItInv
<1>3. StoredTree' /\ StoredTree
  BY AddedTree DEF ItInv, TreeInv
<1>4. DOMAIN Store \subseteq Slots(diskPages) /\ DOMAIN Store' \subseteq Slots(diskPages')
  BY StoreOK, NextStoreOK
<1>5. CASE doc.node.parent_id = NULL_NODE_ID
  <2>1. DOMAIN Store = {} /\ Slots(diskPages') = {ROOT_NODE_ID}
    BY <1>1, <1>4, <1>5, AddPartRoot
  <2>2. h = ROOT_NODE_ID /\ DOMAIN Store' = {ROOT_NODE_ID}
    BY <1>2, <1>4, <2>1
  <2>3. RootThere' /\ RootOnly'
    BY <1>2, <1>5, <2>2 DEF RootThere, RootOnly, ROOT_NODE_ID, NULL_NODE_ID
  <2>4. Grounded'
    <3> SUFFICES ASSUME NEW S \in SUBSET DOMAIN Store', \A a \in S : NodeIn(a)'.parent_id \in S
                 PROVE  S = {}
      BY DEF Grounded
    <3> QED BY <1>2, <1>5, <2>2, NullNotStored
  <2> QED BY <1>3, <2>2, <2>3, <2>4, RootTreeMade
<1>6. CASE doc.node.parent_id \in DOMAIN Store
  BY <1>2, <1>3, <1>6, AddedBelow DEF ItInv
<1> QED BY <1>1, <1>5, <1>6, AddPartRoot

\* A node is deleted: the root only when no other node is left.
LEMMA DeletedRoot ==
  ASSUME ItInv, DocInv, DeleteCall, PutCall', TreeInv, RootTree, ItemDeleted, [DocNext]_docVars
  PROVE  RootTree'
PROOF
<1> DEFINE t == doc.node.id
<1>1. pc = "delete" /\ DeletePart /\ target = t
  BY DEF ItemDeleted, DeletePart, DeleteSlot, DeleteCall
<1>2. /\ doc.step = "deleting" /\ StoredTree'
      /\ Store' = [a \in DOMAIN Store \ {t} |-> Store[a]]
  BY DeletedTree DEF TreeInv
<1>3. /\ DOMAIN Store' = DOMAIN Store \ {t}
      /\ \A a \in DOMAIN Store' : NodeIn(a)' = NodeIn(a)
  BY <1>2 DEF NodeIn
<1>4. \A a \in DOMAIN Store : NodeIn(a).parent_id # t
  BY <1>2 DEF TreeInv, NoChildren
<1>5. Slots(diskPages') = Slots(diskPages) \ {t}
  BY <1>1, PlaceFile, DeletePartSlots DEF ItInv
<1> HIDE DEF t
<1>6. RootOnly' /\ Grounded'
  BY <1>3 DEF RootTree, RootOnly, Grounded, ROOT_NODE_ID, NULL_NODE_ID
<1>7. CASE t # ROOT_NODE_ID
  <2>1. RootThere'
    BY <1>3, <1>7 DEF RootTree, RootThere, ROOT_NODE_ID
  <2>2. ROOT_NODE_ID \in Slots(diskPages') => ROOT_NODE_ID \in DOMAIN Store'
    BY <1>3, <1>5, <1>7 DEF RootTree, RootSlot
  <2> QED BY <1>2, <1>6, <2>1, <2>2, RootTreeMade
<1>8. CASE t = ROOT_NODE_ID
  <2>1. \A a \in DOMAIN Store' : NodeIn(a).parent_id \in DOMAIN Store'
    BY <1>3, <1>4, <1>8 DEF TreeInv, StoredTree, RootTree, RootOnly
  <2>2. DOMAIN Store' = {}
    BY <1>3, <2>1 DEF RootTree, Grounded
  <2>3. RootThere'
    BY <2>2 DEF RootThere
  <2> QED BY <1>2, <1>5, <1>6, <1>8, <2>3, RootTreeMade
<1> QED BY <1>7, <1>8

RootInv == FirstWritten /\ AtFirst /\ FirstFree /\ RootTree

LEMMA InitRoot == DocInit => RootInv
PROOF
<1> SUFFICES ASSUME DocInit PROVE RootInv
  OBVIOUS
<1>1. /\ doc.step = "idle" /\ put.item = -1
      /\ diskPages = NoPages /\ DOMAIN Store = {}
  BY NoCallOK, NoPutOK, InitDocTree DEF DocInit, ItInit, Init
<1>2. DOMAIN diskPages = {}
  BY <1>1 DEF NoPages
<1>3. Slots(diskPages) = {}
  BY <1>2 DEF Slots
<1>4. FirstWritten /\ AtFirst /\ FirstFree
  BY <1>1, <1>2 DEF FirstWritten, AtFirst, FirstFree, Putting
<1>5. RootTree
  BY <1>1, <1>3 DEF RootTree, RootThere, RootOnly, Grounded, RootSlot
<1> QED BY <1>4, <1>5 DEF RootInv

LEMMA NextRoot ==
  ASSUME NodesHaveBytes, NodesFit, Unlucky = {}, StaleIds = {}, DocTreeInv, RootInv,
         [DocNext]_docVars, doc'.step \notin BulkSteps
  PROVE  RootInv'
PROOF
<1>1. DocTreeInv' /\ (Store' = Store \/ ItemAdded \/ ItemDeleted)
  BY NextDocTree
<1>2. [ItNext]_itVars
  BY NextDoc DEF DocOK, DocTreeInv
<1>3. ItInv' /\ IndInv' /\ PutCall' /\ StoredTree'
  BY <1>1 DEF DocTreeInv, ItInv, TreeInv
<1>4. FirstWritten'
  BY <1>2, PageStep, NextFirstWritten DEF DocTreeInv, ItInv, RootInv
<1>5. AtFirst'
  BY NextAtFirst DEF DocTreeInv, RootInv, RootTree
<1>6. FirstFree'
  BY <1>3, NextFirstFree DEF DocTreeInv, RootInv
<1>7. RootTree'
  <2>1. CASE Store' = Store
    BY <1>2, <1>3, <2>1, KeptRoot DEF DocTreeInv, RootInv
  <2>2. CASE ItemAdded
    BY <2>2, AddedRoot DEF DocTreeInv, RootInv
  <2>3. CASE ItemDeleted
    BY <1>3, <2>3, DeletedRoot DEF DocTreeInv, RootInv
  <2> QED BY <1>1, <2>1, <2>2, <2>3
<1> QED BY <1>4, <1>5, <1>6, <1>7 DEF RootInv

(***************************************************************************)
(* A bulk add puts its nodes below one that is there, so the root is there *)
(* too.                                                                    *)
(***************************************************************************)
BulkRootInv == BulkTreeInv /\ FirstWritten /\ RootTree

LEMMA BulkRootTree ==
  ASSUME NodesHaveBytes, BulkRootInv, [DocNext]_docVars
  PROVE  RootTree'
PROOF
<1>1. /\ IndInv /\ StoredTree /\ StoredTree' /\ RootTree
      /\ doc.node.parent_id \in DOMAIN Store
  BY NextBulkTree DEF BulkRootInv, BulkTreeInv, BulkInv, HeapInv
<1>2. CASE Store' = Store
  <2>1. \A a : NodeIn(a)' = NodeIn(a)
    BY <1>2 DEF NodeIn
  <2>2. RootThere' /\ RootOnly' /\ Grounded'
    BY <1>1, <1>2, <2>1
       DEF RootTree, RootThere, RootOnly, Grounded, ROOT_NODE_ID, NULL_NODE_ID
  <2>3. ROOT_NODE_ID \in DOMAIN Store'
    BY <1>1, <1>2 DEF RootTree, RootThere
  <2> QED BY <1>1, <2>2, <2>3, RootTreeMade
<1>3. CASE ItemAdded
  <2>1. PICK h \in Addresses \ DOMAIN Store :
          /\ DOMAIN Store' = DOMAIN Store \cup {h}
          /\ NodeIn(h)' = BulkNode
          /\ \A a \in DOMAIN Store : NodeIn(a)' = NodeIn(a)
    BY <1>3, AddedBulk DEF BulkRootInv
  <2>2. BulkNode.parent_id \in DOMAIN Store
    BY <1>1, BulkNodeOK DEF BulkRootInv, BulkTreeInv, BulkInv
  <2> QED BY <1>1, <2>1, <2>2, AddedBelow
<1> QED BY <1>2, <1>3, NextBulkTree DEF BulkRootInv

LEMMA NextBulkRoot ==
  ASSUME NodesHaveBytes, BulkRootInv, [DocNext]_docVars
  PROVE  BulkRootInv' \/ (DocTreeInv' /\ RootInv')
PROOF
<1>1. FirstWritten'
  <2>1. CASE [Next]_vars
    <3>1. PageWritten
      BY <2>1, DiskStep DEF PageWritten, BulkRootInv, BulkTreeInv, BulkInv, HeapInv
    <3> QED BY <3>1, NextFirstWritten DEF BulkRootInv, BulkTreeInv, BulkInv, HeapInv
  <2>2. CASE Aborts
    BY <2>2 DEF Aborts, disk, FirstWritten, BulkRootInv
  <2> QED BY <2>1, <2>2, BulkHeap DEF BulkRootInv, BulkTreeInv, BulkInv
<1>2. RootTree'
  BY BulkRootTree
<1>3. ASSUME doc'.step = "idle", ~ Putting' PROVE AtFirst' /\ FirstFree'
  BY <1>3 DEF AtFirst, FirstFree
<1> QED BY <1>1, <1>2, <1>3, NextBulkTree DEF BulkRootInv, RootInv

LEMMA EnterBulkRoot ==
  ASSUME DocTreeInv, RootInv, [DocNext]_docVars, doc'.step \in BulkSteps
  PROVE  BulkRootInv'
PROOF
<1>1. BulkTreeInv' /\ Store' = Store /\ diskPages' = diskPages
  BY EnterBulkTree
<1>2. \A a : NodeIn(a)' = NodeIn(a)
  BY <1>1 DEF NodeIn
<1>3. RootThere' /\ RootOnly' /\ Grounded' /\ StoredTree' /\ FirstWritten'
  BY <1>1, <1>2 DEF RootInv, RootTree, RootThere, RootOnly, Grounded, ROOT_NODE_ID,
     NULL_NODE_ID, BulkTreeInv, FirstWritten
<1>4. Slots(diskPages') = Slots(diskPages)
  BY <1>1
<1>5. RootTree'
  BY <1>1, <1>3, <1>4, RootTreeMade DEF RootInv, RootTree, RootSlot
<1> QED BY <1>1, <1>3, <1>5 DEF BulkRootInv

(***************************************************************************)
(* The root is the first item of the first page, where users look for it   *)
(* by ROOT_NODE_ID: add_node puts a root only where its scan has found no  *)
(* item, and delete_node, which leaves no child without a parent, deletes  *)
(* the root as the last node of all, after which page 0 gives the slot     *)
(* away again or the scan for another root dies.  Any node fits a page,    *)
(* and callers name nodes that are in the file.                            *)
(***************************************************************************)
THEOREM DocumentRootIsFirst ==
  ASSUME NodesHaveBytes, NodesFit, Unlucky = {}, StaleIds = {}
  PROVE  DocSpec => []RootIsFirst
PROOF
<1> DEFINE Inv == (DocTreeInv /\ RootInv) \/ BulkRootInv
<1>1. DocInit => Inv
  BY InitDocTree, InitRoot
<1>2. Inv /\ [DocNext]_docVars => Inv'
  <2> SUFFICES ASSUME Inv, [DocNext]_docVars PROVE Inv'
    OBVIOUS
  <2>1. CASE BulkRootInv
    BY <2>1, NextBulkRoot
  <2>2. CASE DocTreeInv /\ RootInv /\ doc'.step \in BulkSteps
    BY <2>2, EnterBulkRoot
  <2>3. CASE DocTreeInv /\ RootInv /\ doc'.step \notin BulkSteps
    BY <2>3, NextDocTree, NextRoot
  <2> QED BY <2>1, <2>2, <2>3
<1>3. Inv => RootIsFirst
  <2>1. \A a \in DOMAIN Store : NodeAt(a) = NodeIn(a)
    BY StoreOK DEF NodeAt, NodeIn
  <2> QED BY <2>1 DEF BulkRootInv, RootInv, RootTree, RootOnly, RootIsFirst
<1> HIDE DEF Inv
<1> QED BY <1>1, <1>2, <1>3, PTL DEF DocSpec

--------------------------------------------------------------------------------
(***************************************************************************)
(* The two scans of get_all_children.  The memory of a scan's next item is *)
(* taken for a Node also when it is the later part of a split one, or of   *)
(* one that a crash has cut off: a scan has counted the children it was    *)
(* handed, and some of the parts that may read as one.                     *)
(***************************************************************************)
Counting == {"count", "rescan_children", "collect"}

HandedOut(a) == \E n \in 1 .. Len(it.payloads) : it.payloads[n] = a

\* The children that a scan has come by, and what may have passed for one.
Seen == {a \in Children : HandedOut(a)}
SeenLikes == {a \in Lookalikes : HandedOut(a)}

FoundSeen(n) == n \in Cardinality(Seen) .. Cardinality(Seen) + Cardinality(SeenLikes)

CountInv ==
  /\ doc.step = "count" => FoundSeen(doc.count)
  /\ doc.step \in {"rescan_children", "collect"} => FoundAll(doc.count)
  /\ doc.step \in {"count", "rescan_children"} => doc.i = 0
  /\ doc.step = "collect" => FoundSeen(doc.i)

ChildrenInv == doc.step \in Counting => CountInv

\* The steps of a call that counts.
LEMMA CountsBy ==
  ASSUME DocInv, [DocNext]_docVars, doc'.step \in Counting
  PROVE  \/ \E id \in GivenIds : GetAllChildren(id)
         \/ ScanMoves \/ ScanPasses \/ ScanFinds \/ ScanEnds \/ ScanAgain
         \/ (doc' = doc /\ it' = it /\ UNCHANGED disk)
PROOF
<1>1. ~ Return
  BY NoCallOK DEF Return, Counting
<1>2. ASSUME NEW step, GoTo(step) PROVE step \in Counting
  BY <1>2 DEF GoTo, DocInv, DocTyped
<1>3. DocCalls => \E id \in GivenIds : GetAllChildren(id)
  <2>1. ASSUME NEW node, AddInto(node, NoCall) PROVE FALSE
    BY <2>1, NoCallOK DEF AddInto, Counting
  <2>2. ASSUME NEW node, NEW update, DeleteFirst(node, update) PROVE FALSE
    BY <2>2, NoCallOK DEF DeleteFirst, Counting
  <2>3. ASSUME NEW parent, NEW value, NEW count, AddBulkNodes(parent, value, count) PROVE FALSE
    BY <2>3, NoCallOK DEF AddBulkNodes, Counting
  <2> QED BY <2>1, <2>2, <2>3, Zenon DEF DocCalls, AddNode, DeleteNode, UpdateNode
<1>4. ~ (ScanAborts \/ FindsObstacle \/ Release \/ DocCrash)
  BY <1>1 DEF ScanAborts, FindsObstacle, Release, DocCrash
<1>5. ~ (ParentFound \/ Persist \/ DeleteFound \/ Deleted)
  BY <1>1, <1>2 DEF ParentFound, Persist, DeleteFound, Deleted, Counting
<1>6. ~ (PutGoesOnOrDies \/ PutDone)
  <2>1. ASSUME NEW id, doc' = [doc EXCEPT !.node.id = id, !.step = "release"] PROVE FALSE
    BY <2>1 DEF DocInv, DocTyped, Counting
  <2>2. doc.step # "bulk_put"
    BY DEF DocInv, DocTyped, Using, Without
  <2>3. ~ (doc' = doc /\ doc.step = "put")
    BY DEF Counting
  <2> QED BY <1>1, <2>1, <2>2, <2>3, Zenon DEF PutGoesOnOrDies, PutDone
<1>7. ~ AddAgain
  BY DEF AddAgain, AddInto, DocInv, DocTyped, Counting
<1>8. ~ (BulkPersist \/ BulkRelease \/ DestroyBulk \/ DestroyTwice)
  <2>1. doc.step \notin {"bulk", "bulk_release", "bulk_destroy"}
    BY DEF DocInv, DocTyped, Using, Without
  <2> QED BY <2>1 DEF BulkPersist, BulkRelease, DestroyBulk, DestroyTwice, Destroying
<1>9. ~ (Start \/ StartGoesOn \/ DeleteGoesOn)
  <2>1. ~ (doc' = doc /\ doc.step \in {"idle", "deleting"})
    BY DEF Counting
  <2> QED BY <2>1, Zenon DEF Start, StartGoesOn, DeleteGoesOn
<1>10. CASE UNCHANGED docVars
  BY <1>10 DEF docVars, itVars, vars, disk
<1> QED BY <1>3, <1>4, <1>5, <1>6, <1>7, <1>8, <1>9, <1>10, Zenon DEF DocNext, DocSteps

\* GetNext appends the next item to what was handed out.
LEMMA HandsOutNext ==
  ASSUME ItInv, GetNext
  PROVE  /\ Len(it'.payloads) = Len(it.payloads) + 1 /\ Len(it.payloads) \in Nat
         /\ \A n \in 1 .. Len(it.payloads) + 1 :
              it'.payloads[n] = IF n = Len(it.payloads) + 1 THEN NextItem ELSE it.payloads[n]
PROOF
<1>1. it'.payloads = Append(it.payloads, NextItem) /\ it.payloads \in Payloads
  BY KeepsUsing DEF ItInv, ItTyped
<1>2. NextItem \in [page : Nat, item : Nat]
  BY NextItemOK
<1> QED BY <1>1, <1>2 DEF Payloads

\* All of these are finitely many.
LEMMA SeenFinite ==
  ASSUME ItInv
  PROVE  /\ IsFiniteSet(Seen) /\ IsFiniteSet(SeenLikes)
         /\ IsFiniteSet(Children) /\ IsFiniteSet(Lookalikes)
         /\ Cardinality(Seen) \in Nat /\ Cardinality(SeenLikes) \in Nat
         /\ Cardinality(Children) \in Nat /\ Cardinality(Lookalikes) \in Nat
         /\ Cardinality(Seen) <= Cardinality(Children)
         /\ Cardinality(SeenLikes) <= Cardinality(Lookalikes)
PROOF
<1>1. Children \subseteq Slots(diskPages) /\ Lookalikes \subseteq Slots(diskPages)
  BY StoreOK DEF Children, Lookalikes
<1>2. IsFiniteSet(Children) /\ IsFiniteSet(Lookalikes)
  BY <1>1, FiniteSlots, FS_Subset
<1>3. Seen \in SUBSET Children /\ SeenLikes \in SUBSET Lookalikes
  BY DEF Seen, SeenLikes
<1>4. IsFiniteSet(Seen) /\ Cardinality(Seen) <= Cardinality(Children)
  BY <1>2, <1>3, FS_Subset
<1>5. IsFiniteSet(SeenLikes) /\ Cardinality(SeenLikes) <= Cardinality(Lookalikes)
  BY <1>2, <1>3, FS_Subset
<1> QED BY <1>2, <1>4, <1>5, FS_CardinalityType

\* The items and the node of the call stay, so do the children; a scan sees them one by one.
LEMMA SeenOK ==
  ASSUME ItInv, UNCHANGED disk, doc'.node = doc.node
  PROVE  /\ Store' = Store /\ Children' = Children /\ Lookalikes' = Lookalikes
         /\ it'.payloads = <<>> => Seen' = {} /\ SeenLikes' = {}
         /\ it'.payloads = it.payloads => Seen' = Seen /\ SeenLikes' = SeenLikes
         /\ GetNext => /\ Seen' = Seen \cup ({NextItem} \cap Children)
                       /\ SeenLikes' = SeenLikes \cup ({NextItem} \cap Lookalikes)
PROOF
<1>1. diskPages' = diskPages
  BY DEF disk
<1>2. Store' = Store /\ Children' = Children /\ Lookalikes' = Lookalikes
  BY <1>1 DEF Store, Children, Lookalikes, IsChild, NodeAt, Whole
<1>3. ASSUME it'.payloads = <<>> PROVE Seen' = {} /\ SeenLikes' = {}
  BY <1>2, <1>3 DEF Seen, SeenLikes, HandedOut
<1>4. ASSUME it'.payloads = it.payloads PROVE Seen' = Seen /\ SeenLikes' = SeenLikes
  BY <1>2, <1>4 DEF Seen, SeenLikes, HandedOut
<1>5. ASSUME GetNext
      PROVE  /\ Seen' = Seen \cup ({NextItem} \cap Children)
             /\ SeenLikes' = SeenLikes \cup ({NextItem} \cap Lookalikes)
  <2>1. \A a : HandedOut(a)' <=> HandedOut(a) \/ a = NextItem
    BY <1>5, HandsOutNext DEF HandedOut
  <2> QED BY <1>2, <2>1 DEF Seen, SeenLikes
<1> QED BY <1>2, <1>3, <1>4, <1>5

\* What a scan finds it has not seen: a child, or a part that may read as one.
LEMMA ScanCounts ==
  ASSUME ItInv, ItInv', DocInv, CountInv, doc.step \in {"count", "collect"},
         ScanPasses \/ ScanFinds
  PROVE  CountInv'
PROOF
<1>1. GetNext /\ ItemHere /\ CanGet
  BY DEF ScanPasses, ScanFinds, GetNext
<1>2. UNCHANGED disk
  BY <1>1 DEF GetNext
<1>3. NextItem \in DOMAIN Store => NodesRead = {NodeAt(NextItem)}
  BY DEF NodesRead
<1>4. CASE ScanPasses
  <2>1. doc' = doc /\ \E node \in NodesRead : ~ IsChild(node)
    BY <1>4 DEF ScanPasses, Matches
  <2>2. NextItem \notin Children
    BY <1>3, <2>1 DEF IsChild, Children
  <2>3. /\ Seen' = Seen /\ Children' = Children /\ Lookalikes' = Lookalikes
        /\ SeenLikes' = SeenLikes \cup ({NextItem} \cap Lookalikes)
    BY <1>1, <1>2, <2>1, <2>2, SeenOK
  <2>4. /\ SeenLikes \in SUBSET (SeenLikes')
        /\ SeenLikes' \in SUBSET Lookalikes /\ IsFiniteSet(SeenLikes')
    <3>1. SeenLikes' \in SUBSET Lookalikes
      BY <2>3 DEF SeenLikes
    <3> QED BY <2>3, <3>1, SeenFinite, FS_Subset
  <2>5. Cardinality(SeenLikes) <= Cardinality(SeenLikes') /\ Cardinality(SeenLikes') \in Nat
    BY <2>4, FS_Subset, FS_CardinalityType
  <2> QED BY <2>1, <2>3, <2>5, SeenFinite DEF CountInv, FoundSeen, FoundAll
<1>5. CASE ScanFinds
  <2>1. Found(doc.step) /\ \E node \in NodesRead : IsChild(node)
    BY <1>5 DEF ScanFinds, Matches
  <2>2. /\ doc'.step = doc.step /\ doc'.node = doc.node
        /\ doc'.count = IF doc.step = "count" THEN doc.count + 1 ELSE doc.count
        /\ doc'.i = IF doc.step = "count" THEN doc.i ELSE doc.i + 1
    BY <2>1 DEF Found, DocInv, DocTyped
  <2>3. ~ HandedOut(NextItem)
    <3>1. HandedOutOnce'
      BY DEF ItInv, ItList
    <3>2. ASSUME NEW n \in 1 .. Len(it.payloads), it.payloads[n] = NextItem PROVE FALSE
      BY <1>1, <3>1, <3>2, HandsOutNext DEF HandedOutOnce
    <3> QED BY <3>2 DEF HandedOut
  <2>4. NextItem \in Slots(diskPages)
    BY <1>1, FiniteSlots, ChainStarts DEF CanGet
  <2>5. \/ NextItem \in Children \ Lookalikes
        \/ NextItem \in Lookalikes \ Children
    BY <1>3, <2>1, <2>4 DEF IsChild, Children, Lookalikes, NodesRead
  <2>6. /\ Seen' = Seen \cup ({NextItem} \cap Children)
        /\ SeenLikes' = SeenLikes \cup ({NextItem} \cap Lookalikes)
        /\ Children' = Children /\ Lookalikes' = Lookalikes
    BY <1>1, <1>2, <2>2, SeenOK
  <2>7. NextItem \notin Seen /\ NextItem \notin SeenLikes
    BY <2>3 DEF Seen, SeenLikes
  <2>8. \/ Cardinality(Seen') = Cardinality(Seen) + 1 /\ SeenLikes' = SeenLikes
        \/ Seen' = Seen /\ Cardinality(SeenLikes') = Cardinality(SeenLikes) + 1
    <3>1. CASE NextItem \in Children \ Lookalikes
      <4>1. Seen' = Seen \cup {NextItem} /\ SeenLikes' = SeenLikes
        BY <2>6, <3>1
      <4> QED BY <2>7, <4>1, SeenFinite, FS_AddElement
    <3>2. CASE NextItem \in Lookalikes \ Children
      <4>1. Seen' = Seen /\ SeenLikes' = SeenLikes \cup {NextItem}
        BY <2>6, <3>2
      <4> QED BY <2>7, <4>1, SeenFinite, FS_AddElement
    <3> QED BY <2>5, <3>1, <3>2
  <2>9. ASSUME NEW n, FoundSeen(n) PROVE FoundSeen(n + 1)'
    BY <2>8, <2>9, SeenFinite DEF FoundSeen
  <2>10. doc.step = "collect" /\ FoundAll(doc.count) => FoundAll(doc.count)'
    BY <2>2, <2>6 DEF FoundAll
  <2> QED BY <2>2, <2>9, <2>10 DEF CountInv, FoundSeen, FoundAll
<1> QED BY <1>4, <1>5

\* A scan that ends has seen all children.
LEMMA AllSeen ==
  ASSUME ItInv, Unlucky = {}, Exhausted, NEW n, FoundSeen(n)
  PROVE  FoundAll(n)
PROOF
<1>1. ASSUME NEW a \in Children PROVE HandedOut(a)
  <2>1. a \in Slots(diskPages)
    BY StoreOK DEF Children
  <2> QED BY <2>1, AllHandedOut DEF HandedOut
<1>2. Seen = Children
  BY <1>1 DEF Seen
<1> QED BY <1>2, SeenFinite DEF FoundSeen, FoundAll

LEMMA NextChildren ==
  ASSUME Unlucky = {}, ItInv, ItInv', DocInv, ChildrenInv, [DocNext]_docVars
  PROVE  ChildrenInv'
PROOF
<1> SUFFICES ASSUME doc'.step \in Counting PROVE CountInv'
  BY DEF ChildrenInv
<1>1. ASSUME NEW id, GetAllChildren(id) PROVE CountInv'
  <2>1. doc'.step = "count" /\ doc'.count = 0 /\ doc'.i = 0 /\ it'.payloads = <<>>
    BY <1>1, NoCallOK, StartsUsing DEF GetAllChildren
  <2>2. Seen' = {} /\ SeenLikes' = {}
    BY <2>1 DEF Seen, SeenLikes, HandedOut
  <2> QED BY <2>1, <2>2, FS_EmptySet DEF CountInv, FoundSeen
<1>2. CASE ScanMoves
  <2>1. doc' = doc /\ UNCHANGED disk /\ it'.payloads = it.payloads
    BY <1>2, KeepsUsing DEF ScanMoves, NextPage, MoveTo
  <2>2. UNCHANGED <<Seen, SeenLikes, Children, Lookalikes>>
    BY <2>1, SeenOK
  <2> QED BY <2>1, <2>2 DEF ChildrenInv, CountInv, FoundSeen, FoundAll
<1>3. CASE ScanPasses \/ ScanFinds
  <2>1. doc.step \in {"count", "collect"}
    <3>1. ~ GoTo("parent_found") /\ ~ GoTo("found") /\ ~ GoTo("bulk")
      BY DEF GoTo, DocInv, DocTyped, Counting
    <3>2. CASE ScanFinds
      <4>1. doc.step \in Scans \ {"find_root", "find_children"} /\ Found(doc.step)
        BY <3>2 DEF ScanFinds, Scanning
      <4> QED BY <3>1, <4>1 DEF Found, Scans
    <3>3. CASE ScanPasses
      BY <3>3 DEF ScanPasses, Scanning, Scans, Counting
    <3> QED BY <1>3, <3>2, <3>3
  <2> QED BY <1>3, <2>1, ScanCounts DEF ChildrenInv, Counting
<1>4. CASE ScanEnds
  <2>1. Exhausted /\ AfterScan /\ doc.step \in Scans /\ Destroy
    BY <1>4 DEF ScanEnds, Scanning
  <2>2. ~ Return
    BY NoCallOK DEF Return, Counting
  <2>3. ~ (doc' = [doc EXCEPT !.step = "persist", !.node.id = ROOT_NODE_ID])
    BY DEF DocInv, DocTyped, Counting
  <2>4. ~ GoTo("rescan_node")
    BY DEF GoTo, DocInv, DocTyped, Counting
  <2>5. doc.step = "count" /\ GoTo("rescan_children")
    BY <2>1, <2>2, <2>3, <2>4 DEF AfterScan
  <2>6. /\ doc'.step = "rescan_children" /\ doc'.node = doc.node /\ doc'.count = doc.count
        /\ doc'.i = doc.i
    BY <2>5 DEF GoTo, DocInv, DocTyped
  <2>7. UNCHANGED disk /\ it' = NoIterator
    BY <2>1 DEF Destroy
  <2>8. Children' = Children /\ Lookalikes' = Lookalikes
    BY <2>6, <2>7, SeenOK
  <2>9. CountInv /\ FoundSeen(doc.count)
    BY <2>5 DEF ChildrenInv, CountInv, Counting
  <2>10. FoundAll(doc.count)
    BY <2>1, <2>9, AllSeen
  <2> QED BY <2>5, <2>6, <2>8, <2>9, <2>10 DEF CountInv, FoundAll
<1>5. CASE ScanAgain
  <2>1. NewIterator /\ doc.step \in {"rescan_node", "rescan_children"}
        /\ GoTo(IF doc.step = "rescan_node" THEN "find_node" ELSE "collect")
    BY <1>5 DEF ScanAgain
  <2>2. ~ GoTo("find_node")
    BY DEF GoTo, DocInv, DocTyped, Counting
  <2>3. doc.step = "rescan_children" /\ GoTo("collect")
    BY <2>1, <2>2
  <2>4. /\ doc'.step = "collect" /\ doc'.node = doc.node /\ doc'.count = doc.count
        /\ doc'.i = doc.i
    BY <2>3 DEF GoTo, DocInv, DocTyped
  <2>5. UNCHANGED disk /\ it'.payloads = <<>>
    BY <2>1, StartsUsing DEF NewIterator
  <2>6. Seen' = {} /\ SeenLikes' = {} /\ Children' = Children /\ Lookalikes' = Lookalikes
    BY <2>4, <2>5, SeenOK
  <2> QED BY <2>3, <2>4, <2>6, FS_EmptySet
          DEF ChildrenInv, CountInv, Counting, FoundSeen, FoundAll
<1>6. CASE doc' = doc /\ it' = it /\ UNCHANGED disk
  <2>1. UNCHANGED <<Seen, SeenLikes, Children, Lookalikes>>
    BY <1>6, SeenOK
  <2> QED BY <1>6, <2>1 DEF ChildrenInv, CountInv, FoundSeen, FoundAll
<1> QED BY <1>1, <1>2, <1>3, <1>4, <1>5, <1>6, CountsBy

(***************************************************************************)
(* Both scans of get_all_children find every child that is in the file,    *)
(* and nothing else but parts of split nodes that may read as one          *)
(* (Document!ChildrenCounted): without these the second scan finds as many *)
(* children as the first one has made room for, and no more at any time.   *)
(***************************************************************************)
THEOREM DocumentChildrenCounted ==
  ASSUME NodesHaveBytes, Unlucky = {}
  PROVE  DocSpec => []ChildrenCounted
PROOF
<1>1. DocInit => DocBase /\ ChildrenInv
  <2>1. DocInit => ChildrenInv
    BY NoCallOK DEF DocInit, ChildrenInv, Counting
  <2> QED BY <2>1, InitBase
<1>2. DocBase /\ ChildrenInv /\ [DocNext]_docVars => DocBase' /\ ChildrenInv'
  <2> SUFFICES ASSUME DocBase, ChildrenInv, [DocNext]_docVars
               PROVE  ChildrenInv'
    BY NextBase
  <2>1. CASE doc'.step \in BulkSteps \cup {"idle"}
    BY <2>1 DEF ChildrenInv, Counting, BulkSteps
  <2>2. CASE ItInv /\ DocInv /\ doc'.step \notin BulkSteps
    <3>1. ItInv'
      BY <2>2, NextDoc, NextItInv DEF DocOK
    <3> QED BY <2>2, <3>1, NextChildren
  <2> QED BY <2>1, <2>2, BulkStays DEF DocBase
<1>3. ASSUME DocBase, ChildrenInv PROVE ChildrenCounted
  <2> SUFFICES ASSUME doc.step \in Counting PROVE ChildrenCounted
    BY DEF ChildrenCounted, Counting
  <2>1. ItInv /\ CountInv
    BY <1>3 DEF DocBase, BulkInv, BulkTyped, BulkSteps, Counting, ChildrenInv
  <2>2. ASSUME doc.step \in {"rescan_children", "collect"} \/ (doc.step = "count" /\ Exhausted)
        PROVE  FoundAll(doc.count)
    BY <2>1, <2>2, AllSeen DEF CountInv
  <2>3. ASSUME doc.step = "collect"
        PROVE  doc.i <= Cardinality(Children) + Cardinality(Lookalikes)
    BY <2>1, <2>3, SeenFinite DEF CountInv, FoundSeen
  <2>4. ASSUME doc.step = "collect", Exhausted PROVE FoundAll(doc.i)
    BY <2>1, <2>4, AllSeen DEF CountInv
  <2> QED BY <2>2, <2>3, <2>4 DEF ChildrenCounted
<1> QED BY <1>1, <1>2, <1>3, PTL DEF DocSpec
================================================================================
