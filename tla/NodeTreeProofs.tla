----------------------------- MODULE NodeTreeProofs -----------------------------
(***************************************************************************)
(* What the promise of a document amounts to: it is a tree.                *)
(***************************************************************************)
EXTENDS NodeTree, TLAPS

TreeInv == DOMAIN nodes \subseteq Ids /\ OneRoot /\ ParentsExist

\* Nothing is there at first.
LEMMA TreeInitInv == TreeInit => TreeInv
  BY DEF TreeInit, TreeInv, OneRoot, ParentsExist, Roots

\* A node is added.
LEMMA AddedInv ==
  ASSUME NoParent \notin Ids, TreeInv, Add,
         \/ request.parent_id = NoParent /\ Roots = {}
         \/ request.parent_id \in DOMAIN nodes
  PROVE  TreeInv'
PROOF
<1> DEFINE new == [parent_id |-> request.parent_id, value |-> request.value]
<1>1. PICK id \in Ids \ DOMAIN nodes :
        nodes' = [x \in DOMAIN nodes \cup {id} |-> IF x = id THEN new ELSE nodes[x]]
  BY Zenon DEF Add
<1>2. new.parent_id = request.parent_id
  OBVIOUS
<1> HIDE DEF new
<1>3. /\ DOMAIN nodes' = DOMAIN nodes \cup {id} /\ nodes'[id] = new
      /\ \A x \in DOMAIN nodes : nodes'[x] = nodes[x]
  BY <1>1
<1>4. DOMAIN nodes' \subseteq Ids
  BY <1>3 DEF TreeInv
<1>5. OneRoot'
  <2>1. CASE request.parent_id = NoParent /\ Roots = {}
    <3>1. \A x \in DOMAIN nodes : nodes[x].parent_id # NoParent
      BY <2>1 DEF Roots
    <3> QED BY <1>3, <3>1 DEF OneRoot, Roots
  <2>2. CASE request.parent_id \in DOMAIN nodes
    <3>1. nodes'[id].parent_id # NoParent
      BY <1>2, <1>3, <2>2 DEF TreeInv
    <3> QED BY <1>3, <3>1 DEF TreeInv, OneRoot, Roots
  <2> QED BY <2>1, <2>2
<1>6. ParentsExist'
  BY <1>2, <1>3 DEF TreeInv, ParentsExist
<1> QED BY <1>4, <1>5, <1>6 DEF TreeInv

\* A node that no other has for its parent is deleted.
LEMMA DeletedInv ==
  ASSUME TreeInv, Delete
  PROVE  TreeInv'
PROOF
<1>1. /\ DOMAIN nodes' = DOMAIN nodes \ {request.id}
      /\ \A x \in DOMAIN nodes' : nodes'[x] = nodes[x]
      /\ \A x \in DOMAIN nodes : nodes[x].parent_id # request.id
  BY DEF Delete, Children
<1> QED BY <1>1 DEF TreeInv, OneRoot, Roots, ParentsExist

\* Every change of the tree keeps it one.
LEMMA TreeNextInv ==
  ASSUME NoParent \notin Ids
  PROVE  TreeInv /\ [TreeNext]_treeVars => TreeInv'
PROOF
<1> SUFFICES ASSUME TreeInv, [TreeNext]_treeVars PROVE TreeInv'
  OBVIOUS
<1>1. CASE AddRoot
  BY <1>1, AddedInv DEF AddRoot
<1>2. CASE AddChild
  BY <1>2, AddedInv DEF AddChild
<1>3. CASE Delete
  BY <1>3, DeletedInv
<1>4. CASE nodes' = nodes
  BY <1>4 DEF TreeInv, OneRoot, Roots, ParentsExist
<1> QED BY <1>1, <1>2, <1>3, <1>4 DEF TreeNext, Ask, treeVars

(***************************************************************************)
(* The nodes of a document make a tree: at most one is the root, and the   *)
(* parent of every other node is there (NodeTree!OneRoot and               *)
(* NodeTree!ParentsExist).                                                 *)
(***************************************************************************)
THEOREM NodesMakeTree ==
  ASSUME NoParent \notin Ids
  PROVE  TreeSpec => [](OneRoot /\ ParentsExist)
PROOF
<1>1. TreeInv => OneRoot /\ ParentsExist
  BY DEF TreeInv
<1> QED BY <1>1, TreeInitInv, TreeNextInv, PTL DEF TreeSpec

================================================================================
