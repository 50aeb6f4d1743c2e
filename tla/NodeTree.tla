-------------------------------- MODULE NodeTree --------------------------------
(***************************************************************************)
(* What a document promises: a tree of nodes.  There is at most one root,  *)
(* a node is added below a node that is there, and a node that has         *)
(* children is not deleted; nothing else changes the tree.                 *)
(***************************************************************************)
CONSTANTS
  Ids,                  \* the ids of nodes
  NoParent              \* the parent id of a root

VARIABLES
  nodes,                \* the parent and the value of each node, by its id
  request               \* the change the user asked for, if any

treeVars == <<nodes, request>>

Roots == {id \in DOMAIN nodes : nodes[id].parent_id = NoParent}

Children(id) == {c \in DOMAIN nodes : nodes[c].parent_id = id}

TreeInit == DOMAIN nodes = {}

\* The node asked for appears at an id that is not in use.
Add ==
  \E id \in Ids \ DOMAIN nodes :
    nodes' = [ x \in DOMAIN nodes \cup {id} |->
                 IF x = id THEN [parent_id |-> request.parent_id, value |-> request.value]
                           ELSE nodes[x] ]

AddRoot ==
  /\ request.op = "add" /\ request.parent_id = NoParent
  /\ Roots = {}
  /\ Add

AddChild ==
  /\ request.op = "add" /\ request.parent_id \in DOMAIN nodes
  /\ Add

Delete ==
  /\ request.op = "delete" /\ request.id \in DOMAIN nodes
  /\ Children(request.id) = {}
  /\ nodes' = [x \in DOMAIN nodes \ {request.id} |-> nodes[x]]

\* The user asks for something else; the tree stays.
Ask == UNCHANGED nodes

TreeNext == Ask \/ AddRoot \/ AddChild \/ Delete

TreeSpec == TreeInit /\ [][TreeNext]_treeVars

--------------------------------------------------------------------------------
(***************************************************************************)
(* At most one node has no parent, and the parent of every other is there. *)
(***************************************************************************)
OneRoot == \A a, b \in Roots : a = b

ParentsExist == \A id \in DOMAIN nodes : nodes[id].parent_id \in DOMAIN nodes \cup {NoParent}
================================================================================
