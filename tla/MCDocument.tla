------------------------------ MODULE MCDocument ------------------------------
(* Nodes of 29 bytes.  Payload x is the bytes of the node with number x: the   *)
(* digits of x are its value, its parent and its id.  A fragment of a node may *)
(* read as the root or as the node after it, or as a child of one of these.    *)
EXTENDS Document

CONSTANTS MaxValue, StaleCallers

NodeSize == 29

MCValues == 0 .. MaxValue

SlotsPerPage == (PageSize - HeaderSize) \div (MetaSize + NodeSize) + 1

Places == MaxPages * SlotsPerPage

Place(n) == IF n = Places THEN NULL_NODE_ID
            ELSE Address(n \div SlotsPerPage, n % SlotsPerPage)

MCItems  == 0 .. (MaxValue + 1) * (Places + 1) * Places - 1
MCNodeOf ==
  [ x \in MCItems |->
      [ value     |-> x % (MaxValue + 1),
        parent_id |-> Place((x \div (MaxValue + 1)) % (Places + 1)),
        id        |-> Place(x \div ((MaxValue + 1) * (Places + 1))) ] ]
MCSize   == [x \in MCItems |-> NodeSize]

MCReadsAs   == {ROOT_NODE_ID, Address(0, 1)}
MCFragments == [x \in MCItems |-> [id : MCReadsAs, parent_id : MCReadsAs]]
MCUnlucky   == {}
MCStaleIds  == IF StaleCallers THEN MCReadsAs ELSE {}
================================================================================
