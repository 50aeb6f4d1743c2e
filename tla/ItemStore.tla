------------------------------- MODULE ItemStore -------------------------------
(***************************************************************************)
(* What the heap file promises its user: a set of items, each found at the *)
(* address (page and slot) its insertion returned, until it is deleted.    *)
(* A call adds one item or removes one, in a single step, or the process   *)
(* dies and the call has no effect.  Nothing else happens to the items:    *)
(* they are not moved, replaced, split or lost, and closing, crashing or   *)
(* restarting the program does not change them.                            *)
(***************************************************************************)
CONSTANTS
  Addresses,            \* item ids: the page and the slot of the head of an item
  Items                 \* payloads

VARIABLES
  store,                \* the item at each address in use
  call                  \* the call that has not taken effect yet

NoCall == [op |-> "none"]

Init ==
  /\ store = [a \in {} |-> a]
  /\ call = NoCall

CallPut ==
  /\ call = NoCall
  /\ call' \in [op : {"put"}, item : Items]
  /\ UNCHANGED store

CallDelete ==
  /\ call = NoCall
  /\ call' \in [op : {"delete"}, at : DOMAIN store]
  /\ UNCHANGED store

With(s, a, x) == [b \in DOMAIN s \cup {a} |-> IF b = a THEN x ELSE s[b]]

Put ==
  /\ call.op = "put"
  /\ store' \in {With(s, a, call.item) : s \in {store}, a \in Addresses \ DOMAIN store}
  /\ call' = NoCall

Delete ==
  /\ call.op = "delete"
  /\ store' = [b \in DOMAIN store \ {call.at} |-> store[b]]
  /\ call' = NoCall

Die ==
  /\ call' = NoCall
  /\ UNCHANGED store

Next == CallPut \/ CallDelete \/ Put \/ Delete \/ Die

Spec == Init /\ [][Next]_<<store, call>>
================================================================================
