----------------------------- MODULE MCItemIterator -----------------------------
(* The payloads of MCPageManager, without bytes that read as a page id.         *)
EXTENDS ItemIterator

CONSTANTS small, large, LargeSize

MCItems   == {small, large}
MCSize    == [x \in MCItems |-> IF x = small THEN 5 ELSE LargeSize]
MCUnlucky == {}
================================================================================
