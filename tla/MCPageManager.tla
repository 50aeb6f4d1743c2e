----------------------------- MODULE MCPageManager -----------------------------
(* Two payloads: one that leaves a page half empty, one that needs two pages.  *)
EXTENDS PageManager

CONSTANTS small, large, LargeSize

MCItems == {small, large}
MCSize  == [x \in MCItems |-> IF x = small THEN 5 ELSE LargeSize]
================================================================================
