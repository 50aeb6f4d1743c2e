--------------------------------- MODULE MCPage --------------------------------
(* A page with room for up to three items, and two payload contents.           *)
EXTENDS Page, TLC

CONSTANTS d1, d2

MCData  == {d1, d2}
DataSym == Permutations(MCData)
================================================================================
