--------------------------- MODULE MCCostSnapshot ---------------------------
(* Instances of CostSnapshot for TLC.                                      *)
EXTENDS CostSnapshot, TLC

CONSTANTS d, c, k1, k2
=============================================================================
