---------------------------- MODULE MCRollingLog ----------------------------
(* An instance of RollingLog for TLC: two threads of one process append,   *)
(* and the sweep runs in another.  A file with the small line takes one    *)
(* more.                                                                   *)
EXTENDS RollingLog, TLC

CONSTANTS l1, l2, l3, w1, w2, sweep

TwoProcesses == [t \in Threads |-> IF t = sweep THEN 2 ELSE 1]
OneSmall == [l \in Lines |-> IF l = l1 THEN 1 ELSE 2]
Symmetry == Permutations(Lines \ {l1}) \cup Permutations(Writers)
=============================================================================
