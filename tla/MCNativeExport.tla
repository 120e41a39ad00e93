--------------------------- MODULE MCNativeExport ---------------------------
(* Instances of NativeExport for TLC: a body of one session, a body of     *)
(* two, and one that names its session's project itself.                   *)
EXTENDS NativeExport, TLC

CONSTANTS b1, b2, b3, s1, s2, p, q

SessionsOfBodies == [b \in Bodies |-> CASE b = b1 -> {s1} [] b = b2 -> {s1, s2} [] OTHER -> {s2}]
NativeOfBodies   == [b \in Bodies |-> [s \in Sessions |-> IF b = b3 /\ s = s2 THEN p ELSE None]]
SizeOfBodies     == [b \in Bodies |-> IF b = b2 THEN 2 ELSE 1]

Filtered == [filtered |-> TRUE, allowed |-> {p}, enriched |-> FALSE, admits |-> Bodies]
Open     == [filtered |-> FALSE, allowed |-> {}, enriched |-> TRUE, admits |-> Bodies \ {b3}]

BothPolicies == {Filtered, Open}
=============================================================================
