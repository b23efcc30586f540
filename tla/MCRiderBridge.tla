---------------------------- MODULE MCRiderBridge ----------------------------
(* Instances of RiderBridge for TLC.                                       *)
EXTENDS RiderBridge, TLC

CONSTANTS p1, p2, x1, x2

Direct(p, q) == [from |-> p, type |-> "other", to |-> q]
Nearby(p) == [from |-> p, type |-> "nearby", to |-> None]
Ping(p) == [from |-> p, type |-> "ping", to |-> None]

\* The windows of x1 and x2 overlap in x2.
TwoCells == [x \in Cells |-> IF x = x1 THEN {x1, x2} ELSE {x2}]
OneCell == [x \in Cells |-> {x}]

Swap == Permutations(Conns)

TableInputs == {Nearby(p1), Direct(p2, p1)}
LiveInputs == {Nearby(p1), Ping(p1)}
=============================================================================
