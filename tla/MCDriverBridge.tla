---------------------------- MODULE MCDriverBridge ---------------------------
(* Instances of DriverBridge for TLC.                                      *)
EXTENDS DriverBridge, TLC

Swap == Permutations(Conns) \cup Permutations(Relays)
=============================================================================
