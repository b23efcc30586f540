---------------------------- MODULE MCOfflineInbox ---------------------------
(* Instances of OfflineInbox for TLC.                                      *)
EXTENDS OfflineInbox, TLC

Swap == Permutations(Conns) \cup Permutations(Senders)
=============================================================================
