---------------------------- MODULE MCTrackSession ----------------------------
(* Instances of TrackSession for TLC.                                      *)
EXTENDS TrackSession, TLC
Swap == Permutations(Calls) \cup Permutations(Peers)
=============================================================================
