----------------------------- MODULE MCStreamPool -----------------------------
(* Instances of StreamPool for TLC.                                        *)
EXTENDS StreamPool, TLC
=============================================================================
