---------------------------- MODULE MCPeerRegistry ----------------------------
(* Instances of PeerRegistry for TLC.                                      *)
EXTENDS PeerRegistry, TLC

\* With a name or not, and location and token or neither; and the "geo-only
\* refresh" of http.go.
SomeBodies ==
    {[name |-> n, loc |-> b[1], city |-> None, token |-> b[2]] :
        n \in Names, b \in {<<None, None>>} \cup (Locations \X Tokens)}
    \cup [name : {{}}, loc : Locations, city : {None}, token : {None}]

Swap == Permutations(Calls) \cup Permutations(Peers)
=============================================================================
