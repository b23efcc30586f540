------------------------------ MODULE Directory ------------------------------
(***************************************************************************)
(* What a bridge promises about its connections, whatever tables and       *)
(* goroutines it uses: a connection is served once, cut at most once and   *)
(* finished for good, and a name leads to a connection that announced it   *)
(* and is not finished.  A name is forgotten only on behalf of a           *)
(* connection that announced it, or at shutdown.  RiderBridge and          *)
(* DriverBridge implement this specification.                              *)
(***************************************************************************)
CONSTANTS Conns, Peers, None

VARIABLES
    phase,  \* of a connection: "new", "serving", "cut", "finished"
    name,   \* the name a connection announced, or None
    entry   \* the connection a name leads to, or None

vars == <<phase, name, entry>>

Phases == {"new", "serving", "cut", "finished"}

Init ==
    /\ phase = [c \in Conns |-> "new"]
    /\ name = [c \in Conns |-> None]
    /\ entry = [p \in Peers |-> None]

Live(c) == phase[c] \in {"serving", "cut"}

Forgotten(c) == [p \in Peers |-> IF p = name[c] THEN None ELSE entry[p]]

Serve(c) ==
    /\ phase[c] = "new"
    /\ phase' = [phase EXCEPT ![c] = "serving"]
    /\ UNCHANGED <<name, entry>>

Announce(c, p) ==
    /\ Live(c)
    /\ name[c] = None
    /\ name' = [name EXCEPT ![c] = p]
    /\ UNCHANGED <<phase, entry>>

Bind(c) ==
    /\ Live(c)
    /\ name[c] # None
    /\ entry' = [entry EXCEPT ![name[c]] = c]
    /\ UNCHANGED <<phase, name>>

\* A connection found unusable, perhaps long after it was cut, is cut, and the
\* name it announced may be forgotten.
Cut(c) ==
    /\ phase[c] # "new"
    /\ phase' = IF phase[c] = "serving" THEN [phase EXCEPT ![c] = "cut"] ELSE phase
    /\ entry' \in {entry, Forgotten(c)}
    /\ UNCHANGED name

\* Several connections found unusable at once, their names kept.
CutMany ==
    /\ \E S \in SUBSET Conns :
        /\ \A c \in S : phase[c] # "new"
        /\ phase' = [c \in Conns |->
                        IF c \in S /\ phase[c] = "serving" THEN "cut" ELSE phase[c]]
    /\ UNCHANGED <<name, entry>>

\* The handler ends.
Finish(c) ==
    /\ phase[c] # "finished"
    /\ phase' = [phase EXCEPT ![c] = "finished"]
    /\ entry' = Forgotten(c)
    /\ UNCHANGED name

Shutdown ==
    /\ phase' = [c \in Conns |-> IF phase[c] = "serving" THEN "cut" ELSE phase[c]]
    /\ entry' = [p \in Peers |-> None]
    /\ UNCHANGED name

Next ==
    \/ \E c \in Conns : Serve(c) \/ Bind(c) \/ Cut(c) \/ Finish(c)
    \/ \E c \in Conns, p \in Peers : Announce(c, p)
    \/ CutMany \/ Shutdown

Spec == Init /\ [][Next]_vars

\* A connection that was cut is finished.
FairSpec == Spec /\ \A c \in Conns : WF_vars(phase[c] = "cut" /\ Finish(c))

------------------------------------------------------------------------------
TypeOK ==
    /\ phase \in [Conns -> Phases]
    /\ name \in [Conns -> Peers \cup {None}]
    /\ entry \in [Peers -> Conns \cup {None}]

\* A name leads to a connection that announced it and is not finished.
EntryIsLive ==
    \A p \in Peers : entry[p] # None => name[entry[p]] = p /\ Live(entry[p])
=============================================================================
