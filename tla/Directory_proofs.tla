--------------------------- MODULE Directory_proofs ---------------------------
(***************************************************************************)
(* Proofs about Directory: what every implementation of it inherits.       *)
(***************************************************************************)
EXTENDS Directory, TLAPS

LEMMA InitInvariant == Init => TypeOK /\ EntryIsLive
  BY DEF Init, TypeOK, EntryIsLive, Phases

LEMMA NextInvariant ==
    ASSUME None \notin Conns \cup Peers
    PROVE  TypeOK /\ EntryIsLive /\ [Next]_vars => TypeOK' /\ EntryIsLive'
<1> SUFFICES ASSUME TypeOK, EntryIsLive, [Next]_vars
             PROVE  TypeOK' /\ EntryIsLive'
  OBVIOUS
<1> USE DEF TypeOK, EntryIsLive, Phases, Live
<1>1. ASSUME NEW c \in Conns, Serve(c)
      PROVE  TypeOK' /\ EntryIsLive'
  BY <1>1 DEF Serve
<1>2. ASSUME NEW c \in Conns, NEW p \in Peers, Announce(c, p)
      PROVE  TypeOK' /\ EntryIsLive'
  BY <1>2 DEF Announce
<1>3. ASSUME NEW c \in Conns, Bind(c)
      PROVE  TypeOK' /\ EntryIsLive'
  BY <1>3 DEF Bind
<1>4. ASSUME NEW c \in Conns, Cut(c)
      PROVE  TypeOK' /\ EntryIsLive'
  <2>1. TypeOK'
    BY <1>4 DEF Cut, Forgotten
  <2>2. /\ \A d \in Conns : Live(d) => Live(d)'
        /\ \A p \in Peers : entry'[p] \in {entry[p], None}
    BY <1>4 DEF Cut, Forgotten
  <2> QED
    BY <1>4, <2>1, <2>2 DEF Cut
<1>5. CASE CutMany
  <2>1. PICK S \in SUBSET Conns :
          phase' = [c \in Conns |->
                       IF c \in S /\ phase[c] = "serving" THEN "cut" ELSE phase[c]]
    BY <1>5 DEF CutMany
  <2> QED
    BY <1>5, <2>1 DEF CutMany
<1>6. ASSUME NEW c \in Conns, Finish(c)
      PROVE  TypeOK' /\ EntryIsLive'
  <2>1. TypeOK'
    BY <1>6 DEF Finish, Forgotten
  <2>2. \A p \in Peers : entry'[p] # None => entry'[p] = entry[p] /\ entry[p] # c
    BY <1>6 DEF Finish, Forgotten
  <2> QED
    BY <1>6, <2>1, <2>2 DEF Finish
<1>7. CASE Shutdown
  BY <1>7 DEF Shutdown
<1>8. CASE UNCHANGED vars
  BY <1>8 DEF vars
<1> QED
  BY <1>1, <1>2, <1>3, <1>4, <1>5, <1>6, <1>7, <1>8 DEF Next

\* In every implementation of Directory a name leads to a connection that
\* announced that name and whose handler has not ended: a message sent to the
\* entry of a peer reaches nobody else.
THEOREM EntriesAreLive ==
    ASSUME None \notin Conns \cup Peers
    PROVE  Spec => []EntryIsLive
<1>1. TypeOK /\ EntryIsLive /\ [Next]_vars => TypeOK' /\ EntryIsLive'
  BY NextInvariant
<1> QED
  BY <1>1, InitInvariant, PTL DEF Spec
=============================================================================
