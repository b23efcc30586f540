-------------------------- MODULE RiderBridge_proofs --------------------------
(***************************************************************************)
(* Proofs about RiderBridge, for every value of its constants: its type    *)
(* invariant, its safety invariants and the refinement of Directory.       *)
(*                                                                         *)
(* The inductive invariant is built in layers.  Each layer is proved       *)
(* inductive relative to the ones before it:                               *)
(*   TypeOK, Unnamed, TablesMatch, PassesMatch, NoOrphan,                  *)
(*   LostOnlyByHandover and WindowComplete.                                *)
(***************************************************************************)
EXTENDS RiderBridge, TLAPS

USE DEF handlerVars, socketVars, tableVars, topicVars, passVars, vars

------------------------------------------------------------------------------
(* Type correctness *)

\* What the program counters say of the locals beside them: an admitted
\* connection has a city; it has a name while it registers it, and none before
\* it is admitted; it has read the cell its geo pass is for; a read loop is in a pass only where it forwards a message;
\* and a pass has one connection at a time to get rid of.
Control ==
    /\ \A c \in Conns :
        /\ stage[c] \in Inserted => city[c] \in Cities
        /\ stage[c] = "naming" => peerId[c] # None
        /\ stage[c] \in {"absent", "upgrading"} => peerId[c] = None
        /\ stage[c] = "geo" => place[c] # None
        /\ pass[c] # "none" => stage[c] \in {"geo", "city", "all"}
    /\ \A t \in Threads : failed[t] = None \/ removed[t] = None

LEMMA InitTypeOK == Init => TypeOK /\ Control
  BY NoneAssumption, BoundAssumption
  DEF Init, TypeOK, Control, Stages, Threads, Inserted, Message,
      NoMessage, MaybeConn

\* A pass serves connections and nothing else.
LEMMA TargetsAreConns ==
    ASSUME riders \subseteq Conns
    PROVE  \A to, ct, x : /\ CityTargets(ct, to) \in SUBSET Conns
                         /\ AllTargets(to) \in SUBSET Conns
                         /\ GeoTargets(x) \in SUBSET Conns
  BY DEF CityTargets, AllTargets, GeoTargets

\* What MoveWindow does to the entry of one peer in one cell.
LEMMA MoveWindowCells ==
    ASSUME TypeOK, NEW p \in Peers, NEW rc \in Conns, NEW x \in Cells
    PROVE  /\ MoveWindow(p, rc, x) \in [Cells -> [Peers -> MaybeConn]]
           /\ \A y \in Cells, q \in Peers : MoveWindow(p, rc, x)[y][q] =
                 IF q # p THEN cellRiders[y][q]
                 ELSE IF y \in Window[x] THEN rc
                 ELSE IF y \in GeoCells(rc) THEN None
                 ELSE cellRiders[y][q]
<1> DEFINE moved(y) == [cellRiders[y] EXCEPT ![p] =
               IF y \in Window[x] THEN rc ELSE IF y \in GeoCells(rc) THEN None ELSE @]
<1>1. ASSUME NEW y \in Cells
      PROVE  /\ moved(y) \in [Peers -> MaybeConn]
             /\ \A q \in Peers : moved(y)[q] =
                   IF q # p THEN cellRiders[y][q]
                   ELSE IF y \in Window[x] THEN rc
                   ELSE IF y \in GeoCells(rc) THEN None
                   ELSE cellRiders[y][q]
  <2>1. cellRiders[y] \in [Peers -> Conns \cup {None}]
    BY DEF TypeOK, MaybeConn
  <2> QED
    BY <2>1 DEF MaybeConn
<1>2. MoveWindow(p, rc, x) = [y \in Cells |-> moved(y)]
  BY DEF MoveWindow
<1> HIDE DEF moved
<1> QED
  BY <1>1, <1>2

LEMMA NextTypeOK == TypeOK /\ Control /\ [Next]_vars => TypeOK'
<1> SUFFICES ASSUME TypeOK, Control, [Next]_vars
             PROVE  TypeOK'
  OBVIOUS
<1> USE DEF TypeOK, MaybeConn, Event
<1>1. ASSUME NEW c \in Conns, Handler(c)
      PROVE  TypeOK'
  <2> USE DEF Stages, Inserted
  <2>1. CASE CheckLimit(c)
    BY <2>1 DEF CheckLimit
  <2>2. CASE Admit(c)
    BY <2>2 DEF Admit
  <2>3. CASE UpgradeFails(c)
    BY <2>3, BoundAssumption DEF UpgradeFails
  <2>4. CASE JoinCity(c)
    <3>1. city[c] \in Cities
      BY <2>4 DEF JoinCity, Control
    <3>2. stage' \in [Conns -> Stages] /\ cityTopics' \subseteq Cities
          /\ hasTopic' \in [Conns -> BOOLEAN]
      BY <2>4, <3>1 DEF JoinCity
    <3>3. events' \in 0 .. MaxEvents
      BY <2>4, BoundAssumption DEF JoinCity
    <3> QED
      BY <2>4, <3>2, <3>3 DEF JoinCity
  <2>5. CASE Read(c)
    <3>1. PICK m \in Inputs : Read(c)!4!(m)
      BY <2>5 DEF Read
    <3>2. m \in Message /\ m.from \in Peers \cup {None}
      BY BoundAssumption DEF Message
    <3>3. msg' \in [Conns -> Message] /\ peerId' \in [Conns -> Peers \cup {None}]
          /\ stage' \in [Conns -> Stages]
      BY <3>1, <3>2, ZenonT(60)
    <3> QED
      BY <2>5, <3>3, BoundAssumption DEF Read
  <2>6. CASE Register(c)
    <3>1. stage' \in [Conns -> Stages] /\ peerByID' \in [Peers -> MaybeConn]
      BY <2>6 DEF Register
    <3>2. inbox' \in [Conns -> 0 .. InboxCap]
      <4>1. PICK n \in 0 .. InboxCap : inbox' = [inbox EXCEPT ![c] = n]
        BY <2>6 DEF Register
      <4> QED
        BY <4>1
    <3>3. /\ UNCHANGED <<city, peerId, hasTopic, msg, place, centre, socketVars>>
          /\ UNCHANGED <<riders, cellRiders, topicVars, passVars, geoCall, run, events>>
      BY <2>6 DEF Register
    <3> QED
      BY <3>1, <3>2, <3>3
  <2>7. CASE Heartbeat(c)
    BY <2>7, BoundAssumption DEF Heartbeat, Deliverable, Message, NoMessage
  <2>8. CASE Publish(c)
    BY <2>8, ZenonT(60) DEF Publish
  <2>9. CASE PublishRace(c)
    BY <2>9 DEF PublishRace, Message, NoMessage
  <2>10. CASE BeginOwn(c)
    <3>1. PICK kind \in {"geo", "city", "all"}, S \in SUBSET Conns : Begin(c, kind, S)
      BY <2>10, TargetsAreConns DEF BeginOwn
    <3>2. UNCHANGED events
      BY <2>10 DEF BeginOwn
    <3> QED
      BY <3>1, <3>2 DEF Begin, Threads
  <2>11. CASE DoneOwn(c)
    BY <2>11 DEF DoneOwn, Done, Threads, Message, NoMessage
  <2>12. CASE ReadFails(c)
    BY <2>12 DEF ReadFails
  <2>13. CASE Cleanup(c)
    BY <2>13 DEF Cleanup, Unlink, PeerForgotten, CellsForgotten
  <2>14. CASE Leave(c)
    BY <2>14 DEF Leave
  <2> QED
    BY <1>1, <2>1, <2>2, <2>3, <2>4, <2>5, <2>6, <2>7, <2>8, <2>9, <2>10,
       <2>11, <2>12, <2>13, <2>14 DEF Handler, Serve
<1>2. ASSUME NEW c \in Conns, Connection(c)
      PROVE  TypeOK'
  <2>1. CASE PumpWrite(c)
    BY <2>1, BoundAssumption DEF PumpWrite
  <2>2. CASE PumpExit(c)
    BY <2>2, BoundAssumption DEF PumpExit
  <2>3. CASE FlushInbox(c)
    <3>1. inbox' \in [Conns -> 0 .. InboxCap]
      BY <2>3, BoundAssumption DEF FlushInbox
    <3>2. sent' \in [Conns -> 0 .. SendBuffer]
      BY <2>3, BoundAssumption DEF FlushInbox, Deliverable
    <3> QED
      BY <2>3, <3>1, <3>2 DEF FlushInbox
  <2>4. CASE ClientGone(c)
    BY <2>4, BoundAssumption DEF ClientGone
  <2> QED
    BY <1>2, <2>1, <2>2, <2>3, <2>4 DEF Connection
<1>3. ASSUME NEW t \in Threads, Forwarding(t)
      PROVE  TypeOK'
  <2>1. CASE Deliver(t)
    <3>1. PICK c \in todo[t] : Deliver(t)!3!(c)
      BY <2>1 DEF Deliver
    <3>2. sent' \in [Conns -> 0 .. SendBuffer]
      BY <3>1, BoundAssumption DEF Deliverable
    <3>3. todo' \in [Threads -> SUBSET Conns] /\ failed' \in [Threads -> MaybeConn]
      BY <3>1
    <3> QED
      BY <2>1, <3>2, <3>3 DEF Deliver
  <2>2. CASE Evict(t)
    BY <2>2 DEF Evict, Unlink, PeerForgotten, CellsForgotten
  <2>3. CASE CloseEvicted(t)
    BY <2>3 DEF CloseEvicted
  <2> QED
    BY <1>3, <2>1, <2>2, <2>3 DEF Forwarding
<1>4. ASSUME NEW r \in Relays, BeginRelay(r) \/ DoneRelay(r)
      PROVE  TypeOK'
  <2>1. CASE BeginRelay(r)
    <3>1. PICK kind \in {"geo", "city", "all"}, S \in SUBSET Conns : Begin(r, kind, S)
      BY <2>1, TargetsAreConns DEF BeginRelay
    <3>2. events' \in 0 .. MaxEvents
      BY <2>1, BoundAssumption DEF BeginRelay
    <3> QED
      BY <3>1, <3>2 DEF Begin, Threads
  <2>2. CASE DoneRelay(r)
    BY <2>2 DEF DoneRelay, Done, Threads
  <2> QED
    BY <1>4, <2>1, <2>2
<1>5. CASE Api
  <2>1. ASSUME NEW p \in Peers, NEW x \in Cells, SetLatLng(p, x)
        PROVE  TypeOK'
    BY <2>1, BoundAssumption, WindowAssumption DEF SetLatLng
  <2>2. CASE JoinGeoCell
    BY <2>2, BoundAssumption, SMTT(30) DEF JoinGeoCell
  <2>3. CASE UpdateRiderGeohash
    <3> DEFINE rc == peerByID[geoCall.peer]
    <3>1. CASE rc = None
      BY <2>3, <3>1 DEF UpdateRiderGeohash
    <3>2. CASE rc # None
      <4>1. rc \in Conns /\ geoCall.peer \in Peers /\ geoCall.cell \in Cells
        BY <2>3, <3>2 DEF UpdateRiderGeohash
      <4>2. /\ centre' = [centre EXCEPT ![rc] = geoCall.cell]
            /\ cellRiders' = MoveWindow(geoCall.peer, rc, geoCall.cell)
        BY <2>3, <3>2 DEF UpdateRiderGeohash
      <4>3. centre' \in [Conns -> Cells \cup {None}]
        BY <4>1, <4>2
      <4>4. cellRiders' \in [Cells -> [Peers -> MaybeConn]]
        BY <4>1, <4>2, MoveWindowCells
      <4> QED
        BY <2>3, <4>3, <4>4 DEF UpdateRiderGeohash
    <3> QED
      BY <3>1, <3>2
  <2>4. ASSUME NEW x \in Cells, PublishToGeoCell(x)
        PROVE  TypeOK'
    BY <2>4, BoundAssumption DEF PublishToGeoCell
  <2> QED
    BY <1>5, <2>1, <2>2, <2>3, <2>4 DEF Api
<1>6. CASE Stop
  BY <1>6, BoundAssumption DEF Stop
<1>7. CASE Reset
  BY <1>7 DEF Reset
<1>8. CASE UNCHANGED vars
  BY <1>8
<1> QED
  BY <1>1, <1>2, <1>3, <1>4, <1>5, <1>6, <1>7, <1>8 DEF Next

LEMMA NextControl == TypeOK /\ Control /\ [Next]_vars => Control'
<1> SUFFICES ASSUME TypeOK, Control, [Next]_vars
             PROVE  Control'
  OBVIOUS
<1> USE DEF TypeOK, MaybeConn, Control, Threads
<1>1. ASSUME NEW c \in Conns, Handler(c)
      PROVE  Control'
  <2> USE DEF Inserted
  <2>1. CASE CheckLimit(c) \/ Admit(c) \/ UpgradeFails(c)
    <3>1. CASE CheckLimit(c)
      BY <3>1 DEF CheckLimit
    <3>2. CASE Admit(c)
      BY <3>2 DEF Admit
    <3>3. CASE UpgradeFails(c)
      BY <3>3 DEF UpgradeFails
    <3> QED
      BY <2>1, <3>1, <3>2, <3>3
  <2>2. CASE JoinCity(c)
    BY <2>2 DEF JoinCity
  <2>3. CASE Read(c)
    <3>1. /\ stage[c] = "reading" /\ stage'[c] \in {"naming", "routing"}
          /\ stage'[c] = "naming" => peerId'[c] # None
          /\ \A d \in Conns \ {c} : stage'[d] = stage[d] /\ peerId'[d] = peerId[d]
      BY <2>3 DEF Read
    <3>2. UNCHANGED <<city, place, passVars>>
      BY <2>3 DEF Read
    <3> QED
      BY <3>1, <3>2
  <2>4. CASE Register(c) \/ Heartbeat(c) \/ ReadFails(c) \/ Cleanup(c) \/ Leave(c)
    <3>1. CASE Register(c)
      BY <3>1 DEF Register
    <3>2. CASE Heartbeat(c)
      BY <3>2 DEF Heartbeat
    <3>3. CASE ReadFails(c)
      BY <3>3 DEF ReadFails
    <3>4. CASE Cleanup(c)
      BY <3>4 DEF Cleanup
    <3>5. CASE Leave(c)
      BY <3>5 DEF Leave
    <3> QED
      BY <2>4, <3>1, <3>2, <3>3, <3>4, <3>5
  <2>5. CASE Publish(c) \/ PublishRace(c)
    <3>1. CASE Publish(c)
      BY <3>1 DEF Publish
    <3>2. CASE PublishRace(c)
      BY <3>2 DEF PublishRace
    <3> QED
      BY <2>5, <3>1, <3>2
  <2>6. CASE BeginOwn(c)
    BY <2>6 DEF BeginOwn, Begin, Idle
  <2>7. CASE DoneOwn(c)
    BY <2>7 DEF DoneOwn, Done, Idle
  <2> QED
    BY <1>1, <2>1, <2>2, <2>3, <2>4, <2>5, <2>6, <2>7 DEF Handler, Serve
<1>2. ASSUME NEW t \in Threads, Forwarding(t)
      PROVE  Control'
  <2>1. CASE Deliver(t)
    BY <2>1 DEF Deliver
  <2>2. CASE Evict(t)
    BY <2>2 DEF Evict
  <2>3. CASE CloseEvicted(t)
    BY <2>3 DEF CloseEvicted
  <2> QED
    BY <1>2, <2>1, <2>2, <2>3 DEF Forwarding
<1>3. ASSUME NEW r \in Relays, BeginRelay(r) \/ DoneRelay(r)
      PROVE  Control'
  <2>1. UNCHANGED <<stage, city, peerId, place, failed, removed>>
    BY <1>3 DEF BeginRelay, Begin, DoneRelay, Done
  <2>2. \A c \in Conns : pass'[c] = pass[c]
    BY <1>3, NoneAssumption DEF BeginRelay, Begin, DoneRelay, Done
  <2> QED
    BY <2>1, <2>2
<1>4. CASE UNCHANGED <<stage, city, peerId, place, pass, failed, removed>>
  BY <1>4
<1> QED
  BY <1>1, <1>2, <1>3, <1>4
  DEF Next, Connection, PumpWrite, PumpExit, FlushInbox, ClientGone, Api,
      SetLatLng, JoinGeoCell, UpdateRiderGeohash, PublishToGeoCell, Stop, Reset

LEMMA TypeAndControl == Spec => [](TypeOK /\ Control)
<1>1. Init => TypeOK /\ Control
  BY InitTypeOK
<1>2. TypeOK /\ Control /\ [Next]_vars => TypeOK' /\ Control'
  BY NextTypeOK, NextControl
<1> QED
  BY <1>1, <1>2, PTL DEF Spec

LEMMA ControlCorrect == Spec => []Control
  BY TypeAndControl, PTL

\* Every variable keeps the type its declaration in bridge.go gives it, and no
\* send buffer ever holds more than the capacity of its channel.
THEOREM TypeCorrect == Spec => []TypeOK
  BY TypeAndControl, PTL

------------------------------------------------------------------------------
(* The three tables *)

\* A step that enters nothing in the tables and leaves the connections they
\* hold where they are keeps TablesMatch.
LEMMA TablesShrink ==
    ASSUME TypeOK, TypeOK', TablesMatch,
           riders' \subseteq riders,
           \A p \in Peers : peerByID'[p] \in {peerByID[p], None},
           \A x \in Cells, p \in Peers : cellRiders'[x][p] \in {cellRiders[x][p], None},
           UNCHANGED <<peerId, centre>>,
           \A c \in Conns : /\ stage[c] \in Inserted => stage'[c] \in Inserted
                            /\ stage[c] \in Reachable => stage'[c] \in Reachable
    PROVE  TablesMatch'
<1> USE DEF TypeOK, MaybeConn, TablesMatch
<1>1. \A c \in riders' : stage'[c] \in Inserted
  OBVIOUS
<1>2. \A p \in Peers : peerByID'[p] # None =>
        /\ peerId'[peerByID'[p]] = p
        /\ stage'[peerByID'[p]] \in Reachable
  OBVIOUS
<1>3. ASSUME NEW x \in Cells, NEW p \in Peers, cellRiders'[x][p] # None
      PROVE  (/\ peerId[cellRiders[x][p]] = p
              /\ stage[cellRiders[x][p]] \in Reachable
              /\ x \in GeoCells(cellRiders[x][p]))'
  <2>1. cellRiders'[x][p] = cellRiders[x][p] /\ cellRiders[x][p] \in Conns
    BY <1>3
  <2> QED
    BY <1>3, <2>1 DEF GeoCells
<1> QED
  BY <1>1, <1>2, <1>3

LEMMA InitTablesMatch == Init => TablesMatch
<1> SUFFICES ASSUME Init
             PROVE  TablesMatch
  OBVIOUS
<1>1. /\ riders = {}
      /\ \A p \in Peers : peerByID[p] = None
      /\ \A x \in Cells, p \in Peers : cellRiders[x][p] = None
  BY DEF Init
<1> QED
  BY <1>1 DEF TablesMatch

\* What UpdateRiderGeohash does when the peer p has a connection rc.
Moved(p, x, rc) ==
    /\ peerId[rc] = p /\ stage[rc] \in Reachable
    /\ \A y \in Cells, q \in Peers : cellRiders'[y][q] =
         IF q # p THEN cellRiders[y][q]
         ELSE IF y \in Window[x] THEN rc
         ELSE IF y \in GeoCells(rc) THEN None
         ELSE cellRiders[y][q]
    /\ GeoCells(rc)' = Window[x]
    /\ \A d \in Conns \ {rc} : GeoCells(d)' = GeoCells(d) /\ centre'[d] = centre[d]

LEMMA GeohashMoves ==
    ASSUME TypeOK, TablesMatch, UpdateRiderGeohash, peerByID[geoCall.peer] # None
    PROVE  \E p \in Peers, x \in Cells, rc \in Conns : Moved(p, x, rc)
<1>1. PICK p \in Peers, x \in Cells, rc \in Conns :
        /\ peerByID[p] = rc
        /\ centre' = [centre EXCEPT ![rc] = x]
        /\ cellRiders' = MoveWindow(p, rc, x)
  <2>1. /\ geoCall.peer \in Peers /\ geoCall.cell \in Cells
        /\ peerByID[geoCall.peer] \in Conns
    BY DEF UpdateRiderGeohash, TypeOK, MaybeConn
  <2> QED
    BY <2>1 DEF UpdateRiderGeohash
<1>2. peerId[rc] = p /\ stage[rc] \in Reachable
  BY <1>1, NoneAssumption DEF TablesMatch
<1>3. \A y \in Cells, q \in Peers : MoveWindow(p, rc, x)[y][q] =
        IF q # p THEN cellRiders[y][q]
        ELSE IF y \in Window[x] THEN rc
        ELSE IF y \in GeoCells(rc) THEN None
        ELSE cellRiders[y][q]
  BY MoveWindowCells
<1>4. /\ GeoCells(rc)' = Window[x]
      /\ \A d \in Conns \ {rc} : GeoCells(d)' = GeoCells(d) /\ centre'[d] = centre[d]
  BY <1>1, NoneAssumption DEF GeoCells, TypeOK
<1> QED
  BY <1>1, <1>2, <1>3, <1>4 DEF Moved

LEMMA NextTablesMatch ==
    TypeOK /\ TypeOK' /\ Control /\ TablesMatch /\ [Next]_vars => TablesMatch'
<1> SUFFICES ASSUME TypeOK, TypeOK', Control, TablesMatch, [Next]_vars
             PROVE  TablesMatch'
  OBVIOUS
<1>1. ASSUME NEW c \in Conns, Handler(c)
      PROVE  TablesMatch'
  <2>1. CASE Admit(c)
    BY <2>1 DEF Admit, TypeOK, TablesMatch, MaybeConn, Inserted, Reachable, GeoCells
  <2>2. CASE Read(c)
    <3>1. /\ stage[c] = "reading"
          /\ \/ peerId[c] = None
             \/ stage'[c] = "routing" /\ peerId'[c] = peerId[c]
          /\ \A d \in Conns \ {c} : stage'[d] = stage[d] /\ peerId'[d] = peerId[d]
          /\ stage'[c] \in {"naming", "routing"}
      BY <2>2 DEF Read, TypeOK
    <3>2. UNCHANGED <<riders, peerByID, cellRiders, centre>>
      BY <2>2 DEF Read
    <3>3. \A d \in Conns : GeoCells(d)' = GeoCells(d)
      BY <3>2 DEF GeoCells
    <3>4. \A d \in Conns : /\ stage[d] \in Inserted => stage'[d] \in Inserted
                           /\ stage[d] \in Reachable /\ peerId[d] # None =>
                                stage'[d] \in Reachable /\ peerId'[d] = peerId[d]
      BY <3>1 DEF Inserted, Reachable
    <3>5. None \notin Peers
      BY NoneAssumption
    <3>6. ASSUME NEW x \in Cells, NEW p \in Peers, cellRiders'[x][p] # None
          PROVE  (/\ peerId[cellRiders[x][p]] = p
                  /\ stage[cellRiders[x][p]] \in Reachable
                  /\ x \in GeoCells(cellRiders[x][p]))'
      <4>1. PICK d \in Conns : d = cellRiders[x][p]
        BY <3>2, <3>6 DEF TypeOK, MaybeConn
      <4>2. peerId[d] = p /\ stage[d] \in Reachable /\ x \in GeoCells(d)
        BY <3>2, <3>6, <4>1 DEF TablesMatch
      <4> QED
        BY <3>2, <3>3, <3>4, <3>5, <4>1, <4>2 DEF GeoCells
    <3>7. \A d \in riders' : stage'[d] \in Inserted
      BY <3>2, <3>4 DEF TablesMatch, TypeOK
    <3>8. \A p \in Peers : peerByID'[p] # None =>
            peerId'[peerByID'[p]] = p /\ stage'[peerByID'[p]] \in Reachable
      BY <3>2, <3>4, <3>5 DEF TablesMatch, TypeOK, MaybeConn
    <3> QED
      BY <3>6, <3>7, <3>8 DEF TablesMatch
  <2>3. CASE Register(c)
    <3>1. peerId[c] \in Peers
      BY <2>3 DEF Register, Control, TypeOK
    <3> QED
      BY <2>3, <3>1
      DEF Register, TypeOK, TablesMatch, MaybeConn, Inserted, Reachable, GeoCells
  <2>4. CASE Cleanup(c)
    <3>1. UNCHANGED <<peerId, centre>> /\ riders' = riders \ {c}
          /\ peerByID' = PeerForgotten(c) /\ cellRiders' = CellsForgotten(c)
          /\ \A d \in Conns \ {c} : stage'[d] = stage[d]
      BY <2>4 DEF Cleanup, Unlink, TypeOK
    <3>2. \A p \in Peers : peerByID'[p] # None =>
            peerByID'[p] = peerByID[p] /\ peerByID[p] # c
      BY <3>1 DEF PeerForgotten, TablesMatch, TypeOK
    <3>3. \A x \in Cells, p \in Peers : cellRiders'[x][p] # None =>
            cellRiders'[x][p] = cellRiders[x][p] /\ cellRiders[x][p] # c
      BY <3>1 DEF CellsForgotten, TablesMatch, TypeOK
    <3> QED
      BY <3>1, <3>2, <3>3 DEF TypeOK, TablesMatch, MaybeConn, GeoCells
  <2>5. CASE CheckLimit(c) \/ UpgradeFails(c) \/ JoinCity(c) \/ Heartbeat(c)
             \/ Publish(c) \/ PublishRace(c) \/ ReadFails(c) \/ Leave(c)
    <3>1. UNCHANGED <<riders, peerByID, cellRiders, peerId, centre>>
      BY <2>5 DEF CheckLimit, UpgradeFails, JoinCity, Heartbeat, Publish,
                  PublishRace, ReadFails, Leave
    <3>2. \A d \in Conns : /\ stage[d] \in Inserted => stage'[d] \in Inserted
                           /\ stage[d] \in Reachable => stage'[d] \in Reachable
      BY <2>5 DEF CheckLimit, UpgradeFails, JoinCity, Heartbeat, Publish,
                  PublishRace, ReadFails, Leave, TypeOK, Inserted, Reachable
    <3> QED
      BY <3>1, <3>2, TablesShrink
  <2>6. CASE BeginOwn(c) \/ DoneOwn(c)
    <3>1. UNCHANGED <<riders, peerByID, cellRiders, peerId, centre>>
      BY <2>6 DEF BeginOwn, Begin, DoneOwn, Done
    <3>2. \A d \in Conns : /\ stage[d] \in Inserted => stage'[d] \in Inserted
                           /\ stage[d] \in Reachable => stage'[d] \in Reachable
      BY <2>6 DEF BeginOwn, Begin, DoneOwn, Done, Idle, Control, TypeOK, Inserted,
                  Reachable
    <3> QED
      BY <3>1, <3>2, TablesShrink
  <2> QED
    BY <1>1, <2>1, <2>2, <2>3, <2>4, <2>5, <2>6 DEF Handler, Serve
<1>2. ASSUME NEW t \in Threads, Evict(t)
      PROVE  TablesMatch'
  <2>1. /\ UNCHANGED <<peerId, centre, stage>>
        /\ riders' = riders \ {failed[t]}
        /\ peerByID' = PeerForgotten(failed[t])
        /\ cellRiders' \in {cellRiders, CellsForgotten(failed[t])}
    BY <1>2 DEF Evict, Unlink
  <2>2. \A p \in Peers : peerByID'[p] \in {peerByID[p], None}
    BY <2>1 DEF PeerForgotten
  <2>3. \A x \in Cells, p \in Peers : cellRiders'[x][p] \in {cellRiders[x][p], None}
    BY <2>1 DEF CellsForgotten
  <2> QED
    BY <2>1, <2>2, <2>3, TablesShrink
<1>3. CASE UpdateRiderGeohash
  <2>1. CASE peerByID[geoCall.peer] = None
    BY <1>3, <2>1, TablesShrink DEF UpdateRiderGeohash
  <2>2. CASE peerByID[geoCall.peer] # None
    <3>1. PICK p \in Peers, x \in Cells, rc \in Conns : Moved(p, x, rc)
      BY <1>3, <2>2, GeohashMoves
    <3>2. UNCHANGED <<stage, peerId, riders, peerByID>>
      BY <1>3 DEF UpdateRiderGeohash
    <3>3. peerId[rc] = p /\ stage[rc] \in Reachable
      BY <3>1 DEF Moved
    <3>4. \A y \in Cells, q \in Peers : cellRiders'[y][q] =
            IF q # p THEN cellRiders[y][q]
            ELSE IF y \in Window[x] THEN rc
            ELSE IF y \in GeoCells(rc) THEN None
            ELSE cellRiders[y][q]
      BY <3>1 DEF Moved
    <3>5. /\ GeoCells(rc)' = Window[x]
          /\ \A d \in Conns \ {rc} : GeoCells(d)' = GeoCells(d)
      BY <3>1 DEF Moved
    <3>6. ASSUME NEW y \in Cells, NEW q \in Peers, cellRiders'[y][q] # None
          PROVE  (/\ peerId[cellRiders[y][q]] = q
                  /\ stage[cellRiders[y][q]] \in Reachable
                  /\ y \in GeoCells(cellRiders[y][q]))'
      <4>1. PICK d \in Conns : cellRiders'[y][q] = d
        BY <3>6 DEF TypeOK, MaybeConn
      <4>2. CASE d = rc /\ q = p /\ y \in Window[x]
        <5>1. y \in GeoCells(d)'
          BY <4>2, <3>5
        <5>2. peerId'[d] = q /\ stage'[d] \in Reachable
          BY <4>2, <3>2, <3>3
        <5> QED
          BY <4>1, <5>1, <5>2 DEF GeoCells
      <4>3. CASE d = cellRiders[y][q] /\ ~(q = p /\ y \in Window[x])
        <5>1. peerId[d] = q /\ stage[d] \in Reachable /\ y \in GeoCells(d)
          BY <3>6, <4>1, <4>3 DEF TablesMatch
        <5>2. d # rc
          BY <5>1, <4>1, <4>3, <3>3, <3>4, <3>6
        <5>3. y \in GeoCells(d)'
          BY <5>1, <5>2, <3>5
        <5> QED
          BY <5>1, <5>3, <4>1, <3>2 DEF GeoCells
      <4> QED
        BY <4>1, <4>2, <4>3, <3>4, <3>6
    <3>7. \A c \in riders' : stage'[c] \in Inserted
      BY <3>2 DEF TablesMatch
    <3>8. \A q \in Peers : peerByID'[q] # None =>
            peerId'[peerByID'[q]] = q /\ stage'[peerByID'[q]] \in Reachable
      BY <3>2 DEF TablesMatch
    <3> QED
      BY <3>6, <3>7, <3>8 DEF TablesMatch
  <2> QED
    BY <2>1, <2>2
<1>4. CASE Reset
  <2>1. /\ UNCHANGED <<peerId, centre, stage>> /\ riders' = {}
        /\ \A p \in Peers : peerByID'[p] = None
        /\ \A x \in Cells, p \in Peers : cellRiders'[x][p] = None
    BY <1>4 DEF Reset
  <2> QED
    BY <2>1, TablesShrink
<1>5. CASE UNCHANGED <<stage, peerId, centre, riders, peerByID, cellRiders>>
  BY <1>5, TablesShrink
<1> QED
  BY <1>1, <1>2, <1>3, <1>4, <1>5
  DEF Next, Connection, PumpWrite, PumpExit, FlushInbox, ClientGone, Forwarding,
      Deliver, CloseEvicted, BeginRelay, Begin, DoneRelay, Done, Api, SetLatLng,
      JoinGeoCell, PublishToGeoCell, Stop

\* riders, peerByID and cellRiders hold a connection only between its admission
\* and its cleanup, under its own name and in the cells of its own window.
THEOREM TablesCorrect == Spec => []TablesMatch
<1>1. Init => TablesMatch
  BY InitTablesMatch
<1>2. TypeOK /\ TypeOK' /\ Control /\ TablesMatch /\ [Next]_vars => TablesMatch'
  BY NextTablesMatch
<1> QED
  BY <1>1, <1>2, TypeCorrect, ControlCorrect, PTL DEF Spec

------------------------------------------------------------------------------
(* Orphans *)

\* A step that keeps the connections in riders, moves none into Inserted, opens
\* no channel and forgets no eviction in progress keeps NoOrphan.
LEMMA NoNewOrphan ==
    ASSUME NoOrphan,
           riders \subseteq riders',
           \A c \in Conns : stage'[c] \in Inserted /\ c \notin riders' =>
                                stage[c] \in Inserted,
           \A c \in Conns : closed[c] => closed'[c],
           \A t \in Threads, c \in Conns :
               removed[t] = c => removed'[t] = c \/ closed'[c]
    PROVE  NoOrphan'
  BY DEF NoOrphan

LEMMA NextNoOrphan ==
    TypeOK /\ Control /\ NoOrphan /\ [Next]_vars => NoOrphan'
<1> SUFFICES ASSUME TypeOK, Control, NoOrphan, [Next]_vars
             PROVE  NoOrphan'
  OBVIOUS
<1>1. ASSUME NEW c \in Conns, Handler(c)
      PROVE  NoOrphan'
  <2>1. CASE Admit(c)
    <3>1. /\ riders' = riders \cup {c} /\ UNCHANGED <<closed, removed>>
          /\ \A d \in Conns \ {c} : stage'[d] = stage[d]
      BY <2>1 DEF Admit, TypeOK
    <3> QED
      BY <3>1, NoNewOrphan
  <2>2. CASE Cleanup(c)
    <3>1. /\ riders' = riders \ {c} /\ UNCHANGED <<closed, removed>>
          /\ stage'[c] = "closing"
          /\ \A d \in Conns \ {c} : stage'[d] = stage[d]
      BY <2>2 DEF Cleanup, Unlink, TypeOK
    <3> QED
      BY <3>1 DEF NoOrphan, Inserted
  <2>3. CASE Leave(c)
    <3>1. /\ UNCHANGED <<riders, removed>> /\ stage'[c] = "gone"
          /\ \A d \in Conns \ {c} : stage'[d] = stage[d]
          /\ \A d \in Conns : closed[d] => closed'[d]
      BY <2>3 DEF Leave, TypeOK
    <3> QED
      BY <3>1, NoNewOrphan DEF Inserted
  <2>4. CASE CheckLimit(c) \/ UpgradeFails(c) \/ JoinCity(c) \/ Heartbeat(c) \/ Read(c)
             \/ Register(c) \/ Publish(c) \/ PublishRace(c) \/ ReadFails(c)
    <3>1. UNCHANGED <<riders, closed, removed>>
      BY <2>4 DEF CheckLimit, UpgradeFails, JoinCity, Heartbeat, Read, Register,
                  Publish, PublishRace, ReadFails
    <3>2. \A d \in Conns : stage'[d] \in Inserted => stage[d] \in Inserted
      BY <2>4 DEF CheckLimit, UpgradeFails, JoinCity, Heartbeat, Read, Register,
                  Publish, PublishRace, ReadFails, TypeOK, Inserted
    <3> QED
      BY <3>1, <3>2, NoNewOrphan
  <2>5. CASE BeginOwn(c) \/ DoneOwn(c)
    <3>1. UNCHANGED <<riders, closed, removed>>
      BY <2>5 DEF BeginOwn, Begin, DoneOwn, Done
    <3>2. \A d \in Conns : stage'[d] \in Inserted => stage[d] \in Inserted
      BY <2>5 DEF BeginOwn, Begin, DoneOwn, Done, Idle, Control, TypeOK, Inserted
    <3> QED
      BY <3>1, <3>2, NoNewOrphan
  <2> QED
    BY <1>1, <2>1, <2>2, <2>3, <2>4, <2>5 DEF Handler, Serve
<1>2. ASSUME NEW t \in Threads, Forwarding(t)
      PROVE  NoOrphan'
  <2>1. CASE Deliver(t)
    BY <2>1, NoNewOrphan DEF Deliver
  <2>2. CASE Evict(t)
    <3>1. /\ removed' = [removed EXCEPT ![t] = failed[t]] /\ removed[t] = None
          /\ riders' = riders \ {failed[t]} /\ UNCHANGED <<stage, closed>>
      BY <2>2 DEF Evict, Unlink, Control
    <3>2. ASSUME NEW c \in Conns, stage'[c] \in Inserted, c \notin riders'
          PROVE  closed'[c] \/ \E u \in Threads : removed'[u] = c
      <4>1. CASE c = failed[t]
        BY <4>1, <3>1 DEF TypeOK
      <4>2. CASE c # failed[t]
        <5>1. closed[c] \/ \E u \in Threads : removed[u] = c
          BY <4>2, <3>1, <3>2 DEF NoOrphan
        <5>2. \A u \in Threads : removed[u] = c => u # t /\ removed'[u] = c
          BY <3>1, NoneAssumption DEF TypeOK
        <5> QED
          BY <5>1, <5>2, <3>1
      <4> QED
        BY <4>1, <4>2
    <3> QED
      BY <3>2 DEF NoOrphan
  <2>3. CASE CloseEvicted(t)
    <3>1. /\ removed[t] # None /\ removed' = [removed EXCEPT ![t] = None]
          /\ closed' = [closed EXCEPT ![removed[t]] = TRUE]
          /\ UNCHANGED <<stage, riders>>
      BY <2>3 DEF CloseEvicted
    <3>2. removed[t] \in Conns /\ closed'[removed[t]]
          /\ \A c \in Conns : closed[c] => closed'[c]
      BY <3>1 DEF TypeOK, MaybeConn
    <3>3. \A u \in Threads : u = t \/ removed'[u] = removed[u]
      BY <3>1 DEF TypeOK
    <3> QED
      BY <3>1, <3>2, <3>3, NoNewOrphan
  <2> QED
    BY <1>2, <2>1, <2>2, <2>3 DEF Forwarding
<1>3. CASE Reset
  <2>1. UNCHANGED <<stage, removed>>
        /\ \A c \in Conns : closed'[c] <=> closed[c] \/ c \in riders
    BY <1>3 DEF Reset
  <2> QED
    BY <2>1 DEF NoOrphan
<1>4. CASE UNCHANGED <<stage, riders, closed, removed>>
  BY <1>4, NoNewOrphan
<1> QED
  BY <1>1, <1>2, <1>3, <1>4
  DEF Next, Connection, PumpWrite, PumpExit, FlushInbox, ClientGone, BeginRelay,
      Begin, DoneRelay, Done, Api, SetLatLng, JoinGeoCell, UpdateRiderGeohash,
      PublishToGeoCell, Stop

\* A connection still served that is no longer in b.riders has its channel
\* closed, or the goroutine that evicted it is about to close it: writePump will
\* close the socket, the read loop will fail and the handler will clean up.
THEOREM NoneOrphaned == Spec => []NoOrphan
<1>1. Init => NoOrphan
  BY DEF Init, NoOrphan, Inserted
<1>2. TypeOK /\ Control /\ NoOrphan /\ [Next]_vars => NoOrphan'
  BY NextNoOrphan
<1> QED
  BY <1>1, <1>2, TypeAndControl, PTL DEF Spec

------------------------------------------------------------------------------
(* Names *)

\* Another connection announced the name of c.
Handover(c) == \E d \in Conns \ {c} : peerId[d] = peerId[c]

\* A connection that has a name keeps it.
LEMMA NamesStay ==
    ASSUME TypeOK, [Next]_vars
    PROVE  \A c \in Conns : peerId[c] # None => peerId'[c] = peerId[c]
<1>1. ASSUME NEW c \in Conns, Read(c)
      PROVE  \A d \in Conns : peerId[d] # None => peerId'[d] = peerId[d]
  BY <1>1 DEF Read, TypeOK
<1>2. CASE UNCHANGED peerId
  BY <1>2
<1> QED
  BY <1>1, <1>2, SMTT(30)
  DEF Next, Handler, Serve, CheckLimit, Admit, UpgradeFails, JoinCity, Register,
      Heartbeat, Publish, PublishRace, BeginOwn, DoneOwn, ReadFails, Cleanup, Leave,
      Connection, PumpWrite, PumpExit, FlushInbox, ClientGone, Forwarding, Deliver,
      Evict, CloseEvicted, BeginRelay, Begin, DoneRelay, Done, Api, SetLatLng,
      JoinGeoCell, UpdateRiderGeohash, PublishToGeoCell, Stop, Reset

\* So a handover stays one.
LEMMA HandoversStay ==
    ASSUME TypeOK, [Next]_vars, NEW c \in Conns, peerId[c] # None, Handover(c)
    PROVE  Handover(c)'
  BY NamesStay DEF Handover

\* Which connections a step moves out of the stage "naming".
LEMMA NamingStays ==
    ASSUME TypeOK, Control, [Next]_vars, NEW c \in Conns, stage[c] = "naming"
    PROVE  stage'[c] = "naming" \/ Register(c)
<1>1. ASSUME NEW d \in Conns, Handler(d)
      PROVE  stage'[c] = "naming" \/ Register(c)
  <2>1. CASE DoneOwn(d)
    BY <2>1 DEF DoneOwn, Done, Idle, Control, TypeOK
  <2>2. CASE BeginOwn(d)
    BY <2>2 DEF BeginOwn, Begin
  <2>3. CASE ~DoneOwn(d) /\ ~BeginOwn(d)
    BY <1>1, <2>3
    DEF Handler, Serve, CheckLimit, Admit, UpgradeFails, JoinCity, Read, Register,
        Heartbeat, Publish, PublishRace, ReadFails, Cleanup, Leave, TypeOK
  <2> QED
    BY <2>1, <2>2, <2>3
<1>2. CASE UNCHANGED stage
  BY <1>2
<1> QED
  BY <1>1, <1>2
  DEF Next, Connection, PumpWrite, PumpExit, FlushInbox, ClientGone, Forwarding,
      Deliver, Evict, CloseEvicted, BeginRelay, Begin, DoneRelay, Done, Api,
      SetLatLng, JoinGeoCell, UpdateRiderGeohash, PublishToGeoCell, Stop, Reset

LEMMA NextLostOnlyByHandover ==
    TypeOK /\ TypeOK' /\ Control /\ LostOnlyByHandover /\ [Next]_vars
        => LostOnlyByHandover'
<1> SUFFICES ASSUME TypeOK, TypeOK', Control, LostOnlyByHandover, [Next]_vars,
                    NEW c \in riders', peerId'[c] # None, stage'[c] # "naming"
             PROVE  peerByID'[peerId'[c]] = c \/ Handover(c)'
  BY DEF LostOnlyByHandover, Handover
<1>c. c \in Conns
  BY DEF TypeOK
\* A step that neither admits, nor names, nor registers c, and leaves the entry
\* of its name alone.
<1>0. ASSUME c \in riders, peerId'[c] = peerId[c], stage[c] # "naming",
             peerByID'[peerId[c]] = peerByID[peerId[c]]
      PROVE  peerByID'[peerId'[c]] = c \/ Handover(c)'
  <2>1. peerByID[peerId[c]] = c \/ Handover(c)
    BY <1>0 DEF LostOnlyByHandover, Handover
  <2> QED
    BY <1>0, <1>c, <2>1, HandoversStay
\* A step that forgets the name of another connection.
<1>1. ASSUME NEW d \in Conns, riders' = riders \ {d}, UNCHANGED peerId,
             peerByID' = PeerForgotten(d), stage[c] # "naming"
      PROVE  peerByID'[peerId'[c]] = c \/ Handover(c)'
  <2>1. d # c /\ c \in riders
    BY <1>1
  <2>2. CASE peerId[d] = peerId[c]
    BY <1>1, <2>1, <2>2 DEF Handover
  <2>3. CASE peerId[d] # peerId[c]
    <3>1. peerByID'[peerId[c]] = peerByID[peerId[c]]
      BY <1>1, <1>c, <2>3 DEF PeerForgotten, TypeOK
    <3> QED
      BY <1>0, <1>1, <2>1, <3>1
  <2> QED
    BY <2>2, <2>3
<1>2. CASE Register(c)
  <2>1. peerId[c] \in Peers
    BY <1>2, <1>c DEF Register, Control, TypeOK
  <2> QED
    BY <1>2, <2>1 DEF Register, TypeOK
<1>3. CASE ~Register(c)
  <2>1. stage[c] # "naming"
    BY <1>3, <1>c, NamingStays
  <2>2. ASSUME NEW d \in Conns, Handler(d)
        PROVE  peerByID'[peerId'[c]] = c \/ Handover(c)'
    <3>1. CASE Admit(d)
      <4>1. peerId'[d] = None /\ riders' = riders \cup {d}
            /\ UNCHANGED <<peerId, peerByID>>
        BY <3>1 DEF Admit, Control
      <4> QED
        BY <4>1, <2>1, <1>0
    <3>2. CASE Read(d)
      <4>1. UNCHANGED <<riders, peerByID>>
            /\ (stage'[d] = "naming" \/ peerId'[d] = peerId[d])
            /\ \A e \in Conns \ {d} : peerId'[e] = peerId[e]
        BY <3>2 DEF Read, TypeOK
      <4> QED
        BY <4>1, <1>c, <2>1, <1>0
    <3>3. CASE Register(d)
      <4>1. d # c
        BY <1>3, <3>3
      <4>2. UNCHANGED <<riders, peerId>> /\ peerByID' = [peerByID EXCEPT ![peerId[d]] = d]
        BY <3>3 DEF Register
      <4>3. CASE peerId[d] = peerId[c]
        BY <4>1, <4>2, <4>3 DEF Handover
      <4>4. CASE peerId[d] # peerId[c]
        <5>1. peerByID'[peerId[c]] = peerByID[peerId[c]]
          BY <4>2, <4>4 DEF TypeOK
        <5> QED
          BY <5>1, <4>2, <2>1, <1>0
      <4> QED
        BY <4>3, <4>4
    <3>4. CASE Cleanup(d)
      BY <3>4, <2>1, <1>1 DEF Cleanup, Unlink
    <3>5. CASE UNCHANGED <<riders, peerId, peerByID>>
      BY <3>5, <2>1, <1>0
    <3> QED
      BY <2>2, <3>1, <3>2, <3>3, <3>4, <3>5
      DEF Handler, Serve, CheckLimit, UpgradeFails, JoinCity, Heartbeat, Publish,
          PublishRace, BeginOwn, Begin, DoneOwn, Done, ReadFails, Leave
  <2>3. ASSUME NEW t \in Threads, Evict(t)
        PROVE  peerByID'[peerId'[c]] = c \/ Handover(c)'
    <3>1. failed[t] \in Conns
      BY <2>3 DEF Evict, TypeOK, MaybeConn
    <3> QED
      BY <2>3, <3>1, <2>1, <1>1 DEF Evict, Unlink
  <2>4. CASE Reset
    BY <2>4 DEF Reset
  <2>5. CASE UNCHANGED <<riders, peerId, peerByID>>
    BY <2>5, <2>1, <1>0
  <2> QED
    BY <2>2, <2>3, <2>4, <2>5
    DEF Next, Connection, PumpWrite, PumpExit, FlushInbox, ClientGone, Forwarding,
        Deliver, CloseEvicted, BeginRelay, Begin, DoneRelay, Done, Api, SetLatLng,
        JoinGeoCell, UpdateRiderGeohash, PublishToGeoCell, Stop
<1> QED
  BY <1>2, <1>3

\* A rider in the table that has registered its name is the one its name leads
\* to, unless another connection announced that name: no client can unregister
\* another one by being slow, by leaving or by moving.
THEOREM NamesLostByHandover == Spec => []LostOnlyByHandover
<1>1. Init => LostOnlyByHandover
  BY DEF Init, LostOnlyByHandover
<1>2. TypeOK /\ TypeOK' /\ Control /\ LostOnlyByHandover /\ [Next]_vars
        => LostOnlyByHandover'
  BY NextLostOnlyByHandover
<1> QED
  BY <1>1, <1>2, TypeAndControl, PTL DEF Spec

------------------------------------------------------------------------------
(* Windows *)

\* Only a connection with a name has a location.
Located == \A c \in Conns : centre[c] # None => peerId[c] # None

LEMMA NextLocated == TypeOK /\ TablesMatch /\ Located /\ [Next]_vars => Located'
<1> SUFFICES ASSUME TypeOK, TablesMatch, Located, [Next]_vars
             PROVE  Located'
  OBVIOUS
<1>1. CASE UpdateRiderGeohash /\ peerByID[geoCall.peer] # None
  <2>1. PICK p \in Peers, x \in Cells, rc \in Conns : Moved(p, x, rc)
    BY <1>1, GeohashMoves
  <2>2. peerId[rc] = p /\ \A d \in Conns \ {rc} : centre'[d] = centre[d]
    BY <2>1 DEF Moved
  <2>3. UNCHANGED peerId
    BY <1>1 DEF UpdateRiderGeohash
  <2> QED
    BY <2>2, <2>3, NoneAssumption DEF Located
<1>2. CASE UNCHANGED centre
  BY <1>2, NamesStay DEF Located
<1> QED
  BY <1>1, <1>2, SMTT(30)
  DEF Next, Handler, Serve, CheckLimit, Admit, UpgradeFails, JoinCity, Read,
      Register, Heartbeat, Publish, PublishRace, BeginOwn, DoneOwn, ReadFails,
      Cleanup, Leave, Connection, PumpWrite, PumpExit, FlushInbox, ClientGone,
      Forwarding, Deliver, Evict, CloseEvicted, BeginRelay, Begin, DoneRelay, Done,
      Api, SetLatLng, JoinGeoCell, UpdateRiderGeohash, PublishToGeoCell, Stop, Reset

LEMMA LocatedCorrect == Spec => []Located
<1>1. Init => Located
  BY DEF Init, Located
<1> QED
  BY <1>1, NextLocated, TypeCorrect, TablesCorrect, PTL DEF Spec

LEMMA NextWindowComplete ==
    TypeOK /\ TypeOK' /\ Control /\ TablesMatch /\ Located /\ WindowComplete
        /\ [Next]_vars => WindowComplete'
<1> DEFINE Complete(c) == \A y \in GeoCells(c) : cellRiders[y][peerId[c]] = c
<1> SUFFICES ASSUME TypeOK, TypeOK', Control, TablesMatch, Located, WindowComplete,
                    [Next]_vars, NEW c \in riders', centre'[c] # None
             PROVE  Complete(c)' \/ Handover(c)'
  BY DEF WindowComplete, Handover
<1>c. c \in Conns
  BY DEF TypeOK
\* A step that neither admits nor moves c, and leaves the entries of its name.
<1>0. ASSUME c \in riders, centre'[c] = centre[c],
             \A y \in GeoCells(c) :
                cellRiders'[y][peerId[c]] = cellRiders[y][peerId[c]]
      PROVE  Complete(c)' \/ Handover(c)'
  <2>1. peerId[c] # None /\ peerId'[c] = peerId[c]
    BY <1>0, <1>c, NamesStay DEF Located
  <2>2. CASE Handover(c)
    BY <2>1, <2>2, <1>c, HandoversStay
  <2>3. CASE Complete(c)
    <3>1. GeoCells(c)' = GeoCells(c)
      BY <1>0 DEF GeoCells
    <3> QED
      BY <1>0, <2>1, <2>3, <3>1
  <2> QED
    BY <1>0, <2>2, <2>3 DEF WindowComplete, Handover
\* A step that forgets the cells of another connection.
<1>1. ASSUME NEW d \in Conns, riders' = riders \ {d}, UNCHANGED <<peerId, centre>>,
             cellRiders' = CellsForgotten(d)
      PROVE  Complete(c)' \/ Handover(c)'
  <2>1. d # c /\ c \in riders
    BY <1>1
  <2>2. CASE peerId[d] = peerId[c]
    BY <1>1, <2>1, <2>2 DEF Handover
  <2>3. CASE peerId[d] # peerId[c]
    <3>1. GeoCells(c) \subseteq Cells /\ peerId[c] \in Peers
      BY <1>1, <1>c, WindowAssumption DEF GeoCells, TypeOK, Located
    <3>2. \A y \in GeoCells(c) : cellRiders'[y][peerId[c]] = cellRiders[y][peerId[c]]
      BY <1>1, <2>3, <3>1 DEF CellsForgotten
    <3> QED
      BY <1>0, <1>1, <2>1, <3>2
  <2> QED
    BY <2>2, <2>3
<1>2. ASSUME NEW d \in Conns, Handler(d)
      PROVE  Complete(c)' \/ Handover(c)'
  <2>1. CASE Admit(d)
    <3>1. d # c
      BY <2>1 DEF Admit, Control, Located
    <3> QED
      BY <2>1, <3>1, <1>0 DEF Admit
  <2>2. CASE Cleanup(d)
    BY <2>2, <1>1 DEF Cleanup, Unlink
  <2>3. CASE UNCHANGED <<riders, centre, cellRiders>>
    BY <2>3, <1>0
  <2> QED
    BY <1>2, <2>1, <2>2, <2>3
    DEF Handler, Serve, CheckLimit, UpgradeFails, JoinCity, Read, Register, Heartbeat,
        Publish, PublishRace, BeginOwn, Begin, DoneOwn, Done, ReadFails, Leave
<1>3. ASSUME NEW t \in Threads, Evict(t)
      PROVE  Complete(c)' \/ Handover(c)'
  <2>1. failed[t] \in Conns /\ riders' = riders \ {failed[t]}
        /\ UNCHANGED <<peerId, centre>>
        /\ cellRiders' \in {cellRiders, CellsForgotten(failed[t])}
    BY <1>3 DEF Evict, Unlink, TypeOK, MaybeConn
  <2> QED
    BY <2>1, <1>0, <1>1
<1>4. CASE UpdateRiderGeohash /\ peerByID[geoCall.peer] # None
  <2>1. PICK p \in Peers, x \in Cells, rc \in Conns : Moved(p, x, rc)
    BY <1>4, GeohashMoves
  <2>2. UNCHANGED <<peerId, riders>>
    BY <1>4 DEF UpdateRiderGeohash
  <2>3. CASE c = rc
    <3>1. \A y \in Window[x] : cellRiders'[y][p] = rc
      BY <2>1, WindowAssumption DEF Moved
    <3>2. GeoCells(c)' = Window[x] /\ peerId'[c] = p
      BY <2>1, <2>2, <2>3 DEF Moved
    <3> QED
      BY <2>3, <3>1, <3>2
  <2>4. CASE c # rc /\ peerId[c] = p
    BY <2>1, <2>2, <2>4, <1>c DEF Moved, Handover
  <2>5. CASE c # rc /\ peerId[c] # p
    <3>1. centre'[c] = centre[c]
      BY <2>1, <2>5, <1>c DEF Moved
    <3>2. GeoCells(c) \subseteq Cells /\ peerId[c] \in Peers
      BY <3>1, <1>c, WindowAssumption DEF GeoCells, TypeOK, Located
    <3>3. \A y \in GeoCells(c) : cellRiders'[y][peerId[c]] = cellRiders[y][peerId[c]]
      BY <2>1, <2>5, <3>2 DEF Moved
    <3> QED
      BY <3>1, <3>3, <2>2, <1>0
  <2> QED
    BY <2>3, <2>4, <2>5
<1>5. CASE Reset
  BY <1>5 DEF Reset
<1>6. CASE UNCHANGED <<riders, centre, cellRiders>>
  BY <1>6, <1>0
<1> QED
  BY <1>2, <1>3, <1>4, <1>5, <1>6
  DEF Next, Connection, PumpWrite, PumpExit, FlushInbox, ClientGone, Forwarding,
      Deliver, CloseEvicted, BeginRelay, Begin, DoneRelay, Done, Api, SetLatLng,
      JoinGeoCell, UpdateRiderGeohash, PublishToGeoCell, Stop

\* A rider in the table with a location is registered in every cell of its
\* window, however often it moves and whichever windows overlap, unless another
\* connection announced its name.
THEOREM WindowsComplete == Spec => []WindowComplete
<1>1. Init => WindowComplete
  BY DEF Init, WindowComplete
<1> QED
  BY <1>1, NextWindowComplete, TypeAndControl, TablesCorrect, LocatedCorrect, PTL
  DEF Spec

------------------------------------------------------------------------------
(* Directory *)

New == {"absent", "upgrading"}

\* A pass works on connections that were admitted, if it was ever to find them
\* in a table.
PassesAdmitted ==
    \A t \in Threads : /\ \A c \in todo[t] : stage[c] \notin New
                       /\ failed[t] # None => stage[failed[t]] \notin New

\* An admitted connection never becomes new again.
LEMMA AdmittedStays ==
    ASSUME TypeOK, [Next]_vars
    PROVE  \A c \in Conns : stage[c] \notin New => stage'[c] \notin New
<1>1. ASSUME NEW d \in Conns, Handler(d)
      PROVE  \A c \in Conns : stage[c] \notin New => stage'[c] \notin New
  <2>1. CASE DoneOwn(d)
    BY <2>1 DEF DoneOwn, Done, Idle, TypeOK, New
  <2>2. CASE BeginOwn(d)
    BY <2>2 DEF BeginOwn, Begin
  <2>3. CASE ~DoneOwn(d) /\ ~BeginOwn(d)
    BY <1>1, <2>3
    DEF Handler, Serve, CheckLimit, Admit, UpgradeFails, JoinCity, Read, Register,
        Heartbeat, Publish, PublishRace, ReadFails, Cleanup, Leave, TypeOK, New
  <2> QED
    BY <2>1, <2>2, <2>3
<1>2. CASE UNCHANGED stage
  BY <1>2
<1> QED
  BY <1>1, <1>2
  DEF Next, Connection, PumpWrite, PumpExit, FlushInbox, ClientGone, Forwarding,
      Deliver, Evict, CloseEvicted, BeginRelay, Begin, DoneRelay, Done, Api,
      SetLatLng, JoinGeoCell, UpdateRiderGeohash, PublishToGeoCell, Stop, Reset

\* Whoever is found through the tables was admitted.
LEMMA TargetsAdmitted ==
    ASSUME TypeOK, TablesMatch
    PROVE  /\ \A to \in Peers \cup {None} : \A ct :
                \A c \in CityTargets(ct, to) : stage[c] \notin New
           /\ \A to \in Peers \cup {None} : \A c \in AllTargets(to) : stage[c] \notin New
           /\ \A x \in Cells : \A c \in GeoTargets(x) : stage[c] \notin New
<1>1. \A c \in riders : stage[c] \notin New
  BY DEF TablesMatch, Inserted, New
<1>2. \A to \in Peers, c \in Conns : peerByID[to] = c => stage[c] \notin New
  BY NoneAssumption DEF TablesMatch, Reachable, New
<1>3. \A x \in Cells, p \in Peers, c \in Conns :
        cellRiders[x][p] = c => stage[c] \notin New
  BY NoneAssumption DEF TablesMatch, Reachable, New
<1> QED
  BY <1>1, <1>2, <1>3 DEF CityTargets, AllTargets, GeoTargets

LEMMA NextPassesAdmitted ==
    TypeOK /\ Control /\ TablesMatch /\ PassesAdmitted /\ [Next]_vars
        => PassesAdmitted'
<1> SUFFICES ASSUME TypeOK, Control, TablesMatch, PassesAdmitted, [Next]_vars
             PROVE  PassesAdmitted'
  OBVIOUS
<1> USE AdmittedStays DEF PassesAdmitted, TypeOK, MaybeConn
<1>1. ASSUME NEW t \in Threads, NEW kind, NEW S \in SUBSET Conns,
             Begin(t, kind, S), \A c \in S : stage[c] \notin New
      PROVE  PassesAdmitted'
  BY <1>1 DEF Begin
<1>2. ASSUME NEW c \in Conns, BeginOwn(c)
      PROVE  PassesAdmitted'
  <2>1. CASE stage[c] = "geo"
    <3>1. place[c] \in Cells
      BY <2>1 DEF Control
    <3>2. Begin(c, "geo", GeoTargets(place[c]))
      BY <1>2, <2>1 DEF BeginOwn
    <3>3. \A d \in GeoTargets(place[c]) : stage[d] \notin New
      BY <3>1, TargetsAdmitted
    <3> QED
      BY <3>2, <3>3, <1>1, TargetsAreConns DEF Threads
  <2>2. CASE stage[c] = "city"
    <3>1. msg[c].to \in Peers \cup {None}
      BY DEF Message
    <3>2. Begin(c, "city", CityTargets(city[c], msg[c].to))
      BY <1>2, <2>2 DEF BeginOwn
    <3>3. \A d \in CityTargets(city[c], msg[c].to) : stage[d] \notin New
      BY <3>1, TargetsAdmitted
    <3>4. CityTargets(city[c], msg[c].to) \in SUBSET Conns
      BY TargetsAreConns
    <3> QED
      BY <3>2, <3>3, <3>4, <1>1 DEF Threads
  <2>3. CASE stage[c] = "all"
    <3>1. msg[c].to \in Peers \cup {None}
      BY DEF Message
    <3>2. Begin(c, "all", AllTargets(msg[c].to))
      BY <1>2, <2>3 DEF BeginOwn
    <3>3. \A d \in AllTargets(msg[c].to) : stage[d] \notin New
      BY <3>1, TargetsAdmitted
    <3> QED
      BY <3>2, <3>3, <1>1, TargetsAreConns DEF Threads
  <2> QED
    BY <1>2, <2>1, <2>2, <2>3 DEF BeginOwn
<1>3. ASSUME NEW r \in Relays, BeginRelay(r)
      PROVE  PassesAdmitted'
  <2>1. ASSUME NEW ct \in cityTopics, NEW to \in Peers \cup {None},
               Begin(r, "city", CityTargets(ct, to))
        PROVE  PassesAdmitted'
    <3>1. CityTargets(ct, to) \in SUBSET Conns
      BY TargetsAreConns
    <3>2. \A d \in CityTargets(ct, to) : stage[d] \notin New
      BY TargetsAdmitted
    <3> QED
      BY <2>1, <3>1, <3>2, <1>1 DEF Threads
  <2>2. ASSUME NEW x \in geoTopics, Begin(r, "geo", GeoTargets(x))
        PROVE  PassesAdmitted'
    <3>1. GeoTargets(x) \in SUBSET Conns
      BY TargetsAreConns
    <3>2. \A d \in GeoTargets(x) : stage[d] \notin New
      BY TargetsAdmitted
    <3> QED
      BY <2>2, <3>1, <3>2, <1>1 DEF Threads
  <2>3. ASSUME NEW to \in Peers \cup {None}, Begin(r, "all", AllTargets(to))
        PROVE  PassesAdmitted'
    <3>1. AllTargets(to) \in SUBSET Conns
      BY TargetsAreConns
    <3>2. \A d \in AllTargets(to) : stage[d] \notin New
      BY TargetsAdmitted
    <3> QED
      BY <2>3, <3>1, <3>2, <1>1 DEF Threads
  <2> QED
    BY <1>3, <2>1, <2>2, <2>3 DEF BeginRelay
<1>4. ASSUME NEW t \in Threads, Deliver(t)
      PROVE  PassesAdmitted'
  BY <1>4 DEF Deliver
<1>5. ASSUME NEW t \in Threads, Evict(t)
      PROVE  PassesAdmitted'
  BY <1>5 DEF Evict
<1>6. CASE UNCHANGED <<todo, failed>>
  BY <1>6
<1> QED
  BY <1>2, <1>3, <1>4, <1>5, <1>6, ZenonT(60)
  DEF Next, Handler, Serve, CheckLimit, Admit, UpgradeFails, JoinCity, Read,
      Register, Heartbeat, Publish, PublishRace, DoneOwn, ReadFails,
      Cleanup, Leave, Connection, PumpWrite, PumpExit, FlushInbox, ClientGone,
      Forwarding, CloseEvicted, DoneRelay, Done, Api, SetLatLng,
      JoinGeoCell, UpdateRiderGeohash, PublishToGeoCell, Stop, Reset

LEMMA PassesCorrect == Spec => []PassesAdmitted
<1>1. Init => PassesAdmitted
  BY DEF Init, PassesAdmitted
<1> QED
  BY <1>1, NextPassesAdmitted, TypeAndControl, TablesCorrect, PTL DEF Spec

LEMMA InitDirectory == Init => Dir!Init
  BY DEF Init, Dir!Init, Phase

\* A step that changes no phase, name or entry.
LEMMA DirectoryStutters ==
    ASSUME \A c \in Conns : Phase(c)' = Phase(c), UNCHANGED <<peerId, peerByID>>
    PROVE  UNCHANGED Dir!vars
  BY DEF Dir!vars

LEMMA NextDirectory ==
    TypeOK /\ TypeOK' /\ Control /\ TablesMatch /\ PassesAdmitted /\ [Next]_vars
        => [Dir!Next]_(Dir!vars)
<1> SUFFICES ASSUME TypeOK, TypeOK', Control, TablesMatch, PassesAdmitted, [Next]_vars
             PROVE  Dir!Next \/ UNCHANGED Dir!vars
  OBVIOUS
<1> DEFINE phase == [c \in Conns |-> Phase(c)]
<1>1. ASSUME NEW c \in Conns, Handler(c)
      PROVE  Dir!Next \/ UNCHANGED Dir!vars
  <2>1. CASE CheckLimit(c)
    <3>1. \A d \in Conns : Phase(d)' = Phase(d)
      BY <2>1 DEF CheckLimit, Phase, TypeOK, Inserted
    <3> QED
      BY <2>1, <3>1, DirectoryStutters DEF CheckLimit
  <2>2. CASE Admit(c)
    <3>1. /\ Phase(c) = "new" /\ Phase(c)' = "serving"
          /\ \A d \in Conns \ {c} : Phase(d)' = Phase(d)
      BY <2>2 DEF Admit, Phase, TypeOK, Inserted
    <3>2. Dir!Serve(c)
      BY <2>2, <3>1 DEF Admit, Dir!Serve
    <3> QED
      BY <3>2 DEF Dir!Next
  <2>3. CASE UpgradeFails(c)
    <3>1. /\ Phase(c) = "new" /\ Phase(c)' = "finished"
          /\ \A d \in Conns \ {c} : Phase(d)' = Phase(d)
      BY <2>3 DEF UpgradeFails, Phase, TypeOK, Inserted
    <3>2. peerId[c] = None /\ UNCHANGED <<peerId, peerByID>>
      BY <2>3 DEF UpgradeFails, Control
    <3>3. peerByID = [p \in Peers |-> IF p = peerId[c] THEN None ELSE peerByID[p]]
      BY <3>2, NoneAssumption DEF TypeOK
    <3>4. Dir!Finish(c)
      BY <3>1, <3>2, <3>3 DEF Dir!Finish, Dir!Forgotten
    <3> QED
      BY <3>4 DEF Dir!Next
  <2>4. CASE Read(c)
    <3>1. \A d \in Conns : Phase(d)' = Phase(d)
      BY <2>4 DEF Read, Phase, TypeOK, Inserted
    <3>2. CASE UNCHANGED peerId
      BY <2>4, <3>1, <3>2, DirectoryStutters DEF Read
    <3>3. CASE ~UNCHANGED peerId
      <4>1. PICK p \in Peers : peerId' = [peerId EXCEPT ![c] = p] /\ peerId[c] = None
        BY <2>4, <3>3, BoundAssumption DEF Read, Message
      <4>2. Phase(c) \in {"serving", "cut"}
        BY <2>4 DEF Read, Phase, Inserted
      <4>3. Dir!Announce(c, p)
        BY <2>4, <3>1, <4>1, <4>2 DEF Read, Dir!Announce, Dir!Live
      <4> QED
        BY <4>3 DEF Dir!Next
    <3> QED
      BY <3>2, <3>3
  <2>5. CASE Register(c)
    <3>1. \A d \in Conns : Phase(d)' = Phase(d)
      BY <2>5 DEF Register, Phase, TypeOK, Inserted
    <3>2. Phase(c) \in {"serving", "cut"} /\ peerId[c] # None
      BY <2>5 DEF Register, Phase, Inserted, Control
    <3>3. Dir!Bind(c)
      BY <2>5, <3>1, <3>2 DEF Register, Dir!Bind, Dir!Live
    <3> QED
      BY <3>3 DEF Dir!Next
  <2>6. CASE Cleanup(c)
    <3>1. /\ Phase(c) # "finished" /\ Phase(c)' = "finished"
          /\ \A d \in Conns \ {c} : Phase(d)' = Phase(d)
      BY <2>6 DEF Cleanup, Unlink, Phase, TypeOK, Inserted
    <3>2. Dir!Finish(c)
      BY <2>6, <3>1 DEF Cleanup, Unlink, PeerForgotten, Dir!Finish, Dir!Forgotten
    <3> QED
      BY <3>2 DEF Dir!Next
  <2>7. CASE JoinCity(c) \/ Heartbeat(c) \/ Publish(c) \/ PublishRace(c)
             \/ ReadFails(c) \/ Leave(c)
    <3>1. \A d \in Conns : Phase(d)' = Phase(d)
      BY <2>7 DEF JoinCity, Heartbeat, Publish, PublishRace, ReadFails, Leave,
                  Phase, TypeOK, Inserted
    <3>2. UNCHANGED <<peerId, peerByID>>
      BY <2>7 DEF JoinCity, Heartbeat, Publish, PublishRace, ReadFails, Leave
    <3> QED
      BY <3>1, <3>2, DirectoryStutters
  <2>8. CASE BeginOwn(c) \/ DoneOwn(c)
    <3>1. \A d \in Conns : Phase(d)' = Phase(d)
      BY <2>8 DEF BeginOwn, Begin, DoneOwn, Done, Idle, Control, Phase, TypeOK,
                  Inserted
    <3>2. UNCHANGED <<peerId, peerByID>>
      BY <2>8 DEF BeginOwn, Begin, DoneOwn, Done
    <3> QED
      BY <3>1, <3>2, DirectoryStutters
  <2> QED
    BY <1>1, <2>1, <2>2, <2>3, <2>4, <2>5, <2>6, <2>7, <2>8 DEF Handler, Serve
<1>2. ASSUME NEW t \in Threads, Evict(t)
      PROVE  Dir!Next
  <2>1. PICK c \in Conns : c = failed[t]
    BY <1>2 DEF Evict, TypeOK, MaybeConn
  <2>2. /\ riders' = riders \ {c} /\ peerByID' = PeerForgotten(c)
        /\ UNCHANGED <<stage, peerId>>
    BY <1>2, <2>1 DEF Evict, Unlink
  <2>3. stage[c] \notin New
    BY <1>2, <2>1 DEF Evict, PassesAdmitted
  <2>4. /\ Phase(c) # "new"
        /\ Phase(c)' = IF Phase(c) = "serving" THEN "cut" ELSE Phase(c)
        /\ \A d \in Conns \ {c} : Phase(d)' = Phase(d)
    BY <2>2, <2>3 DEF Phase, New, TypeOK, Stages, Inserted
  <2>5. Dir!Cut(c)
    BY <2>2, <2>4 DEF PeerForgotten, Dir!Cut, Dir!Forgotten
  <2> QED
    BY <2>5 DEF Dir!Next
<1>3. CASE Reset
  <2>1. /\ riders' = {} /\ peerByID' = [p \in Peers |-> None]
        /\ UNCHANGED <<stage, peerId>>
    BY <1>3 DEF Reset
  <2>2. \A d \in Conns :
          Phase(d)' = IF Phase(d) = "serving" THEN "cut" ELSE Phase(d)
    BY <2>1 DEF Phase, TypeOK, Stages, Inserted
  <2>3. Dir!Shutdown
    BY <2>1, <2>2 DEF Dir!Shutdown
  <2> QED
    BY <2>3 DEF Dir!Next
<1>4. CASE UNCHANGED <<stage, riders, peerId, peerByID>>
  BY <1>4, DirectoryStutters DEF Phase
<1> QED
  BY <1>1, <1>2, <1>3, <1>4
  DEF Next, Connection, PumpWrite, PumpExit, FlushInbox, ClientGone, Forwarding,
      Deliver, CloseEvicted, BeginRelay, Begin, DoneRelay, Done, Api, SetLatLng,
      JoinGeoCell, UpdateRiderGeohash, PublishToGeoCell, Stop

\* The bridge implements Directory: every step of its goroutines is a step of
\* the abstract registry of connections and names, or changes neither.
THEOREM ImplementsDirectory == Spec => KeepsDirectory
<1> QED
  BY InitDirectory, NextDirectory, TypeAndControl, TablesCorrect, PassesCorrect, PTL
  DEF Spec, KeepsDirectory, Dir!Spec
=============================================================================
