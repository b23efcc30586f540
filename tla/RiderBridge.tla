----------------------------- MODULE RiderBridge -----------------------------
(***************************************************************************)
(* The rider WebSocket bridge (internal/riderbridge): admission of a       *)
(* connection, its read loop, its write pump, the three tables through     *)
(* which messages find a connection (riders, peerByID, cellRiders), the    *)
(* forwarding passes that fill the send buffers and evict slow clients,    *)
(* the geohash window of PUT /register/lat-lng, and shutdown.              *)
(*                                                                         *)
(* One action is one critical section of b.mu, or one step a goroutine     *)
(* takes between two of them.  A frame's payload is abstracted: a send     *)
(* buffer is its length.  What a message asks of the bridge (its sender,   *)
(* its type, its target) is kept.                                          *)
(*                                                                         *)
(* A definition marked "Bug" is part of no behaviour: it is a mistake in   *)
(* the definition below it that one of the properties would reveal.        *)
(***************************************************************************)
EXTENDS Integers, FiniteSets

CONSTANTS
    Conns,       \* WebSocket connections, each used once (*websocket.Conn)
    Peers,       \* peer identifiers clients announce
    Cities,      \* normalised city slugs
    Cells,       \* geohash-6 cells
    Relays,      \* goroutines other than read loops that forward messages
    None,        \* Go's nil and ""
    Window,      \* the 9-cell window of each centre cell (Get9CellWindow)
    Inputs,      \* messages clients may send, a subset of Message
    MaxConns,    \* b.maxConns
    SendBuffer,  \* capacity of riderConn.send (256)
    InboxCap,    \* most messages an inbox drain returns (100)
    MaxEvents    \* bound of the model: events from outside the bridge

Message == [from : Peers \cup {None}, type : {"ping", "pong", "nearby", "other"},
            to : Peers \cup {None}]

\* A message no read loop is working on.
NoMessage == [from |-> None, type |-> "pong", to |-> None]

ASSUME NoneAssumption ==
    /\ None \notin Conns \cup Peers \cup Cities \cup Cells \cup Relays
    /\ Conns \cap Relays = {}

ASSUME WindowAssumption ==
    /\ Window \in [Cells -> SUBSET Cells]
    /\ \A x \in Cells : x \in Window[x]

ASSUME BoundAssumption ==
    /\ Inputs \subseteq Message
    /\ MaxConns \in Nat \ {0}
    /\ SendBuffer \in Nat \ {0}
    /\ InboxCap \in Nat
    /\ MaxEvents \in Nat

VARIABLES
    \* riderConn and the locals of its handler
    stage,       \* program counter of handleRider
    city,        \* rc.city
    peerId,      \* rc.peerId, None until the client announces itself
    centre,      \* rc.geoCells[0], None while rc.geoCells is nil
    hasTopic,    \* the handler's topic # nil
    msg,         \* the message its read loop is handling
    place,       \* the cell publishToRiderGeoCell read for that message
    sent,        \* number of frames in rc.send
    closed,      \* rc.send has been closed
    pump,        \* writePump: "off" before it starts, "run", "done"
    client,      \* the other end: "up", or "gone" (closed or silent)
    inbox,       \* messages flushInbox drained and has not delivered yet
    \* Bridge
    riders,      \* keys of b.riders
    peerByID,    \* b.peerByID, None for a missing key
    cellRiders,  \* b.cellRiders, None for a missing key
    cityTopics,  \* keys of b.topicByCity
    geoTopics,   \* keys of b.geoTopics
    \* forwarding passes
    pass,        \* kind of the pass a goroutine is in, or "none"
    todo,        \* connections of its snapshot not served yet
    failed,      \* connection whose deliver returned false, to be removed
    removed,     \* connection it removed, closeSend still to come
    \* the API and the process
    geoCall,     \* the UpdateRiderGeohash call in progress, or None
    run,         \* Run: "serving", "stopping" (context done), "reset"
    events       \* bound of the model: messages, calls, failures and signals so far

handlerVars == <<stage, city, peerId, hasTopic, msg, place, inbox>>
socketVars == <<sent, closed, pump, client>>
tableVars == <<riders, peerByID, cellRiders>>
topicVars == <<cityTopics, geoTopics>>
passVars == <<pass, todo, failed, removed>>
vars == <<handlerVars, centre, socketVars, tableVars, topicVars, passVars,
          geoCall, run, events>>

Threads == Conns \cup Relays

\* Stages after the first critical section and before the deferred cleanup's.
Inserted == {"joining", "reading", "naming", "routing", "geo", "city", "all", "leaving"}
\* Stages in which the read loop is still running.
Looping == Inserted \ {"joining", "leaving"}
Stages == {"absent", "upgrading", "closing", "gone"} \cup Inserted

------------------------------------------------------------------------------
(* Helpers *)

\* rc.geoCells
GeoCells(c) == IF centre[c] = None THEN {} ELSE Window[centre[c]]

\* Bug: the name is not forgotten.
PeerKept(c) == peerByID

\* delete(b.peerByID, rc.peerId): whatever connection the entry names
PeerForgotten(c) == [p \in Peers |-> IF p = peerId[c] THEN None ELSE peerByID[p]]

\* delete(b.cellRiders[cell], rc.peerId) for every cell of rc.geoCells
CellsForgotten(c) ==
    [x \in Cells |-> [p \in Peers |->
        IF x \in GeoCells(c) /\ p = peerId[c] THEN None ELSE cellRiders[x][p]]]

\* Bug: the connection stays in b.riders.
UnlinkName(c) ==
    /\ riders' = riders
    /\ peerByID' = PeerForgotten(c)

\* The connection leaves b.riders, and its name b.peerByID.
Unlink(c) ==
    /\ riders' = riders \ {c}
    /\ peerByID' = PeerForgotten(c)

\* Bug: the old window is kept.
AddWindow(p, rc, x) ==
    [y \in Cells |-> [cellRiders[y] EXCEPT ![p] = IF y \in Window[x] THEN rc ELSE @]]

\* Bug: the old window is removed after the new one was added.
AddThenDrop(p, rc, x) ==
    [y \in Cells |-> [cellRiders[y] EXCEPT ![p] =
        IF y \in GeoCells(rc) THEN None ELSE IF y \in Window[x] THEN rc ELSE @]]

\* p's connection rc leaves the cells of its window and enters those around x.
MoveWindow(p, rc, x) ==
    [y \in Cells |-> [cellRiders[y] EXCEPT ![p] =
        IF y \in Window[x] THEN rc ELSE IF y \in GeoCells(rc) THEN None ELSE @]]

\* Bug: a closed channel is all that stops a send.
Unbounded(c) == ~closed[c]

\* rc.deliver succeeds: room in the channel, and the channel not closed
Deliverable(c) == ~closed[c] /\ sent[c] < SendBuffer

\* The connections a pass serves, read under b.mu.RLock.
CityTargets(ct, to) ==
    IF to # None THEN {c \in Conns : peerByID[to] = c /\ city[c] = ct}
                 ELSE {c \in riders : city[c] = ct}
AllTargets(to) ==
    IF to # None THEN {c \in Conns : peerByID[to] = c} ELSE riders
GeoTargets(x) == {c \in Conns : \E p \in Peers : cellRiders[x][p] = c}

Idle(t) == pass[t] = "none"

\* An event from outside: a message, an API call, a failure, the signal.
Event == events < MaxEvents /\ events' = events + 1

------------------------------------------------------------------------------
Init ==
    /\ stage = [c \in Conns |-> "absent"]
    /\ city = [c \in Conns |-> None]
    /\ peerId = [c \in Conns |-> None]
    /\ centre = [c \in Conns |-> None]
    /\ hasTopic = [c \in Conns |-> FALSE]
    /\ msg = [c \in Conns |-> NoMessage]
    /\ place = [c \in Conns |-> None]
    /\ sent = [c \in Conns |-> 0]
    /\ closed = [c \in Conns |-> FALSE]
    /\ pump = [c \in Conns |-> "off"]
    /\ client = [c \in Conns |-> "up"]
    /\ inbox = [c \in Conns |-> 0]
    /\ riders = {}
    /\ peerByID = [p \in Peers |-> None]
    /\ cellRiders = [x \in Cells |-> [p \in Peers |-> None]]
    /\ cityTopics = {}
    /\ geoTopics = {}
    /\ pass = [t \in Threads |-> "none"]
    /\ todo = [t \in Threads |-> {}]
    /\ failed = [t \in Threads |-> None]
    /\ removed = [t \in Threads |-> None]
    /\ geoCall = None
    /\ run = "serving"
    /\ events = 0

------------------------------------------------------------------------------
(* handleRider: admission *)

\* The limit is read under RLock and the lock released before the upgrade.
CheckLimit(c) ==
    /\ run = "serving"
    /\ stage[c] = "absent"
    /\ Cardinality(riders) < MaxConns
    /\ stage' = [stage EXCEPT ![c] = "upgrading"]
    /\ UNCHANGED <<city, peerId, hasTopic, msg, place, inbox, centre, socketVars,
                   tableVars, topicVars, passVars, geoCall, run, events>>

\* The upgraded connection enters b.riders and its writePump starts.
Admit(c) ==
    /\ stage[c] = "upgrading"
    /\ stage' = [stage EXCEPT ![c] = "joining"]
    /\ \E ct \in Cities : city' = [city EXCEPT ![c] = ct]
    /\ riders' = riders \cup {c}
    /\ pump' = [pump EXCEPT ![c] = "run"]
    /\ UNCHANGED <<peerId, hasTopic, msg, place, inbox, centre, sent, closed, client,
                   peerByID, cellRiders, topicVars, passVars, geoCall, run, events>>

\* The upgrade fails: the handler returns before it touches any table.
UpgradeFails(c) ==
    /\ stage[c] = "upgrading"
    /\ Event
    /\ stage' = [stage EXCEPT ![c] = "gone"]
    /\ UNCHANGED <<city, peerId, hasTopic, msg, place, inbox, centre, socketVars,
                   tableVars, topicVars, passVars, geoCall, run>>

\* getOrJoinCity: reuse the topic or join it; on an error the handler goes on
\* without a topic.
JoinCity(c) ==
    /\ stage[c] = "joining"
    /\ stage' = [stage EXCEPT ![c] = "reading"]
    /\ \/ /\ cityTopics' = cityTopics \cup {city[c]}
          /\ hasTopic' = [hasTopic EXCEPT ![c] = TRUE]
          /\ UNCHANGED events
       \/ /\ city[c] \notin cityTopics
          /\ Event
          /\ UNCHANGED <<cityTopics, hasTopic>>
    /\ UNCHANGED <<city, peerId, msg, place, inbox, centre, socketVars, tableVars,
                   geoTopics, passVars, geoCall, run>>

------------------------------------------------------------------------------
(* handleRider: the read loop *)

\* ReadMessage returns a frame, perhaps one buffered before the pump closed the
\* socket.  Empty, oversized and rate-limited frames change nothing and are
\* left out.  The first frame that names a peer sets rc.peerId, before b.mu is
\* taken.
Read(c) ==
    /\ stage[c] = "reading"
    /\ client[c] = "up"
    /\ Event
    /\ \E m \in Inputs :
        /\ msg' = [msg EXCEPT ![c] = m]
        /\ IF peerId[c] = None /\ m.from # None
           THEN /\ peerId' = [peerId EXCEPT ![c] = m.from]
                /\ stage' = [stage EXCEPT ![c] = "naming"]
           ELSE /\ stage' = [stage EXCEPT ![c] = "routing"]
                /\ UNCHANGED peerId
    /\ UNCHANGED <<city, hasTopic, place, inbox, centre, socketVars, tableVars,
                   topicVars, passVars, geoCall, run>>

\* The connection becomes the one its peer is reached through, and flushInbox
\* starts with whatever the inbox holds.
Register(c) ==
    /\ stage[c] = "naming"
    /\ stage' = [stage EXCEPT ![c] = "routing"]
    /\ peerByID' = [peerByID EXCEPT ![peerId[c]] = c]
    /\ \E n \in 0 .. InboxCap : inbox' = [inbox EXCEPT ![c] = n]
    /\ UNCHANGED <<city, peerId, hasTopic, msg, place, centre, socketVars, riders,
                   cellRiders, topicVars, passVars, geoCall, run, events>>

\* A ping is answered if there is room for the answer; a pong is dropped.
Heartbeat(c) ==
    /\ stage[c] = "routing"
    /\ msg[c].type \in {"ping", "pong"}
    /\ stage' = [stage EXCEPT ![c] = "reading"]
    /\ msg' = [msg EXCEPT ![c] = NoMessage]
    /\ sent' = [sent EXCEPT ![c] =
                    IF msg[c].type = "ping" /\ Deliverable(c) THEN @ + 1 ELSE @]
    /\ UNCHANGED <<city, peerId, hasTopic, place, inbox, centre, closed, pump, client,
                   tableVars, topicVars, passVars, geoCall, run, events>>

\* Any other message is published on the city topic; a nearby message also on
\* the topic of the rider's centre cell, read without a lock.  The geo publish
\* may fail, and then there is no geo pass.
Publish(c) ==
    /\ stage[c] = "routing"
    /\ msg[c].type \notin {"ping", "pong"}
    /\ \/ /\ ~hasTopic[c]
          /\ stage' = [stage EXCEPT ![c] = "all"]
          /\ UNCHANGED place
       \/ /\ hasTopic[c]
          /\ stage' = [stage EXCEPT ![c] = "city"]
          /\ UNCHANGED place
       \/ /\ hasTopic[c]
          /\ msg[c].type = "nearby"
          /\ centre[c] # None
          /\ centre[c] \in geoTopics
          /\ stage' = [stage EXCEPT ![c] = "geo"]
          /\ place' = [place EXCEPT ![c] = centre[c]]
    /\ UNCHANGED <<city, peerId, hasTopic, msg, inbox, centre, socketVars, tableVars,
                   topicVars, passVars, geoCall, run, events>>

\* The race of that read with UpdateRiderGeohash: while a connection's first
\* window is being stored, it may see the length of the new slice and the nil
\* pointer of the old one.  The handler panics, its deferred cleanup runs, and
\* net/http recovers.
PublishRace(c) ==
    /\ stage[c] = "routing"
    /\ msg[c].type = "nearby"
    /\ hasTopic[c]
    /\ centre[c] = None
    /\ geoCall # None
    /\ geoCall.join = {}
    /\ peerByID[geoCall.peer] = c
    /\ stage' = [stage EXCEPT ![c] = "leaving"]
    /\ msg' = [msg EXCEPT ![c] = NoMessage]
    /\ UNCHANGED <<city, peerId, hasTopic, place, inbox, centre, socketVars, tableVars,
                   topicVars, passVars, geoCall, run, events>>

\* Bug: no read deadline, so a silent client blocks the read for ever.
ReadFailsIfClosed(c) ==
    /\ stage[c] = "reading"
    /\ pump[c] = "done"
    /\ stage' = [stage EXCEPT ![c] = "leaving"]
    /\ UNCHANGED <<city, peerId, hasTopic, msg, place, inbox, centre, socketVars,
                   tableVars, topicVars, passVars, geoCall, run, events>>

\* ReadMessage fails: the pump closed the socket, the client closed it, or the
\* read deadline passed without a frame.
ReadFails(c) ==
    /\ stage[c] = "reading"
    /\ pump[c] = "done" \/ client[c] = "gone"
    /\ stage' = [stage EXCEPT ![c] = "leaving"]
    /\ UNCHANGED <<city, peerId, hasTopic, msg, place, inbox, centre, socketVars,
                   tableVars, topicVars, passVars, geoCall, run, events>>

\* The deferred cleanup's critical section ...
Cleanup(c) ==
    /\ stage[c] = "leaving"
    /\ stage' = [stage EXCEPT ![c] = "closing"]
    /\ Unlink(c)
    /\ cellRiders' = CellsForgotten(c)
    /\ UNCHANGED <<city, peerId, hasTopic, msg, place, inbox, centre, socketVars,
                   topicVars, passVars, geoCall, run, events>>

\* ... and the closeSend that follows it.
Leave(c) ==
    /\ stage[c] = "closing"
    /\ stage' = [stage EXCEPT ![c] = "gone"]
    /\ closed' = [closed EXCEPT ![c] = TRUE]
    /\ UNCHANGED <<city, peerId, hasTopic, msg, place, inbox, centre, sent, pump,
                   client, tableVars, topicVars, passVars, geoCall, run, events>>

------------------------------------------------------------------------------
(* The write pump, the inbox flush and the client *)

\* writePump writes a frame.
PumpWrite(c) ==
    /\ pump[c] = "run"
    /\ sent[c] > 0
    /\ sent' = [sent EXCEPT ![c] = @ - 1]
    /\ UNCHANGED <<handlerVars, centre, closed, pump, client, tableVars, topicVars,
                   passVars, geoCall, run, events>>

\* writePump returns: the channel is closed and drained, or a write failed
\* (the write deadline, a broken connection).  It closes the socket.
PumpExit(c) ==
    /\ pump[c] = "run"
    /\ \/ closed[c] /\ sent[c] = 0 /\ UNCHANGED events
       \/ sent[c] > 0 /\ Event
    /\ pump' = [pump EXCEPT ![c] = "done"]
    /\ sent' = [sent EXCEPT ![c] = IF @ > 0 THEN @ - 1 ELSE 0]
    /\ UNCHANGED <<handlerVars, centre, closed, client, tableVars, topicVars,
                   passVars, geoCall, run>>

\* flushInbox delivers a message, or gives up on all that are left.
FlushInbox(c) ==
    /\ inbox[c] > 0
    /\ IF Deliverable(c)
       THEN /\ inbox' = [inbox EXCEPT ![c] = @ - 1]
            /\ sent' = [sent EXCEPT ![c] = @ + 1]
       ELSE /\ inbox' = [inbox EXCEPT ![c] = 0]
            /\ UNCHANGED sent
    /\ UNCHANGED <<stage, city, peerId, hasTopic, msg, place, centre, closed, pump,
                   client, tableVars, topicVars, passVars, geoCall, run, events>>

\* The client closes the connection or falls silent for good.
ClientGone(c) ==
    /\ stage[c] \in Inserted
    /\ client[c] = "up"
    /\ Event
    /\ client' = [client EXCEPT ![c] = "gone"]
    /\ UNCHANGED <<handlerVars, centre, sent, closed, pump, tableVars, topicVars,
                   passVars, geoCall, run>>

------------------------------------------------------------------------------
(* Forwarding passes: forwardToCity, forwardToGeoCell, Forward *)

Begin(t, kind, targets) ==
    /\ Idle(t)
    /\ pass' = [pass EXCEPT ![t] = kind]
    /\ todo' = [todo EXCEPT ![t] = targets]
    /\ UNCHANGED <<handlerVars, centre, socketVars, tableVars, topicVars, failed,
                   removed, geoCall, run>>

\* The read loop's own passes for its message, in the order of the code.
BeginOwn(c) ==
    /\ \/ /\ stage[c] = "geo"
          /\ Begin(c, "geo", GeoTargets(place[c]))
       \/ /\ stage[c] = "city"
          /\ Begin(c, "city", CityTargets(city[c], msg[c].to))
       \/ /\ stage[c] = "all"
          /\ Begin(c, "all", AllTargets(msg[c].to))
    /\ UNCHANGED events

\* runCitySub, runGeoSub, and the callers of Forward outside this bridge.
BeginRelay(r) ==
    /\ Event
    /\ \/ \E ct \in cityTopics, to \in Peers \cup {None} :
            Begin(r, "city", CityTargets(ct, to))
       \/ \E x \in geoTopics : Begin(r, "geo", GeoTargets(x))
       \/ \E to \in Peers \cup {None} : Begin(r, "all", AllTargets(to))

\* rc.deliver on one connection of the snapshot.
Deliver(t) ==
    /\ failed[t] = None
    /\ removed[t] = None
    /\ \E c \in todo[t] :
        /\ todo' = [todo EXCEPT ![t] = @ \ {c}]
        /\ IF Deliverable(c)
           THEN /\ sent' = [sent EXCEPT ![c] = @ + 1]
                /\ UNCHANGED failed
           ELSE /\ failed' = [failed EXCEPT ![t] = c]
                /\ UNCHANGED sent
    /\ UNCHANGED <<handlerVars, centre, closed, pump, client, tableVars, topicVars,
                   pass, removed, geoCall, run, events>>

\* Slow-client protection: the connection leaves the tables.  Only the geo
\* pass also clears its cells.
Evict(t) ==
    /\ failed[t] # None
    /\ failed' = [failed EXCEPT ![t] = None]
    /\ removed' = [removed EXCEPT ![t] = failed[t]]
    /\ Unlink(failed[t])
    /\ cellRiders' = IF pass[t] = "geo" THEN CellsForgotten(failed[t]) ELSE cellRiders
    /\ UNCHANGED <<handlerVars, centre, socketVars, topicVars, pass, todo, geoCall,
                   run, events>>

\* Bug: the evicted connection is not closed.
ForgetEvicted(t) ==
    /\ removed[t] # None
    /\ removed' = [removed EXCEPT ![t] = None]
    /\ UNCHANGED <<handlerVars, centre, socketVars, tableVars, topicVars, pass, todo,
                   failed, geoCall, run, events>>

\* rc.closeSend, after the lock is released.
CloseEvicted(t) ==
    /\ removed[t] # None
    /\ removed' = [removed EXCEPT ![t] = None]
    /\ closed' = [closed EXCEPT ![removed[t]] = TRUE]
    /\ UNCHANGED <<handlerVars, centre, sent, pump, client, tableVars, topicVars, pass,
                   todo, failed, geoCall, run, events>>

Done(t) ==
    /\ ~Idle(t)
    /\ todo[t] = {}
    /\ failed[t] = None
    /\ removed[t] = None
    /\ pass' = [pass EXCEPT ![t] = "none"]
    /\ UNCHANGED <<city, peerId, hasTopic, inbox, centre, socketVars, tableVars,
                   topicVars, todo, failed, removed, geoCall, run, events>>

\* A read loop goes on to its next pass, and after the last to ReadMessage.
DoneOwn(c) ==
    /\ Done(c)
    /\ stage' = [stage EXCEPT ![c] = CASE @ = "geo" -> "city"
                                       [] @ = "city" -> "all"
                                       [] OTHER -> "reading"]
    /\ msg' = IF stage[c] = "all" THEN [msg EXCEPT ![c] = NoMessage] ELSE msg
    /\ place' = [place EXCEPT ![c] = None]

DoneRelay(r) == Done(r) /\ UNCHANGED <<stage, msg, place>>

------------------------------------------------------------------------------
(* PUT /register/lat-lng and geo topics *)

\* The API handler stores the location, which this package never reads, then
\* calls UpdateRiderGeohash.  Calls differ from each other only in their last
\* critical section, so one call at a time orders them in every way.
SetLatLng(p, x) ==
    /\ geoCall = None
    /\ Event
    /\ geoCall' = [peer |-> p, cell |-> x, join |-> Window[x]]
    /\ UNCHANGED <<handlerVars, centre, socketVars, tableVars, topicVars, passVars,
                   run>>

\* getOrJoinGeoCell for one cell of the window; an error is only logged.
JoinGeoCell ==
    /\ geoCall # None
    /\ \E x \in geoCall.join :
        /\ geoCall' = [geoCall EXCEPT !.join = @ \ {x}]
        /\ \/ geoTopics' = geoTopics \cup {x} /\ UNCHANGED events
           \/ x \notin geoTopics /\ UNCHANGED geoTopics /\ Event
    /\ UNCHANGED <<handlerVars, centre, socketVars, tableVars, cityTopics, passVars,
                   run>>

\* The last critical section: the peer's connection, if it has one, moves from
\* its old window to the new one.
UpdateRiderGeohash ==
    /\ geoCall # None
    /\ geoCall.join = {}
    /\ geoCall' = None
    /\ LET p == geoCall.peer
           x == geoCall.cell
           rc == peerByID[p]
       IN IF rc = None
          THEN UNCHANGED <<centre, cellRiders>>
          ELSE /\ centre' = [centre EXCEPT ![rc] = x]
               /\ cellRiders' = MoveWindow(p, rc, x)
    /\ UNCHANGED <<handlerVars, socketVars, riders, peerByID, topicVars, passVars,
                   run, events>>

\* PublishToGeoCell joins the centre cell's topic and publishes on it.
PublishToGeoCell(x) ==
    /\ Event
    /\ geoTopics' \in {geoTopics, geoTopics \cup {x}}
    /\ UNCHANGED <<handlerVars, centre, socketVars, tableVars, cityTopics, passVars,
                   geoCall, run>>

------------------------------------------------------------------------------
(* Shutdown *)

\* The signal context is done: server.Shutdown stops the listener.
Stop ==
    /\ run = "serving"
    /\ Event
    /\ run' = "stopping"
    /\ UNCHANGED <<handlerVars, centre, socketVars, tableVars, topicVars, passVars,
                   geoCall>>

\* The end of Run: a close frame and closeSend for every rider, empty tables,
\* every topic left.
Reset ==
    /\ run = "stopping"
    /\ run' = "reset"
    /\ closed' = [c \in Conns |-> closed[c] \/ c \in riders]
    /\ riders' = {}
    /\ peerByID' = [p \in Peers |-> None]
    /\ cellRiders' = [x \in Cells |-> [p \in Peers |-> None]]
    /\ cityTopics' = {}
    /\ geoTopics' = {}
    /\ UNCHANGED <<handlerVars, centre, sent, pump, client, passVars, geoCall,
                   events>>

------------------------------------------------------------------------------
\* The goroutine of a connection: what it does without waiting for its client
\* or for a new connection.
Serve(c) ==
    \/ Admit(c) \/ UpgradeFails(c) \/ JoinCity(c)
    \/ Register(c) \/ Heartbeat(c) \/ Publish(c) \/ PublishRace(c)
    \/ BeginOwn(c) \/ DoneOwn(c) \/ ReadFails(c) \/ Cleanup(c) \/ Leave(c)

Handler(c) == CheckLimit(c) \/ Read(c) \/ Serve(c)

Connection(c) == PumpWrite(c) \/ PumpExit(c) \/ FlushInbox(c) \/ ClientGone(c)

Forwarding(t) == Deliver(t) \/ Evict(t) \/ CloseEvicted(t)

Api ==
    \/ \E p \in Peers, x \in Cells : SetLatLng(p, x)
    \/ JoinGeoCell
    \/ UpdateRiderGeohash
    \/ \E x \in Cells : PublishToGeoCell(x)

Next ==
    \/ \E c \in Conns : Handler(c) \/ Connection(c)
    \/ \E t \in Threads : Forwarding(t)
    \/ \E r \in Relays : BeginRelay(r) \/ DoneRelay(r)
    \/ Api
    \/ Stop \/ Reset

Spec == Init /\ [][Next]_vars
------------------------------------------------------------------------------
(* Fairness: goroutines that can run are run.  Clients, the API, the relays'  *)
(* messages and the signal are free to do nothing.  A socket operation cannot *)
(* block for ever: reads and writes have deadlines.                           *)
Fairness ==
    /\ \A c \in Conns : WF_vars(Serve(c) \/ Forwarding(c))
    /\ \A c \in Conns : WF_vars(PumpWrite(c) \/ PumpExit(c))
    /\ \A r \in Relays : WF_vars(Forwarding(r) \/ DoneRelay(r))

FairSpec == Spec /\ Fairness

------------------------------------------------------------------------------
(* Invariants *)

MaybeConn == Conns \cup {None}

\* The type of every variable.
TypeOK ==
    /\ stage \in [Conns -> Stages]
    /\ city \in [Conns -> Cities \cup {None}]
    /\ peerId \in [Conns -> Peers \cup {None}]
    /\ centre \in [Conns -> Cells \cup {None}]
    /\ hasTopic \in [Conns -> BOOLEAN]
    /\ msg \in [Conns -> Message]
    /\ place \in [Conns -> Cells \cup {None}]
    /\ sent \in [Conns -> 0 .. SendBuffer]
    /\ closed \in [Conns -> BOOLEAN]
    /\ pump \in [Conns -> {"off", "run", "done"}]
    /\ client \in [Conns -> {"up", "gone"}]
    /\ inbox \in [Conns -> 0 .. InboxCap]
    /\ riders \subseteq Conns
    /\ peerByID \in [Peers -> MaybeConn]
    /\ cellRiders \in [Cells -> [Peers -> MaybeConn]]
    /\ cityTopics \subseteq Cities
    /\ geoTopics \subseteq Cells
    /\ pass \in [Threads -> {"none", "geo", "city", "all"}]
    /\ todo \in [Threads -> SUBSET Conns]
    /\ failed \in [Threads -> MaybeConn]
    /\ removed \in [Threads -> MaybeConn]
    /\ geoCall \in {None} \cup [peer : Peers, cell : Cells, join : SUBSET Cells]
    /\ run \in {"serving", "stopping", "reset"}
    /\ events \in 0 .. MaxEvents

\* Stages in which a connection can be the value of peerByID or cellRiders.
Reachable == {"reading", "routing", "geo", "city", "all", "leaving"}

\* The three tables hold a connection only between its admission and its
\* cleanup, under the name it announced and in the cells of its own window.
TablesMatch ==
    /\ \A c \in riders : stage[c] \in Inserted
    /\ \A p \in Peers : peerByID[p] # None =>
        /\ peerId[peerByID[p]] = p
        /\ stage[peerByID[p]] \in Reachable
    /\ \A x \in Cells, p \in Peers : cellRiders[x][p] # None =>
        /\ peerId[cellRiders[x][p]] = p
        /\ stage[cellRiders[x][p]] \in Reachable
        /\ x \in GeoCells(cellRiders[x][p])

\* No orphan: a connection whose handler is still serving it, and which is no
\* longer in b.riders (evicted, or dropped by shutdown), has its send channel
\* closed or about to be closed by the goroutine that evicted it.
NoOrphan ==
    \A c \in Conns : stage[c] \in Inserted /\ c \notin riders =>
        closed[c] \/ \E t \in Threads : removed[t] = c

\* A rider in the table that has registered its name is reachable by it,
\* unless another connection announced the same name: one client's eviction,
\* departure or location update never unregisters another client.
LostOnlyByHandover ==
    \A c \in riders : peerId[c] # None /\ stage[c] # "naming" =>
        \/ peerByID[peerId[c]] = c
        \/ \E d \in Conns \ {c} : peerId[d] = peerId[c]

\* Likewise for nearby messages: such a rider with a location is registered in
\* every cell of its window.
WindowComplete ==
    \A c \in riders : centre[c] # None =>
        \/ \A x \in GeoCells(c) : cellRiders[x][peerId[c]] = c
        \/ \E d \in Conns \ {c} : peerId[d] = peerId[c]

------------------------------------------------------------------------------
(* Liveness *)

\* A connection that was evicted or shut down, or whose client went away, is
\* reaped: its handler cleans up and returns.
Reaped ==
    \A c \in Conns :
        (stage[c] \in Inserted /\ (closed[c] \/ client[c] = "gone"))
            ~> stage[c] = "gone"

------------------------------------------------------------------------------
(* Refinement *)

\* How far a handler has come, and what the tables add to it.
Phase(c) == CASE stage[c] \in {"absent", "upgrading"} -> "new"
              [] stage[c] \in {"closing", "gone"} -> "finished"
              [] stage[c] \in Inserted /\ c \in riders -> "serving"
              [] OTHER -> "cut"

Dir == INSTANCE Directory WITH
           phase <- [c \in Conns |-> Phase(c)], name <- peerId, entry <- peerByID

\* The bridge keeps the promises of Directory.
KeepsDirectory == Dir!Spec

\* And, with its goroutines scheduled, finishes every connection it cut.
KeepsDirectoryLive == Dir!FairSpec

=============================================================================
