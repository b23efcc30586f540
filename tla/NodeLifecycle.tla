----------------------------- MODULE NodeLifecycle -----------------------------
(***************************************************************************)
(* The life of a mobile node and of its connection to the bootstrap node   *)
(* (p2pmobile/node.go): Start and Stop, the upgrade goroutine that ends as *)
(* keepAlive, the goroutines that restore the connection and refresh what  *)
(* the node advertises, and changes of the device's network.               *)
(*                                                                         *)
(* Start and Stop hold n.mu throughout, dials and host.Close included; the *)
(* goroutines take n.mu for a moment, read n.host, and dial or reserve     *)
(* without it.  Nobody waits for them: they may outlive a Stop and work on *)
(* with what a later Start has put into n.host and n.ctx.                  *)
(*                                                                         *)
(* There is one bootstrap node.  A network is a number; a connection keeps *)
(* the number of the network it was dialled over and may look connected    *)
(* after that network has gone.  What is known of libp2p: a connection     *)
(* that ends takes its relay reservation with it and calls DisconnectedF   *)
(* from a goroutine of its own; host.Close closes the connections and      *)
(* waits for these calls; everything on a closed host fails.               *)
(*                                                                         *)
(* A definition marked "Bug" is part of no behaviour: it is a mistake in   *)
(* the definition below it that one of the properties would reveal.        *)
(***************************************************************************)
EXTENDS Integers

CONSTANTS
    None,        \* no connection
    MaxWorkers,  \* bound of the model: reconnecting goroutines at a time
    MaxStarts,   \* bound of the model: hosts created
    MaxEvents    \* bound of the model: restarts, changes of the network, dials that
                 \* fail, connections lost and reservations refused, altogether

ASSUME NodeNone == None \notin Nat

ASSUME NodeBounds ==
    /\ MaxWorkers \in Nat \ {0}
    /\ MaxStarts \in Nat
    /\ MaxEvents \in Nat

\* The upgrade goroutine of the i-th Start is task i; a worker is a goroutine of
\* DisconnectedF, of keepAlive's refresh, or a call of OnNetworkChanged.
Upgrades == 1 .. MaxStarts
Workers == MaxStarts + 1 .. MaxStarts + MaxWorkers
Tasks == Upgrades \cup Workers
Nets == 0 .. MaxEvents

VARIABLES
    api,        \* what Start or Stop is doing; n.mu is held unless it is "idle"
    gen,        \* the host in n.host and the context in n.ctx, numbered
    running, cancelled, relayReady,
    real,       \* extraAddrs has the port of n.host on this network (not: on others)
    circuit,    \* extraAddrs has the relay circuit address
    open,       \* the host in n.host is open
    conn,       \* its bootstrap connection, by network
    reserved,   \* the bootstrap node holds a relay slot for it
    callback,   \* a DisconnectedF call has not got hold of n.mu yet
    net,        \* the network the device is in
    told,       \* OnNetworkChanged has been called for it
    pc,
    host,       \* the host a task has read from n.host, or the context it selects on
    events,     \* bound of the model
    refused,    \* history: the relay refused a reservation
    unseen      \* history: the connection was made by a dial that refreshes nothing

fieldVars == <<gen, running, cancelled, relayReady>>
addrVars == <<real, circuit>>
linkVars == <<conn, reserved>>
netVars == <<net, told>>
taskVars == <<pc, host>>
historyVars == <<refused, unseen>>
vars == <<api, fieldVars, addrVars, open, linkVars, callback, netVars, taskVars, events,
          historyVars>>

PCs == {"none", "ensure", "dial", "backoff", "redial", "discover", "reserve", "reserving",
        "circuit", "keep", "tick", "renewing", "done"}

Free == api = "idle"

\* A step of a task.  It reads n.host before it dials or reserves, and n.ctx
\* before keepAlive selects.
Goes(t, next) ==
    /\ pc' = [pc EXCEPT ![t] = next]
    /\ host' = [host EXCEPT ![t] =
                  IF next \in {"dial", "redial", "reserving", "renewing", "tick", "keep"}
                  THEN gen ELSE 0]

\* At most so many things happen to the node or go wrong.
Event == events < MaxEvents /\ events' = events + 1

Init ==
    /\ api = "idle"
    /\ gen = 0 /\ running = FALSE /\ cancelled = FALSE /\ relayReady = FALSE
    /\ real = FALSE /\ circuit = FALSE
    /\ open = FALSE
    /\ conn = None /\ reserved = FALSE
    /\ callback = FALSE
    /\ net = 0 /\ told = TRUE
    /\ pc = [t \in Tasks |-> "none"]
    /\ host = [t \in Tasks |-> 0]
    /\ events = 0
    /\ refused = FALSE /\ unseen = FALSE

------------------------------------------------------------------------------
(* Start *)

\* A new context and a new host.  relayReady and the extra addresses keep what
\* an earlier run of the node has left, with that run's port.  (An error before
\* there is a host leaves the node stopped, with a context only goroutines of an
\* earlier run could use, whose host is closed.)
Start ==
    /\ Free /\ ~running
    /\ gen < MaxStarts
    /\ IF gen = 0 THEN UNCHANGED events ELSE Event
    /\ api' = "connect"
    /\ gen' = gen + 1
    /\ cancelled' = FALSE
    /\ open' = TRUE
    /\ real' = FALSE
    /\ UNCHANGED <<running, relayReady, circuit, linkVars, callback, netVars, taskVars, historyVars>>

\* Phase 2: Connect, up to 60 s, or none in reach
StartConnect ==
    /\ api = "connect"
    /\ api' = "pubsub"
    /\ \/ conn' = (IF conn = None THEN net ELSE conn) /\ UNCHANGED events
       \/ Event /\ UNCHANGED conn
    /\ UNCHANGED <<fieldVars, addrVars, open, reserved, callback, netVars, taskVars,
                   historyVars>>

\* Phases 3 and 4: GossipSub, then the upgrade goroutine
StartReturns ==
    /\ api = "pubsub"
    /\ api' = "idle"
    /\ running' = TRUE
    /\ Goes(gen, "ensure")
    /\ UNCHANGED <<gen, cancelled, relayReady, addrVars, open, linkVars, callback,
                   netVars, events, historyVars>>

\* GossipSub cannot be created: the host is closed, the context is not cancelled.
StartFails ==
    /\ api = "pubsub"
    /\ Event
    /\ api' = "close"
    /\ UNCHANGED <<fieldVars, addrVars, open, linkVars, callback, netVars, taskVars,
                   historyVars>>

------------------------------------------------------------------------------
(* Stop *)

\* Bug: n.running stays.
StopOnce ==
    /\ Free /\ running
    /\ api' = "close"
    /\ cancelled' = TRUE
    /\ UNCHANGED <<gen, running, relayReady, addrVars, open, linkVars, callback,
                   netVars, taskVars, events, historyVars>>

\* Topics, subscriptions and the DHT are closed and the context is cancelled;
\* relayReady and the extra addresses stay.
Stop ==
    /\ Free /\ running
    /\ api' = "close"
    /\ running' = FALSE
    /\ cancelled' = TRUE
    /\ UNCHANGED <<gen, relayReady, addrVars, open, linkVars, callback, netVars,
                   taskVars, events, historyVars>>

\* host.Close closes the connections ...
CloseHost ==
    /\ api = "close"
    /\ api' = "wait"
    /\ open' = FALSE
    /\ conn' = None
    /\ reserved' = FALSE
    /\ callback' = (callback \/ conn # None)
    /\ UNCHANGED <<fieldVars, addrVars, netVars, taskVars, events, historyVars>>

\* ... and waits for DisconnectedF, which waits for n.mu.
CloseReturns ==
    /\ api = "wait"
    /\ ~callback
    /\ api' = "idle"
    /\ UNCHANGED <<fieldVars, addrVars, open, linkVars, callback, netVars, taskVars,
                   events, historyVars>>

------------------------------------------------------------------------------
(* The network *)

ChangeNetwork ==
    /\ Event
    /\ net' = net + 1
    /\ told' = FALSE
    /\ real' = FALSE
    /\ UNCHANGED <<api, fieldVars, circuit, open, linkVars, callback, taskVars,
                   historyVars>>

\* A connection is lost; one over a network that has gone is noticed to be, at
\* last.
Lose ==
    /\ conn # None
    /\ ~callback
    /\ IF conn = net THEN Event ELSE UNCHANGED events
    /\ conn' = None
    /\ reserved' = FALSE
    /\ callback' = TRUE
    /\ UNCHANGED <<api, fieldVars, addrVars, open, netVars, taskVars, historyVars>>

\* A worker starts, if there is one.
Spawn(next) ==
    \E w \in Workers :
        /\ pc[w] = "none" /\ \A v \in Workers : v < w => pc[v] # "none"
        /\ Goes(w, next)

\* DisconnectedF of the bootstrap connection reads n.running under n.mu.
Disconnected ==
    /\ callback /\ Free
    /\ callback' = FALSE
    /\ IF running THEN Spawn("backoff") ELSE UNCHANGED taskVars
    /\ UNCHANGED <<api, fieldVars, addrVars, open, linkVars, netVars, events,
                   historyVars>>

\* Bug: the addresses are left to DisconnectedF to find, which may have found
\* them already.
NetworkChangedClears ==
    /\ ~told /\ Free
    /\ told' = TRUE
    /\ IF running THEN real' = FALSE /\ circuit' = FALSE ELSE UNCHANGED addrVars
    /\ UNCHANGED <<api, fieldVars, open, linkVars, callback, net, taskVars, events,
                   historyVars>>

\* The app calls OnNetworkChanged, which does nothing unless the node runs.  It
\* forgets every extra address (and closes all other connections and the pooled
\* streams: StreamPool).
NetworkChanged ==
    /\ ~told /\ Free
    /\ told' = TRUE
    /\ IF running THEN /\ real' = FALSE /\ circuit' = FALSE
                       /\ Spawn("ensure")
       ELSE UNCHANGED <<addrVars, taskVars>>
    /\ UNCHANGED <<api, fieldVars, open, linkVars, callback, net, events, historyVars>>

\* Another dial makes the connection: dialPeer's last step, over the relay.
OtherDial ==
    /\ running /\ open
    /\ conn = None
    /\ conn' = net
    /\ unseen' = TRUE
    /\ UNCHANGED <<api, fieldVars, addrVars, open, reserved, callback, netVars,
                   taskVars, events, refused>>

------------------------------------------------------------------------------
(* The steps of a goroutine *)

\* A dial over the host h succeeds at once when it is connected.
Connects(h) ==
    /\ h = gen /\ open
    /\ conn' = (IF conn = None THEN net ELSE conn)

\* ensureBootstrap returns at once when it sees a connection, whichever network
\* that was made over ...
Ensure(t) ==
    /\ pc[t] = "ensure" /\ Free
    /\ Goes(t, IF conn # None THEN "discover" ELSE "dial")
    /\ UNCHANGED <<api, fieldVars, addrVars, open, linkVars, callback, netVars, events,
                   historyVars>>

\* ... and else dials the host it has read, up to five times.
Dial(t) ==
    /\ pc[t] = "dial"
    /\ Connects(host[t])
    /\ Goes(t, "discover")
    /\ UNCHANGED <<api, fieldVars, addrVars, open, reserved, callback, netVars, events,
                   historyVars>>

DialFails(t) ==
    /\ pc[t] = "dial"
    /\ IF host[t] = gen /\ open /\ ~cancelled THEN Event ELSE UNCHANGED events
    /\ Goes(t, "discover")
    /\ UNCHANGED <<api, fieldVars, addrVars, open, linkVars, callback, netVars,
                   historyVars>>

\* The goroutine of DisconnectedF: 2 s, then one dial of whatever host there is
Backoff(t) ==
    /\ pc[t] = "backoff"
    /\ Goes(t, "redial")
    /\ UNCHANGED <<api, fieldVars, addrVars, open, linkVars, callback, netVars, events,
                   historyVars>>

Redial(t) ==
    /\ pc[t] = "redial"
    /\ Connects(host[t])
    /\ Goes(t, "discover")
    /\ UNCHANGED <<api, fieldVars, addrVars, open, reserved, callback, netVars, events,
                   historyVars>>

RedialFails(t) ==
    /\ pc[t] = "redial"
    /\ IF host[t] = gen /\ open /\ ~cancelled THEN Event ELSE UNCHANGED events
    /\ Goes(t, "none")
    /\ UNCHANGED <<api, fieldVars, addrVars, open, linkVars, callback, netVars,
                   historyVars>>

\* discoverRealAddrs: the local address of the connection, with the host's port
Discover(t) ==
    /\ pc[t] = "discover" /\ Free
    /\ IF conn = None THEN UNCHANGED <<real, unseen>>
       ELSE /\ real' = (real \/ conn = net)
            /\ unseen' = FALSE
    /\ Goes(t, "reserve")
    /\ UNCHANGED <<api, fieldVars, circuit, open, linkVars, callback, netVars, events,
                   refused>>

\* reserveRelayOnBootstrap, for keepAlive's relay ticker as well: the request
\* goes out over the connection the host has then, ...
Reserve(t) ==
    /\ Free
    /\ \/ pc[t] = "reserve" /\ Goes(t, IF conn = None THEN "circuit" ELSE "reserving")
       \/ pc[t] = "keep" /\ conn # None /\ Goes(t, "renewing")
    /\ UNCHANGED <<api, fieldVars, addrVars, open, linkVars, callback, netVars, events,
                   historyVars>>

\* ... is granted and noted under n.mu, ...
Granted(t) ==
    /\ Free
    /\ host[t] = gen /\ open /\ conn = net
    /\ reserved' = TRUE
    /\ relayReady' = TRUE
    /\ \/ pc[t] = "reserving" /\ Goes(t, "circuit")
       \/ pc[t] = "renewing" /\ Goes(t, "keep")
    /\ UNCHANGED <<api, gen, running, cancelled, addrVars, open, conn, callback, netVars,
                   events, historyVars>>

\* ... or refused, or lost with the host, the connection or the network.
NotGranted(t) ==
    /\ \/ pc[t] = "reserving" /\ Goes(t, "circuit")
       \/ pc[t] = "renewing" /\ Goes(t, "keep")
    /\ IF host[t] = gen /\ open /\ conn = net THEN Event /\ refused' = TRUE
       ELSE UNCHANGED <<events, refused>>
    /\ UNCHANGED <<api, fieldVars, addrVars, open, linkVars, callback, netVars, unseen>>

\* addRelayCircuitAddrs looks at relayReady, which nothing resets, and not at
\* the reservation.  An upgrade then starts the DHT, on which nothing here
\* depends, and becomes keepAlive.
Circuit(t) ==
    /\ pc[t] = "circuit" /\ Free
    /\ circuit' = (circuit \/ (relayReady /\ conn # None))
    /\ Goes(t, IF t \in Upgrades THEN "keep" ELSE "none")
    /\ UNCHANGED <<api, fieldVars, real, open, linkVars, callback, netVars, events,
                   historyVars>>

------------------------------------------------------------------------------
(* keepAlive *)

\* The context it selects on is cancelled, as is every one but the last.
KeepEnds(t) ==
    /\ pc[t] = "keep"
    /\ host[t] # gen \/ cancelled
    /\ Goes(t, "done")
    /\ UNCHANGED <<api, fieldVars, addrVars, open, linkVars, callback, netVars, events,
                   historyVars>>

\* The connection ticker, which select may prefer to a cancelled context: it
\* selects on the n.ctx of that moment afterwards.
KeepTick(t) ==
    /\ pc[t] = "keep" /\ Free
    /\ Goes(t, IF ~running THEN "done" ELSE IF conn = None THEN "tick" ELSE "keep")
    /\ UNCHANGED <<api, fieldVars, addrVars, open, linkVars, callback, netVars, events,
                   historyVars>>

\* It reconnects, and a goroutine refreshes what the node advertises.
KeepDial(t) ==
    /\ pc[t] = "tick"
    /\ Connects(host[t])
    /\ \E w \in Workers :
        /\ pc[w] = "none" /\ \A v \in Workers : v < w => pc[v] # "none"
        /\ pc' = [pc EXCEPT ![t] = "keep", ![w] = "discover"]
        /\ host' = [host EXCEPT ![t] = gen]
    /\ UNCHANGED <<api, fieldVars, addrVars, open, reserved, callback, netVars, events,
                   historyVars>>

KeepDialFails(t) ==
    /\ pc[t] = "tick"
    /\ IF host[t] = gen /\ open /\ ~cancelled THEN Event ELSE UNCHANGED events
    /\ Goes(t, "keep")
    /\ UNCHANGED <<api, fieldVars, addrVars, open, linkVars, callback, netVars,
                   historyVars>>

------------------------------------------------------------------------------
Starting == StartConnect \/ StartReturns \/ StartFails

Closing == CloseHost \/ CloseReturns

Working(t) ==
    \/ Ensure(t) \/ Dial(t) \/ DialFails(t) \/ Backoff(t) \/ Redial(t) \/ RedialFails(t)
    \/ Discover(t) \/ Reserve(t) \/ Granted(t) \/ NotGranted(t) \/ Circuit(t)
    \/ KeepEnds(t) \/ KeepTick(t) \/ KeepDial(t) \/ KeepDialFails(t)

Next ==
    \/ Start \/ Starting \/ Stop \/ Closing
    \/ ChangeNetwork \/ Lose \/ Disconnected \/ NetworkChanged \/ OtherDial
    \/ \E t \in Tasks : Working(t)

\* Goroutines run (a tick of keepAlive that changes nothing holds up neither of
\* its tickers), a dead connection is noticed in the end, and the app reports
\* every change of the network.  Nothing is assumed of calls of Start and Stop.
Fairness ==
    /\ WF_vars(Starting) /\ WF_vars(Closing)
    /\ WF_vars(Disconnected) /\ WF_vars(NetworkChanged)
    /\ WF_vars(conn # net /\ Lose)
    /\ \A t \in Tasks : WF_vars(Working(t))

Spec == Init /\ [][Next]_vars /\ Fairness

------------------------------------------------------------------------------
(* Invariants *)

\* The type of every variable.  A running node has an open host, a closed host
\* has no connection, and there is no reservation without one.
TypeOK ==
    /\ api \in {"idle", "connect", "pubsub", "close", "wait"}
    /\ gen \in 0 .. MaxStarts
    /\ running \in BOOLEAN /\ cancelled \in BOOLEAN /\ relayReady \in BOOLEAN
    /\ running => open /\ ~cancelled
    /\ real \in BOOLEAN /\ circuit \in BOOLEAN
    /\ open \in BOOLEAN
    /\ conn \in Nets \cup {None} /\ (conn # None => open)
    /\ reserved \in BOOLEAN /\ (reserved => conn # None)
    /\ callback \in BOOLEAN
    /\ net \in Nets /\ told \in BOOLEAN
    /\ pc \in [Tasks -> PCs]
    /\ host \in [Tasks -> 0 .. MaxStarts]
    /\ events \in 0 .. MaxEvents
    /\ refused \in BOOLEAN /\ unseen \in BOOLEAN

------------------------------------------------------------------------------
(* Liveness *)

\* Other peers can reach a node that keeps running, once the network stops
\* changing: it is connected to the bootstrap node over the network it is in,
\* holds a relay slot, and advertises its address on that network and the
\* circuit address; however often the connection was lost, whoever restored it,
\* and whatever goroutines of an earlier run are still about.  There are two
\* exceptions: a dial over the relay restored the connection (nobody looks at
\* its address), and the relay once refused a reservation (the relay ticker
\* gets one, but adds no circuit address).
Reachable ==
    <>[](running /\ Free) =>
        <>[](/\ conn = net
             /\ reserved
             /\ unseen \/ real
             /\ unseen \/ refused \/ circuit)

------------------------------------------------------------------------------
(* What the comments say *)

\* node.go: "Stop shuts down the node."  A call of Stop returns, and n.mu is free
\* again, whatever connections are open and whatever goroutines are about.
StopReturns == (api = "close" /\ cancelled) ~> Free
=============================================================================
