---------------------------- MODULE DriverBridge ----------------------------
(***************************************************************************)
(* The driver WebSocket bridge and its per-peer queue                      *)
(* (internal/driverbridge): admission, identification and the flush of the *)
(* peer's queue, Forward with a target or to everyone, the peer_count      *)
(* broadcast of every connect and disconnect, clean-up and shutdown.       *)
(*                                                                         *)
(* A frame is written under dc.mu straight to the socket, so one write is  *)
(* one action.  A targeted message is a number, given in order of arrival; *)
(* the content of every other frame is left out.  A driver's own messages  *)
(* change nothing here beyond naming the connection: they go to Gossipsub  *)
(* and to the rider bridge.                                                *)
(*                                                                         *)
(* A definition marked "Bug" is part of no behaviour: it is a mistake in   *)
(* the definition below it that one of the properties would reveal.        *)
(***************************************************************************)
EXTENDS Integers, Sequences, FiniteSets

CONSTANTS
    Conns,      \* WebSocket connections, each used once
    Peers,      \* peer identifiers drivers announce
    Relays,     \* goroutines that call Forward
    None,       \* Go's nil and ""
    MaxConns,   \* maxDriverConnections (1000)
    QueueCap,   \* maxQueuedPerPeer (50)
    MaxEvents   \* bound of the model: events from outside the bridge

ASSUME DriverNone ==
    /\ None \notin Conns \cup Peers \cup Relays
    /\ Conns \cap Relays = {}

ASSUME DriverBounds ==
    /\ MaxConns \in Nat \ {0}
    /\ QueueCap \in Nat \ {0}
    /\ MaxEvents \in Nat

VARIABLES
    \* driverConn and its handler
    stage,      \* program counter of handleDriver
    peerId,     \* dc.peerId
    socket,     \* "open", "broken" (writes and reads may fail), "closed" by the bridge
    flush,      \* messages FlushTo drained and has not sent yet
    wire,       \* targeted messages written to the connection, in order
    \* Bridge
    drivers,    \* keys of b.drivers
    peerByID,   \* b.peerByID
    queue,      \* PeerQueue.queues
    \* Forward and broadcastPeerCount
    pc,         \* what a goroutine is doing
    job,        \* message and target of a targeted Forward
    victim,     \* the connection Forward is writing to, or removing
    todo,       \* rest of a broadcast's snapshot
    dead,       \* connections broadcastPeerCount could not write to
    run,        \* Run: "serving", "stopping", "reset"
    sentCount,  \* number of targeted messages that have arrived
    events      \* bound of the model: events so far

handlerVars == <<stage, peerId, flush>>
tableVars == <<drivers, peerByID>>
threadVars == <<pc, job, victim, todo, dead>>
vars == <<handlerVars, socket, wire, tableVars, queue, threadVars, run, sentCount,
          events>>

Threads == Conns \cup Relays

NoJob == [id |-> 0, to |-> None]

\* Stages between the first critical section and the deferred clean-up's.
Inserted == {"counting", "reading", "naming", "draining", "flushing", "leaving"}
Stages == {"absent", "upgrading", "closing", "farewell", "gone"} \cup Inserted

------------------------------------------------------------------------------
(* Helpers *)

Event == events < MaxEvents /\ events' = events + 1

\* Bug: the name is not forgotten.
PeerKept(c) == peerByID

\* delete(b.peerByID, dc.peerId): whatever connection the entry names
PeerForgotten(c) == [p \in Peers |-> IF p = peerId[c] THEN None ELSE peerByID[p]]

\* Bug: the connection stays in b.drivers.
UnlinkName(c) ==
    /\ drivers' = drivers
    /\ peerByID' = PeerForgotten(c)

\* The connection leaves b.drivers, and its name b.peerByID.
Unlink(c) ==
    /\ drivers' = drivers \ {c}
    /\ peerByID' = PeerForgotten(c)

\* Bug: the queue has no limit.
Unbounded(q, m) == Append(q, m)

\* PeerQueue.Enqueue: the oldest message makes room for the new one.
Enqueued(q, m) == Append(IF Len(q) >= QueueCap THEN Tail(q) ELSE q, m)

\* Outcomes of a write under dc.mu: a closed socket refuses it, a broken one
\* may or may not have noticed.
WriteOk(c) == socket[c] \in {"open", "broken"}
WriteFails(c) == socket[c] \in {"broken", "closed"}

------------------------------------------------------------------------------
Init ==
    /\ stage = [c \in Conns |-> "absent"]
    /\ peerId = [c \in Conns |-> None]
    /\ socket = [c \in Conns |-> "open"]
    /\ flush = [c \in Conns |-> <<>>]
    /\ wire = [c \in Conns |-> <<>>]
    /\ drivers = {}
    /\ peerByID = [p \in Peers |-> None]
    /\ queue = [p \in Peers |-> <<>>]
    /\ pc = [t \in Threads |-> "idle"]
    /\ job = [t \in Threads |-> NoJob]
    /\ victim = [t \in Threads |-> None]
    /\ todo = [t \in Threads |-> {}]
    /\ dead = [t \in Threads |-> {}]
    /\ run = "serving"
    /\ sentCount = 0
    /\ events = 0

------------------------------------------------------------------------------
(* handleDriver *)

\* The limit is read under RLock and the lock released before the upgrade.
CheckLimit(c) ==
    /\ run = "serving"
    /\ stage[c] = "absent"
    /\ Cardinality(drivers) < MaxConns
    /\ stage' = [stage EXCEPT ![c] = "upgrading"]
    /\ UNCHANGED <<peerId, flush, socket, wire, tableVars, queue, threadVars, run,
                   sentCount, events>>

Admit(c) ==
    /\ stage[c] = "upgrading"
    /\ stage' = [stage EXCEPT ![c] = "counting"]
    /\ drivers' = drivers \cup {c}
    /\ UNCHANGED <<peerId, flush, socket, wire, peerByID, queue, threadVars, run,
                   sentCount, events>>

UpgradeFails(c) ==
    /\ stage[c] = "upgrading"
    /\ Event
    /\ stage' = [stage EXCEPT ![c] = "gone"]
    /\ UNCHANGED <<peerId, flush, socket, wire, tableVars, queue, threadVars, run,
                   sentCount>>

\* The first frame with a peer_id: dc.peerId is set before b.mu is taken.
Identify(c) ==
    /\ stage[c] = "reading"
    /\ peerId[c] = None
    /\ Event
    /\ \E p \in Peers : peerId' = [peerId EXCEPT ![c] = p]
    /\ stage' = [stage EXCEPT ![c] = "naming"]
    /\ UNCHANGED <<flush, socket, wire, tableVars, queue, threadVars, run, sentCount>>

Register(c) ==
    /\ stage[c] = "naming"
    /\ stage' = [stage EXCEPT ![c] = "draining"]
    /\ peerByID' = [peerByID EXCEPT ![peerId[c]] = c]
    /\ UNCHANGED <<peerId, flush, socket, wire, drivers, queue, threadVars, run,
                   sentCount, events>>

\* Bug: the queue is copied and not emptied.
Copy(c) ==
    /\ stage[c] = "draining"
    /\ stage' = [stage EXCEPT ![c] = "flushing"]
    /\ flush' = [flush EXCEPT ![c] = queue[peerId[c]]]
    /\ UNCHANGED <<peerId, socket, wire, tableVars, queue, threadVars, run, sentCount,
                   events>>

\* PeerQueue.FlushTo: Drain under q.mu ...
Drain(c) ==
    /\ stage[c] = "draining"
    /\ stage' = [stage EXCEPT ![c] = "flushing"]
    /\ flush' = [flush EXCEPT ![c] = queue[peerId[c]]]
    /\ queue' = [queue EXCEPT ![peerId[c]] = <<>>]
    /\ UNCHANGED <<peerId, socket, wire, tableVars, threadVars, run, sentCount, events>>

\* ... then one send for each; a message whose send fails is not kept.
FlushOne(c) ==
    /\ stage[c] = "flushing"
    /\ flush[c] # <<>>
    /\ \/ /\ WriteOk(c)
          /\ wire' = [wire EXCEPT ![c] = Append(@, Head(flush[c]))]
       \/ /\ WriteFails(c)
          /\ UNCHANGED wire
    /\ flush' = [flush EXCEPT ![c] = Tail(@)]
    /\ UNCHANGED <<stage, peerId, socket, tableVars, queue, threadVars, run, sentCount,
                   events>>

Flushed(c) ==
    /\ stage[c] = "flushing"
    /\ flush[c] = <<>>
    /\ stage' = [stage EXCEPT ![c] = "reading"]
    /\ UNCHANGED <<peerId, flush, socket, wire, tableVars, queue, threadVars, run,
                   sentCount, events>>

\* Bug: no read deadline, so a silent driver blocks the read for ever.
ReadFailsIfClosed(c) ==
    /\ stage[c] = "reading"
    /\ socket[c] = "closed"
    /\ stage' = [stage EXCEPT ![c] = "leaving"]
    /\ UNCHANGED <<peerId, flush, socket, wire, tableVars, queue, threadVars, run,
                   sentCount, events>>

\* ReadMessage fails: socket closed on either side, or the read deadline.
ReadFails(c) ==
    /\ stage[c] = "reading"
    /\ socket[c] # "open"
    /\ stage' = [stage EXCEPT ![c] = "leaving"]
    /\ UNCHANGED <<peerId, flush, socket, wire, tableVars, queue, threadVars, run,
                   sentCount, events>>

Cleanup(c) ==
    /\ stage[c] = "leaving"
    /\ stage' = [stage EXCEPT ![c] = "closing"]
    /\ Unlink(c)
    /\ UNCHANGED <<peerId, flush, socket, wire, queue, threadVars, run, sentCount,
                   events>>

CloseOwn(c) ==
    /\ stage[c] = "closing"
    /\ stage' = [stage EXCEPT ![c] = "farewell"]
    /\ socket' = [socket EXCEPT ![c] = "closed"]
    /\ UNCHANGED <<peerId, flush, wire, tableVars, queue, threadVars, run, sentCount,
                   events>>

\* The driver closes the connection or falls silent for good.
DriverGone(c) ==
    /\ stage[c] \in Inserted
    /\ socket[c] = "open"
    /\ Event
    /\ socket' = [socket EXCEPT ![c] = "broken"]
    /\ UNCHANGED <<handlerVars, wire, tableVars, queue, threadVars, run, sentCount>>

------------------------------------------------------------------------------
(* broadcastPeerCount, by a handler that has admitted or cleaned up *)

BeginCount(c) ==
    /\ stage[c] \in {"counting", "farewell"}
    /\ pc[c] = "idle"
    /\ pc' = [pc EXCEPT ![c] = "count"]
    /\ todo' = [todo EXCEPT ![c] = drivers]
    /\ UNCHANGED <<handlerVars, socket, wire, tableVars, queue, job, victim, dead, run,
                   sentCount, events>>

CountOne(c) ==
    /\ pc[c] = "count"
    /\ \E d \in todo[c] :
        /\ todo' = [todo EXCEPT ![c] = @ \ {d}]
        /\ \/ WriteOk(d) /\ UNCHANGED dead
           \/ WriteFails(d) /\ dead' = [dead EXCEPT ![c] = @ \cup {d}]
    /\ UNCHANGED <<handlerVars, socket, wire, tableVars, queue, pc, job, victim, run,
                   sentCount, events>>

\* Bug: dead connections are removed and not closed.
EndCountOpen(c) ==
    /\ pc[c] = "count"
    /\ todo[c] = {}
    /\ pc' = [pc EXCEPT ![c] = "idle"]
    /\ stage' = [stage EXCEPT ![c] = IF @ = "counting" THEN "reading" ELSE "gone"]
    /\ drivers' = drivers \ dead[c]
    /\ dead' = [dead EXCEPT ![c] = {}]
    /\ UNCHANGED <<peerId, flush, socket, wire, peerByID, queue, job, victim, todo, run,
                   sentCount, events>>

\* Dead connections are removed from drivers, not from peerByID, and closed.
EndCount(c) ==
    /\ pc[c] = "count"
    /\ todo[c] = {}
    /\ pc' = [pc EXCEPT ![c] = "idle"]
    /\ stage' = [stage EXCEPT ![c] = IF @ = "counting" THEN "reading" ELSE "gone"]
    /\ drivers' = drivers \ dead[c]
    /\ socket' = [d \in Conns |-> IF d \in dead[c] THEN "closed" ELSE socket[d]]
    /\ dead' = [dead EXCEPT ![c] = {}]
    /\ UNCHANGED <<peerId, flush, wire, peerByID, queue, job, victim, todo, run,
                   sentCount, events>>

------------------------------------------------------------------------------
(* Forward *)

\* A message with a target: the peer's connection is looked up under RLock.
ForwardTo(r, p) ==
    /\ pc[r] = "idle"
    /\ Event
    /\ sentCount' = sentCount + 1
    /\ job' = [job EXCEPT ![r] = [id |-> sentCount + 1, to |-> p]]
    /\ victim' = [victim EXCEPT ![r] = peerByID[p]]
    /\ pc' = [pc EXCEPT ![r] = IF peerByID[p] = None THEN "enqueue" ELSE "write"]
    /\ UNCHANGED <<handlerVars, socket, wire, tableVars, queue, todo, dead, run>>

\* The write under dc.mu.
WriteTarget(r) ==
    /\ pc[r] = "write"
    /\ \/ /\ WriteOk(victim[r])
          /\ wire' = [wire EXCEPT ![victim[r]] = Append(@, job[r].id)]
          /\ pc' = [pc EXCEPT ![r] = "idle"]
          /\ job' = [job EXCEPT ![r] = NoJob]
          /\ victim' = [victim EXCEPT ![r] = None]
       \/ /\ WriteFails(victim[r])
          /\ pc' = [pc EXCEPT ![r] = "remove"]
          /\ UNCHANGED <<wire, job, victim>>
    /\ UNCHANGED <<handlerVars, socket, tableVars, queue, todo, dead, run, sentCount,
                   events>>

\* A message for everyone: a snapshot of the drivers.
ForwardAll(r) ==
    /\ pc[r] = "idle"
    /\ Event
    /\ pc' = [pc EXCEPT ![r] = "all"]
    /\ todo' = [todo EXCEPT ![r] = drivers]
    /\ UNCHANGED <<handlerVars, socket, wire, tableVars, queue, job, victim, dead, run,
                   sentCount>>

WriteOne(r) ==
    /\ pc[r] = "all"
    /\ \E d \in todo[r] :
        /\ todo' = [todo EXCEPT ![r] = @ \ {d}]
        /\ \/ WriteOk(d) /\ UNCHANGED <<pc, victim>>
           \/ /\ WriteFails(d)
              /\ pc' = [pc EXCEPT ![r] = "remove"]
              /\ victim' = [victim EXCEPT ![r] = d]
    /\ UNCHANGED <<handlerVars, socket, wire, tableVars, queue, job, dead, run,
                   sentCount, events>>

\* A failed write: the connection leaves both tables ...
Remove(r) ==
    /\ pc[r] = "remove"
    /\ pc' = [pc EXCEPT ![r] = "close"]
    /\ Unlink(victim[r])
    /\ UNCHANGED <<handlerVars, socket, wire, queue, job, victim, todo, dead, run,
                   sentCount, events>>

\* Bug: the message whose write failed is not queued.
CloseAndDrop(r) ==
    /\ pc[r] = "close"
    /\ socket' = [socket EXCEPT ![victim[r]] = "closed"]
    /\ victim' = [victim EXCEPT ![r] = None]
    /\ pc' = [pc EXCEPT ![r] = "all"]
    /\ job' = [job EXCEPT ![r] = NoJob]
    /\ UNCHANGED <<handlerVars, wire, tableVars, queue, todo, dead, run, sentCount,
                   events>>

\* ... and is closed; a targeted message then goes to the peer's queue.
Close(r) ==
    /\ pc[r] = "close"
    /\ socket' = [socket EXCEPT ![victim[r]] = "closed"]
    /\ victim' = [victim EXCEPT ![r] = None]
    /\ pc' = [pc EXCEPT ![r] = IF job[r] = NoJob THEN "all" ELSE "enqueue"]
    /\ UNCHANGED <<handlerVars, wire, tableVars, queue, job, todo, dead, run, sentCount,
                   events>>

EndAll(r) ==
    /\ pc[r] = "all"
    /\ todo[r] = {}
    /\ pc' = [pc EXCEPT ![r] = "idle"]
    /\ UNCHANGED <<handlerVars, socket, wire, tableVars, queue, job, victim, todo, dead,
                   run, sentCount, events>>

\* PeerQueue.Enqueue
Enqueue(r) ==
    /\ pc[r] = "enqueue"
    /\ queue' = [queue EXCEPT ![job[r].to] = Enqueued(@, job[r].id)]
    /\ pc' = [pc EXCEPT ![r] = "idle"]
    /\ job' = [job EXCEPT ![r] = NoJob]
    /\ UNCHANGED <<handlerVars, socket, wire, tableVars, victim, todo, dead, run,
                   sentCount, events>>

------------------------------------------------------------------------------
(* Run, once its context is done *)

Stop ==
    /\ run = "serving"
    /\ Event
    /\ run' = "stopping"
    /\ UNCHANGED <<handlerVars, socket, wire, tableVars, queue, threadVars, sentCount>>

\* Bug: the drivers are forgotten and not closed.
ResetOpen ==
    /\ run = "stopping"
    /\ run' = "reset"
    /\ drivers' = {}
    /\ UNCHANGED <<handlerVars, socket, wire, peerByID, queue, threadVars, sentCount,
                   events>>

\* Every driver gets a close frame and is closed; peerByID is left as it is.
Reset ==
    /\ run = "stopping"
    /\ run' = "reset"
    /\ socket' = [c \in Conns |-> IF c \in drivers THEN "closed" ELSE socket[c]]
    /\ drivers' = {}
    /\ UNCHANGED <<handlerVars, wire, peerByID, queue, threadVars, sentCount, events>>

------------------------------------------------------------------------------
\* The goroutine of a connection: what it does without waiting for its driver
\* or for a new connection.
Serve(c) ==
    \/ Admit(c) \/ UpgradeFails(c) \/ Register(c) \/ Drain(c) \/ FlushOne(c)
    \/ Flushed(c) \/ ReadFails(c) \/ Cleanup(c) \/ CloseOwn(c)
    \/ BeginCount(c) \/ CountOne(c) \/ EndCount(c)

Handler(c) == CheckLimit(c) \/ Identify(c) \/ Serve(c)

\* The rest of a call of Forward, once it has begun.
FinishForward(r) ==
    WriteTarget(r) \/ WriteOne(r) \/ Remove(r) \/ Close(r) \/ EndAll(r) \/ Enqueue(r)

Relay(r) ==
    \/ \E p \in Peers : ForwardTo(r, p)
    \/ ForwardAll(r)
    \/ FinishForward(r)

Next ==
    \/ \E c \in Conns : Handler(c) \/ DriverGone(c)
    \/ \E r \in Relays : Relay(r)
    \/ Stop \/ Reset

Spec == Init /\ [][Next]_vars
------------------------------------------------------------------------------
(* Fairness: a goroutine that can run is run.  Drivers, senders and the       *)
(* signal need not act.  Writes and reads have deadlines, so none blocks for  *)
(* ever.                                                                      *)

Fairness ==
    /\ \A c \in Conns : WF_vars(Serve(c))
    /\ \A r \in Relays : WF_vars(FinishForward(r))

FairSpec == Spec /\ Fairness

------------------------------------------------------------------------------
(* Invariants *)

MaybeConn == Conns \cup {None}

\* The type of every variable.
TypeOK ==
    /\ stage \in [Conns -> Stages]
    /\ peerId \in [Conns -> Peers \cup {None}]
    /\ socket \in [Conns -> {"open", "broken", "closed"}]
    /\ flush \in [Conns -> Seq(Nat)]
    /\ wire \in [Conns -> Seq(Nat)]
    /\ drivers \subseteq Conns
    /\ peerByID \in [Peers -> MaybeConn]
    /\ queue \in [Peers -> Seq(Nat)]
    /\ \A p \in Peers : Len(queue[p]) <= QueueCap
    /\ pc \in [Threads -> {"idle", "count", "write", "all", "remove", "close", "enqueue"}]
    /\ job \in [Threads -> [id : Nat, to : Peers \cup {None}]]
    /\ victim \in [Threads -> MaybeConn]
    /\ todo \in [Threads -> SUBSET Conns]
    /\ dead \in [Threads -> SUBSET Conns]
    /\ run \in {"serving", "stopping", "reset"}
    /\ sentCount \in 0 .. MaxEvents
    /\ events \in 0 .. MaxEvents

Reachable == {"reading", "draining", "flushing", "leaving"}

\* Both tables hold a connection only between its admission and its clean-up,
\* and peerByID only under the name the connection announced.
TablesMatch ==
    /\ \A c \in drivers : stage[c] \in Inserted
    /\ \A p \in Peers : peerByID[p] # None =>
        /\ peerId[peerByID[p]] = p
        /\ stage[peerByID[p]] \in Reachable

\* A connection still served and no longer in b.drivers is closed, or about to
\* be closed by the goroutine that removed it.
NoOrphan ==
    \A c \in Conns : stage[c] \in Inserted /\ c \notin drivers =>
        \/ socket[c] = "closed"
        \/ \E r \in Relays : pc[r] = "close" /\ victim[r] = c

\* A driver in the table that has registered its name is reachable by it,
\* unless another connection announced the same name.
LostOnlyByHandover ==
    \A c \in drivers : peerId[c] # None /\ stage[c] # "naming" =>
        \/ peerByID[peerId[c]] = c
        \/ \E d \in Conns \ {c} : peerId[d] = peerId[c]

\* Where message m stands in the sequences of a family.
PlacesIn(kind, family, m) ==
    UNION {{<<kind, x, i>> : i \in {i \in DOMAIN family[x] : family[x][i] = m}} :
           x \in DOMAIN family}

\* Where a targeted message is.  One written to a connection whose driver is
\* gone counts as on the wire: nothing in the code can tell.
Places(m) ==
    {<<"job", r>> : r \in {r \in Relays : job[r].id = m}}
    \cup PlacesIn("queue", queue, m) \cup PlacesIn("flush", flush, m)
    \cup PlacesIn("wire", wire, m)

\* A targeted message is in one place at most: failed writes, queueing and
\* flushes to a new connection never duplicate it.
NeverTwice == \A m \in 1 .. sentCount : Cardinality(Places(m)) <= 1

------------------------------------------------------------------------------
(* Action properties *)

\* A targeted message disappears in two ways only: it is the oldest of a full
\* queue, or its send to the new connection fails during the flush.
LossExplained ==
    [][\A m \in 1 .. sentCount : Places(m) # {} /\ Places(m)' = {} =>
        \/ \E p \in Peers : Len(queue[p]) = QueueCap /\ Head(queue[p]) = m
        \/ \E c \in Conns : /\ flush[c] # <<>>
                            /\ Head(flush[c]) = m
                            /\ socket[c] # "open"]_vars

------------------------------------------------------------------------------
(* Liveness *)

\* A connection whose socket is closed, or whose driver went away, is reaped.
Reaped ==
    \A c \in Conns :
        (stage[c] \in Inserted /\ socket[c] # "open") ~> stage[c] = "gone"

------------------------------------------------------------------------------
(* Refinement *)

\* How far a handler has come, and what the table adds to it.
Phase(c) == CASE stage[c] \in {"absent", "upgrading"} -> "new"
              [] stage[c] \in {"closing", "farewell", "gone"} -> "finished"
              [] stage[c] \in Inserted /\ c \in drivers -> "serving"
              [] OTHER -> "cut"

Dir == INSTANCE Directory WITH
           phase <- [c \in Conns |-> Phase(c)], name <- peerId, entry <- peerByID

\* The bridge keeps the promises of Directory.
KeepsDirectory == Dir!Spec

\* And, with its goroutines scheduled, finishes every connection it cut.
KeepsDirectoryLive == Dir!FairSpec

------------------------------------------------------------------------------
(* What the comments say *)

\* peer_queue.go: "When a peer reconnects, queued messages are delivered to
\* their new connection".  With no goroutine in the middle of anything, a peer
\* that is connected has nothing left in its queue.
QueuedAreDelivered ==
    (\A t \in Threads : pc[t] = "idle") =>
        \A p \in Peers : peerByID[p] # None =>
            \/ queue[p] = <<>>
            \/ stage[peerByID[p]] # "reading"
            \/ socket[peerByID[p]] # "open"
=============================================================================
