# TLA+ models of the RideChain bootstrap server

The repository is a bootstrap node for a ride-hailing network: riders' apps
reach it over a WebSocket, drivers' apps over another WebSocket or over
Gossipsub, and the server relays between them, remembers peers in Redis, wakes
sleeping phones by FCM push and shares live locations.  A message is worth
money only if it finds its addressee, and an addressee is a connection that
comes, goes, reconnects, becomes slow, moves to another cell and is evicted
while messages are on their way to it.  That is what these modules model.

## 1. Inventory

| Component | Source | State | Operations | Status |
|---|---|---|---|---|
| Rider bridge | `internal/riderbridge/bridge.go` | `riders`, `peerByID`, `cellRiders`, `topicByCity`, `geoTopics`; per connection `city`, `peerId`, `geoCells`, `send`, `closed` | `handleRider`, `writePump`, `forwardToCity`, `Forward`, `flushInbox`, `runCitySub`, `Run` | modelled |
| Geo topics | `internal/riderbridge/geotopics.go` | `geoTopics`, `cellRiders`, `rc.geoCells` | `UpdateRiderGeohash`, `getOrJoinGeoCell`, `forwardToGeoCell`, `publishToRiderGeoCell`, `PublishToGeoCell` | modelled |
| Driver bridge | `internal/driverbridge/bridge.go` | `drivers`, `peerByID` | `handleDriver`, `Forward`, `broadcastPeerCount`, `Run` | modelled |
| Peer queue | `internal/driverbridge/peer_queue.go` | `queues` | `Enqueue`, `Drain`, `FlushTo` | modelled |
| Offline inbox | `internal/redis/store.go`, `cmd/main.go` | Redis list `inbox:<peer>` and its TTL | `EnqueueOfflineMessage`, `DrainOfflineMessages`, the offline callback | modelled |
| Relay and process life cycle | `cmd/main.go` | the context, the order of start and stop | the four `onLocalMessage` callbacks, `main` | partly |
| Peer registry | `internal/redis/store.go`, `internal/persist/store.go` | `peer:meta:<id>`, `search:name:<word>`, `peers:geo`; the users table | `Register`, `TouchPeer`, `SetFCMToken`, `SetDisplayName`, `SetLatLng`, `Upsert` | partly |
| Live tracking | `internal/redis/track.go`, `internal/api/track.go` | session, watcher status and location keys, each with a time to live of its own | create, request, respond, publish, locate | modelled |
| HTTP API | `internal/api/http.go` | none of its own | the handlers over the stores and the bridges | partly |
| Mobile node | `p2pmobile/node.go` | host, context, `relayReady`, `extraAddrs`, stream pool | `Start`, `Stop`, `OnNetworkChanged`, `SendToPeer`, stream handlers, janitor, keep-alive, relay refresh | partly |
| Rate limiter | `internal/api/ratelimit.go` | a token bucket per IP | allow, clean up | not modelled |
| Ride demo, demo peer | `cmd/ride-demo/main.go`, `cmd/demo-peer/main.go` | one trip | sample clients | not modelled |
| Authentication, integrity, FCM, analytics, metrics | `internal/auth`, ... | none a step could break | stateless calls and output | not modelled |

How they interact:

* A **rider's message** is published on its city topic (and, if it is a nearby
  message, on the topic of the rider's centre cell), forwarded by the same
  goroutine to the riders of the city or of the cell, and then handed to the
  callback of `cmd/main.go`, which calls `Forward` of *both* bridges.
* A **driver's message** goes to the relay topic and to `Forward` of the rider
  bridge; messages of the network reach the bridges through subscription
  goroutines.
* A **targeted message** to a rider that has no connection, or whose connection
  cannot take it, goes to the Redis inbox and triggers an FCM push; to a driver,
  into the in-memory queue.  Either is flushed when the peer identifies on a new
  connection.
* **PUT /register/lat-lng** stores the location in Redis and calls
  `UpdateRiderGeohash`, which moves the rider's connection to other cells.
* **Registration, heartbeats and the PUT handlers** read, change and write the
  peer's metadata in Redis, keep the name and geo indexes by commands of their
  own, and copy what is permanent to SQLite.
* A **tracking session** lives in Redis only: owner and watchers meet in the keys
  their calls read and write, and in their times to live.
* **Mobile nodes** send each other direct messages over pooled streams; what
  makes them reachable is a connection to the bootstrap node and a relay
  reservation there.
* **Shutdown** ends both `Run` functions by the signal context; handlers and
  passes go on for a while.

What is hard to test here, and what each component must keep right:

* Every table access is a short critical section of `b.mu`, and almost every
  operation is *several* of them: lookup and delivery, unlinking and closing,
  limit check and insertion, naming and registration.  Handlers, write pumps,
  relays, API calls and shutdown interleave between them.  (*Rider and driver
  bridge: the tables agree with the handlers; no connection leaks, is orphaned
  or disturbs another; all are reaped.*)
* A peer may have two connections at once, and the old one's clean-up may come
  last.  (*A name is lost only to a connection that announced the same name.*)
* Redis pipelines are not transactions, their answers may be lost and they are
  then sent again, and the process may die between any two steps.  (*Inbox: bounded, always expiring, a message is lost or copied in known
  ways only.*)
* Nothing locks a peer's metadata between a GET and the SET that follows it.
  (*Registry: a lost update needs an overlap; indexes agree with metadata unless
  calls overlapped or failed; SQLite forgets nothing.*)
* Times to live are computed from a clock read before the SET is sent, and
  commands may be late, lost or executed twice.  (*Tracking: nothing ends before
  the instant the owner was told, nothing stays long after; a location is served
  only to a watcher approved at most one latency ago.*)
* All senders to a peer share one stream, which the janitor, `DisconnectedF`, a
  change of the network, `Stop` or another sender may reset under them; writes
  have no deadline.  (*Pool: no stream leaks, what was reported as sent is lost in
  known ways only, no send waits for ever but for the node's mutex.*)
* `Start` and `Stop` hold the node's mutex while they dial and close; half a
  dozen goroutines outlive them.  (*Node: one that keeps running becomes
  reachable again; `Stop` should return, and does not while it is connected.*)

`PROJECT.json` lists each hazard at its line, with the properties that cover it.

## 2. Modules

| Module | What it is |
|---|---|
| `Directory` | what a bridge promises about connections and names: served once, cut at most once, finished for good, and a name leads only to a live connection that announced it |
| `RiderBridge` | the rider bridge and the geo topics; implements `Directory` |
| `DriverBridge` | the driver bridge with its queues; implements `Directory` |
| `OfflineInbox` | the messages targeted at one rider, and its Redis inbox |
| `PeerRegistry` | the calls that write a peer's metadata, indexes and permanent record |
| `TrackSession` | the live tracking handlers and their keys |
| `StreamPool` | direct messages from one mobile node to one peer: senders, pooled streams, janitor, the receiving handlers |
| `NodeLifecycle` | the life of a mobile node and of its connection to the bootstrap node |
| `Directory_proofs`, `RiderBridge_proofs`, `DriverBridge_proofs`, `OfflineInbox_proofs`, `PeerRegistry_proofs`, `TrackSession_proofs`, `StreamPool_proofs`, `NodeLifecycle_proofs` | theorems and proofs |
| `MCRiderBridge`, `MCDriverBridge`, `MCOfflineInbox`, `MCPeerRegistry`, `MCTrackSession`, `MCStreamPool`, `MCNodeLifecycle` | instances for TLC |

In the bridges an action is one critical section, or one step a goroutine takes
between two of them; a goroutine's program counter is the variable `stage` (a
handler), `pass`, `pc` (a forwarding pass) or `flush`.

**RiderBridge.**  `riders`, `peerByID`, `cellRiders`, `cityTopics` and
`geoTopics` are the maps of `Bridge`; `city`, `peerId`, `centre` (the first of
`rc.geoCells`, which determines the rest), `sent` (the length of `rc.send`) and
`closed` are the fields of `riderConn`.  The handler is
`CheckLimit, Admit, JoinCity`, then the loop
`Read, Register, Heartbeat | Publish, BeginOwn, Deliver..., DoneOwn`, then
`ReadFails, Cleanup, Leave`.  A read loop's own passes and those of the other
goroutines (`Relays`: city and geo subscriptions, callers of `Forward`) share
`Deliver`, `Evict` and `CloseEvicted`: the snapshot is `todo`, and between the
unlinking of a slow client and `closeSend` the connection is in `removed`.
`SetLatLng`, `JoinGeoCell` and `UpdateRiderGeohash` are the API call.

**DriverBridge.**  Writes go straight to the socket under `dc.mu`, so a write is
one action with the outcomes the socket's state allows.  Targeted messages are
numbered, which lets `NeverTwice` and `LossExplained` follow each of them
through a call of `Forward`, the peer's queue, a flush and the wire.

**OfflineInbox.**  The same bridge seen from one rider's messages: the tables
shrink to the rider's entry, messages keep their identity, and each Redis
command of a pipeline is an action of its own.  `Crash` kills the process and
leaves Redis (and pipelines it has already received) alone.  `DrainAnswerLost` and
`EnqueueAgain` are pipelines whose answer is lost after they ran: go-redis sends
them again, and so pushes a message twice or finds the inbox already drained, or
it gives up with an error (of an enqueue that is only logged, so
`EnqueueExpire` stands for it).  `DrainFails` and `EnqueueFails` are those
of which no attempt, or no further one, reaches Redis.

**PeerRegistry.**  A call is a sequence of steps, one per Redis command, in the
order of the handler and of the store function it calls: `ReadOld` (Register's
own GET; the GET of the others is part of their first step), `SRem` per old word,
`Set`, `GeoAdd`, `SAdd` per new word, `Upsert` (SQLite).  Every step but one in a
pipeline may be the last (`Fail`), and the reads whose errors the code ignores
may fail unnoticed (`ReadOldFails`, `KeepTokenFails`).  Time is what is left of
the times to live; `Tick` lets it pass.

**TrackSession.**  Time is counted in ticks, several to the second, because the
code rounds some instants to seconds and not others.  `Create` and `Arrive` read
the clock; `CheckRequest` and `CheckPublish` are the handlers' checks against it,
`ReadSession`, `WriteSession`, `ReadStatus`, `WriteStatus`, `WriteLocation`,
`ReadLocation` the Redis commands.  Each step comes at most `MaxLatency` after
the one before, a write may be executed again (`Answered`: go-redis retries when
the answer is lost), and a call may stop at any step (`Fail`).

**StreamPool.**  `Send, Begin, Dial, Find, Get, Open, Put, Lock, Write` is
`SendToPeer` with `dialPeer`, and `WriteFails, Evict, ResetVictim` its error path,
which looks the stream to evict up by peer and so may take another one than the
stream that failed.  `Pick` and `Sweep` are the two halves of the janitor: it
decides by `lastUse`, without `ps.mu`, and resets afterwards.  `Read` is the
handler of the receiving node; it returns after a header above `maxMessageSize`
(`WriteBig` is the write that never completes because of it).  `node` is what
`Start` and `Stop` do with `n.mu`, which a call needs to begin and once more to
look for a peer by the DHT (`Free`); `Stop` cancels `n.ctx`, after which nothing
is dialled and the janitor ends (`Alive`), and waits for `DisconnectedF`
(`CallbackEnds`), which needs `n.mu`.

**NodeLifecycle.**  `api` is what `Start` or `Stop` is doing with `n.mu` held;
tasks are the upgrade goroutine of each `Start` and the goroutines that
`DisconnectedF`, the keep-alive ticker and `OnNetworkChanged` start, each a
program counter over ensure, dial, back off, discover addresses, reserve, add
the circuit address.  They read `n.host` when they need it, so a goroutine of an
earlier run may work on with the host of a later one; `host` is what a task has
read.

### Abstractions

* A frame is its sender, type and target; content, JSON and logging are left
  out, as are frames the code ignores (empty, too large, over the rate limit).
* Clients, API calls, failures and the signal are *events*, and a run allows
  `MaxEvents` of them.  Steps of the bridge itself are never limited.
* A pass serves its snapshot in any order, as a Go map is iterated.  A snapshot
  is the set of connections; a peer that is twice in the geo snapshot would be
  served once more, which changes only a buffer's length.
* One `UpdateRiderGeohash` call is in progress at a time; calls differ only in
  their last critical section, so their order is still free.
* `rc.peerId` is written without `b.mu` while evictions read it.  The model
  writes it in one step.  The race on `rc.geoCells` is modelled: `PublishRace`
  is the outcome in which the reader sees the new length with the old pointer.
* A write or read of a WebSocket cannot block for ever, because both have
  deadlines.  A message written to a driver's socket whose other end is gone
  counts as on the wire: nothing in the code can tell.
* *OfflineInbox*: when an attempt at a pipeline is given up, Redis has run all of
  it or never will.
* *PeerRegistry*: one peer's calls and another's that shares a word; a name is
  its set of words.  Reports, `Notify` and the reads (`SearchByName`, `Discover`)
  change nothing here.
* *TrackSession*: Redis and the server read one clock; session identifiers are
  drawn once.
* *StreamPool*: one peer; a stream is a bounded FIFO of frames; of libp2p it is
  assumed that a reset drops what has not been read and fails a blocked write,
  and that `DisconnectedF` comes some time after the connection is gone.  The
  node is started once and may be stopped (restarts are in `NodeLifecycle`).  The
  janitor goroutines of two runs of a node equal one, as both hold
  `streamPoolMu`.
* *NodeLifecycle*: one bootstrap node; `host.Close` waits for `DisconnectedF`
  calls, which need `n.mu`, so that `Stop` of a connected node can wait for ever
  (section 4, `StopReturns`).  Goroutines read `n.host` and `n.ctx` without the
  mutex; these reads are atomic in the model.  What the DHT contains (an older
  goroutine may overwrite `n.dht`), stale addresses of earlier networks,
  `AddExternalAddr`, the identity file, topics and subscriptions are left out.
* The exit of `main`, which may cut the shutdown short, is left to
  `MessageRelay` (section 6).

Definitions marked **Bug** are mistakes in the definition that follows them, one
for each property; no behaviour includes them.  They document what each property
would reveal.

## 3. Runs

| Run | Bounds | Shows |
|---|---|---|
| `RiderTables` | 2 connections, 2 riders, 2 overlapping cells, 1 relay, buffers of 1, 3 events; symmetric connections | `TypeOK`, `TablesMatch`, `NoOrphan`, `LostOnlyByHandover`, `WindowComplete`, `KeepsDirectory` |
| `RiderLive` | 2 connections of 1 rider, 1 cell, 1 relay, an inbox of 1, 2 events | `Reaped`, `KeepsDirectoryLive` |
| `DriverTables` | 2 connections, 2 drivers, 2 relays, queues of 2, 4 events; symmetric connections and relays | the same for drivers, `NeverTwice`, `LossExplained` |
| `DriverLive` | 2 connections of 1 driver, 1 relay, queue of 1, 3 events | `Reaped`, `KeepsDirectoryLive` |
| `Inbox` | 2 connections, 2 senders, buffer and inbox of 1, 3 events (a message's arrival counts once for each of its passes) | `TypeOK`, `InboxBounded`, `ExpiryArmed`, `LossExplained`, `CopyExplained` |
| `Track` | 1 session, its owner, another peer, 1 watcher, 2 calls at a time, 2 ticks to the second, 6 ticks | `TypeOK`, `NothingEndsEarly`, `NothingStays`, `ServedWhileApproved`, `NeverMuchOlder` |
| `Registry` | 2 peers whose names share a word, 3 calls, 2 at a time, a time to live of 2; symmetric peers and calls | `TypeOK`, `IndexesAgree`, `OthersKept`, `NothingForgotten` |
| `Pool` | 2 senders, 2 streams, 2 messages of which one is too large, 1 loss of the connection, a Stop, streams that hold 1 frame, a peer that may speak v1 only | `TypeOK`, `NoStreamLeak`, `LossExplained`, `SendReturns` |
| `Node` | 2 workers, 2 starts, 2 restarts, changes of the network or faults in any mixture | `TypeOK`, `Reachable` |
| `DriverQueueLeft`, `InboxDuplicate`, `NodeStop` | one connection, one goroutine, one start | the three divergences below |

Why the bounds are enough to be interesting: two connections are a peer that
reconnects while its old connection is still there, or two peers that collide;
two cells with windows that overlap are the case in which deleting the old
window and writing the new one touch the same entry; a buffer of one fills by
one message, so every eviction path is taken; two relays (or a relay and two
read loops) are two passes with overlapping snapshots.  Three events admit
identify, move and disconnect, or a shutdown in the middle.  `MaxConns` is 2 in
these runs, so the limit does not get in the way of two handshakes at once.

In `Track` a session of one second (two ticks) with one tick of latency is
created by instant 1 and dead by instant 6, so every expiry happens, before,
between and after the commands of two overlapping calls.  In `Registry` two calls
overlap in every way, a third comes after, and a time to live of two lets a
heartbeat prolong metadata past its index.  In `Pool` two streams are the one
that fails and its replacement, which another sender or `DisconnectedF` may evict
by mistake; a window of one makes the second write block, and the message that is
too large does so for ever.  In `Node` two starts are a run and the
leftovers of the run before it.

`CHECK_DEADLOCK FALSE` is stated because an instance may stop: its connections
are used once, its calls, messages and events are counted, its time ends, and
`Stop` of a node may wait for ever.

### Properties

* `TablesMatch`: whatever is in a table is a connection between its
  admission and its clean-up, under the name it announced and in its own window.
  Evictions by `forwardToCity` do not touch `cellRiders`, so this rests on the
  clean-up that follows.
* `NoOrphan`: a connection still served but in no table is closed or about to
  be, so that its client notices and reconnects.
* `LostOnlyByHandover`: a registered peer is unreachable only if another
  connection announced its name.  The exception is real: the old connection's
  clean-up (or eviction) deletes `peerByID[peerId]` without looking whether the
  entry is its own, so a rider that reconnects *before* its old connection is
  cleaned up is left unregistered until it reconnects once more.  The property
  says that nothing else takes a name away.
* `WindowComplete`: the same for the nine cells of a rider's window.
* `KeepsDirectory`, `KeepsDirectoryLive`: refinement of `Directory`; the latter
  with its fairness, *a connection that was cut is finished*.
* `Reaped`: an evicted, closed or silent connection is eventually gone.
* `NeverTwice`, `LossExplained` (drivers): a targeted message is in one place at
  most, and disappears only as the oldest of a full queue or in a flush to a
  connection that is no longer open.
* `InboxBounded`, `ExpiryArmed`, `LossExplained`, `CopyExplained` (inbox): the
  list exceeds its cap only by pushes not yet trimmed; a stored message always
  has a time to live or an EXPIRE under way; and the ways in which a message's
  last copy is lost, or a copy is made, are listed exhaustively.  The lists are
  the code's and longer than one would wish: an answer lost after a drain loses
  the inbox, one lost after an enqueue doubles the message, and what `writePump`
  has in its buffer when the rider is gone is lost although `deliver` succeeded.
* `NothingEndsEarly`, `NothingStays` (tracking): session and statuses last until
  the second the owner was told, and none of the keys outlives it by more than
  the code's rounding, latency and, for a status, the session's duration, which
  it gets anew whenever it is written.
* `ServedWhileApproved`, `NeverMuchOlder`: status and location are read by two
  commands, and publications overtake each other; these properties bound what
  that can do: a watcher who has been rejected is served for one latency more at
  most, and a location is replaced by one at most a latency (and a second of
  rounding) older.
* `IndexesAgree` (registry): unless calls for a peer overlapped, failed half-way
  or the peer expired, it is found under the words of its name and where it said
  it is, whatever happens to other peers with the same words.  `OthersKept`: a
  lost update needs an overlap.  `NothingForgotten`: what SQLite knew of a peer it
  keeps.
* `NoStreamLeak` (pool): an open stream is pooled, held by the sender that opened
  it, or about to be reset.  `LossExplained`: a message that `SendToPeer` has
  reported as sent leaves the streams by being read, or because the connection,
  the network or the host went, or because the stream that carries it was replaced
  in the pool by another sender's, taken out in place of one that failed, or found
  unused by the janitor when it looked.  A janitor that took a stream in use, or a
  write that gave the stream up while others use it, would break it.
  `SendReturns`: the janitor, or the end of the connection, resets the stream a
  blocked write waits for.  The exceptions are the code's: a v1 write of a message
  that is too large may wait for the connection to be lost, and a call that still
  needs `n.mu` waits for ever when `Stop` hangs.
* `Reachable` (node): a node that keeps running while the network stays as it is
  becomes connected over that network, holds a relay slot, and advertises its
  address and circuit address.  Its two exceptions are real: when the relay dial
  restores the connection nobody looks at the address, and when the relay has
  refused once, the relay ticker reserves later but adds no circuit address.

### Fairness

Weak fairness of what a goroutine does once it can: the handler outside
`ReadMessage` with its own passes, the write pump, the passes of relays.  Go
schedules runnable goroutines, locks are held briefly, and reads and writes have
deadlines (90 s and 5 s), so none blocks for ever; `ReadFails` is enabled as
soon as the client is silent for good because of the read deadline.  Nothing is
assumed of clients, of the API, of the arrival of messages, or of the signal.

`StreamPool`: weak fairness of each sender, of the janitor with its ticker as long
as `n.ctx` is not cancelled (and of the reset it has begun, always), of
`DisconnectedF`, and of `Start` and `Stop` once they have been called; none of the
peer, which need not read.  `NodeLifecycle`: weak
fairness of what `Start` and `Stop` do once called, of `DisconnectedF`, of the
app's report that the network changed, of noticing a dead connection, and of each
goroutine; none of the calls themselves.

## 4. Where code and comments disagree

| Run | Property | In short |
|---|---|---|
| `DriverQueueLeft` | `QueuedAreDelivered` | `peer_queue.go:3` says queued messages are delivered when the peer reconnects; `Forward` may look the peer up before it registers and enqueue after its flush |
| `InboxDuplicate` | `NeverReceivedTwice` | `main.go:313` wires "message deduplication" that nothing ever consults; a rider's targeted message makes two passes over the rider bridge |
| `NodeStop` | `StopReturns` | `node.go:754`: "Stop shuts down the node"; `host.Close`, called with `n.mu` held, waits for `DisconnectedF`, which waits for `n.mu`, so `Stop` of a connected node never returns |

Three more comments promise what the code does not do, plainly enough to need no
run.  `store.go:420` calls the drain of the inbox atomic; LRANGE and DEL are
pipelined without MULTI, and a message pushed between them is deleted unread.
`main.go:332` calls the inbox "at-least-once delivery on reconnect"; both this
loss and the others `LossExplained` of `OfflineInbox` lists are exceptions.
`geotopics.go:123` says a location set while the rider is offline takes effect on
its next connection; `UpdateRiderGeohash` changes a connected rider only, and
`handleRider` never reads what was stored.

## 5. Proofs

`RiderBridge_proofs` proves, for every number of connections, peers, cells and
relays and every `Window`, `MaxConns`, `SendBuffer`, `InboxCap` and `MaxEvents`
that satisfy the three assumptions of `RiderBridge` (`None` is no connection,
peer, city, cell or relay, and connections and relays differ; a window is a set
of cells around its own centre; the bounds are numbers and inputs are messages):

| Theorem | States |
|---|---|
| `TypeCorrect` | `Spec => []TypeOK` |
| `TablesCorrect` | `Spec => []TablesMatch` |
| `NoneOrphaned` | `Spec => []NoOrphan` |
| `NamesLostByHandover` | `Spec => []LostOnlyByHandover` |
| `WindowsComplete` | `Spec => []WindowComplete` |
| `ImplementsDirectory` | `Spec => KeepsDirectory` |

None of these invariants is inductive alone.  The argument is in layers, each
inductive relative to those before it:

1. `TypeOK` together with `Control`, which says what a program counter implies
   about the locals beside it: an admitted connection has a city (otherwise
   `JoinCity` could join a topic that is none), a connection is named before it
   registers and unnamed before it is admitted, a goroutine is in a pass only at
   the stages that make one, and it has one victim at a time (otherwise `Evict`
   would forget a connection it has still to close).
2. `TablesMatch`.  Most steps only shrink the tables (lemma `TablesShrink`); the
   work is in `Read`, `Register`, `Cleanup` and `UpdateRiderGeohash`, where the
   new window and what is left of the old one must agree (`MoveWindowCells`,
   `GeohashMoves`).
3. `NoOrphan`; and, through the lemmas `NamesStay`, `HandoversStay` and
   `NamingStays`, `LostOnlyByHandover`.
4. `Located` (only a named connection has a location), then `WindowComplete`.
5. `PassesAdmitted` (a pass works on connections that were once admitted, even
   if they are long gone), which the refinement needs to map an eviction to
   `Cut`.  Then each action maps to one of `Directory` or to a stutter: `Admit`
   to `Serve`, `UpgradeFails` and `Cleanup` to `Finish`, the first named `Read`
   to `Announce`, `Register` to `Bind`, `Evict` to `Cut`, `Reset` to `Shutdown`.

`DriverBridge_proofs` proves the same of drivers (without windows), for all
constants that satisfy `DriverNone` and `DriverBounds`: `TypeCorrect`,
`TablesCorrect`, `NoneOrphaned`, `NamesLostByHandover`, `ImplementsDirectory`.  The layers are `TypeOK` with `Control`, `TablesMatch`,
`NoOrphan`, `LostOnlyByHandover`, and `Admitted` (`broadcastPeerCount` works on
connections that were once admitted).  The end of a peer count and the shutdown
close several connections at once and map to `CutMany` of `Directory`.

Its second half follows the messages: `MessagesNeverTwice`
(`Spec => []NeverTwice`) and `LossesAreKnown` (`Spec => LossExplained`).  Calls of
`Forward`, queues, flushes and wires are read as one family of sequences, `held`;
`Sound` says that no message is in it twice and none is newer than the last one
accepted.  General lemmas say what dropping, adding, moving and handing over an
element does to such a family, and every action is shown to be one of these.  The
invariant needs `Owed`: a call of `Forward` has a message exactly while it writes
or queues it, and a handler has drained messages only while it flushes, so that
the step that takes the next one up finds the place empty.

`OfflineInbox_proofs` proves every property of the inbox, for any finite sets of
connections and senders and all capacities and bounds (`InboxNone`,
`InboxFinite`, `InboxBounds`): `TypeCorrect`, `InboxBoundedAlways`,
`ExpiryArmedAlways`, `LossExplainedAlways` and `CopyExplainedAlways`.  `Control`
adds to the types that a goroutine at work on a message has a pass to make, and
one that has found a connection has it in hand; what a crash leaves behind is
only the rest of a pipeline.  For the bound, the goroutines
between RPUSH and LTRIM are counted as a finite set: each step changes the length
of the inbox by no more than it changes that set.  `LossExplained` and
`CopyExplained` speak of one message and one step.  A message is held in the
inbox, in a drain, in a send buffer, by a goroutine or by the client; lemmas say
what each action takes from and gives to each of these places.  A copy is counted
by its position, `Copies(m)` being a union over the places with the positions in
each; that the count does not grow when an element is moved, appended or trimmed
off is shown by maps between the positions and the theorems on finite sets,
without induction over sequences.

`PeerRegistry_proofs` proves every property of the registry, for every set of
peers, words, names, calls and request bodies (`RegistryNone`, `RegistryNames`,
`RegistryBounds`, `RegistryBodies`, and `RegistryNil`: no record is Go's nil).

* `NothingForgottenAlways` (`Spec => NothingForgotten`): the one step that writes
  the permanent record merges what it has with what it is given.
* `OthersKeptAlways` (`Spec => OthersKept`) rests on `Fresh`: what a call has read
  is still the metadata of its peer, as long as nobody has written since.
* `IndexesAgreeAlways` (`Spec => []IndexesAgree`) rests on `Inv`.  The index agrees
  with the metadata only between calls; `Progress` says, for each command of each
  operation, how far a call has come in taking the old words out and putting the
  new ones in, `Alone` that an undisturbed peer has one such call, and `Expiry`
  that a set of the index that never expires holds disturbed peers only.  All of
  it is said of undisturbed peers; the work is to show that the calls for other
  peers, which share words with them, leave it alone.

`TrackSession_proofs` proves every property of the sessions, for every duration,
latency, length of the second and number of sessions, peers, watchers and calls
(`TrackDurations`, `TrackTime`, `TrackNone`): `TypeCorrect`, `LastsAsPromised`
(`Spec => []NothingEndsEarly`), `NothingIsLeft` (`Spec => []NothingStays`),
`ServedWhileApprovedAlways` and `NeverMuchOlderAlways`.  The first three share an
inductive invariant, because what a key will live for is decided by what a call
read several steps earlier: `CallsGood` says of every call in progress that its
step is not late, what it knows of the session is still so, and what it is about
to write fits; `OneCreator`, that an identifier has one creator; `Untouched` and
`Dated`, that a session not yet written has nothing else and expires no later
than its duration from now.  The action properties need `RInv` on top of it: a
call about to read a location was vouched for at the instant it read the status
(`Vouched`; lemma `ApprovalOnRecord` says that no later step takes that instant
back), a location about to be written bears the second its call read the clock in
(`Stamped`), and none comes from the future (`Dateline`).

`StreamPool_proofs` proves, for every number of senders, streams and messages and
every window (`PoolNone`, `PoolBounds`), `TypeCorrect` (which includes that
`ps.mu` is held by exactly the sender that writes), `StreamsAreOwned`
(`Spec => []NoStreamLeak`) and `LossExplainedAlways` (`Spec => LossExplained`).
`Control` adds to the first two that a sender past its lookup has a stream, that a
stream taken out of the pool is kept until the reset that follows, and that nobody
changes the pool while the janitor is between its two halves.  The losses rest on
`Spent`: a stream that was reset carries nothing, a sender evicts only after the
stream it wrote to was reset, and the stream the janitor is about to reset is
unused or has been taken up since it looked.

`NodeLifecycle_proofs` proves `TypeCorrect` for every number of starts, workers and
faults (`NodeNone`, `NodeBounds`).  `TypeOK` relates what Stop and Start keep apart
from what the network does: a node that runs has an open host and a context in
force, a closed host no connection, a node without a connection no relay slot.
`Life` adds what each stage of Start and Stop says of these.

`Directory_proofs` proves that in `Directory` a name leads to a connection that
announced it and is not finished (`EntriesAreLive`), which by refinement is a
promise of every bridge that implements it.

The inductive invariants that are not part of `TypeOK` or of a property of a run
(`Fresh` and `Inv`, `RInv`, `Spent`, `Life`) were checked with TLC on the instances
of the runs before they were proved.

Every invariant and every action property of the passing runs is proved.
Model-checked only: liveness (`Reaped`, `KeepsDirectoryLive`, `SendReturns`,
`Reachable`), which under fairness is beyond the proof system used
here.

## 6. Left to do

1. `MessageRelay`: the four callbacks of `cmd/main.go` with both bridges as
   abstract destinations; what a message from each side reaches, how often, and
   what the exit of `main` leaves undone; the overshoot of the connection limit
   and queues that no driver will ever empty.
2. The reads of the registry (`SearchByName`, `Discover`), the topics and
   subscriptions of the mobile node.
3. Properties of what the code does wrong and the present ones therefore except:
   the name of a rider that reconnected, deleted by the clean-up of its old
   connection; updates of the registry lost when calls overlap; index entries
   left by calls that failed half-way.
4. Proofs: the fairness-free half of the liveness arguments (what each of the steps
   that must happen achieves once it is taken).

### Not modelled

* Authentication, Play Integrity, FCM, analytics and metrics keep no state that
  several steps or actors could break, or only produce output.
* The rate limiter is a library's token bucket per IP in a map under one mutex;
  what could go wrong in it is arithmetic over real time.
* The demo peer and the ride demo are sample clients with one actor and no state
  on the server.
* The rest of the SQLite store migrates, reads or appends.
