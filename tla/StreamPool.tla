------------------------------ MODULE StreamPool ------------------------------
(***************************************************************************)
(* The streams over which a mobile node sends direct messages to one peer: *)
(* SendToPeer, the stream pool and its janitor, and the two handlers at    *)
(* the receiving end (p2pmobile/node.go).                                  *)
(*                                                                         *)
(* The pool keeps one stream per peer.  Every sender is handed the same    *)
(* stream; ps.mu makes their writes take turns, streamPoolMu guards the    *)
(* pool and nothing else, so a stream can be evicted, replaced or reset    *)
(* while somebody writes to it.  A write has no deadline: when the other   *)
(* end does not read, it blocks until the stream is reset.                 *)
(*                                                                         *)
(* SendToPeer, dialPeer and DisconnectedF take n.mu for a moment; Start    *)
(* holds it until the node runs, Stop while host.Close waits for the calls *)
(* of DisconnectedF (the rest of both is in NodeLifecycle).  A node is     *)
(* started once here.                                                      *)
(*                                                                         *)
(* What is known of libp2p: a stream is a bounded FIFO of frames (Window); *)
(* Reset drops what has not been read and fails a blocked write; a failed  *)
(* write has delivered no whole frame; a connection that closes resets its *)
(* streams and calls DisconnectedF some time later; host.Close closes the  *)
(* connections and waits for these calls.  A frame above maxMessageSize is *)
(* larger than the window, and its receiver returns after the header: the  *)
(* v2 handler leaves the stream open, the v1 handler closes its own end,   *)
(* which does not wake a writer waiting for the window (of TCP's streams;  *)
(* the code takes QUIC's to be broken).  Such a write never completes.     *)
(*                                                                         *)
(* A definition marked "Bug" is part of no behaviour: it is a mistake in   *)
(* the definition below it that one of the properties would reveal.        *)
(***************************************************************************)
EXTENDS Integers, Sequences, SequencesExt

CONSTANTS
    Senders,     \* goroutines calling SendToPeer
    None,        \* Go's nil
    Window,      \* frames a stream holds that the peer has not read
    Big,         \* the messages too large for a frame
    Legacy,      \* whether the peer may be one that speaks v1 only
    MaxStreams,  \* bound of the model: streams opened to the peer
    MaxMessages, \* bound of the model: messages altogether
    MaxDrops     \* bound of the model: connections lost

\* The streams in the order they are opened, each used once.
Streams == 1 .. MaxStreams

ASSUME PoolNone == None \notin Senders \cup Nat

ASSUME PoolBounds ==
    /\ Window \in Nat \ {0}
    /\ Legacy \in BOOLEAN
    /\ MaxStreams \in Nat
    /\ MaxMessages \in Nat
    /\ MaxDrops \in Nat

VARIABLES
    node,      \* "starting", "running", "closing", "hung", "stopped"
    pool,      \* n.streamPool[peer]
    conn,      \* "up" or "down"
    stream,    \* each stream: "unused", "open", "closed" (for writing), "reset"
    wire,      \* frames written and not yet read
    reader,    \* the handler at the other end: "reads" or "returned"
    lock,      \* ps.mu
    idle,      \* not used for streamPoolTTL
    pc, msg,
    mine,      \* the stream a sender writes to
    fresh,     \* it opened that stream itself
    victim,    \* the stream it took out of the pool and has not reset yet
    janitor,   \* the stream the janitor is about to reset, streamPoolMu held
    callback,  \* DisconnectedF: "none", "evict", "reset", "lock"
    dropped,   \* the stream DisconnectedF took out of the pool
    lastMsg, drops,  \* bounds of the model: messages and losses so far
    raced      \* history: ps.mu was taken since the janitor looked at lastUse

linkVars == <<conn, stream, wire, reader>>
poolVars == <<pool, idle, janitor, callback, dropped>>
sendVars == <<pc, msg, mine, fresh, victim, lock>>
otherVars == <<node, lastMsg, drops, raced>>
vars == <<linkVars, poolVars, sendVars, otherVars>>

PCs == {"idle", "call", "dial", "find", "get", "open", "put", "lock", "write", "stuck",
        "evict", "reset", "write1", "stuck1"}

\* Nobody holds n.mu for long.
Free == node \in {"running", "stopped"}

\* The host is open and n.ctx is not cancelled.
Alive == node \in {"starting", "running"}

------------------------------------------------------------------------------
Init ==
    /\ node = "starting"
    /\ pool = None
    /\ conn = "down"
    /\ stream = [x \in Streams |-> "unused"]
    /\ wire = [x \in Streams |-> <<>>]
    /\ reader = [x \in Streams |-> "reads"]
    /\ lock = [x \in Streams |-> None]
    /\ idle = [x \in Streams |-> FALSE]
    /\ pc = [s \in Senders |-> "idle"]
    /\ msg = [s \in Senders |-> 0]
    /\ mine = [s \in Senders |-> None]
    /\ fresh = [s \in Senders |-> FALSE]
    /\ victim = [s \in Senders |-> None]
    /\ janitor = None
    /\ callback = "none"
    /\ dropped = None
    /\ lastMsg = 0
    /\ drops = 0
    /\ raced = FALSE

------------------------------------------------------------------------------
(* SendToPeer *)

Goes(s, next) == pc' = [pc EXCEPT ![s] = next]

\* It returns, with or without an error.
Returns(s) ==
    /\ Goes(s, "idle")
    /\ msg' = [msg EXCEPT ![s] = 0]
    /\ mine' = [mine EXCEPT ![s] = None]
    /\ fresh' = [fresh EXCEPT ![s] = FALSE]

\* Reset, of no stream or of one that may be dead already.
ResetAll(dead) ==
    /\ stream' = [x \in Streams |->
                    IF x \in dead /\ stream[x] # "unused" THEN "reset" ELSE stream[x]]
    /\ wire' = [x \in Streams |-> IF x \in dead THEN <<>> ELSE wire[x]]

\* The message may be of any size: SendToPeer does not look.
Send(s) ==
    /\ pc[s] = "idle"
    /\ lastMsg < MaxMessages
    /\ lastMsg' = lastMsg + 1
    /\ msg' = [msg EXCEPT ![s] = lastMsg + 1]
    /\ Goes(s, "call")
    /\ UNCHANGED <<node, linkVars, poolVars, mine, fresh, victim, lock, drops, raced>>

\* n.running is read under n.mu; then the node looks whether it is connected,
\* which it is not if it is over a relay.
Begin(s) ==
    /\ pc[s] = "call"
    /\ Free
    /\ \/ node # "running" /\ Returns(s)
       \/ /\ node = "running"
          /\ \/ conn = "up" /\ Goes(s, "get")
             \/ Goes(s, "dial")
          /\ UNCHANGED <<msg, mine, fresh>>
    /\ UNCHANGED <<linkVars, poolVars, victim, lock, otherVars>>

\* A dial succeeds at once when there is a connection.
Connects == (conn = "up" \/ Alive) /\ conn' = "up"

\* dialPeer: directly ...
Dial(s) ==
    /\ pc[s] = "dial"
    /\ \/ Connects /\ Goes(s, "get")
       \/ Goes(s, "find") /\ UNCHANGED conn
    /\ UNCHANGED <<stream, wire, reader, poolVars, msg, mine, fresh, victim,
                   lock, otherVars>>

\* ... or, having read n.dht under n.mu, by the DHT or over the relay
Find(s) ==
    /\ pc[s] = "find"
    /\ Free
    /\ Connects
    /\ Goes(s, "get")
    /\ UNCHANGED <<stream, wire, reader, poolVars, msg, mine, fresh, victim,
                   lock, otherVars>>

\* Dialling or opening a stream fails or times out.
Unreachable(s) ==
    /\ pc[s] = "open" \/ (pc[s] = "find" /\ Free)
    /\ Returns(s)
    /\ UNCHANGED <<linkVars, poolVars, victim, lock, otherVars>>

\* getPooledStream
Get(s) ==
    /\ pc[s] = "get"
    /\ janitor = None
    /\ mine' = [mine EXCEPT ![s] = pool]
    /\ Goes(s, IF pool = None THEN "open" ELSE "lock")
    /\ UNCHANGED <<linkVars, poolVars, msg, fresh, victim, lock, otherVars>>

\* NewStream, which dials if it must, and negotiates the protocol
Open(s, x) ==
    /\ pc[s] = "open"
    /\ stream[x] = "unused" /\ \A y \in Streams : y < x => stream[y] # "unused"
    /\ Connects
    /\ stream' = [stream EXCEPT ![x] = "open"]
    /\ mine' = [mine EXCEPT ![s] = x]
    /\ fresh' = [fresh EXCEPT ![s] = TRUE]
    /\ \/ Goes(s, "put")
       \/ Legacy /\ Goes(s, "write1")
    /\ UNCHANGED <<wire, reader, poolVars, msg, victim, lock, otherVars>>

\* Bug: the stream that is replaced stays open.
PutOver(s) ==
    /\ pc[s] = "put"
    /\ janitor = None
    /\ pool' = mine[s]
    /\ Goes(s, "lock")
    /\ UNCHANGED <<linkVars, idle, janitor, callback, dropped, msg, mine, fresh,
                   victim, lock, otherVars>>

\* putPooledStream: a stream that another sender has put meanwhile is reset, be
\* it in use or not.
Put(s) ==
    /\ pc[s] = "put"
    /\ janitor = None
    /\ pool' = mine[s]
    /\ ResetAll({pool} \ {None})
    /\ Goes(s, "lock")
    /\ UNCHANGED <<conn, reader, idle, janitor, callback, dropped, msg, mine,
                   fresh, victim, lock, otherVars>>

\* writeToPooledStream: ps.mu, lastUse
Lock(s) ==
    /\ pc[s] = "lock"
    /\ lock[mine[s]] = None
    /\ lock' = [lock EXCEPT ![mine[s]] = s]
    /\ idle' = [idle EXCEPT ![mine[s]] = FALSE]
    /\ raced' = (raced \/ janitor = mine[s])
    /\ Goes(s, "write")
    /\ UNCHANGED <<linkVars, pool, janitor, callback, dropped, msg, mine, fresh,
                   victim, node, lastMsg, drops>>

\* Flush succeeds: the frame fits.
Write(s) ==
    /\ pc[s] = "write"
    /\ LET x == mine[s] IN
       /\ stream[x] = "open"
       /\ msg[s] \notin Big
       /\ Len(wire[x]) < Window
       /\ wire' = [wire EXCEPT ![x] = Append(@, msg[s])]
       /\ lock' = [lock EXCEPT ![x] = None]
    /\ Returns(s)
    /\ UNCHANGED <<conn, stream, reader, poolVars, victim, otherVars>>

\* The header of a frame that is too large gets through, the rest does not.
WriteBig(s) ==
    /\ pc[s] \in {"write", "write1"}
    /\ LET x == mine[s] IN
       /\ stream[x] = "open"
       /\ msg[s] \in Big
       /\ Len(wire[x]) < Window
       /\ wire' = [wire EXCEPT ![x] = Append(@, msg[s])]
    /\ Goes(s, IF pc[s] = "write" THEN "stuck" ELSE "stuck1")
    /\ UNCHANGED <<conn, stream, reader, poolVars, msg, mine, fresh, victim,
                   lock, otherVars>>

\* Bug: ps.mu is released on success only.
WriteFailsLocked(s) ==
    /\ pc[s] \in {"write", "stuck"}
    /\ stream[mine[s]] = "reset"
    /\ Goes(s, "evict")
    /\ UNCHANGED <<linkVars, poolVars, msg, mine, fresh, victim, lock,
                   otherVars>>

\* The stream was reset, before the write or during it.
WriteFails(s) ==
    /\ pc[s] \in {"write", "stuck"}
    /\ stream[mine[s]] = "reset"
    /\ lock' = [lock EXCEPT ![mine[s]] = None]
    /\ Goes(s, "evict")
    /\ UNCHANGED <<linkVars, poolVars, msg, mine, fresh, victim, otherVars>>

\* evictPooledStream takes out what is pooled for the peer, which need not be
\* the stream that failed ...
Evict(s) ==
    /\ pc[s] = "evict"
    /\ janitor = None
    /\ pool' = None
    /\ victim' = [victim EXCEPT ![s] = pool]
    /\ Goes(s, "reset")
    /\ UNCHANGED <<linkVars, idle, janitor, callback, dropped, msg, mine, fresh,
                   lock, otherVars>>

\* ... and resets it.  A sender whose pooled stream failed opens a new one; one
\* whose own new stream failed returns the error.
ResetVictim(s) ==
    /\ pc[s] = "reset"
    /\ ResetAll({victim[s]} \ {None})
    /\ victim' = [victim EXCEPT ![s] = None]
    /\ IF fresh[s] THEN Returns(s)
       ELSE /\ Goes(s, "open")
            /\ mine' = [mine EXCEPT ![s] = None]
            /\ UNCHANGED <<msg, fresh>>
    /\ UNCHANGED <<conn, reader, poolVars, lock, otherVars>>

\* v1: one frame on a stream of its own, which is then closed
WriteV1(s) ==
    /\ pc[s] = "write1"
    /\ stream[mine[s]] = "open"
    /\ msg[s] \notin Big
    /\ wire' = [wire EXCEPT ![mine[s]] = Append(@, msg[s])]
    /\ stream' = [stream EXCEPT ![mine[s]] = "closed"]
    /\ Returns(s)
    /\ UNCHANGED <<conn, reader, poolVars, victim, lock, otherVars>>

V1Fails(s) ==
    /\ pc[s] \in {"write1", "stuck1"}
    /\ stream[mine[s]] = "reset"
    /\ Returns(s)
    /\ UNCHANGED <<linkVars, poolVars, victim, lock, otherVars>>

------------------------------------------------------------------------------
(* The other end *)

\* handleOptimizedStream, handleDirectStream: the next frame, or the header of
\* one that is too large, after which the handler returns.
Read(x) ==
    /\ stream[x] \in {"open", "closed"}
    /\ reader[x] = "reads"
    /\ wire[x] # <<>>
    /\ wire' = [wire EXCEPT ![x] = Tail(@)]
    /\ reader' = [reader EXCEPT ![x] = IF Head(wire[x]) \in Big THEN "returned" ELSE @]
    /\ UNCHANGED <<conn, stream, poolVars, sendVars, otherVars>>

------------------------------------------------------------------------------
(* The janitor, and the loss of the connection *)

\* 60 s without a write beginning
Idle(x) ==
    /\ pool = x
    /\ ~idle[x]
    /\ idle' = [idle EXCEPT ![x] = TRUE]
    /\ UNCHANGED <<linkVars, pool, janitor, callback, dropped, sendVars, otherVars>>

\* Bug: the janitor waits for a writer.
PickUnlocked(x) ==
    /\ pool = x /\ janitor = None
    /\ idle[x] /\ lock[x] = None
    /\ janitor' = x
    /\ raced' = FALSE
    /\ UNCHANGED <<linkVars, pool, idle, callback, dropped, sendVars, node, lastMsg,
                   drops>>

\* Bug: a stream is evicted that has been used.
PickAny(x) ==
    /\ pool = x /\ janitor = None
    /\ janitor' = x
    /\ raced' = FALSE
    /\ UNCHANGED <<linkVars, pool, idle, callback, dropped, sendVars, node, lastMsg,
                   drops>>

\* streamPoolJanitor, under streamPoolMu: it looks at lastUse, without ps.mu ...
Pick(x) ==
    /\ pool = x /\ janitor = None
    /\ idle[x]
    /\ janitor' = x
    /\ raced' = FALSE
    /\ UNCHANGED <<linkVars, pool, idle, callback, dropped, sendVars, node, lastMsg,
                   drops>>

\* ... and resets the stream, whoever has begun to write to it since.
Sweep ==
    /\ janitor # None
    /\ ResetAll({janitor})
    /\ pool' = None
    /\ janitor' = None
    /\ UNCHANGED <<conn, reader, idle, callback, dropped, sendVars, otherVars>>

\* The connection is lost or closed (by OnNetworkChanged, among others), its
\* streams with it.
ConnectionLost ==
    /\ conn = "up"
    /\ drops < MaxDrops
    /\ callback = "none"
    /\ drops' = drops + 1
    /\ conn' = "down"
    /\ callback' = "evict"
    /\ ResetAll(Streams)
    /\ UNCHANGED <<node, reader, pool, idle, janitor, dropped, sendVars, lastMsg,
                   raced>>

\* The peer connects, or another goroutine of the node has dialled it.
ConnectionMade ==
    /\ conn = "down"
    /\ Alive
    /\ conn' = "up"
    /\ UNCHANGED <<stream, wire, reader, poolVars, sendVars, otherVars>>

\* DisconnectedF evicts what is pooled for the peer by then, be it a stream of
\* the next connection, ...
CallbackEvict ==
    /\ callback = "evict"
    /\ janitor = None
    /\ callback' = "reset"
    /\ pool' = None
    /\ dropped' = pool
    /\ UNCHANGED <<linkVars, idle, janitor, sendVars, otherVars>>

CallbackReset ==
    /\ callback = "reset"
    /\ callback' = "lock"
    /\ ResetAll({dropped} \ {None})
    /\ dropped' = None
    /\ UNCHANGED <<conn, reader, pool, idle, janitor, sendVars, otherVars>>

\* ... and waits for n.mu, to read n.running.
CallbackEnds ==
    /\ callback = "lock"
    /\ Free
    /\ callback' = "none"
    /\ UNCHANGED <<linkVars, pool, idle, janitor, dropped, sendVars, otherVars>>

\* OnNetworkChanged resets and removes all pooled streams under streamPoolMu.
NetworkChanged ==
    /\ janitor = None
    /\ pool # None
    /\ drops < MaxDrops
    /\ drops' = drops + 1
    /\ ResetAll({pool})
    /\ pool' = None
    /\ UNCHANGED <<node, conn, reader, idle, janitor, callback, dropped, sendVars,
                   lastMsg, raced>>

------------------------------------------------------------------------------
(* Start and Stop *)

StartReturns ==
    /\ node = "starting"
    /\ node' = "running"
    /\ UNCHANGED <<linkVars, poolVars, sendVars, lastMsg, drops, raced>>

\* Stop takes n.mu, resets n.running and cancels n.ctx, and host.Close closes the
\* connection and calls DisconnectedF (a call still under way counts as this
\* one); so it is for a Start that fails.  "hung": another peer is connected, so
\* that another such call waits for n.mu.
Stop ==
    /\ node \in {"starting", "running"}
    /\ node' \in {"closing", "hung"}
    /\ conn' = "down"
    /\ ResetAll(Streams)
    /\ IF conn = "up" THEN callback' = "evict" /\ dropped' = None
       ELSE UNCHANGED <<callback, dropped>>
    /\ UNCHANGED <<reader, pool, idle, janitor, sendVars, lastMsg, drops, raced>>

\* host.Close returns, and n.mu is released.
CloseReturns ==
    /\ node = "closing"
    /\ callback = "none"
    /\ node' = "stopped"
    /\ UNCHANGED <<linkVars, poolVars, sendVars, lastMsg, drops, raced>>

------------------------------------------------------------------------------
Sending(s) ==
    \/ Begin(s) \/ Dial(s) \/ Find(s) \/ Unreachable(s)
    \/ Get(s) \/ (\E x \in Streams : Open(s, x)) \/ Put(s)
    \/ Lock(s) \/ Write(s) \/ WriteBig(s) \/ WriteFails(s) \/ Evict(s) \/ ResetVictim(s)
    \/ WriteV1(s) \/ V1Fails(s)

Janitor == Sweep \/ \E x \in Streams : Idle(x) \/ Pick(x)

Callback == CallbackEvict \/ CallbackReset \/ CallbackEnds

Running == StartReturns \/ CloseReturns

Next ==
    \/ \E s \in Senders : Send(s) \/ Sending(s)
    \/ \E x \in Streams : Read(x)
    \/ Janitor
    \/ ConnectionLost \/ ConnectionMade \/ NetworkChanged
    \/ Callback
    \/ Running \/ Stop

\* Go runs every goroutine that can run, and time passes; the janitor returns
\* at its first look at n.ctx after Stop.  Nothing is assumed of the peer, which
\* need not read, and Stop need not be called.
Fairness ==
    /\ \A s \in Senders : WF_vars(Sending(s))
    /\ WF_vars(Alive /\ Janitor)
    /\ WF_vars(Sweep)
    /\ WF_vars(Callback)
    /\ WF_vars(Running)

Spec == Init /\ [][Next]_vars /\ Fairness

------------------------------------------------------------------------------
(* Invariants *)

\* The type of every variable; ps.mu is held by whoever writes.
TypeOK ==
    /\ node \in {"starting", "running", "closing", "hung", "stopped"}
    /\ pool \in Streams \cup {None}
    /\ conn \in {"up", "down"}
    /\ stream \in [Streams -> {"unused", "open", "closed", "reset"}]
    /\ wire \in [Streams -> Seq(1 .. MaxMessages)]
    /\ reader \in [Streams -> {"reads", "returned"}]
    /\ lock \in [Streams -> Senders \cup {None}]
    /\ \A x \in Streams, s \in Senders :
        lock[x] = s <=> pc[s] \in {"write", "stuck"} /\ mine[s] = x
    /\ idle \in [Streams -> BOOLEAN]
    /\ pc \in [Senders -> PCs]
    /\ msg \in [Senders -> 0 .. MaxMessages]
    /\ mine \in [Senders -> Streams \cup {None}]
    /\ fresh \in [Senders -> BOOLEAN]
    /\ victim \in [Senders -> Streams \cup {None}]
    /\ janitor \in Streams \cup {None}
    /\ callback \in {"none", "evict", "reset", "lock"}
    /\ dropped \in Streams \cup {None}
    /\ lastMsg \in 0 .. MaxMessages
    /\ drops \in 0 .. MaxDrops
    /\ raced \in BOOLEAN

\* No stream leaks, and no write waits for one that nobody will reset: an open
\* stream is pooled, in the hands of the sender that opened it and has not
\* pooled it (or never will: v1), or about to be reset.  The pool's steps of
\* several senders, the janitor and DisconnectedF interleave freely.
Owned(x) ==
    \/ pool = x
    \/ dropped = x
    \/ \E s \in Senders :
        \/ victim[s] = x
        \/ mine[s] = x /\ pc[s] \in {"put", "write1", "stuck1"}

NoStreamLeak == \A x \in Streams : stream[x] = "open" => Owned(x)

------------------------------------------------------------------------------
(* Action properties *)

\* SendToPeer has returned no error, and the peer has not read the message.
OnItsWay(m) ==
    /\ \E x \in Streams : m \in ToSet(wire[x])
    /\ \A s \in Senders : msg[s] # m

\* A message that SendToPeer has reported as sent leaves the streams by being
\* read, or is lost in one of these ways only: the connection ends, the network
\* changes or the host is closed; a sender that has opened a stream resets the
\* one another sender has put into the pool meanwhile; a sender whose stream
\* failed, or DisconnectedF, resets the one that replaced it; the janitor takes
\* a stream to which nobody has begun to write for streamPoolTTL, or had not
\* when the janitor looked.  So none is lost from a stream in use, however many
\* senders share it, for any other reason.
LossExplained ==
    [][\A m \in 1 .. lastMsg : OnItsWay(m) /\ ~OnItsWay(m)' =>
        \/ \E x \in Streams : Read(x)
        \/ ConnectionLost \/ NetworkChanged \/ Stop
        \/ \E s \in Senders : Put(s) /\ pool # None /\ m \in ToSet(wire[pool])
        \/ \E s \in Senders : ResetVictim(s) /\ victim[s] # mine[s]
        \/ CallbackReset
        \/ Sweep /\ (idle[janitor] \/ raced)]_vars

------------------------------------------------------------------------------
(* Liveness *)

\* Stop and DisconnectedF wait for each other.
Hung == node = "hung" \/ (node = "closing" /\ callback = "lock")

\* Every call of SendToPeer returns, even when the peer stops reading and writes
\* block for ever: the janitor, or the end of the connection, resets the stream
\* they wait for.  There are two exceptions: a v1 write of a message that is too
\* large may wait for the connection to be lost, and a call that has to take n.mu
\* waits for ever once Stop hangs; a call past that point returns even then.
SendReturns ==
    \A s \in Senders :
        (pc[s] # "idle") ~> \/ pc[s] \in {"idle", "stuck1"}
                            \/ Hung /\ pc[s] \in {"call", "find"}
=============================================================================
