---------------------------- MODULE OfflineInbox ----------------------------
(***************************************************************************)
(* The life of the messages targeted at one rider: the targeted branch of  *)
(* forwardToCity and Forward (internal/riderbridge), the offline callback  *)
(* of cmd/main.go that stores a message in the rider's Redis inbox and     *)
(* sends an FCM wake-up, and flushInbox, which drains the inbox when the   *)
(* rider identifies on a new connection.                                   *)
(*                                                                         *)
(* RiderBridge models the tables and the goroutines of all connections     *)
(* with messages left out; here the messages are kept, and one rider's     *)
(* connections only.  A Redis pipeline is sent and executed as a whole,    *)
(* but it is no transaction: another client's commands may run between two *)
(* of its own.  Its answer may be lost after it was executed; go-redis     *)
(* then sends it again, or gives up with an error.  An attempt has run to  *)
(* its end, or never will, when the next one is sent.                      *)
(*                                                                         *)
(* A definition marked "Bug" is part of no behaviour: it is a mistake in   *)
(* the definition below it that one of the properties would reveal.        *)
(***************************************************************************)
EXTENDS Integers, Sequences, FiniteSets, SequencesExt

CONSTANTS
    Conns,       \* the rider's connections, each used once
    Senders,     \* goroutines that forward messages to the rider
    None,        \* Go's nil
    SendBuffer,  \* capacity of riderConn.send (256)
    InboxCap,    \* maxInboxLen (100)
    MaxEvents    \* bound of the model: events from outside, an arrival
                 \* counting once for each pass of its message

ASSUME InboxNone == None \notin Conns \cup Senders

ASSUME InboxFinite == IsFiniteSet(Conns) /\ IsFiniteSet(Senders)

ASSUME InboxBounds ==
    /\ SendBuffer \in Nat \ {0}
    /\ InboxCap \in Nat \ {0}
    /\ MaxEvents \in Nat

VARIABLES
    \* Redis: the list inbox:<peer> and whether it has a time to live
    inbox, ttl,
    \* the rider's connections
    entry,      \* b.peerByID[peer]
    stage,      \* "absent", "online", "leaving", "gone"
    client,     \* the other end: "up" or "gone"
    send,       \* rc.send
    closed,     \* rc.send is closed
    pump,       \* writePump: "run" or "done"
    flush,      \* flushInbox: "off", "lrange", "del", "deliver"; "left": a DEL
                \* that a process which has died left to Redis
    drained,    \* messages it drained and has not delivered yet
    received,   \* messages the rider's app received, in order
    \* the goroutines forwarding to the rider
    pc, job, target,
    lastId,     \* messages that have arrived so far
    events      \* bound of the model: events and passes so far

redisVars == <<inbox, ttl>>
connVars == <<entry, stage, client, send, closed, pump, flush, drained>>
senderVars == <<pc, job, target>>
vars == <<redisVars, connVars, received, senderVars, lastId, events>>

\* The passes over the rider bridge a message still has to make: forwardToCity
\* for the rider's own city or for another, and Forward.
Passes == {"city", "otherCity", "all"}

Jobs == [id : Nat, passes : Seq(Passes)]

NoJob == [id |-> 0, passes |-> <<>>]

Event == events < MaxEvents /\ events' = events + 1

\* Bug: a closed channel is all that stops a send.
Unbounded(c) == ~closed[c]

\* rc.deliver succeeds: room in the channel, and the channel not closed
Deliverable(c) == ~closed[c] /\ Len(send[c]) < SendBuffer

\* Bug: nothing is trimmed.
Untrimmed(s) == s

\* LTRIM -cap -1
Trimmed(s) == IF Len(s) > InboxCap THEN SubSeq(s, Len(s) - InboxCap + 1, Len(s)) ELSE s

------------------------------------------------------------------------------
Init ==
    /\ inbox = <<>>
    /\ ttl = FALSE
    /\ entry = None
    /\ stage = [c \in Conns |-> "absent"]
    /\ client = [c \in Conns |-> "up"]
    /\ send = [c \in Conns |-> <<>>]
    /\ closed = [c \in Conns |-> FALSE]
    /\ pump = [c \in Conns |-> "run"]
    /\ flush = [c \in Conns |-> "off"]
    /\ drained = [c \in Conns |-> <<>>]
    /\ received = <<>>
    /\ pc = [s \in Senders |-> "idle"]
    /\ job = [s \in Senders |-> NoJob]
    /\ target = [s \in Senders |-> None]
    /\ lastId = 0
    /\ events = 0

------------------------------------------------------------------------------
(* The rider's connections *)

\* The rider connects and identifies: it becomes the peer's connection, and
\* flushInbox starts in a goroutine of its own.
Identify(c) ==
    /\ stage[c] = "absent"
    /\ stage' = [stage EXCEPT ![c] = "online"]
    /\ entry' = c
    /\ flush' = [flush EXCEPT ![c] = "lrange"]
    /\ UNCHANGED <<redisVars, client, send, closed, pump, drained, received, senderVars,
                   lastId, events>>

\* DrainOfflineMessages: LRANGE 0 -1 ...
DrainRange(c) ==
    /\ flush[c] = "lrange"
    /\ flush' = [flush EXCEPT ![c] = "del"]
    /\ drained' = [drained EXCEPT ![c] = inbox]
    /\ UNCHANGED <<redisVars, entry, stage, client, send, closed, pump, received,
                   senderVars, lastId, events>>

\* Bug: what was fetched is not deleted.
DrainKeeps(c) ==
    /\ flush[c] = "del"
    /\ flush' = [flush EXCEPT ![c] = "deliver"]
    /\ UNCHANGED <<redisVars, entry, stage, client, send, closed, pump, drained,
                   received, senderVars, lastId, events>>

\* ... and DEL, the second command of the pipeline.
DrainDel(c) ==
    /\ flush[c] = "del"
    /\ flush' = [flush EXCEPT ![c] = "deliver"]
    /\ inbox' = <<>>
    /\ ttl' = FALSE
    /\ UNCHANGED <<entry, stage, client, send, closed, pump, drained, received,
                   senderVars, lastId, events>>

\* The answer is lost after the DEL: the pipeline is sent again, and its LRANGE
\* returns what came since, or flushInbox gets an error and gives up.
DrainAnswerLost(c) ==
    /\ flush[c] = "del"
    /\ Event
    /\ \/ flush' = [flush EXCEPT ![c] = "lrange"]
       \/ flush' = [flush EXCEPT ![c] = "off"]
    /\ drained' = [drained EXCEPT ![c] = <<>>]
    /\ inbox' = <<>>
    /\ ttl' = FALSE
    /\ UNCHANGED <<entry, stage, client, send, closed, pump, received, senderVars,
                   lastId>>

\* The DEL of a process that has died meanwhile.
DrainLeft(c) ==
    /\ flush[c] = "left"
    /\ flush' = [flush EXCEPT ![c] = "off"]
    /\ inbox' = <<>>
    /\ ttl' = FALSE
    /\ UNCHANGED <<entry, stage, client, send, closed, pump, drained, received,
                   senderVars, lastId, events>>

\* No attempt reaches Redis: flushInbox gives up.
DrainFails(c) ==
    /\ flush[c] = "lrange"
    /\ Event
    /\ flush' = [flush EXCEPT ![c] = "off"]
    /\ UNCHANGED <<redisVars, entry, stage, client, send, closed, pump, drained,
                   received, senderVars, lastId>>

\* flushInbox delivers the next message; if it cannot, it drops the rest.
FlushOne(c) ==
    /\ flush[c] = "deliver"
    /\ IF drained[c] # <<>> /\ Deliverable(c)
       THEN /\ send' = [send EXCEPT ![c] = Append(@, Head(drained[c]))]
            /\ drained' = [drained EXCEPT ![c] = Tail(@)]
            /\ UNCHANGED flush
       ELSE /\ flush' = [flush EXCEPT ![c] = "off"]
            /\ drained' = [drained EXCEPT ![c] = <<>>]
            /\ UNCHANGED send
    /\ UNCHANGED <<redisVars, entry, stage, client, closed, pump, received, senderVars,
                   lastId, events>>

\* writePump writes a frame: a rider that is gone does not receive it.
PumpWrite(c) ==
    /\ pump[c] = "run"
    /\ send[c] # <<>>
    /\ send' = [send EXCEPT ![c] = Tail(@)]
    /\ received' = IF client[c] = "up" THEN Append(received, Head(send[c])) ELSE received
    /\ UNCHANGED <<redisVars, entry, stage, client, closed, pump, flush, drained,
                   senderVars, lastId, events>>

\* writePump returns: channel closed and empty, or the write to a rider that
\* is gone failed.
PumpExit(c) ==
    /\ pump[c] = "run"
    /\ \/ closed[c] /\ send[c] = <<>>
       \/ client[c] = "gone" /\ send[c] # <<>>
    /\ pump' = [pump EXCEPT ![c] = "done"]
    /\ send' = [send EXCEPT ![c] = <<>>]
    /\ UNCHANGED <<redisVars, entry, stage, client, closed, flush, drained, received,
                   senderVars, lastId, events>>

\* The rider's network goes away (handover, radio off, app killed).
ClientGone(c) ==
    /\ stage[c] = "online"
    /\ client[c] = "up"
    /\ Event
    /\ client' = [client EXCEPT ![c] = "gone"]
    /\ UNCHANGED <<redisVars, entry, stage, send, closed, pump, flush, drained, received,
                   senderVars, lastId>>

\* The read loop ends, at once or at its deadline.
ReadFails(c) ==
    /\ stage[c] = "online"
    /\ pump[c] = "done" \/ client[c] = "gone"
    /\ stage' = [stage EXCEPT ![c] = "leaving"]
    /\ UNCHANGED <<redisVars, entry, client, send, closed, pump, flush, drained, received,
                   senderVars, lastId, events>>

\* The deferred clean-up deletes the peer's entry, whichever connection it
\* names, and closes the channel.
Cleanup(c) ==
    /\ stage[c] = "leaving"
    /\ stage' = [stage EXCEPT ![c] = "gone"]
    /\ entry' = None
    /\ closed' = [closed EXCEPT ![c] = TRUE]
    /\ UNCHANGED <<redisVars, client, send, pump, flush, drained, received, senderVars,
                   lastId, events>>

------------------------------------------------------------------------------
(* Forwarding a targeted message *)

\* A message arrives.  A rider's message goes through forwardToCity for the
\* sender's city and then, by the relay callback, through Forward; a driver's
\* or a native peer's goes through Forward alone.
Arrive(s) ==
    /\ pc[s] = "idle"
    /\ lastId' = lastId + 1
    /\ pc' = [pc EXCEPT ![s] = "lookup"]
    /\ \E passes \in {<<"all">>, <<"city", "all">>, <<"otherCity", "all">>} :
        /\ events' = events + Len(passes)
        /\ events' <= MaxEvents
        /\ job' = [job EXCEPT ![s] = [id |-> lastId + 1, passes |-> passes]]
    /\ UNCHANGED <<redisVars, connVars, received, target>>

\* peerByID is read under RLock; forwardToCity ignores a rider of another city.
Lookup(s) ==
    /\ pc[s] = "lookup"
    /\ IF entry = None \/ Head(job[s].passes) = "otherCity"
       THEN /\ pc' = [pc EXCEPT ![s] = "rpush"]
            /\ UNCHANGED target
       ELSE /\ pc' = [pc EXCEPT ![s] = "deliver"]
            /\ target' = [target EXCEPT ![s] = entry]
    /\ UNCHANGED <<redisVars, connVars, received, job, lastId, events>>

\* The next pass of the message, or none.
Rest(j) == IF Len(j.passes) > 1 THEN [j EXCEPT !.passes = Tail(@)] ELSE NoJob

Return(s) ==
    /\ job' = [job EXCEPT ![s] = Rest(@)]
    /\ pc' = [pc EXCEPT ![s] = IF Len(job[s].passes) > 1 THEN "lookup" ELSE "idle"]

\* rc.deliver
Deliver(s) ==
    /\ pc[s] = "deliver"
    /\ LET c == target[s] IN
       IF Deliverable(c)
       THEN /\ send' = [send EXCEPT ![c] = Append(@, job[s].id)]
            /\ target' = [target EXCEPT ![s] = None]
            /\ Return(s)
       ELSE /\ pc' = [pc EXCEPT ![s] = "evict"]
            /\ UNCHANGED <<send, target, job>>
    /\ UNCHANGED <<redisVars, entry, stage, client, closed, pump, flush, drained,
                   received, lastId, events>>

\* The slow client leaves the tables ...
Evict(s) ==
    /\ pc[s] = "evict"
    /\ pc' = [pc EXCEPT ![s] = "close"]
    /\ entry' = None
    /\ UNCHANGED <<redisVars, stage, client, send, closed, pump, flush, drained, received,
                   job, target, lastId, events>>

\* Bug: the message that could not be delivered is dropped.
CloseAndDrop(s) ==
    /\ pc[s] = "close"
    /\ closed' = [closed EXCEPT ![target[s]] = TRUE]
    /\ target' = [target EXCEPT ![s] = None]
    /\ Return(s)
    /\ UNCHANGED <<redisVars, entry, stage, client, send, pump, flush, drained, received,
                   lastId, events>>

\* ... its channel is closed, and the message takes the offline path.
CloseEvicted(s) ==
    /\ pc[s] = "close"
    /\ pc' = [pc EXCEPT ![s] = "rpush"]
    /\ closed' = [closed EXCEPT ![target[s]] = TRUE]
    /\ target' = [target EXCEPT ![s] = None]
    /\ UNCHANGED <<redisVars, entry, stage, client, send, pump, flush, drained, received,
                   job, lastId, events>>

------------------------------------------------------------------------------
(* The offline callback *)

\* EnqueueOfflineMessage: RPUSH, LTRIM, EXPIRE in one pipeline.
EnqueuePush(s) ==
    /\ pc[s] = "rpush"
    /\ pc' = [pc EXCEPT ![s] = "ltrim"]
    /\ inbox' = Append(inbox, job[s].id)
    /\ UNCHANGED <<ttl, connVars, received, job, target, lastId, events>>

EnqueueTrim(s) ==
    /\ pc[s] = "ltrim"
    /\ pc' = [pc EXCEPT ![s] = "expire"]
    /\ inbox' = Trimmed(inbox)
    /\ UNCHANGED <<ttl, connVars, received, job, target, lastId, events>>

\* Bug: EXPIRE is left out.
EnqueueForGood(s) ==
    /\ pc[s] = "expire"
    /\ Return(s)
    /\ UNCHANGED <<redisVars, connVars, received, target, lastId, events>>

\* EXPIRE has no effect on a key that does not exist.  An error that follows is
\* only logged, and the wake-up push changes nothing here: a rider may connect
\* at any time.
EnqueueExpire(s) ==
    /\ pc[s] = "expire"
    /\ ttl' = (inbox # <<>>)
    /\ Return(s)
    /\ UNCHANGED <<inbox, connVars, received, target, lastId, events>>

\* The same with the answer lost, and go-redis sends the pipeline again.
EnqueueAgain(s) ==
    /\ pc[s] = "expire"
    /\ job[s] # NoJob
    /\ Event
    /\ ttl' = (inbox # <<>>)
    /\ pc' = [pc EXCEPT ![s] = "rpush"]
    /\ UNCHANGED <<inbox, connVars, received, job, target, lastId>>

\* No further attempt reaches Redis: the error is logged.
EnqueueFails(s) ==
    /\ pc[s] = "rpush"
    /\ Event
    /\ Return(s)
    /\ UNCHANGED <<redisVars, connVars, received, target, lastId>>

------------------------------------------------------------------------------
(* Time and crashes *)

\* 48 hours without an enqueue: Redis drops the key.
InboxExpires ==
    /\ ttl
    /\ Event
    /\ inbox' = <<>>
    /\ ttl' = FALSE
    /\ UNCHANGED <<connVars, received, senderVars, lastId>>

\* The bootstrap process dies and starts again; Redis keeps the inbox, and
\* still runs the rest of a pipeline it has received.
Crash ==
    /\ Event
    /\ entry' = None
    /\ stage' = [c \in Conns |-> IF stage[c] = "absent" THEN "absent" ELSE "gone"]
    /\ send' = [c \in Conns |-> <<>>]
    /\ closed' = [c \in Conns |-> stage[c] # "absent"]
    /\ pump' = [c \in Conns |-> IF stage[c] = "absent" THEN "run" ELSE "done"]
    /\ flush' = [c \in Conns |-> IF flush[c] \in {"del", "left"} THEN "left" ELSE "off"]
    /\ drained' = [c \in Conns |-> <<>>]
    /\ pc' = [s \in Senders |-> IF pc[s] \in {"ltrim", "expire"} THEN pc[s] ELSE "idle"]
    /\ job' = [s \in Senders |-> NoJob]
    /\ target' = [s \in Senders |-> None]
    /\ UNCHANGED <<redisVars, client, received, lastId>>

------------------------------------------------------------------------------
Connection(c) ==
    \/ Identify(c) \/ DrainRange(c) \/ DrainDel(c) \/ DrainAnswerLost(c) \/ DrainLeft(c)
    \/ DrainFails(c) \/ FlushOne(c)
    \/ PumpWrite(c) \/ PumpExit(c) \/ ClientGone(c) \/ ReadFails(c) \/ Cleanup(c)

Forwarding(s) ==
    \/ Lookup(s) \/ Deliver(s) \/ Evict(s) \/ CloseEvicted(s)
    \/ EnqueuePush(s) \/ EnqueueTrim(s) \/ EnqueueExpire(s) \/ EnqueueAgain(s)
    \/ EnqueueFails(s)

Next ==
    \/ \E c \in Conns : Connection(c)
    \/ \E s \in Senders : Arrive(s) \/ Forwarding(s)
    \/ InboxExpires
    \/ Crash

Spec == Init /\ [][Next]_vars
------------------------------------------------------------------------------
(* Invariants *)

\* The type of every variable.
TypeOK ==
    /\ inbox \in Seq(Nat)
    /\ ttl \in BOOLEAN
    /\ entry \in Conns \cup {None}
    /\ stage \in [Conns -> {"absent", "online", "leaving", "gone"}]
    /\ client \in [Conns -> {"up", "gone"}]
    /\ send \in [Conns -> Seq(Nat)]
    /\ \A c \in Conns : Len(send[c]) <= SendBuffer
    /\ closed \in [Conns -> BOOLEAN]
    /\ pump \in [Conns -> {"run", "done"}]
    /\ flush \in [Conns -> {"off", "lrange", "del", "deliver", "left"}]
    /\ drained \in [Conns -> Seq(Nat)]
    /\ received \in Seq(Nat)
    /\ pc \in [Senders -> {"idle", "lookup", "deliver", "evict", "close",
                           "rpush", "ltrim", "expire"}]
    /\ job \in [Senders -> Jobs]
    /\ target \in [Senders -> Conns \cup {None}]
    /\ lastId \in 0 .. MaxEvents
    /\ events \in 0 .. MaxEvents

\* The inbox exceeds its cap by no more than the enqueues that have not
\* trimmed it yet.
InboxBounded ==
    Len(inbox) <= InboxCap + Cardinality({s \in Senders : pc[s] = "ltrim"})

\* A stored message always has a time to live, or an EXPIRE on its way, however
\* enqueues, drains and crashes interleave: no inbox is kept for ever.
ExpiryArmed ==
    inbox # <<>> => ttl \/ \E s \in Senders : pc[s] \in {"ltrim", "expire"}

------------------------------------------------------------------------------
(* Action properties *)

\* The positions of message m in a list
At(m, q) == {i \in DOMAIN q : q[i] = m}

\* The passes a goroutine has yet to make; one whose message is in the inbox is
\* done but for the trimming.
ToMake(s) == (IF pc[s] \in {"ltrim", "expire"} THEN 2 ELSE 1) .. Len(job[s].passes)

Placed(place, holder, positions) == {place} \X {holder} \X positions

\* The copies of a message that may still reach the rider or have reached it:
\* in Redis, received, in a send buffer, drained, or in passes still to be made.
\* What a drain has read counts once its DEL has removed the original.
Copies(m) ==
    Placed("inbox", None, At(m, inbox)) \cup Placed("received", None, At(m, received))
    \cup (UNION {Placed("send", c, At(m, send[c])) : c \in Conns})
    \cup (UNION {Placed("drained", c, At(m, drained[c])) :
                 c \in {c \in Conns : flush[c] = "deliver"}})
    \cup (UNION {Placed("pass", s, ToMake(s)) : s \in {s \in Senders : job[s].id = m}})

\* Copies(m) # {}
Held(m) ==
    \/ m \in ToSet(inbox) \cup ToSet(received)
    \/ \E c \in Conns : m \in ToSet(send[c])
    \/ \E c \in Conns : flush[c] = "deliver" /\ m \in ToSet(drained[c])
    \/ \E s \in Senders :
        /\ job[s].id = m
        /\ pc[s] \in {"ltrim", "expire"} => Len(job[s].passes) > 1

\* The last copy of a message is lost in these ways only: LTRIM takes it from a
\* full inbox; a drain's DEL removes it although LRANGE did not return it, or the
\* answer of the drain is lost, or its process has died; flushInbox cannot
\* deliver; the rider is gone whose writePump has it (a buffer counts until
\* then); the enqueue fails; the inbox expires; a crash.  The list is the code's:
\* "at-least-once delivery on reconnect" (main.go) is more than it gives.
LossExplained ==
    [][\A m \in 1 .. lastId : Held(m) /\ ~Held(m)' =>
        \/ \E s \in Senders : EnqueueTrim(s) /\ m \notin ToSet(Trimmed(inbox))
        \/ \E c \in Conns : DrainDel(c) /\ m \notin ToSet(drained[c])
        \/ \E c \in Conns : DrainAnswerLost(c) \/ DrainLeft(c)
        \/ \E c \in Conns : FlushOne(c) /\ ~Deliverable(c) /\ m \in ToSet(drained[c])
        \/ \E c \in Conns : /\ PumpWrite(c) \/ PumpExit(c)
                            /\ client[c] = "gone" /\ m \in ToSet(send[c])
        \/ \E s \in Senders : EnqueueFails(s) /\ job[s].id = m
        \/ InboxExpires \/ Crash]_vars

\* The bridge makes a second copy of a message in two ways only: the DEL of a
\* drain finds that what its LRANGE returned is already gone from the inbox
\* (drained by another connection of the same rider), and an enqueue whose answer
\* was lost is executed again.
CopyExplained ==
    [][\A m \in 1 .. lastId :
        \/ Cardinality(Copies(m)') <= Cardinality(Copies(m))
        \/ \E c \in Conns : /\ DrainDel(c)
                            /\ Cardinality(At(m, drained[c])) > Cardinality(At(m, inbox))
        \/ \E s \in Senders : EnqueueAgain(s) /\ job[s].id = m
      ]_vars

------------------------------------------------------------------------------
(* What the comments say *)

\* cmd/main.go: "Wire persistence: offline inbox + message deduplication", and
\* riderbridge/bridge.go: "DedupStore provides server-side message
\* deduplication".  The rider never receives a message twice.
NeverReceivedTwice ==
    \A m \in 1 .. lastId : Cardinality(At(m, received)) <= 1
=============================================================================
