------------------------- MODULE DriverBridge_proofs -------------------------
(***************************************************************************)
(* Proofs about DriverBridge, for every value of its constants: its type   *)
(* invariant, its safety invariants, the refinement of Directory, and what *)
(* becomes of targeted messages.                                           *)
(*                                                                         *)
(* The inductive invariant is built in layers, each inductive relative to  *)
(* the ones before it: TypeOK with Control, TablesMatch, NoOrphan,         *)
(* LostOnlyByHandover, Admitted.  The second half follows the messages:    *)
(* the calls of Forward, the peers' queues, the flushes and the wires are  *)
(* seen as one family of sequences, the holders of messages, and every     *)
(* step as one of five ways to change such a family.                       *)
(***************************************************************************)
EXTENDS DriverBridge, FiniteSetTheorems, TLAPS

USE DEF handlerVars, tableVars, threadVars, vars

------------------------------------------------------------------------------
(* Type correctness *)

\* What a program counter says of the locals beside it.  A handler has a name
\* while it registers it and flushes its queue, and none before it reads; it
\* counts only after it has admitted or cleaned up a connection.  A call of
\* Forward holds a connection while it writes to it, unlinks it and closes it,
\* and a message with a target until that is written or queued.
Control ==
    /\ \A c \in Conns :
        /\ stage[c] \in {"naming", "draining", "flushing"} => peerId[c] \in Peers
        /\ stage[c] \in {"absent", "upgrading", "counting"} => peerId[c] = None
        /\ pc[c] \in {"idle", "count"}
        /\ pc[c] = "count" => stage[c] \in {"counting", "farewell"}
    /\ \A r \in Relays :
        /\ pc[r] # "count"
        /\ pc[r] \in {"write", "remove", "close"} => victim[r] \in Conns
        /\ pc[r] \in {"write", "enqueue"} => job[r].to \in Peers
        /\ job[r] # NoJob => job[r].to \in Peers
    /\ sentCount <= events

LEMMA InitTypeOK == Init => TypeOK /\ Control
  BY DriverNone, DriverBounds
  DEF Init, TypeOK, Control, Stages, Inserted, Threads, NoJob, MaybeConn

\* The queue keeps its type and its limit.
LEMMA EnqueuedFits ==
    ASSUME NEW q \in Seq(Nat), Len(q) <= QueueCap, NEW m \in Nat
    PROVE  Enqueued(q, m) \in Seq(Nat) /\ Len(Enqueued(q, m)) <= QueueCap
<1>1. CASE Len(q) >= QueueCap
  <2>1. q # <<>>
    BY <1>1, DriverBounds
  <2>2. Tail(q) \in Seq(Nat) /\ Len(Tail(q)) = Len(q) - 1
    BY <2>1
  <2>3. Enqueued(q, m) = Append(Tail(q), m)
    BY <1>1 DEF Enqueued
  <2> QED
    BY <2>2, <2>3, DriverBounds
<1>2. CASE ~(Len(q) >= QueueCap)
  <2>1. Enqueued(q, m) = Append(q, m)
    BY <1>2 DEF Enqueued
  <2> QED
    BY <1>2, <2>1, DriverBounds
<1> QED
  BY <1>1, <1>2

LEMMA HandlerTypeOK ==
    ASSUME TypeOK, Control, NEW c \in Conns, Handler(c) \/ DriverGone(c)
    PROVE  TypeOK' /\ Control'
<1> USE DEF TypeOK, Control, MaybeConn, Event, Threads, Stages, Inserted
<1> USE DriverNone, DriverBounds
<1>1. CASE CheckLimit(c)
  BY <1>1 DEF CheckLimit
<1>2. CASE Admit(c)
  BY <1>2 DEF Admit
<1>3. CASE UpgradeFails(c)
  BY <1>3 DEF UpgradeFails
<1>4. CASE Identify(c)
  BY <1>4 DEF Identify
<1>5. CASE Register(c)
  BY <1>5 DEF Register
<1>6. CASE Drain(c)
  <2>1. peerId[c] \in Peers
    BY <1>6 DEF Drain
  <2>2. flush' \in [Conns -> Seq(Nat)] /\ queue' \in [Peers -> Seq(Nat)]
    BY <1>6, <2>1 DEF Drain
  <2>3. \A p \in Peers : Len(queue'[p]) <= QueueCap
    BY <1>6, <2>1 DEF Drain
  <2>4. /\ stage' = [stage EXCEPT ![c] = "flushing"] /\ stage[c] = "draining"
        /\ UNCHANGED <<peerId, socket, wire, tableVars, threadVars, run, sentCount, events>>
    BY <1>6 DEF Drain
  <2>5. Control'
    BY <2>1, <2>4
  <2> QED
    BY <2>2, <2>3, <2>4, <2>5
<1>7. CASE FlushOne(c)
  <2>1. flush[c] \in Seq(Nat) /\ flush[c] # <<>>
    BY <1>7 DEF FlushOne
  <2>2. Head(flush[c]) \in Nat /\ Tail(flush[c]) \in Seq(Nat)
    BY <2>1
  <2>3. flush' \in [Conns -> Seq(Nat)]
    BY <1>7, <2>2 DEF FlushOne
  <2>4. wire' \in [Conns -> Seq(Nat)]
    <3>1. Append(wire[c], Head(flush[c])) \in Seq(Nat)
      BY <2>2
    <3>2. \/ wire' = [wire EXCEPT ![c] = Append(wire[c], Head(flush[c]))]
          \/ wire' = wire
      BY <1>7 DEF FlushOne
    <3>3. wire \in [Conns -> Seq(Nat)]
      OBVIOUS
    <3> HIDE DEF TypeOK, Control
    <3> QED
      BY <3>1, <3>2, <3>3
  <2> QED
    BY <1>7, <2>3, <2>4 DEF FlushOne
<1>8. CASE Flushed(c)
  BY <1>8 DEF Flushed
<1>9. CASE ReadFails(c)
  BY <1>9 DEF ReadFails
<1>10. CASE Cleanup(c)
  BY <1>10 DEF Cleanup, Unlink, PeerForgotten
<1>11. CASE CloseOwn(c)
  BY <1>11 DEF CloseOwn
<1>12. CASE BeginCount(c)
  BY <1>12 DEF BeginCount
<1>13. CASE CountOne(c)
  <2>1. PICK d \in todo[c] :
          /\ todo' = [todo EXCEPT ![c] = todo[c] \ {d}]
          /\ dead' = dead \/ dead' = [dead EXCEPT ![c] = dead[c] \cup {d}]
    BY <1>13 DEF CountOne
  <2>2. /\ todo \in [Threads -> SUBSET Conns] /\ dead \in [Threads -> SUBSET Conns]
        /\ todo[c] \ {d} \in SUBSET Conns /\ dead[c] \cup {d} \in SUBSET Conns
    BY <2>1
  <2>3. todo' \in [Threads -> SUBSET Conns] /\ dead' \in [Threads -> SUBSET Conns]
    <3>1. todo' \in [Threads -> SUBSET Conns]
      BY <2>1, <2>2
    <3>2. CASE dead' = dead
      BY <2>2, <3>1, <3>2
    <3>3. CASE dead' = [dead EXCEPT ![c] = dead[c] \cup {d}]
      BY <2>2, <3>1, <3>3
    <3> QED
      BY <2>1, <3>2, <3>3
  <2>4. UNCHANGED <<handlerVars, socket, wire, tableVars, queue, pc, job, victim, run,
                    sentCount, events>>
    BY <1>13 DEF CountOne
  <2> QED
    BY <2>3, <2>4
<1>14. CASE EndCount(c)
  BY <1>14 DEF EndCount
<1>15. CASE DriverGone(c)
  BY <1>15 DEF DriverGone
<1> QED
  BY <1>1, <1>2, <1>3, <1>4, <1>5, <1>6, <1>7, <1>8, <1>9, <1>10, <1>11, <1>12, <1>13,
     <1>14, <1>15 DEF Handler, Serve

LEMMA RelayTypeOK ==
    ASSUME TypeOK, Control, NEW r \in Relays, Relay(r)
    PROVE  TypeOK' /\ Control'
<1> USE DEF TypeOK, Control, MaybeConn, Event, Threads, Stages, Inserted
<1> USE DriverNone, DriverBounds
<1>1. ASSUME NEW p \in Peers, ForwardTo(r, p)
      PROVE  TypeOK' /\ Control'
  <2>1. job' \in [Threads -> [id : Nat, to : Peers \cup {None}]]
    BY <1>1 DEF ForwardTo
  <2>2. job'[r].to = p /\ \A t \in Threads \ {r} : job'[t] = job[t]
    BY <1>1 DEF ForwardTo
  <2>3. /\ victim' \in [Threads -> MaybeConn]
        /\ pc' \in [Threads -> {"idle", "count", "write", "all", "remove", "close",
                                "enqueue"}]
        /\ victim'[r] = peerByID[p]
        /\ pc'[r] = IF peerByID[p] = None THEN "enqueue" ELSE "write"
        /\ \A t \in Threads \ {r} : pc'[t] = pc[t] /\ victim'[t] = victim[t]
    BY <1>1 DEF ForwardTo
  <2>4. /\ sentCount' \in 0 .. MaxEvents /\ events' \in 0 .. MaxEvents
        /\ sentCount' <= events'
    BY <1>1 DEF ForwardTo
  <2>5. UNCHANGED <<handlerVars, socket, wire, tableVars, queue, todo, dead, run>>
    BY <1>1 DEF ForwardTo
  <2>6. TypeOK'
    BY <2>1, <2>3, <2>4, <2>5
  <2>7. Control'
    <3>1. \A c \in Conns : r # c /\ pc'[c] = pc[c]
      BY <2>3
    <3>2. ASSUME NEW q \in Relays
          PROVE  /\ pc'[q] # "count"
                 /\ pc'[q] \in {"write", "remove", "close"} => victim'[q] \in Conns
      <4>1. CASE q = r
        BY <2>3, <4>1
      <4>2. CASE q # r
        BY <2>3, <4>2
      <4> QED
        BY <4>1, <4>2
    <3>3. ASSUME NEW q \in Relays
          PROVE  /\ pc'[q] \in {"write", "enqueue"} => job'[q].to \in Peers
                 /\ job'[q] # NoJob => job'[q].to \in Peers
      <4>1. CASE q = r
        BY <2>2, <4>1
      <4>2. CASE q # r
        <5>1. pc'[q] = pc[q] /\ job'[q] = job[q]
          BY <2>2, <2>3, <4>2
        <5> QED
          BY <5>1
      <4> QED
        BY <4>1, <4>2
    <3> QED
      BY <2>4, <2>5, <3>1, <3>2, <3>3
  <2> QED
    BY <2>6, <2>7
<1>2. CASE WriteTarget(r)
  <2>1. victim[r] \in Conns /\ job[r].id \in Nat
    BY <1>2 DEF WriteTarget
  <2>2. UNCHANGED <<handlerVars, socket, tableVars, queue, todo, dead, run, sentCount,
                    events>>
    BY <1>2 DEF WriteTarget
  <2>3. CASE /\ wire' = [wire EXCEPT ![victim[r]] = Append(wire[victim[r]], job[r].id)]
             /\ pc' = [pc EXCEPT ![r] = "idle"]
             /\ job' = [job EXCEPT ![r] = NoJob]
             /\ victim' = [victim EXCEPT ![r] = None]
    <3>1. Append(wire[victim[r]], job[r].id) \in Seq(Nat)
      BY <2>1
    <3>2. wire' \in [Conns -> Seq(Nat)]
      BY <2>3, <3>1
    <3>3. /\ job' \in [Threads -> [id : Nat, to : Peers \cup {None}]]
          /\ victim' \in [Threads -> MaybeConn]
          /\ \A t \in Threads \ {r} : /\ pc'[t] = pc[t] /\ job'[t] = job[t]
                                      /\ victim'[t] = victim[t]
          /\ job'[r] = NoJob /\ pc'[r] = "idle"
      BY <2>3 DEF NoJob
    <3>4. Control'
      BY <2>2, <3>3, ZenonT(60)
    <3> QED
      BY <2>2, <2>3, <3>2, <3>3, <3>4
  <2>4. CASE pc' = [pc EXCEPT ![r] = "remove"] /\ UNCHANGED <<wire, job, victim>>
    BY <2>1, <2>2, <2>4
  <2> QED
    BY <1>2, <2>3, <2>4 DEF WriteTarget
<1>3. CASE ForwardAll(r)
  BY <1>3 DEF ForwardAll
<1>4. CASE WriteOne(r)
  <2>1. PICK d \in todo[r] :
          /\ todo' = [todo EXCEPT ![r] = todo[r] \ {d}]
          /\ \/ UNCHANGED <<pc, victim>>
             \/ /\ pc' = [pc EXCEPT ![r] = "remove"]
                /\ victim' = [victim EXCEPT ![r] = d]
    BY <1>4 DEF WriteOne
  <2>2. d \in Conns /\ todo' \in [Threads -> SUBSET Conns]
    BY <2>1
  <2>3. UNCHANGED <<handlerVars, socket, wire, tableVars, queue, job, dead, run,
                    sentCount, events>>
    BY <1>4 DEF WriteOne
  <2>4. CASE UNCHANGED <<pc, victim>>
    BY <2>2, <2>3, <2>4
  <2>5. CASE /\ pc' = [pc EXCEPT ![r] = "remove"]
             /\ victim' = [victim EXCEPT ![r] = d]
    BY <2>2, <2>3, <2>5
  <2> QED
    BY <2>1, <2>4, <2>5
<1>5. CASE Remove(r)
  BY <1>5 DEF Remove, Unlink, PeerForgotten
<1>6. CASE Close(r)
  BY <1>6 DEF Close
<1>7. CASE EndAll(r)
  BY <1>7 DEF EndAll
<1>8. CASE Enqueue(r)
  <2>1. job[r].to \in Peers /\ job[r].id \in Nat
    BY <1>8 DEF Enqueue
  <2>2. /\ queue' \in [Peers -> Seq(Nat)]
        /\ \A p \in Peers : Len(queue'[p]) <= QueueCap
    BY <1>8, <2>1, EnqueuedFits DEF Enqueue
  <2>3. job' \in [Threads -> [id : Nat, to : Peers \cup {None}]]
    BY <1>8 DEF Enqueue, NoJob
  <2>4. Control'
    BY <1>8 DEF Enqueue, NoJob
  <2> QED
    BY <1>8, <2>2, <2>3, <2>4 DEF Enqueue
<1> QED
  BY <1>1, <1>2, <1>3, <1>4, <1>5, <1>6, <1>7, <1>8 DEF Relay, FinishForward

LEMMA NextTypeOK == TypeOK /\ Control /\ [Next]_vars => TypeOK' /\ Control'
<1> SUFFICES ASSUME TypeOK, Control, [Next]_vars
             PROVE  TypeOK' /\ Control'
  OBVIOUS
<1>1. CASE Stop
  BY <1>1, DriverBounds DEF Stop, Event, TypeOK, Control
<1>2. CASE Reset
  BY <1>2 DEF Reset, TypeOK, Control
<1>3. CASE UNCHANGED vars
  BY <1>3 DEF TypeOK, Control
<1> QED
  BY <1>1, <1>2, <1>3, HandlerTypeOK, RelayTypeOK DEF Next

LEMMA TypeAndControl == Spec => [](TypeOK /\ Control)
  BY InitTypeOK, NextTypeOK, PTL DEF Spec

LEMMA ControlCorrect == Spec => []Control
  BY TypeAndControl, PTL

\* Every variable keeps the type its declaration in bridge.go gives it, and no
\* peer's queue ever holds more than maxQueuedPerPeer messages.
THEOREM TypeCorrect == Spec => []TypeOK
  BY TypeAndControl, PTL

------------------------------------------------------------------------------
(* The two tables *)

\* The steps of Forward and of the process other than Remove and Reset: they
\* enter and take nothing.
Elsewhere ==
    \/ \E c \in Conns : DriverGone(c)
    \/ \E r \in Relays :
        \/ \E p \in Peers : ForwardTo(r, p)
        \/ ForwardAll(r) \/ WriteTarget(r) \/ WriteOne(r) \/ Close(r) \/ EndAll(r)
        \/ Enqueue(r)
    \/ Stop

LEMMA ElsewhereKeepsTables ==
    ASSUME Elsewhere
    PROVE  UNCHANGED <<stage, peerId, drivers, peerByID>>
  BY DEF Elsewhere, DriverGone, ForwardTo, ForwardAll, WriteTarget, WriteOne, Close,
         EndAll, Enqueue, Stop

\* What a step may be.
LEMMA StepKinds ==
    ASSUME [Next]_vars
    PROVE  \/ \E c \in Conns : Handler(c)
           \/ \E r \in Relays : Remove(r)
           \/ Reset
           \/ Elsewhere
           \/ UNCHANGED vars
  BY DEF Next, Relay, FinishForward, Elsewhere

\* A step that enters nothing in the tables and leaves the connections they
\* hold where they are keeps TablesMatch.
LEMMA TablesShrink ==
    ASSUME TypeOK, TypeOK', TablesMatch,
           drivers' \subseteq drivers,
           \A p \in Peers : peerByID'[p] \in {peerByID[p], None},
           UNCHANGED peerId,
           \A c \in Conns : /\ stage[c] \in Inserted => stage'[c] \in Inserted
                            /\ stage[c] \in Reachable => stage'[c] \in Reachable
    PROVE  TablesMatch'
  BY DEF TypeOK, MaybeConn, TablesMatch

LEMMA NextTablesMatch ==
    TypeOK /\ TypeOK' /\ Control /\ TablesMatch /\ [Next]_vars => TablesMatch'
<1> SUFFICES ASSUME TypeOK, TypeOK', Control, TablesMatch, [Next]_vars
             PROVE  TablesMatch'
  OBVIOUS
<1>1. ASSUME NEW c \in Conns, Handler(c)
      PROVE  TablesMatch'
  <2>1. CASE Admit(c)
    BY <2>1, DriverNone
    DEF Admit, TypeOK, TablesMatch, MaybeConn, Inserted, Reachable
  <2>2. CASE Identify(c)
    <3>1. /\ stage[c] = "reading" /\ peerId[c] = None /\ stage'[c] = "naming"
          /\ \A d \in Conns \ {c} : stage'[d] = stage[d] /\ peerId'[d] = peerId[d]
          /\ UNCHANGED <<drivers, peerByID>>
      BY <2>2 DEF Identify, TypeOK
    <3>2. \A p \in Peers : peerByID[p] # c
      BY <3>1, DriverNone DEF TablesMatch
    <3>3. \A d \in drivers' : stage'[d] \in Inserted
      BY <3>1 DEF TablesMatch, TypeOK, Inserted
    <3>4. \A p \in Peers : peerByID[p] # None => peerByID[p] \in Conns \ {c}
      BY <3>2 DEF TypeOK, MaybeConn
    <3> QED
      BY <3>1, <3>3, <3>4 DEF TablesMatch
  <2>3. CASE Register(c)
    <3>1. peerId[c] \in Peers
      BY <2>3 DEF Register, Control
    <3> QED
      BY <2>3, <3>1 DEF Register, TypeOK, TablesMatch, MaybeConn, Inserted, Reachable
  <2>4. CASE Cleanup(c)
    <3>1. UNCHANGED peerId /\ drivers' = drivers \ {c} /\ peerByID' = PeerForgotten(c)
          /\ \A d \in Conns \ {c} : stage'[d] = stage[d]
      BY <2>4 DEF Cleanup, Unlink, TypeOK
    <3>2. \A p \in Peers : peerByID'[p] # None =>
            peerByID'[p] = peerByID[p] /\ peerByID[p] # c
      BY <3>1 DEF PeerForgotten, TablesMatch, TypeOK
    <3>3. \A d \in drivers' : stage'[d] \in Inserted
      BY <3>1 DEF TablesMatch, TypeOK
    <3>4. \A p \in Peers : peerByID'[p] # None => peerByID'[p] \in Conns \ {c}
      BY <3>2 DEF TypeOK, MaybeConn
    <3> QED
      BY <3>1, <3>2, <3>3, <3>4 DEF TablesMatch
  <2>5. CASE EndCount(c)
    <3>1. UNCHANGED <<peerId, peerByID>> /\ drivers' \subseteq drivers
      BY <2>5 DEF EndCount
    <3>2. \A d \in Conns : /\ stage[d] \in Inserted => stage'[d] \in Inserted
                           /\ stage[d] \in Reachable => stage'[d] \in Reachable
      BY <2>5 DEF EndCount, Control, TypeOK, Inserted, Reachable
    <3> QED
      BY <3>1, <3>2, TablesShrink DEF TypeOK
  <2>6. CASE CheckLimit(c) \/ UpgradeFails(c) \/ Drain(c) \/ FlushOne(c) \/ Flushed(c)
             \/ ReadFails(c) \/ CloseOwn(c) \/ BeginCount(c) \/ CountOne(c)
    <3>1. UNCHANGED <<peerId, drivers, peerByID>>
      BY <2>6 DEF CheckLimit, UpgradeFails, Drain, FlushOne, Flushed, ReadFails,
                  CloseOwn, BeginCount, CountOne
    <3>2. \A d \in Conns : /\ stage[d] \in Inserted => stage'[d] \in Inserted
                           /\ stage[d] \in Reachable => stage'[d] \in Reachable
      BY <2>6, SMTT(30) DEF CheckLimit, UpgradeFails, Drain, FlushOne, Flushed, ReadFails,
                  CloseOwn, BeginCount, CountOne, TypeOK, Inserted, Reachable
    <3> QED
      BY <3>1, <3>2, TablesShrink DEF TypeOK
  <2> QED
    BY <1>1, <2>1, <2>2, <2>3, <2>4, <2>5, <2>6 DEF Handler, Serve
<1>2. ASSUME NEW r \in Relays, Remove(r)
      PROVE  TablesMatch'
  <2>1. UNCHANGED <<peerId, stage>> /\ drivers' \subseteq drivers
        /\ peerByID' = PeerForgotten(victim[r])
    BY <1>2 DEF Remove, Unlink
  <2> QED
    BY <2>1, TablesShrink DEF PeerForgotten
<1>3. CASE Reset
  BY <1>3, TablesShrink DEF Reset
<1>4. CASE UNCHANGED <<stage, peerId, drivers, peerByID>>
  BY <1>4, TablesShrink
<1> QED
  BY <1>1, <1>2, <1>3, <1>4, StepKinds, ElsewhereKeepsTables

\* drivers and peerByID hold a connection only between its admission and its
\* clean-up, and peerByID only under the name the connection announced.
THEOREM TablesCorrect == Spec => []TablesMatch
<1>1. Init => TablesMatch
  BY DEF Init, TablesMatch
<1> QED
  BY <1>1, NextTablesMatch, TypeAndControl, PTL DEF Spec

------------------------------------------------------------------------------
(* Orphans *)

\* A step that keeps the connections in drivers, moves none into Inserted, opens
\* no socket and forgets no removal in progress keeps NoOrphan.
LEMMA NoNewOrphan ==
    ASSUME NoOrphan,
           drivers \subseteq drivers',
           \A c \in Conns : stage'[c] \in Inserted /\ c \notin drivers' =>
                                stage[c] \in Inserted,
           \A c \in Conns : socket[c] = "closed" => socket'[c] = "closed",
           \A r \in Relays, c \in Conns :
               pc[r] = "close" /\ victim[r] = c =>
                   (pc'[r] = "close" /\ victim'[r] = c) \/ socket'[c] = "closed"
    PROVE  NoOrphan'
  BY DEF NoOrphan

LEMMA NextNoOrphan ==
    TypeOK /\ TypeOK' /\ Control /\ NoOrphan /\ [Next]_vars => NoOrphan'
<1> SUFFICES ASSUME TypeOK, TypeOK', Control, NoOrphan, [Next]_vars
             PROVE  NoOrphan'
  OBVIOUS
<1>1. ASSUME NEW c \in Conns, Handler(c)
      PROVE  NoOrphan'
  <2>1. \A r \in Relays : pc'[r] = pc[r] /\ victim'[r] = victim[r]
    BY <1>1, DriverNone
    DEF Handler, Serve, CheckLimit, Admit, UpgradeFails, Identify, Register, Drain,
        FlushOne, Flushed, ReadFails, Cleanup, CloseOwn, BeginCount, CountOne, EndCount,
        TypeOK, Threads
  <2>2. CASE Cleanup(c)
    <3>1. /\ drivers' = drivers \ {c} /\ UNCHANGED socket /\ stage'[c] = "closing"
          /\ \A d \in Conns \ {c} : stage'[d] = stage[d]
      BY <2>2 DEF Cleanup, Unlink, TypeOK
    <3> QED
      BY <2>1, <3>1 DEF NoOrphan, Inserted
  <2>3. CASE EndCount(c)
    <3>1. /\ drivers' = drivers \ dead[c]
          /\ \A d \in Conns : d \in dead[c] => socket'[d] = "closed"
          /\ \A d \in Conns : d \notin dead[c] => socket'[d] = socket[d]
          /\ \A d \in Conns : stage'[d] \in Inserted => stage[d] \in Inserted
      BY <2>3 DEF EndCount, Control, TypeOK, Inserted
    <3> QED
      BY <2>1, <3>1 DEF NoOrphan
  <2>4. CASE Admit(c)
    <3>1. /\ drivers' = drivers \cup {c} /\ UNCHANGED socket
          /\ \A d \in Conns \ {c} : stage'[d] = stage[d]
      BY <2>4 DEF Admit, TypeOK
    <3> QED
      BY <2>1, <3>1, NoNewOrphan
  <2>5. CASE CheckLimit(c) \/ UpgradeFails(c) \/ Identify(c) \/ Register(c) \/ Drain(c)
             \/ FlushOne(c) \/ Flushed(c) \/ ReadFails(c) \/ CloseOwn(c)
             \/ BeginCount(c) \/ CountOne(c)
    <3>0. UNCHANGED drivers /\ socket' \in {socket, [socket EXCEPT ![c] = "closed"]}
      BY <2>5 DEF CheckLimit, UpgradeFails, Identify, Register, Drain, FlushOne, Flushed,
                  ReadFails, CloseOwn, BeginCount, CountOne
    <3>1. \A d \in Conns : socket[d] = "closed" => socket'[d] = "closed"
      BY <3>0 DEF TypeOK
    <3>2. /\ stage \in [Conns -> Stages]
          /\ stage' = stage \/ stage[c] \in Inserted
                \/ \E x \in {"upgrading", "gone", "farewell"} :
                      stage' = [stage EXCEPT ![c] = x]
          /\ stage' = stage \/ \E x \in Stages : stage' = [stage EXCEPT ![c] = x]
      BY <2>5 DEF CheckLimit, UpgradeFails, Identify, Register, Drain, FlushOne, Flushed,
                  ReadFails, CloseOwn, BeginCount, CountOne, Inserted, Stages, TypeOK
    <3>3. \A d \in Conns : stage'[d] \in Inserted => stage[d] \in Inserted
      BY <3>2 DEF Inserted
    <3> QED
      BY <2>1, <3>0, <3>1, <3>3, NoNewOrphan
  <2> QED
    BY <1>1, <2>2, <2>3, <2>4, <2>5 DEF Handler, Serve
<1>2. ASSUME NEW r \in Relays, Remove(r)
      PROVE  NoOrphan'
  <2>1. /\ pc[r] = "remove" /\ pc' = [pc EXCEPT ![r] = "close"]
        /\ drivers' = drivers \ {victim[r]} /\ UNCHANGED <<stage, socket, victim>>
    BY <1>2 DEF Remove, Unlink
  <2>2. pc'[r] = "close" /\ \A q \in Relays : pc[q] = "close" => pc'[q] = "close"
    BY <2>1 DEF TypeOK, Threads
  <2> QED
    BY <2>1, <2>2 DEF NoOrphan
<1>3. ASSUME NEW r \in Relays, Close(r)
      PROVE  NoOrphan'
  <2>1. victim[r] \in Conns /\ UNCHANGED <<stage, drivers>>
        /\ socket' = [socket EXCEPT ![victim[r]] = "closed"]
    BY <1>3 DEF Close, Control
  <2>2. \A q \in Relays \ {r} : pc'[q] = pc[q] /\ victim'[q] = victim[q]
    BY <1>3 DEF Close, TypeOK, Threads
  <2> QED
    BY <2>1, <2>2, NoNewOrphan DEF TypeOK
<1>4. ASSUME NEW r \in Relays,
             \/ \E p \in Peers : ForwardTo(r, p)
             \/ ForwardAll(r) \/ WriteTarget(r) \/ WriteOne(r) \/ EndAll(r) \/ Enqueue(r)
      PROVE  NoOrphan'
  <2>1. UNCHANGED <<stage, drivers, socket>>
    BY <1>4 DEF ForwardTo, ForwardAll, WriteTarget, WriteOne, EndAll, Enqueue
  <2>2. pc[r] # "close" /\ \A q \in Relays \ {r} : pc'[q] = pc[q] /\ victim'[q] = victim[q]
    BY <1>4 DEF ForwardTo, ForwardAll, WriteTarget, WriteOne, EndAll, Enqueue, TypeOK,
                Threads
  <2> QED
    BY <2>1, <2>2, NoNewOrphan
<1>5. ASSUME NEW c \in Conns, DriverGone(c)
      PROVE  NoOrphan'
  <2>1. \A d \in Conns : socket[d] = "closed" => socket'[d] = "closed"
    BY <1>5 DEF DriverGone, TypeOK
  <2> QED
    BY <1>5, <2>1, NoNewOrphan DEF DriverGone
<1>6. CASE Reset
  <2>1. UNCHANGED <<stage, pc, victim>>
        /\ \A c \in Conns : socket'[c] = IF c \in drivers THEN "closed" ELSE socket[c]
    BY <1>6 DEF Reset
  <2> QED
    BY <2>1 DEF NoOrphan
<1>7. CASE UNCHANGED <<stage, drivers, socket, pc, victim>>
  BY <1>7, NoNewOrphan
<1> QED
  BY <1>1, <1>2, <1>3, <1>4, <1>5, <1>6, <1>7 DEF Next, Relay, FinishForward, Stop

\* A driver still served that is no longer in b.drivers has its socket closed,
\* or the call of Forward that removed it is about to close it, so its read loop
\* fails and its handler cleans up.
THEOREM NoneOrphaned == Spec => []NoOrphan
<1>1. Init => NoOrphan
  BY DEF Init, NoOrphan, Inserted
<1> QED
  BY <1>1, NextNoOrphan, TypeAndControl, PTL DEF Spec

------------------------------------------------------------------------------
(* Names *)

\* Another connection announced the name of c.
Handover(c) == \E d \in Conns \ {c} : peerId[d] = peerId[c]

\* A connection that has a name keeps it.
LEMMA NamesStay ==
    ASSUME TypeOK, [Next]_vars
    PROVE  \A c \in Conns : peerId[c] # None => peerId'[c] = peerId[c]
<1>1. ASSUME NEW c \in Conns, Identify(c)
      PROVE  \A d \in Conns : peerId[d] # None => peerId'[d] = peerId[d]
  BY <1>1 DEF Identify, TypeOK
<1>2. CASE UNCHANGED peerId
  BY <1>2
<1>3. ASSUME NEW c \in Conns, Handler(c)
      PROVE  Identify(c) \/ UNCHANGED peerId
  BY <1>3 DEF Handler, Serve, CheckLimit, Admit, UpgradeFails, Register, Drain, FlushOne,
              Flushed, ReadFails, Cleanup, CloseOwn, BeginCount, CountOne, EndCount
<1> QED
  BY <1>1, <1>2, <1>3, StepKinds, ElsewhereKeepsTables DEF Remove, Reset

LEMMA NextLostOnlyByHandover ==
    TypeOK /\ TypeOK' /\ Control /\ LostOnlyByHandover /\ [Next]_vars
        => LostOnlyByHandover'
<1> SUFFICES ASSUME TypeOK, TypeOK', Control, LostOnlyByHandover, [Next]_vars,
                    NEW c \in drivers', peerId'[c] # None, stage'[c] # "naming"
             PROVE  peerByID'[peerId'[c]] = c \/ Handover(c)'
  BY DEF LostOnlyByHandover, Handover
<1>c. c \in Conns
  BY DEF TypeOK
\* A step that leaves c in drivers under the name it had registered.
<1>1. ASSUME c \in drivers, peerId[c] # None, stage[c] # "naming",
             peerByID'[peerId[c]] = peerByID[peerId[c]]
      PROVE  peerByID'[peerId'[c]] = c \/ Handover(c)'
  <2>1. peerId'[c] = peerId[c]
    BY <1>c, <1>1, NamesStay
  <2>2. CASE peerByID[peerId[c]] = c
    BY <1>1, <2>1, <2>2
  <2>3. CASE Handover(c)
    BY <1>1, <1>c, <2>3, NamesStay DEF Handover
  <2> QED
    BY <1>1, <2>2, <2>3 DEF LostOnlyByHandover, Handover
\* A step on behalf of another connection, which may forget or take its name.
<1>2. ASSUME NEW d \in Conns \ {c}, c \in drivers, peerId[c] # None,
             stage[c] # "naming", UNCHANGED peerId,
             \A p \in Peers \ {peerId[d]} : peerByID'[p] = peerByID[p]
      PROVE  peerByID'[peerId'[c]] = c \/ Handover(c)'
  <2>1. CASE peerId[d] = peerId[c]
    BY <1>c, <1>2, <2>1 DEF Handover
  <2>2. CASE peerId[d] # peerId[c]
    <3>1. peerId[c] \in Peers
      BY <1>c, <1>2 DEF TypeOK
    <3> QED
      BY <1>1, <1>2, <2>2, <3>1
  <2> QED
    BY <2>1, <2>2
<1>3. ASSUME NEW d \in Conns, Handler(d)
      PROVE  peerByID'[peerId'[c]] = c \/ Handover(c)'
  <2>1. CASE Admit(d)
    <3>1. d # c
      BY <2>1 DEF Admit, Control
    <3> QED
      BY <1>1, <1>c, <2>1, <3>1 DEF Admit, TypeOK
  <2>2. CASE Identify(d)
    <3>1. d # c
      BY <2>2 DEF Identify, TypeOK
    <3> QED
      BY <1>1, <1>c, <2>2, <3>1 DEF Identify, TypeOK
  <2>3. CASE Register(d)
    <3>1. /\ peerId[d] \in Peers /\ UNCHANGED <<peerId, drivers>>
          /\ peerByID' = [peerByID EXCEPT ![peerId[d]] = d]
          /\ \A e \in Conns \ {d} : stage'[e] = stage[e]
      BY <2>3 DEF Register, Control, TypeOK
    <3>2. CASE d = c
      BY <3>1, <3>2 DEF TypeOK
    <3>3. CASE d # c
      <4>1. \A p \in Peers \ {peerId[d]} : peerByID'[p] = peerByID[p]
        BY <3>1 DEF TypeOK
      <4> QED
        BY <1>2, <1>c, <3>1, <3>3, <4>1
    <3> QED
      BY <3>2, <3>3
  <2>4. CASE Cleanup(d)
    <3>1. /\ UNCHANGED peerId /\ drivers' = drivers \ {d}
          /\ peerByID' = PeerForgotten(d) /\ stage[d] = "leaving"
          /\ \A e \in Conns \ {d} : stage'[e] = stage[e]
      BY <2>4 DEF Cleanup, Unlink, TypeOK
    <3>2. \A p \in Peers \ {peerId[d]} : peerByID'[p] = peerByID[p]
      BY <3>1 DEF PeerForgotten
    <3> QED
      BY <1>2, <1>c, <3>1, <3>2
  <2>5. CASE CheckLimit(d) \/ UpgradeFails(d) \/ Drain(d) \/ FlushOne(d) \/ Flushed(d)
             \/ ReadFails(d) \/ CloseOwn(d) \/ BeginCount(d) \/ CountOne(d) \/ EndCount(d)
    <3>1. UNCHANGED <<peerId, peerByID>> /\ drivers' \subseteq drivers
      BY <2>5 DEF CheckLimit, UpgradeFails, Drain, FlushOne, Flushed, ReadFails, CloseOwn,
                  BeginCount, CountOne, EndCount
    <3>2. \/ UNCHANGED stage
          \/ \E x : stage' = [stage EXCEPT ![d] = x] /\ stage[d] # "naming"
      BY <2>5 DEF CheckLimit, UpgradeFails, Drain, FlushOne, Flushed, ReadFails, CloseOwn,
                  BeginCount, CountOne, EndCount, Control
    <3>3. stage[c] # "naming"
      BY <1>c, <3>2 DEF TypeOK
    <3> QED
      BY <1>1, <3>1, <3>3
  <2> QED
    BY <1>3, <2>1, <2>2, <2>3, <2>4, <2>5 DEF Handler, Serve
<1>4. ASSUME NEW r \in Relays, Remove(r)
      PROVE  peerByID'[peerId'[c]] = c \/ Handover(c)'
  <2>1. /\ victim[r] \in Conns /\ drivers' = drivers \ {victim[r]}
        /\ peerByID' = PeerForgotten(victim[r]) /\ UNCHANGED <<peerId, stage>>
    BY <1>4 DEF Remove, Unlink, Control
  <2>2. \A p \in Peers \ {peerId[victim[r]]} : peerByID'[p] = peerByID[p]
    BY <2>1 DEF PeerForgotten
  <2> QED
    BY <1>2, <2>1, <2>2
<1>5. CASE Reset
  BY <1>5 DEF Reset
<1>6. CASE UNCHANGED <<stage, peerId, drivers, peerByID>>
  BY <1>1, <1>6
<1> QED
  BY <1>3, <1>4, <1>5, <1>6, StepKinds, ElsewhereKeepsTables

\* A driver in the table that has registered its name is reachable under it,
\* whatever broadcasts, failed writes and other handlers do, unless another
\* connection announced the same name.
THEOREM NamesLostByHandover == Spec => []LostOnlyByHandover
<1>1. Init => LostOnlyByHandover
  BY DEF Init, LostOnlyByHandover
<1> QED
  BY <1>1, NextLostOnlyByHandover, TypeAndControl, PTL DEF Spec

------------------------------------------------------------------------------
(* Directory *)

New == {"absent", "upgrading"}

\* Whoever a broadcast or a call of Forward holds on to was once admitted.
Admitted ==
    \A t \in Threads :
        /\ \A c \in todo[t] \cup dead[t] : stage[c] \notin New
        /\ victim[t] # None => stage[victim[t]] \notin New

\* An admitted connection never becomes new again.
LEMMA AdmittedStays ==
    ASSUME TypeOK, [Next]_vars
    PROVE  \A c \in Conns : stage[c] \notin New => stage'[c] \notin New
<1>1. ASSUME NEW d \in Conns, Handler(d)
      PROVE  \A c \in Conns : stage[c] \notin New => stage'[c] \notin New
  BY <1>1
  DEF Handler, Serve, CheckLimit, Admit, UpgradeFails, Identify, Register, Drain,
      FlushOne, Flushed, ReadFails, Cleanup, CloseOwn, BeginCount, CountOne, EndCount,
      TypeOK, New
<1>2. CASE UNCHANGED stage
  BY <1>2
<1> QED
  BY <1>1, <1>2, StepKinds, ElsewhereKeepsTables DEF Remove, Reset

LEMMA NextAdmitted ==
    TypeOK /\ Control /\ TablesMatch /\ Admitted /\ [Next]_vars => Admitted'
<1> SUFFICES ASSUME TypeOK, Control, TablesMatch, Admitted, [Next]_vars
             PROVE  Admitted'
  OBVIOUS
<1> USE AdmittedStays DEF Admitted, TypeOK, MaybeConn, Threads
<1>t. /\ \A c \in drivers : stage[c] \notin New
      /\ \A p \in Peers : peerByID[p] # None => stage[peerByID[p]] \notin New
  BY DEF TablesMatch, Inserted, Reachable, New
<1>1. ASSUME NEW c \in Conns, BeginCount(c)
      PROVE  Admitted'
  BY <1>1, <1>t DEF BeginCount
<1>2. ASSUME NEW c \in Conns, CountOne(c)
      PROVE  Admitted'
  BY <1>2 DEF CountOne
<1>3. ASSUME NEW c \in Conns, EndCount(c)
      PROVE  Admitted'
  BY <1>3 DEF EndCount
<1>4. ASSUME NEW r \in Relays, NEW p \in Peers, ForwardTo(r, p)
      PROVE  Admitted'
  BY <1>4, <1>t DEF ForwardTo
<1>5. ASSUME NEW r \in Relays, ForwardAll(r)
      PROVE  Admitted'
  BY <1>5, <1>t DEF ForwardAll
<1>6. ASSUME NEW r \in Relays, WriteOne(r)
      PROVE  Admitted'
  BY <1>6 DEF WriteOne
<1>7. ASSUME NEW r \in Relays, WriteTarget(r) \/ Close(r)
      PROVE  Admitted'
  BY <1>7 DEF WriteTarget, Close
<1>8. CASE UNCHANGED <<todo, dead, victim>>
  BY <1>8
<1> QED
  BY <1>1, <1>2, <1>3, <1>4, <1>5, <1>6, <1>7, <1>8
  DEF Next, Handler, Serve, CheckLimit, Admit, UpgradeFails, Identify, Register, Drain,
      FlushOne, Flushed, ReadFails, Cleanup, CloseOwn, DriverGone, Relay, FinishForward,
      Remove, EndAll, Enqueue, Stop, Reset

LEMMA AdmittedCorrect == Spec => []Admitted
<1>1. Init => Admitted
  BY DEF Init, Admitted
<1> QED
  BY <1>1, NextAdmitted, TypeAndControl, TablesCorrect, PTL DEF Spec

LEMMA InitDirectory == Init => Dir!Init
  BY DEF Init, Dir!Init, Phase

\* A step that changes no phase, name or entry.
LEMMA DirectoryStutters ==
    ASSUME \A c \in Conns : Phase(c)' = Phase(c), UNCHANGED <<peerId, peerByID>>
    PROVE  UNCHANGED Dir!vars
  BY DEF Dir!vars

\* A step that cuts the connections of a set and keeps their names.
LEMMA ManyAreCut ==
    ASSUME NEW S \in SUBSET Conns, \A c \in S : Phase(c) # "new",
           \A c \in Conns : Phase(c)' =
               IF c \in S /\ Phase(c) = "serving" THEN "cut" ELSE Phase(c),
           UNCHANGED <<peerId, peerByID>>
    PROVE  Dir!Next
<1>1. Dir!CutMany
  BY DEF Dir!CutMany
<1> QED
  BY <1>1 DEF Dir!Next

LEMMA NextDirectory ==
    TypeOK /\ TypeOK' /\ Control /\ TablesMatch /\ Admitted /\ [Next]_vars
        => [Dir!Next]_(Dir!vars)
<1> SUFFICES ASSUME TypeOK, TypeOK', Control, TablesMatch, Admitted, [Next]_vars
             PROVE  Dir!Next \/ UNCHANGED Dir!vars
  OBVIOUS
<1>1. ASSUME NEW c \in Conns, Handler(c)
      PROVE  Dir!Next \/ UNCHANGED Dir!vars
  <2>1. CASE Admit(c)
    <3>1. /\ Phase(c) = "new" /\ Phase(c)' = "serving"
          /\ \A d \in Conns \ {c} : Phase(d)' = Phase(d)
      BY <2>1 DEF Admit, Phase, TypeOK, Inserted
    <3>2. Dir!Serve(c)
      BY <2>1, <3>1 DEF Admit, Dir!Serve
    <3> QED
      BY <3>2 DEF Dir!Next
  <2>2. CASE UpgradeFails(c)
    <3>1. /\ Phase(c) = "new" /\ Phase(c)' = "finished"
          /\ \A d \in Conns \ {c} : Phase(d)' = Phase(d)
      BY <2>2 DEF UpgradeFails, Phase, TypeOK, Inserted
    <3>2. peerId[c] = None /\ UNCHANGED <<peerId, peerByID>>
      BY <2>2 DEF UpgradeFails, Control
    <3>3. peerByID = [p \in Peers |-> IF p = peerId[c] THEN None ELSE peerByID[p]]
      BY <3>2, DriverNone DEF TypeOK
    <3>4. Dir!Finish(c)
      BY <3>1, <3>2, <3>3 DEF Dir!Finish, Dir!Forgotten
    <3> QED
      BY <3>4 DEF Dir!Next
  <2>3. CASE Identify(c)
    <3>1. \A d \in Conns : Phase(d)' = Phase(d)
      BY <2>3 DEF Identify, Phase, TypeOK, Inserted
    <3>2. PICK p \in Peers : peerId' = [peerId EXCEPT ![c] = p] /\ peerId[c] = None
      BY <2>3 DEF Identify
    <3>3. Phase(c) \in {"serving", "cut"}
      BY <2>3 DEF Identify, Phase, Inserted
    <3>4. Dir!Announce(c, p)
      BY <2>3, <3>1, <3>2, <3>3 DEF Identify, Dir!Announce, Dir!Live
    <3> QED
      BY <3>4 DEF Dir!Next
  <2>4. CASE Register(c)
    <3>1. \A d \in Conns : Phase(d)' = Phase(d)
      BY <2>4 DEF Register, Phase, TypeOK, Inserted
    <3>2. Phase(c) \in {"serving", "cut"} /\ peerId[c] # None
      BY <2>4, DriverNone DEF Register, Phase, Inserted, Control
    <3>3. Dir!Bind(c)
      BY <2>4, <3>1, <3>2 DEF Register, Dir!Bind, Dir!Live
    <3> QED
      BY <3>3 DEF Dir!Next
  <2>5. CASE Cleanup(c)
    <3>1. /\ Phase(c) # "finished" /\ Phase(c)' = "finished"
          /\ \A d \in Conns \ {c} : Phase(d)' = Phase(d)
      BY <2>5 DEF Cleanup, Unlink, Phase, TypeOK, Inserted
    <3>2. Dir!Finish(c)
      BY <2>5, <3>1 DEF Cleanup, Unlink, PeerForgotten, Dir!Finish, Dir!Forgotten
    <3> QED
      BY <3>2 DEF Dir!Next
  <2>6. CASE EndCount(c)
    <3>1. /\ stage[c] \in {"counting", "farewell"} /\ UNCHANGED <<peerId, peerByID>>
          /\ stage' = [stage EXCEPT ![c] = IF @ = "counting" THEN "reading" ELSE "gone"]
          /\ drivers' = drivers \ dead[c]
      BY <2>6 DEF EndCount, Control
    <3>2. dead[c] \in SUBSET Conns /\ \A d \in dead[c] : stage[d] \notin New
      BY DEF Admitted, TypeOK, Threads
    <3>3. \A d \in Conns : Phase(d)' =
              IF d \in dead[c] /\ Phase(d) = "serving" THEN "cut" ELSE Phase(d)
      <4> TAKE d \in Conns
      <4>1. \/ stage'[d] = stage[d]
            \/ stage[d] = "counting" /\ stage'[d] = "reading"
            \/ stage[d] = "farewell" /\ stage'[d] = "gone"
        BY <3>1 DEF TypeOK
      <4>2. d \in drivers' <=> d \in drivers /\ d \notin dead[c]
        BY <3>1
      <4>3. d \in dead[c] => stage[d] \notin New
        BY <3>2
      <4>4. CASE stage'[d] = stage[d]
        BY <4>2, <4>3, <4>4 DEF Phase, Inserted, New
      <4>5. CASE stage[d] = "counting" /\ stage'[d] = "reading"
        BY <4>2, <4>5 DEF Phase, Inserted, New
      <4>6. CASE stage[d] = "farewell" /\ stage'[d] = "gone"
        BY <4>6 DEF Phase, Inserted, New
      <4> QED
        BY <4>1, <4>4, <4>5, <4>6
    <3>4. \A d \in dead[c] : Phase(d) # "new"
      BY <3>2 DEF Phase, TypeOK, Stages, Inserted, New
    <3> QED
      BY <3>1, <3>2, <3>3, <3>4, ManyAreCut
  <2>7. CASE CheckLimit(c) \/ Drain(c) \/ FlushOne(c) \/ Flushed(c) \/ ReadFails(c)
             \/ CloseOwn(c) \/ BeginCount(c) \/ CountOne(c)
    <3>0. \/ UNCHANGED stage
          \/ \E x : /\ stage' = [stage EXCEPT ![c] = x]
                   /\ \/ {stage[c], x} \subseteq New
                      \/ {stage[c], x} \subseteq Inserted
                      \/ {stage[c], x} \subseteq {"closing", "farewell"}
      BY <2>7 DEF CheckLimit, Drain, FlushOne, Flushed, ReadFails, CloseOwn, BeginCount,
                  CountOne, Inserted, New
    <3>2. UNCHANGED <<drivers, peerId, peerByID>>
      BY <2>7 DEF CheckLimit, Drain, FlushOne, Flushed, ReadFails, CloseOwn, BeginCount,
                  CountOne
    <3>1. \A d \in Conns : Phase(d)' = Phase(d)
      BY <3>0, <3>2, ZenonT(60) DEF Phase, TypeOK, Inserted, New
    <3> QED
      BY <3>1, <3>2, DirectoryStutters
  <2> QED
    BY <1>1, <2>1, <2>2, <2>3, <2>4, <2>5, <2>6, <2>7 DEF Handler, Serve
<1>2. ASSUME NEW r \in Relays, Remove(r)
      PROVE  Dir!Next
  <2>1. PICK c \in Conns : c = victim[r]
    BY <1>2 DEF Remove, Control
  <2>2. /\ drivers' = drivers \ {c} /\ peerByID' = PeerForgotten(c)
        /\ UNCHANGED <<stage, peerId>>
    BY <1>2, <2>1 DEF Remove, Unlink
  <2>3. stage[c] \notin New
    BY <2>1, DriverNone DEF Admitted, Threads
  <2>4. /\ Phase(c) # "new"
        /\ Phase(c)' = IF Phase(c) = "serving" THEN "cut" ELSE Phase(c)
        /\ \A d \in Conns \ {c} : Phase(d)' = Phase(d)
    BY <2>2, <2>3 DEF Phase, New, TypeOK, Stages, Inserted
  <2>5. Dir!Cut(c)
    BY <2>2, <2>4 DEF PeerForgotten, Dir!Cut, Dir!Forgotten
  <2> QED
    BY <2>5 DEF Dir!Next
<1>3. CASE Reset
  <2>1. drivers' = {} /\ UNCHANGED <<stage, peerId, peerByID>>
    BY <1>3 DEF Reset
  <2>2. \A d \in Conns : Phase(d)' =
            IF d \in drivers /\ Phase(d) = "serving" THEN "cut" ELSE Phase(d)
    BY <2>1 DEF Phase, TypeOK, Stages, Inserted
  <2>3. drivers \in SUBSET Conns /\ \A d \in drivers : Phase(d) # "new"
    BY DEF Phase, TypeOK, TablesMatch, Inserted
  <2> QED
    BY <2>1, <2>2, <2>3, ManyAreCut
<1>4. CASE UNCHANGED <<stage, drivers, peerId, peerByID>>
  BY <1>4, DirectoryStutters DEF Phase
<1> QED
  BY <1>1, <1>2, <1>3, <1>4, StepKinds, ElsewhereKeepsTables

\* The bridge implements Directory: every step of its goroutines is a step of
\* the abstract registry of connections and names, or changes neither.
THEOREM ImplementsDirectory == Spec => KeepsDirectory
<1> QED
  BY InitDirectory, NextDirectory, TypeAndControl, TablesCorrect, AdmittedCorrect, PTL
  DEF Spec, KeepsDirectory, Dir!Spec

------------------------------------------------------------------------------
(* Families of sequences without repetition *)

\* No number stands in two places of the sequences s[h].
Unique(s, H) ==
    \A h, k \in H : \A i \in 1 .. Len(s[h]), j \in 1 .. Len(s[k]) :
        s[h][i] = s[k][j] => h = k /\ i = j

\* No number above n stands anywhere.
Below(s, H, n) == \A h \in H : \A i \in 1 .. Len(s[h]) : s[h][i] <= n

Sound(s, H, n) == Unique(s, H) /\ Below(s, H, n)

\* The number m stands nowhere.
Absent(s, H, m) == \A h \in H : \A i \in 1 .. Len(s[h]) : s[h][i] # m

\* A holder forgets its first message.
LEMMA DropKeepsSound ==
    ASSUME NEW H, NEW s \in [H -> Seq(Nat)], NEW n \in Nat, Sound(s, H, n),
           NEW h \in H, s[h] # <<>>
    PROVE  Sound([s EXCEPT ![h] = Tail(s[h])], H, n)
<1>1. /\ Len(Tail(s[h])) = Len(s[h]) - 1
      /\ \A i \in 1 .. Len(s[h]) - 1 : Tail(s[h])[i] = s[h][i + 1]
  OBVIOUS
<1>2. \A k \in H : Len(s[k]) \in Nat
  OBVIOUS
<1>3. Unique([s EXCEPT ![h] = Tail(s[h])], H)
  BY <1>1, <1>2, SMTT(30) DEF Sound, Unique
<1>4. Below([s EXCEPT ![h] = Tail(s[h])], H, n)
  BY <1>1, <1>2 DEF Sound, Below
<1> QED
  BY <1>3, <1>4 DEF Sound

\* A message nobody has yet comes to a holder.
LEMMA AddKeepsSound ==
    ASSUME NEW H, NEW s \in [H -> Seq(Nat)], NEW n \in Nat, Sound(s, H, n),
           NEW h \in H, NEW m \in 0 .. n, Absent(s, H, m)
    PROVE  Sound([s EXCEPT ![h] = Append(s[h], m)], H, n)
<1>1. /\ Len(Append(s[h], m)) = Len(s[h]) + 1
      /\ \A i \in 1 .. Len(s[h]) : Append(s[h], m)[i] = s[h][i]
      /\ Append(s[h], m)[Len(s[h]) + 1] = m
  OBVIOUS
<1>2. \A k \in H : Len(s[k]) \in Nat
  OBVIOUS
<1>3. Unique([s EXCEPT ![h] = Append(s[h], m)], H)
  BY <1>1, <1>2, SMTT(30) DEF Sound, Unique, Absent
<1>4. Below([s EXCEPT ![h] = Append(s[h], m)], H, n)
  BY <1>1, <1>2 DEF Sound, Below
<1> QED
  BY <1>3, <1>4 DEF Sound

\* A dropped message is nowhere any more.
LEMMA DropMakesAbsent ==
    ASSUME NEW H, NEW s \in [H -> Seq(Nat)], NEW n \in Nat, Sound(s, H, n),
           NEW h \in H, s[h] # <<>>
    PROVE  Absent([s EXCEPT ![h] = Tail(s[h])], H, Head(s[h]))
<1>1. /\ Len(Tail(s[h])) = Len(s[h]) - 1
      /\ \A i \in 1 .. Len(s[h]) - 1 : Tail(s[h])[i] = s[h][i + 1]
      /\ Head(s[h]) = s[h][1] /\ Len(s[h]) >= 1
  OBVIOUS
<1>2. \A k \in H : Len(s[k]) \in Nat
  OBVIOUS
<1> QED
  BY <1>1, <1>2, SMTT(30) DEF Sound, Unique, Below, Absent

\* A message passes from one holder to the end of another.
LEMMA MoveKeepsSound ==
    ASSUME NEW H, NEW s \in [H -> Seq(Nat)], NEW n \in Nat, Sound(s, H, n),
           NEW h \in H, NEW k \in H \ {h}, s[h] # <<>>
    PROVE  Sound([[s EXCEPT ![h] = Tail(s[h])] EXCEPT ![k] = Append(s[k], Head(s[h]))], H, n)
<1> DEFINE t == [s EXCEPT ![h] = Tail(s[h])]
<1>1. /\ t \in [H -> Seq(Nat)] /\ Sound(t, H, n) /\ Head(s[h]) \in 0 .. n
      /\ Absent(t, H, Head(s[h]))
  <2>1. Tail(s[h]) \in Seq(Nat) /\ Head(s[h]) \in 0 .. n
    <3>1. Tail(s[h]) \in Seq(Nat) /\ Head(s[h]) \in Nat
          /\ Head(s[h]) = s[h][1] /\ Len(s[h]) \in Nat \ {0}
      OBVIOUS
    <3> QED
      BY <3>1 DEF Sound, Below
  <2>2. t \in [H -> Seq(Nat)]
    BY <2>1
  <2>3. Sound(t, H, n)
    BY DropKeepsSound
  <2>4. Absent(t, H, Head(s[h]))
    BY DropMakesAbsent
  <2> HIDE DEF t
  <2> QED
    BY <2>1, <2>2, <2>3, <2>4
<1>2. Sound([t EXCEPT ![k] = Append(t[k], Head(s[h]))], H, n)
  <2> DEFINE m == Head(s[h])
  <2> HIDE DEF t, m
  <2>1. m \in 0 .. n /\ Absent(t, H, m)
    BY <1>1 DEF m
  <2>2. Sound([t EXCEPT ![k] = Append(t[k], m)], H, n)
    BY <1>1, <2>1, AddKeepsSound
  <2> QED
    BY <2>2 DEF m
<1>3. t[k] = s[k]
  OBVIOUS
<1> QED
  BY <1>2, <1>3

\* Everything passes from one holder to another that has nothing.
LEMMA HandKeepsSound ==
    ASSUME NEW H, NEW s \in [H -> Seq(Nat)], NEW n \in Nat, Sound(s, H, n),
           NEW h \in H, NEW k \in H \ {h}, s[k] = <<>>
    PROVE  Sound([[s EXCEPT ![h] = <<>>] EXCEPT ![k] = s[h]], H, n)
<1> DEFINE t == [[s EXCEPT ![h] = <<>>] EXCEPT ![k] = s[h]]
           from(f) == IF f = k THEN h ELSE f
<1>1. /\ Len(t[h]) = 0
      /\ \A f \in H \ {h} : t[f] = s[from(f)]
  OBVIOUS
<1>2. \A f, g \in H \ {h} : from(f) \in H /\ (from(f) = from(g) => f = g)
  OBVIOUS
<1> HIDE DEF t, from
<1>3. ASSUME NEW f \in H, NEW g \in H, NEW i \in 1 .. Len(t[f]), NEW j \in 1 .. Len(t[g]),
             t[f][i] = t[g][j]
      PROVE  f = g /\ i = j
  <2>1. f # h /\ g # h
    BY <1>1
  <2>2. PICK x \in H, y \in H :
          x = from(f) /\ y = from(g) /\ t[f] = s[x] /\ t[g] = s[y]
    BY <1>1, <1>2, <2>1
  <2>3. /\ i \in 1 .. Len(s[x]) /\ j \in 1 .. Len(s[y])
        /\ s[x][i] = s[y][j]
    BY <1>3, <2>2
  <2>4. x = y /\ i = j
    BY <2>3 DEF Sound, Unique
  <2> QED
    BY <1>2, <2>1, <2>2, <2>4
<1>4. ASSUME NEW f \in H, NEW i \in 1 .. Len(t[f])
      PROVE  t[f][i] <= n
  <2>0. f # h
    BY <1>1
  <2>1. PICK x \in H : x = from(f) /\ t[f] = s[x]
    BY <1>1, <1>2, <2>0
  <2> QED
    BY <1>4, <2>1 DEF Sound, Below
<1>5. Sound(t, H, n)
  BY <1>3, <1>4 DEF Sound, Unique, Below
<1> QED
  BY <1>5 DEF t

------------------------------------------------------------------------------
(* The holders of messages *)

Holders == ({"job"} \X Relays) \cup ({"queue"} \X Peers)
           \cup ({"flush"} \X Conns) \cup ({"wire"} \X Conns)

\* The message a call of Forward has to write or to queue, if any
Carried(x) == IF x = NoJob THEN <<>> ELSE <<x.id>>

\* What every holder has
held ==
    [h \in Holders |->
        IF h[1] = "job" THEN Carried(job[h[2]])
        ELSE IF h[1] = "queue" THEN queue[h[2]]
        ELSE IF h[1] = "flush" THEN flush[h[2]]
        ELSE wire[h[2]]]

LEMMA HolderKinds ==
    ASSUME NEW h \in Holders
    PROVE  /\ \/ h[1] = "job" /\ h[2] \in Relays
              \/ h[1] = "queue" /\ h[2] \in Peers
              \/ h[1] = "flush" /\ h[2] \in Conns
              \/ h[1] = "wire" /\ h[2] \in Conns
           /\ \A kind, x : h = <<kind, x>> <=> h[1] = kind /\ h[2] = x
  BY DEF Holders

LEMMA HeldValues ==
    /\ \A r \in Relays : <<"job", r>> \in Holders /\ held[<<"job", r>>] = Carried(job[r])
    /\ \A p \in Peers : <<"queue", p>> \in Holders /\ held[<<"queue", p>>] = queue[p]
    /\ \A c \in Conns : <<"flush", c>> \in Holders /\ held[<<"flush", c>>] = flush[c]
    /\ \A c \in Conns : <<"wire", c>> \in Holders /\ held[<<"wire", c>>] = wire[c]
  BY DEF held, Holders

\* A holder whose variable does not change where it looks has what it had.
LEMMA HeldSame ==
    ASSUME NEW h \in Holders,
           \/ h[1] = "job" /\ job'[h[2]] = job[h[2]]
           \/ h[1] = "queue" /\ queue'[h[2]] = queue[h[2]]
           \/ h[1] = "flush" /\ flush'[h[2]] = flush[h[2]]
           \/ h[1] = "wire" /\ wire'[h[2]] = wire[h[2]]
    PROVE  held'[h] = held[h]
  BY DEF held

\* One holder changes.
LEMMA OneHolderChanges ==
    ASSUME NEW h \in Holders, NEW x, held'[h] = x,
           \A g \in Holders \ {h} : held'[g] = held[g]
    PROVE  held' = [held EXCEPT ![h] = x]
<1>1. DOMAIN held = Holders /\ held' = [g \in Holders |-> held'[g]]
  BY DEF held
<1> QED
  BY <1>1

\* Two holders change.
LEMMA TwoHoldersChange ==
    ASSUME NEW h \in Holders, NEW x, held'[h] = x,
           NEW k \in Holders \ {h}, NEW y, held'[k] = y,
           \A g \in Holders \ {h, k} : held'[g] = held[g]
    PROVE  held' = [[held EXCEPT ![h] = x] EXCEPT ![k] = y]
<1>1. DOMAIN held = Holders /\ held' = [g \in Holders |-> held'[g]]
  BY DEF held
<1> QED
  BY <1>1

LEMMA HeldType ==
    ASSUME TypeOK
    PROVE  held \in [Holders -> Seq(Nat)]
<1>1. ASSUME NEW r \in Relays
      PROVE  Carried(job[r]) \in Seq(Nat)
  BY DEF TypeOK, Threads, Carried
<1>2. ASSUME NEW h \in Holders
      PROVE  held[h] \in Seq(Nat)
  <2>1. /\ \A p \in Peers : queue[p] \in Seq(Nat)
        /\ \A c \in Conns : flush[c] \in Seq(Nat) /\ wire[c] \in Seq(Nat)
    BY DEF TypeOK
  <2> QED
    BY <1>1, <2>1, HolderKinds DEF held
<1> QED
  BY <1>2 DEF held

\* What TypeOK says of the four variables
LEMMA HeldParts ==
    ASSUME TypeOK
    PROVE  /\ job \in [Threads -> [id : Nat, to : Peers \cup {None}]]
           /\ queue \in [Peers -> Seq(Nat)]
           /\ flush \in [Conns -> Seq(Nat)]
           /\ wire \in [Conns -> Seq(Nat)]
           /\ sentCount \in Nat
  BY DriverBounds DEF TypeOK

------------------------------------------------------------------------------
(* What no holder has any more *)

\* A drop loses one message at most; adding, moving and handing over lose none.
LEMMA DropLosesOne ==
    ASSUME held \in [Holders -> Seq(Nat)], NEW h \in Holders, held[h] # <<>>,
           held'[h] = Tail(held[h]), \A g \in Holders \ {h} : held'[g] = held[g],
           NEW m, Absent(held', Holders, m)
    PROVE  Absent(held, Holders, m) \/ m = Head(held[h])
<1>1. /\ Len(Tail(held[h])) = Len(held[h]) - 1 /\ Len(held[h]) \in Nat
      /\ \A i \in 1 .. Len(held[h]) - 1 : Tail(held[h])[i] = held[h][i + 1]
      /\ Head(held[h]) = held[h][1]
  OBVIOUS
<1>2. \A i \in 1 .. Len(Tail(held[h])) : Tail(held[h])[i] # m
  BY DEF Absent
<1>3. ASSUME m # Head(held[h]), NEW i \in 1 .. Len(held[h])
      PROVE  held[h][i] # m
  <2>1. i # 1 => i - 1 \in 1 .. Len(Tail(held[h])) /\ Tail(held[h])[i - 1] = held[h][i]
    BY <1>1
  <2> QED
    BY <1>1, <1>2, <1>3, <2>1
<1>4. ASSUME NEW g \in Holders \ {h}, NEW i \in 1 .. Len(held[g])
      PROVE  held[g][i] # m
  BY DEF Absent
<1> QED
  BY <1>3, <1>4 DEF Absent

LEMMA AddLosesNone ==
    ASSUME held \in [Holders -> Seq(Nat)], NEW h \in Holders, NEW x \in Nat,
           held'[h] = Append(held[h], x), \A g \in Holders \ {h} : held'[g] = held[g],
           NEW m, Absent(held', Holders, m)
    PROVE  Absent(held, Holders, m)
<1>1. /\ Len(Append(held[h], x)) = Len(held[h]) + 1 /\ Len(held[h]) \in Nat
      /\ \A i \in 1 .. Len(held[h]) : Append(held[h], x)[i] = held[h][i]
  OBVIOUS
<1>2. \A i \in 1 .. Len(Append(held[h], x)) : Append(held[h], x)[i] # m
  BY DEF Absent
<1>3. \A i \in 1 .. Len(held[h]) : held[h][i] # m
  BY <1>1, <1>2
<1>4. ASSUME NEW g \in Holders \ {h}, NEW i \in 1 .. Len(held[g])
      PROVE  held[g][i] # m
  BY DEF Absent
<1> QED
  BY <1>3, <1>4 DEF Absent

LEMMA MoveLosesNone ==
    ASSUME held \in [Holders -> Seq(Nat)], NEW h \in Holders, NEW k \in Holders \ {h},
           held[h] # <<>>, held'[h] = Tail(held[h]),
           held'[k] = Append(held[k], Head(held[h])),
           \A g \in Holders \ {h, k} : held'[g] = held[g],
           NEW m, Absent(held', Holders, m)
    PROVE  Absent(held, Holders, m)
<1>1. /\ Len(Tail(held[h])) = Len(held[h]) - 1 /\ Len(held[h]) \in Nat
      /\ \A i \in 1 .. Len(held[h]) - 1 : Tail(held[h])[i] = held[h][i + 1]
      /\ Head(held[h]) = held[h][1] /\ Head(held[h]) \in Nat
  OBVIOUS
<1> DEFINE longer == Append(held[k], Head(held[h]))
<1>2. /\ Len(longer) = Len(held[k]) + 1 /\ Len(held[k]) \in Nat
      /\ \A i \in 1 .. Len(held[k]) : longer[i] = held[k][i]
      /\ longer[Len(held[k]) + 1] = Head(held[h])
  BY <1>1
<1>3. /\ \A i \in 1 .. Len(Tail(held[h])) : Tail(held[h])[i] # m
      /\ \A i \in 1 .. Len(longer) : longer[i] # m
  BY DEF Absent
<1> HIDE DEF longer
<1>4. Head(held[h]) # m /\ \A i \in 1 .. Len(held[k]) : held[k][i] # m
  BY <1>2, <1>3
<1>5. ASSUME NEW i \in 1 .. Len(held[h])
      PROVE  held[h][i] # m
  <2>1. i # 1 => i - 1 \in 1 .. Len(Tail(held[h])) /\ Tail(held[h])[i - 1] = held[h][i]
    BY <1>1
  <2> QED
    BY <1>1, <1>3, <1>4, <2>1
<1>6. ASSUME NEW g \in Holders \ {h, k}, NEW i \in 1 .. Len(held[g])
      PROVE  held[g][i] # m
  BY DEF Absent
<1> QED
  BY <1>4, <1>5, <1>6 DEF Absent

LEMMA HandLosesNone ==
    ASSUME held \in [Holders -> Seq(Nat)], NEW h \in Holders, NEW k \in Holders \ {h},
           held[k] = <<>>, held'[k] = held[h],
           \A g \in Holders \ {h, k} : held'[g] = held[g],
           NEW m, Absent(held', Holders, m)
    PROVE  Absent(held, Holders, m)
<1>1. \A i \in 1 .. Len(held[k]) : held[k][i] # m
  OBVIOUS
<1>2. \A i \in 1 .. Len(held[h]) : held[h][i] # m
  BY DEF Absent
<1>3. ASSUME NEW g \in Holders \ {h, k}, NEW i \in 1 .. Len(held[g])
      PROVE  held[g][i] # m
  BY DEF Absent
<1> QED
  BY <1>1, <1>2, <1>3 DEF Absent

\* A message moves to a holder that drops its first one for it.
LEMMA RoomLosesOne ==
    ASSUME held \in [Holders -> Seq(Nat)], NEW h \in Holders, NEW k \in Holders \ {h},
           NEW x \in Nat, held[h] = <<x>>, held[k] # <<>>,
           held'[k] = Append(Tail(held[k]), x),
           \A g \in Holders \ {h, k} : held'[g] = held[g],
           NEW m, Absent(held', Holders, m)
    PROVE  Absent(held, Holders, m) \/ m = Head(held[k])
<1>1. /\ Tail(held[k]) \in Seq(Nat) /\ Len(Tail(held[k])) = Len(held[k]) - 1
      /\ Len(held[k]) \in Nat
      /\ \A i \in 1 .. Len(held[k]) - 1 : Tail(held[k])[i] = held[k][i + 1]
      /\ Head(held[k]) = held[k][1]
  OBVIOUS
<1> DEFINE longer == Append(Tail(held[k]), x)
<1>2. /\ Len(longer) = Len(held[k])
      /\ \A i \in 1 .. Len(held[k]) - 1 : longer[i] = held[k][i + 1]
      /\ longer[Len(held[k])] = x
  BY <1>1
<1>3. \A i \in 1 .. Len(longer) : longer[i] # m
  BY DEF Absent
<1>4. Len(held[k]) >= 1
  OBVIOUS
<1> HIDE DEF longer
<1>5. ASSUME m # Head(held[k]), NEW i \in 1 .. Len(held[k])
      PROVE  held[k][i] # m
  <2>1. i # 1 => i - 1 \in 1 .. Len(longer) /\ longer[i - 1] = held[k][i]
    BY <1>1, <1>2
  <2> QED
    BY <1>1, <1>3, <1>5, <2>1
<1>6. \A i \in 1 .. Len(held[h]) : held[h][i] # m
  BY <1>1, <1>2, <1>3, <1>4
<1>7. ASSUME NEW g \in Holders \ {h, k}, NEW i \in 1 .. Len(held[g])
      PROVE  held[g][i] # m
  BY DEF Absent
<1> QED
  BY <1>5, <1>6, <1>7 DEF Absent

------------------------------------------------------------------------------
(* Every step keeps the family sound *)

\* A call of Forward has a message while it writes to its target or queues it,
\* and none once it is done; a handler has drained messages only while it
\* flushes.
Owed ==
    /\ \A r \in Relays : /\ pc[r] \in {"idle", "all"} => job[r] = NoJob
                         /\ pc[r] \in {"write", "enqueue"} => job[r] # NoJob
    /\ \A c \in Conns : stage[c] # "flushing" => flush[c] = <<>>

Messages == Sound(held, Holders, sentCount)

\* The two ways LossExplained allows a message to disappear
Explained(m) ==
    \/ \E p \in Peers : Len(queue[p]) = QueueCap /\ Head(queue[p]) = m
    \/ \E c \in Conns : /\ flush[c] # <<>>
                        /\ Head(flush[c]) = m
                        /\ socket[c] # "open"

\* No other message disappears in a step.
NoneLost ==
    \A m \in 1 .. sentCount :
        Absent(held', Holders, m) => Absent(held, Holders, m) \/ Explained(m)

LEMMA InitMessages == Init => Owed /\ Messages
<1> SUFFICES ASSUME Init
             PROVE  Owed /\ Messages
  OBVIOUS
<1>1. Owed
  BY DriverNone DEF Init, Owed, Threads
<1>2. ASSUME NEW h \in Holders
      PROVE  held[h] = <<>>
  BY HolderKinds DEF Init, held, Carried, Threads
<1>3. \A h \in Holders : Len(held[h]) = 0
  BY <1>2
<1> QED
  BY <1>1, <1>3 DEF Messages, Sound, Unique, Below

LEMMA NextOwed ==
    TypeOK /\ Control /\ Owed /\ [Next]_vars => Owed'
<1> SUFFICES ASSUME TypeOK, Control, Owed, [Next]_vars
             PROVE  Owed'
  OBVIOUS
<1>1. ASSUME NEW c \in Conns, Handler(c) \/ DriverGone(c)
      PROVE  Owed'
  <2>1. \A r \in Relays : pc'[r] = pc[r] /\ job'[r] = job[r]
    BY <1>1, DriverNone
    DEF Handler, Serve, CheckLimit, Admit, UpgradeFails, Identify, Register, Drain,
        FlushOne, Flushed, ReadFails, Cleanup, CloseOwn, BeginCount, CountOne, EndCount,
        DriverGone, TypeOK, Threads
  <2>2. CASE Drain(c)
    <3>1. \A d \in Conns \ {c} : stage'[d] = stage[d] /\ flush'[d] = flush[d]
      BY <2>2 DEF Drain, TypeOK
    <3>2. stage'[c] = "flushing"
      BY <2>2 DEF Drain, TypeOK
    <3> QED
      BY <2>1, <3>1, <3>2 DEF Owed
  <2>3. CASE FlushOne(c)
    <3>1. \A d \in Conns \ {c} : flush'[d] = flush[d]
      BY <2>3 DEF FlushOne, TypeOK
    <3>2. stage[c] = "flushing" /\ UNCHANGED stage
      BY <2>3 DEF FlushOne
    <3> QED
      BY <2>1, <3>1, <3>2 DEF Owed
  <2>4. CASE ~Drain(c) /\ ~FlushOne(c)
    <3>1. UNCHANGED flush
      BY <1>1, <2>4
      DEF Handler, Serve, CheckLimit, Admit, UpgradeFails, Identify, Register, Flushed,
          ReadFails, Cleanup, CloseOwn, BeginCount, CountOne, EndCount, DriverGone
    <3>2. \A d \in Conns :
            stage'[d] = stage[d] \/ stage[d] # "flushing" \/ flush[d] = <<>>
      BY <1>1, <2>4
      DEF Handler, Serve, CheckLimit, Admit, UpgradeFails, Identify, Register, Flushed,
          ReadFails, Cleanup, CloseOwn, BeginCount, CountOne, EndCount, DriverGone,
          Control, TypeOK
    <3> QED
      BY <2>1, <3>1, <3>2 DEF Owed
  <2> QED
    BY <2>2, <2>3, <2>4
<1>2. ASSUME NEW r \in Relays, Relay(r)
      PROVE  Owed'
  <2>1. UNCHANGED <<stage, flush>>
    BY <1>2 DEF Relay, FinishForward, ForwardTo, ForwardAll, WriteTarget, WriteOne,
                Remove, Close, EndAll, Enqueue
  <2>2. \A q \in Relays \ {r} : pc'[q] = pc[q] /\ job'[q] = job[q]
    BY <1>2 DEF Relay, FinishForward, ForwardTo, ForwardAll, WriteTarget, WriteOne,
                Remove, Close, EndAll, Enqueue, TypeOK, Threads
  <2>3. CASE \E p \in Peers : ForwardTo(r, p)
    <3>1. PICK p \in Peers : ForwardTo(r, p)
      BY <2>3
    <3>2. job'[r].id = sentCount + 1 /\ pc'[r] \in {"enqueue", "write"}
      BY <3>1 DEF ForwardTo, TypeOK, Threads
    <3>3. job'[r] # NoJob
      BY <3>2 DEF NoJob, TypeOK
    <3> QED
      BY <2>1, <2>2, <3>2, <3>3 DEF Owed
  <2>4. CASE ForwardAll(r) \/ WriteOne(r) \/ Remove(r) \/ Close(r) \/ EndAll(r)
    <3>1. UNCHANGED job
      BY <2>4 DEF ForwardAll, WriteOne, Remove, Close, EndAll
    <3>2. /\ pc'[r] \in {"idle", "all"} => job[r] = NoJob
          /\ pc'[r] \in {"write", "enqueue"} => job[r] # NoJob
      BY <2>4 DEF ForwardAll, WriteOne, Remove, Close, EndAll, TypeOK, Threads, Owed
    <3> QED
      BY <2>1, <2>2, <3>1, <3>2 DEF Owed
  <2>5. CASE WriteTarget(r) \/ Enqueue(r)
    <3>1. \/ pc'[r] = "idle" /\ job'[r] = NoJob
          \/ pc'[r] = "remove"
      BY <2>5 DEF WriteTarget, Enqueue, TypeOK, Threads
    <3> QED
      BY <2>1, <2>2, <3>1 DEF Owed
  <2> QED
    BY <1>2, <2>3, <2>4, <2>5 DEF Relay, FinishForward
<1>3. CASE UNCHANGED <<stage, flush, pc, job>>
  BY <1>3 DEF Owed
<1> QED
  BY <1>1, <1>2, <1>3 DEF Next, Stop, Reset

\* The step of Forward that takes a new message.
LEMMA ArrivalKeepsMessages ==
    ASSUME TypeOK, Owed, Messages, NEW r \in Relays, NEW p \in Peers, ForwardTo(r, p)
    PROVE  Messages' /\ NoneLost
<1> DEFINE h == <<"job", r>>
           m == sentCount + 1
<1>1. /\ held \in [Holders -> Seq(Nat)] /\ h \in Holders /\ sentCount \in Nat
      /\ held[h] = Carried(job[r])
  BY HeldType, HeldParts, HeldValues
<1>2. job[r] = NoJob /\ held[h] = <<>>
  BY <1>1 DEF ForwardTo, Owed, Carried
<1>3. [id |-> m, to |-> p] # NoJob
  BY <1>1 DEF NoJob
<1>4. Carried([id |-> m, to |-> p]) = Append(held[h], m)
  BY <1>2, <1>3 DEF Carried
<1>5. held' = [held EXCEPT ![h] = Append(held[h], m)]
  <2>1. /\ job' = [job EXCEPT ![r] = [id |-> m, to |-> p]]
        /\ UNCHANGED <<queue, flush, wire>>
    BY DEF ForwardTo
  <2>2. \A g \in Holders \ {h} : held'[g] = held[g]
    <3>1. \A q \in Relays \ {r} : job'[q] = job[q]
      BY <2>1, HeldParts DEF Threads
    <3>2. ASSUME NEW g \in Holders \ {h}
          PROVE  held'[g] = held[g]
      <4>1. CASE g[1] = "job"
        <5>1. g[2] \in Relays \ {r}
          BY <4>1, HolderKinds
        <5> QED
          BY <3>1, <4>1, <5>1, HeldSame
      <4>2. CASE g[1] # "job"
        BY <2>1, <4>2, HolderKinds, HeldSame
      <4> QED
        BY <4>1, <4>2
    <3> QED
      BY <3>2
  <2>3. job'[r] = [id |-> m, to |-> p]
    BY <2>1, HeldParts DEF Threads
  <2>4. held'[h] = Append(held[h], m)
    <3>1. held'[h] = Carried(job'[r])
      BY HeldValues DEF held
    <3> QED
      BY <1>4, <2>3, <3>1
  <2> HIDE DEF h, m
  <2> QED
    BY <1>1, <2>2, <2>4, OneHolderChanges
<1>6. Sound(held, Holders, m) /\ Absent(held, Holders, m)
  <2>1. \A g \in Holders : \A i \in 1 .. Len(held[g]) :
          held[g][i] \in Nat /\ held[g][i] <= sentCount
    BY <1>1 DEF Messages, Sound, Below
  <2> QED
    BY <1>1, <2>1 DEF Messages, Sound, Below, Absent
<1>7. Sound([held EXCEPT ![h] = Append(held[h], m)], Holders, m)
  <2>1. m \in Nat /\ m \in 0 .. m
    BY <1>1
  <2> HIDE DEF m, h
  <2> QED
    BY <1>1, <1>6, <2>1, AddKeepsSound
<1>8. sentCount' = m
  BY DEF ForwardTo
<1>9. NoneLost
  <2>1. m \in Nat
    BY <1>1
  <2> HIDE DEF m, h
  <2>2. held'[h] = Append(held[h], m) /\ \A g \in Holders \ {h} : held'[g] = held[g]
    BY <1>1, <1>5
  <2> QED
    BY <1>1, <2>1, <2>2, AddLosesNone DEF NoneLost
<1> QED
  BY <1>5, <1>7, <1>8, <1>9 DEF Messages

\* The write to the target's connection.
LEMMA WriteKeepsMessages ==
    ASSUME TypeOK, Control, Owed, Messages, NEW r \in Relays, WriteTarget(r)
    PROVE  Messages' /\ NoneLost
<1> DEFINE c == victim[r]
           h == <<"job", r>>
           k == <<"wire", c>>
<1>1. CASE UNCHANGED <<job, queue, flush, wire, sentCount>>
  BY <1>1 DEF Messages, NoneLost, held
<1>2. CASE ~UNCHANGED <<job, queue, flush, wire, sentCount>>
  <2>1. /\ pc[r] = "write" /\ UNCHANGED <<queue, flush, sentCount>>
        /\ wire' = [wire EXCEPT ![c] = Append(wire[c], job[r].id)]
        /\ job' = [job EXCEPT ![r] = NoJob]
    BY <1>2 DEF WriteTarget
  <2>2. /\ held \in [Holders -> Seq(Nat)] /\ c \in Conns /\ sentCount \in Nat
        /\ h \in Holders /\ k \in Holders \ {h}
        /\ held[h] = Carried(job[r]) /\ held[k] = wire[c]
    <3>1. c \in Conns
      BY <2>1 DEF Control
    <3> HIDE DEF c
    <3> QED
      BY <3>1, HeldType, HeldParts, HeldValues
  <2>3. held[h] = <<job[r].id>>
    BY <2>1, <2>2 DEF Owed, Carried
  <2>4. held' = [[held EXCEPT ![h] = Tail(held[h])]
                       EXCEPT ![k] = Append(held[k], Head(held[h]))]
    <3>1. held'[h] = <<>>
      <4>1. job'[r] = NoJob /\ Carried(NoJob) = <<>>
        BY <2>1, HeldParts DEF Threads, Carried
      <4> QED
        BY <4>1, HeldValues DEF held
    <3>2. held'[k] = Append(wire[c], job[r].id)
      BY <2>1, <2>2, HeldParts DEF held
    <3>3. \A g \in Holders \ {h, k} : held'[g] = held[g]
      <4>1. \A d \in Conns \ {c} : wire'[d] = wire[d]
        BY <2>1, HeldParts
      <4>2. \A q \in Relays \ {r} : job'[q] = job[q]
        BY <2>1, HeldParts DEF Threads
      <4>3. ASSUME NEW g \in Holders \ {h, k}
            PROVE  held'[g] = held[g]
        <5>1. CASE g[1] = "wire"
          <6> HIDE DEF c
          <6>1. g[2] \in Conns \ {c}
            BY <5>1, HolderKinds
          <6> QED
            BY <4>1, <5>1, <6>1, HeldSame
        <5>2. CASE g[1] = "job"
          <6>1. g[2] \in Relays \ {r}
            BY <5>2, HolderKinds
          <6> QED
            BY <4>2, <5>2, <6>1, HeldSame
        <5>3. CASE g[1] \in {"queue", "flush"}
          BY <2>1, <5>3, HeldSame
        <5> QED
          BY <5>1, <5>2, <5>3, HolderKinds
      <4> QED
        BY <4>3
    <3>4. Tail(held[h]) = <<>> /\ Head(held[h]) = job[r].id
      BY <2>3
    <3> DEFINE x == Tail(held[h])
               y == Append(held[k], Head(held[h]))
    <3>5. held'[h] = x /\ held'[k] = y
      BY <2>2, <3>1, <3>2, <3>4
    <3> HIDE DEF h, k, c, x, y
    <3>6. held' = [[held EXCEPT ![h] = x] EXCEPT ![k] = y]
      BY <2>2, <3>3, <3>5, TwoHoldersChange, SMTT(30)
    <3> QED
      BY <3>6 DEF x, y
  <2>5. held[h] # <<>>
    BY <2>3
  <2> HIDE DEF h, k
  <2>6. Sound(held', Holders, sentCount)
    BY <2>2, <2>4, <2>5, MoveKeepsSound DEF Messages
  <2>7. NoneLost
    <3>1. /\ held'[h] = Tail(held[h]) /\ held'[k] = Append(held[k], Head(held[h]))
          /\ \A g \in Holders \ {h, k} : held'[g] = held[g]
      BY <2>2, <2>4
    <3> QED
      BY <2>2, <2>5, <3>1, MoveLosesNone DEF NoneLost
  <2> QED
    BY <2>1, <2>6, <2>7 DEF Messages
<1> QED
  BY <1>1, <1>2

\* PeerQueue.Enqueue, which may make room first.
LEMMA EnqueueKeepsMessages ==
    ASSUME TypeOK, Control, Owed, Messages, NEW r \in Relays, Enqueue(r)
    PROVE  Messages' /\ NoneLost
<1> DEFINE p == job[r].to
           h == <<"job", r>>
           k == <<"queue", p>>
           m == job[r].id
           room(s) == [s EXCEPT ![k] = Tail(s[k])]
           moved(s) == [[s EXCEPT ![h] = Tail(s[h])] EXCEPT ![k] = Append(s[k], Head(s[h]))]
<1>1. /\ UNCHANGED <<flush, wire, sentCount>> /\ pc[r] = "enqueue"
      /\ queue' = [queue EXCEPT ![p] = Enqueued(queue[p], m)]
      /\ job' = [job EXCEPT ![r] = NoJob]
  BY DEF Enqueue
<1>2. /\ held \in [Holders -> Seq(Nat)] /\ p \in Peers /\ sentCount \in Nat
      /\ h \in Holders /\ k \in Holders \ {h}
      /\ held[h] = Carried(job[r]) /\ held[k] = queue[p]
      /\ queue \in [Peers -> Seq(Nat)]
  <2>1. p \in Peers
    BY <1>1 DEF Control
  <2> HIDE DEF p
  <2> QED
    BY <2>1, HeldType, HeldParts, HeldValues
<1>3. held[h] = <<m>> /\ Tail(held[h]) = <<>> /\ Head(held[h]) = m /\ held[h] # <<>>
  BY <1>1, <1>2 DEF Owed, Carried
<1>4. held' = [[held EXCEPT ![h] = <<>>] EXCEPT ![k] = Enqueued(queue[p], m)]
  <2>1. held'[h] = <<>>
    <3>1. job'[r] = NoJob /\ Carried(NoJob) = <<>>
      BY <1>1, HeldParts DEF Threads, Carried
    <3> QED
      BY <3>1, HeldValues DEF held
  <2>2. held'[k] = Enqueued(queue[p], m)
    BY <1>1, <1>2, HeldParts DEF held
  <2>3. \A g \in Holders \ {h, k} : held'[g] = held[g]
    <3>1. \A q \in Peers \ {p} : queue'[q] = queue[q]
      BY <1>1, HeldParts
    <3>2. \A q \in Relays \ {r} : job'[q] = job[q]
      BY <1>1, HeldParts DEF Threads
    <3> HIDE DEF p
    <3> QED
      BY <1>1, <3>1, <3>2, HolderKinds, HeldSame
  <2> HIDE DEF h, k, m, p
  <2> QED
    BY <1>2, <2>1, <2>2, <2>3, TwoHoldersChange
<1>5. CASE Len(queue[p]) >= QueueCap
  <2>1. queue[p] # <<>> /\ Enqueued(queue[p], m) = Append(Tail(queue[p]), m)
    BY <1>2, <1>5, DriverBounds, SMTT(30) DEF Enqueued
  <2>2. /\ room(held) \in [Holders -> Seq(Nat)]
        /\ room(held)[h] = held[h] /\ room(held)[k] = Tail(queue[p])
    BY <1>2, <2>1, SMTT(30)
  <2>3. moved(room(held)) = [[held EXCEPT ![h] = <<>>] EXCEPT ![k] = Append(Tail(queue[p]), m)]
    BY <1>2, <1>3, <2>2
  <2>4. Sound(room(held), Holders, sentCount)
    BY <1>2, <2>1, DropKeepsSound DEF Messages
  <2>5. room(held)[h] # <<>>
    BY <1>3, <2>2
  <2>6. ASSUME NEW s \in [Holders -> Seq(Nat)], Sound(s, Holders, sentCount), s[h] # <<>>
        PROVE  Sound(moved(s), Holders, sentCount)
    <3> HIDE DEF h, k
    <3> QED
      BY <1>2, <2>6, MoveKeepsSound
  <2>7. Sound(moved(room(held)), Holders, sentCount)
    <3> HIDE DEF moved, room
    <3> QED
      BY <2>2, <2>4, <2>5, <2>6
  <2>8. ASSUME NEW n \in 1 .. sentCount, Absent(held', Holders, n)
        PROVE  Absent(held, Holders, n) \/ Explained(n)
    <3>1. m \in Nat
      BY HeldParts DEF Threads
    <3>2. held[h] = <<m>> /\ held[k] # <<>> /\ held[k] = queue[p]
      BY <1>2, <1>3, <2>1
    <3>3. /\ held'[k] = Append(Tail(held[k]), m)
          /\ \A g \in Holders \ {h, k} : held'[g] = held[g]
      <4> HIDE DEF h, k, m, p
      <4> QED
        BY <1>2, <1>4, <2>1
    <3>4. Absent(held, Holders, n) \/ n = Head(held[k])
      <4> HIDE DEF h, k, m
      <4> QED
        BY <1>2, <2>8, <3>1, <3>2, <3>3, RoomLosesOne
    <3>5. Len(queue[p]) = QueueCap
      BY <1>2, <1>5, DriverBounds DEF TypeOK
    <3> QED
      BY <1>2, <3>4, <3>5 DEF Explained
  <2> QED
    BY <1>1, <1>4, <2>1, <2>3, <2>7, <2>8 DEF Messages, NoneLost
<1>6. CASE ~(Len(queue[p]) >= QueueCap)
  <2>1. Enqueued(queue[p], m) = Append(queue[p], m)
    BY <1>6 DEF Enqueued
  <2>2. moved(held) = held'
    BY <1>2, <1>3, <1>4, <2>1
  <2>3. Sound(moved(held), Holders, sentCount)
    <3> HIDE DEF h, k
    <3> QED
      BY <1>2, <1>3, MoveKeepsSound DEF Messages
  <2>4. NoneLost
    <3>1. held' = [[held EXCEPT ![h] = Tail(held[h])] EXCEPT ![k] = Append(held[k], Head(held[h]))]
      BY <2>2
    <3> HIDE DEF h, k
    <3>2. /\ held'[h] = Tail(held[h]) /\ held'[k] = Append(held[k], Head(held[h]))
          /\ \A g \in Holders \ {h, k} : held'[g] = held[g]
      BY <1>2, <3>1
    <3> QED
      BY <1>2, <1>3, <3>2, MoveLosesNone DEF NoneLost
  <2> QED
    BY <1>1, <2>2, <2>3, <2>4 DEF Messages
<1> QED
  BY <1>5, <1>6

\* PeerQueue.Drain
LEMMA DrainKeepsMessages ==
    ASSUME TypeOK, Control, Owed, Messages, NEW c \in Conns, Drain(c)
    PROVE  Messages' /\ NoneLost
<1> DEFINE p == peerId[c]
           h == <<"queue", p>>
           k == <<"flush", c>>
<1>1. /\ UNCHANGED <<job, wire, sentCount>> /\ stage[c] = "draining"
      /\ queue' = [queue EXCEPT ![p] = <<>>]
      /\ flush' = [flush EXCEPT ![c] = queue[p]]
  BY DEF Drain
<1>2. /\ held \in [Holders -> Seq(Nat)] /\ p \in Peers /\ sentCount \in Nat
      /\ h \in Holders /\ k \in Holders \ {h}
      /\ held[h] = queue[p] /\ held[k] = flush[c]
  <2>1. p \in Peers
    BY <1>1 DEF Control
  <2> HIDE DEF p
  <2> QED
    BY <2>1, HeldType, HeldParts, HeldValues
<1>3. held[k] = <<>>
  BY <1>1, <1>2 DEF Owed
<1>4. held' = [[held EXCEPT ![h] = <<>>] EXCEPT ![k] = held[h]]
  <2>1. held'[h] = <<>>
    BY <1>1, <1>2, HeldParts DEF held
  <2>2. held'[k] = held[h]
    BY <1>1, <1>2, HeldParts DEF held
  <2>3. \A g \in Holders \ {h, k} : held'[g] = held[g]
    <3>1. \A q \in Peers \ {p} : queue'[q] = queue[q]
      BY <1>1, HeldParts
    <3>2. \A d \in Conns \ {c} : flush'[d] = flush[d]
      BY <1>1, HeldParts
    <3> HIDE DEF p
    <3> QED
      BY <1>1, <3>1, <3>2, HolderKinds, HeldSame, SMTT(30)
  <2> HIDE DEF h, k
  <2> QED
    BY <1>2, <2>1, <2>2, <2>3, TwoHoldersChange
<1> HIDE DEF h, k
<1>5. Sound(held', Holders, sentCount)
  BY <1>2, <1>3, <1>4, HandKeepsSound DEF Messages
<1>6. NoneLost
  <2>1. held'[k] = held[h] /\ \A g \in Holders \ {h, k} : held'[g] = held[g]
    BY <1>2, <1>4
  <2> QED
    BY <1>2, <1>3, <2>1, HandLosesNone DEF NoneLost
<1> QED
  BY <1>1, <1>5, <1>6 DEF Messages

\* One send of a flush, which may fail.
LEMMA FlushKeepsMessages ==
    ASSUME TypeOK, Messages, NEW c \in Conns, FlushOne(c)
    PROVE  Messages' /\ NoneLost
<1> DEFINE h == <<"flush", c>>
           k == <<"wire", c>>
<1>1. /\ UNCHANGED <<job, queue, sentCount>> /\ flush[c] # <<>>
      /\ flush' = [flush EXCEPT ![c] = Tail(flush[c])]
      /\ (WriteFails(c) /\ wire' = wire)
           \/ wire' = [wire EXCEPT ![c] = Append(wire[c], Head(flush[c]))]
  BY DEF FlushOne
<1>2. /\ held \in [Holders -> Seq(Nat)] /\ sentCount \in Nat
      /\ h \in Holders /\ k \in Holders \ {h}
      /\ held[h] = flush[c] /\ held[k] = wire[c]
  BY HeldType, HeldParts, HeldValues
<1>3. /\ \A d \in Conns \ {c} : flush'[d] = flush[d]
      /\ flush'[c] = Tail(flush[c])
  BY <1>1, HeldParts
<1>4. CASE WriteFails(c) /\ wire' = wire
  <2>1. held' = [held EXCEPT ![h] = Tail(held[h])]
    <3>1. held'[h] = Tail(held[h])
      BY <1>2, <1>3 DEF held
    <3>2. \A g \in Holders \ {h} : held'[g] = held[g]
      BY <1>1, <1>3, <1>4, HolderKinds, HeldSame
    <3> HIDE DEF h, k
    <3> QED
      BY <1>2, <3>1, <3>2, OneHolderChanges
  <2> HIDE DEF h, k
  <2>2. Sound(held', Holders, sentCount)
    BY <1>1, <1>2, <2>1, DropKeepsSound DEF Messages
  <2>3. ASSUME NEW n \in 1 .. sentCount, Absent(held', Holders, n)
        PROVE  Absent(held, Holders, n) \/ Explained(n)
    <3>1. Absent(held, Holders, n) \/ n = Head(held[h])
      <4>1. held'[h] = Tail(held[h]) /\ \A g \in Holders \ {h} : held'[g] = held[g]
        BY <1>2, <2>1
      <4> QED
        BY <1>1, <1>2, <2>3, <4>1, DropLosesOne
    <3>2. socket[c] # "open"
      BY <1>4 DEF WriteFails
    <3> QED
      BY <1>1, <1>2, <3>1, <3>2 DEF Explained
  <2> QED
    BY <1>1, <2>2, <2>3 DEF Messages, NoneLost
<1>5. CASE wire' = [wire EXCEPT ![c] = Append(wire[c], Head(flush[c]))]
  <2>1. held' = [[held EXCEPT ![h] = Tail(held[h])]
                       EXCEPT ![k] = Append(held[k], Head(held[h]))]
    <3>1. held'[h] = Tail(held[h])
      BY <1>2, <1>3 DEF held
    <3>2. held'[k] = Append(held[k], Head(held[h]))
      <4>1. wire'[c] = Append(wire[c], Head(flush[c]))
        BY <1>5, HeldParts
      <4> QED
        BY <1>2, <4>1 DEF held
    <3>3. \A g \in Holders \ {h, k} : held'[g] = held[g]
      <4>1. \A d \in Conns \ {c} : wire'[d] = wire[d]
        BY <1>5, HeldParts
      <4>2. ASSUME NEW g \in Holders \ {h, k}
            PROVE  held'[g] = held[g]
        <5>1. CASE g[1] = "wire"
          <6>1. g[2] \in Conns \ {c}
            BY <5>1, HolderKinds
          <6> QED
            BY <4>1, <5>1, <6>1, HeldSame
        <5>2. CASE g[1] = "flush"
          <6>1. g[2] \in Conns \ {c}
            BY <5>2, HolderKinds
          <6> QED
            BY <1>3, <5>2, <6>1, HeldSame
        <5>3. CASE g[1] \in {"queue", "job"}
          BY <1>1, <5>3, HeldSame
        <5> QED
          BY <5>1, <5>2, <5>3, HolderKinds
      <4> QED
        BY <4>2
    <3> HIDE DEF h, k
    <3> QED
      BY <1>2, <3>1, <3>2, <3>3, TwoHoldersChange, ZenonT(60)
  <2> HIDE DEF h, k
  <2>2. Sound(held', Holders, sentCount)
    BY <1>1, <1>2, <2>1, MoveKeepsSound DEF Messages
  <2>3. NoneLost
    <3>1. /\ held'[h] = Tail(held[h]) /\ held'[k] = Append(held[k], Head(held[h]))
          /\ \A g \in Holders \ {h, k} : held'[g] = held[g]
      BY <1>2, <2>1
    <3> QED
      BY <1>1, <1>2, <3>1, MoveLosesNone DEF NoneLost
  <2> QED
    BY <1>1, <2>2, <2>3 DEF Messages
<1> QED
  BY <1>1, <1>4, <1>5

LEMMA NextMessages ==
    TypeOK /\ Control /\ Owed /\ Messages /\ [Next]_vars => Messages' /\ NoneLost
<1> SUFFICES ASSUME TypeOK, Control, Owed, Messages, [Next]_vars
             PROVE  Messages' /\ NoneLost
  OBVIOUS
<1>1. CASE UNCHANGED <<job, queue, flush, wire, sentCount>>
  BY <1>1 DEF Messages, NoneLost, held
<1>2. ASSUME NEW c \in Conns, Handler(c) \/ DriverGone(c)
      PROVE  Messages' /\ NoneLost
  <2>1. CASE Drain(c)
    BY <2>1, DrainKeepsMessages
  <2>2. CASE FlushOne(c)
    BY <2>2, FlushKeepsMessages
  <2>3. CASE ~Drain(c) /\ ~FlushOne(c)
    BY <1>1, <1>2, <2>3
    DEF Handler, Serve, CheckLimit, Admit, UpgradeFails, Identify, Register, Flushed,
        ReadFails, Cleanup, CloseOwn, BeginCount, CountOne, EndCount, DriverGone
  <2> QED
    BY <2>1, <2>2, <2>3
<1>3. ASSUME NEW r \in Relays, Relay(r)
      PROVE  Messages' /\ NoneLost
  <2>1. CASE \E p \in Peers : ForwardTo(r, p)
    BY <2>1, ArrivalKeepsMessages
  <2>2. CASE WriteTarget(r)
    BY <2>2, WriteKeepsMessages
  <2>3. CASE Enqueue(r)
    BY <2>3, EnqueueKeepsMessages
  <2>4. CASE ForwardAll(r) \/ WriteOne(r) \/ Remove(r) \/ Close(r) \/ EndAll(r)
    BY <1>1, <2>4 DEF ForwardAll, WriteOne, Remove, Close, EndAll
  <2> QED
    BY <1>3, <2>1, <2>2, <2>3, <2>4 DEF Relay, FinishForward
<1> QED
  BY <1>1, <1>2, <1>3 DEF Next, Stop, Reset

LEMMA MessagesCorrect == Spec => [](Owed /\ Messages)
  BY InitMessages, NextOwed, NextMessages, TypeAndControl, PTL DEF Spec

LEMMA InAPlace ==
    ASSUME NEW kind, NEW family, NEW m, NEW x \in PlacesIn(kind, family, m)
    PROVE  \E a \in DOMAIN family : \E i \in DOMAIN family[a] :
               x = <<kind, a, i>> /\ family[a][i] = m
  BY DEF PlacesIn

\* Where a place of a message is in the family of sequences.
holder(x) == <<x[1], x[2]>>
at(x) == IF x[1] = "job" THEN 1 ELSE x[3]

LEMMA PlacesAreHeld ==
    ASSUME TypeOK, NEW m \in Nat \ {0}, NEW x \in Places(m)
    PROVE  /\ holder(x) \in Holders
           /\ at(x) \in 1 .. Len(held[holder(x)])
           /\ held[holder(x)][at(x)] = m
           /\ x = IF x[1] = "job" THEN <<x[1], x[2]>> ELSE <<x[1], x[2], x[3]>>
<1>1. CASE \E r \in Relays : x = <<"job", r>> /\ job[r].id = m
  <2>1. PICK r \in Relays : x = <<"job", r>> /\ job[r].id = m
    BY <1>1
  <2>2. Carried(job[r]) = <<m>>
    BY <2>1 DEF Carried, NoJob
  <2>3. held[<<"job", r>>] = <<m>> /\ <<"job", r>> \in Holders
    BY <2>2, HeldValues DEF held
  <2>4. holder(x) = <<"job", r>> /\ at(x) = 1 /\ x = <<x[1], x[2]>> /\ x[1] = "job"
    BY <2>1 DEF holder, at
  <2>5. Len(<<m>>) = 1 /\ <<m>>[1] = m
    OBVIOUS
  <2>6. held[holder(x)] = <<m>> /\ holder(x) \in Holders
    BY <2>3, <2>4
  <2>7. at(x) \in 1 .. Len(held[holder(x)]) /\ held[holder(x)][at(x)] = m
    BY <2>4, <2>5, <2>6
  <2> QED
    BY <2>4, <2>6, <2>7
<1>2. CASE \E p \in Peers : \E i \in DOMAIN queue[p] :
              x = <<"queue", p, i>> /\ queue[p][i] = m
  <2>0. PICK p \in Peers : \E i \in DOMAIN queue[p] :
          x = <<"queue", p, i>> /\ queue[p][i] = m
    BY <1>2
  <2>1. PICK i \in DOMAIN queue[p] :
          x = <<"queue", p, i>> /\ queue[p][i] = m
    BY <2>0
  <2>2. held[<<"queue", p>>] = queue[p] /\ <<"queue", p>> \in Holders
        /\ queue[p] \in Seq(Nat)
    BY HeldParts, HeldValues
  <2> QED
    BY <2>1, <2>2 DEF holder, at
<1>3. CASE \E c \in Conns : \E i \in DOMAIN flush[c] :
              x = <<"flush", c, i>> /\ flush[c][i] = m
  <2>0. PICK c \in Conns : \E i \in DOMAIN flush[c] :
          x = <<"flush", c, i>> /\ flush[c][i] = m
    BY <1>3
  <2>1. PICK i \in DOMAIN flush[c] :
          x = <<"flush", c, i>> /\ flush[c][i] = m
    BY <2>0
  <2>2. held[<<"flush", c>>] = flush[c] /\ <<"flush", c>> \in Holders
        /\ flush[c] \in Seq(Nat)
    BY HeldParts, HeldValues
  <2> QED
    BY <2>1, <2>2 DEF holder, at
<1>4. CASE \E c \in Conns : \E i \in DOMAIN wire[c] :
              x = <<"wire", c, i>> /\ wire[c][i] = m
  <2>0. PICK c \in Conns : \E i \in DOMAIN wire[c] :
          x = <<"wire", c, i>> /\ wire[c][i] = m
    BY <1>4
  <2>1. PICK i \in DOMAIN wire[c] :
          x = <<"wire", c, i>> /\ wire[c][i] = m
    BY <2>0
  <2>2. held[<<"wire", c>>] = wire[c] /\ <<"wire", c>> \in Holders
        /\ wire[c] \in Seq(Nat)
    BY HeldParts, HeldValues
  <2> QED
    BY <2>1, <2>2 DEF holder, at
<1>5. \/ \E r \in Relays : x = <<"job", r>> /\ job[r].id = m
      \/ \E p \in Peers : \E i \in DOMAIN queue[p] :
            x = <<"queue", p, i>> /\ queue[p][i] = m
      \/ \E c \in Conns : \E i \in DOMAIN flush[c] :
            x = <<"flush", c, i>> /\ flush[c][i] = m
      \/ \E c \in Conns : \E i \in DOMAIN wire[c] :
            x = <<"wire", c, i>> /\ wire[c][i] = m
  <2>1. \/ x \in {<<"job", r>> : r \in {r \in Relays : job[r].id = m}}
        \/ x \in PlacesIn("queue", queue, m)
        \/ x \in PlacesIn("flush", flush, m)
        \/ x \in PlacesIn("wire", wire, m)
    BY DEF Places
  <2>2. DOMAIN queue = Peers /\ DOMAIN flush = Conns /\ DOMAIN wire = Conns
    BY HeldParts
  <2> QED
    BY <2>1, <2>2, InAPlace
<1> QED
  BY <1>1, <1>2, <1>3, <1>4, <1>5

\* ... and everything that is held has a place.
LEMMA HeldHasAPlace ==
    ASSUME TypeOK, NEW m \in Nat \ {0}, Places(m) = {}
    PROVE  Absent(held, Holders, m)
<1> SUFFICES ASSUME NEW h \in Holders, NEW i \in 1 .. Len(held[h]), held[h][i] = m
             PROVE  FALSE
  BY DEF Absent
<1>1. /\ {<<"job", r>> : r \in {r \in Relays : job[r].id = m}} = {}
      /\ PlacesIn("queue", queue, m) = {}
      /\ PlacesIn("flush", flush, m) = {}
      /\ PlacesIn("wire", wire, m) = {}
  BY DEF Places
<1>2. ASSUME NEW kind, NEW family, NEW a \in DOMAIN family, NEW n \in DOMAIN family[a],
             family[a][n] = m
      PROVE  PlacesIn(kind, family, m) # {}
  <2>1. <<kind, a, n>> \in PlacesIn(kind, family, m)
    BY <1>2 DEF PlacesIn
  <2> QED
    BY <2>1
<1>3. CASE h[1] = "job"
  <2>1. h[2] \in Relays /\ held[h] = Carried(job[h[2]])
    BY <1>3, HolderKinds DEF held
  <2>2. Carried(job[h[2]]) = <<job[h[2]].id>>
    <3>1. CASE job[h[2]] = NoJob
      <4>1. Len(held[h]) = 0
        BY <2>1, <3>1 DEF Carried
      <4> QED
        BY <4>1
    <3> QED
      BY <3>1 DEF Carried
  <2>3. job[h[2]].id = m
    BY <2>1, <2>2
  <2> QED
    BY <1>1, <2>1, <2>3
<1>4. CASE h[1] = "queue"
  <2>1. h[2] \in DOMAIN queue /\ held[h] = queue[h[2]] /\ i \in DOMAIN queue[h[2]]
    BY <1>4, HolderKinds, HeldParts DEF held
  <2> QED
    BY <1>1, <1>2, <2>1
<1>5. CASE h[1] = "flush"
  <2>1. h[2] \in DOMAIN flush /\ held[h] = flush[h[2]] /\ i \in DOMAIN flush[h[2]]
    BY <1>5, HolderKinds, HeldParts DEF held
  <2> QED
    BY <1>1, <1>2, <2>1
<1>6. CASE h[1] = "wire"
  <2>1. h[2] \in DOMAIN wire /\ held[h] = wire[h[2]] /\ i \in DOMAIN wire[h[2]]
    BY <1>6, HolderKinds, HeldParts DEF held
  <2> QED
    BY <1>1, <1>2, <2>1
<1> QED
  BY <1>3, <1>4, <1>5, <1>6, HolderKinds

\* A targeted message is in one place at most: in a call of Forward, in one
\* peer's queue, in one flush or on one connection, however failed writes,
\* removals, re-queueing and flushes to new connections interleave.
THEOREM MessagesNeverTwice == Spec => []NeverTwice
<1>1. TypeOK /\ Messages => NeverTwice
  <2> SUFFICES ASSUME TypeOK, Messages, NEW m \in 1 .. sentCount
               PROVE  Cardinality(Places(m)) <= 1
    BY DEF NeverTwice
  <2>1. ASSUME NEW x \in Places(m)
        PROVE  /\ holder(x) \in Holders
               /\ at(x) \in 1 .. Len(held[holder(x)])
               /\ held[holder(x)][at(x)] = m
               /\ x = IF x[1] = "job" THEN <<x[1], x[2]>> ELSE <<x[1], x[2], x[3]>>
    BY HeldParts, PlacesAreHeld
  <2>2. ASSUME NEW x \in Places(m), NEW y \in Places(m)
        PROVE  x = y
    <3>1. holder(x) = holder(y) /\ at(x) = at(y)
      BY <2>1 DEF Messages, Sound, Unique
    <3>2. x[1] = y[1] /\ x[2] = y[2] /\ (x[1] # "job" => x[3] = y[3])
      BY <3>1 DEF holder, at
    <3>3. /\ x = IF x[1] = "job" THEN <<x[1], x[2]>> ELSE <<x[1], x[2], x[3]>>
          /\ y = IF y[1] = "job" THEN <<y[1], y[2]>> ELSE <<y[1], y[2], y[3]>>
      BY <2>1
    <3> QED
      BY <3>2, <3>3
  <2>3. CASE Places(m) = {}
    BY <2>3, FS_EmptySet
  <2>4. CASE Places(m) # {}
    <3>1. PICK x : x \in Places(m)
      BY <2>4
    <3>2. Places(m) = {x}
      BY <2>2, <3>1
    <3> QED
      BY <3>2, FS_Singleton
  <2> QED
    BY <2>3, <2>4
<1> QED
  BY <1>1, TypeCorrect, MessagesCorrect, PTL

\* What PlacesAreHeld and HeldHasAPlace say of a state
Located ==
    \A m \in Nat \ {0} :
        /\ Places(m) # {} => ~Absent(held, Holders, m)
        /\ Places(m) = {} => Absent(held, Holders, m)

LEMMA AllLocated == TypeOK => Located
<1> SUFFICES ASSUME TypeOK, NEW m \in Nat \ {0}
             PROVE  /\ Places(m) # {} => ~Absent(held, Holders, m)
                    /\ Places(m) = {} => Absent(held, Holders, m)
  BY DEF Located
<1>1. ASSUME NEW x \in Places(m)
      PROVE  ~Absent(held, Holders, m)
  BY PlacesAreHeld DEF Absent
<1> QED
  BY <1>1, HeldHasAPlace

\* A targeted message disappears in the two known ways only: as the oldest of
\* a full queue of its peer, or in a flush to a connection that is not open.
THEOREM LossesAreKnown == Spec => LossExplained
<1>1. ASSUME TypeOK, Control, Owed, Messages, Located, Located', [Next]_vars
      PROVE  [\A m \in 1 .. sentCount : Places(m) # {} /\ Places(m)' = {} =>
                 \/ \E p \in Peers : Len(queue[p]) = QueueCap /\ Head(queue[p]) = m
                 \/ \E c \in Conns : /\ flush[c] # <<>>
                                     /\ Head(flush[c]) = m
                                     /\ socket[c] # "open"]_vars
  <2>1. ASSUME NEW m \in 1 .. sentCount, Places(m) # {}, Places(m)' = {}
        PROVE  Explained(m)
    <3>1. m \in Nat \ {0}
      BY <1>1, <2>1, HeldParts
    <3>2. ~Absent(held, Holders, m)
      BY <1>1, <2>1, <3>1 DEF Located
    <3>3. Absent(held', Holders, m)
      BY <1>1, <2>1, <3>1 DEF Located
    <3>4. NoneLost
      BY <1>1, NextMessages
    <3> QED
      BY <3>2, <3>3, <3>4 DEF NoneLost
  <2> QED
    BY <2>1 DEF Explained
<1> QED
  BY <1>1, TypeAndControl, MessagesCorrect, AllLocated, PTL DEF Spec, LossExplained
=============================================================================
