------------------------- MODULE NodeLifecycle_proofs -------------------------
(***************************************************************************)
(* Proofs about NodeLifecycle: its types, for all numbers of starts,       *)
(* goroutines and faults.                                                  *)
(***************************************************************************)
EXTENDS NodeLifecycle, TLAPS

USE DEF fieldVars, addrVars, linkVars, netVars, taskVars, historyVars

\* How far Start or Stop has come says whether the node runs and has a host: a
\* host is open from Start to CloseHost, and a stopped node has none.  The
\* network has changed no more often than anything has happened.
Life ==
    /\ api \in {"connect", "pubsub"} => open /\ ~running /\ ~cancelled
    /\ api \in {"close", "wait"} => ~running
    /\ api = "wait" => ~open
    /\ api = "idle" /\ ~running => ~open
    /\ net <= events

IInv == TypeOK /\ Life

LEMMA InitEstablishes == Init => IInv
<1> SUFFICES ASSUME Init PROVE IInv
    OBVIOUS
<1>1. gen \in 0 .. MaxStarts /\ events \in 0 .. MaxEvents /\ net \in Nets /\ net <= events
    BY NodeBounds DEF Init, Nets
<1>2. pc \in [Tasks -> PCs] /\ host \in [Tasks -> 0 .. MaxStarts]
    BY NodeBounds DEF Init, PCs
<1> QED
    BY <1>1, <1>2, Zenon DEF Init, IInv, TypeOK, Life

\* A step of one goroutine leaves the goroutines well-typed.
LEMMA GoesTyped ==
    ASSUME TypeOK, NEW t, NEW next \in PCs, Goes(t, next)
    PROVE  pc' \in [Tasks -> PCs] /\ host' \in [Tasks -> 0 .. MaxStarts]
<1>1. /\ pc \in [Tasks -> PCs] /\ host \in [Tasks -> 0 .. MaxStarts]
      /\ gen \in 0 .. MaxStarts /\ 0 \in 0 .. MaxStarts
    BY NodeBounds DEF TypeOK
<1> QED
    BY <1>1 DEF Goes

\* ... and so does the start of a worker.
LEMMA SpawnTyped ==
    ASSUME TypeOK, NEW next \in PCs, Spawn(next)
    PROVE  pc' \in [Tasks -> PCs] /\ host' \in [Tasks -> 0 .. MaxStarts]
BY GoesTyped DEF Spawn

\* Start and Stop
LEMMA ApiPreserves ==
    ASSUME IInv, Start \/ Starting \/ Stop \/ Closing
    PROVE  IInv'
<1> USE NodeNone, NodeBounds DEF IInv, TypeOK, Life, Nets, Free, Event
<1>1. CASE Start
    <2>1. gen' \in 0 .. MaxStarts /\ events' \in 0 .. MaxEvents /\ net <= events'
        BY <1>1 DEF Start
    <2>2. /\ api' = "connect" /\ open' = TRUE /\ cancelled' = FALSE /\ real' = FALSE
          /\ running = FALSE
          /\ UNCHANGED <<running, relayReady, circuit, conn, reserved, callback, net, told,
                         pc, host, refused, unseen>>
        BY <1>1 DEF Start
    <2> QED
        BY <2>1, <2>2
<1>2. CASE StartConnect
    BY <1>2 DEF StartConnect
<1>3. CASE StartReturns
    <2>1. pc' \in [Tasks -> PCs] /\ host' \in [Tasks -> 0 .. MaxStarts]
        BY <1>3, GoesTyped DEF StartReturns, PCs
    <2> QED
        BY <1>3, <2>1 DEF StartReturns
<1>4. CASE StartFails
    BY <1>4 DEF StartFails
<1>5. CASE Stop
    BY <1>5 DEF Stop
<1>6. CASE CloseHost
    BY <1>6 DEF CloseHost
<1>7. CASE CloseReturns
    BY <1>7 DEF CloseReturns
<1> QED
    BY <1>1, <1>2, <1>3, <1>4, <1>5, <1>6, <1>7 DEF Starting, Closing

\* The network
LEMMA NetworkPreserves ==
    ASSUME IInv, ChangeNetwork \/ Lose \/ Disconnected \/ NetworkChanged \/ OtherDial
    PROVE  IInv'
<1> USE NodeNone, NodeBounds DEF IInv, TypeOK, Life, Nets, Free, Event
<1>1. CASE ChangeNetwork
    <2>1. net' \in Nets /\ events' \in 0 .. MaxEvents /\ net' <= events'
        BY <1>1 DEF ChangeNetwork
    <2>2. /\ told' = FALSE /\ real' = FALSE
          /\ UNCHANGED <<api, gen, running, cancelled, relayReady, circuit, open, conn,
                         reserved, callback, pc, host, refused, unseen>>
        BY <1>1 DEF ChangeNetwork
    <2> QED
        BY <2>1, <2>2, ZenonT(60)
<1>2. CASE Lose
    <2>1. events' \in 0 .. MaxEvents /\ net <= events'
        BY <1>2 DEF Lose
    <2>2. /\ conn' = None /\ reserved' = FALSE /\ callback' = TRUE
          /\ UNCHANGED <<api, gen, running, cancelled, relayReady, real, circuit, open, net,
                         told, pc, host, refused, unseen>>
        BY <1>2 DEF Lose
    <2> QED
        BY <2>1, <2>2, ZenonT(60)
<1>3. CASE Disconnected
    <2>1. pc' \in [Tasks -> PCs] /\ host' \in [Tasks -> 0 .. MaxStarts]
        BY <1>3, SpawnTyped DEF Disconnected, PCs
    <2> QED
        BY <1>3, <2>1 DEF Disconnected
<1>4. CASE NetworkChanged
    <2>1. pc' \in [Tasks -> PCs] /\ host' \in [Tasks -> 0 .. MaxStarts]
        BY <1>4, SpawnTyped DEF NetworkChanged, PCs
    <2> QED
        BY <1>4, <2>1 DEF NetworkChanged
<1>5. CASE OtherDial
    BY <1>5 DEF OtherDial
<1> QED
    BY <1>1, <1>2, <1>3, <1>4, <1>5

\* Goroutines
LEMMA WorkingTyped ==
    ASSUME IInv, NEW t \in Tasks, Working(t)
    PROVE  pc' \in [Tasks -> PCs] /\ host' \in [Tasks -> 0 .. MaxStarts]
<1>1. TypeOK
    BY DEF IInv
<1>2. ASSUME NEW next \in PCs, Goes(t, next)
      PROVE  pc' \in [Tasks -> PCs] /\ host' \in [Tasks -> 0 .. MaxStarts]
    BY <1>1, <1>2, GoesTyped
<1>3. CASE Ensure(t) \/ Dial(t) \/ DialFails(t) \/ Backoff(t)
    BY <1>2, <1>3 DEF Ensure, Dial, DialFails, Backoff, PCs
<1>4. CASE Redial(t) \/ RedialFails(t) \/ Discover(t)
    BY <1>2, <1>4 DEF Redial, RedialFails, Discover, PCs
<1>5. CASE Reserve(t) \/ Granted(t) \/ NotGranted(t) \/ Circuit(t)
    BY <1>2, <1>5 DEF Reserve, Granted, NotGranted, Circuit, PCs
<1>6. CASE KeepEnds(t) \/ KeepTick(t) \/ KeepDialFails(t)
    BY <1>2, <1>6 DEF KeepEnds, KeepTick, KeepDialFails, PCs
<1>7. CASE KeepDial(t)
    BY <1>7 DEF KeepDial, IInv, TypeOK, PCs
<1> QED
    BY <1>3, <1>4, <1>5, <1>6, <1>7 DEF Working

LEMMA WorkingPreserves ==
    ASSUME IInv, NEW t \in Tasks, Working(t)
    PROVE  IInv'
<1>1. pc' \in [Tasks -> PCs] /\ host' \in [Tasks -> 0 .. MaxStarts]
    BY WorkingTyped
<1> USE <1>1, NodeNone, NodeBounds DEF IInv, TypeOK, Life, Nets, Event
<1>2. CASE Ensure(t) \/ Backoff(t) \/ Reserve(t) \/ KeepEnds(t) \/ KeepTick(t)
    BY <1>2 DEF Ensure, Backoff, Reserve, KeepEnds, KeepTick
<1>3. CASE Dial(t) \/ Redial(t) \/ KeepDial(t)
    BY <1>3 DEF Dial, Redial, KeepDial, Connects
<1>4. CASE DialFails(t) \/ RedialFails(t) \/ KeepDialFails(t)
    BY <1>4 DEF DialFails, RedialFails, KeepDialFails
<1>5. CASE Discover(t)
    <2>1. real' \in BOOLEAN /\ unseen' \in BOOLEAN
        BY <1>5, Zenon DEF Discover
    <2> QED
        BY <1>5, <2>1 DEF Discover
<1>6. CASE Granted(t)
    BY <1>6 DEF Granted
<1>7. CASE NotGranted(t)
    <2>1. events' \in 0 .. MaxEvents /\ net <= events' /\ refused' \in BOOLEAN
        <3>1. \/ events < MaxEvents /\ events' = events + 1 /\ refused' = TRUE
              \/ events' = events /\ refused' = refused
            BY <1>7, Zenon DEF NotGranted, Event
        <3>2. refused' \in BOOLEAN
            BY <3>1, Zenon
        <3> QED
            BY <3>1, <3>2
    <2>2. UNCHANGED <<api, gen, running, cancelled, relayReady, real, circuit, open, conn,
                      reserved, callback, net, told, unseen>>
        BY <1>7 DEF NotGranted
    <2> QED
        BY <2>1, <2>2
<1>8. CASE Circuit(t)
    BY <1>8 DEF Circuit
<1> QED
    BY <1>2, <1>3, <1>4, <1>5, <1>6, <1>7, <1>8 DEF Working

LEMMA StepPreserves == IInv /\ [Next]_vars => IInv'
<1> SUFFICES ASSUME IInv, [Next]_vars PROVE IInv'
    OBVIOUS
<1>1. CASE UNCHANGED vars
    BY <1>1 DEF vars, IInv, TypeOK, Life
<1> QED
    BY <1>1, ApiPreserves, NetworkPreserves, WorkingPreserves DEF Next

\* However Start, Stop, the network and the goroutines of earlier runs of the
\* node are interleaved: the types; a node that runs has an open host and a
\* context in force, a closed host no connection, and a node without a
\* connection no relay slot.
THEOREM TypeCorrect == Spec => []TypeOK
<1>1. IInv => TypeOK
    BY DEF IInv
<1> QED
    BY InitEstablishes, StepPreserves, <1>1, PTL DEF Spec
=============================================================================
