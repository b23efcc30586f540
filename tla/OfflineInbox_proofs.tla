-------------------------- MODULE OfflineInbox_proofs --------------------------
(***************************************************************************)
(* Proofs about OfflineInbox: its types, the bound of the inbox and its    *)
(* time to live, and the ways in which messages are lost and copied, for   *)
(* every number of connections and senders and every capacity.             *)
(***************************************************************************)
EXTENDS OfflineInbox, FiniteSetTheorems, TLAPS

USE DEF redisVars, connVars, senderVars, vars

------------------------------------------------------------------------------
(* Types *)

Stages == {"absent", "online", "leaving", "gone"}

Flushes == {"off", "lrange", "del", "deliver", "left"}

PCs == {"idle", "lookup", "deliver", "evict", "close", "rpush", "ltrim", "expire"}

\* A connection that has not identified drains nothing.  While a message is
\* being forwarded it has a pass to make, and a goroutine that has found the
\* rider's connection has it in hand.
Control ==
    /\ lastId <= events
    /\ \A c \in Conns : stage[c] = "absent" => flush[c] = "off"
    /\ \A s \in Senders :
        /\ pc[s] \in {"lookup", "deliver", "evict", "close", "rpush"} => job[s].passes # <<>>
        /\ pc[s] \in {"deliver", "evict", "close"} => target[s] \in Conns
        /\ pc[s] = "idle" => job[s] = NoJob
        /\ job[s] # NoJob => job[s].passes # <<>>

LEMMA PassesTyped ==
    \A passes \in {<<"all">>, <<"city", "all">>, <<"otherCity", "all">>} :
        passes \in Seq(Passes) /\ Len(passes) \in 1 .. 2 /\ passes # <<>>
<1> TAKE passes \in {<<"all">>, <<"city", "all">>, <<"otherCity", "all">>}
<1>1. CASE passes = <<"all">>
  BY <1>1 DEF Passes
<1>2. CASE passes = <<"city", "all">>
  BY <1>2 DEF Passes
<1>3. CASE passes = <<"otherCity", "all">>
  BY <1>3 DEF Passes
<1> QED
  BY <1>1, <1>2, <1>3

\* What is left of a job, or none
LEMMA RestTyped ==
    /\ NoJob \in Jobs
    /\ \A j \in Jobs :
        /\ Rest(j) \in Jobs
        /\ j.passes \in Seq(Passes)
        /\ j.id \in Nat
        /\ Len(j.passes) > 1 =>
            /\ Rest(j).id = j.id
            /\ Rest(j).passes = Tail(j.passes)
            /\ Rest(j).passes # <<>>
            /\ Len(Rest(j).passes) = Len(j.passes) - 1
        /\ Len(j.passes) <= 1 => Rest(j) = NoJob
<1>1. NoJob \in Jobs
  BY DEF NoJob, Jobs
<1> SUFFICES ASSUME NEW j \in Jobs
             PROVE  /\ Rest(j) \in Jobs
                    /\ j.passes \in Seq(Passes)
                    /\ j.id \in Nat
                    /\ Len(j.passes) > 1 =>
                        /\ Rest(j).id = j.id
                        /\ Rest(j).passes = Tail(j.passes)
                        /\ Rest(j).passes # <<>>
                        /\ Len(Rest(j).passes) = Len(j.passes) - 1
                    /\ Len(j.passes) <= 1 => Rest(j) = NoJob
  BY <1>1
<1>2. j = [id |-> j.id, passes |-> j.passes] /\ j.id \in Nat /\ j.passes \in Seq(Passes)
  BY DEF Jobs
<1>3. CASE Len(j.passes) > 1
  <2>1. Rest(j) = [id |-> j.id, passes |-> Tail(j.passes)]
    BY <1>2, <1>3 DEF Rest
  <2>2. Tail(j.passes) \in Seq(Passes) /\ Len(Tail(j.passes)) = Len(j.passes) - 1
    BY <1>2, <1>3
  <2>3. Tail(j.passes) # <<>>
    <3>1. Len(Tail(j.passes)) > 0
      BY <1>2, <1>3, <2>2
    <3>2. \A x : Len(x) > 0 => x # <<>>
      OBVIOUS
    <3> QED
      BY <3>1, <3>2
  <2>4. Rest(j).id = j.id /\ Rest(j).passes = Tail(j.passes)
    BY <2>1
  <2>5. Rest(j) \in Jobs
    BY <1>2, <2>1, <2>2 DEF Jobs
  <2>6. Len(Rest(j).passes) = Len(j.passes) - 1 /\ Rest(j).passes # <<>>
    BY <2>2, <2>3, <2>4
  <2> QED
    BY <1>2, <1>3, <2>4, <2>5, <2>6
<1>4. CASE Len(j.passes) <= 1
  BY <1>1, <1>2, <1>4 DEF Rest
<1> QED
  BY <1>2, <1>3, <1>4

LEMMA InitTypeOK == Init => TypeOK /\ Control
<1> SUFFICES ASSUME Init
             PROVE  TypeOK /\ Control
  OBVIOUS
<1>1. <<>> \in Seq(Nat) /\ Len(<<>>) = 0 /\ 0 \in 0 .. MaxEvents
  BY InboxBounds
<1>2. TypeOK
  <2> DEFINE S == Seq(Nat)
  <2>1. /\ inbox \in S /\ received \in S
        /\ send \in [Conns -> S] /\ drained \in [Conns -> S]
    BY <1>1 DEF Init
  <2>2. job \in [Senders -> Jobs]
    BY RestTyped DEF Init
  <2>3. \A c \in Conns : Len(send[c]) <= SendBuffer
    BY <1>1, InboxBounds DEF Init
  <2> QED
    BY <1>1, <2>1, <2>2, <2>3 DEF Init, TypeOK
<1>3. Control
  BY DEF Init, Control
<1> QED
  BY <1>2, <1>3

\* What the steps of a connection need
LEMMA ConnectionTypeOK ==
    ASSUME TypeOK, Control, NEW c \in Conns, Connection(c)
    PROVE  TypeOK' /\ Control'
<1> USE InboxNone, InboxBounds
<1>1. CASE Identify(c) \/ DrainFails(c) \/ ClientGone(c) \/ ReadFails(c) \/ Cleanup(c)
  <2>1. CASE Identify(c)
    BY <2>1 DEF TypeOK, Control, Identify
  <2>2. CASE DrainFails(c)
    BY <2>2 DEF TypeOK, Control, DrainFails, Event
  <2>3. CASE ClientGone(c)
    BY <2>3 DEF TypeOK, Control, ClientGone, Event
  <2>4. CASE ReadFails(c)
    BY <2>4 DEF TypeOK, Control, ReadFails
  <2>5. CASE Cleanup(c)
    BY <2>5 DEF TypeOK, Control, Cleanup
  <2> QED
    BY <1>1, <2>1, <2>2, <2>3, <2>4, <2>5
<1>2. CASE DrainRange(c) \/ DrainDel(c)
  <2>1. TypeOK'
    <3> DEFINE S == Seq(Nat)
    <3>1. /\ inbox \in S /\ drained \in [Conns -> S] /\ <<>> \in S
      BY DEF TypeOK
    <3> HIDE DEF S
    <3>2. inbox' \in S /\ drained' \in [Conns -> S]
      BY <1>2, <3>1 DEF DrainRange, DrainDel
    <3> USE DEF S
    <3> QED
      BY <1>2, <3>2, ZenonT(60) DEF TypeOK, DrainRange, DrainDel
  <2>2. Control'
    BY <1>2 DEF TypeOK, Control, DrainRange, DrainDel
  <2> QED
    BY <2>1, <2>2
<1>3. CASE FlushOne(c)
  <2>1. /\ drained[c] \in Seq(Nat) /\ send[c] \in Seq(Nat)
        /\ drained \in [Conns -> Seq(Nat)] /\ send \in [Conns -> Seq(Nat)]
        /\ \A d \in Conns : Len(send[d]) <= SendBuffer
    BY DEF TypeOK
  <2>2. /\ drained' \in [Conns -> Seq(Nat)] /\ send' \in [Conns -> Seq(Nat)]
        /\ \A d \in Conns : Len(send'[d]) <= SendBuffer
    <3>1. CASE drained[c] # <<>> /\ Deliverable(c)
      <4>1. /\ Append(send[c], Head(drained[c])) \in Seq(Nat)
            /\ Len(Append(send[c], Head(drained[c]))) = Len(send[c]) + 1
            /\ Tail(drained[c]) \in Seq(Nat)
        BY <2>1, <3>1
      <4>2. /\ send' = [send EXCEPT ![c] = Append(send[c], Head(drained[c]))]
            /\ drained' = [drained EXCEPT ![c] = Tail(drained[c])]
        BY <1>3, <3>1 DEF FlushOne
      <4>3. Len(send[c]) < SendBuffer /\ Len(send[c]) \in Nat
        BY <2>1, <3>1 DEF Deliverable
      <4> DEFINE S == Seq(Nat)
                 x == Append(send[c], Head(drained[c]))
                 y == Tail(drained[c])
      <4>4. x \in S /\ Len(x) <= SendBuffer /\ y \in S
        BY <4>1, <4>3
      <4> HIDE DEF S, x, y
      <4>5. send' \in [Conns -> S] /\ drained' \in [Conns -> S]
        BY <2>1, <4>2, <4>4 DEF S, x, y
      <4>6. \A d \in Conns : Len(send'[d]) <= SendBuffer
        BY <2>1, <4>2, <4>4 DEF x
      <4> QED
        BY <4>5, <4>6 DEF S
    <3>2. CASE ~(drained[c] # <<>> /\ Deliverable(c))
      <4>1. send' = send /\ drained' = [drained EXCEPT ![c] = <<>>]
        BY <1>3, <3>2 DEF FlushOne
      <4> DEFINE S == Seq(Nat)
      <4>2. <<>> \in S
        OBVIOUS
      <4> HIDE DEF S
      <4>3. drained \in [Conns -> S]
        BY <2>1 DEF S
      <4>4. drained' \in [Conns -> S]
        BY <4>1, <4>2, <4>3
      <4> QED
        BY <2>1, <4>1, <4>4 DEF S
    <3> QED
      BY <3>1, <3>2
  <2>3. flush' \in [Conns -> Flushes]
    <3>1. flush' = flush \/ flush' = [flush EXCEPT ![c] = "off"]
      BY <1>3 DEF FlushOne
    <3>2. flush \in [Conns -> Flushes] /\ "off" \in Flushes
      BY DEF TypeOK, Flushes
    <3> QED
      BY <3>1, <3>2
  <2>4. TypeOK'
    BY <1>3, <2>2, <2>3 DEF TypeOK, FlushOne, Flushes
  <2>5. Control'
    <3>1. flush[c] = "deliver" /\ UNCHANGED <<stage, pc, job, target, lastId, events>>
      BY <1>3 DEF FlushOne
    <3>2. flush' = flush \/ flush' = [flush EXCEPT ![c] = "off"]
      BY <1>3 DEF FlushOne
    <3>3. flush \in [Conns -> Flushes]
      BY DEF TypeOK, Flushes
    <3> QED
      BY <3>1, <3>2, <3>3 DEF Control
  <2> QED
    BY <2>4, <2>5
<1>4. CASE PumpWrite(c)
  <2>1. /\ send[c] \in Seq(Nat) /\ send[c] # <<>>
        /\ send \in [Conns -> Seq(Nat)] /\ received \in Seq(Nat)
        /\ \A d \in Conns : Len(send[d]) <= SendBuffer
    BY <1>4 DEF TypeOK, PumpWrite
  <2>2. /\ Tail(send[c]) \in Seq(Nat) /\ Head(send[c]) \in Nat
        /\ Len(Tail(send[c])) = Len(send[c]) - 1 /\ Len(send[c]) \in Nat
    BY <2>1
  <2>3. received' \in Seq(Nat)
    BY <1>4, <2>1, <2>2 DEF PumpWrite
  <2>4. send' = [send EXCEPT ![c] = Tail(send[c])]
    BY <1>4 DEF PumpWrite
  <2> DEFINE x == Tail(send[c])
  <2>5. x \in Seq(Nat) /\ Len(x) <= SendBuffer
    BY <2>1, <2>2
  <2> HIDE DEF x
  <2>6. send' \in [Conns -> Seq(Nat)] /\ \A d \in Conns : Len(send'[d]) <= SendBuffer
    BY <2>1, <2>4, <2>5 DEF x
  <2>7. TypeOK'
    BY <1>4, <2>3, <2>6 DEF TypeOK, PumpWrite
  <2>8. Control'
    BY <1>4 DEF Control, PumpWrite
  <2> QED
    BY <2>7, <2>8
<1>6. CASE DrainAnswerLost(c) \/ DrainLeft(c)
  <2>1. /\ inbox' = <<>> /\ ttl' = FALSE /\ flush[c] \in {"del", "left"}
        /\ flush' = [flush EXCEPT ![c] = "lrange"] \/ flush' = [flush EXCEPT ![c] = "off"]
        /\ drained' = [drained EXCEPT ![c] = <<>>] \/ drained' = drained
        /\ events' = events \/ (events < MaxEvents /\ events' = events + 1)
        /\ UNCHANGED <<entry, stage, client, send, closed, pump, received, senderVars, lastId>>
    BY <1>6 DEF DrainAnswerLost, DrainLeft, Event
  <2>2. inbox' \in Seq(Nat) /\ drained' \in [Conns -> Seq(Nat)]
    <3> DEFINE S == Seq(Nat)
    <3>1. drained \in [Conns -> S] /\ <<>> \in S
      BY DEF TypeOK
    <3> HIDE DEF S
    <3>2. inbox' \in S /\ drained' \in [Conns -> S]
      BY <2>1, <3>1
    <3> QED
      BY <3>2 DEF S
  <2>3. /\ flush' \in [Conns -> Flushes]
        /\ \A d \in Conns : stage[d] = "absent" => flush'[d] = "off"
    <3>1. flush \in [Conns -> Flushes] /\ {"lrange", "off"} \subseteq Flushes
          /\ \A d \in Conns : stage[d] = "absent" => flush[d] = "off"
      BY DEF TypeOK, Control, Flushes
    <3>2. CASE flush' = [flush EXCEPT ![c] = "lrange"]
      BY <2>1, <3>1, <3>2
    <3>3. CASE flush' = [flush EXCEPT ![c] = "off"]
      BY <3>1, <3>3
    <3> QED
      BY <2>1, <3>2, <3>3
  <2>4. events' \in 0 .. MaxEvents /\ lastId <= events'
    <3>1. events \in 0 .. MaxEvents /\ lastId <= events /\ lastId \in Nat
      BY DEF TypeOK, Control
    <3> QED
      BY <2>1, <3>1
  <2>5. ttl' \in BOOLEAN
    BY <2>1
  <2>6. TypeOK'
    BY <2>1, <2>2, <2>3, <2>4, <2>5 DEF TypeOK, Flushes
  <2>7. Control'
    BY <2>1, <2>3, <2>4 DEF Control
  <2> QED
    BY <2>6, <2>7
<1>5. CASE PumpExit(c)
  <2>1. send' \in [Conns -> Seq(Nat)] /\ \A d \in Conns : Len(send'[d]) <= SendBuffer
    <3>1. <<>> \in Seq(Nat) /\ Len(<<>>) = 0
      OBVIOUS
    <3> QED
      BY <1>5, <3>1 DEF TypeOK, PumpExit
  <2>2. TypeOK'
    BY <1>5, <2>1 DEF TypeOK, PumpExit
  <2>3. Control'
    BY <1>5 DEF Control, PumpExit
  <2> QED
    BY <2>2, <2>3
<1> QED
  BY <1>1, <1>2, <1>3, <1>4, <1>5, <1>6 DEF Connection

\* Return is typed, and leaves a goroutine with a pass to make, or idle.
LEMMA ReturnTyped ==
    ASSUME TypeOK, NEW s \in Senders, Return(s)
    PROVE  /\ job' \in [Senders -> Jobs] /\ job'[s] = Rest(job[s])
           /\ pc' \in [Senders -> PCs]
           /\ \A t \in Senders \ {s} : pc'[t] = pc[t] /\ job'[t] = job[t]
           /\ IF Len(job[s].passes) > 1
              THEN /\ pc'[s] = "lookup"
                   /\ job'[s].id = job[s].id
                   /\ job'[s].passes = Tail(job[s].passes)
                   /\ job'[s].passes # <<>>
                   /\ Len(job'[s].passes) = Len(job[s].passes) - 1
              ELSE pc'[s] = "idle" /\ job'[s] = NoJob
<1>1. job[s] \in Jobs /\ Rest(job[s]) \in Jobs /\ job \in [Senders -> Jobs]
  BY RestTyped DEF TypeOK
<1>2. job' \in [Senders -> Jobs] /\ job'[s] = Rest(job[s])
      /\ \A t \in Senders \ {s} : job'[t] = job[t]
  BY <1>1 DEF Return
<1>3. /\ pc' \in [Senders -> PCs] /\ \A t \in Senders \ {s} : pc'[t] = pc[t]
      /\ pc'[s] = IF Len(job[s].passes) > 1 THEN "lookup" ELSE "idle"
  BY DEF TypeOK, PCs, Return
<1>4. CASE Len(job[s].passes) > 1
  BY <1>1, <1>2, <1>3, <1>4, RestTyped
<1>5. CASE ~(Len(job[s].passes) > 1)
  <2>1. Len(job[s].passes) <= 1
    BY <1>1, <1>5, RestTyped
  <2> QED
    BY <1>1, <1>2, <1>3, <1>5, <2>1, RestTyped
<1> QED
  BY <1>4, <1>5

\* LTRIM keeps the tail: it is typed, capped, and empty only of an empty list.
LEMMA TrimmedTyped ==
    ASSUME NEW q \in Seq(Nat)
    PROVE  /\ Trimmed(q) \in Seq(Nat)
           /\ Len(Trimmed(q)) <= InboxCap
           /\ Len(Trimmed(q)) <= Len(q)
           /\ q # <<>> => Trimmed(q) # <<>>
<1>1. Len(q) \in Nat /\ InboxCap \in Nat /\ InboxCap >= 1
  BY InboxBounds
<1>2. CASE Len(q) > InboxCap
  <2> DEFINE x == SubSeq(q, Len(q) - InboxCap + 1, Len(q))
  <2>1. Len(q) - InboxCap + 1 \in 1 .. Len(q)
    BY <1>1, <1>2
  <2>2. x \in Seq(Nat) /\ Len(x) = InboxCap
    BY <1>1, <2>1
  <2>3. Trimmed(q) = x
    BY <1>2 DEF Trimmed
  <2>4. x # <<>>
    <3>1. \A y : Len(y) >= 1 => y # <<>>
      OBVIOUS
    <3> QED
      BY <1>1, <2>2, <3>1
  <2> HIDE DEF x
  <2> QED
    BY <1>1, <1>2, <2>2, <2>3, <2>4
<1>3. CASE ~(Len(q) > InboxCap)
  BY <1>1, <1>3 DEF Trimmed
<1> QED
  BY <1>2, <1>3

\* What the steps of a forwarding goroutine need
LEMMA ForwardingTypeOK ==
    ASSUME TypeOK, Control, NEW s \in Senders, Arrive(s) \/ Forwarding(s)
    PROVE  TypeOK' /\ Control'
<1> USE InboxNone, InboxBounds
<1>0. /\ pc \in [Senders -> PCs] /\ job \in [Senders -> Jobs] /\ job[s] \in Jobs
      /\ target \in [Senders -> Conns \cup {None}]
      /\ job[s].passes \in Seq(Passes) /\ job[s].id \in Nat
      /\ inbox \in Seq(Nat)
  BY RestTyped DEF TypeOK, PCs
<1>1. CASE Arrive(s)
  <2>1. PICK passes \in {<<"all">>, <<"city", "all">>, <<"otherCity", "all">>} :
           /\ events' = events + Len(passes)
           /\ events' <= MaxEvents
           /\ job' = [job EXCEPT ![s] = [id |-> lastId + 1, passes |-> passes]]
    BY <1>1 DEF Arrive
  <2>2. passes \in Seq(Passes) /\ Len(passes) \in 1 .. 2 /\ passes # <<>>
    BY PassesTyped
  <2>3. lastId \in Nat /\ events \in Nat /\ lastId <= events
    BY DEF TypeOK, Control
  <2>4. /\ lastId' = lastId + 1 /\ lastId' \in 0 .. MaxEvents
        /\ events' \in 0 .. MaxEvents /\ lastId' <= events'
    BY <1>1, <2>1, <2>2, <2>3 DEF Arrive
  <2> DEFINE j == [id |-> lastId + 1, passes |-> passes]
  <2>5. j \in Jobs /\ j.passes # <<>>
    BY <2>2, <2>3 DEF Jobs
  <2> HIDE DEF j
  <2>6. job' = [job EXCEPT ![s] = j]
    BY <2>1 DEF j
  <2>7. job' \in [Senders -> Jobs] /\ job'[s].passes # <<>>
        /\ \A t \in Senders \ {s} : job'[t] = job[t]
    BY <1>0, <2>5, <2>6
  <2>8. pc' = [pc EXCEPT ![s] = "lookup"] /\ pc' \in [Senders -> PCs]
    BY <1>0, <1>1 DEF Arrive, PCs
  <2>9. TypeOK'
    BY <1>1, <2>4, <2>7, <2>8 DEF TypeOK, Arrive, PCs
  <2>10. Control'
    BY <1>0, <1>1, <2>4, <2>7, <2>8 DEF Control, Arrive
  <2> QED
    BY <2>9, <2>10
<1>2. CASE Lookup(s)
  <2>1. TypeOK'
    <3>1. CASE entry = None \/ Head(job[s].passes) = "otherCity"
      BY <1>2, <3>1 DEF TypeOK, Lookup
    <3>2. CASE ~(entry = None \/ Head(job[s].passes) = "otherCity")
      BY <1>2, <3>2, ZenonT(60) DEF TypeOK, Lookup
    <3> QED
      BY <3>1, <3>2
  <2>2. Control'
    <3>1. CASE entry = None \/ Head(job[s].passes) = "otherCity"
      BY <1>0, <1>2, <3>1 DEF Control, Lookup
    <3>2. CASE ~(entry = None \/ Head(job[s].passes) = "otherCity")
      <4>1. entry \in Conns
        BY <3>2 DEF TypeOK
      <4> QED
        BY <1>0, <1>2, <3>2, <4>1 DEF Control, Lookup
    <3> QED
      BY <3>1, <3>2
  <2> QED
    BY <2>1, <2>2
<1>3. CASE Deliver(s)
  <2> DEFINE c == target[s]
  <2>1. c \in Conns
    BY <1>3 DEF Control, Deliver
  <2>2. CASE Deliverable(c)
    <3>1. /\ Return(s)
          /\ send' = [send EXCEPT ![c] = Append(send[c], job[s].id)]
          /\ target' = [target EXCEPT ![s] = None]
      BY <1>3, <2>2 DEF Deliver
    <3>2. job' \in [Senders -> Jobs] /\ pc' \in [Senders -> PCs]
      BY <3>1, ReturnTyped
    <3>3. /\ pc'[s] \in {"lookup", "idle"}
          /\ pc'[s] = "lookup" => job'[s].passes # <<>>
          /\ pc'[s] = "idle" => job'[s] = NoJob
          /\ job'[s] # NoJob => job'[s].passes # <<>>
          /\ \A t \in Senders \ {s} : pc'[t] = pc[t] /\ job'[t] = job[t]
      BY <3>1, ReturnTyped
    <3> DEFINE x == Append(send[c], job[s].id)
    <3>4. x \in Seq(Nat) /\ Len(x) <= SendBuffer
      <4>1. send[c] \in Seq(Nat) /\ Len(send[c]) < SendBuffer
        BY <2>1, <2>2 DEF TypeOK, Deliverable
      <4> QED
        BY <1>0, <4>1
    <3> HIDE DEF x
    <3>5. send' \in [Conns -> Seq(Nat)] /\ \A d \in Conns : Len(send'[d]) <= SendBuffer
      <4>1. send' = [send EXCEPT ![c] = x]
        BY <3>1 DEF x
      <4>2. send \in [Conns -> Seq(Nat)] /\ \A d \in Conns : Len(send[d]) <= SendBuffer
        BY DEF TypeOK
      <4> DEFINE S == Seq(Nat)
      <4> HIDE DEF S
      <4> QED
        BY <2>1, <3>4, <4>1, <4>2 DEF S
    <3>6. target' \in [Senders -> Conns \cup {None}]
          /\ \A t \in Senders \ {s} : target'[t] = target[t]
      BY <1>0, <3>1
    <3>7. TypeOK'
      BY <1>3, <3>2, <3>5, <3>6 DEF TypeOK, Deliver, PCs
    <3>8. Control'
      BY <1>3, <3>3, <3>6 DEF Control, Deliver
    <3> QED
      BY <3>7, <3>8
  <2>3. CASE ~Deliverable(c)
    <3>1. pc' = [pc EXCEPT ![s] = "evict"] /\ UNCHANGED <<send, target, job>>
      BY <1>3, <2>3 DEF Deliver
    <3> HIDE DEF c
    <3>2. TypeOK'
      BY <1>3, <3>1 DEF TypeOK, Deliver
    <3>3. Control'
      BY <1>0, <1>3, <3>1 DEF Control, Deliver
    <3> QED
      BY <3>2, <3>3
  <2> QED
    BY <2>2, <2>3
<1>4. CASE Evict(s)
  BY <1>4 DEF TypeOK, Control, Evict
<1>5. CASE CloseEvicted(s)
  <2>1. TypeOK'
    BY <1>5 DEF TypeOK, CloseEvicted
  <2>2. Control'
    BY <1>0, <1>5 DEF Control, CloseEvicted
  <2> QED
    BY <2>1, <2>2
<1>6. CASE EnqueuePush(s) \/ EnqueueTrim(s)
  <2>1. inbox' \in Seq(Nat)
    <3>1. CASE EnqueuePush(s)
      <4> DEFINE i == job[s].id
      <4>1. i \in Nat /\ inbox' = Append(inbox, i)
        BY <1>0, <3>1 DEF EnqueuePush
      <4> HIDE DEF i
      <4> QED
        BY <1>0, <4>1
    <3>2. CASE EnqueueTrim(s)
      BY <1>0, <3>2, TrimmedTyped DEF EnqueueTrim
    <3> QED
      BY <1>6, <3>1, <3>2
  <2>2. TypeOK'
    BY <1>6, <2>1, ZenonT(60) DEF TypeOK, EnqueuePush, EnqueueTrim
  <2>3. Control'
    BY <1>0, <1>6 DEF Control, EnqueuePush, EnqueueTrim
  <2> QED
    BY <2>2, <2>3
<1>7. CASE EnqueueExpire(s) \/ EnqueueFails(s)
  <2>1. Return(s) /\ UNCHANGED <<inbox, connVars, received, target, lastId>>
    BY <1>7 DEF EnqueueExpire, EnqueueFails
  <2>2. job' \in [Senders -> Jobs] /\ pc' \in [Senders -> PCs]
    BY <2>1, ReturnTyped
  <2>3. /\ pc'[s] \in {"lookup", "idle"}
        /\ pc'[s] = "lookup" => job'[s].passes # <<>>
        /\ pc'[s] = "idle" => job'[s] = NoJob
        /\ job'[s] # NoJob => job'[s].passes # <<>>
        /\ \A t \in Senders \ {s} : pc'[t] = pc[t] /\ job'[t] = job[t]
    BY <2>1, ReturnTyped
  <2>4. events' \in 0 .. MaxEvents /\ lastId <= events' /\ ttl' \in BOOLEAN
    <3>1. lastId \in Nat /\ events \in 0 .. MaxEvents /\ lastId <= events /\ ttl \in BOOLEAN
      BY DEF TypeOK, Control
    <3>2. CASE EnqueueExpire(s)
      <4>1. events' = events
        BY <3>2 DEF EnqueueExpire
      <4>2. ttl' = (inbox # <<>>)
        BY <3>2 DEF EnqueueExpire
      <4>3. ttl' \in BOOLEAN
        BY <4>2
      <4> QED
        BY <3>1, <4>1, <4>3
    <3>3. CASE EnqueueFails(s)
      <4>1. events < MaxEvents /\ events' = events + 1 /\ ttl' = ttl
        BY <3>3 DEF EnqueueFails, Event
      <4> QED
        BY <3>1, <4>1
    <3> QED
      BY <1>7, <3>2, <3>3
  <2>5. TypeOK'
    BY <2>1, <2>2, <2>4 DEF TypeOK, PCs
  <2>6. Control'
    BY <2>1, <2>3, <2>4 DEF Control
  <2> QED
    BY <2>5, <2>6
<1>8. CASE EnqueueAgain(s)
  <2>1. /\ pc' = [pc EXCEPT ![s] = "rpush"] /\ job[s] # NoJob /\ pc[s] = "expire"
        /\ events < MaxEvents /\ events' = events + 1
        /\ UNCHANGED <<inbox, connVars, received, job, target, lastId>>
    BY <1>8 DEF EnqueueAgain, Event
  <2>2. /\ pc' \in [Senders -> PCs] /\ pc'[s] = "rpush"
        /\ \A t \in Senders \ {s} : pc'[t] = pc[t]
    BY <1>0, <2>1 DEF PCs
  <2>3. ttl' \in BOOLEAN
    <3>1. ttl' = (inbox # <<>>)
      BY <1>8 DEF EnqueueAgain
    <3> QED
      BY <3>1
  <2>4. events' \in 0 .. MaxEvents /\ lastId <= events'
    <3>1. events \in 0 .. MaxEvents /\ lastId <= events /\ lastId \in Nat
      BY DEF TypeOK, Control
    <3> QED
      BY <2>1, <3>1
  <2>5. TypeOK'
    BY <2>1, <2>2, <2>3, <2>4 DEF TypeOK, PCs
  <2>6. Control'
    BY <2>1, <2>2, <2>4 DEF Control
  <2> QED
    BY <2>5, <2>6
<1> QED
  BY <1>1, <1>2, <1>3, <1>4, <1>5, <1>6, <1>7, <1>8 DEF Forwarding

\* Every step preserves the types and the control points.
LEMMA NextTypeOK == TypeOK /\ Control /\ [Next]_vars => TypeOK' /\ Control'
<1> SUFFICES ASSUME TypeOK, Control, [Next]_vars
             PROVE  TypeOK' /\ Control'
  OBVIOUS
<1> USE InboxNone, InboxBounds
<1>1. CASE \E c \in Conns : Connection(c)
  BY <1>1, ConnectionTypeOK
<1>2. CASE \E s \in Senders : Arrive(s) \/ Forwarding(s)
  BY <1>2, ForwardingTypeOK
<1>3. CASE InboxExpires
  <2>1. inbox' = <<>> /\ ttl' = FALSE
    BY <1>3 DEF InboxExpires
  <2>2. inbox' \in Seq(Nat)
    BY <2>1
  <2>3. ttl' \in BOOLEAN
    BY <2>1
  <2>4. TypeOK'
    BY <1>3, <2>2, <2>3 DEF TypeOK, InboxExpires, Event
  <2>5. Control'
    BY <1>3 DEF TypeOK, Control, InboxExpires, Event
  <2> QED
    BY <2>4, <2>5
<1>4. CASE Crash
  <2>1. job' \in [Senders -> Jobs]
    BY <1>4, RestTyped DEF Crash
  <2>2. send' \in [Conns -> Seq(Nat)] /\ drained' \in [Conns -> Seq(Nat)]
    <3> DEFINE S == Seq(Nat)
    <3>1. <<>> \in S
      OBVIOUS
    <3> HIDE DEF S
    <3>2. send' \in [Conns -> S] /\ drained' \in [Conns -> S]
      BY <1>4, <3>1 DEF Crash
    <3> QED
      BY <3>2 DEF S
  <2>3. \A c \in Conns : Len(send'[c]) <= SendBuffer
    <3>1. Len(<<>>) = 0
      OBVIOUS
    <3> QED
      BY <1>4, <3>1 DEF Crash
  <2>4. /\ stage' \in [Conns -> Stages] /\ pump' \in [Conns -> {"run", "done"}]
        /\ flush' \in [Conns -> Flushes] /\ closed' \in [Conns -> BOOLEAN]
    BY <1>4 DEF Crash, TypeOK, Stages, Flushes
  <2>5. pc' \in [Senders -> PCs] /\ target' \in [Senders -> Conns \cup {None}]
    BY <1>4 DEF Crash, TypeOK, PCs
  <2>6. TypeOK'
    BY <1>4, <2>1, <2>2, <2>3, <2>4, <2>5
    DEF TypeOK, Crash, Event, Stages, Flushes, PCs
  <2>7. Control'
    BY <1>4 DEF TypeOK, Control, Crash, Event
  <2> QED
    BY <2>6, <2>7
<1>5. CASE UNCHANGED vars
  BY <1>5 DEF TypeOK, Control
<1> QED
  BY <1>1, <1>2, <1>3, <1>4, <1>5 DEF Next

\* Every variable keeps its type, for every number of connections and senders
\* and every capacity, and a goroutine that forwards a message has a pass to
\* make and, from the lookup on, a connection in hand.
THEOREM TypeCorrect == Spec => [](TypeOK /\ Control)
<1>1. Init => TypeOK /\ Control
  BY InitTypeOK
<1>2. (TypeOK /\ Control) /\ [Next]_vars => (TypeOK /\ Control)'
  BY NextTypeOK
<1> QED
  BY <1>1, <1>2, PTL DEF Spec

------------------------------------------------------------------------------
(* The inbox *)

\* The goroutines that have pushed a message and have not trimmed the inbox yet
Trimming == {s \in Senders : pc[s] = "ltrim"}

\* What a step may do to the inbox, its time to live, and the pipelines that
\* Redis is executing: empty it; run RPUSH, LTRIM or EXPIRE; or touch none.
LEMMA InboxSteps ==
    ASSUME TypeOK, Control, [Next]_vars
    PROVE  \/ inbox' = <<>> /\ UNCHANGED pc
           \/ \E s \in Senders :
               /\ pc[s] = "rpush"
               /\ pc' = [pc EXCEPT ![s] = "ltrim"]
               /\ inbox' = Append(inbox, job[s].id)
           \/ \E s \in Senders :
               /\ pc[s] = "ltrim"
               /\ pc' = [pc EXCEPT ![s] = "expire"]
               /\ inbox' = Trimmed(inbox)
           \/ /\ inbox' = inbox
              /\ ttl' = (inbox # <<>>)
              /\ \A s \in Senders : pc'[s] = "ltrim" <=> pc[s] = "ltrim"
           \/ /\ inbox' = inbox
              /\ ttl' = ttl
              /\ \A s \in Senders :
                  /\ pc'[s] = "ltrim" <=> pc[s] = "ltrim"
                  /\ pc'[s] = "expire" <=> pc[s] = "expire"
<1> DEFINE Still == /\ inbox' = inbox
                    /\ ttl' = ttl
                    /\ \A s \in Senders :
                        /\ pc'[s] = "ltrim" <=> pc[s] = "ltrim"
                        /\ pc'[s] = "expire" <=> pc[s] = "expire"
<1>0. pc \in [Senders -> PCs]
  BY DEF TypeOK, PCs
<1>1. ASSUME NEW c \in Conns, Connection(c)
      PROVE  (inbox' = <<>> /\ UNCHANGED pc) \/ Still
  BY <1>1 DEF Connection, Identify, DrainRange, DrainDel, DrainAnswerLost, DrainLeft, DrainFails,
              FlushOne, PumpWrite,
              PumpExit, ClientGone, ReadFails, Cleanup
<1>2. ASSUME NEW s \in Senders, Arrive(s) \/ Lookup(s) \/ Evict(s) \/ CloseEvicted(s)
      PROVE  Still
  <2>1. CASE Arrive(s)
    BY <1>0, <2>1 DEF Arrive
  <2>2. CASE Lookup(s)
    <3>1. /\ UNCHANGED redisVars /\ pc[s] = "lookup"
          /\ pc' = [pc EXCEPT ![s] = "rpush"] \/ pc' = [pc EXCEPT ![s] = "deliver"]
      BY <2>2 DEF Lookup
    <3> QED
      BY <1>0, <3>1
  <2>3. CASE Evict(s)
    BY <1>0, <2>3 DEF Evict
  <2>4. CASE CloseEvicted(s)
    BY <1>0, <2>4 DEF CloseEvicted
  <2> QED
    BY <1>2, <2>1, <2>2, <2>3, <2>4
<1>3. ASSUME NEW s \in Senders, Deliver(s)
      PROVE  Still
  <2>1. UNCHANGED redisVars /\ pc[s] = "deliver"
    BY <1>3 DEF Deliver
  <2>2. CASE Return(s)
    <3>1. pc'[s] \in {"lookup", "idle"} /\ \A t \in Senders \ {s} : pc'[t] = pc[t]
      BY <2>2, ReturnTyped
    <3> QED
      BY <2>1, <3>1
  <2>3. CASE pc' = [pc EXCEPT ![s] = "evict"]
    BY <1>0, <2>1, <2>3
  <2> QED
    BY <1>3, <2>2, <2>3 DEF Deliver
<1>4. ASSUME NEW s \in Senders, EnqueueFails(s)
      PROVE  Still
  <2>1. UNCHANGED redisVars /\ pc[s] = "rpush" /\ Return(s)
    BY <1>4 DEF EnqueueFails
  <2>2. pc'[s] \in {"lookup", "idle"} /\ \A t \in Senders \ {s} : pc'[t] = pc[t]
    BY <2>1, ReturnTyped
  <2> QED
    BY <2>1, <2>2
<1>5. ASSUME NEW s \in Senders, EnqueueExpire(s)
      PROVE  /\ inbox' = inbox
             /\ ttl' = (inbox # <<>>)
             /\ \A t \in Senders : pc'[t] = "ltrim" <=> pc[t] = "ltrim"
  <2>1. UNCHANGED inbox /\ ttl' = (inbox # <<>>) /\ pc[s] = "expire" /\ Return(s)
    BY <1>5 DEF EnqueueExpire
  <2>2. pc'[s] \in {"lookup", "idle"} /\ \A t \in Senders \ {s} : pc'[t] = pc[t]
    BY <2>1, ReturnTyped
  <2> QED
    BY <2>1, <2>2
<1>12. ASSUME NEW s \in Senders, EnqueueAgain(s)
      PROVE  /\ inbox' = inbox
             /\ ttl' = (inbox # <<>>)
             /\ \A t \in Senders : pc'[t] = "ltrim" <=> pc[t] = "ltrim"
  <2>1. /\ UNCHANGED inbox /\ ttl' = (inbox # <<>>) /\ pc[s] = "expire"
        /\ pc' = [pc EXCEPT ![s] = "rpush"]
    BY <1>12 DEF EnqueueAgain
  <2>2. pc'[s] = "rpush" /\ \A t \in Senders \ {s} : pc'[t] = pc[t]
    BY <1>0, <2>1
  <2> QED
    BY <2>1, <2>2
<1>6. ASSUME InboxExpires
      PROVE  inbox' = <<>> /\ UNCHANGED pc
  BY <1>6 DEF InboxExpires
<1>7. ASSUME Crash \/ UNCHANGED vars
      PROVE  Still
  BY <1>0, <1>7 DEF Crash
<1>8. ASSUME NEW s \in Senders, EnqueuePush(s)
      PROVE  /\ pc[s] = "rpush"
             /\ pc' = [pc EXCEPT ![s] = "ltrim"]
             /\ inbox' = Append(inbox, job[s].id)
  BY <1>8 DEF EnqueuePush
<1>9. ASSUME NEW s \in Senders, EnqueueTrim(s)
      PROVE  /\ pc[s] = "ltrim"
             /\ pc' = [pc EXCEPT ![s] = "expire"]
             /\ inbox' = Trimmed(inbox)
  BY <1>9 DEF EnqueueTrim
<1>10. CASE \E c \in Conns : Connection(c)
  BY <1>1, <1>10
<1>11. CASE \E s \in Senders : Arrive(s) \/ Forwarding(s)
  <2>1. PICK s \in Senders : Arrive(s) \/ Forwarding(s)
    BY <1>11
  <2> QED
    BY <1>2, <1>3, <1>4, <1>5, <1>8, <1>9, <1>12, <2>1 DEF Forwarding
<1> QED
  BY <1>6, <1>7, <1>10, <1>11 DEF Next

\* A step keeps the inbox within its cap and the enqueues that have to trim it.
LEMMA InboxBoundedNext ==
    ASSUME TypeOK, Control, InboxBounded, [Next]_vars
    PROVE  InboxBounded'
<1> DEFINE T == Trimming
           U == {s \in Senders : pc'[s] = "ltrim"}
<1>1. /\ IsFiniteSet(T) /\ Cardinality(T) \in Nat
      /\ IsFiniteSet(U) /\ Cardinality(U) \in Nat
  <2>1. T \subseteq Senders /\ U \subseteq Senders /\ IsFiniteSet(Senders)
    BY InboxFinite DEF Trimming
  <2> QED
    BY <2>1, FS_Subset, FS_CardinalityType
<1>2. /\ inbox \in Seq(Nat) /\ Len(inbox) <= InboxCap + Cardinality(T)
      /\ pc \in [Senders -> PCs] /\ InboxCap \in Nat
  BY InboxBounds DEF TypeOK, PCs, InboxBounded, Trimming
<1> SUFFICES Len(inbox') <= InboxCap + Cardinality(U)
  BY DEF InboxBounded
<1>3. CASE inbox' = <<>> /\ UNCHANGED pc
  BY <1>1, <1>2, <1>3
<1>4. CASE \E s \in Senders :
            /\ pc[s] = "rpush"
            /\ pc' = [pc EXCEPT ![s] = "ltrim"]
            /\ inbox' = Append(inbox, job[s].id)
  <2>1. PICK s \in Senders :
            /\ pc[s] = "rpush"
            /\ pc' = [pc EXCEPT ![s] = "ltrim"]
            /\ inbox' = Append(inbox, job[s].id)
    BY <1>4
  <2>2. U = T \cup {s} /\ s \notin T
    BY <1>2, <2>1 DEF Trimming
  <2> HIDE DEF T, U
  <2>3. Cardinality(U) = Cardinality(T) + 1
    BY <1>1, <2>2, FS_AddElement
  <2>4. Len(inbox') = Len(inbox) + 1
    <3> DEFINE i == job[s].id
    <3>1. i \in Nat /\ inbox' = Append(inbox, i)
      BY <2>1, RestTyped DEF TypeOK
    <3> HIDE DEF i
    <3> QED
      BY <1>2, <3>1
  <2> QED
    BY <1>1, <1>2, <2>3, <2>4
<1>5. CASE \E s \in Senders :
            /\ pc[s] = "ltrim"
            /\ pc' = [pc EXCEPT ![s] = "expire"]
            /\ inbox' = Trimmed(inbox)
  <2>1. Len(inbox') <= InboxCap /\ Len(inbox') \in Nat
    BY <1>2, <1>5, TrimmedTyped
  <2> HIDE DEF U
  <2> QED
    BY <1>1, <1>2, <2>1
<1>6. CASE inbox' = inbox /\ \A s \in Senders : pc'[s] = "ltrim" <=> pc[s] = "ltrim"
  <2>1. T = U
    BY <1>6 DEF Trimming
  <2> QED
    BY <1>2, <1>6, <2>1
<1> QED
  BY <1>3, <1>4, <1>5, <1>6, InboxSteps

\* The inbox of a rider never exceeds maxInboxLen by more than the pipelines
\* that Redis has begun and not trimmed, however enqueues interleave.
THEOREM InboxBoundedAlways == Spec => []InboxBounded
<1>1. Init => InboxBounded
  <2>1. IsFiniteSet(Trimming)
    <3>1. Trimming \subseteq Senders
      BY DEF Trimming
    <3> QED
      BY <3>1, InboxFinite, FS_Subset
  <2>2. Cardinality(Trimming) \in Nat
    BY <2>1, FS_CardinalityType
  <2> SUFFICES ASSUME Init
               PROVE  Len(inbox) <= InboxCap + Cardinality(Trimming)
    BY DEF InboxBounded, Trimming
  <2>3. Len(inbox) = 0
    BY DEF Init
  <2> QED
    BY <2>2, <2>3, InboxBounds
<1>2. (TypeOK /\ Control) /\ InboxBounded /\ [Next]_vars => InboxBounded'
  BY InboxBoundedNext
<1> QED
  BY <1>1, <1>2, TypeCorrect, PTL DEF Spec

\* A step never leaves a stored message without a time to live.
LEMMA ExpiryArmedNext ==
    ASSUME TypeOK, Control, ExpiryArmed, [Next]_vars
    PROVE  ExpiryArmed'
<1>0. inbox \in Seq(Nat) /\ pc \in [Senders -> PCs]
  BY DEF TypeOK, PCs
<1> SUFFICES ASSUME inbox' # <<>>
             PROVE  ttl' \/ \E s \in Senders : pc'[s] \in {"ltrim", "expire"}
  BY DEF ExpiryArmed
<1>1. CASE \E s \in Senders :
            /\ pc[s] = "rpush"
            /\ pc' = [pc EXCEPT ![s] = "ltrim"]
            /\ inbox' = Append(inbox, job[s].id)
  BY <1>0, <1>1
<1>2. CASE \E s \in Senders :
            /\ pc[s] = "ltrim"
            /\ pc' = [pc EXCEPT ![s] = "expire"]
            /\ inbox' = Trimmed(inbox)
  BY <1>0, <1>2
<1>3. CASE inbox' = inbox /\ ttl' = (inbox # <<>>)
  BY <1>3
<1>4. CASE /\ inbox' = inbox
           /\ ttl' = ttl
           /\ \A s \in Senders :
               /\ pc'[s] = "ltrim" <=> pc[s] = "ltrim"
               /\ pc'[s] = "expire" <=> pc[s] = "expire"
  <2>1. ttl \/ \E s \in Senders : pc[s] \in {"ltrim", "expire"}
    BY <1>4 DEF ExpiryArmed
  <2>2. CASE ttl
    BY <1>4, <2>2
  <2>3. CASE \E s \in Senders : pc[s] \in {"ltrim", "expire"}
    BY <1>4, <2>3
  <2> QED
    BY <2>1, <2>2, <2>3
<1> QED
  BY <1>1, <1>2, <1>3, <1>4, InboxSteps

\* A stored message has a time to live or an EXPIRE on its way, however
\* enqueues, drains and crashes interleave: no inbox is kept for ever.
THEOREM ExpiryArmedAlways == Spec => []ExpiryArmed
<1>1. Init => ExpiryArmed
  BY DEF Init, ExpiryArmed
<1>2. (TypeOK /\ Control) /\ ExpiryArmed /\ [Next]_vars => ExpiryArmed'
  BY ExpiryArmedNext
<1> QED
  BY <1>1, <1>2, TypeCorrect, PTL DEF Spec

------------------------------------------------------------------------------
(* Losses *)

LEMMA ToSetSteps ==
    ASSUME NEW q \in Seq(Nat)
    PROVE  /\ \A x \in Nat : ToSet(Append(q, x)) = ToSet(q) \cup {x}
           /\ q # <<>> => ToSet(q) = ToSet(Tail(q)) \cup {Head(q)}
           /\ ToSet(<<>>) = {}
<1>1. ASSUME NEW x \in Nat
      PROVE  ToSet(Append(q, x)) = ToSet(q) \cup {x}
  <2> DEFINE r == Append(q, x)
  <2>1. /\ DOMAIN r = DOMAIN q \cup {Len(q) + 1}
        /\ r[Len(q) + 1] = x /\ \A i \in DOMAIN q : r[i] = q[i]
    OBVIOUS
  <2> HIDE DEF r
  <2>2. ToSet(r) = ToSet(q) \cup {x}
    BY <2>1 DEF ToSet
  <2> QED
    BY <2>2 DEF r
<1>2. ASSUME q # <<>>
      PROVE  ToSet(q) = ToSet(Tail(q)) \cup {Head(q)}
  <2> DEFINE r == Tail(q)
             n == Len(q)
  <2>1. /\ n \in Nat \ {0} /\ DOMAIN q = 1 .. n /\ DOMAIN r = 1 .. n - 1
        /\ Head(q) = q[1] /\ \A i \in 1 .. n - 1 : r[i] = q[i + 1]
    BY <1>2
  <2>2. ASSUME NEW x \in ToSet(q)
        PROVE  x \in ToSet(r) \cup {q[1]}
    <3>1. PICK i \in 1 .. n : x = q[i]
      BY <2>1 DEF ToSet
    <3>2. CASE i = 1
      BY <3>1, <3>2
    <3>3. CASE i # 1
      <4>1. i - 1 \in 1 .. n - 1 /\ r[i - 1] = x
        BY <2>1, <3>1, <3>3
      <4> QED
        BY <2>1, <4>1 DEF ToSet
    <3> QED
      BY <3>2, <3>3
  <2>3. ASSUME NEW x \in ToSet(r) \cup {q[1]}
        PROVE  x \in ToSet(q)
    <3>1. CASE x = q[1]
      BY <2>1, <3>1 DEF ToSet
    <3>2. CASE x \in ToSet(r)
      <4>1. PICK i \in 1 .. n - 1 : x = r[i]
        BY <2>1, <3>2 DEF ToSet
      <4>2. i + 1 \in 1 .. n /\ q[i + 1] = x
        BY <2>1, <4>1
      <4> QED
        BY <2>1, <4>2 DEF ToSet
    <3> QED
      BY <2>3, <3>1, <3>2
  <2> HIDE DEF r, n
  <2>4. ToSet(q) = ToSet(r) \cup {q[1]}
    BY <2>2, <2>3
  <2> QED
    BY <2>1, <2>4 DEF r
<1>3. ToSet(<<>>) = {}
  BY DEF ToSet
<1> QED
  BY <1>1, <1>2, <1>3

\* The explanations of LossExplained
Lost(m) ==
    \/ \E s \in Senders : EnqueueTrim(s) /\ m \notin ToSet(Trimmed(inbox))
    \/ \E c \in Conns : DrainDel(c) /\ m \notin ToSet(drained[c])
    \/ \E c \in Conns : DrainAnswerLost(c) \/ DrainLeft(c)
    \/ \E c \in Conns : FlushOne(c) /\ ~Deliverable(c) /\ m \in ToSet(drained[c])
    \/ \E c \in Conns : /\ PumpWrite(c) \/ PumpExit(c)
                        /\ client[c] = "gone" /\ m \in ToSet(send[c])
    \/ \E s \in Senders : EnqueueFails(s) /\ job[s].id = m
    \/ InboxExpires \/ Crash

LEMMA ConnectionLoss ==
    ASSUME TypeOK, Control, NEW m, Held(m), NEW c \in Conns, Connection(c)
    PROVE  Held(m)' \/ Lost(m)
<1>0. /\ flush \in [Conns -> Flushes] /\ events \in Nat
      /\ drained \in [Conns -> Seq(Nat)] /\ send \in [Conns -> Seq(Nat)]
      /\ received \in Seq(Nat)
      /\ client \in [Conns -> {"up", "gone"}]
      /\ stage[c] = "absent" => flush[c] = "off"
  BY DEF TypeOK, Control, Flushes
<1>1. CASE Identify(c)
  BY <1>0, <1>1 DEF Held, Identify
<1>2. CASE DrainRange(c)
  BY <1>0, <1>2 DEF Held, DrainRange
<1>3. CASE DrainDel(c)
  BY <1>0, <1>3 DEF Held, Lost, DrainDel
<1>4. CASE DrainFails(c) \/ ClientGone(c)
  BY <1>0, <1>4 DEF Held, DrainFails, ClientGone
<1>9. CASE DrainAnswerLost(c) \/ DrainLeft(c)
  BY <1>9 DEF Lost
<1>5. CASE FlushOne(c)
  <2> DEFINE d == drained[c]
  <2>0. d \in Seq(Nat) /\ send[c] \in Seq(Nat) /\ flush[c] = "deliver"
        /\ UNCHANGED <<inbox, received, pc, job>>
    BY <1>0, <1>5 DEF FlushOne
  <2>1. CASE d # <<>> /\ Deliverable(c)
    <3>1. /\ send' = [send EXCEPT ![c] = Append(send[c], Head(d))]
          /\ drained' = [drained EXCEPT ![c] = Tail(d)]
          /\ flush' = flush
      BY <1>5, <2>1 DEF FlushOne
    <3>2. /\ ToSet(send'[c]) = ToSet(send[c]) \cup {Head(d)}
          /\ ToSet(d) = ToSet(drained'[c]) \cup {Head(d)}
      <4>1. Head(d) \in Nat
        BY <2>0, <2>1
      <4>2. send'[c] = Append(send[c], Head(d)) /\ drained'[c] = Tail(d)
        BY <1>0, <3>1
      <4> HIDE DEF d
      <4> QED
        BY <2>0, <2>1, <4>1, <4>2, ToSetSteps
    <3>3. \A e \in Conns \ {c} : send'[e] = send[e] /\ drained'[e] = drained[e]
      BY <1>0, <3>1
    <3> QED
      BY <2>0, <3>1, <3>2, <3>3 DEF Held
  <2>2. CASE ~(d # <<>> /\ Deliverable(c))
    <3>1. /\ send' = send
          /\ \A e \in Conns \ {c} : drained'[e] = drained[e] /\ flush'[e] = flush[e]
      BY <1>0, <1>5, <2>2 DEF FlushOne
    <3>2. m \in ToSet(d) => Lost(m)
      <4>1. m \in ToSet(d) => d # <<>>
        BY <2>0, ToSetSteps
      <4> QED
        BY <1>5, <2>0, <2>2, <4>1 DEF Lost
    <3> QED
      BY <2>0, <3>1, <3>2 DEF Held
  <2> QED
    BY <2>1, <2>2
<1>6. CASE PumpWrite(c)
  <2> DEFINE h == Head(send[c])
             r == Tail(send[c])
  <2>1. /\ send[c] \in Seq(Nat) /\ send[c] # <<>>
        /\ UNCHANGED <<inbox, drained, flush, pc, job>>
        /\ send' = [send EXCEPT ![c] = r]
        /\ received' = IF client[c] = "up" THEN Append(received, h) ELSE received
    BY <1>0, <1>6 DEF PumpWrite
  <2>2. h \in Nat /\ ToSet(send[c]) = ToSet(r) \cup {h}
    BY <2>1, ToSetSteps
  <2> HIDE DEF h, r
  <2>3. ToSet(send'[c]) = ToSet(r) /\ \A e \in Conns \ {c} : send'[e] = send[e]
    BY <1>0, <2>1
  <2>4. CASE client[c] = "up"
    <3>1. ToSet(received') = ToSet(received) \cup {h}
      BY <1>0, <2>1, <2>2, <2>4, ToSetSteps
    <3> QED
      BY <2>1, <2>2, <2>3, <3>1 DEF Held
  <2>5. CASE client[c] = "gone"
    <3>1. received' = received
      BY <2>1, <2>5
    <3>2. m \in ToSet(send[c]) => Lost(m)
      BY <1>6, <2>5 DEF Lost
    <3> QED
      BY <2>1, <2>2, <2>3, <3>1, <3>2 DEF Held
  <2> QED
    BY <1>0, <2>4, <2>5
<1>7. CASE PumpExit(c)
  BY <1>0, <1>7, ToSetSteps DEF Held, Lost, PumpExit
<1>8. CASE ReadFails(c) \/ Cleanup(c)
  BY <1>8 DEF Held, ReadFails, Cleanup
<1> QED
  BY <1>1, <1>2, <1>3, <1>4, <1>5, <1>6, <1>7, <1>8, <1>9 DEF Connection

LEMMA ForwardingLoss ==
    ASSUME TypeOK, Control, NEW m \in 1 .. lastId, Held(m),
           NEW s \in Senders, Arrive(s) \/ Forwarding(s)
    PROVE  Held(m)' \/ Lost(m)
<1>0. /\ pc \in [Senders -> PCs] /\ job \in [Senders -> Jobs] /\ job[s] \in Jobs
      /\ job[s].passes \in Seq(Passes) /\ job[s].id \in Nat
      /\ target \in [Senders -> Conns \cup {None}]
      /\ send \in [Conns -> Seq(Nat)] /\ inbox \in Seq(Nat) /\ events \in Nat
  BY RestTyped DEF TypeOK, PCs
<1>1. CASE Arrive(s)
  <2>1. /\ UNCHANGED <<inbox, send, flush, drained, received>>
        /\ pc[s] = "idle" /\ pc' = [pc EXCEPT ![s] = "lookup"]
        /\ \E j : job' = [job EXCEPT ![s] = j]
    BY <1>1 DEF Arrive
  <2>2. \A t \in Senders \ {s} : pc'[t] = pc[t] /\ job'[t] = job[t]
    BY <1>0, <2>1
  <2>3. job[s].id = 0 /\ m # 0
    BY <2>1 DEF Control, NoJob
  <2> QED
    BY <2>1, <2>2, <2>3 DEF Held
<1>2. CASE Lookup(s) \/ Evict(s) \/ CloseEvicted(s)
  <2>1. /\ UNCHANGED <<inbox, send, flush, drained, received, job>>
        /\ pc[s] \in {"lookup", "evict", "close"}
        /\ \E p \in {"rpush", "deliver", "close"} : pc' = [pc EXCEPT ![s] = p]
    BY <1>2 DEF Lookup, Evict, CloseEvicted
  <2>2. pc'[s] \notin {"ltrim", "expire"} /\ \A t \in Senders \ {s} : pc'[t] = pc[t]
    BY <1>0, <2>1
  <2> QED
    BY <2>1, <2>2 DEF Held
<1>3. CASE Deliver(s)
  <2> DEFINE c == target[s]
  <2>1. c \in Conns /\ UNCHANGED <<inbox, flush, drained, received>> /\ pc[s] = "deliver"
    BY <1>3 DEF Control, Deliver
  <2>2. CASE Deliverable(c)
    <3>1. Return(s) /\ send' = [send EXCEPT ![c] = Append(send[c], job[s].id)]
      BY <1>3, <2>2 DEF Deliver
    <3>2. \A t \in Senders \ {s} : pc'[t] = pc[t] /\ job'[t] = job[t]
      BY <3>1, ReturnTyped
    <3>3. /\ ToSet(send'[c]) = ToSet(send[c]) \cup {job[s].id}
          /\ \A e \in Conns \ {c} : send'[e] = send[e]
      <4> DEFINE i == job[s].id
                 q == send[c]
      <4>1. i \in Nat /\ q \in Seq(Nat) /\ send' = [send EXCEPT ![c] = Append(q, i)]
        BY <1>0, <2>1, <3>1
      <4> HIDE DEF i, q
      <4>2. ToSet(Append(q, i)) = ToSet(q) \cup {i}
        BY <4>1, ToSetSteps
      <4> HIDE DEF c
      <4> QED
        BY <1>0, <2>1, <4>1, <4>2 DEF i, q
    <3> HIDE DEF c
    <3> QED
      BY <2>1, <3>2, <3>3 DEF Held
  <2>3. CASE ~Deliverable(c)
    <3>1. pc' = [pc EXCEPT ![s] = "evict"] /\ UNCHANGED <<send, job>>
      BY <1>3, <2>3 DEF Deliver
    <3>2. pc'[s] = "evict" /\ \A t \in Senders \ {s} : pc'[t] = pc[t]
      BY <1>0, <3>1
    <3> QED
      BY <2>1, <3>1, <3>2 DEF Held
  <2> QED
    BY <2>2, <2>3
<1>4. CASE EnqueuePush(s)
  <2> DEFINE i == job[s].id
  <2>1. /\ UNCHANGED <<send, flush, drained, received, job>>
        /\ i \in Nat /\ inbox' = Append(inbox, i)
        /\ \A t \in Senders \ {s} : pc'[t] = pc[t]
    BY <1>0, <1>4 DEF EnqueuePush
  <2> HIDE DEF i
  <2>2. ToSet(inbox') = ToSet(inbox) \cup {i}
    BY <1>0, <2>1, ToSetSteps
  <2> USE DEF i
  <2> QED
    BY <2>1, <2>2 DEF Held
<1>5. CASE EnqueueTrim(s)
  <2>1. /\ UNCHANGED <<send, flush, drained, received, job>>
        /\ inbox' = Trimmed(inbox) /\ pc[s] = "ltrim" /\ pc'[s] = "expire"
        /\ \A t \in Senders \ {s} : pc'[t] = pc[t]
    BY <1>0, <1>5 DEF EnqueueTrim
  <2>2. m \in ToSet(inbox) => m \in ToSet(inbox') \/ Lost(m)
    BY <1>5, <2>1 DEF Lost
  <2> QED
    BY <2>1, <2>2 DEF Held
<1>6. CASE EnqueueExpire(s)
  <2>1. /\ UNCHANGED <<inbox, send, flush, drained, received>>
        /\ pc[s] = "expire" /\ Return(s)
    BY <1>6 DEF EnqueueExpire
  <2>2. \A t \in Senders \ {s} : pc'[t] = pc[t] /\ job'[t] = job[t]
    BY <2>1, ReturnTyped
  <2>3. CASE Len(job[s].passes) > 1
    <3>1. pc'[s] = "lookup" /\ job'[s].id = job[s].id
      BY <2>1, <2>3, ReturnTyped
    <3> QED
      BY <2>1, <2>2, <3>1 DEF Held
  <2>4. CASE ~(Len(job[s].passes) > 1)
    BY <2>1, <2>2, <2>4 DEF Held
  <2> QED
    BY <2>3, <2>4
<1>7. CASE EnqueueFails(s)
  <2>1. UNCHANGED <<inbox, send, flush, drained, received>> /\ Return(s)
    BY <1>7 DEF EnqueueFails
  <2>2. \A t \in Senders \ {s} : pc'[t] = pc[t] /\ job'[t] = job[t]
    BY <2>1, ReturnTyped
  <2>3. CASE job[s].id = m
    BY <1>7, <2>3 DEF Lost
  <2>4. CASE job[s].id # m
    BY <2>1, <2>2, <2>4 DEF Held
  <2> QED
    BY <2>3, <2>4
<1>8. CASE EnqueueAgain(s)
  <2>1. /\ UNCHANGED <<inbox, send, flush, drained, received, job>>
        /\ pc' = [pc EXCEPT ![s] = "rpush"]
    BY <1>8 DEF EnqueueAgain
  <2>2. pc'[s] = "rpush" /\ \A t \in Senders \ {s} : pc'[t] = pc[t]
    BY <1>0, <2>1
  <2> QED
    BY <2>1, <2>2 DEF Held
<1> QED
  BY <1>1, <1>2, <1>3, <1>4, <1>5, <1>6, <1>7, <1>8 DEF Forwarding

\* A step that loses the last copy of a message is one of those.
LEMMA LossStep ==
    ASSUME TypeOK, Control, [Next]_vars, NEW m \in 1 .. lastId, Held(m), ~Held(m)'
    PROVE  Lost(m)
<1>1. CASE \E c \in Conns : Connection(c)
  BY <1>1, ConnectionLoss
<1>2. CASE \E s \in Senders : Arrive(s) \/ Forwarding(s)
  BY <1>2, ForwardingLoss
<1>3. CASE InboxExpires \/ Crash
  BY <1>3 DEF Lost
<1>4. CASE UNCHANGED vars
  BY <1>4 DEF Held
<1> QED
  BY <1>1, <1>2, <1>3, <1>4 DEF Next

\* The last copy of a message addressed to the rider is lost only by LTRIM, by a
\* drain (the gap between LRANGE and DEL, a lost answer, a crash), by flushInbox
\* giving up, in the buffer of a rider that is gone, or by an enqueue that fails,
\* the expiry or a crash: eviction, clean-up and returning connections lose
\* nothing.
THEOREM LossExplainedAlways == Spec => LossExplained
<1> DEFINE Step == \A m \in 1 .. lastId : Held(m) /\ ~Held(m)' =>
        \/ \E s \in Senders : EnqueueTrim(s) /\ m \notin ToSet(Trimmed(inbox))
        \/ \E c \in Conns : DrainDel(c) /\ m \notin ToSet(drained[c])
        \/ \E c \in Conns : DrainAnswerLost(c) \/ DrainLeft(c)
        \/ \E c \in Conns : FlushOne(c) /\ ~Deliverable(c) /\ m \in ToSet(drained[c])
        \/ \E c \in Conns : /\ PumpWrite(c) \/ PumpExit(c)
                            /\ client[c] = "gone" /\ m \in ToSet(send[c])
        \/ \E s \in Senders : EnqueueFails(s) /\ job[s].id = m
        \/ InboxExpires \/ Crash
<1>1. TypeOK /\ Control /\ [Next]_vars => [Step]_vars
  <2> SUFFICES ASSUME TypeOK, Control, [Next]_vars
               PROVE  Step
    OBVIOUS
  <2> SUFFICES ASSUME NEW m \in 1 .. lastId, Held(m), ~Held(m)'
               PROVE  Lost(m)
    BY DEF Lost
  <2> QED
    BY LossStep
<1> QED
  BY <1>1, TypeCorrect, PTL DEF Spec, LossExplained

------------------------------------------------------------------------------
(* Copies *)

\* The positions of a message in a list: how many there are, and how the list
\* operations of the code change their number.
LEMMA AtFinite ==
    ASSUME NEW m, NEW q \in Seq(Nat)
    PROVE  At(m, q) \subseteq 1 .. Len(q) /\ IsFiniteSet(At(m, q)) /\ Cardinality(At(m, q)) \in Nat
<1>1. At(m, q) \subseteq 1 .. Len(q) /\ 1 \in Int /\ Len(q) \in Int
  BY DEF At
<1>2. IsFiniteSet(1 .. Len(q))
  BY <1>1, FS_Interval
<1> HIDE DEF At
<1>3. IsFiniteSet(At(m, q))
  BY <1>1, <1>2, FS_Subset
<1> QED
  BY <1>1, <1>3, FS_CardinalityType

LEMMA AtAppend ==
    ASSUME NEW m, NEW q \in Seq(Nat), NEW x \in Nat
    PROVE  /\ x # m => At(m, Append(q, x)) = At(m, q)
           /\ x = m => Cardinality(At(m, Append(q, x))) = Cardinality(At(m, q)) + 1
<1> DEFINE r == Append(q, x)
           n == Len(q) + 1
<1>1. /\ DOMAIN r = DOMAIN q \cup {n} /\ n \notin DOMAIN q
      /\ r[n] = x /\ \A i \in DOMAIN q : r[i] = q[i]
  OBVIOUS
<1> HIDE DEF r, n
<1>2. /\ x # m => At(m, r) = At(m, q)
      /\ x = m => At(m, r) = At(m, q) \cup {n} /\ n \notin At(m, q)
  BY <1>1 DEF At
<1>3. IsFiniteSet(At(m, q))
  BY AtFinite
<1>4. x = m => Cardinality(At(m, r)) = Cardinality(At(m, q)) + 1
  BY <1>2, <1>3, FS_AddElement
<1> QED
  BY <1>2, <1>4 DEF r

\* Positions that move by a fixed distance into another list are no more there.
LEMMA AtShift ==
    ASSUME NEW S \in SUBSET Nat, NEW T, IsFiniteSet(T), NEW k \in Nat,
           \A i \in S : i + k \in T
    PROVE  Cardinality(S) <= Cardinality(T)
<1> DEFINE f == [i \in S |-> i + k]
<1>1. f \in [S -> T]
  OBVIOUS
<1>2. \A i, j \in S : f[i] = f[j] => i = j
  OBVIOUS
<1>3. f \in Injection(S, T)
  BY <1>1, <1>2 DEF Injection, IsInjective
<1> HIDE DEF f
<1> QED
  BY <1>3, FS_Injection

LEMMA AtTail ==
    ASSUME NEW m, NEW q \in Seq(Nat), q # <<>>
    PROVE  /\ Head(q) # m => Cardinality(At(m, Tail(q))) <= Cardinality(At(m, q))
           /\ Head(q) = m => Cardinality(At(m, Tail(q))) + 1 <= Cardinality(At(m, q))
<1> DEFINE r == Tail(q)
           n == Len(q)
           A == At(m, q)
           B == At(m, r)
<1>1. /\ n \in Nat \ {0} /\ DOMAIN q = 1 .. n /\ DOMAIN r = 1 .. n - 1
      /\ Head(q) = q[1] /\ \A i \in 1 .. n - 1 : r[i] = q[i + 1]
  OBVIOUS
<1>2. IsFiniteSet(A) /\ Cardinality(A) \in Nat
  BY AtFinite
<1> HIDE DEF r, n
<1>3. B \in SUBSET Nat /\ \A i \in B : i + 1 \in A \ {1}
  BY <1>1 DEF At
<1>4. q[1] = m => 1 \in A
  BY <1>1 DEF At
<1> HIDE DEF A, B
<1>5. /\ IsFiniteSet(A \ {1})
      /\ Cardinality(A \ {1}) = IF 1 \in A THEN Cardinality(A) - 1 ELSE Cardinality(A)
  BY <1>2, FS_RemoveElement
<1>6. Cardinality(B) <= Cardinality(A \ {1})
  BY <1>3, <1>5, AtShift
<1>7. Cardinality(B) \in Nat
  <2>1. r \in Seq(Nat)
    BY DEF r
  <2> QED
    BY <2>1, AtFinite DEF B
<1>8. /\ q[1] # m => Cardinality(B) <= Cardinality(A)
      /\ q[1] = m => Cardinality(B) + 1 <= Cardinality(A)
  BY <1>2, <1>4, <1>5, <1>6, <1>7
<1> QED
  BY <1>1, <1>8 DEF r, A, B

LEMMA AtTrimmed ==
    ASSUME NEW m, NEW q \in Seq(Nat)
    PROVE  Cardinality(At(m, Trimmed(q))) <= Cardinality(At(m, q))
<1>1. IsFiniteSet(At(m, q)) /\ Cardinality(At(m, q)) \in Nat
  BY AtFinite
<1>2. CASE Len(q) > InboxCap
  <2> DEFINE k == Len(q) - InboxCap
             r == SubSeq(q, k + 1, Len(q))
  <2>1. k \in Nat /\ k + 1 \in 1 .. Len(q)
    BY <1>2, InboxBounds
  <2>2. DOMAIN r = 1 .. InboxCap /\ \A i \in 1 .. InboxCap : i + k \in DOMAIN q /\ r[i] = q[i + k]
    BY <1>2, <2>1, InboxBounds
  <2>3. Trimmed(q) = r
    BY <1>2 DEF Trimmed
  <2> HIDE DEF k, r
  <2>4. At(m, r) \in SUBSET Nat /\ \A i \in At(m, r) : i + k \in At(m, q)
    BY <2>1, <2>2, InboxBounds, SMTT(30) DEF At
  <2> QED
    BY <1>1, <2>1, <2>3, <2>4, AtShift
<1>3. CASE ~(Len(q) > InboxCap)
  BY <1>1, <1>3 DEF Trimmed
<1> QED
  BY <1>2, <1>3

\* Where a message may be
Places == {<<"inbox", None>>, <<"received", None>>}
          \cup ({"send", "drained"} \X Conns) \cup ({"pass"} \X Senders)

\* The copies of a message, as positions in each place
Spread(F) == UNION {Placed(w[1], w[2], F[w]) : w \in Places}

LEMMA PlacePairs ==
    ASSUME NEW w \in Places
    PROVE  w = <<w[1], w[2]>>
  BY DEF Places

LEMMA PlacesFinite == IsFiniteSet(Places)
<1>1. IsFiniteSet({<<"inbox", None>>, <<"received", None>>})
  <2>1. IsFiniteSet({<<"inbox", None>>}) /\ IsFiniteSet({<<"received", None>>})
    BY FS_Singleton
  <2>2. {<<"inbox", None>>, <<"received", None>>} = {<<"inbox", None>>} \cup {<<"received", None>>}
    OBVIOUS
  <2> QED
    BY <2>1, <2>2, FS_Union
<1>2. IsFiniteSet({"send", "drained"} \X Conns)
  <2>1. IsFiniteSet({"send"}) /\ IsFiniteSet({"drained"})
    BY FS_Singleton
  <2>2. {"send", "drained"} = {"send"} \cup {"drained"}
    OBVIOUS
  <2>3. IsFiniteSet({"send", "drained"})
    BY <2>1, <2>2, FS_Union
  <2> QED
    BY <2>3, FS_Product, InboxFinite
<1>3. IsFiniteSet({"pass"} \X Senders)
  BY FS_Singleton, FS_Product, InboxFinite
<1> DEFINE A == {<<"inbox", None>>, <<"received", None>>}
           B == {"send", "drained"} \X Conns
           C == {"pass"} \X Senders
<1>4. Places = (A \cup B) \cup C
  BY DEF Places
<1> HIDE DEF A, B, C
<1>5. IsFiniteSet(A \cup B)
  BY <1>1, <1>2, FS_Union DEF A, B
<1> QED
  BY <1>3, <1>4, <1>5, FS_Union DEF C

\* The size of a spread, in three parts: two places, and all the others.
Others(H, u, v) == UNION {Placed(w[1], w[2], H[w]) : w \in Places \ {u, v}}

LEMMA PlacedSize ==
    ASSUME NEW p, NEW h, NEW A, IsFiniteSet(A)
    PROVE  /\ IsFiniteSet(Placed(p, h, A)) /\ Cardinality(Placed(p, h, A)) = Cardinality(A)
           /\ Cardinality(A) \in Nat
<1> DEFINE B == Placed(p, h, A)
           f == [i \in A |-> <<p, h, i>>]
<1>1. f \in Surjection(A, B)
  <2>1. \A i \in A : <<p, h, i>> \in B
    BY DEF Placed
  <2>2. \A b \in B : \E i \in A : <<p, h, i>> = b
    BY DEF Placed
  <2> HIDE DEF B
  <2> QED
    BY <2>1, <2>2 DEF Surjection
<1>2. f \in Injection(A, B)
  BY DEF Injection, IsInjective, Placed
<1> HIDE DEF f, B
<1>3. IsFiniteSet(B) /\ Cardinality(B) = Cardinality(A)
  BY <1>1, <1>2, FS_Surjection
<1> QED
  BY <1>3, FS_CardinalityType DEF B

LEMMA SpreadParts ==
    ASSUME NEW H, \A w \in Places : IsFiniteSet(H[w]),
           NEW u \in Places, NEW v \in Places, u # v
    PROVE  /\ IsFiniteSet(Others(H, u, v)) /\ Cardinality(Others(H, u, v)) \in Nat
           /\ Cardinality(H[u]) \in Nat /\ Cardinality(H[v]) \in Nat
           /\ Cardinality(Spread(H))
                = Cardinality(Others(H, u, v)) + Cardinality(H[u]) + Cardinality(H[v])
<1> DEFINE K(w) == Placed(w[1], w[2], H[w])
           R == Others(H, u, v)
           U == K(u)
           V == K(v)
<1>1. ASSUME NEW w \in Places
      PROVE  /\ IsFiniteSet(K(w)) /\ Cardinality(K(w)) = Cardinality(H[w])
             /\ Cardinality(H[w]) \in Nat
  BY PlacedSize
<1>2. IsFiniteSet(R)
  <2> DEFINE P == Places \ {u, v}
             S == {K(w) : w \in P}
             f == [w \in P |-> K(w)]
  <2>1. IsFiniteSet(P)
    BY PlacesFinite, FS_Subset
  <2>2. f \in Surjection(P, S)
    <3> HIDE DEF K, P
    <3> QED
      BY DEF Surjection
  <2>3. IsFiniteSet(S)
    <3> HIDE DEF P, S, f
    <3> QED
      BY <2>1, <2>2, FS_Surjection
  <2>4. \A T \in S : IsFiniteSet(T)
    <3> HIDE DEF K
    <3> QED
      BY <1>1
  <2>5. R = UNION S
    BY DEF Others
  <2> HIDE DEF S
  <2> QED
    BY <2>3, <2>4, <2>5, FS_UNION
<1>3. Spread(H) = (R \cup U) \cup V
  <2> DEFINE P == Places \ {u, v}
  <2>1. Places = P \cup {u, v}
    OBVIOUS
  <2>2. R = UNION {K(w) : w \in P}
    BY DEF Others
  <2> HIDE DEF P
  <2>3. Spread(H) = UNION {K(w) : w \in P \cup {u, v}}
    BY <2>1 DEF Spread
  <2> HIDE DEF K, R
  <2> QED
    BY <2>2, <2>3
<1>4. R \cap U = {} /\ (R \cup U) \cap V = {}
  <2>1. ASSUME NEW w \in Places, NEW x \in K(w)
        PROVE  <<x[1], x[2]>> = w
    <3>1. x[1] = w[1] /\ x[2] = w[2]
      BY <2>1 DEF Placed
    <3> QED
      BY <3>1, PlacePairs
  <2>2. ASSUME NEW x \in R
        PROVE  <<x[1], x[2]>> \notin {u, v}
    <3>1. PICK w \in Places \ {u, v} : x \in K(w)
      BY <2>2 DEF Others
    <3>2. <<x[1], x[2]>> = w
      BY <2>1, <3>1
    <3> QED
      BY <3>1, <3>2
  <2>3. (\A x \in U : <<x[1], x[2]>> = u) /\ (\A x \in V : <<x[1], x[2]>> = v)
    BY <2>1
  <2> HIDE DEF R, U, V
  <2> QED
    BY <2>2, <2>3
<1>5. /\ IsFiniteSet(U) /\ Cardinality(U) = Cardinality(H[u]) /\ Cardinality(H[u]) \in Nat
      /\ IsFiniteSet(V) /\ Cardinality(V) = Cardinality(H[v]) /\ Cardinality(H[v]) \in Nat
  BY <1>1
<1> HIDE DEF R, U, V
<1>6. Cardinality(R) \in Nat
  BY <1>2, FS_CardinalityType
<1>7. IsFiniteSet(R \cup U) /\ Cardinality(R \cup U) = Cardinality(R) + Cardinality(U)
  <2>1. Cardinality(R \cap U) = 0
    BY <1>4, FS_EmptySet
  <2>2. /\ IsFiniteSet(R \cup U)
        /\ Cardinality(R \cup U) = Cardinality(R) + Cardinality(U) - Cardinality(R \cap U)
    BY <1>2, <1>5, FS_Union
  <2> QED
    BY <1>5, <1>6, <2>1, <2>2
<1>8. Cardinality(Spread(H)) = Cardinality(R \cup U) + Cardinality(V)
  <2>1. Cardinality((R \cup U) \cap V) = 0
    BY <1>4, FS_EmptySet
  <2> DEFINE W == R \cup U
  <2>2. IsFiniteSet(W) /\ Cardinality(W) \in Nat
    BY <1>5, <1>6, <1>7
  <2>3. Cardinality(W \cup V) = Cardinality(W) + Cardinality(V) - Cardinality(W \cap V)
    <3> HIDE DEF W
    <3> QED
      BY <1>5, <2>2, FS_Union
  <2> QED
    BY <1>3, <1>5, <2>1, <2>2, <2>3
<1> QED
  BY <1>2, <1>5, <1>6, <1>7, <1>8 DEF R

\* If a step adds to no place but two, and these two together keep no more than
\* before, there are no more copies than before.
LEMMA SpreadExchange ==
    ASSUME NEW F, NEW G, \A w \in Places : IsFiniteSet(F[w]) /\ IsFiniteSet(G[w]),
           NEW u \in Places, NEW v \in Places, u # v,
           \A w \in Places \ {u, v} : G[w] \subseteq F[w],
           Cardinality(G[u]) + Cardinality(G[v]) <= Cardinality(F[u]) + Cardinality(F[v])
    PROVE  Cardinality(Spread(G)) <= Cardinality(Spread(F))
<1> DEFINE RF == Others(F, u, v)
           RG == Others(G, u, v)
<1>1. /\ IsFiniteSet(RF) /\ Cardinality(RF) \in Nat
      /\ Cardinality(F[u]) \in Nat /\ Cardinality(F[v]) \in Nat
      /\ Cardinality(Spread(F)) = Cardinality(RF) + Cardinality(F[u]) + Cardinality(F[v])
  BY SpreadParts
<1>2. /\ IsFiniteSet(RG) /\ Cardinality(RG) \in Nat
      /\ Cardinality(G[u]) \in Nat /\ Cardinality(G[v]) \in Nat
      /\ Cardinality(Spread(G)) = Cardinality(RG) + Cardinality(G[u]) + Cardinality(G[v])
  BY SpreadParts
<1>3. RG \subseteq RF
  <2> DEFINE P == Places \ {u, v}
  <2>1. \A w \in P : Placed(w[1], w[2], G[w]) \subseteq Placed(w[1], w[2], F[w])
    BY DEF Placed
  <2> HIDE DEF P
  <2>2. UNION {Placed(w[1], w[2], G[w]) : w \in P}
          \subseteq UNION {Placed(w[1], w[2], F[w]) : w \in P}
    BY <2>1
  <2> QED
    BY <2>2 DEF Others, P
<1> HIDE DEF RF, RG
<1>4. Cardinality(RG) <= Cardinality(RF)
  BY <1>1, <1>3, FS_Subset
<1> QED
  BY <1>1, <1>2, <1>4

\* What the places keep of a message, before and after a step
Draining(m, c) == IF flush[c] = "deliver" THEN At(m, drained[c]) ELSE {}

Passing(m, s) == IF job[s].id = m THEN ToMake(s) ELSE {}

Kept(m) == [w \in Places |->
    CASE w[1] = "inbox" -> At(m, inbox)
      [] w[1] = "received" -> At(m, received)
      [] w[1] = "send" -> At(m, send[w[2]])
      [] w[1] = "drained" -> Draining(m, w[2])
      [] w[1] = "pass" -> Passing(m, w[2])]

LEMMA KeptValues ==
    ASSUME NEW m
    PROVE  /\ Kept(m)[<<"inbox", None>>] = At(m, inbox)
           /\ Kept(m)[<<"received", None>>] = At(m, received)
           /\ \A c \in Conns : Kept(m)[<<"send", c>>] = At(m, send[c])
           /\ \A c \in Conns : Kept(m)[<<"drained", c>>] = Draining(m, c)
           /\ \A s \in Senders : Kept(m)[<<"pass", s>>] = Passing(m, s)
<1>1. Kept(m)[<<"inbox", None>>] = At(m, inbox)
  BY DEF Kept, Places
<1>2. Kept(m)[<<"received", None>>] = At(m, received)
  BY DEF Kept, Places
<1>3. \A c \in Conns : Kept(m)[<<"send", c>>] = At(m, send[c])
  BY DEF Kept, Places
<1>4. \A c \in Conns : Kept(m)[<<"drained", c>>] = Draining(m, c)
  BY DEF Kept, Places, Draining
<1>5. \A s \in Senders : Kept(m)[<<"pass", s>>] = Passing(m, s)
  BY DEF Kept, Places, Passing
<1> QED
  BY <1>1, <1>2, <1>3, <1>4, <1>5

LEMMA KeptNext ==
    ASSUME NEW m
    PROVE  /\ Kept(m)'[<<"inbox", None>>] = At(m, inbox')
           /\ Kept(m)'[<<"received", None>>] = At(m, received')
           /\ \A c \in Conns : Kept(m)'[<<"send", c>>] = At(m, send'[c])
           /\ \A c \in Conns : Kept(m)'[<<"drained", c>>] = Draining(m, c)'
           /\ \A s \in Senders : Kept(m)'[<<"pass", s>>] = Passing(m, s)'
<1>1. Kept(m)'[<<"inbox", None>>] = At(m, inbox')
  BY DEF Kept, Places
<1>2. Kept(m)'[<<"received", None>>] = At(m, received')
  BY DEF Kept, Places
<1>3. \A c \in Conns : Kept(m)'[<<"send", c>>] = At(m, send'[c])
  BY DEF Kept, Places
<1>4. \A c \in Conns : Kept(m)'[<<"drained", c>>] = Draining(m, c)'
  BY DEF Kept, Places, Draining
<1>5. \A s \in Senders : Kept(m)'[<<"pass", s>>] = Passing(m, s)'
  BY DEF Kept, Places, Passing
<1> QED
  BY <1>1, <1>2, <1>3, <1>4, <1>5

LEMMA PlaceKinds ==
    /\ <<"inbox", None>> \in Places /\ <<"received", None>> \in Places
    /\ \A c \in Conns : <<"send", c>> \in Places /\ <<"drained", c>> \in Places
    /\ \A s \in Senders : <<"pass", s>> \in Places
    /\ \A w \in Places :
        \/ w = <<"inbox", None>>
        \/ w = <<"received", None>>
        \/ \E c \in Conns : w = <<"send", c>>
        \/ \E c \in Conns : w = <<"drained", c>>
        \/ \E s \in Senders : w = <<"pass", s>>
  BY DEF Places

\* A spread, place by place
InPlaces(F) ==
    Placed("inbox", None, F[<<"inbox", None>>]) \cup Placed("received", None, F[<<"received", None>>])
    \cup (UNION {Placed("send", c, F[<<"send", c>>]) : c \in Conns})
    \cup (UNION {Placed("drained", c, F[<<"drained", c>>]) : c \in Conns})
    \cup (UNION {Placed("pass", s, F[<<"pass", s>>]) : s \in Senders})

LEMMA SpreadInPlaces == ASSUME NEW F PROVE Spread(F) = InPlaces(F)
<1> DEFINE K(w) == Placed(w[1], w[2], F[w])
           A == K(<<"inbox", None>>)
           B == K(<<"received", None>>)
           C == UNION {K(<<"send", c>>) : c \in Conns}
           D == UNION {K(<<"drained", c>>) : c \in Conns}
           E == UNION {K(<<"pass", s>>) : s \in Senders}
<1>1. InPlaces(F) = A \cup B \cup C \cup D \cup E
  BY DEF InPlaces
<1>2. \A x : x \in Spread(F) <=> \E w \in Places : x \in K(w)
  BY DEF Spread
<1> HIDE DEF K
<1>3. ASSUME NEW x \in Spread(F)
      PROVE  x \in A \/ x \in B \/ x \in C \/ x \in D \/ x \in E
  <2>1. PICK w \in Places : x \in K(w)
    BY <1>2
  <2>2. CASE w = <<"inbox", None>> \/ w = <<"received", None>>
    BY <2>1, <2>2
  <2>3. CASE \E c \in Conns : w = <<"send", c>>
    <3>1. x \in C
      BY <2>1, <2>3
    <3> QED
      BY <3>1
  <2>4. CASE \E c \in Conns : w = <<"drained", c>>
    <3>1. x \in D
      BY <2>1, <2>4
    <3> QED
      BY <3>1
  <2>5. CASE \E s \in Senders : w = <<"pass", s>>
    <3>1. x \in E
      BY <2>1, <2>5
    <3> QED
      BY <3>1
  <2> QED
    BY <2>2, <2>3, <2>4, <2>5, PlaceKinds
<1>4. (A \cup B) \cup C \subseteq Spread(F)
  <2>1. A \subseteq Spread(F) /\ B \subseteq Spread(F)
    BY <1>2, PlaceKinds
  <2>2. \A c \in Conns : K(<<"send", c>>) \subseteq Spread(F)
    BY <1>2, PlaceKinds
  <2>3. C \subseteq Spread(F)
    BY <2>2
  <2> QED
    BY <2>1, <2>3
<1>5. D \subseteq Spread(F)
  <2>1. \A c \in Conns : K(<<"drained", c>>) \subseteq Spread(F)
    BY <1>2, PlaceKinds
  <2> QED
    BY <2>1
<1>6. E \subseteq Spread(F)
  <2>1. \A s \in Senders : K(<<"pass", s>>) \subseteq Spread(F)
    BY <1>2, PlaceKinds
  <2> QED
    BY <2>1
<1> HIDE DEF A, B, C, D, E
<1> QED
  BY <1>1, <1>3, <1>4, <1>5, <1>6

\* Copies is the spread of what the places keep.
LEMMA CopiesKept ==
    ASSUME NEW m
    PROVE  Copies(m) = Spread(Kept(m)) /\ Copies(m)' = Spread(Kept(m)')
<1>0. \A h : Placed("drained", h, {}) = {} /\ Placed("pass", h, {}) = {}
  BY DEF Placed
<1>1. Copies(m) = InPlaces(Kept(m))
  <2> DEFINE F == Kept(m)
  <2>1. /\ F[<<"inbox", None>>] = At(m, inbox) /\ F[<<"received", None>>] = At(m, received)
        /\ \A c \in Conns : F[<<"send", c>>] = At(m, send[c])
    BY KeptValues
  <2>2. \A c \in Conns : F[<<"drained", c>>] = IF flush[c] = "deliver" THEN At(m, drained[c]) ELSE {}
    BY KeptValues DEF Draining
  <2>3. \A s \in Senders : F[<<"pass", s>>] = IF job[s].id = m THEN ToMake(s) ELSE {}
    BY KeptValues DEF Passing
  <2> HIDE DEF F
  <2>4. UNION {Placed("send", c, F[<<"send", c>>]) : c \in Conns}
          = UNION {Placed("send", c, At(m, send[c])) : c \in Conns}
    BY <2>1
  <2>5. UNION {Placed("drained", c, F[<<"drained", c>>]) : c \in Conns}
          = UNION {Placed("drained", c, At(m, drained[c])) :
                   c \in {c \in Conns : flush[c] = "deliver"}}
    BY <1>0, <2>2
  <2>6. UNION {Placed("pass", s, F[<<"pass", s>>]) : s \in Senders}
          = UNION {Placed("pass", s, ToMake(s)) : s \in {s \in Senders : job[s].id = m}}
    BY <1>0, <2>3
  <2> DEFINE C == UNION {Placed("send", c, F[<<"send", c>>]) : c \in Conns}
             D == UNION {Placed("drained", c, F[<<"drained", c>>]) : c \in Conns}
             E == UNION {Placed("pass", s, F[<<"pass", s>>]) : s \in Senders}
  <2>7. Copies(m) = Placed("inbox", None, At(m, inbox)) \cup Placed("received", None, At(m, received))
                    \cup C \cup D \cup E
    BY <2>4, <2>5, <2>6 DEF Copies
  <2>8. InPlaces(F) = Placed("inbox", None, F[<<"inbox", None>>])
                      \cup Placed("received", None, F[<<"received", None>>]) \cup C \cup D \cup E
    BY DEF InPlaces
  <2> HIDE DEF C, D, E
  <2>9. Copies(m) = InPlaces(F)
    BY <2>1, <2>7, <2>8
  <2> QED
    BY <2>9 DEF F
<1>2. Copies(m)' = InPlaces(Kept(m)')
  <2> DEFINE F == Kept(m)'
  <2>1. /\ F[<<"inbox", None>>] = At(m, inbox') /\ F[<<"received", None>>] = At(m, received')
        /\ \A c \in Conns : F[<<"send", c>>] = At(m, send'[c])
    BY KeptNext
  <2>2. \A c \in Conns :
          F[<<"drained", c>>] = IF flush'[c] = "deliver" THEN At(m, drained'[c]) ELSE {}
    BY KeptNext DEF Draining
  <2>3. \A s \in Senders : F[<<"pass", s>>] = IF job'[s].id = m THEN ToMake(s)' ELSE {}
    BY KeptNext DEF Passing
  <2> HIDE DEF F
  <2>4. UNION {Placed("send", c, F[<<"send", c>>]) : c \in Conns}
          = UNION {Placed("send", c, At(m, send'[c])) : c \in Conns}
    BY <2>1
  <2>5. UNION {Placed("drained", c, F[<<"drained", c>>]) : c \in Conns}
          = UNION {Placed("drained", c, At(m, drained'[c])) :
                   c \in {c \in Conns : flush'[c] = "deliver"}}
    BY <1>0, <2>2
  <2>6. UNION {Placed("pass", s, F[<<"pass", s>>]) : s \in Senders}
          = UNION {Placed("pass", s, ToMake(s)') : s \in {s \in Senders : job'[s].id = m}}
    BY <1>0, <2>3
  <2> DEFINE C == UNION {Placed("send", c, F[<<"send", c>>]) : c \in Conns}
             D == UNION {Placed("drained", c, F[<<"drained", c>>]) : c \in Conns}
             E == UNION {Placed("pass", s, F[<<"pass", s>>]) : s \in Senders}
  <2>7. Copies(m)' = Placed("inbox", None, At(m, inbox')) \cup Placed("received", None, At(m, received'))
                     \cup C \cup D \cup E
    BY <2>4, <2>5, <2>6 DEF Copies
  <2>8. InPlaces(F) = Placed("inbox", None, F[<<"inbox", None>>])
                      \cup Placed("received", None, F[<<"received", None>>]) \cup C \cup D \cup E
    BY DEF InPlaces
  <2> HIDE DEF C, D, E
  <2>9. Copies(m)' = InPlaces(F)
    BY <2>1, <2>7, <2>8
  <2> QED
    BY <2>9 DEF F
<1> QED
  BY <1>1, <1>2, SpreadInPlaces

\* How many passes are left
LEMMA PassingSize ==
    ASSUME NEW j \in Jobs, NEW k \in {1, 2}
    PROVE  /\ IsFiniteSet(k .. Len(j.passes))
           /\ Cardinality(k .. Len(j.passes))
                = IF k > Len(j.passes) THEN 0 ELSE Len(j.passes) - k + 1
<1>1. Len(j.passes) \in Nat
  BY RestTyped
<1> DEFINE n == Len(j.passes)
<1> HIDE DEF n
<1>2. k \in Int /\ n \in Int /\ k > 0
  BY <1>1 DEF n
<1>3. /\ IsFiniteSet(k .. n)
      /\ Cardinality(k .. n) = IF k > n THEN 0 ELSE n - k + 1
  BY <1>2, FS_Interval
<1> QED
  BY <1>3 DEF n

LEMMA KeptFinite ==
    ASSUME NEW m, TypeOK
    PROVE  \A w \in Places : IsFiniteSet(Kept(m)[w])
<1>1. IsFiniteSet(At(m, inbox)) /\ IsFiniteSet(At(m, received))
  BY AtFinite DEF TypeOK
<1>2. \A c \in Conns : IsFiniteSet(At(m, send[c])) /\ IsFiniteSet(At(m, drained[c]))
  BY AtFinite DEF TypeOK
<1>3. \A c \in Conns : IsFiniteSet(Draining(m, c))
  BY <1>2, FS_EmptySet DEF Draining
<1>4. \A s \in Senders : IsFiniteSet(Passing(m, s))
  <2> SUFFICES ASSUME NEW s \in Senders
               PROVE  IsFiniteSet(Passing(m, s))
    OBVIOUS
  <2>1. IsFiniteSet(1 .. Len(job[s].passes)) /\ IsFiniteSet(2 .. Len(job[s].passes))
    <3>1. job[s] \in Jobs /\ 1 \in {1, 2} /\ 2 \in {1, 2}
      BY DEF TypeOK
    <3> QED
      BY <3>1, PassingSize
  <2> QED
    BY <2>1, FS_EmptySet DEF Passing, ToMake
<1> QED
  BY <1>1, <1>2, <1>3, <1>4, KeptValues, PlaceKinds

LEMMA KeptFiniteNext ==
    ASSUME NEW m, TypeOK'
    PROVE  \A w \in Places : IsFiniteSet(Kept(m)'[w])
<1>1. IsFiniteSet(At(m, inbox')) /\ IsFiniteSet(At(m, received'))
  BY AtFinite DEF TypeOK
<1>2. \A c \in Conns : IsFiniteSet(At(m, send'[c])) /\ IsFiniteSet(At(m, drained'[c]))
  BY AtFinite DEF TypeOK
<1>3. \A c \in Conns : IsFiniteSet(Draining(m, c)')
  BY <1>2, FS_EmptySet DEF Draining
<1>4. \A s \in Senders : IsFiniteSet(Passing(m, s)')
  <2> SUFFICES ASSUME NEW s \in Senders
               PROVE  IsFiniteSet(Passing(m, s)')
    OBVIOUS
  <2>1. IsFiniteSet(1 .. Len(job'[s].passes)) /\ IsFiniteSet(2 .. Len(job'[s].passes))
    <3>1. job'[s] \in Jobs /\ 1 \in {1, 2} /\ 2 \in {1, 2}
      BY DEF TypeOK
    <3> QED
      BY <3>1, PassingSize
  <2> QED
    BY <2>1, FS_EmptySet DEF Passing, ToMake
<1> QED
  BY <1>1, <1>2, <1>3, <1>4, KeptNext, PlaceKinds

\* A step that touches no place but two, and keeps no more in these
LEMMA CopyMoves ==
    ASSUME TypeOK, TypeOK', NEW m, NEW u \in Places, NEW v \in Places, u # v,
           <<"inbox", None>> \notin {u, v} => At(m, inbox') \subseteq At(m, inbox),
           <<"received", None>> \notin {u, v} => At(m, received') \subseteq At(m, received),
           \A c \in Conns :
               <<"send", c>> \notin {u, v} => At(m, send'[c]) \subseteq At(m, send[c]),
           \A c \in Conns :
               <<"drained", c>> \notin {u, v} => Draining(m, c)' \subseteq Draining(m, c),
           \A s \in Senders :
               <<"pass", s>> \notin {u, v} => Passing(m, s)' \subseteq Passing(m, s),
           Cardinality(Kept(m)'[u]) + Cardinality(Kept(m)'[v])
             <= Cardinality(Kept(m)[u]) + Cardinality(Kept(m)[v])
    PROVE  Cardinality(Copies(m)') <= Cardinality(Copies(m))
<1> DEFINE F == Kept(m)
           G == Kept(m)'
<1>1. \A w \in Places : IsFiniteSet(F[w]) /\ IsFiniteSet(G[w])
  BY KeptFinite, KeptFiniteNext
<1>2. \A w \in Places \ {u, v} : G[w] \subseteq F[w]
  <2> SUFFICES ASSUME NEW w \in Places, w \notin {u, v}
               PROVE  G[w] \subseteq F[w]
    OBVIOUS
  <2> HIDE DEF F, G
  <2>1. CASE w = <<"inbox", None>>
    BY <2>1, KeptValues, KeptNext DEF F, G
  <2>2. CASE w = <<"received", None>>
    BY <2>2, KeptValues, KeptNext DEF F, G
  <2>3. CASE \E c \in Conns : w = <<"send", c>>
    BY <2>3, KeptValues, KeptNext DEF F, G
  <2>4. CASE \E c \in Conns : w = <<"drained", c>>
    BY <2>4, KeptValues, KeptNext DEF F, G
  <2>5. CASE \E s \in Senders : w = <<"pass", s>>
    BY <2>5, KeptValues, KeptNext DEF F, G
  <2> QED
    BY <2>1, <2>2, <2>3, <2>4, <2>5, PlaceKinds
<1>3. Cardinality(G[u]) + Cardinality(G[v]) <= Cardinality(F[u]) + Cardinality(F[v])
  OBVIOUS
<1>4. Copies(m) = Spread(F) /\ Copies(m)' = Spread(G)
  BY CopiesKept
<1> HIDE DEF F, G
<1>5. Cardinality(Spread(G)) <= Cardinality(Spread(F))
  BY <1>1, <1>2, <1>3, SpreadExchange
<1> QED
  BY <1>4, <1>5

\* A step that adds to no place
LEMMA CopyDrops ==
    ASSUME TypeOK, TypeOK', NEW m,
           At(m, inbox') \subseteq At(m, inbox),
           At(m, received') \subseteq At(m, received),
           \A c \in Conns : At(m, send'[c]) \subseteq At(m, send[c]),
           \A c \in Conns : Draining(m, c)' \subseteq Draining(m, c),
           \A s \in Senders : Passing(m, s)' \subseteq Passing(m, s)
    PROVE  Cardinality(Copies(m)') <= Cardinality(Copies(m))
<1> DEFINE u == <<"inbox", None>>
           v == <<"received", None>>
<1>1. u \in Places /\ v \in Places /\ u # v
  BY PlaceKinds
<1>2. /\ Kept(m)'[u] \subseteq Kept(m)[u] /\ IsFiniteSet(Kept(m)[u])
      /\ IsFiniteSet(Kept(m)'[u]) /\ IsFiniteSet(Kept(m)'[v])
      /\ Kept(m)'[v] \subseteq Kept(m)[v] /\ IsFiniteSet(Kept(m)[v])
  BY <1>1, KeptValues, KeptNext, KeptFinite, KeptFiniteNext
<1>3. Cardinality(Kept(m)'[u]) + Cardinality(Kept(m)'[v])
        <= Cardinality(Kept(m)[u]) + Cardinality(Kept(m)[v])
  <2> DEFINE A == Kept(m)[u]
             B == Kept(m)[v]
             D == Kept(m)'[u]
             E == Kept(m)'[v]
  <2> HIDE DEF A, B, D, E
  <2>1. /\ Cardinality(D) <= Cardinality(A) /\ Cardinality(D) \in Nat /\ Cardinality(A) \in Nat
        /\ Cardinality(E) <= Cardinality(B) /\ Cardinality(E) \in Nat /\ Cardinality(B) \in Nat
    BY <1>2, FS_Subset, FS_CardinalityType DEF A, B, D, E
  <2>2. Cardinality(D) + Cardinality(E) <= Cardinality(A) + Cardinality(B)
    BY <2>1
  <2> QED
    BY <2>2 DEF A, B, D, E
<1> HIDE DEF u, v
<1> QED
  BY <1>1, <1>3, CopyMoves

\* The two ways to copy a message: a drain that deletes less than it fetched,
\* and an enqueue that is executed again
Doubled(m) ==
    \/ \E c \in Conns : /\ DrainDel(c)
                        /\ Cardinality(At(m, drained[c])) > Cardinality(At(m, inbox))
    \/ \E s \in Senders : EnqueueAgain(s) /\ job[s].id = m

LEMMA ConnectionCopies ==
    ASSUME TypeOK, TypeOK', Control, NEW m, NEW c \in Conns, Connection(c)
    PROVE  Cardinality(Copies(m)') <= Cardinality(Copies(m)) \/ Doubled(m)
<1> DEFINE Fewer == Cardinality(Copies(m)') <= Cardinality(Copies(m))
<1>0. /\ flush \in [Conns -> Flushes]
      /\ drained \in [Conns -> Seq(Nat)] /\ send \in [Conns -> Seq(Nat)]
      /\ drained[c] \in Seq(Nat) /\ send[c] \in Seq(Nat)
      /\ received \in Seq(Nat) /\ inbox \in Seq(Nat)
      /\ stage[c] = "absent" => flush[c] = "off"
      /\ <<"inbox", None>> \in Places /\ <<"received", None>> \in Places
      /\ <<"send", c>> \in Places /\ <<"drained", c>> \in Places
  BY PlaceKinds DEF TypeOK, Control, Flushes
<1>1. CASE \/ Identify(c) \/ DrainRange(c) \/ DrainFails(c) \/ ClientGone(c)
           \/ ReadFails(c) \/ Cleanup(c)
  <2>1. UNCHANGED <<inbox, received, send, pc, job>>
    BY <1>1 DEF Identify, DrainRange, DrainFails, ClientGone, ReadFails, Cleanup
  <2>2. \A d \in Conns : Draining(m, d)' \subseteq Draining(m, d)
    <3>1. CASE Identify(c)
      BY <1>0, <3>1 DEF Draining, Identify
    <3>2. CASE DrainRange(c)
      BY <1>0, <3>2 DEF Draining, DrainRange
    <3>3. CASE DrainFails(c)
      BY <1>0, <3>3 DEF Draining, DrainFails
    <3>4. CASE UNCHANGED <<flush, drained>>
      BY <3>4 DEF Draining
    <3> QED
      BY <1>1, <3>1, <3>2, <3>3, <3>4 DEF ClientGone, ReadFails, Cleanup
  <2>3. \A s \in Senders : Passing(m, s)' \subseteq Passing(m, s)
    BY <2>1 DEF Passing, ToMake
  <2> QED
    BY <2>1, <2>2, <2>3, CopyDrops
<1>2. CASE DrainDel(c)
  <2> DEFINE u == <<"inbox", None>>
             v == <<"drained", c>>
  <2>1. /\ UNCHANGED <<received, send, drained, pc, job>> /\ inbox' = <<>>
        /\ flush[c] = "del" /\ flush' = [flush EXCEPT ![c] = "deliver"]
    BY <1>2 DEF DrainDel
  <2>2. \A d \in Conns : v # <<"drained", d>> => Draining(m, d)' \subseteq Draining(m, d)
    BY <1>0, <2>1 DEF Draining
  <2>3. \A s \in Senders : Passing(m, s)' \subseteq Passing(m, s)
    BY <2>1 DEF Passing, ToMake
  <2>4. /\ Kept(m)[u] = At(m, inbox) /\ Kept(m)[v] = {}
        /\ Kept(m)'[u] = {} /\ Kept(m)'[v] = At(m, drained[c])
    <3>1. At(m, <<>>) = {}
      BY DEF At
    <3>2. Draining(m, c) = {} /\ Draining(m, c)' = At(m, drained[c])
      BY <1>0, <2>1 DEF Draining
    <3> QED
      BY <2>1, <3>1, <3>2, KeptValues, KeptNext
  <2>5. CASE Cardinality(At(m, drained[c])) > Cardinality(At(m, inbox))
    BY <1>2, <2>5 DEF Doubled
  <2>6. CASE ~(Cardinality(At(m, drained[c])) > Cardinality(At(m, inbox)))
    <3>1. Cardinality(At(m, drained[c])) \in Nat /\ Cardinality(At(m, inbox)) \in Nat
      BY <1>0, AtFinite
    <3>2. Cardinality({}) = 0
      BY FS_EmptySet
    <3>3. Cardinality(Kept(m)'[u]) + Cardinality(Kept(m)'[v])
            <= Cardinality(Kept(m)[u]) + Cardinality(Kept(m)[v])
      BY <2>4, <2>6, <3>1, <3>2
    <3>4. Fewer
      <4>1. u # v
        OBVIOUS
      <4>2. At(m, received') \subseteq At(m, received)
            /\ \A d \in Conns : At(m, send'[d]) \subseteq At(m, send[d])
        BY <2>1
      <4> QED
        BY <1>0, <2>2, <2>3, <3>3, <4>1, <4>2, CopyMoves
    <3> QED
      BY <3>4
  <2> QED
    BY <2>5, <2>6
<1>3. CASE FlushOne(c)
  <2> DEFINE d == drained[c]
             x == Head(d)
             u == <<"drained", c>>
             v == <<"send", c>>
  <2>1. UNCHANGED <<inbox, received, pc, job>> /\ flush[c] = "deliver"
    BY <1>3 DEF FlushOne
  <2>2. \A s \in Senders : Passing(m, s)' \subseteq Passing(m, s)
    BY <2>1 DEF Passing, ToMake
  <2>3. CASE d # <<>> /\ Deliverable(c)
    <3>1. /\ send' = [send EXCEPT ![c] = Append(send[c], x)]
          /\ drained' = [drained EXCEPT ![c] = Tail(d)] /\ flush' = flush
      BY <1>3, <2>3 DEF FlushOne
    <3>2. /\ \A e \in Conns : u # <<"drained", e>> => Draining(m, e)' \subseteq Draining(m, e)
          /\ \A e \in Conns : v # <<"send", e>> => At(m, send'[e]) \subseteq At(m, send[e])
      BY <1>0, <3>1 DEF Draining
    <3>3. /\ Kept(m)[u] = At(m, d) /\ Kept(m)[v] = At(m, send[c])
          /\ Kept(m)'[u] = At(m, Tail(d)) /\ Kept(m)'[v] = At(m, Append(send[c], x))
      <4>1. /\ Draining(m, c) = At(m, d) /\ Draining(m, c)' = At(m, Tail(d))
            /\ send'[c] = Append(send[c], x)
        BY <1>0, <2>1, <3>1 DEF Draining
      <4> QED
        BY <4>1, KeptValues, KeptNext
    <3>4. Cardinality(Kept(m)'[u]) + Cardinality(Kept(m)'[v])
            <= Cardinality(Kept(m)[u]) + Cardinality(Kept(m)[v])
      <4>1. x \in Nat /\ Tail(d) \in Seq(Nat) /\ d \in Seq(Nat)
        BY <1>0, <2>3
      <4> HIDE DEF d, x
      <4>2. /\ Cardinality(At(m, d)) \in Nat /\ Cardinality(At(m, send[c])) \in Nat
            /\ Cardinality(At(m, Tail(d))) \in Nat
        BY <1>0, <4>1, AtFinite
      <4>3. /\ x # m => Cardinality(At(m, Tail(d))) <= Cardinality(At(m, d))
            /\ x = m => Cardinality(At(m, Tail(d))) + 1 <= Cardinality(At(m, d))
        BY <2>3, <4>1, AtTail DEF x
      <4>4. /\ x # m => At(m, Append(send[c], x)) = At(m, send[c])
            /\ x = m => Cardinality(At(m, Append(send[c], x))) = Cardinality(At(m, send[c])) + 1
        BY <1>0, <4>1, AtAppend
      <4>5. Cardinality(At(m, Tail(d))) + Cardinality(At(m, Append(send[c], x)))
              <= Cardinality(At(m, d)) + Cardinality(At(m, send[c]))
        BY <4>2, <4>3, <4>4
      <4> QED
        BY <3>3, <4>5
    <3>5. u # v /\ At(m, inbox') \subseteq At(m, inbox) /\ At(m, received') \subseteq At(m, received)
      BY <2>1
    <3> HIDE DEF d, x
    <3>6. Fewer
      BY <1>0, <2>2, <3>2, <3>4, <3>5, CopyMoves
    <3> QED
      BY <3>6
  <2>4. CASE ~(d # <<>> /\ Deliverable(c))
    <3>1. send' = send /\ flush' = [flush EXCEPT ![c] = "off"]
          /\ drained' = [drained EXCEPT ![c] = <<>>]
      BY <1>3, <2>4 DEF FlushOne
    <3>2. \A e \in Conns : Draining(m, e)' \subseteq Draining(m, e)
      BY <1>0, <3>1 DEF Draining
    <3> QED
      BY <2>1, <2>2, <3>1, <3>2, CopyDrops
  <2> QED
    BY <2>3, <2>4
<1>4. CASE PumpWrite(c)
  <2> DEFINE q == send[c]
             x == Head(q)
             u == <<"send", c>>
             v == <<"received", None>>
  <2>1. /\ UNCHANGED <<inbox, drained, flush, pc, job>>
        /\ q \in Seq(Nat) /\ q # <<>> /\ send' = [send EXCEPT ![c] = Tail(q)]
        /\ received' = IF client[c] = "up" THEN Append(received, x) ELSE received
    BY <1>0, <1>4 DEF PumpWrite
  <2>2. /\ \A s \in Senders : Passing(m, s)' \subseteq Passing(m, s)
        /\ \A e \in Conns : Draining(m, e)' \subseteq Draining(m, e)
        /\ \A e \in Conns : u # <<"send", e>> => At(m, send'[e]) \subseteq At(m, send[e])
    BY <1>0, <2>1 DEF Passing, ToMake, Draining
  <2>3. /\ Kept(m)[u] = At(m, q) /\ Kept(m)[v] = At(m, received)
        /\ Kept(m)'[u] = At(m, Tail(q)) /\ Kept(m)'[v] = At(m, received')
    <3>1. send'[c] = Tail(q)
      BY <1>0, <2>1
    <3> QED
      BY <3>1, KeptValues, KeptNext
  <2>4. Cardinality(Kept(m)'[u]) + Cardinality(Kept(m)'[v])
          <= Cardinality(Kept(m)[u]) + Cardinality(Kept(m)[v])
    <3>1. x \in Nat /\ Tail(q) \in Seq(Nat)
      BY <2>1
    <3> HIDE DEF q, x
    <3>2. /\ Cardinality(At(m, q)) \in Nat /\ Cardinality(At(m, received)) \in Nat
          /\ Cardinality(At(m, Tail(q))) \in Nat
      BY <1>0, <2>1, <3>1, AtFinite
    <3>3. /\ x # m => Cardinality(At(m, Tail(q))) <= Cardinality(At(m, q))
          /\ x = m => Cardinality(At(m, Tail(q))) + 1 <= Cardinality(At(m, q))
      BY <2>1, AtTail DEF x
    <3>4. \/ received' = received
          \/ /\ x # m => At(m, received') = At(m, received)
             /\ x = m => Cardinality(At(m, received')) = Cardinality(At(m, received)) + 1
      <4>1. \/ received' = received
            \/ received' = Append(received, x)
        BY <2>1
      <4> QED
        BY <1>0, <3>1, <4>1, AtAppend
    <3>5. Cardinality(At(m, Tail(q))) + Cardinality(At(m, received'))
            <= Cardinality(At(m, q)) + Cardinality(At(m, received))
      BY <3>2, <3>3, <3>4
    <3> QED
      BY <2>3, <3>5
  <2>5. u # v /\ At(m, inbox') \subseteq At(m, inbox)
    BY <2>1
  <2> HIDE DEF q, x
  <2>6. Fewer
    BY <1>0, <2>2, <2>4, <2>5, CopyMoves
  <2> QED
    BY <2>6
<1>5. CASE PumpExit(c)
  <2>1. UNCHANGED <<inbox, received, drained, flush, pc, job>> /\ send' = [send EXCEPT ![c] = <<>>]
    BY <1>5 DEF PumpExit
  <2>2. /\ \A s \in Senders : Passing(m, s)' \subseteq Passing(m, s)
        /\ \A e \in Conns : Draining(m, e)' \subseteq Draining(m, e)
    BY <2>1 DEF Passing, ToMake, Draining
  <2>3. \A e \in Conns : At(m, send'[e]) \subseteq At(m, send[e])
    <3>1. At(m, <<>>) = {}
      BY DEF At
    <3> QED
      BY <1>0, <2>1, <3>1
  <2> QED
    BY <2>1, <2>2, <2>3, CopyDrops
<1>6. CASE DrainAnswerLost(c) \/ DrainLeft(c)
  <2>1. /\ UNCHANGED <<received, send, pc, job>> /\ inbox' = <<>>
        /\ flush' = [flush EXCEPT ![c] = "lrange"] \/ flush' = [flush EXCEPT ![c] = "off"]
        /\ drained' = [drained EXCEPT ![c] = <<>>] \/ drained' = drained
    BY <1>6 DEF DrainAnswerLost, DrainLeft
  <2>2. /\ flush'[c] # "deliver"
        /\ \A d \in Conns \ {c} : flush'[d] = flush[d] /\ drained'[d] = drained[d]
    BY <1>0, <2>1
  <2>3. /\ At(m, inbox') \subseteq At(m, inbox)
        /\ \A d \in Conns : Draining(m, d)' \subseteq Draining(m, d)
        /\ \A s \in Senders : Passing(m, s)' \subseteq Passing(m, s)
    BY <2>1, <2>2 DEF At, Draining, Passing, ToMake
  <2> QED
    BY <2>1, <2>3, CopyDrops
<1> QED
  BY <1>1, <1>2, <1>3, <1>4, <1>5, <1>6 DEF Connection

\* A pass that ends leaves one less to make.
LEMMA ReturnCopies ==
    ASSUME TypeOK, TypeOK', NEW m \in Nat \ {0}, NEW s \in Senders, Return(s)
    PROVE  /\ \A t \in Senders \ {s} : Passing(m, t)' = Passing(m, t)
           /\ job[s].id # m => Passing(m, s)' = {}
           /\ job[s].id = m => Passing(m, s)' = 1 .. (Len(job[s].passes) - 1)
<1>0. Len(job[s].passes) \in Nat /\ job[s] \in Jobs /\ job \in [Senders -> Jobs]
  BY RestTyped, SMTT(30) DEF TypeOK
<1>1. \A t \in Senders \ {s} : Passing(m, t)' = Passing(m, t)
  <2>1. \A t \in Senders \ {s} : pc'[t] = pc[t] /\ job'[t] = job[t]
    BY ReturnTyped
  <2> QED
    BY <2>1 DEF Passing, ToMake
<1>2. CASE Len(job[s].passes) > 1
  <2>1. /\ pc'[s] = "lookup" /\ job'[s].id = job[s].id
        /\ Len(job'[s].passes) = Len(job[s].passes) - 1
    BY <1>2, ReturnTyped
  <2> QED
    BY <1>1, <2>1 DEF Passing, ToMake
<1>3. CASE ~(Len(job[s].passes) > 1)
  <2>1. job'[s].id = 0
    BY <1>3, ReturnTyped DEF NoJob
  <2>2. Passing(m, s)' = {}
    BY <2>1 DEF Passing
  <2>3. 1 .. (Len(job[s].passes) - 1) = {}
    BY <1>0, <1>3
  <2> QED
    BY <1>1, <2>2, <2>3
<1> QED
  BY <1>2, <1>3

LEMMA ForwardingCopies ==
    ASSUME TypeOK, TypeOK', Control, NEW m \in 1 .. lastId,
           NEW s \in Senders, Arrive(s) \/ Forwarding(s)
    PROVE  Cardinality(Copies(m)') <= Cardinality(Copies(m)) \/ Doubled(m)
<1> DEFINE i == job[s].id
           n == Len(job[s].passes)
           p == <<"pass", s>>
           P == Passing(m, s)
           Q == Passing(m, s)'
<1>0. /\ pc \in [Senders -> PCs] /\ job \in [Senders -> Jobs] /\ job[s] \in Jobs
      /\ n \in Nat /\ i \in Nat /\ lastId \in Nat /\ m \in Nat \ {0}
      /\ target \in [Senders -> Conns \cup {None}]
      /\ send \in [Conns -> Seq(Nat)] /\ inbox \in Seq(Nat)
      /\ <<"inbox", None>> \in Places /\ <<"received", None>> \in Places /\ p \in Places
  <2>1. /\ pc \in [Senders -> PCs] /\ job \in [Senders -> Jobs] /\ job[s] \in Jobs
        /\ target \in [Senders -> Conns \cup {None}]
        /\ send \in [Conns -> Seq(Nat)] /\ inbox \in Seq(Nat)
    BY DEF TypeOK, PCs
  <2>2. n \in Nat /\ i \in Nat
    BY <2>1, RestTyped
  <2>3. lastId \in Nat /\ m \in Nat \ {0}
    BY DEF TypeOK
  <2>4. <<"inbox", None>> \in Places /\ <<"received", None>> \in Places /\ p \in Places
    BY PlaceKinds
  <2> QED
    BY <2>1, <2>2, <2>3, <2>4
<1>1. CASE Arrive(s)
  <2>1. /\ UNCHANGED <<inbox, received, send, drained, flush>>
        /\ pc' = [pc EXCEPT ![s] = "lookup"]
    BY <1>1 DEF Arrive
  <2>2. job'[s].id = lastId + 1 /\ \A t \in Senders \ {s} : job'[t] = job[t]
    <3>1. PICK passes : job' = [job EXCEPT ![s] = [id |-> lastId + 1, passes |-> passes]]
      BY <1>1 DEF Arrive
    <3> QED
      BY <1>0, <3>1
  <2>3. Q = {}
    BY <1>0, <2>2 DEF Passing
  <2>4. \A t \in Senders \ {s} : Passing(m, t)' = Passing(m, t)
    BY <1>0, <2>1, <2>2 DEF Passing, ToMake
  <2>5. \A c \in Conns : Draining(m, c)' = Draining(m, c)
    BY <2>1 DEF Draining
  <2> HIDE DEF P, Q
  <2>6. \A t \in Senders : Passing(m, t)' \subseteq Passing(m, t)
    BY <2>3, <2>4 DEF P, Q
  <2> QED
    BY <2>1, <2>5, <2>6, CopyDrops
<1>2. CASE Lookup(s) \/ Evict(s) \/ CloseEvicted(s)
  <2>1. /\ UNCHANGED <<inbox, received, send, drained, flush, job>>
        /\ pc[s] \in {"lookup", "evict", "close"}
        /\ \E x \in {"rpush", "deliver", "close"} : pc' = [pc EXCEPT ![s] = x]
    BY <1>2 DEF Lookup, Evict, CloseEvicted
  <2>2. pc'[s] \notin {"ltrim", "expire"} /\ pc[s] \notin {"ltrim", "expire"}
        /\ \A t \in Senders \ {s} : pc'[t] = pc[t]
    BY <1>0, <2>1
  <2>3. \A t \in Senders : Passing(m, t)' = Passing(m, t)
    BY <2>1, <2>2 DEF Passing, ToMake
  <2>4. \A c \in Conns : Draining(m, c)' = Draining(m, c)
    BY <2>1 DEF Draining
  <2> QED
    BY <2>1, <2>3, <2>4, CopyDrops
<1>3. CASE Deliver(s)
  <2> DEFINE c == target[s]
             q == send[c]
             v == <<"send", c>>
  <2>1. /\ c \in Conns /\ UNCHANGED <<inbox, flush, drained, received>> /\ pc[s] = "deliver"
        /\ n >= 1 /\ v \in Places
    <3>1. c \in Conns /\ job[s].passes # <<>>
      BY <1>3 DEF Control, Deliver
    <3>2. job[s].passes \in Seq(Passes)
      BY <1>0, RestTyped
    <3>3. n >= 1
      BY <3>1, <3>2
    <3>4. UNCHANGED <<inbox, flush, drained, received>> /\ pc[s] = "deliver"
      BY <1>3 DEF Deliver
    <3> HIDE DEF c, n
    <3> QED
      BY <3>1, <3>3, <3>4, PlaceKinds
  <2>2. \A d \in Conns : Draining(m, d)' \subseteq Draining(m, d)
    BY <2>1 DEF Draining
  <2>3. CASE Deliverable(c)
    <3>1. Return(s) /\ send' = [send EXCEPT ![c] = Append(q, i)]
      BY <1>3, <2>3 DEF Deliver
    <3>2. /\ \A t \in Senders \ {s} : Passing(m, t)' = Passing(m, t)
          /\ i # m => P = {} /\ Q = {}
          /\ i = m => P = 1 .. n /\ Q = 1 .. (n - 1)
      BY <1>0, <2>1, <3>1, ReturnCopies DEF Passing, ToMake
    <3>3. /\ Kept(m)[p] = P /\ Kept(m)[v] = At(m, q)
          /\ Kept(m)'[p] = Q /\ Kept(m)'[v] = At(m, Append(q, i))
      <4>1. send'[c] = Append(q, i)
        BY <1>0, <2>1, <3>1
      <4> QED
        BY <2>1, <4>1, KeptValues, KeptNext, ZenonT(60)
    <3> HIDE DEF i, n, P, Q, c
    <3>4. /\ q \in Seq(Nat) /\ Cardinality(At(m, q)) \in Nat
          /\ i # m => At(m, Append(q, i)) = At(m, q)
          /\ i = m => Cardinality(At(m, Append(q, i))) = Cardinality(At(m, q)) + 1
      BY <1>0, <2>1, AtFinite, AtAppend
    <3>5. /\ Cardinality({}) = 0 /\ Cardinality(1 .. n) = n
          /\ Cardinality(1 .. (n - 1)) = n - 1
      <4>1. 1 \in Int /\ n \in Int /\ n - 1 \in Int
        BY <1>0
      <4>2. Cardinality(1 .. n) = (IF 1 > n THEN 0 ELSE n - 1 + 1)
        BY <4>1, FS_Interval
      <4>3. Cardinality(1 .. (n - 1)) = (IF 1 > n - 1 THEN 0 ELSE n - 1 - 1 + 1)
        BY <4>1, FS_Interval
      <4> QED
        BY <1>0, <2>1, <4>2, <4>3, FS_EmptySet
    <3>6. Cardinality(Q) + Cardinality(At(m, Append(q, i)))
            <= Cardinality(P) + Cardinality(At(m, q))
      <4>1. CASE i = m
        <5>1. Cardinality(Q) = n - 1 /\ Cardinality(P) = n
          BY <3>2, <3>5, <4>1
        <5> QED
          BY <1>0, <3>4, <4>1, <5>1
      <4>2. CASE i # m
        <5>1. Cardinality(Q) = 0 /\ Cardinality(P) = 0
          BY <3>2, <3>5, <4>2
        <5> QED
          BY <3>4, <4>2, <5>1
      <4> QED
        BY <4>1, <4>2
    <3>7. Cardinality(Kept(m)'[p]) + Cardinality(Kept(m)'[v])
            <= Cardinality(Kept(m)[p]) + Cardinality(Kept(m)[v])
      BY <3>3, <3>6
    <3>8. /\ p # v
          /\ At(m, inbox') \subseteq At(m, inbox) /\ At(m, received') \subseteq At(m, received)
          /\ \A d \in Conns : <<"send", d>> \notin {p, v} => At(m, send'[d]) \subseteq At(m, send[d])
          /\ \A t \in Senders : <<"pass", t>> \notin {p, v} => Passing(m, t)' \subseteq Passing(m, t)
      BY <1>0, <2>1, <3>1, <3>2
    <3> QED
      BY <1>0, <2>1, <2>2, <3>7, <3>8, CopyMoves
  <2>4. CASE ~Deliverable(c)
    <3>1. pc' = [pc EXCEPT ![s] = "evict"] /\ UNCHANGED <<send, job>>
      BY <1>3, <2>4 DEF Deliver
    <3>2. pc'[s] = "evict" /\ \A t \in Senders \ {s} : pc'[t] = pc[t]
      BY <1>0, <3>1
    <3>3. \A t \in Senders : Passing(m, t)' = Passing(m, t)
      BY <2>1, <3>1, <3>2 DEF Passing, ToMake
    <3> QED
      BY <2>1, <2>2, <3>1, <3>3, CopyDrops
  <2> QED
    BY <2>3, <2>4
<1>4. CASE EnqueuePush(s)
  <2> DEFINE v == <<"inbox", None>>
  <2>1. /\ UNCHANGED <<received, send, flush, drained, job>>
        /\ inbox' = Append(inbox, i)
        /\ pc[s] = "rpush" /\ pc' = [pc EXCEPT ![s] = "ltrim"] /\ n >= 1
    <3>1. job[s].passes # <<>> /\ pc[s] = "rpush"
      BY <1>4 DEF Control, EnqueuePush
    <3>2. job[s].passes \in Seq(Passes)
      BY <1>0, RestTyped
    <3>3. n >= 1
      BY <3>1, <3>2
    <3> HIDE DEF n
    <3> QED
      BY <1>4, <3>1, <3>3 DEF EnqueuePush
  <2>2. /\ \A t \in Senders \ {s} : Passing(m, t)' = Passing(m, t)
        /\ i # m => P = {} /\ Q = {}
        /\ i = m => P = 1 .. n /\ Q = 2 .. n
    <3>1. pc'[s] = "ltrim" /\ \A t \in Senders \ {s} : pc'[t] = pc[t]
      BY <1>0, <2>1
    <3> QED
      BY <2>1, <3>1 DEF Passing, ToMake
  <2>3. /\ Kept(m)[p] = P /\ Kept(m)[v] = At(m, inbox)
        /\ Kept(m)'[p] = Q /\ Kept(m)'[v] = At(m, inbox')
    BY KeptValues, KeptNext
  <2> HIDE DEF i, n, P, Q
  <2>4. /\ Cardinality(At(m, inbox)) \in Nat
        /\ i # m => At(m, inbox') = At(m, inbox)
        /\ i = m => Cardinality(At(m, inbox')) = Cardinality(At(m, inbox)) + 1
    BY <1>0, <2>1, AtFinite, AtAppend
  <2>5. /\ Cardinality({}) = 0 /\ Cardinality(1 .. n) = n /\ Cardinality(2 .. n) = n - 1
    <3>1. 1 \in Int /\ 2 \in Int /\ n \in Int
      BY <1>0
    <3>2. Cardinality(1 .. n) = (IF 1 > n THEN 0 ELSE n - 1 + 1)
      BY <3>1, FS_Interval
    <3>3. Cardinality(2 .. n) = (IF 2 > n THEN 0 ELSE n - 2 + 1)
      BY <3>1, FS_Interval
    <3> QED
      BY <1>0, <2>1, <3>2, <3>3, FS_EmptySet
  <2>6. Cardinality(Q) + Cardinality(At(m, inbox')) <= Cardinality(P) + Cardinality(At(m, inbox))
    <3>1. CASE i = m
      <4>1. Cardinality(Q) = n - 1 /\ Cardinality(P) = n
        BY <2>2, <2>5, <3>1
      <4> QED
        BY <1>0, <2>4, <3>1, <4>1
    <3>2. CASE i # m
      <4>1. Cardinality(Q) = 0 /\ Cardinality(P) = 0
        BY <2>2, <2>5, <3>2
      <4> QED
        BY <2>4, <3>2, <4>1
    <3> QED
      BY <3>1, <3>2
  <2>7. Cardinality(Kept(m)'[p]) + Cardinality(Kept(m)'[v])
          <= Cardinality(Kept(m)[p]) + Cardinality(Kept(m)[v])
    BY <2>3, <2>6
  <2>8. /\ p # v /\ At(m, received') \subseteq At(m, received)
        /\ \A d \in Conns : At(m, send'[d]) \subseteq At(m, send[d])
        /\ \A d \in Conns : Draining(m, d)' \subseteq Draining(m, d)
        /\ \A t \in Senders : <<"pass", t>> \notin {p, v} => Passing(m, t)' \subseteq Passing(m, t)
    BY <2>1, <2>2 DEF Draining
  <2> QED
    BY <1>0, <2>7, <2>8, CopyMoves
<1>5. CASE EnqueueTrim(s)
  <2> DEFINE v == <<"inbox", None>>
             r == <<"received", None>>
  <2>1. /\ UNCHANGED <<received, send, flush, drained, job>>
        /\ inbox' = Trimmed(inbox) /\ pc[s] = "ltrim" /\ pc' = [pc EXCEPT ![s] = "expire"]
    BY <1>5 DEF EnqueueTrim
  <2>2. \A t \in Senders : Passing(m, t)' = Passing(m, t)
    <3>1. pc'[s] = "expire" /\ \A t \in Senders \ {s} : pc'[t] = pc[t]
      BY <1>0, <2>1
    <3> QED
      BY <2>1, <3>1 DEF Passing, ToMake
  <2>3. /\ Kept(m)[v] = At(m, inbox) /\ Kept(m)'[v] = At(m, Trimmed(inbox))
        /\ Kept(m)[r] = At(m, received) /\ Kept(m)'[r] = At(m, received)
    BY <2>1, KeptValues, KeptNext
  <2>4. Cardinality(Kept(m)'[v]) + Cardinality(Kept(m)'[r])
          <= Cardinality(Kept(m)[v]) + Cardinality(Kept(m)[r])
    <3>1. received \in Seq(Nat) /\ Trimmed(inbox) \in Seq(Nat)
      BY <1>0, TrimmedTyped DEF TypeOK
    <3>2. /\ Cardinality(At(m, received)) \in Nat /\ Cardinality(At(m, inbox)) \in Nat
          /\ Cardinality(At(m, Trimmed(inbox))) \in Nat
      BY <1>0, <3>1, AtFinite
    <3>3. Cardinality(At(m, Trimmed(inbox))) <= Cardinality(At(m, inbox))
      BY <1>0, AtTrimmed
    <3> QED
      BY <2>3, <3>2, <3>3
  <2>5. /\ v # r
        /\ \A d \in Conns : At(m, send'[d]) \subseteq At(m, send[d])
        /\ \A d \in Conns : Draining(m, d)' \subseteq Draining(m, d)
        /\ \A t \in Senders : Passing(m, t)' \subseteq Passing(m, t)
    BY <2>1, <2>2 DEF Draining
  <2> QED
    BY <1>0, <2>4, <2>5, CopyMoves
<1>6. CASE EnqueueExpire(s)
  <2> DEFINE r == <<"received", None>>
  <2>1. /\ UNCHANGED <<inbox, received, send, flush, drained>>
        /\ pc[s] = "expire" /\ Return(s)
    BY <1>6 DEF EnqueueExpire
  <2>2. /\ \A t \in Senders \ {s} : Passing(m, t)' = Passing(m, t)
        /\ i # m => P = {} /\ Q = {}
        /\ i = m => P = 2 .. n /\ Q = 1 .. (n - 1)
    BY <1>0, <2>1, ReturnCopies DEF Passing, ToMake
  <2>3. /\ Kept(m)[p] = P /\ Kept(m)[r] = At(m, received)
        /\ Kept(m)'[p] = Q /\ Kept(m)'[r] = At(m, received)
    BY <2>1, KeptValues, KeptNext
  <2> HIDE DEF i, n, P, Q
  <2>4. Cardinality(P) = Cardinality(Q)
    <3>1. 1 \in Int /\ 2 \in Int /\ n \in Int /\ n - 1 \in Int
      BY <1>0
    <3>2. Cardinality(1 .. (n - 1)) = (IF 1 > n - 1 THEN 0 ELSE n - 1 - 1 + 1)
      BY <3>1, FS_Interval
    <3>3. Cardinality(2 .. n) = (IF 2 > n THEN 0 ELSE n - 2 + 1)
      BY <3>1, FS_Interval
    <3>4. Cardinality(2 .. n) = Cardinality(1 .. (n - 1))
      BY <1>0, <3>2, <3>3
    <3>5. CASE i = m
      BY <2>2, <3>4, <3>5
    <3>6. CASE i # m
      BY <2>2, <3>6
    <3> QED
      BY <3>5, <3>6
  <2>5. Cardinality(Q) \in Nat /\ Cardinality(At(m, received)) \in Nat
    <3>1. IsFiniteSet(Q) /\ IsFiniteSet(At(m, received))
      BY <1>0, <2>3, KeptFiniteNext, PlaceKinds
    <3> QED
      BY <3>1, FS_CardinalityType
  <2>6. Cardinality(Kept(m)'[p]) + Cardinality(Kept(m)'[r])
          <= Cardinality(Kept(m)[p]) + Cardinality(Kept(m)[r])
    BY <2>3, <2>4, <2>5
  <2>7. /\ p # r /\ At(m, inbox') \subseteq At(m, inbox)
        /\ \A d \in Conns : At(m, send'[d]) \subseteq At(m, send[d])
        /\ \A d \in Conns : Draining(m, d)' \subseteq Draining(m, d)
        /\ \A t \in Senders : <<"pass", t>> \notin {p, r} => Passing(m, t)' \subseteq Passing(m, t)
    BY <2>1, <2>2 DEF Draining
  <2> QED
    BY <1>0, <2>6, <2>7, CopyMoves
<1>7. CASE EnqueueFails(s)
  <2>1. /\ UNCHANGED <<inbox, received, send, flush, drained>>
        /\ pc[s] = "rpush" /\ Return(s)
    BY <1>7 DEF EnqueueFails
  <2>2. /\ \A t \in Senders \ {s} : Passing(m, t)' = Passing(m, t)
        /\ i # m => Q = {}
        /\ i = m => P = 1 .. n /\ Q = 1 .. (n - 1)
    BY <1>0, <2>1, ReturnCopies DEF Passing, ToMake
  <2> HIDE DEF i, n, P, Q
  <2>3. Q \subseteq P
    BY <1>0, <2>2
  <2>4. \A t \in Senders : Passing(m, t)' \subseteq Passing(m, t)
    BY <2>2, <2>3 DEF P, Q
  <2>5. \A d \in Conns : Draining(m, d)' \subseteq Draining(m, d)
    BY <2>1 DEF Draining
  <2> QED
    BY <2>1, <2>4, <2>5, CopyDrops
<1>8. CASE EnqueueAgain(s)
  <2>1. /\ UNCHANGED <<inbox, received, send, flush, drained, job>>
        /\ pc' = [pc EXCEPT ![s] = "rpush"]
    BY <1>8 DEF EnqueueAgain
  <2>2. CASE i = m
    BY <1>8, <2>2 DEF Doubled
  <2>3. CASE i # m
    <3>1. \A t \in Senders \ {s} : pc'[t] = pc[t]
      BY <1>0, <2>1
    <3>2. \A t \in Senders : Passing(m, t)' \subseteq Passing(m, t)
      BY <2>1, <2>3, <3>1 DEF Passing, ToMake
    <3>3. \A d \in Conns : Draining(m, d)' \subseteq Draining(m, d)
      BY <2>1 DEF Draining
    <3> QED
      BY <2>1, <3>2, <3>3, CopyDrops
  <2> QED
    BY <2>2, <2>3
<1> QED
  BY <1>1, <1>2, <1>3, <1>4, <1>5, <1>6, <1>7, <1>8 DEF Forwarding

\* A step makes no copy, unless the DEL of a drain deletes less than it fetched
\* or an enqueue is executed again.
LEMMA CopyStep ==
    ASSUME TypeOK, TypeOK', Control, [Next]_vars, NEW m \in 1 .. lastId
    PROVE  Cardinality(Copies(m)') <= Cardinality(Copies(m)) \/ Doubled(m)
<1>1. CASE \E c \in Conns : Connection(c)
  BY <1>1, ConnectionCopies
<1>2. CASE \E s \in Senders : Arrive(s) \/ Forwarding(s)
  BY <1>2, ForwardingCopies
<1>3. CASE InboxExpires
  <2>1. UNCHANGED <<received, send, flush, drained, pc, job>> /\ inbox' = <<>>
    BY <1>3 DEF InboxExpires
  <2>2. /\ At(m, inbox') \subseteq At(m, inbox)
        /\ \A d \in Conns : Draining(m, d)' \subseteq Draining(m, d)
        /\ \A t \in Senders : Passing(m, t)' \subseteq Passing(m, t)
    BY <2>1 DEF At, Draining, Passing, ToMake
  <2> QED
    BY <2>1, <2>2, CopyDrops
<1>4. CASE Crash
  <2>1. /\ UNCHANGED <<inbox, received>>
        /\ \A c \in Conns : send'[c] = <<>> /\ flush'[c] # "deliver"
        /\ \A s \in Senders : job'[s].id = 0
    BY <1>4 DEF Crash, NoJob
  <2>2. At(m, <<>>) = {} /\ m # 0
    BY DEF At, TypeOK
  <2>3. /\ \A c \in Conns : At(m, send'[c]) \subseteq At(m, send[c])
        /\ \A c \in Conns : Draining(m, c)' \subseteq Draining(m, c)
        /\ \A s \in Senders : Passing(m, s)' \subseteq Passing(m, s)
    BY <2>1, <2>2 DEF Draining, Passing
  <2> QED
    BY <2>1, <2>3, CopyDrops
<1>5. CASE UNCHANGED vars
  <2>1. UNCHANGED <<inbox, received, send, flush, drained, pc, job>>
    BY <1>5
  <2>2. /\ \A d \in Conns : Draining(m, d)' \subseteq Draining(m, d)
        /\ \A t \in Senders : Passing(m, t)' \subseteq Passing(m, t)
    BY <2>1 DEF Draining, Passing, ToMake
  <2> QED
    BY <2>1, <2>2, CopyDrops
<1> QED
  BY <1>1, <1>2, <1>3, <1>4, <1>5 DEF Next

\* The bridge makes a second copy of a message in two ways only, two drains of
\* the same rider that overlap and a pipeline that Redis executes twice:
\* evictions, later passes, the offline path and crashes never do.
THEOREM CopyExplainedAlways == Spec => CopyExplained
<1> DEFINE Step == \A m \in 1 .. lastId :
        \/ Cardinality(Copies(m)') <= Cardinality(Copies(m))
        \/ \E c \in Conns : /\ DrainDel(c)
                            /\ Cardinality(At(m, drained[c])) > Cardinality(At(m, inbox))
        \/ \E s \in Senders : EnqueueAgain(s) /\ job[s].id = m
<1>1. TypeOK /\ Control /\ TypeOK' /\ [Next]_vars => [Step]_vars
  <2> SUFFICES ASSUME TypeOK, Control, TypeOK', [Next]_vars
               PROVE  Step
    OBVIOUS
  <2> SUFFICES ASSUME NEW m \in 1 .. lastId
               PROVE  Cardinality(Copies(m)') <= Cardinality(Copies(m)) \/ Doubled(m)
    BY DEF Doubled
  <2> QED
    BY CopyStep
<1> QED
  BY <1>1, TypeCorrect, PTL DEF Spec, CopyExplained

=============================================================================
