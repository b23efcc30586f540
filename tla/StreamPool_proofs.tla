--------------------------- MODULE StreamPool_proofs ---------------------------
(***************************************************************************)
(* Proofs about StreamPool: its types, that no stream leaks, and in which  *)
(* ways a message is lost, for every number of senders and streams and     *)
(* every window.                                                           *)
(***************************************************************************)
EXTENDS StreamPool, TLAPS

USE DEF linkVars, poolVars, sendVars, otherVars, vars

------------------------------------------------------------------------------
(* The inductive invariant *)

\* The stages at which a sender has a stream.
HasStream == {"put", "lock", "write", "stuck", "evict", "reset", "write1", "stuck1"}

\* A sender at one of them has a stream that was opened, and a message as long
\* as it is sending; a stream taken out of the pool is kept for the reset that
\* follows; and nobody else changes the pool while the janitor is in it.
Control ==
    /\ \A s \in Senders : /\ pc[s] \in HasStream => mine[s] \in Streams
                          /\ pc[s] # "idle" => msg[s] \in 1 .. MaxMessages
                          /\ pc[s] # "reset" => victim[s] = None
    /\ callback # "reset" => dropped = None
    /\ janitor # None => pool = janitor

IInv == TypeOK /\ Control /\ NoStreamLeak

LEMMA InitIInv == Init => IInv
<1> SUFFICES ASSUME Init
             PROVE  IInv
  OBVIOUS
<1>1. TypeOK
  <2>1. \A x \in Streams, s \in Senders :
          lock[x] = s <=> pc[s] \in {"write", "stuck"} /\ mine[s] = x
    BY PoolNone DEF Init
  <2> DEFINE S == Seq(1 .. MaxMessages)
  <2>2. <<>> \in S
    OBVIOUS
  <2>3. 0 \in 0 .. MaxMessages /\ 0 \in 0 .. MaxDrops
    BY PoolBounds
  <2> HIDE DEF S
  <2>4. wire \in [Streams -> S]
    BY <2>2 DEF Init
  <2> QED
    BY <2>1, <2>3, <2>4 DEF Init, TypeOK, PCs, S
<1>2. Control
  BY PoolNone DEF Init, Control, HasStream
<1>3. NoStreamLeak
  BY DEF Init, NoStreamLeak
<1> QED
  BY <1>1, <1>2, <1>3 DEF IInv

\* What a reset does, to streams that are dead already too
LEMMA ResetWorks ==
    ASSUME TypeOK, NEW dead \in SUBSET Streams, ResetAll(dead)
    PROVE  /\ stream' \in [Streams -> {"unused", "open", "closed", "reset"}]
           /\ wire' \in [Streams -> Seq(1 .. MaxMessages)]
           /\ \A x \in dead : stream'[x] # "open"
           /\ \A x \in Streams : stream'[x] = "open" => stream[x] = "open"
<1>1. stream' \in [Streams -> {"unused", "open", "closed", "reset"}]
  BY DEF TypeOK, ResetAll
<1>2. wire' \in [Streams -> Seq(1 .. MaxMessages)]
  <2> DEFINE S == Seq(1 .. MaxMessages)
  <2>1. <<>> \in S
    OBVIOUS
  <2>2. wire \in [Streams -> S]
    BY DEF TypeOK
  <2> HIDE DEF S
  <2>3. wire' \in [Streams -> S]
    BY <2>1, <2>2 DEF ResetAll
  <2> QED
    BY <2>3 DEF S
<1>3. \A x \in Streams : /\ x \in dead => stream'[x] # "open"
                         /\ stream'[x] = "open" => stream[x] = "open"
  BY DEF TypeOK, ResetAll
<1> QED
  BY <1>1, <1>2, <1>3

------------------------------------------------------------------------------
(* SendToPeer *)

LEMMA SendKeeps ==
    ASSUME IInv, NEW s \in Senders, Send(s)
    PROVE  IInv'
<1> USE PoolNone, PoolBounds DEF IInv
<1>1. TypeOK'
  BY DEF TypeOK, Control, PCs, HasStream, Send, Goes
<1>2. Control'
  BY DEF TypeOK, Control, PCs, HasStream, Send, Goes
<1>3. NoStreamLeak'
  BY DEF TypeOK, Control, PCs, HasStream, NoStreamLeak, Owned, Send, Goes
<1> QED
  BY <1>1, <1>2, <1>3

LEMMA BeginKeeps ==
    ASSUME IInv, NEW s \in Senders, Begin(s)
    PROVE  IInv'
<1> USE PoolNone, PoolBounds DEF IInv
<1>1. CASE node # "running" /\ Returns(s)
  <2>1. TypeOK'
    BY <1>1 DEF TypeOK, Control, PCs, HasStream, Begin, Goes, Returns
  <2>2. Control'
    BY <1>1 DEF TypeOK, Control, PCs, HasStream, Begin, Goes, Returns
  <2>3. NoStreamLeak'
    BY <1>1 DEF TypeOK, Control, PCs, HasStream, NoStreamLeak, Owned, Begin, Goes, Returns
  <2> QED
    BY <2>1, <2>2, <2>3
<1>2. ASSUME NEW next \in {"get", "dial"}, Goes(s, next), UNCHANGED <<msg, mine, fresh>>
      PROVE  IInv'
  <2>1. TypeOK'
    BY <1>2 DEF TypeOK, Control, PCs, HasStream, Begin, Goes
  <2>2. Control'
    BY <1>2 DEF TypeOK, Control, PCs, HasStream, Begin, Goes
  <2>3. NoStreamLeak'
    BY <1>2 DEF TypeOK, Control, PCs, HasStream, NoStreamLeak, Owned, Begin, Goes
  <2> QED
    BY <2>1, <2>2, <2>3
<1> QED
  BY <1>1, <1>2 DEF Begin

LEMMA DialKeeps ==
    ASSUME IInv, NEW s \in Senders, Dial(s)
    PROVE  IInv'
<1> USE PoolNone, PoolBounds DEF IInv
<1>1. conn' \in {"up", "down"}
  BY DEF TypeOK, Dial, Connects
<1>2. ASSUME NEW next \in {"get", "find"}, Goes(s, next)
      PROVE  IInv'
  <2>1. TypeOK'
    BY <1>1, <1>2 DEF TypeOK, Control, PCs, HasStream, Dial, Goes
  <2>2. Control'
    BY <1>2 DEF TypeOK, Control, PCs, HasStream, Dial, Goes
  <2>3. NoStreamLeak'
    BY <1>2 DEF TypeOK, Control, PCs, HasStream, NoStreamLeak, Owned, Dial, Goes
  <2> QED
    BY <2>1, <2>2, <2>3
<1> QED
  BY <1>2 DEF Dial

LEMMA FindKeeps ==
    ASSUME IInv, NEW s \in Senders, Find(s)
    PROVE  IInv'
<1> USE PoolNone, PoolBounds DEF IInv
<1>1. TypeOK'
  BY DEF TypeOK, Control, PCs, HasStream, Find, Goes, Connects
<1>2. Control'
  BY DEF TypeOK, Control, PCs, HasStream, Find, Goes, Connects
<1>3. NoStreamLeak'
  BY DEF TypeOK, Control, PCs, HasStream, NoStreamLeak, Owned, Find, Goes, Connects
<1> QED
  BY <1>1, <1>2, <1>3

LEMMA UnreachableKeeps ==
    ASSUME IInv, NEW s \in Senders, Unreachable(s)
    PROVE  IInv'
<1> USE PoolNone, PoolBounds DEF IInv
<1>1. TypeOK'
  BY DEF TypeOK, Control, PCs, HasStream, Unreachable, Goes, Returns
<1>2. Control'
  BY DEF TypeOK, Control, PCs, HasStream, Unreachable, Goes, Returns
<1>3. NoStreamLeak'
  BY DEF TypeOK, Control, PCs, HasStream, NoStreamLeak, Owned, Unreachable, Goes, Returns
<1> QED
  BY <1>1, <1>2, <1>3

LEMMA GetKeeps ==
    ASSUME IInv, NEW s \in Senders, Get(s)
    PROVE  IInv'
<1> USE PoolNone, PoolBounds DEF IInv
<1>1. TypeOK'
  BY DEF TypeOK, Control, PCs, HasStream, Get, Goes
<1>2. Control'
  BY DEF TypeOK, Control, PCs, HasStream, Get, Goes
<1>3. NoStreamLeak'
  BY DEF TypeOK, Control, PCs, HasStream, NoStreamLeak, Owned, Get, Goes
<1> QED
  BY <1>1, <1>2, <1>3

LEMMA OpenKeeps ==
    ASSUME IInv, NEW s \in Senders, NEW x \in Streams, Open(s, x)
    PROVE  IInv'
<1> USE PoolNone, PoolBounds DEF IInv
<1>1. TypeOK'
  <2>1. /\ pc' = [pc EXCEPT ![s] = "put"] \/ pc' = [pc EXCEPT ![s] = "write1"]
        /\ pc[s] = "open"
    BY DEF Open, Goes
  <2>2. pc' \in [Senders -> PCs] /\ pc'[s] \in {"put", "write1"}
        /\ \A t \in Senders \ {s} : pc'[t] = pc[t]
    <3>0. pc \in [Senders -> PCs] /\ "put" \in PCs /\ "write1" \in PCs
      BY DEF TypeOK, PCs
    <3>1. CASE pc' = [pc EXCEPT ![s] = "put"]
      BY <3>0, <3>1
    <3>2. CASE pc' = [pc EXCEPT ![s] = "write1"]
      BY <3>0, <3>2
    <3> QED
      BY <2>1, <3>1, <3>2
  <2>3. /\ stream' \in [Streams -> {"unused", "open", "closed", "reset"}]
        /\ mine' \in [Senders -> Streams \cup {None}]
        /\ fresh' \in [Senders -> BOOLEAN]
        /\ conn' \in {"up", "down"}
    BY DEF TypeOK, Open, Connects
  <2>4. \A y \in Streams, t \in Senders :
          lock'[y] = t <=> pc'[t] \in {"write", "stuck"} /\ mine'[t] = y
    BY <2>1, <2>2 DEF TypeOK, Open
  <2> QED
    BY <2>2, <2>3, <2>4 DEF TypeOK, Open
<1>2. Control'
  BY DEF TypeOK, Control, PCs, HasStream, Open, Goes
<1>3. NoStreamLeak'
  <2> SUFFICES ASSUME NEW y \in Streams, stream'[y] = "open"
               PROVE  Owned(y)'
    BY DEF NoStreamLeak
  <2>1. \A t \in Senders \ {s} : pc'[t] = pc[t] /\ mine'[t] = mine[t] /\ victim'[t] = victim[t]
    BY DEF TypeOK, Open, Goes
  <2>2. mine'[s] = x /\ pc'[s] \in {"put", "write1"} /\ victim'[s] = victim[s]
    BY DEF TypeOK, Open, Goes
  <2>3. CASE y = x
    BY <2>2, <2>3 DEF Owned
  <2>4. CASE y # x
    <3>1. stream[y] = "open"
      BY <2>4 DEF TypeOK, Open
    <3>2. Owned(y)
      BY <3>1 DEF NoStreamLeak
    <3> QED
      BY <2>1, <2>2, <3>2 DEF Owned, Open
  <2> QED
    BY <2>3, <2>4
<1> QED
  BY <1>1, <1>2, <1>3

LEMMA PutKeeps ==
    ASSUME IInv, NEW s \in Senders, Put(s)
    PROVE  IInv'
<1> USE PoolNone, PoolBounds DEF IInv
<1>1. TypeOK'
  <2>1. ResetAll({pool} \ {None}) /\ {pool} \ {None} \in SUBSET Streams
    BY DEF TypeOK, Put
  <2>2. /\ stream' \in [Streams -> {"unused", "open", "closed", "reset"}]
        /\ wire' \in [Streams -> Seq(1 .. MaxMessages)]
    BY <2>1, ResetWorks
  <2>3. pool' \in Streams /\ pc' \in [Senders -> PCs]
    BY DEF TypeOK, Control, HasStream, PCs, Put, Goes
  <2>4. \A y \in Streams, t \in Senders :
          lock'[y] = t <=> pc'[t] \in {"write", "stuck"} /\ mine'[t] = y
    BY DEF TypeOK, Put, Goes
  <2> QED
    BY <2>2, <2>3, <2>4 DEF TypeOK, Put
<1>2. Control'
  BY DEF TypeOK, Control, PCs, HasStream, Put, Goes
<1>3. NoStreamLeak'
  <2> SUFFICES ASSUME NEW y \in Streams, stream'[y] = "open"
               PROVE  Owned(y)'
    BY DEF NoStreamLeak
  <2>1. \A t \in Senders \ {s} : pc'[t] = pc[t] /\ mine'[t] = mine[t] /\ victim'[t] = victim[t]
    BY DEF TypeOK, Put, Goes
  <2>2. y # pool /\ stream[y] = "open"
    <3>0. y # None
      BY DEF Streams
    <3>1. ResetAll({pool} \ {None}) /\ {pool} \ {None} \in SUBSET Streams
      BY DEF TypeOK, Put
    <3>2. /\ \A z \in {pool} \ {None} : stream'[z] # "open"
          /\ \A z \in Streams : stream'[z] = "open" => stream[z] = "open"
      BY <3>1, ResetWorks
    <3>3. y \notin {pool} \ {None}
      BY <3>2
    <3> QED
      BY <3>0, <3>2, <3>3
  <2>3. Owned(y)
    BY <2>2 DEF NoStreamLeak
  <2>4. pool' = mine[s] /\ victim'[s] = victim[s]
    BY DEF Put
  <2> QED
    BY <2>1, <2>2, <2>3, <2>4 DEF Owned, Put
<1> QED
  BY <1>1, <1>2, <1>3

LEMMA LockKeeps ==
    ASSUME IInv, NEW s \in Senders, Lock(s)
    PROVE  IInv'
<1> USE PoolNone, PoolBounds DEF IInv
<1>1. TypeOK'
  BY DEF TypeOK, Control, PCs, HasStream, Lock, Goes
<1>2. Control'
  BY DEF TypeOK, Control, PCs, HasStream, Lock, Goes
<1>3. NoStreamLeak'
  BY DEF TypeOK, Control, PCs, HasStream, NoStreamLeak, Owned, Lock, Goes
<1> QED
  BY <1>1, <1>2, <1>3

LEMMA WriteKeeps ==
    ASSUME IInv, NEW s \in Senders, Write(s)
    PROVE  IInv'
<1> USE PoolNone, PoolBounds DEF IInv
<1>1. TypeOK'
  BY DEF TypeOK, Control, PCs, HasStream, Write, Goes, Returns
<1>2. Control'
  BY DEF TypeOK, Control, PCs, HasStream, Write, Goes, Returns
<1>3. NoStreamLeak'
  BY DEF TypeOK, Control, PCs, HasStream, NoStreamLeak, Owned, Write, Goes, Returns
<1> QED
  BY <1>1, <1>2, <1>3

LEMMA WriteBigKeeps ==
    ASSUME IInv, NEW s \in Senders, WriteBig(s)
    PROVE  IInv'
<1> USE PoolNone, PoolBounds DEF IInv
<1>1. TypeOK'
  BY DEF TypeOK, Control, PCs, HasStream, WriteBig, Goes
<1>2. Control'
  BY DEF TypeOK, Control, PCs, HasStream, WriteBig, Goes
<1>3. NoStreamLeak'
  BY DEF TypeOK, Control, PCs, HasStream, NoStreamLeak, Owned, WriteBig, Goes
<1> QED
  BY <1>1, <1>2, <1>3

LEMMA WriteFailsKeeps ==
    ASSUME IInv, NEW s \in Senders, WriteFails(s)
    PROVE  IInv'
<1> USE PoolNone, PoolBounds DEF IInv
<1>1. TypeOK'
  BY DEF TypeOK, Control, PCs, HasStream, WriteFails, Goes
<1>2. Control'
  BY DEF TypeOK, Control, PCs, HasStream, WriteFails, Goes
<1>3. NoStreamLeak'
  BY DEF TypeOK, Control, PCs, HasStream, NoStreamLeak, Owned, WriteFails, Goes
<1> QED
  BY <1>1, <1>2, <1>3

LEMMA EvictKeeps ==
    ASSUME IInv, NEW s \in Senders, Evict(s)
    PROVE  IInv'
<1> USE PoolNone, PoolBounds DEF IInv
<1>1. TypeOK'
  BY DEF TypeOK, Control, PCs, HasStream, Evict, Goes
<1>2. Control'
  BY DEF TypeOK, Control, PCs, HasStream, Evict, Goes
<1>3. NoStreamLeak'
  <2> SUFFICES ASSUME NEW y \in Streams, stream'[y] = "open"
               PROVE  Owned(y)'
    BY DEF NoStreamLeak
  <2>1. \A t \in Senders \ {s} : pc'[t] = pc[t] /\ mine'[t] = mine[t] /\ victim'[t] = victim[t]
    BY DEF TypeOK, Evict, Goes
  <2>2. Owned(y)
    BY DEF NoStreamLeak, Evict
  <2>3. pc[s] = "evict" /\ victim[s] = None /\ victim'[s] = pool
    BY DEF TypeOK, Control, Evict
  <2> QED
    BY <2>1, <2>2, <2>3 DEF Owned, Evict
<1> QED
  BY <1>1, <1>2, <1>3

LEMMA ResetVictimKeeps ==
    ASSUME IInv, NEW s \in Senders, ResetVictim(s)
    PROVE  IInv'
<1> USE PoolNone, PoolBounds DEF IInv
<1>1. TypeOK'
  <2>1. ResetAll({victim[s]} \ {None}) /\ {victim[s]} \ {None} \in SUBSET Streams
    BY DEF TypeOK, ResetVictim
  <2>2. /\ stream' \in [Streams -> {"unused", "open", "closed", "reset"}]
        /\ wire' \in [Streams -> Seq(1 .. MaxMessages)]
    BY <2>1, ResetWorks
  <2>3. /\ pc' \in [Senders -> PCs] /\ mine' \in [Senders -> Streams \cup {None}]
        /\ victim' \in [Senders -> Streams \cup {None}]
        /\ msg' \in [Senders -> 0 .. MaxMessages]
        /\ fresh' \in [Senders -> BOOLEAN]
    <3>0. /\ pc \in [Senders -> PCs] /\ mine \in [Senders -> Streams \cup {None}]
          /\ victim \in [Senders -> Streams \cup {None}]
          /\ msg \in [Senders -> 0 .. MaxMessages]
          /\ fresh \in [Senders -> BOOLEAN]
          /\ victim' = [victim EXCEPT ![s] = None]
      BY DEF TypeOK, ResetVictim
    <3>1. "idle" \in PCs /\ "open" \in PCs /\ 0 \in 0 .. MaxMessages
      BY DEF PCs
    <3>2. CASE fresh[s]
      <4>1. /\ pc' = [pc EXCEPT ![s] = "idle"]     /\ msg' = [msg EXCEPT ![s] = 0]
            /\ mine' = [mine EXCEPT ![s] = None]
            /\ fresh' = [fresh EXCEPT ![s] = FALSE]
        BY <3>2 DEF ResetVictim, Goes, Returns
      <4> QED
        BY <3>0, <3>1, <4>1
    <3>3. CASE ~fresh[s]
      <4>1. /\ pc' = [pc EXCEPT ![s] = "open"] /\ mine' = [mine EXCEPT ![s] = None]
            /\ UNCHANGED <<msg, fresh>>
        BY <3>3 DEF ResetVictim, Goes
      <4> QED
        BY <3>0, <3>1, <4>1
    <3> QED
      BY <3>2, <3>3
  <2>4. \A y \in Streams, t \in Senders :
          lock'[y] = t <=> pc'[t] \in {"write", "stuck"} /\ mine'[t] = y
    <3>1. pc[s] = "reset" /\ pc'[s] \in {"idle", "open"} /\ UNCHANGED lock
          /\ \A t \in Senders \ {s} : pc'[t] = pc[t] /\ mine'[t] = mine[t]
      BY DEF TypeOK, ResetVictim, Goes, Returns
    <3> TAKE y \in Streams, t \in Senders
    <3>2. lock[y] = t <=> pc[t] \in {"write", "stuck"} /\ mine[t] = y
      BY DEF TypeOK
    <3>3. CASE t = s
      BY <3>1, <3>2, <3>3
    <3>4. CASE t # s
      BY <3>1, <3>2, <3>4
    <3> QED
      BY <3>3, <3>4
  <2> QED
    BY <2>2, <2>3, <2>4 DEF TypeOK, ResetVictim
<1>2. Control'
  BY DEF TypeOK, Control, PCs, HasStream, ResetVictim, Goes, Returns
<1>3. NoStreamLeak'
  <2> SUFFICES ASSUME NEW y \in Streams, stream'[y] = "open"
               PROVE  Owned(y)'
    BY DEF NoStreamLeak
  <2>1. \A t \in Senders \ {s} : pc'[t] = pc[t] /\ mine'[t] = mine[t] /\ victim'[t] = victim[t]
    BY DEF TypeOK, ResetVictim, Goes, Returns
  <2>2. y # victim[s] /\ stream[y] = "open"
    <3>0. y # None
      BY DEF Streams
    <3>1. ResetAll({victim[s]} \ {None}) /\ {victim[s]} \ {None} \in SUBSET Streams
      BY DEF TypeOK, ResetVictim
    <3>2. /\ \A z \in {victim[s]} \ {None} : stream'[z] # "open"
          /\ \A z \in Streams : stream'[z] = "open" => stream[z] = "open"
      BY <3>1, ResetWorks
    <3>3. y \notin {victim[s]} \ {None}
      BY <3>2
    <3> QED
      BY <3>0, <3>2, <3>3
  <2>3. Owned(y)
    BY <2>2 DEF NoStreamLeak
  <2>4. pc[s] = "reset"
    BY DEF ResetVictim
  <2> QED
    BY <2>1, <2>2, <2>3, <2>4 DEF Owned, ResetVictim
<1> QED
  BY <1>1, <1>2, <1>3

LEMMA WriteV1Keeps ==
    ASSUME IInv, NEW s \in Senders, WriteV1(s)
    PROVE  IInv'
<1> USE PoolNone, PoolBounds DEF IInv
<1>1. TypeOK'
  BY DEF TypeOK, Control, PCs, HasStream, WriteV1, Goes, Returns
<1>2. Control'
  BY DEF TypeOK, Control, PCs, HasStream, WriteV1, Goes, Returns
<1>3. NoStreamLeak'
  BY DEF TypeOK, Control, PCs, HasStream, NoStreamLeak, Owned, WriteV1, Goes, Returns
<1> QED
  BY <1>1, <1>2, <1>3

LEMMA V1FailsKeeps ==
    ASSUME IInv, NEW s \in Senders, V1Fails(s)
    PROVE  IInv'
<1> USE PoolNone, PoolBounds DEF IInv
<1>1. TypeOK'
  BY DEF TypeOK, Control, PCs, HasStream, V1Fails, Goes, Returns
<1>2. Control'
  BY DEF TypeOK, Control, PCs, HasStream, V1Fails, Goes, Returns
<1>3. NoStreamLeak'
  BY DEF TypeOK, Control, PCs, HasStream, NoStreamLeak, Owned, V1Fails, Goes, Returns
<1> QED
  BY <1>1, <1>2, <1>3

LEMMA ReadKeeps ==
    ASSUME IInv, NEW x \in Streams, Read(x)
    PROVE  IInv'
<1> USE PoolNone, PoolBounds DEF IInv
<1>1. TypeOK'
  <2>1. Head(wire[x]) \in 1 .. MaxMessages /\ Tail(wire[x]) \in Seq(1 .. MaxMessages)
    BY DEF TypeOK, Read
  <2>2. wire' \in [Streams -> Seq(1 .. MaxMessages)]
    <3> DEFINE S == Seq(1 .. MaxMessages)
    <3>1. wire \in [Streams -> S] /\ Tail(wire[x]) \in S
      BY <2>1 DEF TypeOK
    <3>2. wire' = [wire EXCEPT ![x] = Tail(wire[x])]
      BY DEF Read
    <3> HIDE DEF S
    <3>3. wire' \in [Streams -> S]
      BY <3>1, <3>2
    <3> QED
      BY <3>3 DEF S
  <2>3. reader' \in [Streams -> {"reads", "returned"}]
    BY DEF TypeOK, Read
  <2> QED
    BY <2>2, <2>3 DEF TypeOK, Read
<1>2. Control'
  BY DEF TypeOK, Control, PCs, HasStream, Read
<1>3. NoStreamLeak'
  BY DEF TypeOK, Control, PCs, HasStream, NoStreamLeak, Owned, Read
<1> QED
  BY <1>1, <1>2, <1>3

LEMMA IdleKeeps ==
    ASSUME IInv, NEW x \in Streams, Idle(x)
    PROVE  IInv'
<1> USE PoolNone, PoolBounds DEF IInv
<1>1. TypeOK'
  BY DEF TypeOK, Control, PCs, HasStream, Idle
<1>2. Control'
  BY DEF TypeOK, Control, PCs, HasStream, Idle
<1>3. NoStreamLeak'
  BY DEF TypeOK, Control, PCs, HasStream, NoStreamLeak, Owned, Idle
<1> QED
  BY <1>1, <1>2, <1>3

LEMMA PickKeeps ==
    ASSUME IInv, NEW x \in Streams, Pick(x)
    PROVE  IInv'
<1> USE PoolNone, PoolBounds DEF IInv
<1>1. TypeOK'
  BY DEF TypeOK, Control, PCs, HasStream, Pick
<1>2. Control'
  BY DEF TypeOK, Control, PCs, HasStream, Pick
<1>3. NoStreamLeak'
  BY DEF TypeOK, Control, PCs, HasStream, NoStreamLeak, Owned, Pick
<1> QED
  BY <1>1, <1>2, <1>3

------------------------------------------------------------------------------
(* The other steps that reset or take streams *)

LEMMA SweepKeeps ==
    ASSUME IInv, Sweep
    PROVE  IInv'
<1> USE PoolNone, PoolBounds DEF IInv
<1>0. ResetAll({janitor}) /\ {janitor} \in SUBSET Streams
  BY DEF TypeOK, Sweep
<1>1. /\ stream' \in [Streams -> {"unused", "open", "closed", "reset"}]
      /\ wire' \in [Streams -> Seq(1 .. MaxMessages)]
      /\ \A z \in {janitor} : stream'[z] # "open"
      /\ \A z \in Streams : stream'[z] = "open" => stream[z] = "open"
  BY <1>0, ResetWorks
<1>2. TypeOK'
  BY <1>1 DEF TypeOK, Sweep
<1>3. Control'
  BY DEF TypeOK, Control, Sweep
<1>4. NoStreamLeak'
  BY <1>1, ZenonT(60) DEF TypeOK, Control, NoStreamLeak, Owned, Sweep
<1> QED
  BY <1>2, <1>3, <1>4

LEMMA ConnectionLostKeeps ==
    ASSUME IInv, ConnectionLost
    PROVE  IInv'
<1> USE PoolNone, PoolBounds DEF IInv
<1>0. ResetAll(Streams) /\ Streams \in SUBSET Streams
  BY DEF TypeOK, ConnectionLost
<1>1. /\ stream' \in [Streams -> {"unused", "open", "closed", "reset"}]
      /\ wire' \in [Streams -> Seq(1 .. MaxMessages)]
      /\ \A z \in Streams : stream'[z] # "open"
      /\ \A z \in Streams : stream'[z] = "open" => stream[z] = "open"
  BY <1>0, ResetWorks
<1>2. TypeOK'
  BY <1>1 DEF TypeOK, ConnectionLost
<1>3. Control'
  BY DEF TypeOK, Control, ConnectionLost
<1>4. NoStreamLeak'
  BY <1>1 DEF TypeOK, Control, NoStreamLeak, Owned, ConnectionLost
<1> QED
  BY <1>2, <1>3, <1>4

LEMMA CallbackResetKeeps ==
    ASSUME IInv, CallbackReset
    PROVE  IInv'
<1> USE PoolNone, PoolBounds DEF IInv
<1>0. ResetAll(({dropped} \ {None})) /\ ({dropped} \ {None}) \in SUBSET Streams
  BY DEF TypeOK, CallbackReset
<1>1. /\ stream' \in [Streams -> {"unused", "open", "closed", "reset"}]
      /\ wire' \in [Streams -> Seq(1 .. MaxMessages)]
      /\ \A z \in ({dropped} \ {None}) : stream'[z] # "open"
      /\ \A z \in Streams : stream'[z] = "open" => stream[z] = "open"
  BY <1>0, ResetWorks
<1>2. TypeOK'
  BY <1>1 DEF TypeOK, CallbackReset
<1>3. Control'
  BY DEF TypeOK, Control, CallbackReset
<1>4. NoStreamLeak'
  BY <1>1 DEF TypeOK, Control, NoStreamLeak, Owned, CallbackReset
<1> QED
  BY <1>2, <1>3, <1>4

LEMMA NetworkChangedKeeps ==
    ASSUME IInv, NetworkChanged
    PROVE  IInv'
<1> USE PoolNone, PoolBounds DEF IInv
<1>0. ResetAll({pool}) /\ {pool} \in SUBSET Streams
  BY DEF TypeOK, NetworkChanged
<1>1. /\ stream' \in [Streams -> {"unused", "open", "closed", "reset"}]
      /\ wire' \in [Streams -> Seq(1 .. MaxMessages)]
      /\ \A z \in {pool} : stream'[z] # "open"
      /\ \A z \in Streams : stream'[z] = "open" => stream[z] = "open"
  BY <1>0, ResetWorks
<1>2. TypeOK'
  BY <1>1 DEF TypeOK, NetworkChanged
<1>3. Control'
  BY DEF TypeOK, Control, NetworkChanged
<1>4. NoStreamLeak'
  BY <1>1, ZenonT(60) DEF TypeOK, Control, NoStreamLeak, Owned, NetworkChanged
<1> QED
  BY <1>2, <1>3, <1>4

LEMMA CallbackEvictKeeps ==
    ASSUME IInv, CallbackEvict
    PROVE  IInv'
<1> USE PoolNone, PoolBounds DEF IInv
<1>1. TypeOK'
  BY DEF TypeOK, CallbackEvict
<1>2. Control'
  BY DEF TypeOK, Control, CallbackEvict
<1>3. NoStreamLeak'
  BY DEF TypeOK, Control, NoStreamLeak, Owned, CallbackEvict
<1> QED
  BY <1>1, <1>2, <1>3

LEMMA CallbackEndsKeeps ==
    ASSUME IInv, CallbackEnds
    PROVE  IInv'
<1> USE PoolNone, PoolBounds DEF IInv
<1>1. TypeOK'
  BY DEF TypeOK, CallbackEnds
<1>2. Control'
  BY DEF TypeOK, Control, CallbackEnds
<1>3. NoStreamLeak'
  BY DEF TypeOK, Control, NoStreamLeak, Owned, CallbackEnds
<1> QED
  BY <1>1, <1>2, <1>3

LEMMA ConnectionMadeKeeps ==
    ASSUME IInv, ConnectionMade
    PROVE  IInv'
<1> USE PoolNone, PoolBounds DEF IInv
<1>1. TypeOK'
  BY DEF TypeOK, ConnectionMade
<1>2. Control'
  BY DEF TypeOK, Control, ConnectionMade
<1>3. NoStreamLeak'
  BY DEF TypeOK, Control, NoStreamLeak, Owned, ConnectionMade
<1> QED
  BY <1>1, <1>2, <1>3

LEMMA StartReturnsKeeps ==
    ASSUME IInv, StartReturns
    PROVE  IInv'
<1> USE PoolNone, PoolBounds DEF IInv
<1>1. TypeOK'
  BY DEF TypeOK, StartReturns
<1>2. Control'
  BY DEF TypeOK, Control, StartReturns
<1>3. NoStreamLeak'
  BY DEF TypeOK, Control, NoStreamLeak, Owned, StartReturns
<1> QED
  BY <1>1, <1>2, <1>3

LEMMA CloseReturnsKeeps ==
    ASSUME IInv, CloseReturns
    PROVE  IInv'
<1> USE PoolNone, PoolBounds DEF IInv
<1>1. TypeOK'
  BY DEF TypeOK, CloseReturns
<1>2. Control'
  BY DEF TypeOK, Control, CloseReturns
<1>3. NoStreamLeak'
  BY DEF TypeOK, Control, NoStreamLeak, Owned, CloseReturns
<1> QED
  BY <1>1, <1>2, <1>3

LEMMA StopKeeps ==
    ASSUME IInv, Stop
    PROVE  IInv'
<1> USE PoolNone, PoolBounds DEF IInv
<1>0. ResetAll(Streams) /\ Streams \in SUBSET Streams
  BY DEF TypeOK, Stop
<1>1. /\ stream' \in [Streams -> {"unused", "open", "closed", "reset"}]
      /\ wire' \in [Streams -> Seq(1 .. MaxMessages)]
      /\ \A z \in Streams : stream'[z] # "open"
      /\ \A z \in Streams : stream'[z] = "open" => stream[z] = "open"
  BY <1>0, ResetWorks
<1>2. TypeOK'
  BY <1>1 DEF TypeOK, Stop
<1>3. Control'
  BY DEF TypeOK, Control, Stop
<1>4. NoStreamLeak'
  BY <1>1 DEF TypeOK, Control, NoStreamLeak, Owned, Stop
<1> QED
  BY <1>2, <1>3, <1>4

------------------------------------------------------------------------------
LEMMA NextIInv == IInv /\ [Next]_vars => IInv'
<1> SUFFICES ASSUME IInv, [Next]_vars
             PROVE  IInv'
  OBVIOUS
<1>1. ASSUME NEW s \in Senders, Send(s) \/ Sending(s)
      PROVE  IInv'
  BY <1>1, SendKeeps, BeginKeeps, DialKeeps, FindKeeps, UnreachableKeeps, GetKeeps, OpenKeeps, PutKeeps,
     LockKeeps, WriteKeeps, WriteBigKeeps, WriteFailsKeeps, EvictKeeps, ResetVictimKeeps,
     WriteV1Keeps, V1FailsKeeps
  DEF Sending
<1>2. ASSUME NEW x \in Streams, Read(x)
      PROVE  IInv'
  BY <1>2, ReadKeeps
<1>3. CASE Janitor \/ Callback
  BY <1>3, SweepKeeps, IdleKeeps, PickKeeps, CallbackEvictKeeps, CallbackResetKeeps,
     CallbackEndsKeeps
  DEF Janitor, Callback
<1>4. CASE ConnectionLost \/ ConnectionMade \/ NetworkChanged \/ Running \/ Stop
  BY <1>4, ConnectionLostKeeps, ConnectionMadeKeeps, NetworkChangedKeeps,
     StartReturnsKeeps, CloseReturnsKeeps, StopKeeps
  DEF Running
<1>5. CASE UNCHANGED vars
  BY <1>5 DEF IInv, TypeOK, Control, NoStreamLeak, Owned
<1> QED
  BY <1>1, <1>2, <1>3, <1>4, <1>5 DEF Next

LEMMA IInvHolds == Spec => []IInv
  BY InitIInv, NextIInv, PTL DEF Spec

\* Every variable keeps its type, and ps.mu of a stream is held by the one
\* sender that writes to it.
THEOREM TypeCorrect == Spec => []TypeOK
<1>1. IInv => TypeOK
  BY DEF IInv
<1> QED
  BY <1>1, IInvHolds, PTL

\* An open stream is pooled, in the hands of the sender that opened it, or about
\* to be reset: no order of senders, janitor, DisconnectedF and OnNetworkChanged
\* leaves one that nobody will ever close.
THEOREM StreamsAreOwned == Spec => []NoStreamLeak
<1>1. IInv => NoStreamLeak
  BY DEF IInv
<1> QED
  BY <1>1, IInvHolds, PTL

------------------------------------------------------------------------------
(* How messages are lost *)

\* A reset stream holds no frames; a sender evicts only after the stream it wrote
\* to was reset; a stream the janitor is about to take is idle, or its lock was
\* taken after the janitor looked.
Spent ==
    /\ \A x \in Streams : stream[x] = "reset" => wire[x] = <<>>
    /\ \A s \in Senders : pc[s] \in {"evict", "reset"} => stream[mine[s]] = "reset"
    /\ janitor # None => idle[janitor] \/ raced

LEMMA InitSpent == Init => Spent
  BY DEF Init, Spent

LEMMA NextSpent == IInv /\ Spent /\ [Next]_vars => Spent'
<1> SUFFICES ASSUME IInv, Spent, [Next]_vars
             PROVE  Spent'
  OBVIOUS
<1> USE PoolNone, PoolBounds DEF IInv
<1>1. ASSUME NEW s \in Senders, Send(s)
       PROVE  Spent'
  BY <1>1 DEF TypeOK, Control, HasStream, Spent, Send, Goes
<1>2. ASSUME NEW s \in Senders, Begin(s)
       PROVE  Spent'
  <2>1. /\ pc'[s] \in {"idle", "get", "dial"}
        /\ \A t \in Senders \ {s} : pc'[t] = pc[t] /\ mine'[t] = mine[t]
    BY <1>2 DEF TypeOK, Begin, Goes, Returns
  <2>2. UNCHANGED <<stream, wire, janitor, idle, raced>>
    BY <1>2 DEF Begin
  <2> QED
    BY <2>1, <2>2 DEF Spent
<1>3. ASSUME NEW s \in Senders, Dial(s)
       PROVE  Spent'
  BY <1>3 DEF TypeOK, Control, HasStream, Spent, Dial, Goes
<1>4. ASSUME NEW s \in Senders, Find(s)
       PROVE  Spent'
  BY <1>4 DEF TypeOK, Control, HasStream, Spent, Find, Goes
<1>5. ASSUME NEW s \in Senders, Unreachable(s)
       PROVE  Spent'
  BY <1>5 DEF TypeOK, Control, HasStream, Spent, Unreachable, Goes, Returns
<1>6. ASSUME NEW s \in Senders, Get(s)
       PROVE  Spent'
  BY <1>6 DEF TypeOK, Control, HasStream, Spent, Get, Goes
<1>7. ASSUME NEW s \in Senders, NEW y \in Streams, Open(s, y)
       PROVE  Spent'
  BY <1>7 DEF TypeOK, Control, HasStream, Spent, Open, Goes
<1>8. ASSUME NEW s \in Senders, Put(s)
       PROVE  Spent'
  BY <1>8 DEF TypeOK, Control, HasStream, Spent, Put, Goes, ResetAll
<1>9. ASSUME NEW s \in Senders, Lock(s)
       PROVE  Spent'
  BY <1>9 DEF TypeOK, Control, HasStream, Spent, Lock, Goes
<1>10. ASSUME NEW s \in Senders, Write(s)
       PROVE  Spent'
  BY <1>10 DEF TypeOK, Control, HasStream, Spent, Write, Goes, Returns
<1>11. ASSUME NEW s \in Senders, WriteBig(s)
       PROVE  Spent'
  BY <1>11 DEF TypeOK, Control, HasStream, Spent, WriteBig, Goes
<1>12. ASSUME NEW s \in Senders, WriteFails(s)
       PROVE  Spent'
  BY <1>12 DEF TypeOK, Control, HasStream, Spent, WriteFails, Goes
<1>13. ASSUME NEW s \in Senders, Evict(s)
       PROVE  Spent'
  BY <1>13 DEF TypeOK, Control, HasStream, Spent, Evict, Goes
<1>14. ASSUME NEW s \in Senders, ResetVictim(s)
       PROVE  Spent'
  <2>1. /\ pc'[s] \in {"idle", "open"}
        /\ \A t \in Senders \ {s} : pc'[t] = pc[t] /\ mine'[t] = mine[t]
    BY <1>14 DEF TypeOK, ResetVictim, Goes, Returns
  <2>2. \A x \in Streams : /\ stream'[x] = "reset" => wire'[x] = <<>>
                           /\ stream[x] = "reset" => stream'[x] = "reset"
    BY <1>14 DEF TypeOK, Spent, ResetVictim, ResetAll
  <2>3. \A t \in Senders : pc[t] \in {"evict", "reset"} => mine[t] \in Streams
    BY DEF Control, HasStream
  <2>4. UNCHANGED <<janitor, idle, raced>>
    BY <1>14 DEF ResetVictim
  <2> QED
    BY <2>1, <2>2, <2>3, <2>4 DEF Spent
<1>15. ASSUME NEW s \in Senders, WriteV1(s)
       PROVE  Spent'
  BY <1>15 DEF TypeOK, Control, HasStream, Spent, WriteV1, Goes, Returns
<1>16. ASSUME NEW s \in Senders, V1Fails(s)
       PROVE  Spent'
  BY <1>16 DEF TypeOK, Control, HasStream, Spent, V1Fails, Goes, Returns
<1>17. ASSUME NEW y \in Streams, Read(y)
       PROVE  Spent'
  BY <1>17 DEF TypeOK, Control, HasStream, Spent, Read
<1>18. ASSUME NEW y \in Streams, Idle(y)
       PROVE  Spent'
  BY <1>18 DEF TypeOK, Control, HasStream, Spent, Idle
<1>19. ASSUME NEW y \in Streams, Pick(y)
       PROVE  Spent'
  BY <1>19 DEF TypeOK, Control, HasStream, Spent, Pick
<1>20. ASSUME Sweep
       PROVE  Spent'
  BY <1>20 DEF TypeOK, Control, HasStream, Spent, Sweep, ResetAll
<1>21. ASSUME ConnectionLost
       PROVE  Spent'
  BY <1>21 DEF TypeOK, Control, HasStream, Spent, ConnectionLost, ResetAll
<1>22. ASSUME NetworkChanged
       PROVE  Spent'
  BY <1>22 DEF TypeOK, Control, HasStream, Spent, NetworkChanged, ResetAll
<1>23. ASSUME CallbackReset
       PROVE  Spent'
  BY <1>23 DEF TypeOK, Control, HasStream, Spent, CallbackReset, ResetAll
<1>24. ASSUME Stop
       PROVE  Spent'
  BY <1>24 DEF TypeOK, Control, HasStream, Spent, Stop, ResetAll
<1>25. ASSUME CallbackEvict
       PROVE  Spent'
  BY <1>25 DEF TypeOK, Control, HasStream, Spent, CallbackEvict
<1>26. ASSUME CallbackEnds
       PROVE  Spent'
  BY <1>26 DEF TypeOK, Control, HasStream, Spent, CallbackEnds
<1>27. ASSUME ConnectionMade
       PROVE  Spent'
  BY <1>27 DEF TypeOK, Control, HasStream, Spent, ConnectionMade
<1>28. ASSUME StartReturns
       PROVE  Spent'
  BY <1>28 DEF TypeOK, Control, HasStream, Spent, StartReturns
<1>29. ASSUME CloseReturns
       PROVE  Spent'
  BY <1>29 DEF TypeOK, Control, HasStream, Spent, CloseReturns
<1>30. CASE UNCHANGED vars
  BY <1>30 DEF Spent
<1> QED
  BY <1>1, <1>2, <1>3, <1>4, <1>5, <1>6, <1>7, <1>8, <1>9, <1>10, <1>11, <1>12, <1>13, <1>14, <1>15, <1>16, <1>17, <1>18, <1>19, <1>20, <1>21, <1>22, <1>23, <1>24, <1>25, <1>26, <1>27, <1>28, <1>29, <1>30
  DEF Next, Sending, Janitor, Callback, Running

LEMMA SpentHolds == Spec => [](IInv /\ Spent)
<1>1. Init => IInv /\ Spent
  BY InitIInv, InitSpent
<1>2. IInv /\ Spent /\ [Next]_vars => (IInv /\ Spent)'
  BY NextIInv, NextSpent
<1> QED
  BY <1>1, <1>2, PTL DEF Spec

\* What is written stays on its way until something takes it off the wire.
LEMMA StaysOnItsWay ==
    ASSUME NEW m, OnItsWay(m),
           \A x \in Streams : ToSet(wire[x]) \subseteq ToSet(wire'[x]),
           \A s \in Senders : msg'[s] = m => msg[s] = m
    PROVE  OnItsWay(m)'
  BY DEF OnItsWay

LEMMA AppendKeeps ==
    ASSUME NEW S, NEW q \in Seq(S), NEW e \in S
    PROVE  ToSet(q) \subseteq ToSet(Append(q, e))
<1>1. \A i \in 1 .. Len(q) : i \in 1 .. Len(Append(q, e)) /\ Append(q, e)[i] = q[i]
  OBVIOUS
<1> QED
  BY <1>1 DEF ToSet

\* The steps that write to a stream take nothing from any.
LEMMA WritesKeep ==
    ASSUME TypeOK, Control, NEW s \in Senders, NEW x \in Streams, 
           pc[s] # "idle", wire' = [wire EXCEPT ![x] = Append(@, msg[s])]
    PROVE  \A y \in Streams : ToSet(wire[y]) \subseteq ToSet(wire'[y])
<1>1. msg[s] \in 1 .. MaxMessages
  BY DEF Control
<1>2. wire[x] \in Seq(1 .. MaxMessages) /\ wire'[x] = Append(wire[x], msg[s])
  BY DEF TypeOK
<1>3. ToSet(wire[x]) \subseteq ToSet(wire'[x])
  BY <1>1, <1>2, AppendKeeps
<1>4. \A y \in Streams \ {x} : wire'[y] = wire[y]
  BY DEF TypeOK
<1> QED
  BY <1>3, <1>4

\* A message that was sent is read or lost in one of the ways listed with the
\* property: no sender, janitor or DisconnectedF takes it off a stream in use for
\* another reason, for any number of senders and streams.
THEOREM LossExplainedAlways == Spec => LossExplained
<1> DEFINE Way(m) ==
        \/ \E x \in Streams : Read(x)
        \/ ConnectionLost \/ NetworkChanged \/ Stop
        \/ \E s \in Senders : Put(s) /\ pool # None /\ m \in ToSet(wire[pool])
        \/ \E s \in Senders : ResetVictim(s) /\ victim[s] # mine[s]
        \/ CallbackReset
        \/ Sweep /\ (idle[janitor] \/ raced)
<1>1. ASSUME IInv, Spent, Next, NEW m \in 1 .. lastMsg, OnItsWay(m), ~OnItsWay(m)'
      PROVE  Way(m)
  <2> USE PoolNone, PoolBounds DEF IInv
  <2>0. lastMsg \in Nat /\ m \in Nat \ {0}
    BY <1>1 DEF TypeOK
  <2>1. ASSUME NEW s \in Senders, Send(s)
        PROVE  Way(m)
    <3>1. wire' = wire /\ \A t \in Senders : msg'[t] = m => msg[t] = m
      BY <1>1, <2>0, <2>1 DEF TypeOK, Send, Goes
    <3> QED
      BY <1>1, <3>1, StaysOnItsWay
  <2>2. ASSUME NEW s \in Senders, Begin(s)
        PROVE  Way(m)
    <3>1. wire' = wire /\ \A t \in Senders : msg'[t] = m => msg[t] = m
      BY <1>1, <2>0, <2>2 DEF TypeOK, Begin, Returns
    <3> QED
      BY <1>1, <3>1, StaysOnItsWay
  <2>3. ASSUME NEW s \in Senders, Dial(s)
        PROVE  Way(m)
    <3>1. wire' = wire /\ \A t \in Senders : msg'[t] = m => msg[t] = m
      BY <1>1, <2>0, <2>3 DEF TypeOK, Dial
    <3> QED
      BY <1>1, <3>1, StaysOnItsWay
  <2>4. ASSUME NEW s \in Senders, Find(s)
        PROVE  Way(m)
    <3>1. wire' = wire /\ \A t \in Senders : msg'[t] = m => msg[t] = m
      BY <1>1, <2>0, <2>4 DEF TypeOK, Find
    <3> QED
      BY <1>1, <3>1, StaysOnItsWay
  <2>5. ASSUME NEW s \in Senders, Unreachable(s)
        PROVE  Way(m)
    <3>1. wire' = wire /\ \A t \in Senders : msg'[t] = m => msg[t] = m
      BY <1>1, <2>0, <2>5 DEF TypeOK, Unreachable, Returns
    <3> QED
      BY <1>1, <3>1, StaysOnItsWay
  <2>6. ASSUME NEW s \in Senders, Get(s)
        PROVE  Way(m)
    <3>1. wire' = wire /\ \A t \in Senders : msg'[t] = m => msg[t] = m
      BY <1>1, <2>0, <2>6 DEF TypeOK, Get
    <3> QED
      BY <1>1, <3>1, StaysOnItsWay
  <2>7. ASSUME NEW s \in Senders, NEW x \in Streams, Open(s, x)
        PROVE  Way(m)
    <3>1. wire' = wire /\ \A t \in Senders : msg'[t] = m => msg[t] = m
      BY <1>1, <2>0, <2>7 DEF TypeOK, Open
    <3> QED
      BY <1>1, <3>1, StaysOnItsWay
  <2>8. ASSUME NEW s \in Senders, Put(s)
        PROVE  Way(m)
    <3>1. CASE pool # None /\ m \in ToSet(wire[pool])
      BY <2>8, <3>1
    <3>2. CASE pool = None \/ m \notin ToSet(wire[pool])
      <4>1. msg' = msg /\ \A y \in Streams : m \in ToSet(wire[y]) => m \in ToSet(wire'[y])
        BY <1>1, <2>8, <3>2 DEF TypeOK, Put, ResetAll
      <4> QED
        BY <1>1, <4>1 DEF OnItsWay
    <3> QED
      BY <3>1, <3>2
  <2>9. ASSUME NEW s \in Senders, Lock(s)
        PROVE  Way(m)
    <3>1. wire' = wire /\ \A t \in Senders : msg'[t] = m => msg[t] = m
      BY <1>1, <2>0, <2>9 DEF TypeOK, Lock
    <3> QED
      BY <1>1, <3>1, StaysOnItsWay
  <2>10. ASSUME NEW s \in Senders, Write(s)
        PROVE  Way(m)
    <3>1. mine[s] \in Streams /\ pc[s] # "idle" /\ wire' = [wire EXCEPT ![mine[s]] = Append(@, msg[s])]
      BY <1>1, <2>10 DEF Control, HasStream, Write
    <3>2. \A y \in Streams : ToSet(wire[y]) \subseteq ToSet(wire'[y])
      BY <1>1, <3>1, WritesKeep
    <3>3. \A t \in Senders : msg'[t] = m => msg[t] = m
      BY <1>1, <2>0, <2>10 DEF TypeOK, Write, Returns
    <3> QED
      BY <1>1, <3>2, <3>3, StaysOnItsWay
  <2>11. ASSUME NEW s \in Senders, WriteBig(s)
        PROVE  Way(m)
    <3>1. mine[s] \in Streams /\ pc[s] # "idle" /\ wire' = [wire EXCEPT ![mine[s]] = Append(@, msg[s])]
      BY <1>1, <2>11 DEF Control, HasStream, WriteBig
    <3>2. \A y \in Streams : ToSet(wire[y]) \subseteq ToSet(wire'[y])
      BY <1>1, <3>1, WritesKeep
    <3>3. \A t \in Senders : msg'[t] = m => msg[t] = m
      BY <1>1, <2>0, <2>11 DEF TypeOK, WriteBig
    <3> QED
      BY <1>1, <3>2, <3>3, StaysOnItsWay
  <2>12. ASSUME NEW s \in Senders, WriteFails(s)
        PROVE  Way(m)
    <3>1. wire' = wire /\ \A t \in Senders : msg'[t] = m => msg[t] = m
      BY <1>1, <2>0, <2>12 DEF TypeOK, WriteFails
    <3> QED
      BY <1>1, <3>1, StaysOnItsWay
  <2>13. ASSUME NEW s \in Senders, Evict(s)
        PROVE  Way(m)
    <3>1. wire' = wire /\ \A t \in Senders : msg'[t] = m => msg[t] = m
      BY <1>1, <2>0, <2>13 DEF TypeOK, Evict
    <3> QED
      BY <1>1, <3>1, StaysOnItsWay
  <2>14. ASSUME NEW s \in Senders, ResetVictim(s)
        PROVE  Way(m)
    <3>1. CASE victim[s] # mine[s]
      BY <2>14, <3>1
    <3>2. CASE victim[s] = mine[s]
      <4>1. mine[s] \in Streams /\ stream[mine[s]] = "reset" /\ wire[mine[s]] = <<>>
        BY <2>14, <1>1 DEF Control, HasStream, Spent, ResetVictim
      <4>2. \A y \in Streams : wire'[y] = wire[y]
        BY <1>1, <2>14, <3>2, <4>1 DEF TypeOK, ResetVictim, ResetAll
      <4>3. \A t \in Senders : msg'[t] = m => msg[t] = m
        BY <1>1, <2>0, <2>14 DEF TypeOK, ResetVictim, Returns
      <4> QED
        BY <1>1, <4>2, <4>3, StaysOnItsWay
    <3> QED
      BY <3>1, <3>2
  <2>15. ASSUME NEW s \in Senders, WriteV1(s)
        PROVE  Way(m)
    <3>1. mine[s] \in Streams /\ pc[s] # "idle" /\ wire' = [wire EXCEPT ![mine[s]] = Append(@, msg[s])]
      BY <1>1, <2>15 DEF Control, HasStream, WriteV1
    <3>2. \A y \in Streams : ToSet(wire[y]) \subseteq ToSet(wire'[y])
      BY <1>1, <3>1, WritesKeep
    <3>3. \A t \in Senders : msg'[t] = m => msg[t] = m
      BY <1>1, <2>0, <2>15 DEF TypeOK, WriteV1, Returns
    <3> QED
      BY <1>1, <3>2, <3>3, StaysOnItsWay
  <2>16. ASSUME NEW s \in Senders, V1Fails(s)
        PROVE  Way(m)
    <3>1. wire' = wire /\ \A t \in Senders : msg'[t] = m => msg[t] = m
      BY <1>1, <2>0, <2>16 DEF TypeOK, V1Fails, Returns
    <3> QED
      BY <1>1, <3>1, StaysOnItsWay
  <2>17. ASSUME NEW x \in Streams, Idle(x)
        PROVE  Way(m)
    <3>1. wire' = wire /\ \A t \in Senders : msg'[t] = m => msg[t] = m
      BY <1>1, <2>0, <2>17 DEF TypeOK, Idle
    <3> QED
      BY <1>1, <3>1, StaysOnItsWay
  <2>18. ASSUME NEW x \in Streams, Pick(x)
        PROVE  Way(m)
    <3>1. wire' = wire /\ \A t \in Senders : msg'[t] = m => msg[t] = m
      BY <1>1, <2>0, <2>18 DEF TypeOK, Pick
    <3> QED
      BY <1>1, <3>1, StaysOnItsWay
  <2>19. ASSUME Sweep
        PROVE  Way(m)
    BY <1>1, <2>19 DEF Spent, Sweep
  <2>20. ASSUME CallbackEvict
        PROVE  Way(m)
    <3>1. wire' = wire /\ \A t \in Senders : msg'[t] = m => msg[t] = m
      BY <1>1, <2>0, <2>20 DEF TypeOK, CallbackEvict
    <3> QED
      BY <1>1, <3>1, StaysOnItsWay
  <2>21. ASSUME CallbackEnds
        PROVE  Way(m)
    <3>1. wire' = wire /\ \A t \in Senders : msg'[t] = m => msg[t] = m
      BY <1>1, <2>0, <2>21 DEF TypeOK, CallbackEnds
    <3> QED
      BY <1>1, <3>1, StaysOnItsWay
  <2>22. ASSUME ConnectionMade
        PROVE  Way(m)
    <3>1. wire' = wire /\ \A t \in Senders : msg'[t] = m => msg[t] = m
      BY <1>1, <2>0, <2>22 DEF TypeOK, ConnectionMade
    <3> QED
      BY <1>1, <3>1, StaysOnItsWay
  <2>23. ASSUME StartReturns
        PROVE  Way(m)
    <3>1. wire' = wire /\ \A t \in Senders : msg'[t] = m => msg[t] = m
      BY <1>1, <2>0, <2>23 DEF TypeOK, StartReturns
    <3> QED
      BY <1>1, <3>1, StaysOnItsWay
  <2>24. ASSUME CloseReturns
        PROVE  Way(m)
    <3>1. wire' = wire /\ \A t \in Senders : msg'[t] = m => msg[t] = m
      BY <1>1, <2>0, <2>24 DEF TypeOK, CloseReturns
    <3> QED
      BY <1>1, <3>1, StaysOnItsWay
  <2> QED
    BY <1>1, <2>1, <2>2, <2>3, <2>4, <2>5, <2>6, <2>7, <2>8, <2>9, <2>10, <2>11, <2>12, <2>13, <2>14, <2>15, <2>16, <2>17, <2>18, <2>19, <2>20, <2>21, <2>22, <2>23, <2>24
    DEF Next, Sending, Janitor, Callback, Running
<1>2. ASSUME IInv, Spent, [Next]_vars, NEW m \in 1 .. lastMsg, OnItsWay(m), ~OnItsWay(m)'
      PROVE  Way(m)
  <2>1. CASE UNCHANGED vars
    BY <1>2, <2>1 DEF OnItsWay
  <2> QED
    BY <1>1, <1>2, <2>1
<1>3. IInv /\ Spent /\ [Next]_vars =>
        [\A m \in 1 .. lastMsg : OnItsWay(m) /\ ~OnItsWay(m)' => Way(m)]_vars
  BY <1>2
<1> QED
  BY <1>3, SpentHolds, PTL DEF Spec, LossExplained
=============================================================================
