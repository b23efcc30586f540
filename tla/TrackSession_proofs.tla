-------------------------- MODULE TrackSession_proofs --------------------------
(***************************************************************************)
(* Proofs about TrackSession, for all durations, latencies and numbers of  *)
(* calls: its types, that no key of a session ends early or stays, that    *)
(* whoever is served a location was approved a moment before, and that a   *)
(* location is not replaced by a much older one.                           *)
(***************************************************************************)
EXTENDS TrackSession, TLAPS

------------------------------------------------------------------------------
(* Arithmetic of ticks and seconds *)

LEMMA Distributes ==
    ASSUME NEW a \in Int, NEW b \in Int, NEW m \in Int
    PROVE  (a + b) * m = a * m + b * m
BY Z3

LEMMA Monotone ==
    ASSUME NEW a \in Int, NEW b \in Int, NEW m \in Nat, a <= b
    PROVE  a * m <= b * m
BY Z3

\* Unix rounds down to the second.
LEMMA UnixRounds ==
    ASSUME now \in Nat
    PROVE  /\ Unix \in Nat
           /\ Unix * Second <= now
           /\ now < Unix * Second + Second
BY TrackTime, Z3 DEF Unix

\* A duration is clamped to what the longest TTL allows.
LEMMA DurationClamped ==
    ASSUME NEW d \in Int
    PROVE  /\ Duration(d) \in Nat
           /\ Duration(d) * Second \in Nat \ {0}
           /\ SessionTTL(Duration(d)) = Duration(d) * Second
<1>1. Duration(d) \in Nat /\ 1 <= Duration(d) /\ Duration(d) <= MaxDuration
    BY TrackDurations DEF Duration
<1>2. 1 * Second <= Duration(d) * Second
    BY <1>1, Monotone, TrackTime
<1>3. Duration(d) * Second <= MaxDuration * Second
    BY <1>1, Monotone, TrackTime, TrackDurations
<1>4. Duration(d) * Second \in Int /\ MaxDuration * Second \in Int
    BY <1>1, TrackTime, TrackDurations
<1> QED
    BY <1>1, <1>2, <1>3, <1>4, TrackTime, TrackDurations DEF SessionTTL

------------------------------------------------------------------------------
(* The inductive invariant *)

\* Which operations get where.
Shape(k) ==
    /\ k.pc = "session" => k.op \in {"request", "approve", "reject", "publish"}
    /\ k.pc = "check" => k.op \in {"request", "publish"}
    /\ k.pc = "write" => k.op # "locate"
    /\ k.op \in {"request", "approve", "reject"} => k.w \in Watchers
    /\ k.op = "create" => k.pc = "write" /\ k.by \in Peers

\* No step of a call is late.
Timely(k) == k.since <= now /\ now <= k.since + MaxLatency

\* What a call knows of the session it has read, and when it read the clock.
Follows(k) ==
    k.pc \in {"check", "write"} /\ k.op # "create" =>
        /\ session[k.s] # None
        /\ k.duration = session[k.s].duration
        /\ k.expires = session[k.s].expires
        /\ k.op # "publish" => k.ttl = k.duration * Second
        /\ k.op # "publish" /\ k.pc = "write" =>
            k.since < k.expires * Second + MaxLatency + Second
        /\ k.op = "publish" /\ k.pc = "write" =>
            k.ttl = k.expires * Second - k.since /\ k.ttl > 0

\* What a call that creates a session is about to write.
Creates(k) ==
    k.op = "create" =>
        /\ k.ttl = k.duration * Second /\ k.ttl > 0
        /\ k.expires * Second <= k.since + k.duration * Second
        /\ k.since + k.duration * Second < k.expires * Second + Second
        /\ session[k.s] # None =>
            session[k.s].duration = k.duration /\ session[k.s].expires = k.expires

CallGood(k) == Shape(k) /\ Timely(k) /\ Follows(k) /\ Creates(k)

CallsGood == \A c \in Calls : call[c] # None => CallGood(call[c])

\* An identifier is drawn once.
OneCreator ==
    \A c, d \in Calls :
        /\ c # d
        /\ call[c] # None /\ call[c].op = "create"
        /\ call[d] # None /\ call[d].op = "create"
        => call[c].s # call[d].s

\* A session that has not been written has nothing else.
Untouched ==
    \A s \in Sessions : session[s] = None =>
        /\ location[s].dies = 0
        /\ \A w \in Watchers : watcher[s][w].status = "none" /\ watcher[s][w].dies = 0

\* A session's expiry is no further off than its duration.
Dated ==
    \A s \in Sessions : session[s] # None =>
        /\ session[s].duration * Second > 0
        /\ session[s].expires * Second <= now + session[s].duration * Second

KeysInv == Untouched /\ Dated /\ NothingEndsEarly /\ NothingStays

IInv == TypeOK /\ CallsGood /\ OneCreator /\ KeysInv

------------------------------------------------------------------------------
(* Steps of a call that leave Redis alone *)

\* Only the call itself has to be looked at.
LEMMA OneCallMoves ==
    ASSUME IInv, NEW c \in Calls,
           UNCHANGED <<now, session, watcher, location, lapsed>>,
           call' \in [Calls -> CallRecord \cup {None}],
           \A d \in Calls \ {c} : call'[d] = call[d],
           call'[c] # None => CallGood(call'[c]),
           call'[c] # None /\ call'[c].op = "create" =>
               \A d \in Calls \ {c} :
                   call[d] # None /\ call[d].op = "create" => call[d].s # call'[c].s
    PROVE  IInv'
<1>1. TypeOK'
    BY DEF IInv, TypeOK
<1>2. \A k : CallGood(k)' <=> CallGood(k)
    BY DEF CallGood, Shape, Timely, Follows, Creates
<1>3. CallsGood'
    BY <1>2 DEF IInv, CallsGood, CallGood, Shape, Timely, Follows, Creates
<1>4. OneCreator'
    BY DEF IInv, OneCreator
<1>5. KeysInv'
    BY DEF IInv, KeysInv, Untouched, Dated, NothingEndsEarly, NothingStays
<1> QED
    BY <1>1, <1>3, <1>4, <1>5 DEF IInv

LEMMA CreatePreserves ==
    ASSUME IInv, NEW c \in Calls, NEW s \in Sessions, NEW p \in Peers, NEW d \in Asked,
           Create(c, s, p, d)
    PROVE  IInv'
<1> DEFINE new == [pc |-> "write", op |-> "create", s |-> s, by |-> p, w |-> None,
                   duration |-> Duration(d), expires |-> Unix + Duration(d),
                   ttl |-> SessionTTL(Duration(d)), ts |-> 0, since |-> now]
<1>1. /\ Duration(d) \in Nat
      /\ Duration(d) * Second \in Nat \ {0}
      /\ SessionTTL(Duration(d)) = Duration(d) * Second
    BY DurationClamped, TrackDurations
<1>2. now \in Nat /\ Unix \in Nat /\ Unix * Second <= now /\ now < Unix * Second + Second
    BY UnixRounds DEF IInv, TypeOK
<1>3. (Unix + Duration(d)) * Second = Unix * Second + Duration(d) * Second
    BY <1>1, <1>2, Distributes, TrackTime
<1>4. Unix * Second \in Nat
    BY <1>2, TrackTime
<1>5. new \in CallRecord
    BY <1>1, <1>2 DEF CallRecord, Operations
<1>6. Creates(new)
    <2>1. session[s] = None
        BY DEF Create
    <2> HIDE DEF Duration, Unix, SessionTTL
    <2> QED
        BY <2>1, <1>1, <1>2, <1>3, <1>4, TrackTime DEF Creates
<1>7. CallGood(new)
    <2>1. Shape(new) /\ Follows(new)
        BY DEF Shape, Follows
    <2>2. Timely(new)
        BY <1>2, TrackTime DEF Timely
    <2> QED
        BY <2>1, <2>2, <1>6 DEF CallGood
<1>8. call' = [call EXCEPT ![c] = new] /\ call \in [Calls -> CallRecord \cup {None}]
    BY DEF Create, IInv, TypeOK
<1>9. /\ UNCHANGED <<now, session, watcher, location, lapsed>>
      /\ \A other \in Calls : call[other] # None => call[other].s # s
    BY DEF Create
<1>10. new.s = s
    OBVIOUS
<1> HIDE DEF new
<1> QED
    BY <1>5, <1>7, <1>8, <1>9, <1>10, OneCallMoves

LEMMA ArrivePreserves ==
    ASSUME IInv, NEW c \in Calls, NEW op \in Operations, NEW s \in Sessions,
           NEW p \in Peers \cup {None}, NEW w \in Watchers \cup {None},
           op # "create", op \in {"request", "approve", "reject"} => w \in Watchers,
           Arrive(c, op, s, p, w)
    PROVE  IInv'
<1> DEFINE new == [pc |-> IF op = "locate" THEN "status" ELSE "session", op |-> op, s |-> s,
                   by |-> p, w |-> w, duration |-> 0, expires |-> 0, ttl |-> 0, ts |-> 0,
                   since |-> now]
<1>1. now \in Nat
    BY DEF IInv, TypeOK
<1>2. new \in CallRecord
    BY <1>1 DEF CallRecord
<1>3. CallGood(new) /\ new.op # "create"
    BY <1>1, TrackTime DEF CallGood, Shape, Timely, Follows, Creates, Operations
<1>4. call' = [call EXCEPT ![c] = new] /\ call \in [Calls -> CallRecord \cup {None}]
    BY DEF Arrive, IInv, TypeOK
<1>5. UNCHANGED <<now, session, watcher, location, lapsed>>
    BY DEF Arrive
<1> HIDE DEF new
<1> QED
    BY <1>2, <1>3, <1>4, <1>5, OneCallMoves

\* A call that returns leaves nothing to look at.
LEMMA ReturnPreserves ==
    ASSUME IInv, NEW c \in Calls, Returns(c),
           UNCHANGED <<now, session, watcher, location, lapsed>>
    PROVE  IInv'
<1>1. call' \in [Calls -> CallRecord \cup {None}] /\ call'[c] = None
      /\ \A d \in Calls \ {c} : call'[d] = call[d]
    BY DEF Returns, IInv, TypeOK
<1> QED
    BY <1>1, OneCallMoves

LEMMA ReadSessionPreserves ==
    ASSUME IInv, NEW c \in Calls, ReadSession(c)
    PROVE  IInv'
<1> DEFINE s == call[c].s
<1>1. CASE Returns(c)
    BY <1>1, ReturnPreserves DEF ReadSession
<1>2. CASE ~Returns(c)
    <2> DEFINE new == [call[c] EXCEPT
                 !.pc = IF call[c].op \in {"approve", "reject"} THEN "write" ELSE "check",
                 !.duration = session[s].duration,
                 !.expires = session[s].expires,
                 !.ttl = session[s].duration * Second,
                 !.since = now]
    <2>1. /\ call[c] \in CallRecord /\ call[c].pc = "session" /\ Shape(call[c])
          /\ now \in Nat
        BY DEF ReadSession, At, IInv, TypeOK, CallsGood, CallGood
    <2>2. s \in Sessions /\ session[s] # None /\ session[s] \in SessionRecord
          /\ Live(session[s])
        BY <1>2, <2>1, SMTT(30) DEF ReadSession, SessionLive, CallRecord, IInv, TypeOK
    <2>3. call' = [call EXCEPT ![c] = new]
        BY <1>2, Zenon DEF ReadSession
    <2>4. session[s].duration * Second \in Int /\ session[s].expires * Second \in Int
        BY <2>2, TrackTime DEF SessionRecord
    <2>5. new \in CallRecord
        BY <2>1, <2>2, <2>4 DEF CallRecord, SessionRecord
    <2>6. now < session[s].expires * Second + MaxLatency + Second
        BY <2>1, <2>2, <2>4, TrackTime DEF IInv, KeysInv, NothingStays, Live, Forever
    <2>7. CallGood(new)
        BY <2>1, <2>2, <2>4, <2>6, TrackTime
        DEF CallGood, Shape, Timely, Follows, Creates, CallRecord
    <2>8. new.op # "create"
        BY <2>1 DEF CallRecord, Shape
    <2>9. call \in [Calls -> CallRecord \cup {None}]
          /\ UNCHANGED <<now, session, watcher, location, lapsed>>
        BY DEF ReadSession, IInv, TypeOK
    <2> HIDE DEF new
    <2> QED
        BY <2>3, <2>5, <2>7, <2>8, <2>9, OneCallMoves
<1> QED
    BY <1>1, <1>2

LEMMA CheckRequestPreserves ==
    ASSUME IInv, NEW c \in Calls, CheckRequest(c)
    PROVE  IInv'
<1>1. CASE Returns(c)
    BY <1>1, ReturnPreserves DEF CheckRequest
<1>2. CASE ~Returns(c)
    <2> DEFINE old == call[c]
               new == [old EXCEPT !.pc = "write", !.since = now]
    <2>1. /\ old \in CallRecord /\ old.pc = "check" /\ old.op = "request" /\ CallGood(old)
          /\ now \in Nat
        BY DEF CheckRequest, At, IInv, TypeOK, CallsGood
    <2>2. call' = [call EXCEPT ![c] = new] /\ ~(Unix > old.expires)
        BY <1>2, Zenon DEF CheckRequest, Goes
    <2>3. now < old.expires * Second + Second
        <3>1. old.expires \in Nat /\ Unix \in Nat /\ now < Unix * Second + Second
            BY <2>1, UnixRounds DEF CallRecord
        <3>2. Unix * Second <= old.expires * Second
            BY <2>2, <3>1, Monotone, TrackTime
        <3>3. Unix * Second \in Int /\ old.expires * Second \in Int
            BY <3>1, TrackTime
        <3> QED
            BY <3>1, <3>2, <3>3, <2>1, TrackTime
    <2>4. old.expires * Second \in Int
        BY <2>1, TrackTime DEF CallRecord
    <2>5. new \in CallRecord
        BY <2>1 DEF CallRecord
    <2>6. CallGood(new)
        BY <2>1, <2>3, <2>4, TrackTime
        DEF CallGood, Shape, Timely, Follows, Creates, CallRecord
    <2>7. new.op # "create" /\ call \in [Calls -> CallRecord \cup {None}]
          /\ UNCHANGED <<now, session, watcher, location, lapsed>>
        BY <2>1 DEF CheckRequest, CallRecord, IInv, TypeOK
    <2> HIDE DEF new
    <2> QED
        BY <2>2, <2>5, <2>6, <2>7, OneCallMoves
<1> QED
    BY <1>1, <1>2

LEMMA CheckPublishPreserves ==
    ASSUME IInv, NEW c \in Calls, CheckPublish(c)
    PROVE  IInv'
<1>1. CASE Returns(c)
    BY <1>1, ReturnPreserves DEF CheckPublish
<1>2. CASE ~Returns(c)
    <2> DEFINE old == call[c]
               left == old.expires * Second - now
               new == [old EXCEPT !.pc = "write", !.since = now, !.ts = Unix, !.ttl = left]
    <2>1. /\ old \in CallRecord /\ old.pc = "check" /\ old.op = "publish" /\ CallGood(old)
          /\ now \in Nat /\ Unix \in Nat
        BY UnixRounds DEF CheckPublish, At, IInv, TypeOK, CallsGood
    <2>2. call' = [call EXCEPT ![c] = new] /\ ~(left <= 0)
        BY <1>2, Zenon DEF CheckPublish
    <2>3. left \in Int /\ left > 0
        BY <2>1, <2>2, TrackTime DEF CallRecord
    <2>4. new \in CallRecord
        BY <2>1, <2>3 DEF CallRecord
    <2>5. CallGood(new)
        BY <2>1, <2>3, TrackTime DEF CallGood, Shape, Timely, Follows, Creates, CallRecord
    <2>6. new.op # "create" /\ call \in [Calls -> CallRecord \cup {None}]
          /\ UNCHANGED <<now, session, watcher, location, lapsed>>
        BY <2>1 DEF CheckPublish, CallRecord, IInv, TypeOK
    <2> HIDE DEF new
    <2> QED
        BY <2>2, <2>4, <2>5, <2>6, OneCallMoves
<1> QED
    BY <1>1, <1>2

LEMMA ReadStatusPreserves ==
    ASSUME IInv, NEW c \in Calls, ReadStatus(c)
    PROVE  IInv'
<1>1. CASE Returns(c)
    BY <1>1, ReturnPreserves DEF ReadStatus
<1>2. CASE ~Returns(c)
    <2> DEFINE new == [call[c] EXCEPT !.pc = "location", !.since = now]
    <2>1. /\ call[c] \in CallRecord /\ call[c].pc = "status" /\ CallGood(call[c])
          /\ now \in Nat
        BY DEF ReadStatus, At, IInv, TypeOK, CallsGood
    <2>2. call' = [call EXCEPT ![c] = new]
        BY <1>2, Zenon DEF ReadStatus, Goes
    <2>3. new \in CallRecord
        BY <2>1 DEF CallRecord
    <2>4. CallGood(new) /\ new.op # "create"
        BY <2>1, TrackTime DEF CallGood, Shape, Timely, Follows, Creates, CallRecord
    <2>5. call \in [Calls -> CallRecord \cup {None}]
          /\ UNCHANGED <<now, session, watcher, location, lapsed>>
        BY DEF ReadStatus, IInv, TypeOK
    <2> HIDE DEF new
    <2> QED
        BY <2>2, <2>3, <2>4, <2>5, OneCallMoves
<1> QED
    BY <1>1, <1>2

------------------------------------------------------------------------------
(* Writes, and the passage of time *)

LEMMA WriteStatusPreserves ==
    ASSUME IInv, NEW c \in Calls, WriteStatus(c)
    PROVE  IInv'
<1> DEFINE k == call[c]
           death == Death(k.ttl)
<1>1. /\ k \in CallRecord /\ k.pc = "write" /\ k.op \in {"request", "approve", "reject"}
      /\ CallGood(k) /\ now \in Nat
    BY DEF WriteStatus, At, IInv, TypeOK, CallsGood
<1>2. /\ k.s \in Sessions /\ k.w \in Watchers
      /\ session[k.s] # None /\ session[k.s] \in SessionRecord
      /\ k.duration = session[k.s].duration /\ k.expires = session[k.s].expires
      /\ k.ttl = session[k.s].duration * Second
      /\ k.since < session[k.s].expires * Second + MaxLatency + Second
      /\ now <= k.since + MaxLatency
      /\ k.since \in Nat
    <2>1. Shape(k) /\ Timely(k) /\ Follows(k)
        BY <1>1 DEF CallGood
    <2> QED
        BY <1>1, <2>1 DEF Shape, Timely, Follows, CallRecord, IInv, TypeOK
<1>3. /\ session[k.s].duration * Second \in Int /\ session[k.s].duration * Second > 0
      /\ session[k.s].expires * Second \in Nat
      /\ session[k.s].expires * Second <= now + session[k.s].duration * Second
    BY <1>1, <1>2, TrackTime DEF IInv, KeysInv, Dated, SessionRecord
<1>4. /\ death = now + session[k.s].duration * Second
      /\ death >= session[k.s].expires * Second
      /\ death \in 0 .. session[k.s].expires * Second + MaxLatency + Second
                       + session[k.s].duration * Second + MaxLatency
    BY <1>1, <1>2, <1>3, TrackTime DEF Death
<1>5. /\ watcher' = [watcher EXCEPT ![k.s][k.w] =
                       [status |-> Written(k.op), dies |-> death]]
      /\ lapsed' = [lapsed EXCEPT ![k.s][k.w] = ApprovedUntil(k.s, k.w)]
      /\ (Returns(c) \/ UNCHANGED call)
      /\ UNCHANGED <<now, session, location>>
    BY DEF WriteStatus, Answered
<1>6. Written(k.op) \in Statuses /\ death \in Deaths
    BY <1>1, <1>4, TrackTime DEF Written, Statuses, Deaths
<1>7. ApprovedUntil(k.s, k.w) \in Deaths
    BY <1>1, <1>2 DEF ApprovedUntil, Deaths, IInv, TypeOK
<1>8. call' \in [Calls -> CallRecord \cup {None}]
      /\ \A d \in Calls : call'[d] = call[d] \/ call'[d] = None
    BY <1>5 DEF Returns, IInv, TypeOK
<1>9. TypeOK'
    BY <1>2, <1>5, <1>6, <1>7, <1>8 DEF IInv, TypeOK
<1>10. CallsGood'
    BY <1>5, <1>8 DEF IInv, CallsGood, CallGood, Shape, Timely, Follows, Creates
<1>11. OneCreator'
    BY <1>8 DEF IInv, OneCreator
<1>12. Untouched' /\ Dated'
    BY <1>2, <1>5 DEF IInv, KeysInv, Untouched, Dated, TypeOK
<1> HIDE DEF death
<1>13. ASSUME NEW s \in Sessions, session'[s] # None, NEW w \in Watchers
       PROVE  \/ watcher'[s][w] = watcher[s][w] /\ session'[s] = session[s]
              \/ s = k.s /\ session'[s] = session[k.s] /\ watcher'[s][w].dies = death
    BY <1>2, <1>5, <1>13 DEF IInv, TypeOK
<1>14. NothingEndsEarly'
    BY <1>4, <1>5, <1>13, SMTT(30) DEF IInv, KeysInv, NothingEndsEarly
<1>15. NothingStays'
    BY <1>3, <1>4, <1>5, <1>13, SMTT(30) DEF IInv, KeysInv, NothingStays
<1> QED
    BY <1>9, <1>10, <1>11, <1>12, <1>14, <1>15 DEF IInv, KeysInv

LEMMA WriteLocationPreserves ==
    ASSUME IInv, NEW c \in Calls, WriteLocation(c)
    PROVE  IInv'
<1> DEFINE k == call[c]
           death == Death(k.ttl)
<1>1. /\ k \in CallRecord /\ k.pc = "write" /\ k.op = "publish"
      /\ Timely(k) /\ Follows(k) /\ now \in Nat
    BY DEF WriteLocation, At, IInv, TypeOK, CallsGood, CallGood
<1>2. /\ k.s \in Sessions
      /\ session[k.s] # None /\ session[k.s] \in SessionRecord
      /\ k.ttl = session[k.s].expires * Second - k.since /\ k.ttl > 0
      /\ k.since <= now /\ now <= k.since + MaxLatency
      /\ k.since \in Nat /\ k.ts \in Nat
    BY <1>1 DEF Timely, Follows, CallRecord, IInv, TypeOK
<1>3. session[k.s].expires * Second \in Nat
    BY <1>2, TrackTime DEF SessionRecord
<1>4. death \in 0 .. session[k.s].expires * Second + MaxLatency
    BY <1>1, <1>2, <1>3, TrackTime DEF Death
<1>5. /\ location' = [location EXCEPT ![k.s] = [ts |-> k.ts, dies |-> death]]
      /\ (Returns(c) \/ UNCHANGED call)
      /\ UNCHANGED <<now, session, watcher, lapsed>>
    BY DEF WriteLocation, Answered
<1>6. death \in Deaths
    BY <1>3, <1>4, TrackTime DEF Deaths
<1>7. call' \in [Calls -> CallRecord \cup {None}]
      /\ \A d \in Calls : call'[d] = call[d] \/ call'[d] = None
    BY <1>5 DEF Returns, IInv, TypeOK
<1> HIDE DEF death
<1>8. TypeOK'
    BY <1>2, <1>5, <1>6, <1>7 DEF IInv, TypeOK
<1>9. CallsGood'
    BY <1>5, <1>7 DEF IInv, CallsGood, CallGood, Shape, Timely, Follows, Creates
<1>10. OneCreator'
    BY <1>7 DEF IInv, OneCreator
<1>11. Untouched' /\ Dated' /\ NothingEndsEarly'
    BY <1>2, <1>5 DEF IInv, KeysInv, Untouched, Dated, NothingEndsEarly, TypeOK
<1>12. ASSUME NEW s \in Sessions
       PROVE  \/ location'[s] = location[s]
              \/ s = k.s /\ location'[s].dies = death
    BY <1>2, <1>5 DEF IInv, TypeOK
<1>13. NothingStays'
    BY <1>4, <1>5, <1>12 DEF IInv, KeysInv, NothingStays
<1> QED
    BY <1>8, <1>9, <1>10, <1>11, <1>13 DEF IInv, KeysInv

\* The command may be executed again: the session stays what it is, its key
\* lives a little longer.
LEMMA WriteSessionPreserves ==
    ASSUME IInv, NEW c \in Calls, WriteSession(c)
    PROVE  IInv'
<1> DEFINE k == call[c]
           new == [owner |-> k.by, duration |-> k.duration, expires |-> k.expires,
                   dies |-> Death(k.ttl)]
<1>1. /\ k # None /\ k \in CallRecord /\ k.pc = "write" /\ k.op = "create"
      /\ CallGood(k) /\ now \in Nat
    BY DEF WriteSession, At, IInv, TypeOK, CallsGood
<1>2. /\ k.s \in Sessions /\ k.by \in Peers /\ k.duration \in Nat /\ k.expires \in Nat
      /\ k.since \in Nat
      /\ k.ttl = k.duration * Second /\ k.ttl > 0
      /\ k.expires * Second <= k.since + k.duration * Second
      /\ k.since + k.duration * Second < k.expires * Second + Second
      /\ k.since <= now /\ now <= k.since + MaxLatency
      /\ session[k.s] # None =>
            session[k.s].duration = k.duration /\ session[k.s].expires = k.expires
    BY <1>1 DEF CallGood, Shape, Timely, Creates, CallRecord
<1>3. k.duration * Second \in Nat /\ k.expires * Second \in Nat
    BY <1>2, TrackTime
<1>4. /\ new.duration = k.duration /\ new.expires = k.expires
      /\ new.dies = now + k.duration * Second
    BY <1>1, <1>2 DEF Death
<1>5. /\ new.dies >= k.expires * Second
      /\ new.dies \in 0 .. k.expires * Second + MaxLatency + Second
    BY <1>1, <1>2, <1>3, <1>4, TrackTime
<1>6. new \in SessionRecord /\ new # None
    <2>1. new \in SessionRecord
        BY <1>1, <1>2, <1>3, <1>4 DEF SessionRecord, Deaths
    <2> QED
        BY <2>1, TrackNone
<1>7. /\ session' = [session EXCEPT ![k.s] = new]
      /\ (Returns(c) \/ UNCHANGED call)
      /\ UNCHANGED <<now, watcher, location, lapsed>>
    BY DEF WriteSession, Answered
<1>8. call' \in [Calls -> CallRecord \cup {None}]
      /\ \A d \in Calls : call'[d] = call[d] \/ call'[d] = None
    BY <1>7 DEF Returns, IInv, TypeOK
<1> HIDE DEF new
<1>9. ASSUME NEW s \in Sessions
      PROVE  \/ session'[s] = session[s]
             \/ s = k.s /\ session'[s] = new
    BY <1>2, <1>7 DEF IInv, TypeOK
<1>10. \A s \in Sessions : session'[s] # None =>
          \/ session[s] # None /\ session'[s].duration = session[s].duration
                               /\ session'[s].expires = session[s].expires
          \/ s = k.s /\ session[s] = None
    BY <1>2, <1>4, <1>9
<1>11. \A s \in Sessions : session[s] # None =>
          /\ session'[s] # None
          /\ session'[s].duration = session[s].duration
          /\ session'[s].expires = session[s].expires
    BY <1>2, <1>4, <1>6, <1>9
<1>12. TypeOK'
    BY <1>6, <1>7, <1>8, <1>9 DEF IInv, TypeOK
<1>13. CallsGood'
    <2> SUFFICES ASSUME NEW d \in Calls, call'[d] # None
                 PROVE  CallGood(call[d])'
        BY DEF CallsGood
    <2>1. call'[d] = call[d] /\ call[d] \in CallRecord /\ call[d].s \in Sessions
        BY <1>8 DEF IInv, TypeOK, CallRecord
    <2>2. Shape(call[d]) /\ Timely(call[d]) /\ Follows(call[d]) /\ Creates(call[d])
        BY <2>1 DEF IInv, CallsGood, CallGood
    <2>3. Shape(call[d])' /\ Timely(call[d])'
        BY <1>7, <2>1, <2>2 DEF Shape, Timely
    <2>4. Follows(call[d])'
        BY <1>11, <2>1, <2>2 DEF Follows
    <2>5. Creates(call[d])'
        <3>1. CASE d = c
            BY <1>1, <1>2, <1>4, <1>9, <2>1, <2>2, <3>1 DEF Creates
        <3>2. CASE d # c /\ call[d].op = "create"
            <4>1. call[d].s # k.s
                BY <1>1, <2>1, <3>2 DEF IInv, OneCreator
            <4> QED
                BY <1>9, <2>1, <2>2, <4>1 DEF Creates
        <3>3. CASE call[d].op # "create"
            BY <2>1, <3>3 DEF Creates
        <3> QED
            BY <3>1, <3>2, <3>3
    <2> QED
        BY <2>3, <2>4, <2>5 DEF CallGood
<1>14. OneCreator'
    BY <1>8 DEF IInv, OneCreator
<1>15. Untouched'
    BY <1>7, <1>11 DEF IInv, KeysInv, Untouched
<1>16. Dated'
    BY <1>2, <1>3, <1>4, <1>7, <1>9, <1>10, TrackTime DEF IInv, KeysInv, Dated, TypeOK
<1>17. NothingEndsEarly'
    <2> SUFFICES ASSUME NEW s \in Sessions, session'[s] # None
                 PROVE  /\ session'[s].dies >= session'[s].expires * Second
                        /\ \A w \in Watchers : watcher[s][w].status # "none" =>
                             watcher[s][w].dies >= session'[s].expires * Second
        BY <1>7 DEF NothingEndsEarly
    <2>1. CASE session'[s] = session[s]
        BY <2>1 DEF IInv, KeysInv, NothingEndsEarly
    <2>2. CASE s = k.s /\ session'[s] = new
        BY <1>2, <1>4, <1>5, <2>2 DEF IInv, KeysInv, NothingEndsEarly, Untouched
    <2> QED
        BY <1>9, <2>1, <2>2
<1>18. NothingStays'
    <2> SUFFICES ASSUME NEW s \in Sessions, session'[s] # None
                 PROVE  LET end == session'[s].expires * Second + MaxLatency IN
                        /\ location[s].dies \in 0 .. end
                        /\ session'[s].dies \in 0 .. end + Second
                        /\ \A w \in Watchers : watcher[s][w].dies \in
                            0 .. end + Second + session'[s].duration * Second + MaxLatency
        BY <1>7 DEF NothingStays
    <2>1. CASE session'[s] = session[s]
        BY <2>1 DEF IInv, KeysInv, NothingStays
    <2>2. CASE s = k.s /\ session'[s] = new
        <3>1. CASE session[s] = None
            BY <1>3, <1>4, <1>5, <2>2, <3>1, TrackTime DEF IInv, KeysInv, Untouched
        <3>2. CASE session[s] # None
            BY <1>2, <1>4, <1>5, <2>2, <3>2 DEF IInv, KeysInv, NothingStays
        <3> QED
            BY <3>1, <3>2
    <2> QED
        BY <1>9, <2>1, <2>2
<1> QED
    BY <1>12, <1>13, <1>14, <1>15, <1>16, <1>17, <1>18 DEF IInv, KeysInv

LEMMA TickPreserves ==
    ASSUME IInv, Tick
    PROVE  IInv'
<1>1. /\ now \in Nat /\ now' = now + 1
      /\ UNCHANGED <<session, watcher, location, call, lapsed>>
      /\ \A c \in Calls : call[c] # None => now < call[c].since + MaxLatency
    BY DEF Tick, IInv, TypeOK
<1>2. TypeOK'
    BY <1>1 DEF IInv, TypeOK
<1>3. CallsGood'
    <2> SUFFICES ASSUME NEW c \in Calls, call[c] # None
                 PROVE  CallGood(call[c])'
        BY <1>1 DEF CallsGood
    <2>1. CallGood(call[c]) /\ call[c].since \in Nat
        BY DEF IInv, CallsGood, TypeOK, CallRecord
    <2>2. Timely(call[c])'
        BY <1>1, <2>1, TrackTime DEF CallGood, Timely
    <2>3. Shape(call[c])' /\ Follows(call[c])' /\ Creates(call[c])'
        BY <1>1, <2>1 DEF CallGood, Shape, Follows, Creates
    <2> QED
        BY <2>2, <2>3 DEF CallGood
<1>4. OneCreator'
    BY <1>1 DEF IInv, OneCreator
<1>5. Untouched' /\ NothingEndsEarly' /\ NothingStays'
    BY <1>1 DEF IInv, KeysInv, Untouched, NothingEndsEarly, NothingStays
<1>6. Dated'
    <2> SUFFICES ASSUME NEW s \in Sessions, session[s] # None
                 PROVE  /\ session[s].duration * Second > 0
                        /\ session[s].expires * Second <= now + 1 + session[s].duration * Second
        BY <1>1 DEF Dated
    <2>1. session[s].duration * Second \in Int /\ session[s].expires * Second \in Int
        BY TrackTime DEF IInv, TypeOK, SessionRecord
    <2> QED
        BY <1>1, <2>1 DEF IInv, KeysInv, Dated
<1> QED
    BY <1>2, <1>3, <1>4, <1>5, <1>6 DEF IInv, KeysInv

------------------------------------------------------------------------------
(* The theorems *)

LEMMA InitEstablishes ==
    Init => IInv
<1> SUFFICES ASSUME Init PROVE IInv
    OBVIOUS
<1>1. TypeOK
    BY DEF Init, TypeOK, Statuses, Deaths
<1>2. CallsGood /\ OneCreator
    BY DEF Init, CallsGood, OneCreator
<1>3. KeysInv
    BY DEF Init, KeysInv, Untouched, Dated, NothingEndsEarly, NothingStays
<1> QED
    BY <1>1, <1>2, <1>3 DEF IInv

LEMMA BeginPreserves ==
    ASSUME IInv, NEW c \in Calls, Begin(c)
    PROVE  IInv'
<1> PICK s \in Sessions, p \in Peers, w \in Watchers :
        \/ \E d \in Asked : Create(c, s, p, d)
        \/ \E op \in {"request", "locate"} : Arrive(c, op, s, None, w)
        \/ \E op \in {"approve", "reject"} : Arrive(c, op, s, p, w)
        \/ Arrive(c, "publish", s, p, None)
    BY DEF Begin
<1>1. CASE \E d \in Asked : Create(c, s, p, d)
    BY <1>1, CreatePreserves
<1>2. CASE \E op \in {"request", "locate"} : Arrive(c, op, s, None, w)
    BY <1>2, ArrivePreserves DEF Operations
<1>3. CASE \E op \in {"approve", "reject"} : Arrive(c, op, s, p, w)
    BY <1>3, ArrivePreserves DEF Operations
<1>4. CASE Arrive(c, "publish", s, p, None)
    BY <1>4, ArrivePreserves DEF Operations
<1> QED
    BY <1>1, <1>2, <1>3, <1>4

LEMMA StepPreserves ==
    IInv /\ [Next]_vars => IInv'
<1> SUFFICES ASSUME IInv, [Next]_vars PROVE IInv'
    OBVIOUS
<1>1. ASSUME NEW c \in Calls, Begin(c) PROVE IInv'
    BY <1>1, BeginPreserves
<1>2. ASSUME NEW c \in Calls, Step(c) PROVE IInv'
    <2>1. CASE ReadSession(c)
        BY <2>1, ReadSessionPreserves
    <2>2. CASE CheckRequest(c)
        BY <2>2, CheckRequestPreserves
    <2>3. CASE CheckPublish(c)
        BY <2>3, CheckPublishPreserves
    <2>4. CASE WriteSession(c)
        BY <2>4, WriteSessionPreserves
    <2>5. CASE WriteStatus(c)
        BY <2>5, WriteStatusPreserves
    <2>6. CASE WriteLocation(c)
        BY <2>6, WriteLocationPreserves
    <2>7. CASE ReadStatus(c)
        BY <2>7, ReadStatusPreserves
    <2>8. CASE ReadLocation(c)
        BY <2>8, ReturnPreserves DEF ReadLocation
    <2> QED
        BY <1>2, <2>1, <2>2, <2>3, <2>4, <2>5, <2>6, <2>7, <2>8 DEF Step
<1>3. ASSUME NEW c \in Calls, Fail(c) PROVE IInv'
    BY <1>3, ReturnPreserves DEF Fail
<1>4. CASE Tick
    BY <1>4, TickPreserves
<1>5. CASE UNCHANGED vars
    BY <1>5 DEF vars, IInv, TypeOK, CallsGood, CallGood, Shape, Timely, Follows, Creates,
                OneCreator, KeysInv, Untouched, Dated, NothingEndsEarly, NothingStays
<1> QED
    BY <1>1, <1>2, <1>3, <1>4, <1>5 DEF Next

THEOREM Invariance ==
    Spec => []IInv
BY InitEstablishes, StepPreserves, PTL DEF Spec

\* Sessions, statuses, locations and calls keep their types.
THEOREM TypeCorrect ==
    Spec => []TypeOK
<1>1. IInv => TypeOK
    BY DEF IInv
<1> QED
    BY Invariance, <1>1, PTL

\* Whatever the durations asked for and however calls interleave, are repeated
\* or given up, a session and the statuses of its watchers last until the
\* instant the owner was told.
THEOREM LastsAsPromised ==
    Spec => []NothingEndsEarly
<1>1. IInv => NothingEndsEarly
    BY DEF IInv, KeysInv
<1> QED
    BY Invariance, <1>1, PTL

\* ... and none of its keys outlives it by more than its duration, one second
\* and two latencies.
THEOREM NothingIsLeft ==
    Spec => []NothingStays
<1>1. IInv => NothingStays
    BY DEF IInv, KeysInv
<1> QED
    BY Invariance, <1>1, PTL

------------------------------------------------------------------------------
(* Who is served, and what replaces a location *)

\* A call that has found its watcher approved: the approval was in force then,
\* whatever has been written since.
Vouched(k) ==
    /\ k.pc \in {"status", "location"} => k.op = "locate" /\ k.w \in Watchers
    /\ k.pc = "location" => ApprovedUntil(k.s, k.w) >= k.since

\* A location about to be written bears the second its publisher's clock was
\* read in.
Stamped(k) ==
    k.op = "publish" /\ k.pc = "write" =>
        /\ k.ts * Second <= k.since
        /\ k.since < k.ts * Second + Second

\* No location comes from the future.
Dateline == \A s \in Sessions : location[s].ts * Second <= now

Reads == \A c \in Calls : call[c] # None => Vouched(call[c]) /\ Stamped(call[c])

RInv == Reads /\ Dateline

\* What was approved once stays so on record: no step takes back the instant up
\* to which a watcher was approved.
LEMMA ApprovalOnRecord ==
    ASSUME IInv, [Next]_vars, NEW s \in Sessions, NEW w \in Watchers
    PROVE  /\ ApprovedUntil(s, w) \in Int /\ ApprovedUntil(s, w)' \in Int
           /\ ApprovedUntil(s, w)' = now \/ ApprovedUntil(s, w)' >= ApprovedUntil(s, w)
<1>1. /\ now \in Nat
      /\ watcher \in [Sessions -> [Watchers -> [status : Statuses, dies : Deaths]]]
      /\ lapsed \in [Sessions -> [Watchers -> Deaths]]
    BY DEF IInv, TypeOK
<1>2. watcher[s][w] \in [status : Statuses, dies : Deaths] /\ lapsed[s][w] \in Deaths
    BY <1>1
<1>3. ApprovedUntil(s, w) \in Int
    BY <1>1, <1>2 DEF ApprovedUntil, Deaths, Forever
<1>9. ApprovedUntil(s, w)' \in Int
    <2>1. now' \in Nat /\ watcher'[s][w] \in [status : Statuses, dies : Deaths]
          /\ lapsed'[s][w] \in Deaths
        BY StepPreserves DEF IInv, TypeOK
    <2> QED
        BY <2>1 DEF ApprovedUntil, Deaths, Forever
<1>4. CASE UNCHANGED <<now, watcher, lapsed>>
    BY <1>3, <1>4 DEF ApprovedUntil, Live
<1>5. ASSUME NEW c \in Calls, WriteStatus(c)
      PROVE  ApprovedUntil(s, w)' = now \/ ApprovedUntil(s, w)' >= ApprovedUntil(s, w)
    <2> DEFINE k == call[c]
    <2>1. k \in CallRecord
        BY <1>5 DEF WriteStatus, At, IInv, TypeOK
    <2>2. /\ watcher' = [watcher EXCEPT ![k.s][k.w] =
                           [status |-> Written(k.op), dies |-> Death(k.ttl)]]
          /\ lapsed' = [lapsed EXCEPT ![k.s][k.w] = ApprovedUntil(k.s, k.w)]
        BY <1>5 DEF WriteStatus
    <2>3. now' = now
        BY <1>5 DEF WriteStatus
    <2>4. Death(k.ttl) = Forever \/ now < Death(k.ttl)
        BY <1>1, <2>1 DEF Death, CallRecord
    <2> HIDE DEF k
    <2>5. CASE s = k.s /\ w = k.w
        <3>1. lapsed'[s][w] = ApprovedUntil(s, w)
              /\ watcher'[s][w] = [status |-> Written(k.op), dies |-> Death(k.ttl)]
            BY <1>1, <2>2, <2>5
        <3>2. watcher'[s][w].dies = Forever \/ now' < watcher'[s][w].dies
            BY <2>3, <2>4, <3>1
        <3>3. ApprovedUntil(s, w)' = now \/ ApprovedUntil(s, w)' = lapsed'[s][w]
            BY <2>3, <3>2 DEF ApprovedUntil, Live
        <3> QED
            BY <1>3, <3>1, <3>3
    <2>6. CASE ~(s = k.s /\ w = k.w)
        <3>1. lapsed'[s][w] = lapsed[s][w] /\ watcher'[s][w] = watcher[s][w]
            BY <1>1, <2>2, <2>6
        <3>2. ApprovedUntil(s, w)' = ApprovedUntil(s, w)
            BY <2>3, <3>1 DEF ApprovedUntil, Live
        <3> QED
            BY <1>3, <3>2
    <2> QED
        BY <2>5, <2>6
<1>6. CASE Tick
    <2>1. now' = now + 1 /\ watcher' = watcher /\ lapsed' = lapsed
        BY <1>6 DEF Tick
    <2>2. watcher'[s][w] = watcher[s][w] /\ lapsed'[s][w] = lapsed[s][w]
        BY <2>1
    <2>3. watcher[s][w].dies \in Int /\ lapsed[s][w] \in Int
        BY <1>2 DEF Deaths, Forever
    <2> QED
        BY <1>1, <2>1, <2>2, <2>3 DEF ApprovedUntil, Live
<1>7. CASE UNCHANGED vars
    BY <1>4, <1>7 DEF vars
<1>8. ASSUME NEW c \in Calls, Begin(c) \/ Step(c) \/ Fail(c), ~WriteStatus(c)
      PROVE  UNCHANGED <<now, watcher, lapsed>>
    <2>1. Begin(c) => UNCHANGED <<now, watcher, lapsed>>
        BY DEF Begin, Create, Arrive
    <2>2. Fail(c) => UNCHANGED <<now, watcher, lapsed>>
        BY DEF Fail
    <2>3. ReadSession(c) \/ CheckRequest(c) \/ CheckPublish(c)
          => UNCHANGED <<now, watcher, lapsed>>
        BY DEF ReadSession, CheckRequest, CheckPublish
    <2>4. WriteSession(c) \/ WriteLocation(c) \/ ReadStatus(c) \/ ReadLocation(c)
          => UNCHANGED <<now, watcher, lapsed>>
        BY DEF WriteSession, WriteLocation, ReadStatus, ReadLocation
    <2> QED
        BY <1>8, <2>1, <2>2, <2>3, <2>4 DEF Step
<1> QED
    BY <1>3, <1>9, <1>4, <1>5, <1>6, <1>7, <1>8 DEF Next

\* A call in progress that the step does not move.
LEMMA OthersKeepReading ==
    ASSUME IInv, [Next]_vars, Reads, NEW c \in Calls, call[c] # None, call'[c] = call[c]
    PROVE  Vouched(call[c])' /\ Stamped(call[c])'
<1>1. call[c] \in CallRecord /\ Vouched(call[c]) /\ Stamped(call[c])
      /\ call[c].since <= now
    BY DEF IInv, TypeOK, Reads, CallsGood, CallGood, Timely
<1>2. Stamped(call[c])'
    BY <1>1, Zenon DEF Stamped
<1>3. CASE call[c].pc = "location"
    <2>1. call[c].s \in Sessions /\ call[c].w \in Watchers /\ call[c].since \in Nat
          /\ now \in Nat /\ ApprovedUntil(call[c].s, call[c].w) >= call[c].since
        BY <1>1, <1>3 DEF Vouched, CallRecord, IInv, TypeOK
    <2> DEFINE u == ApprovedUntil(call[c].s, call[c].w)
    <2>2. /\ u \in Int /\ ApprovedUntil(call[c].s, call[c].w)' \in Int
          /\ ApprovedUntil(call[c].s, call[c].w)' = now
             \/ ApprovedUntil(call[c].s, call[c].w)' >= u
        <3>1. ASSUME NEW s \in Sessions, NEW w \in Watchers, s = call[c].s, w = call[c].w
              PROVE  /\ ApprovedUntil(s, w) \in Int /\ ApprovedUntil(s, w)' \in Int
                     /\ ApprovedUntil(s, w)' = now
                        \/ ApprovedUntil(s, w)' >= ApprovedUntil(s, w)
            BY ApprovalOnRecord
        <3> QED
            BY <2>1, <3>1
    <2> HIDE DEF u
    <2>3. ApprovedUntil(call[c].s, call[c].w)' >= call[c].since
        BY <1>1, <2>1, <2>2 DEF u
    <2> QED
        BY <1>1, <1>2, <1>3, <2>3 DEF Vouched
<1>4. CASE call[c].pc # "location"
    BY <1>1, <1>2, <1>4 DEF Vouched
<1> QED
    BY <1>3, <1>4

\* The call that a step moves, when that is all the step does to the calls.
LEMMA MovedKeepsReading ==
    ASSUME IInv, [Next]_vars, Reads, NEW c \in Calls,
           \A d \in Calls \ {c} : call'[d] = call[d],
           call'[c] # None => call'[c] = call[c] \/ (Vouched(call[c])' /\ Stamped(call[c])')
    PROVE  Reads'
<1> SUFFICES ASSUME NEW d \in Calls, call'[d] # None
             PROVE  Vouched(call[d])' /\ Stamped(call[d])'
    BY DEF Reads
<1>1. CASE call'[d] = call[d]
    BY <1>1, OthersKeepReading
<1>2. CASE call'[d] # call[d]
    <2>1. d = c
        BY <1>2
    <2> QED
        BY <1>2, <2>1
<1> QED
    BY <1>1, <1>2

\* ReadStatus vouches for the watcher at the instant it is taken.
LEMMA ReadStatusVouches ==
    ASSUME IInv, Reads, NEW c \in Calls, ReadStatus(c), call'[c] # None
    PROVE  Vouched(call[c])' /\ Stamped(call[c])'
<1>1. /\ call[c] # None /\ call[c] \in CallRecord /\ call[c].pc = "status"
      /\ now \in Nat /\ call \in [Calls -> CallRecord \cup {None}]
    BY DEF ReadStatus, At, IInv, TypeOK
<1>2. call[c].op = "locate" /\ call[c].w \in Watchers
    BY <1>1 DEF Reads, Vouched
<1>3. /\ Status(call[c].s, call[c].w) = "approved"
      /\ call' = [call EXCEPT ![c] = [@ EXCEPT !.pc = "location", !.since = now]]
      /\ UNCHANGED <<now, watcher, lapsed>>
    BY <1>1 DEF ReadStatus, Returns, Goes
<1>4. call'[c] = [call[c] EXCEPT !.pc = "location", !.since = now]
    BY <1>1, <1>3
<1>5. /\ call'[c].pc = "location" /\ call'[c].op = "locate"
      /\ call'[c].s = call[c].s /\ call'[c].w = call[c].w /\ call'[c].since = now
    BY <1>1, <1>2, <1>4 DEF CallRecord
<1>6. ApprovedUntil(call[c].s, call[c].w) = now
    BY <1>3 DEF Status, ApprovedUntil
<1>7. ApprovedUntil(call[c].s, call[c].w)' = now
    BY <1>3, <1>5, <1>6 DEF ApprovedUntil, Live
<1> QED
    BY <1>1, <1>2, <1>5, <1>7 DEF Vouched, Stamped

\* CheckPublish stamps the location with the second of the clock it reads.
LEMMA CheckPublishStamps ==
    ASSUME IInv, NEW c \in Calls, CheckPublish(c), call'[c] # None
    PROVE  Vouched(call[c])' /\ Stamped(call[c])'
<1>1. /\ call[c] # None /\ call[c] \in CallRecord /\ call[c].op = "publish"
      /\ now \in Nat /\ call \in [Calls -> CallRecord \cup {None}]
    BY DEF CheckPublish, At, IInv, TypeOK
<1>2. call' = [call EXCEPT ![c] = [@ EXCEPT !.pc = "write", !.since = now, !.ts = Unix,
                  !.ttl = call[c].expires * Second - now]]
    BY <1>1, Zenon DEF CheckPublish, Returns
<1>3. call'[c].pc = "write" /\ call'[c].since = now /\ call'[c].ts = Unix
    BY <1>1, <1>2 DEF CallRecord
<1>4. Unix \in Nat /\ Unix * Second <= now /\ now < Unix * Second + Second
    BY <1>1, UnixRounds
<1> QED
    BY <1>3, <1>4, Zenon DEF Vouched, Stamped

LEMMA ReadsPreserved ==
    ASSUME IInv, [Next]_vars, Reads
    PROVE  Reads'
<1>1. call \in [Calls -> CallRecord \cup {None}]
    BY DEF IInv, TypeOK
<1>2. CASE UNCHANGED vars \/ Tick
    BY <1>2, OthersKeepReading DEF vars, Tick, Reads
<1>3. ASSUME NEW c \in Calls, Begin(c) PROVE Reads'
    <2>1. ASSUME NEW s \in Sessions, NEW p \in Peers \cup {None},
                 NEW w \in Watchers \cup {None}, NEW op \in Operations, Arrive(c, op, s, p, w),
                 op = "locate" => w \in Watchers
          PROVE  Reads'
        <3>1. /\ call'[c].op = op /\ call'[c].w = w
              /\ call'[c].pc = IF op = "locate" THEN "status" ELSE "session"
            BY <1>1, <2>1 DEF Arrive
        <3>2. Vouched(call[c])' /\ Stamped(call[c])'
            BY <2>1, <3>1 DEF Vouched, Stamped
        <3>3. \A d \in Calls \ {c} : call'[d] = call[d]
            BY <1>1, <2>1 DEF Arrive
        <3> QED
            BY <3>2, <3>3, MovedKeepsReading
    <2>2. ASSUME NEW s \in Sessions, NEW p \in Peers, NEW d \in Asked, Create(c, s, p, d)
          PROVE  Reads'
        <3>1. call'[c].op = "create" /\ call'[c].pc = "write"
            BY <1>1, <2>2 DEF Create
        <3>2. Vouched(call[c])' /\ Stamped(call[c])'
            BY <3>1 DEF Vouched, Stamped
        <3>3. \A e \in Calls \ {c} : call'[e] = call[e]
            BY <1>1, <2>2 DEF Create
        <3> QED
            BY <3>2, <3>3, MovedKeepsReading
    <2> QED
        BY <1>3, <2>1, <2>2 DEF Begin, Operations
<1>4. ASSUME NEW c \in Calls, Returns(c) \/ UNCHANGED call PROVE Reads'
    BY <1>1, <1>4, MovedKeepsReading DEF Returns
<1>5. ASSUME NEW c \in Calls, Step(c) PROVE Reads'
    <2>1. CASE ReadSession(c)
        <3>1. \A d \in Calls \ {c} : call'[d] = call[d]
            BY <1>1, <2>1 DEF ReadSession, Returns
        <3>2. ASSUME call'[c] # None
              PROVE  Vouched(call[c])' /\ Stamped(call[c])'
            <4>1. /\ call[c] \in CallRecord /\ call[c].pc = "session" /\ Shape(call[c])
                BY <2>1 DEF ReadSession, At, IInv, TypeOK, CallsGood, CallGood
            <4>2. /\ call'[c].op = call[c].op
                  /\ call'[c].pc = IF call[c].op \in {"approve", "reject"}
                                   THEN "write" ELSE "check"
                <5> DEFINE pc == IF call[c].op \in {"approve", "reject"}
                                 THEN "write" ELSE "check"
                           read == session[call[c].s]
                <5>1. ~Returns(c)
                    BY <1>1, <3>2 DEF Returns
                <5>2. call' = [call EXCEPT ![c] = [@ EXCEPT
                        !.pc = pc, !.duration = read.duration, !.expires = read.expires,
                        !.ttl = read.duration * Second, !.since = now]]
                    BY <2>1, <5>1, Zenon DEF ReadSession
                <5> HIDE DEF pc, read
                <5>3. call'[c].op = call[c].op /\ call'[c].pc = pc
                    BY <1>1, <4>1, <5>2 DEF CallRecord
                <5> QED
                    BY <5>3 DEF pc
            <4> QED
                BY <4>2 DEF Vouched, Stamped
        <3> QED
            BY <3>1, <3>2, MovedKeepsReading
    <2>2. CASE CheckRequest(c)
        <3>1. \A d \in Calls \ {c} : call'[d] = call[d]
            BY <1>1, <2>2 DEF CheckRequest, Returns, Goes
        <3>2. ASSUME call'[c] # None
              PROVE  Vouched(call[c])' /\ Stamped(call[c])'
            <4>1. call'[c].op = "request" /\ call'[c].pc = "write"
                BY <1>1, <2>2, <3>2 DEF CheckRequest, At, Returns, Goes, CallRecord
            <4> QED
                BY <4>1 DEF Vouched, Stamped
        <3> QED
            BY <3>1, <3>2, MovedKeepsReading
    <2>3. CASE CheckPublish(c)
        <3>1. \A d \in Calls \ {c} : call'[d] = call[d]
            BY <1>1, <2>3 DEF CheckPublish, Returns
        <3> QED
            BY <2>3, <3>1, CheckPublishStamps, MovedKeepsReading
    <2>4. CASE ReadStatus(c)
        <3>1. \A d \in Calls \ {c} : call'[d] = call[d]
            BY <1>1, <2>4 DEF ReadStatus, Returns, Goes
        <3> QED
            BY <2>4, <3>1, ReadStatusVouches, MovedKeepsReading
    <2>5. CASE WriteSession(c) \/ WriteStatus(c) \/ WriteLocation(c)
        BY <1>4, <2>5 DEF WriteSession, WriteStatus, WriteLocation, Answered
    <2>6. CASE ReadLocation(c)
        BY <1>4, <2>6 DEF ReadLocation
    <2> QED
        BY <1>5, <2>1, <2>2, <2>3, <2>4, <2>5, <2>6 DEF Step
<1>6. ASSUME NEW c \in Calls, Fail(c) PROVE Reads'
    BY <1>4, <1>6 DEF Fail
<1> QED
    BY <1>2, <1>3, <1>5, <1>6 DEF Next

\* Only a publication changes a location.
LEMMA LocationWritten ==
    ASSUME [Next]_vars, NEW s \in Sessions, location'[s] # location[s]
    PROVE  \E c \in Calls : WriteLocation(c)
<1>1. location' # location
    OBVIOUS
<1>2. CASE UNCHANGED vars \/ Tick
    BY <1>1, <1>2 DEF vars, Tick
<1>3. ASSUME NEW c \in Calls, Begin(c) \/ Step(c) \/ Fail(c) PROVE WriteLocation(c)
    <2>1. ~Begin(c) /\ ~Fail(c)
        BY <1>1 DEF Begin, Create, Arrive, Fail
    <2>2. ~ReadSession(c) /\ ~CheckRequest(c) /\ ~CheckPublish(c)
        BY <1>1 DEF ReadSession, CheckRequest, CheckPublish
    <2>3. ~WriteSession(c) /\ ~WriteStatus(c) /\ ~ReadStatus(c) /\ ~ReadLocation(c)
        BY <1>1 DEF WriteSession, WriteStatus, ReadStatus, ReadLocation
    <2> QED
        BY <1>3, <2>1, <2>2, <2>3 DEF Step
<1> QED
    BY <1>2, <1>3 DEF Next

LEMMA DatelinePreserved ==
    ASSUME IInv, [Next]_vars, Reads, Dateline
    PROVE  Dateline'
<1>1. /\ now \in Nat /\ now' \in Nat
      /\ location \in [Sessions -> [ts : Nat, dies : Deaths]]
    BY StepPreserves DEF IInv, TypeOK
<1>2. now <= now'
    <2>1. ASSUME NEW c \in Calls, Begin(c) \/ Step(c) \/ Fail(c) PROVE now' = now
        <3>1. Begin(c) \/ Fail(c) => now' = now
            BY DEF Begin, Create, Arrive, Fail
        <3>2. ReadSession(c) \/ CheckRequest(c) \/ CheckPublish(c) => now' = now
            BY DEF ReadSession, CheckRequest, CheckPublish
        <3>3. WriteSession(c) \/ WriteStatus(c) \/ WriteLocation(c) => now' = now
            BY DEF WriteSession, WriteStatus, WriteLocation
        <3>4. ReadStatus(c) \/ ReadLocation(c) => now' = now
            BY DEF ReadStatus, ReadLocation
        <3> QED
            BY <2>1, <3>1, <3>2, <3>3, <3>4 DEF Step
    <2> QED
        BY <1>1, <2>1 DEF Next, Tick, vars
<1>3. SUFFICES ASSUME NEW s \in Sessions PROVE location'[s].ts * Second <= now'
    BY DEF Dateline
<1>4. location[s].ts * Second <= now /\ location[s].ts * Second \in Int
    BY <1>1, TrackTime DEF Dateline
<1>5. CASE location'[s] = location[s]
    BY <1>1, <1>4, <1>5, <1>2
<1>6. CASE location'[s] # location[s]
    <2>1. PICK c \in Calls : WriteLocation(c)
        BY <1>6, LocationWritten
    <2>2. location'[s].ts = call[c].ts
        BY <1>1, <1>6, <2>1 DEF WriteLocation
    <2>3. call[c] \in CallRecord /\ call[c].ts * Second <= call[c].since
          /\ call[c].since <= now
        BY <2>1 DEF WriteLocation, At, Reads, Stamped, IInv, TypeOK, CallsGood, CallGood, Timely
    <2>4. call[c].ts * Second \in Int /\ call[c].since \in Nat
        BY <2>3, TrackTime DEF CallRecord
    <2> QED
        BY <1>1, <1>2, <2>2, <2>3, <2>4
<1> QED
    BY <1>5, <1>6

LEMMA RInvPreserved ==
    IInv /\ RInv /\ [Next]_vars => RInv'
BY ReadsPreserved, DatelinePreserved DEF RInv

LEMMA InitReads ==
    Init => RInv
<1>1. 0 * Second = 0
    BY TrackTime
<1> QED
    BY <1>1 DEF Init, RInv, Reads, Dateline

THEOREM RInvariance ==
    Spec => []RInv
BY Invariance, InitReads, RInvPreserved, PTL DEF Spec

\* However the reads of a status and of a location are interleaved with the
\* owner's decisions and the watcher's new requests, and however often a SET is
\* executed: whoever is served was approved at most a latency earlier.
THEOREM ServedWhileApprovedAlways ==
    Spec => ServedWhileApproved
<1>1. ASSUME IInv, RInv, NEW c \in Calls, Serves(c)
      PROVE  now - ApprovedUntil(call[c].s, call[c].w) <= MaxLatency
    <2>1. /\ call[c] \in CallRecord /\ call[c].pc = "location"
          /\ Vouched(call[c]) /\ Timely(call[c])
        BY <1>1 DEF Serves, At, IInv, TypeOK, CallsGood, CallGood, RInv, Reads
    <2> DEFINE u == ApprovedUntil(call[c].s, call[c].w)
    <2>2. call[c].s \in Sessions /\ call[c].w \in Watchers /\ call[c].since \in Nat
        BY <2>1 DEF CallRecord, Vouched
    <2>3. now \in Nat /\ now <= call[c].since + MaxLatency /\ u >= call[c].since
        BY <1>1, <2>1 DEF Timely, Vouched, IInv, TypeOK
    <2>4. u \in Int
        BY <1>1, <2>2 DEF ApprovedUntil, Deaths, Forever, IInv, TypeOK
    <2> HIDE DEF u
    <2>5. now - u <= MaxLatency
        BY <2>2, <2>3, <2>4, TrackTime
    <2> QED
        BY <2>5 DEF u
<1>2. IInv /\ RInv /\ [Next]_vars =>
        [\A c \in Calls : Serves(c) =>
            now - ApprovedUntil(call[c].s, call[c].w) <= MaxLatency]_vars
    BY <1>1
<1> QED
    BY <1>2, Invariance, RInvariance, PTL DEF Spec, ServedWhileApproved

\* However publications overtake each other or are executed twice, the location
\* of a session never goes back by more than a latency and a second.
THEOREM NeverMuchOlderAlways ==
    Spec => NeverMuchOlder
<1>1. ASSUME IInv, RInv, [Next]_vars, NEW s \in Sessions, location'[s] # location[s]
      PROVE  location'[s].ts * Second > location[s].ts * Second - MaxLatency - Second
    <2>1. PICK c \in Calls : WriteLocation(c)
        BY <1>1, LocationWritten
    <2>2. /\ call[c] \in CallRecord /\ Stamped(call[c]) /\ Timely(call[c])
          /\ call[c].op = "publish" /\ call[c].pc = "write"
          /\ now \in Nat /\ location[s] \in [ts : Nat, dies : Deaths]
        BY <1>1, <2>1 DEF WriteLocation, At, RInv, Reads, IInv, TypeOK, CallsGood, CallGood
    <2>3. location'[s].ts = call[c].ts
        BY <1>1, <2>1 DEF WriteLocation, IInv, TypeOK
    <2>4. /\ call[c].since < call[c].ts * Second + Second
          /\ now <= call[c].since + MaxLatency
          /\ location[s].ts * Second <= now
        BY <1>1, <2>2 DEF Stamped, Timely, RInv, Dateline
    <2>5. /\ call[c].ts * Second \in Int /\ call[c].since \in Nat
          /\ location[s].ts * Second \in Int
        BY <2>2, TrackTime DEF CallRecord
    <2> QED
        BY <2>2, <2>3, <2>4, <2>5, TrackTime
<1>2. IInv /\ RInv /\ [Next]_vars =>
        [\A s \in Sessions : location'[s] # location[s] =>
            location'[s].ts * Second > location[s].ts * Second - MaxLatency - Second]_vars
    BY <1>1
<1> QED
    BY <1>2, Invariance, RInvariance, PTL DEF Spec, NeverMuchOlder

=============================================================================
