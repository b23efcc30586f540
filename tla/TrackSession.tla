----------------------------- MODULE TrackSession -----------------------------
(***************************************************************************)
(* Live tracking sessions: the handlers of internal/api/track.go and the   *)
(* Redis commands of internal/redis/track.go they consist of.              *)
(*                                                                         *)
(* A session shares its owner's location with the watchers the owner       *)
(* approves.  Three kinds of Redis keys stand for it, each with a time to  *)
(* live of its own computed from a clock read before the SET is sent: the  *)
(* session, a status per watcher, and the last location.  A handler is a   *)
(* sequence of steps, one per Redis command and one for reading the clock; *)
(* calls interleave freely, and time passes between any two steps, never   *)
(* more than MaxLatency: go-redis gives up on a command after a time.  A   *)
(* command whose answer is lost is sent again and executed twice; one that *)
(* the client gave up on may still be executed, which is why the caller's  *)
(* own view of the answer is no part of the state.                         *)
(*                                                                         *)
(* Time is counted in ticks, Second of them to the second: the code rounds *)
(* some instants down to seconds (Unix) and not others.  Redis and the     *)
(* server read the same clock.                                             *)
(*                                                                         *)
(* A definition marked "Bug" is part of no behaviour: it is a mistake in   *)
(* the definition below it that one of the properties would reveal.        *)
(***************************************************************************)
EXTENDS Integers

CONSTANTS
    Sessions,        \* session identifiers, each created once (16 random bytes)
    Peers,           \* who may create, publish and respond
    Watchers,        \* who asks to see a location
    Calls,           \* goroutines serving HTTP calls
    None,            \* Go's nil
    Asked,           \* the durations clients ask for, in seconds
    DefaultDuration, \* 15 minutes
    MaxDuration,     \* 120 minutes
    MaxSessionTTL,   \* maxSessionTTL, in ticks
    Second,          \* ticks to the second
    MaxLatency,      \* the longest time between two steps of a call, in ticks
    LastCreate,      \* bound of the model: the last instant a session is created at
    MaxTime          \* bound of the model: the last instant

ASSUME TrackDurations ==
    /\ Asked \subseteq Int
    /\ DefaultDuration \in Nat \ {0}
    /\ MaxDuration \in Nat
    /\ DefaultDuration <= MaxDuration
    /\ MaxSessionTTL \in Nat
    /\ MaxDuration * Second <= MaxSessionTTL

ASSUME TrackTime ==
    /\ Second \in Nat \ {0}
    /\ MaxLatency \in Nat \ {0}
    /\ LastCreate \in Nat
    /\ MaxTime \in Nat

VARIABLES
    now,
    session,   \* track:session:<id>
    watcher,   \* track:session:watcher:<id>:<watcher>
    location,  \* track:session:location:<id>
    call,      \* the calls in progress
    lapsed     \* history: when an overwritten approval was last in force

vars == <<now, session, watcher, location, call, lapsed>>

Operations == {"create", "request", "approve", "reject", "publish", "locate"}

Statuses == {"none", "requested", "approved", "rejected"}

\* The death of a key that has no time to live.
Forever == -1

Deaths == Nat \cup {Forever}

SessionRecord == [owner : Peers, duration : Nat, expires : Nat, dies : Deaths]

ASSUME TrackNone == None \notin Peers \cup Watchers \cup SessionRecord

CallRecord ==
    [pc : {"session", "check", "write", "status", "location"}, op : Operations,
     s : Sessions, by : Peers \cup {None}, w : Watchers \cup {None},
     duration : Nat, expires : Nat, ttl : Int, ts : Nat, since : Nat]

\* time.Now().Unix()
Unix == now \div Second

\* A key set now: go-redis sends no expiry for a TTL that is not positive.
Death(ttl) == IF ttl > 0 THEN now + ttl ELSE Forever

Live(key) == key.dies = Forever \/ now < key.dies

SessionLive(s) == session[s] # None /\ Live(session[s])

Status(s, w) == IF Live(watcher[s][w]) THEN watcher[s][w].status ELSE "none"

\* Bug: only the lower end of the duration is checked.
Unclamped(d) == IF d <= 0 THEN DefaultDuration ELSE d

\* The duration CreateSession settles on.
Duration(d) ==
    IF d <= 0 THEN DefaultDuration ELSE IF d > MaxDuration THEN MaxDuration ELSE d

SessionTTL(duration) ==
    IF duration * Second > MaxSessionTTL THEN MaxSessionTTL ELSE duration * Second

------------------------------------------------------------------------------
Init ==
    /\ now = 0
    /\ session = [s \in Sessions |-> None]
    /\ watcher = [s \in Sessions |-> [w \in Watchers |-> [status |-> "none", dies |-> 0]]]
    /\ location = [s \in Sessions |-> [ts |-> 0, dies |-> 0]]
    /\ call = [c \in Calls |-> None]
    /\ lapsed = [s \in Sessions |-> [w \in Watchers |-> 0]]

------------------------------------------------------------------------------
(* The life of a call *)

\* The next step of a call has been taken.
Goes(c, pc) == call' = [call EXCEPT ![c] = [@ EXCEPT !.pc = pc, !.since = now]]

Returns(c) == call' = [call EXCEPT ![c] = None]

At(c, pc) == call[c] # None /\ call[c].pc = pc

\* CreateSession reads the clock, clamps the duration and draws an identifier.
Create(c, s, p, d) ==
    /\ call[c] = None
    /\ now <= LastCreate
    /\ session[s] = None
    /\ \A other \in Calls : call[other] # None => call[other].s # s
    /\ call' = [call EXCEPT ![c] =
        [pc |-> "write", op |-> "create", s |-> s, by |-> p, w |-> None,
         duration |-> Duration(d), expires |-> Unix + Duration(d),
         ttl |-> SessionTTL(Duration(d)), ts |-> 0, since |-> now]]
    /\ UNCHANGED <<now, session, watcher, location, lapsed>>

\* Any other call arrives: GET of a location first reads the watcher's status,
\* the rest the session.
Arrive(c, op, s, p, w) ==
    /\ call[c] = None
    /\ call' = [call EXCEPT ![c] =
        [pc |-> IF op = "locate" THEN "status" ELSE "session", op |-> op, s |-> s,
         by |-> p, w |-> w, duration |-> 0, expires |-> 0, ttl |-> 0, ts |-> 0,
         since |-> now]]
    /\ UNCHANGED <<now, session, watcher, location, lapsed>>

\* Redis does not answer, or the client hangs up: the call ends here.
Fail(c) ==
    /\ call[c] # None
    /\ Returns(c)
    /\ UNCHANGED <<now, session, watcher, location, lapsed>>

------------------------------------------------------------------------------
(* RequestToTrack, RespondToRequest, PublishLocation: read the session *)

\* GetTrackSession.  No session: 404.  Only the owner responds and publishes:
\* 403.  A response is not refused because the session has expired, so its
\* write follows at once; the others check the clock first.
ReadSession(c) ==
    /\ At(c, "session")
    /\ LET s == call[c].s
           refused == \/ ~SessionLive(s)
                      \/ /\ call[c].op \in {"approve", "reject", "publish"}
                         /\ session[s].owner # call[c].by
       IN IF refused THEN Returns(c)
          ELSE call' = [call EXCEPT ![c] = [@ EXCEPT
                 !.pc = IF call[c].op \in {"approve", "reject"} THEN "write" ELSE "check",
                 !.duration = session[s].duration,
                 !.expires = session[s].expires,
                 !.ttl = session[s].duration * Second,
                 !.since = now]]
    /\ UNCHANGED <<now, session, watcher, location, lapsed>>

\* RequestToTrack: 410 once the session is over, else the status is written
\* for the whole duration of the session.
CheckRequest(c) ==
    /\ At(c, "check") /\ call[c].op = "request"
    /\ IF Unix > call[c].expires THEN Returns(c) ELSE Goes(c, "write")
    /\ UNCHANGED <<now, session, watcher, location, lapsed>>

\* Bug: the comparison of whole seconds is thought to be enough.
CheckSecondsOnly(c) ==
    /\ At(c, "check") /\ call[c].op = "publish"
    /\ IF Unix > call[c].expires
       THEN Returns(c)
       ELSE call' = [call EXCEPT ![c] = [@ EXCEPT !.pc = "write", !.since = now, !.ts = Unix,
                                             !.ttl = call[c].expires * Second - now]]
    /\ UNCHANGED <<now, session, watcher, location, lapsed>>

\* Bug: the time of a location is the one its publisher names.
CheckClientTime(c) ==
    /\ At(c, "check") /\ call[c].op = "publish"
    /\ LET left == call[c].expires * Second - now
       IN \E named \in 0 .. Unix :
          IF Unix > call[c].expires \/ left <= 0
          THEN Returns(c)
          ELSE call' = [call EXCEPT ![c] = [@ EXCEPT !.pc = "write", !.since = now, !.ts = named,
                                                !.ttl = left]]
    /\ UNCHANGED <<now, session, watcher, location, lapsed>>

\* PublishLocation: 410 once the session is over, by the second or by what is
\* left of it; else the location is stamped and kept for what is left.
CheckPublish(c) ==
    /\ At(c, "check") /\ call[c].op = "publish"
    /\ LET left == call[c].expires * Second - now
       IN IF Unix > call[c].expires \/ left <= 0
          THEN Returns(c)
          ELSE call' = [call EXCEPT ![c] = [@ EXCEPT !.pc = "write", !.since = now, !.ts = Unix,
                                                !.ttl = left]]
    /\ UNCHANGED <<now, session, watcher, location, lapsed>>

------------------------------------------------------------------------------
(* The SETs.  The answer may be lost: then the same command is sent again. *)

Answered(c) == \/ Returns(c)
               \/ UNCHANGED call

\* CreateTrackSession
WriteSession(c) ==
    /\ At(c, "write") /\ call[c].op = "create"
    /\ session' = [session EXCEPT ![call[c].s] =
        [owner |-> call[c].by, duration |-> call[c].duration, expires |-> call[c].expires,
         dies |-> Death(call[c].ttl)]]
    /\ Answered(c)
    /\ UNCHANGED <<now, watcher, location, lapsed>>

\* Bug: the action is stored as it came.
WrittenRaw(op) == op

\* The status a call writes.
Written(op) ==
    CASE op = "request" -> "requested" [] op = "approve" -> "approved"
      [] op = "reject" -> "rejected"

\* When the watcher was last approved: now, when its key died, or when another
\* status replaced the approval.
ApprovedUntil(s, w) ==
    LET key == watcher[s][w] IN
    IF key.status # "approved" THEN lapsed[s][w] ELSE IF Live(key) THEN now ELSE key.dies

\* SetWatcherStatus
WriteStatus(c) ==
    /\ At(c, "write") /\ call[c].op \in {"request", "approve", "reject"}
    /\ LET s == call[c].s
           w == call[c].w
       IN /\ watcher' = [watcher EXCEPT ![s][w] =
                [status |-> Written(call[c].op), dies |-> Death(call[c].ttl)]]
          /\ lapsed' = [lapsed EXCEPT ![s][w] = ApprovedUntil(s, w)]
    /\ Answered(c)
    /\ UNCHANGED <<now, session, location>>

\* PublishTrackLocation
WriteLocation(c) ==
    /\ At(c, "write") /\ call[c].op = "publish"
    /\ location' = [location EXCEPT ![call[c].s] =
        [ts |-> call[c].ts, dies |-> Death(call[c].ttl)]]
    /\ Answered(c)
    /\ UNCHANGED <<now, session, watcher, lapsed>>

------------------------------------------------------------------------------
(* GetLocation: the watcher's status, then the location *)

\* Bug: a watcher that has asked once is let through.
ReadAnyStatus(c) ==
    /\ At(c, "status")
    /\ IF Status(call[c].s, call[c].w) # "none" THEN Goes(c, "location") ELSE Returns(c)
    /\ UNCHANGED <<now, session, watcher, location, lapsed>>

\* 403 unless approved
ReadStatus(c) ==
    /\ At(c, "status")
    /\ IF Status(call[c].s, call[c].w) = "approved" THEN Goes(c, "location") ELSE Returns(c)
    /\ UNCHANGED <<now, session, watcher, location, lapsed>>

\* The location is served, or "waiting" when there is none.
ReadLocation(c) ==
    /\ At(c, "location")
    /\ Returns(c)
    /\ UNCHANGED <<now, session, watcher, location, lapsed>>

------------------------------------------------------------------------------
\* Time passes; no call is overtaken by more than MaxLatency.
Tick ==
    /\ now < MaxTime
    /\ \A c \in Calls : call[c] # None => now < call[c].since + MaxLatency
    /\ now' = now + 1
    /\ UNCHANGED <<session, watcher, location, call, lapsed>>

Step(c) ==
    \/ ReadSession(c) \/ CheckRequest(c) \/ CheckPublish(c)
    \/ WriteSession(c) \/ WriteStatus(c) \/ WriteLocation(c)
    \/ ReadStatus(c) \/ ReadLocation(c)

Begin(c) ==
    \E s \in Sessions, p \in Peers, w \in Watchers :
        \/ \E d \in Asked : Create(c, s, p, d)
        \/ \E op \in {"request", "locate"} : Arrive(c, op, s, None, w)
        \/ \E op \in {"approve", "reject"} : Arrive(c, op, s, p, w)
        \/ Arrive(c, "publish", s, p, None)

Next ==
    \/ \E c \in Calls : Begin(c) \/ Step(c) \/ Fail(c)
    \/ Tick

Spec == Init /\ [][Next]_vars
------------------------------------------------------------------------------
(* Invariants *)

\* The type of every variable.
TypeOK ==
    /\ now \in Nat
    /\ session \in [Sessions -> SessionRecord \cup {None}]
    /\ watcher \in [Sessions -> [Watchers -> [status : Statuses, dies : Deaths]]]
    /\ location \in [Sessions -> [ts : Nat, dies : Deaths]]
    /\ call \in [Calls -> CallRecord \cup {None}]
    /\ lapsed \in [Sessions -> [Watchers -> Deaths]]

\* Nothing that an accepted call promised ends early: until the instant the
\* owner was told the session expires at, the session is in Redis and so is
\* every status written for a watcher.
NothingEndsEarly ==
    \A s \in Sessions : session[s] # None =>
        /\ session[s].dies >= session[s].expires * Second
        /\ \A w \in Watchers : watcher[s][w].status # "none" =>
            watcher[s][w].dies >= session[s].expires * Second

\* A session leaves nothing behind, however calls interleave.  Its location is
\* gone when it expires, but for the time the SET was under way; its key, by the
\* second its expiry was rounded by later; and a watcher's status, written for a
\* whole duration as long as that key is there, by that duration later still.
NothingStays ==
    \A s \in Sessions : session[s] # None =>
        LET end == session[s].expires * Second + MaxLatency IN
        /\ location[s].dies \in 0 .. end
        /\ session[s].dies \in 0 .. end + Second
        /\ \A w \in Watchers : watcher[s][w].dies \in
            0 .. end + Second + session[s].duration * Second + MaxLatency

------------------------------------------------------------------------------
(* Action properties *)

Serves(c) == At(c, "location") /\ Live(location[call[c].s]) /\ ReadLocation(c)

\* GetLocation reads status and location by two commands.  Whoever is served a
\* location was approved when it was read, or ceased to be (rejected, asked
\* again, expired) less than MaxLatency earlier.
ServedWhileApproved ==
    [][\A c \in Calls : Serves(c) =>
        now - ApprovedUntil(call[c].s, call[c].w) <= MaxLatency]_vars

\* Publications may overtake each other on their way to Redis: a location is
\* replaced by an older one, but never by one more than MaxLatency older
\* (and the second its time is rounded by).
NeverMuchOlder ==
    [][\A s \in Sessions : location'[s] # location[s] =>
        location'[s].ts * Second > location[s].ts * Second - MaxLatency - Second]_vars
=============================================================================
