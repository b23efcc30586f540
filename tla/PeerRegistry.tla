----------------------------- MODULE PeerRegistry -----------------------------
(***************************************************************************)
(* The peer registry: what POST /register, POST /heartbeat and the three   *)
(* PUT /register/... handlers of internal/api/http.go do to a peer's       *)
(* metadata and indexes in Redis (internal/redis/store.go) and to its      *)
(* permanent record in SQLite (internal/persist/store.go).                 *)
(*                                                                         *)
(* Nothing locks a peer: every call reads the peer's metadata, changes a   *)
(* field or two and writes the whole back, and the search index, a set of  *)
(* peers per word of a name, is kept by commands of its own.  A call is a  *)
(* sequence of steps, one per command, and calls interleave freely.  A     *)
(* pipeline is sent and executed as a whole, but other clients' commands   *)
(* may run between two of its own; any other step may be the last, when    *)
(* Redis does not answer or the process dies.                              *)
(*                                                                         *)
(* Time is what is left of the times to live.  Only a location given as    *)
(* lat/lng is modelled (a bare geohash is decoded to one in Redis and not  *)
(* stored in SQLite); UpdatedAt says no more than the TTL set with it.     *)
(*                                                                         *)
(* A definition marked "Bug" is part of no behaviour: it is a mistake in   *)
(* the definition below it that one of the properties would reveal.        *)
(***************************************************************************)
EXTENDS Integers, FiniteSets

CONSTANTS
    Peers,
    Words,      \* words of display names
    Names,      \* the display names peers send, as sets of words
    Locations,
    Cities,
    Tokens,     \* FCM tokens
    Bodies,     \* the bodies of POST /register, as metadata
    Calls,      \* goroutines serving HTTP calls
    None,       \* nil, and every empty field
    PeerTTL,    \* peerTTL
    MaxCalls    \* bound of the model: calls altogether

ASSUME RegistryNone == None \notin Peers \cup Words \cup Locations \cup Cities \cup Tokens \cup Calls

ASSUME RegistryNames == {} \in Names /\ Names \subseteq SUBSET Words

ASSUME RegistryBounds == PeerTTL \in Nat \ {0} /\ MaxCalls \in Nat

VARIABLES
    meta,      \* peer:meta:<peer>
    ttl,       \* what is left of its time to live
    index,     \* search:name:<word>
    indexTTL,  \* 0 for a set that does not expire, or is empty and so no key
    geo,       \* peers:geo, which never expires
    sql,       \* the users table
    call,      \* the calls in progress
    calls,     \* bound of the model: calls so far
    named,     \* history: what is left of PeerTTL since the peer was last named
    disturbed  \* history: calls for the peer overlapped or failed, or it expired

redisVars == <<meta, ttl, index, indexTTL, geo>>
historyVars == <<named, disturbed>>
vars == <<redisVars, sql, call, calls, historyVars>>

Fields == {"name", "loc", "city", "token"}

MetaRecord ==
    [name : Names, loc : Locations \cup {None}, city : Cities \cup {None},
     token : Tokens \cup {None}]

Blank == [name |-> {}, loc |-> None, city |-> None, token |-> None]

Row == [name : Names, loc : Locations \cup {None}, city : Cities \cup {None}]

\* A body has no city.
ASSUME RegistryBodies == Bodies \subseteq {m \in MetaRecord : m.city = None}

Operations == {"register", "touch", "fcm", "name", "latlng"}

\* "old": Register's own GET; the GET of the other calls is their first step.
Commands == {"old", "srem", "set", "geo", "sadd", "sql"}

\* arg is what the client sent, read what the first GET returned, words those
\* still to be removed from or added to the index; fresh says that the metadata
\* has not been written since that GET.
CallRecord ==
    [pc : Commands, op : Operations, p : Peers, arg : MetaRecord,
     read : MetaRecord \cup {None}, words : SUBSET Words, fresh : BOOLEAN]

\* nil is no record.
ASSUME RegistryNil == None \notin MetaRecord \cup Row \cup CallRecord

\* The calls that write an index.
Indexing == {"register", "name", "latlng"}

------------------------------------------------------------------------------
Init ==
    /\ meta = [p \in Peers |-> None]
    /\ ttl = [p \in Peers |-> 0]
    /\ index = [w \in Words |-> {}]
    /\ indexTTL = [w \in Words |-> 0]
    /\ geo = [p \in Peers |-> None]
    /\ sql = [p \in Peers |-> None]
    /\ call = [c \in Calls |-> None]
    /\ calls = 0
    /\ named = [p \in Peers |-> 0]
    /\ disturbed = [p \in Peers |-> FALSE]

------------------------------------------------------------------------------
(* The course of a call *)

Busy(c, p) == call[c] # None /\ call[c].p = p

\* The requests.
Requests ==
    [op : {"register"}, arg : Bodies]
    \cup [op : {"touch"}, arg : {Blank}]
    \cup [op : {"fcm"}, arg : {[Blank EXCEPT !.token = t] : t \in Tokens \cup {None}}]
    \cup [op : {"name"}, arg : {[Blank EXCEPT !.name = n] : n \in Names}]
    \cup [op : {"latlng"}, arg : [name : {{}}, loc : Locations, city : Cities \cup {None},
                                  token : {None}]]

\* A call begins, with its first GET.
Begins(c, p, op) ==
    /\ call[c] = None
    /\ calls < MaxCalls
    /\ calls' = calls + 1
    /\ disturbed' = [disturbed EXCEPT ![p] =
        @ \/ \E d \in Calls : Busy(d, p) /\ {call[d].op, op} \cap Indexing # {}]
    /\ UNCHANGED <<redisVars, sql, named>>

NewCall(p, q) ==
    [pc |-> "old", op |-> q.op, p |-> p, arg |-> q.arg, read |-> None, words |-> {},
     fresh |-> TRUE]

At(c, pc) == call[c] # None /\ call[c].pc = pc

\* The command that follows one, if any.
Following(k, done) ==
    IF done = "srem" THEN "set"
    ELSE IF done = "set" /\ k.arg.loc # None /\ k.op \in {"register", "latlng"} THEN "geo"
    ELSE IF done \in {"set", "geo"} /\ k.op \in {"register", "name"} /\ k.arg.name # {} THEN "sadd"
    ELSE IF done # "sql" /\ k.op \in {"register", "latlng"} THEN "sql"
    ELSE "end"

Continues(c, k, pc) == call' = [call EXCEPT ![c] = IF pc = "end" THEN None ELSE [k EXCEPT !.pc = pc]]

\* Redis does not answer, or the process dies.  A pipeline already sent runs on.
Fail(c) ==
    /\ call[c] # None
    /\ call[c].pc \in {"geo", "sadd"} => call[c].op # "register" /\ call[c].read = None
    /\ call' = [call EXCEPT ![c] = None]
    /\ disturbed' = [disturbed EXCEPT ![call[c].p] = TRUE]
    /\ UNCHANGED <<redisVars, sql, calls, named>>

------------------------------------------------------------------------------
(* The reads *)

\* TouchPeer, SetFCMToken, SetDisplayName and SetLatLng.  A heartbeat of a peer
\* that is not registered is ignored.
Get(c, p, q) ==
    /\ q.op # "register"
    /\ Begins(c, p, q.op)
    /\ LET old == meta[p]
           words == IF q.op = "name" /\ old # None THEN old.name ELSE {}
           pc == IF q.op = "touch" /\ old = None THEN "end"
                 ELSE IF words # {} THEN "srem" ELSE "set"
       IN Continues(c, [NewCall(p, q) EXCEPT !.read = old, !.words = words], pc)

\* The handler of /register: a token was sent.
SendsToken(c, p, q) ==
    /\ q.op = "register" /\ q.arg.token # None
    /\ Begins(c, p, q.op)
    /\ Continues(c, NewCall(p, q), "old")

\* Bug: the token found is not used.
ForgetToken(c, p, q) ==
    /\ q.op = "register" /\ q.arg.token = None
    /\ Begins(c, p, q.op)
    /\ Continues(c, [NewCall(p, q) EXCEPT !.read = meta[p]], "old")

\* None was sent: it keeps the token the peer has.
KeepToken(c, p, q) ==
    /\ q.op = "register" /\ q.arg.token = None
    /\ Begins(c, p, q.op)
    /\ LET token == IF meta[p] = None THEN None ELSE meta[p].token
       IN Continues(c, [NewCall(p, q) EXCEPT !.arg.token = token, !.read = meta[p]], "old")

\* Its error is ignored: the token is lost.
KeepTokenFails(c, p, q) ==
    /\ q.op = "register" /\ q.arg.token = None
    /\ Begins(c, p, q.op)
    /\ Continues(c, [NewCall(p, q) EXCEPT !.fresh = FALSE], "old")

\* Store.Register reads the old name; here too an error counts as no peer.
ReadOld(c) ==
    /\ At(c, "old")
    /\ LET k == call[c]
           words == IF meta[k.p] = None THEN {} ELSE meta[k.p].name
       IN Continues(c, [k EXCEPT !.words = words], IF words # {} THEN "srem" ELSE "set")
    /\ UNCHANGED <<redisVars, sql, calls, historyVars>>

ReadOldFails(c) ==
    /\ At(c, "old")
    /\ Continues(c, call[c], "set")
    /\ disturbed' = [disturbed EXCEPT ![call[c].p] = TRUE]
    /\ UNCHANGED <<redisVars, sql, calls, named>>

------------------------------------------------------------------------------
(* The writes *)

\* The call goes on with its next word, or with the next command.
NextWord(c, w) ==
    LET left == call[c].words \ {w} IN
    Continues(c, [call[c] EXCEPT !.words = left],
              IF left # {} THEN call[c].pc ELSE Following(call[c], call[c].pc))

\* Bug: the words of the old name stay in the index.
SRemNothing(c) ==
    /\ At(c, "srem")
    /\ \E w \in call[c].words : NextWord(c, w)
    /\ UNCHANGED <<redisVars, sql, calls, historyVars>>

\* A word of the old name: SREM search:name:<word>
SRem(c) ==
    /\ At(c, "srem")
    /\ \E w \in call[c].words :
        /\ index' = [index EXCEPT ![w] = @ \ {call[c].p}]
        /\ indexTTL' = [indexTTL EXCEPT ![w] = IF index[w] = {call[c].p} THEN 0 ELSE @]
        /\ NextWord(c, w)
    /\ UNCHANGED <<meta, ttl, geo, sql, calls, historyVars>>

\* Its error is ignored.
SRemFails(c) ==
    /\ At(c, "srem")
    /\ \E w \in call[c].words : NextWord(c, w)
    /\ disturbed' = [disturbed EXCEPT ![call[c].p] = TRUE]
    /\ UNCHANGED <<redisVars, sql, calls, named>>

\* The metadata a call writes.  Register starts afresh, the others from what
\* they read.
NewMeta(k) ==
    LET base == IF k.read = None THEN Blank ELSE k.read IN
    CASE k.op = "register" -> k.arg
      [] k.op = "touch" -> base
      [] k.op = "fcm" -> [base EXCEPT !.token = k.arg.token]
      [] k.op = "name" -> [base EXCEPT !.name = k.arg.name]
      [] k.op = "latlng" -> [base EXCEPT !.loc = k.arg.loc,
                                         !.city = IF k.arg.city = None THEN @ ELSE k.arg.city]

\* SET peer:meta:<peer>: what other calls have read is no longer fresh.
Set(c) ==
    /\ At(c, "set")
    /\ LET k == call[c]
           naming == k.op \in {"register", "name"}
           pc == Following(k, "set")
       IN /\ meta' = [meta EXCEPT ![k.p] = NewMeta(k)]
          /\ ttl' = [ttl EXCEPT ![k.p] = PeerTTL]
          /\ named' = [named EXCEPT ![k.p] = IF naming THEN PeerTTL ELSE @]
          /\ call' = [d \in Calls |->
                IF d = c
                THEN IF pc = "end" THEN None
                     ELSE [k EXCEPT !.pc = pc, !.words = IF naming THEN k.arg.name ELSE {}]
                ELSE IF Busy(d, k.p) THEN [call[d] EXCEPT !.fresh = FALSE] ELSE call[d]]
    /\ UNCHANGED <<index, indexTTL, geo, sql, calls, disturbed>>

\* GEOADD peers:geo
GeoAdd(c) ==
    /\ At(c, "geo")
    /\ geo' = [geo EXCEPT ![call[c].p] = call[c].arg.loc]
    /\ Continues(c, call[c], Following(call[c], "geo"))
    /\ UNCHANGED <<meta, ttl, index, indexTTL, sql, calls, historyVars>>

\* Bug: an expiry is extended.
SAddExtends(c) ==
    /\ At(c, "sadd")
    /\ \E w \in call[c].words :
        /\ index' = [index EXCEPT ![w] = @ \cup {call[c].p}]
        /\ indexTTL' = [indexTTL EXCEPT ![w] = @ + PeerTTL]
        /\ NextWord(c, w)
    /\ UNCHANGED <<meta, ttl, geo, sql, calls, historyVars>>

\* A word of the new name: SADD search:name:<word>, EXPIRE
SAdd(c) ==
    /\ At(c, "sadd")
    /\ \E w \in call[c].words :
        /\ index' = [index EXCEPT ![w] = @ \cup {call[c].p}]
        /\ indexTTL' = [indexTTL EXCEPT ![w] = PeerTTL]
        /\ NextWord(c, w)
    /\ UNCHANGED <<meta, ttl, geo, sql, calls, historyVars>>

\* SetDisplayName of a new peer sends the two one by one and ignores the errors
\* of both: a set without an expiry stays for good.
SAddFails(c) ==
    /\ At(c, "sadd")
    /\ call[c].op = "name" /\ call[c].read = None
    /\ \E w \in call[c].words, added \in BOOLEAN, expires \in BOOLEAN :
        /\ ~(added /\ expires)
        /\ index' = [index EXCEPT ![w] = IF added THEN @ \cup {call[c].p} ELSE @]
        /\ indexTTL' = [indexTTL EXCEPT ![w] = IF expires /\ index[w] # {} THEN PeerTTL ELSE @]
        /\ NextWord(c, w)
    /\ disturbed' = [disturbed EXCEPT ![call[c].p] = TRUE]
    /\ UNCHANGED <<meta, ttl, geo, sql, calls, named>>

\* Bug: the row is replaced.
Replaced(old, arg) == [name |-> arg.name, loc |-> arg.loc, city |-> arg.city]

\* ON CONFLICT: a field that is empty in the call keeps its value.
Merged(old, arg) ==
    [name |-> IF arg.name = {} THEN old.name ELSE arg.name,
     loc |-> IF arg.loc = None THEN old.loc ELSE arg.loc,
     city |-> IF arg.city = None THEN old.city ELSE arg.city]

EmptyRow == [name |-> {}, loc |-> None, city |-> None]

\* Upsert, once Redis has taken the rest.
Upsert(c) ==
    /\ At(c, "sql")
    /\ LET p == call[c].p
           old == IF sql[p] = None THEN EmptyRow ELSE sql[p]
       IN sql' = [sql EXCEPT ![p] = Merged(old, call[c].arg)]
    /\ Continues(c, call[c], "end")
    /\ UNCHANGED <<redisVars, calls, historyVars>>

------------------------------------------------------------------------------
\* Time passes; Redis drops what has expired.  A call takes seconds, a time to
\* live days: none runs out in the middle of a call.
Tick ==
    LET Less(n) == IF n > 0 THEN n - 1 ELSE 0 IN
    /\ \A c \in Calls : call[c] = None
    /\ \E p \in Peers : ttl[p] > 0
    /\ ttl' = [p \in Peers |-> Less(ttl[p])]
    /\ meta' = [p \in Peers |-> IF ttl[p] <= 1 THEN None ELSE meta[p]]
    /\ indexTTL' = [w \in Words |-> Less(indexTTL[w])]
    /\ index' = [w \in Words |-> IF indexTTL[w] = 1 THEN {} ELSE index[w]]
    /\ named' = [p \in Peers |-> Less(named[p])]
    /\ disturbed' = [p \in Peers |-> disturbed[p] \/ ttl[p] = 1]
    /\ UNCHANGED <<geo, sql, call, calls>>

Begin(c, p, q) ==
    Get(c, p, q) \/ SendsToken(c, p, q) \/ KeepToken(c, p, q) \/ KeepTokenFails(c, p, q)

Step(c) ==
    \/ ReadOld(c) \/ ReadOldFails(c) \/ SRem(c) \/ SRemFails(c)
    \/ Set(c) \/ GeoAdd(c) \/ SAdd(c) \/ SAddFails(c) \/ Upsert(c)

Next ==
    \/ \E c \in Calls, p \in Peers, q \in Requests : Begin(c, p, q)
    \/ \E c \in Calls : Step(c) \/ Fail(c)
    \/ Tick

Spec == Init /\ [][Next]_vars

------------------------------------------------------------------------------
(* Invariants *)

\* The type of every variable.
TypeOK ==
    /\ meta \in [Peers -> MetaRecord \cup {None}]
    /\ ttl \in [Peers -> 0 .. PeerTTL]
    /\ index \in [Words -> SUBSET Peers]
    /\ indexTTL \in [Words -> 0 .. PeerTTL]
    /\ geo \in [Peers -> Locations \cup {None}]
    /\ sql \in [Peers -> Row \cup {None}]
    /\ call \in [Calls -> CallRecord \cup {None}]
    /\ calls \in 0 .. MaxCalls
    /\ named \in [Peers -> 0 .. PeerTTL]
    /\ disturbed \in [Peers -> BOOLEAN]

\* Unless calls for a peer overlapped, one failed half-way or the peer expired,
\* its indexes agree with its metadata, whatever happens to the other peers that
\* share the words of its name: it is found under no word but those of its name,
\* under all of those for PeerTTL after it was named (heartbeats keep the
\* metadata longer, and not the index), and where it said it is.  It is in no set
\* that never expires: a word nobody is named any more is forgotten in the end.
Settled(p) == ~disturbed[p] /\ \A c \in Calls : ~Busy(c, p)

IndexesAgree ==
    /\ \A p \in Peers : Settled(p) /\ meta[p] # None =>
        /\ {w \in Words : p \in index[w]} \subseteq meta[p].name
        /\ named[p] > 0 => \A w \in meta[p].name : p \in index[w]
        /\ meta[p].loc # None => geo[p] = meta[p].loc
    /\ \A w \in Words : index[w] # {} /\ indexTTL[w] = 0 =>
        \A p \in index[w] : disturbed[p]

------------------------------------------------------------------------------
(* Action properties *)

\* The fields a call is there to change.  Register is also for clearing what it
\* was not sent, except for the token (http.go: "do not wipe an existing token").
Owns(k) ==
    CASE k.op = "register" -> {"name", "loc", "city"} \cup (IF k.read = None THEN {"token"} ELSE {})
      [] k.op = "touch" -> {}
      [] k.op = "fcm" -> {"token"}
      [] k.op = "name" -> {"name"}
      [] k.op = "latlng" -> {"loc", "city"}

\* A call changes no field but its own, as long as nobody wrote the metadata
\* between its GET and its SET (and the GET did not fail unnoticed): a lost update
\* needs an overlap.
OthersKept ==
    [][\A c \in Calls : Set(c) /\ call[c].fresh /\ meta[call[c].p] # None =>
        \A f \in Fields \ Owns(call[c]) : meta'[call[c].p][f] = meta[call[c].p][f]]_vars

\* The permanent record (http.go: "survives Redis TTL expiry") never forgets what
\* it once knew of a peer, whatever later calls leave out.
NothingForgotten ==
    [][\A p \in Peers : sql[p] # None =>
        /\ sql'[p] # None
        /\ sql[p].name # {} => sql'[p].name # {}
        /\ sql[p].loc # None => sql'[p].loc # None
        /\ sql[p].city # None => sql'[p].city # None]_vars
=============================================================================
