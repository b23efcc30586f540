-------------------------- MODULE PeerRegistry_proofs --------------------------
(***************************************************************************)
(* Proofs about PeerRegistry: its types, what a call may overwrite, what   *)
(* the permanent record keeps, and the agreement of a peer's indexes with  *)
(* its metadata, for every set of peers, names, calls and requests.        *)
(***************************************************************************)
EXTENDS PeerRegistry, TLAPS

USE DEF redisVars, historyVars, vars

------------------------------------------------------------------------------
(* The invariant *)

Base(m) == IF m = None THEN Blank ELSE m

\* The words a peer is found under
Under(p) == {w \in Words : p \in index[w]}

\* A call that replaces the name of its peer is at work on the index.
Renames(c) == call[c].op \in {"register", "name"}

Renaming(p) == \E c \in Calls : Busy(c, p) /\ Renames(c) /\ call[c].pc \notin {"old", "sql"}

Locating(p) == \E c \in Calls : Busy(c, p) /\ call[c].pc = "geo"

\* The index agrees with the metadata, and outlives the name.
Indexed(p) ==
    /\ Under(p) \subseteq Base(meta[p]).name
    /\ named[p] > 0 => \A w \in Base(meta[p]).name : p \in index[w] /\ indexTTL[w] >= named[p]

Located(p) == Base(meta[p]).loc # None => geo[p] = Base(meta[p]).loc

\* The commands of each operation
Course ==
    \A c \in Calls : call[c] # None =>
        /\ call[c].pc = "old" => call[c].op = "register"
        /\ call[c].pc \in {"srem", "sadd"} => Renames(c)
        /\ call[c].pc \in {"geo", "sql"} => call[c].op \in {"register", "latlng"}

\* How far a call for an undisturbed peer has got
Progress(c, p) ==
    /\ call[c].pc = "srem" => Under(p) \subseteq call[c].words
    /\ call[c].pc = "set" /\ Renames(c) => Under(p) = {}
    /\ call[c].pc = "geo" /\ Renames(c) =>
        /\ Under(p) = {}
        /\ call[c].words = Base(meta[p]).name
        /\ call[c].arg.name = Base(meta[p]).name
    /\ call[c].pc = "geo" => call[c].arg.loc = Base(meta[p]).loc
    /\ call[c].pc = "sadd" =>
        /\ call[c].words \subseteq Base(meta[p]).name
        /\ Under(p) \subseteq Base(meta[p]).name \ call[c].words
        /\ \A w \in Base(meta[p]).name \ call[c].words : p \in index[w] /\ indexTTL[w] >= named[p]
    /\ call[c].op # "register" /\ call[c].pc \in {"srem", "set"} =>
        /\ Base(call[c].read).name = Base(meta[p]).name
        /\ Base(call[c].read).loc = Base(meta[p]).loc

\* Calls that write an index are alone with an undisturbed peer.
Alone(p) ==
    \A c, d \in Calls : Busy(c, p) /\ Busy(d, p) /\ c # d =>
        call[c].op \notin Indexing /\ call[d].op \notin Indexing

PeerInv(p) ==
    /\ Alone(p)
    /\ ~Renaming(p) => Indexed(p)
    /\ ~Locating(p) => Located(p)
    /\ \A c \in Calls : Busy(c, p) => Progress(c, p)

Expiry ==
    /\ \A p \in Peers : ttl[p] = 0 => meta[p] = None
    /\ \A w \in Words : index[w] # {} /\ indexTTL[w] = 0 => \A p \in index[w] : disturbed[p]

Inv == Course /\ Expiry /\ \A p \in Peers : ~disturbed[p] => PeerInv(p)

\* What a call has read is still there, as long as nobody wrote since.
Fresh ==
    \A c \in Calls : call[c] # None =>
        /\ call[c].op = "register" /\ call[c].read # None => call[c].arg.token = call[c].read.token
        /\ call[c].fresh /\ call[c].pc \in {"old", "srem", "set"} =>
            \/ call[c].op = "register" /\ call[c].read = None
            \/ call[c].read = meta[call[c].p]

------------------------------------------------------------------------------
(* Types *)

\* A field assigned in a record of the metadata's type leaves it of that type.
LEMMA BlankTyped == Blank \in MetaRecord
BY RegistryNames DEF Blank, MetaRecord

LEMMA MetaAssigned ==
    ASSUME NEW m \in MetaRecord
    PROVE  /\ \A n \in Names : [m EXCEPT !.name = n] \in MetaRecord
           /\ \A l \in Locations \cup {None} : [m EXCEPT !.loc = l] \in MetaRecord
           /\ \A y \in Cities \cup {None} : [m EXCEPT !.city = y] \in MetaRecord
           /\ \A t \in Tokens \cup {None} : [m EXCEPT !.token = t] \in MetaRecord
BY DEF MetaRecord

\* What a client sends is of the type of an argument.
LEMMA RequestTyped ==
    ASSUME NEW q \in Requests
    PROVE  q.op \in Operations /\ q.arg \in MetaRecord
<1>1. CASE q \in [op : {"register"}, arg : Bodies]
    BY <1>1, RegistryBodies DEF Operations
<1>2. CASE q \in [op : {"touch"}, arg : {Blank}]
    BY <1>2, BlankTyped DEF Operations
<1>3. CASE q \in [op : {"fcm"}, arg : {[Blank EXCEPT !.token = t] : t \in Tokens \cup {None}}]
    <2>1. q.op = "fcm" /\ \E t \in Tokens \cup {None} : q.arg = [Blank EXCEPT !.token = t]
        BY <1>3
    <2>. QED  BY <2>1, BlankTyped, MetaAssigned DEF Operations
<1>4. CASE q \in [op : {"name"}, arg : {[Blank EXCEPT !.name = n] : n \in Names}]
    <2>1. q.op = "name" /\ \E n \in Names : q.arg = [Blank EXCEPT !.name = n]
        BY <1>4
    <2>. QED  BY <2>1, BlankTyped, MetaAssigned DEF Operations
<1>5. CASE q \in [op : {"latlng"}, arg : [name : {{}}, loc : Locations, city : Cities \cup {None},
                                          token : {None}]]
    BY <1>5, RegistryNames DEF Operations, MetaRecord
<1>. QED  BY <1>1, <1>2, <1>3, <1>4, <1>5 DEF Requests

\* A new call is a call, for what its client asked.
LEMMA NewCallTyped ==
    ASSUME NEW p \in Peers, NEW q \in Requests
    PROVE  /\ NewCall(p, q) \in CallRecord
           /\ NewCall(p, q).pc = "old" /\ NewCall(p, q).op = q.op /\ NewCall(p, q).p = p
           /\ NewCall(p, q).arg = q.arg /\ NewCall(p, q).read = None
           /\ NewCall(p, q).words = {} /\ NewCall(p, q).fresh = TRUE
BY RequestTyped DEF NewCall, CallRecord, Commands

LEMMA FollowingTyped ==
    ASSUME NEW k, NEW done \in Commands
    PROVE  Following(k, done) \in Commands \cup {"end"}
BY DEF Following, Commands

\* What a call keeps from one command to the next.
Same(k, new) ==
    /\ new.op = k.op /\ new.p = k.p /\ new.arg = k.arg /\ new.read = k.read
    /\ new.fresh = k.fresh

\* What becomes of a call that goes on, and of the others.
LEMMA Continued ==
    ASSUME call \in [Calls -> CallRecord \cup {None}],
           NEW c \in Calls, NEW k \in CallRecord, NEW pc \in Commands \cup {"end"},
           Continues(c, k, pc)
    PROVE  /\ call' \in [Calls -> CallRecord \cup {None}]
           /\ \A d \in Calls : d # c => call'[d] = call[d]
           /\ pc = "end" => call'[c] = None
           /\ pc # "end" =>
                /\ call'[c] # None /\ Same(k, call'[c])
                /\ call'[c].pc = pc /\ call'[c].words = k.words
<1> DEFINE new == [k EXCEPT !.pc = pc]
<1>1. pc # "end" => new \in CallRecord /\ Same(k, new) /\ new.pc = pc /\ new.words = k.words
    BY DEF CallRecord, Same
<1>2. call' = [call EXCEPT ![c] = IF pc = "end" THEN None ELSE new]
    BY DEF Continues
<1> HIDE DEF new
<1>. QED  BY <1>1, <1>2, RegistryNil

\* The metadata a call writes is metadata.
LEMMA NewMetaTyped ==
    ASSUME NEW k \in CallRecord
    PROVE  NewMeta(k) \in MetaRecord
<1> DEFINE base == IF k.read = None THEN Blank ELSE k.read
<1>1. base \in MetaRecord
    BY BlankTyped DEF CallRecord
<1>2. k.arg \in MetaRecord /\ k.op \in Operations
    BY DEF CallRecord
<1>3. k.arg.name \in Names /\ k.arg.token \in Tokens \cup {None}
    BY <1>2 DEF MetaRecord
<1>4. [base EXCEPT !.loc = k.arg.loc,
                   !.city = IF k.arg.city = None THEN @ ELSE k.arg.city] \in MetaRecord
    BY <1>1, <1>2 DEF MetaRecord
<1>5. NewMeta(k) =
        CASE k.op = "register" -> k.arg
          [] k.op = "touch" -> base
          [] k.op = "fcm" -> [base EXCEPT !.token = k.arg.token]
          [] k.op = "name" -> [base EXCEPT !.name = k.arg.name]
          [] k.op = "latlng" -> [base EXCEPT !.loc = k.arg.loc,
                                             !.city = IF k.arg.city = None THEN @ ELSE k.arg.city]
    BY DEF NewMeta
<1> HIDE DEF base
<1>. QED  BY <1>1, <1>2, <1>3, <1>4, <1>5, MetaAssigned DEF Operations

\* Every step that begins a call
LEMMA BeginTyped ==
    ASSUME TypeOK, NEW c \in Calls, NEW p \in Peers, NEW q \in Requests, Begin(c, p, q)
    PROVE  TypeOK'
<1> DEFINE new == NewCall(p, q)
<1>1. new \in CallRecord /\ q.arg \in MetaRecord /\ q.op \in Operations
    BY NewCallTyped, RequestTyped
<1>2. Begins(c, p, q.op)
    BY DEF Begin, Get, SendsToken, KeepToken, KeepTokenFails
<1>3. meta[p] \in MetaRecord \cup {None}
    BY DEF TypeOK
<1>4. call' \in [Calls -> CallRecord \cup {None}]
    <2> HIDE DEF new
    <2>1. ASSUME NEW k \in CallRecord, NEW pc \in Commands \cup {"end"}, Continues(c, k, pc)
          PROVE  call' \in [Calls -> CallRecord \cup {None}]
        BY <2>1, Continued DEF TypeOK
    <2>2. CASE Get(c, p, q)
        <3> DEFINE words == IF q.op = "name" /\ meta[p] # None THEN meta[p].name ELSE {}
                   pc == IF q.op = "touch" /\ meta[p] = None THEN "end"
                         ELSE IF words # {} THEN "srem" ELSE "set"
                   k == [new EXCEPT !.read = meta[p], !.words = words]
        <3>1. words \in SUBSET Words
            BY <1>3, RegistryNames DEF MetaRecord
        <3>2. Continues(c, k, pc)
            BY <2>2 DEF Get, new
        <3>3. pc \in Commands \cup {"end"}
            BY DEF Commands
        <3> HIDE DEF words, pc
        <3>4. k \in CallRecord
            BY <1>1, <1>3, <3>1 DEF CallRecord
        <3> HIDE DEF k
        <3>. QED  BY <3>2, <3>3, <3>4, <2>1
    <2>3. CASE SendsToken(c, p, q)
        BY <1>1, <2>1, <2>3 DEF SendsToken, new, Commands
    <2>4. CASE KeepToken(c, p, q)
        <3> DEFINE token == IF meta[p] = None THEN None ELSE meta[p].token
                   k == [new EXCEPT !.arg.token = token, !.read = meta[p]]
        <3>1. token \in Tokens \cup {None}
            BY <1>3 DEF MetaRecord
        <3>2. Continues(c, k, "old")
            BY <2>4 DEF KeepToken, new
        <3> HIDE DEF token
        <3>3. [new.arg EXCEPT !.token = token] \in MetaRecord
            BY <1>1, <3>1, MetaAssigned DEF CallRecord
        <3>4. k \in CallRecord
            BY <1>1, <1>3, <3>3 DEF CallRecord
        <3> HIDE DEF k
        <3>. QED  BY <3>2, <3>4, <2>1 DEF Commands
    <2>5. CASE KeepTokenFails(c, p, q)
        <3> DEFINE k == [new EXCEPT !.fresh = FALSE]
        <3>1. k \in CallRecord
            BY <1>1 DEF CallRecord
        <3>2. Continues(c, k, "old")
            BY <2>5 DEF KeepTokenFails, new
        <3> HIDE DEF k
        <3>. QED  BY <3>1, <3>2, <2>1 DEF Commands
    <2>. QED  BY <2>2, <2>3, <2>4, <2>5 DEF Begin
<1>5. disturbed' \in [Peers -> BOOLEAN]
    BY <1>2 DEF TypeOK, Begins
<1>6. calls' \in 0 .. MaxCalls
    BY <1>2, RegistryBounds DEF TypeOK, Begins
<1>7. UNCHANGED <<meta, ttl, index, indexTTL, geo, sql, named>>
    BY <1>2 DEF Begins
<1>. QED  BY <1>4, <1>5, <1>6, <1>7 DEF TypeOK

\* What is left of a call after a word.
LEMMA NextWordTyped ==
    ASSUME TypeOK, NEW c \in Calls, call[c] # None, NEW w, NextWord(c, w)
    PROVE  call' \in [Calls -> CallRecord \cup {None}]
<1> DEFINE k == call[c]
           left == k.words \ {w}
           rest == [k EXCEPT !.words = left]
           pc == IF left # {} THEN k.pc ELSE Following(k, k.pc)
<1>1. k \in CallRecord
    BY DEF TypeOK
<1>2. Continues(c, rest, pc)
    BY DEF NextWord
<1> HIDE DEF k
<1>3. k.pc \in Commands /\ left \in SUBSET Words
    BY <1>1 DEF CallRecord
<1>4. pc \in Commands \cup {"end"}
    BY <1>3, FollowingTyped
<1> HIDE DEF left, pc
<1>5. rest \in CallRecord
    BY <1>1, <1>3 DEF CallRecord
<1> HIDE DEF rest
<1>. QED  BY <1>2, <1>4, <1>5, Continued DEF TypeOK

\* Every step of a call
LEMMA StepTyped ==
    ASSUME TypeOK, NEW c \in Calls, Step(c) \/ Fail(c)
    PROVE  TypeOK'
<1> DEFINE k == call[c]
           T == [Calls -> CallRecord \cup {None}]
<1>1. k # None
    BY DEF Step, Fail, At, ReadOld, ReadOldFails, SRem, SRemFails, Set, GeoAdd, SAdd, SAddFails, Upsert
<1>2. k \in CallRecord
    BY <1>1 DEF TypeOK
<1>3. /\ k.pc \in Commands /\ k.p \in Peers /\ k.arg \in MetaRecord /\ k.words \in SUBSET Words
      /\ k.read \in MetaRecord \cup {None}
    BY <1>2 DEF CallRecord
<1>4. ASSUME NEW pc \in Commands \cup {"end"}, Continues(c, k, pc)
      PROVE  call' \in T
    <2> HIDE DEF k
    <2>. QED  BY <1>2, <1>4, Continued DEF TypeOK
<1>5. ASSUME NEW w, NextWord(c, w)
      PROVE  call' \in T
    BY <1>1, <1>5, NextWordTyped
<1>6. [disturbed EXCEPT ![k.p] = TRUE] \in [Peers -> BOOLEAN]
    BY DEF TypeOK
<1>7. CASE ReadOld(c)
    <2> DEFINE words == IF meta[k.p] = None THEN {} ELSE meta[k.p].name
               new == [k EXCEPT !.words = words]
    <2>1. words \in SUBSET Words
        BY <1>3, RegistryNames DEF TypeOK, MetaRecord
    <2>2. Continues(c, new, IF words # {} THEN "srem" ELSE "set")
        BY <1>7 DEF ReadOld
    <2>3. (IF words # {} THEN "srem" ELSE "set") \in Commands \cup {"end"}
        BY DEF Commands
    <2> HIDE DEF words, k
    <2>4. new \in CallRecord
        BY <1>2, <2>1 DEF CallRecord
    <2> HIDE DEF new
    <2>5. call' \in T
        BY <2>2, <2>3, <2>4, Continued DEF TypeOK
    <2>. QED  BY <1>7, <2>5 DEF ReadOld, TypeOK
<1>8. CASE ReadOldFails(c)
    <2>1. call' \in T
        BY <1>4, <1>8 DEF ReadOldFails, Commands
    <2>. QED  BY <1>6, <1>8, <2>1 DEF ReadOldFails, TypeOK
<1>9. CASE SRem(c)
    <2>1. PICK w \in k.words :
            /\ index' = [index EXCEPT ![w] = @ \ {k.p}]
            /\ indexTTL' = [indexTTL EXCEPT ![w] = IF index[w] = {k.p} THEN 0 ELSE @]
            /\ NextWord(c, w)
        BY <1>9 DEF SRem
    <2>2. call' \in T
        BY <1>5, <2>1
    <2>3. index' \in [Words -> SUBSET Peers] /\ indexTTL' \in [Words -> 0 .. PeerTTL]
        <3> HIDE DEF k
        <3>1. index' \in [Words -> SUBSET Peers]
            BY <2>1 DEF TypeOK
        <3>2. \A n \in 0 .. PeerTTL : (IF index[w] = {k.p} THEN 0 ELSE n) \in 0 .. PeerTTL
            BY RegistryBounds
        <3>. QED  BY <2>1, <3>1, <3>2 DEF TypeOK
    <2>. QED  BY <1>9, <2>2, <2>3 DEF SRem, TypeOK
<1>10. CASE SRemFails(c)
    <2>1. call' \in T
        BY <1>5, <1>10 DEF SRemFails
    <2>. QED  BY <1>6, <1>10, <2>1 DEF SRemFails, TypeOK
<1>11. CASE Set(c)
    <2> DEFINE naming == k.op \in {"register", "name"}
               pc == Following(k, "set")
               words == IF naming THEN k.arg.name ELSE {}
               on == [k EXCEPT !.pc = pc, !.words = words]
    <2>1. NewMeta(k) \in MetaRecord
        BY <1>2, NewMetaTyped
    <2>2. /\ meta' = [meta EXCEPT ![k.p] = NewMeta(k)]
          /\ ttl' = [ttl EXCEPT ![k.p] = PeerTTL]
          /\ named' = [named EXCEPT ![k.p] = IF naming THEN PeerTTL ELSE @]
        BY <1>11 DEF Set
    <2>3. call' = [d \in Calls |->
                IF d = c THEN IF pc = "end" THEN None ELSE on
                ELSE IF Busy(d, k.p) THEN [call[d] EXCEPT !.fresh = FALSE] ELSE call[d]]
        BY <1>11 DEF Set
    <2>4. words \in SUBSET Words
        BY <1>3, RegistryNames DEF MetaRecord
    <2>5. pc \in Commands \cup {"end"}
        BY FollowingTyped DEF Commands
    <2> HIDE DEF k, pc, words
    <2>6. pc # "end" => on \in CallRecord
        BY <1>2, <2>4, <2>5 DEF CallRecord
    <2>7. \A d \in Calls : Busy(d, k.p) => [call[d] EXCEPT !.fresh = FALSE] \in CallRecord
        <3> SUFFICES ASSUME NEW d \in Calls, Busy(d, k.p)
                     PROVE  [call[d] EXCEPT !.fresh = FALSE] \in CallRecord
            OBVIOUS
        <3>1. call[d] \in CallRecord
            BY DEF TypeOK, Busy
        <3>. QED  BY <3>1 DEF CallRecord
    <2> HIDE DEF on
    <2>8. call' \in T
        BY <2>3, <2>6, <2>7 DEF TypeOK
    <2>9. meta' \in [Peers -> MetaRecord \cup {None}]
        BY <1>3, <2>1, <2>2 DEF TypeOK
    <2>10. ttl' \in [Peers -> 0 .. PeerTTL] /\ named' \in [Peers -> 0 .. PeerTTL]
        BY <1>3, <2>2, RegistryBounds DEF TypeOK
    <2>. QED  BY <1>11, <2>8, <2>9, <2>10 DEF Set, TypeOK
<1>12. CASE GeoAdd(c)
    <2>1. call' \in T
        BY <1>4, <1>12, FollowingTyped DEF GeoAdd, Commands
    <2>2. geo' \in [Peers -> Locations \cup {None}]
        BY <1>3, <1>12 DEF GeoAdd, TypeOK, MetaRecord
    <2>. QED  BY <1>12, <2>1, <2>2 DEF GeoAdd, TypeOK
<1>13. CASE SAdd(c)
    <2>1. PICK w \in k.words :
            /\ index' = [index EXCEPT ![w] = @ \cup {k.p}]
            /\ indexTTL' = [indexTTL EXCEPT ![w] = PeerTTL]
            /\ NextWord(c, w)
        BY <1>13 DEF SAdd
    <2>2. call' \in T
        BY <1>5, <2>1
    <2>3. index' \in [Words -> SUBSET Peers] /\ indexTTL' \in [Words -> 0 .. PeerTTL]
        <3> HIDE DEF k
        <3>. QED  BY <1>3, <2>1, RegistryBounds DEF TypeOK
    <2>. QED  BY <1>13, <2>2, <2>3 DEF SAdd, TypeOK
<1>14. CASE SAddFails(c)
    <2>1. PICK w \in k.words, added \in BOOLEAN, expires \in BOOLEAN :
            /\ index' = [index EXCEPT ![w] = IF added THEN @ \cup {k.p} ELSE @]
            /\ indexTTL' = [indexTTL EXCEPT ![w] = IF expires /\ index[w] # {} THEN PeerTTL ELSE @]
            /\ NextWord(c, w)
        BY <1>14 DEF SAddFails
    <2>2. call' \in T
        BY <1>5, <2>1
    <2>3. index' \in [Words -> SUBSET Peers] /\ indexTTL' \in [Words -> 0 .. PeerTTL]
        <3> HIDE DEF k
        <3>. QED  BY <1>3, <2>1, RegistryBounds DEF TypeOK
    <2>. QED  BY <1>6, <1>14, <2>2, <2>3 DEF SAddFails, TypeOK
<1>15. CASE Upsert(c)
    <2>1. call' \in T
        BY <1>4, <1>15 DEF Upsert
    <2> DEFINE old == IF sql[k.p] = None THEN EmptyRow ELSE sql[k.p]
    <2>2. old \in Row
        BY <1>3, RegistryNames DEF TypeOK, EmptyRow, Row
    <2>3. sql' = [sql EXCEPT ![k.p] = Merged(old, k.arg)]
        BY <1>15 DEF Upsert
    <2> HIDE DEF k, old
    <2>4. Merged(old, k.arg) \in Row
        BY <1>3, <2>2 DEF Merged, Row, MetaRecord
    <2>5. sql' \in [Peers -> Row \cup {None}]
        BY <2>3, <2>4 DEF TypeOK
    <2>. QED  BY <1>15, <2>1, <2>5 DEF Upsert, TypeOK
<1>16. CASE Fail(c)
    BY <1>6, <1>16 DEF Fail, TypeOK
<1>. QED  BY <1>7, <1>8, <1>9, <1>10, <1>11, <1>12, <1>13, <1>14, <1>15, <1>16 DEF Step

LEMMA TickTyped == TypeOK /\ Tick => TypeOK'
<1> SUFFICES ASSUME TypeOK, Tick PROVE TypeOK'
    OBVIOUS
<1> DEFINE Less(n) == IF n > 0 THEN n - 1 ELSE 0
<1>1. \A n \in 0 .. PeerTTL : Less(n) \in 0 .. PeerTTL
    BY RegistryBounds
<1>2. /\ ttl' = [p \in Peers |-> Less(ttl[p])]
      /\ meta' = [p \in Peers |-> IF ttl[p] <= 1 THEN None ELSE meta[p]]
      /\ indexTTL' = [w \in Words |-> Less(indexTTL[w])]
      /\ index' = [w \in Words |-> IF indexTTL[w] = 1 THEN {} ELSE index[w]]
      /\ named' = [p \in Peers |-> Less(named[p])]
      /\ disturbed' = [p \in Peers |-> disturbed[p] \/ ttl[p] = 1]
    BY DEF Tick
<1> HIDE DEF Less
<1>3. /\ ttl' \in [Peers -> 0 .. PeerTTL]
      /\ indexTTL' \in [Words -> 0 .. PeerTTL]
      /\ named' \in [Peers -> 0 .. PeerTTL]
    BY <1>1, <1>2 DEF TypeOK
<1>4. meta' \in [Peers -> MetaRecord \cup {None}] /\ index' \in [Words -> SUBSET Peers]
    BY <1>2 DEF TypeOK
<1>5. disturbed' \in [Peers -> BOOLEAN]
    BY <1>2
<1>. QED  BY <1>3, <1>4, <1>5 DEF Tick, TypeOK

LEMMA InitTyped == Init => TypeOK
BY RegistryBounds DEF Init, TypeOK

LEMMA StepsTyped == TypeOK /\ [Next]_vars => TypeOK'
<1>1. TypeOK /\ UNCHANGED vars => TypeOK'
    BY DEF TypeOK
<1>. QED  BY <1>1, BeginTyped, StepTyped, TickTyped DEF Next

\* Every variable keeps its type, whatever the requests and however their
\* commands interleave and fail: no time to live passes PeerTTL, and no command
\* meets a record without the field it reads.
THEOREM TypeCorrect == Spec => []TypeOK
BY InitTyped, StepsTyped, PTL DEF Spec

------------------------------------------------------------------------------
(* The course of a call *)

LEMMA Follows ==
    ASSUME NEW k, NEW done \in {"srem", "set", "geo", "sadd"}
    PROVE  /\ Following(k, "srem") = "set"
           /\ Following(k, done) \in {"old", "srem", "set"} => done = "srem"
           /\ Following(k, done) = "sadd" => k.op \in {"register", "name"} /\ k.arg.name # {}
           /\ Following(k, done) = "geo" => done = "set" /\ k.op \in {"register", "latlng"}
           /\ Following(k, done) = "sql" => k.op \in {"register", "latlng"}
           /\ done = "set" =>
                /\ k.op \in {"touch", "fcm"} => Following(k, done) = "end"
                /\ Following(k, done) # "geo" /\ k.op \in {"register", "latlng"} => k.arg.loc = None
           /\ done \in {"set", "geo"} /\ k.op \in {"register", "name"} /\ k.arg.name # {} =>
                Following(k, done) \in {"geo", "sadd"}
           /\ done = "geo" => Following(k, done) # "geo"
           /\ done = "sadd" => Following(k, done) \in {"sql", "end"}
<1>1. Following(k, "srem") = "set"
    BY DEF Following
<1>2. CASE done = "srem"
    BY <1>1, <1>2
<1>3. CASE done = "set"
    BY <1>1, <1>3 DEF Following
<1>4. CASE done = "geo"
    BY <1>1, <1>4 DEF Following
<1>5. CASE done = "sadd"
    BY <1>1, <1>5 DEF Following
<1>. QED  BY <1>2, <1>3, <1>4, <1>5

LEMMA Onward ==
    ASSUME TypeOK, NEW c \in Calls, call[c] # None,
           NEW pc \in Commands \cup {"end"}, Continues(c, call[c], pc)
    PROVE  /\ \A d \in Calls : d # c => call'[d] = call[d]
           /\ pc = "end" => call'[c] = None
           /\ pc # "end" =>
                /\ call'[c] # None /\ Same(call[c], call'[c])
                /\ call'[c].pc = pc /\ call'[c].words = call[c].words
<1>1. call[c] \in CallRecord
    BY DEF TypeOK
<1>. QED  BY <1>1, Continued DEF TypeOK

LEMMA OnwardWithout ==
    ASSUME TypeOK, NEW c \in Calls, call[c] # None, NEW words \in SUBSET Words,
           NEW pc \in Commands \cup {"end"}, Continues(c, [call[c] EXCEPT !.words = words], pc)
    PROVE  /\ \A d \in Calls : d # c => call'[d] = call[d]
           /\ pc = "end" => call'[c] = None
           /\ pc # "end" =>
                /\ call'[c] # None /\ Same(call[c], call'[c])
                /\ call'[c].pc = pc /\ call'[c].words = words
<1> DEFINE k == [call[c] EXCEPT !.words = words]
<1>1. call[c] \in CallRecord
    BY DEF TypeOK
<1>2. k \in CallRecord /\ Same(call[c], k) /\ k.words = words
    BY <1>1 DEF CallRecord, Same
<1>3. Continues(c, k, pc)
    OBVIOUS
<1> HIDE DEF k
<1>4. /\ \A d \in Calls : d # c => call'[d] = call[d]
      /\ pc = "end" => call'[c] = None
      /\ pc # "end" =>
            /\ call'[c] # None /\ Same(k, call'[c])
            /\ call'[c].pc = pc /\ call'[c].words = k.words
    BY <1>2, <1>3, Continued DEF TypeOK
<1>. QED  BY <1>2, <1>4 DEF Same

\* After a word: the next, or the next command.
LEMMA Worded ==
    ASSUME TypeOK, NEW c \in Calls, call[c] # None, NEW w, NextWord(c, w)
    PROVE  LET left == call[c].words \ {w}
               pc == IF left # {} THEN call[c].pc ELSE Following(call[c], call[c].pc)
           IN /\ \A d \in Calls : d # c => call'[d] = call[d]
              /\ pc = "end" => call'[c] = None
              /\ pc # "end" =>
                    /\ call'[c] # None /\ Same(call[c], call'[c])
                    /\ call'[c].pc = pc /\ call'[c].words = left
<1> DEFINE left == call[c].words \ {w}
           pc == IF left # {} THEN call[c].pc ELSE Following(call[c], call[c].pc)
<1>1. call[c].pc \in Commands /\ left \in SUBSET Words
    BY DEF TypeOK, CallRecord
<1>2. pc \in Commands \cup {"end"}
    BY <1>1, FollowingTyped
<1>3. Continues(c, [call[c] EXCEPT !.words = left], pc)
    BY DEF NextWord
<1> HIDE DEF left, pc
<1>4. /\ \A d \in Calls : d # c => call'[d] = call[d]
      /\ pc = "end" => call'[c] = None
      /\ pc # "end" =>
            /\ call'[c] # None /\ Same(call[c], call'[c])
            /\ call'[c].pc = pc /\ call'[c].words = left
    BY <1>1, <1>2, <1>3, OnwardWithout
<1>. QED  BY <1>4 DEF left, pc

\* A call that has begun knows the metadata, unless it is a register that does
\* not need it or could not get it.
LEMMA Begun ==
    ASSUME TypeOK, NEW c \in Calls, NEW p \in Peers, NEW q \in Requests, Begin(c, p, q)
    PROVE  /\ call[c] = None
           /\ \A d \in Calls : d # c => call'[d] = call[d]
           /\ call'[c] # None =>
                /\ call'[c].p = p /\ call'[c].op = q.op
                /\ q.op = "register" =>
                    /\ call'[c].pc = "old"
                    /\ \/ call'[c].read = None
                       \/ /\ meta[p] # None /\ call'[c].read = meta[p]
                          /\ call'[c].arg.token = meta[p].token
                /\ q.op # "register" =>
                    /\ call'[c].read = meta[p]
                    /\ call'[c].pc = IF call'[c].words # {} THEN "srem" ELSE "set"
                    /\ call'[c].words = IF q.op = "name" /\ meta[p] # None THEN meta[p].name ELSE {}
<1> DEFINE new == NewCall(p, q)
<1>1. /\ new \in CallRecord /\ new.op = q.op /\ new.p = p /\ new.arg = q.arg /\ new.read = None
      /\ new.words = {} /\ q.arg \in MetaRecord
    BY NewCallTyped, RequestTyped, ZenonT(60)
<1>2. call[c] = None
    BY DEF Begin, Get, SendsToken, KeepToken, KeepTokenFails, Begins
<1>3. meta[p] \in MetaRecord \cup {None}
    BY DEF TypeOK
<1>4. "old" \in Commands \cup {"end"} /\ "old" \in Commands /\ "old" # "end"
    BY DEF Commands
<1> HIDE DEF new
<1>5. CASE Get(c, p, q)
    <2> DEFINE words == IF q.op = "name" /\ meta[p] # None THEN meta[p].name ELSE {}
               pc == IF q.op = "touch" /\ meta[p] = None THEN "end"
                     ELSE IF words # {} THEN "srem" ELSE "set"
               k == [new EXCEPT !.read = meta[p], !.words = words]
    <2>1. words \in SUBSET Words
        BY <1>3, RegistryNames DEF MetaRecord
    <2>2. Continues(c, k, pc) /\ q.op # "register"
        BY <1>5 DEF Get, new
    <2>3. pc \in Commands \cup {"end"} /\ (pc # "end" => pc \in Commands)
        BY DEF Commands
    <2>4. pc # "end" => pc = IF words # {} THEN "srem" ELSE "set"
        OBVIOUS
    <2> HIDE DEF words, pc
    <2>5. k \in CallRecord /\ k.op = q.op /\ k.p = p /\ k.read = meta[p] /\ k.words = words
        BY <1>1, <1>3, <2>1 DEF CallRecord
    <2> HIDE DEF k
    <2>6. /\ \A d \in Calls : d # c => call'[d] = call[d]
          /\ pc = "end" => call'[c] = None
          /\ pc # "end" =>
                /\ call'[c] # None /\ Same(k, call'[c])
                /\ call'[c].pc = pc /\ call'[c].words = k.words
        BY <2>2, <2>3, <2>5, Continued DEF TypeOK
    <2>7. call'[c] # None =>
            /\ call'[c].p = p /\ call'[c].op = q.op /\ call'[c].read = meta[p]
            /\ call'[c].words = words /\ call'[c].pc = pc
            /\ pc = IF words # {} THEN "srem" ELSE "set"
        BY <2>4, <2>5, <2>6 DEF Same
    <2>. QED  BY <1>2, <2>2, <2>6, <2>7 DEF words
<1>6. ASSUME q.op = "register", NEW k \in CallRecord, k.op = q.op, k.p = p, Continues(c, k, "old"),
             k.read # None => meta[p] # None /\ k.read = meta[p] /\ k.arg.token = meta[p].token
      PROVE  /\ \A d \in Calls : d # c => call'[d] = call[d]
             /\ call'[c].p = p /\ call'[c].op = q.op /\ call'[c].pc = "old"
             /\ \/ call'[c].read = None
                \/ /\ meta[p] # None /\ call'[c].read = meta[p]
                   /\ call'[c].arg.token = meta[p].token
    <2>1. /\ \A d \in Calls : d # c => call'[d] = call[d]
          /\ call'[c] # None /\ Same(k, call'[c]) /\ call'[c].pc = "old"
        BY <1>4, <1>6, Continued DEF TypeOK
    <2>. QED  BY <1>6, <2>1 DEF Same
<1>7. CASE SendsToken(c, p, q)
    <2>1. q.op = "register" /\ Continues(c, new, "old")
        BY <1>7 DEF SendsToken, new
    <2>2. new.read # None => meta[p] # None /\ new.read = meta[p] /\ new.arg.token = meta[p].token
        BY <1>1
    <2>3. /\ \A d \in Calls : d # c => call'[d] = call[d]
          /\ call'[c].p = p /\ call'[c].op = q.op /\ call'[c].pc = "old"
          /\ \/ call'[c].read = None
             \/ /\ meta[p] # None /\ call'[c].read = meta[p]
                /\ call'[c].arg.token = meta[p].token
        BY <1>1, <1>6, <2>1, <2>2
    <2>. QED  BY <1>2, <2>1, <2>3
<1>8. CASE KeepToken(c, p, q)
    <2> DEFINE token == IF meta[p] = None THEN None ELSE meta[p].token
               k == [new EXCEPT !.arg.token = token, !.read = meta[p]]
    <2>1. token \in Tokens \cup {None}
        BY <1>3 DEF MetaRecord
    <2>2. q.op = "register" /\ Continues(c, k, "old")
        BY <1>8 DEF KeepToken, new
    <2>3. meta[p] # None => token = meta[p].token
        OBVIOUS
    <2> HIDE DEF token
    <2>4. [new.arg EXCEPT !.token = token] \in MetaRecord
        BY <1>1, <2>1, MetaAssigned
    <2>5. k \in CallRecord /\ k.op = q.op /\ k.p = p /\ k.read = meta[p]
        BY <1>1, <1>3, <2>4 DEF CallRecord
    <2>6. k.arg = [new.arg EXCEPT !.token = token]
        BY <1>1 DEF CallRecord
    <2>7. k.arg.token = token
        BY <1>1, <2>6 DEF MetaRecord
    <2> HIDE DEF k
    <2>. QED  BY <1>2, <1>6, <2>2, <2>3, <2>5, <2>7
<1>9. CASE KeepTokenFails(c, p, q)
    <2> DEFINE k == [new EXCEPT !.fresh = FALSE]
    <2>1. k \in CallRecord /\ k.op = q.op /\ k.p = p /\ k.read = None
        BY <1>1 DEF CallRecord
    <2>2. q.op = "register" /\ Continues(c, k, "old")
        BY <1>9 DEF KeepTokenFails, new
    <2> HIDE DEF k
    <2>. QED  BY <1>2, <1>6, <2>1, <2>2
<1>. QED  BY <1>5, <1>7, <1>8, <1>9 DEF Begin

\* The commands that write what the calls and the metadata agree on
LEMMA StepSplit ==
    ASSUME NEW c \in Calls, Step(c) \/ Fail(c)
    PROVE  /\ call[c] # None
           /\ Set(c) \/ meta' = meta
           /\ Upsert(c) \/ sql' = sql
BY DEF Step, Fail, At, ReadOld, ReadOldFails, SRem, SRemFails, Set, GeoAdd, SAdd, SAddFails, Upsert

\* What a step makes of its call, and leaves of the others; Set is not among them.
LEMMA StepCall ==
    ASSUME TypeOK, NEW c \in Calls, Step(c) \/ Fail(c), ~Set(c)
    PROVE  /\ \A d \in Calls : d # c => call'[d] = call[d]
           /\ call'[c] # None =>
                /\ Same(call[c], call'[c])
                /\ call'[c].pc \in {"old", "srem", "set"} => call[c].pc \in {"old", "srem"}
<1>1. call[c] # None
    BY StepSplit
<1>2. CASE ReadOld(c)
    <2> DEFINE k == call[c]
               words == IF meta[k.p] = None THEN {} ELSE meta[k.p].name
    <2>1. k \in CallRecord /\ k.pc = "old"
        BY <1>2 DEF TypeOK, ReadOld, At
    <2>2. words \in SUBSET Words
        BY <2>1, RegistryNames DEF TypeOK, MetaRecord, CallRecord
    <2>3. Continues(c, [call[c] EXCEPT !.words = words], IF words # {} THEN "srem" ELSE "set")
        BY <1>2 DEF ReadOld
    <2>4. (IF words # {} THEN "srem" ELSE "set") \in Commands \cup {"end"}
        BY DEF Commands
    <2> HIDE DEF words
    <2>. QED  BY <1>1, <2>1, <2>2, <2>3, <2>4, OnwardWithout
<1>3. CASE ReadOldFails(c)
    BY <1>1, <1>3, Onward DEF ReadOldFails, At, Commands
<1>4. CASE GeoAdd(c) \/ Upsert(c)
    <2>1. PICK pc \in Commands \cup {"end"} : Continues(c, call[c], pc) /\ pc \notin {"old", "srem", "set"}
        <3>1. CASE GeoAdd(c)
            <4>1. Following(call[c], "geo") \notin {"old", "srem", "set"}
                BY Follows
            <4>2. Following(call[c], "geo") \in Commands \cup {"end"}
                BY FollowingTyped DEF Commands
            <4>. QED  BY <3>1, <4>1, <4>2 DEF GeoAdd
        <3>2. CASE Upsert(c)
            BY <3>2 DEF Upsert
        <3>. QED  BY <1>4, <3>1, <3>2
    <2>. QED  BY <1>1, <2>1, Onward
<1>5. CASE SRem(c) \/ SRemFails(c) \/ SAdd(c) \/ SAddFails(c)
    <2>1. call[c].pc \in {"srem", "sadd"} /\ \E w : NextWord(c, w)
        BY <1>5 DEF SRem, SRemFails, SAdd, SAddFails, At
    <2>2. PICK w : NextWord(c, w)
        BY <2>1
    <2>3. Following(call[c], call[c].pc) \in {"old", "srem", "set"} => call[c].pc = "srem"
        BY <2>1, Follows
    <2>. QED  BY <1>1, <2>1, <2>2, <2>3, Worded
<1>6. CASE Fail(c)
    BY <1>6 DEF Fail, TypeOK
<1>. QED  BY <1>2, <1>3, <1>4, <1>5, <1>6 DEF Step

\* What Set makes of its call, and of the others.
LEMMA SetCall ==
    ASSUME TypeOK, NEW c \in Calls, Set(c)
    PROVE  LET k == call[c]
               naming == k.op \in {"register", "name"}
               pc == Following(k, "set")
           IN /\ k # None /\ k.pc = "set" /\ k \in CallRecord
              /\ \A d \in Calls : d # c =>
                    /\ call'[d] = None <=> call[d] = None
                    /\ call[d] # None =>
                        /\ call'[d].op = call[d].op /\ call'[d].p = call[d].p
                        /\ call'[d].pc = call[d].pc /\ call'[d].arg = call[d].arg
                        /\ call'[d].read = call[d].read /\ call'[d].words = call[d].words
                        /\ call'[d].fresh => call[d].fresh /\ call[d].p # k.p
                    /\ ~Busy(d, k.p) => call'[d] = call[d]
              /\ pc = "end" => call'[c] = None
              /\ pc # "end" =>
                    /\ call'[c] # None /\ Same(k, call'[c])
                    /\ call'[c].pc = pc /\ call'[c].words = IF naming THEN k.arg.name ELSE {}
<1> DEFINE k == call[c]
           naming == k.op \in {"register", "name"}
           pc == Following(k, "set")
           words == IF naming THEN k.arg.name ELSE {}
           on == [k EXCEPT !.pc = pc, !.words = words]
           stale(d) == [call[d] EXCEPT !.fresh = FALSE]
<1>1. call' = [d \in Calls |->
                IF d = c THEN IF pc = "end" THEN None ELSE on
                ELSE IF Busy(d, k.p) THEN stale(d) ELSE call[d]]
    BY DEF Set
<1>2. k # None /\ k.pc = "set" /\ k \in CallRecord
    BY DEF Set, At, TypeOK
<1>3. words \in SUBSET Words
    BY <1>2, RegistryNames DEF CallRecord, MetaRecord
<1>4. pc \in Commands \cup {"end"}
    BY FollowingTyped DEF Commands
<1>5. \A d \in Calls : Busy(d, k.p) =>
        /\ stale(d) # None /\ call[d].p = k.p
        /\ stale(d).op = call[d].op /\ stale(d).p = call[d].p
        /\ stale(d).pc = call[d].pc /\ stale(d).arg = call[d].arg
        /\ stale(d).read = call[d].read /\ stale(d).words = call[d].words
        /\ ~stale(d).fresh
    <2> SUFFICES ASSUME NEW d \in Calls, Busy(d, k.p)
                 PROVE  /\ stale(d) # None /\ call[d].p = k.p
                        /\ stale(d).op = call[d].op /\ stale(d).p = call[d].p
                        /\ stale(d).pc = call[d].pc /\ stale(d).arg = call[d].arg
                        /\ stale(d).read = call[d].read /\ stale(d).words = call[d].words
                        /\ ~stale(d).fresh
        OBVIOUS
    <2>1. call[d] \in CallRecord /\ call[d].p = k.p
        BY DEF TypeOK, Busy
    <2>2. stale(d) \in CallRecord
        BY <2>1 DEF CallRecord
    <2>. QED  BY <2>1, <2>2, RegistryNil DEF CallRecord
<1>6. \A d \in Calls : ~Busy(d, k.p) /\ call[d] # None => call[d].p # k.p
    BY DEF Busy
<1> HIDE DEF k, pc, words
<1>7. pc # "end" => on # None /\ Same(k, on) /\ on.pc = pc /\ on.words = words
    <2>1. pc # "end" => on \in CallRecord
        BY <1>2, <1>3, <1>4 DEF CallRecord
    <2>. QED  BY <1>2, <2>1, RegistryNil DEF CallRecord, Same
<1> HIDE DEF on, stale
<1>8. \A d \in Calls : d # c =>
        /\ call'[d] = None <=> call[d] = None
        /\ call[d] # None =>
            /\ call'[d].op = call[d].op /\ call'[d].p = call[d].p
            /\ call'[d].pc = call[d].pc /\ call'[d].arg = call[d].arg
            /\ call'[d].read = call[d].read /\ call'[d].words = call[d].words
            /\ call'[d].fresh => call[d].fresh /\ call[d].p # k.p
        /\ ~Busy(d, k.p) => call'[d] = call[d]
    <2> SUFFICES ASSUME NEW d \in Calls, d # c
                 PROVE  /\ call'[d] = None <=> call[d] = None
                        /\ call[d] # None =>
                            /\ call'[d].op = call[d].op /\ call'[d].p = call[d].p
                            /\ call'[d].pc = call[d].pc /\ call'[d].arg = call[d].arg
                            /\ call'[d].read = call[d].read /\ call'[d].words = call[d].words
                            /\ call'[d].fresh => call[d].fresh /\ call[d].p # k.p
                        /\ ~Busy(d, k.p) => call'[d] = call[d]
        OBVIOUS
    <2>1. CASE Busy(d, k.p)
        <3>1. call'[d] = stale(d)
            BY <1>1, <2>1
        <3>2. call[d] # None
            BY <2>1 DEF Busy
        <3>. QED  BY <1>5, <2>1, <3>1, <3>2
    <2>2. CASE ~Busy(d, k.p)
        <3>1. call'[d] = call[d]
            BY <1>1, <2>2
        <3>. QED  BY <1>6, <2>2, <3>1
    <2>. QED  BY <2>1, <2>2
<1>9. /\ pc = "end" => call'[c] = None
      /\ pc # "end" =>
            /\ call'[c] # None /\ Same(k, call'[c])
            /\ call'[c].pc = pc /\ call'[c].words = words
    BY <1>1, <1>7
<1>. QED  BY <1>2, <1>8, <1>9 DEF k, pc, words

------------------------------------------------------------------------------
(* The permanent record *)

LEMMA StepRemembers ==
    ASSUME TypeOK, [Next]_vars, NEW p \in Peers, sql[p] # None
    PROVE  /\ sql'[p] # None
           /\ sql[p].name # {} => sql'[p].name # {}
           /\ sql[p].loc # None => sql'[p].loc # None
           /\ sql[p].city # None => sql'[p].city # None
<1>1. CASE sql' = sql
    BY <1>1
<1>2. CASE \E c \in Calls : Upsert(c)
    <2>1. PICK c \in Calls : Upsert(c)
        BY <1>2
    <2> DEFINE k == call[c]
               old == IF sql[k.p] = None THEN EmptyRow ELSE sql[k.p]
    <2>2. sql' = [sql EXCEPT ![k.p] = Merged(old, k.arg)]
        BY <2>1 DEF Upsert
    <2>3. k.p \in Peers /\ k.arg \in MetaRecord
        BY <2>1 DEF Upsert, At, TypeOK, CallRecord
    <2>4. old \in Row
        BY <2>3, RegistryNames DEF TypeOK, EmptyRow, Row
    <2>5. k.p = p => old = sql[p]
        OBVIOUS
    <2> HIDE DEF k, old
    <2>6. Merged(old, k.arg) \in Row
        BY <2>3, <2>4 DEF Merged, Row, MetaRecord
    <2>7. CASE k.p = p
        <3>1. sql'[p] = Merged(sql[p], k.arg)
            BY <2>2, <2>5, <2>7 DEF TypeOK
        <3>2. sql'[p] # None
            BY <2>5, <2>6, <2>7, <3>1, RegistryNil
        <3>. QED  BY <3>1, <3>2 DEF Merged
    <2>8. CASE k.p # p
        BY <2>2, <2>8 DEF TypeOK
    <2>. QED  BY <2>7, <2>8
<1>3. CASE ~(\E c \in Calls : Upsert(c)) /\ Next
    <2>1. ASSUME NEW c \in Calls, NEW q \in Peers, NEW r \in Requests, Begin(c, q, r)
          PROVE  sql' = sql
        BY <2>1 DEF Begin, Get, SendsToken, KeepToken, KeepTokenFails, Begins
    <2>2. Tick => sql' = sql
        BY DEF Tick
    <2>. QED  BY <1>1, <1>3, <2>1, <2>2, StepSplit DEF Next
<1>. QED  BY <1>1, <1>2, <1>3

\* The permanent record never forgets a name, a location or a city it once had,
\* whatever later requests leave out, however they interleave and whatever Redis
\* forgets in the meantime.
THEOREM NothingForgottenAlways == Spec => NothingForgotten
<1>1. TypeOK /\ [Next]_vars =>
        [\A p \in Peers : sql[p] # None =>
            /\ sql'[p] # None
            /\ sql[p].name # {} => sql'[p].name # {}
            /\ sql[p].loc # None => sql'[p].loc # None
            /\ sql[p].city # None => sql'[p].city # None]_vars
    BY StepRemembers
<1>. QED  BY <1>1, TypeCorrect, PTL DEF Spec, NothingForgotten

------------------------------------------------------------------------------
(* Lost updates *)

LEMMA InitFresh == Init => Fresh
BY DEF Init, Fresh

LEMMA BeginFresh ==
    ASSUME TypeOK, Fresh, NEW c \in Calls, NEW p \in Peers, NEW q \in Requests, Begin(c, p, q)
    PROVE  Fresh'
<1>1. meta' = meta
    BY DEF Begin, Get, SendsToken, KeepToken, KeepTokenFails, Begins
<1>. QED  BY <1>1, Begun DEF Fresh

LEMMA StepFresh ==
    ASSUME TypeOK, Fresh, NEW c \in Calls, Step(c) \/ Fail(c)
    PROVE  Fresh'
<1>1. call[c] # None
    BY StepSplit
<1>2. CASE ~Set(c)
    <2>1. meta' = meta
        BY <1>2, StepSplit
    <2>2. /\ \A d \in Calls : d # c => call'[d] = call[d]
          /\ call'[c] # None =>
                /\ Same(call[c], call'[c])
                /\ call'[c].pc \in {"old", "srem", "set"} => call[c].pc \in {"old", "srem"}
        BY <1>2, StepCall
    <2>. QED  BY <1>1, <2>1, <2>2 DEF Fresh, Same
<1>3. CASE Set(c)
    <2> DEFINE k == call[c]
    <2>1. k.pc = "set" /\ k \in CallRecord
        BY <1>3, SetCall
    <2>2. \A d \in Calls : d # c /\ call'[d] # None =>
            /\ call[d] # None
            /\ call'[d].op = call[d].op /\ call'[d].p = call[d].p
            /\ call'[d].pc = call[d].pc /\ call'[d].arg = call[d].arg
            /\ call'[d].read = call[d].read
            /\ call'[d].fresh => call[d].fresh /\ call[d].p # k.p
        BY <1>3, SetCall
    <2>3. call'[c] # None => Same(k, call'[c]) /\ call'[c].pc \notin {"old", "srem", "set"}
        BY <1>3, SetCall, Follows
    <2>4. meta' = [meta EXCEPT ![k.p] = NewMeta(k)]
        BY <1>3 DEF Set
    <2> HIDE DEF k
    <2>5. \A p \in Peers : p # k.p => meta'[p] = meta[p]
        BY <2>4 DEF TypeOK
    <2>6. \A d \in Calls : call[d] # None => call[d].p \in Peers
        BY DEF TypeOK, CallRecord
    <2>7. ASSUME NEW d \in Calls, call'[d] # None
          PROVE  /\ call'[d].op = "register" /\ call'[d].read # None =>
                        call'[d].arg.token = call'[d].read.token
                 /\ call'[d].fresh /\ call'[d].pc \in {"old", "srem", "set"} =>
                        \/ call'[d].op = "register" /\ call'[d].read = None
                        \/ call'[d].read = meta'[call'[d].p]
        <3>1. CASE d = c
            BY <1>1, <2>3, <2>7, <3>1 DEF Fresh, Same, k
        <3>2. CASE d # c
            BY <2>2, <2>5, <2>6, <2>7, <3>2 DEF Fresh
        <3>. QED  BY <3>1, <3>2
    <2>. QED  BY <2>7 DEF Fresh
<1>. QED  BY <1>2, <1>3

LEMMA NextFresh == TypeOK /\ Fresh /\ [Next]_vars => Fresh'
<1>1. ASSUME Fresh, UNCHANGED vars PROVE Fresh'
    BY <1>1 DEF Fresh
<1>2. ASSUME Tick PROVE Fresh'
    BY <1>2 DEF Tick, Fresh
<1>. QED  BY <1>1, <1>2, BeginFresh, StepFresh DEF Next

LEMMA FreshAlways == Spec => []Fresh
BY InitFresh, NextFresh, TypeCorrect, PTL DEF Spec

LEMMA SetKeeps ==
    ASSUME TypeOK, Fresh, NEW c \in Calls, Set(c), call[c].fresh, meta[call[c].p] # None,
           NEW f \in Fields \ Owns(call[c])
    PROVE  meta'[call[c].p][f] = meta[call[c].p][f]
<1> DEFINE k == call[c]
           old == meta[k.p]
<1>1. k # None /\ k.pc = "set" /\ k \in CallRecord
    BY SetCall
<1>2. meta'[k.p] = NewMeta(k)
    BY <1>1 DEF Set, TypeOK, CallRecord
<1>3. old \in MetaRecord
    BY <1>1 DEF TypeOK, CallRecord
<1>4. /\ k.op = "register" /\ k.read # None => k.arg.token = k.read.token
      /\ (k.op = "register" /\ k.read = None) \/ k.read = old
    BY <1>1 DEF Fresh
<1>5. f \in {"name", "loc", "city", "token"} /\ f \notin Owns(k) /\ k.fresh /\ old # None
    BY DEF Fields
<1>6. k.op \in {"register", "touch", "fcm", "name", "latlng"}
    BY <1>1 DEF CallRecord, Operations
<1> HIDE DEF k, old
<1>7. CASE k.op = "register"
    <2>1. NewMeta(k) = k.arg
        BY <1>7 DEF NewMeta
    <2>2. f = "token" /\ k.read # None
        BY <1>5, <1>7 DEF Owns
    <2>3. k.read = old
        BY <1>4, <2>2
    <2>4. k.arg.token = old.token
        BY <1>4, <1>7, <2>2, <2>3
    <2>5. NewMeta(k)[f] = old[f]
        BY <2>1, <2>2, <2>4
    <2>. QED  BY <1>2, <2>5 DEF k, old
<1>8. CASE k.op # "register"
    <2>1. k.read = old /\ k.read # None
        BY <1>4, <1>5, <1>8
    <2>2. NewMeta(k)[f] = old[f]
        <3>1. CASE k.op = "touch"
            BY <2>1, <3>1 DEF NewMeta
        <3>2. CASE k.op = "fcm"
            <4>1. NewMeta(k) = [old EXCEPT !.token = k.arg.token] /\ f # "token"
                BY <1>5, <2>1, <3>2 DEF NewMeta, Owns
            <4>. QED  BY <1>3, <1>5, <4>1 DEF MetaRecord
        <3>3. CASE k.op = "name"
            <4>1. NewMeta(k) = [old EXCEPT !.name = k.arg.name] /\ f # "name"
                BY <1>5, <2>1, <3>3 DEF NewMeta, Owns
            <4>. QED  BY <1>3, <1>5, <4>1 DEF MetaRecord
        <3>4. CASE k.op = "latlng"
            <4>1. NewMeta(k) = [old EXCEPT !.loc = k.arg.loc,
                                           !.city = IF k.arg.city = None THEN @ ELSE k.arg.city]
                BY <2>1, <3>4 DEF NewMeta
            <4>2. f \notin {"loc", "city"}
                BY <1>5, <3>4 DEF Owns
            <4>. QED  BY <1>3, <1>5, <4>1, <4>2 DEF MetaRecord
        <3>. QED  BY <1>6, <1>8, <3>1, <3>2, <3>3, <3>4
    <2>. QED  BY <1>2, <2>2 DEF k, old
<1>. QED  BY <1>7, <1>8

\* A call changes no field of the metadata but its own, for as long as nobody
\* wrote the metadata between its GET and its SET: whatever the calls and however
\* they interleave, a lost update needs two calls that overlap.
THEOREM OthersKeptAlways == Spec => OthersKept
<1>1. TypeOK /\ Fresh /\ [Next]_vars =>
        [\A c \in Calls : Set(c) /\ call[c].fresh /\ meta[call[c].p] # None =>
            \A f \in Fields \ Owns(call[c]) : meta'[call[c].p][f] = meta[call[c].p][f]]_vars
    BY SetKeeps
<1>. QED  BY <1>1, TypeCorrect, FreshAlways, PTL DEF Spec, OthersKept

------------------------------------------------------------------------------
(* The indexes: what a step leaves of a peer *)

\* The Redis keys of a peer are as they were, but for a later expiry.
Steady(q) ==
    /\ meta'[q] = meta[q] /\ named'[q] = named[q] /\ geo'[q] = geo[q]
    /\ \A w \in Words : q \in index'[w] <=> q \in index[w]
    /\ \A w \in Words : q \in index[w] /\ indexTTL[w] >= named[q] => indexTTL'[w] >= named[q]

LEMMA NamesAreWords ==
    ASSUME TypeOK, NEW q \in Peers
    PROVE  /\ Base(meta[q]).name \subseteq Words /\ Base(meta[q]) \in MetaRecord
           /\ named[q] \in 0 .. PeerTTL
           /\ \A w \in Words : indexTTL[w] \in 0 .. PeerTTL
<1>1. Base(meta[q]) \in MetaRecord
    BY BlankTyped DEF TypeOK, Base
<1>. QED  BY <1>1, RegistryNames DEF TypeOK, MetaRecord

LEMMA SteadyKeeps ==
    ASSUME TypeOK, NEW q \in Peers, Steady(q)
    PROVE  /\ Under(q)' = Under(q) /\ Base(meta[q])' = Base(meta[q])
           /\ Indexed(q) => Indexed(q)'
           /\ Located(q) => Located(q)'
           /\ \A d \in Calls : call'[d] = call[d] /\ Progress(d, q) => Progress(d, q)'
<1>1. Under(q)' = Under(q)
    BY DEF Steady, Under
<1>2. Base(meta[q])' = Base(meta[q])
    BY DEF Steady, Base
<1>3. Base(meta[q]).name \subseteq Words
    BY NamesAreWords
<1>4. Indexed(q) => Indexed(q)'
    BY <1>1, <1>2, <1>3 DEF Steady, Indexed
<1>5. Located(q) => Located(q)'
    BY <1>2 DEF Steady, Located
<1>6. \A d \in Calls : call'[d] = call[d] /\ Progress(d, q) => Progress(d, q)'
    <2> SUFFICES ASSUME NEW d \in Calls, call'[d] = call[d], Progress(d, q)
                 PROVE  Progress(d, q)'
        OBVIOUS
    <2>1. \A w \in Base(meta[q]).name \ call[d].words :
            q \in index[w] /\ indexTTL[w] >= named[q] => q \in index'[w] /\ indexTTL'[w] >= named'[q]
        BY <1>3 DEF Steady
    <2>. QED  BY <1>1, <1>2, <2>1 DEF Progress, Renames
<1>. QED  BY <1>1, <1>2, <1>4, <1>5, <1>6

\* A peer that a step does not concern
LEMMA Elsewhere ==
    ASSUME TypeOK, NEW q \in Peers, Steady(q), PeerInv(q),
           \A d \in Calls : Busy(d, q)' <=> Busy(d, q),
           \A d \in Calls : Busy(d, q) => call'[d] = call[d]
    PROVE  PeerInv(q)'
<1>1. Alone(q)'
    BY DEF PeerInv, Alone
<1>2. Renaming(q)' <=> Renaming(q)
    BY DEF Renaming, Renames
<1>3. Locating(q)' <=> Locating(q)
    BY DEF Locating
<1>4. \A d \in Calls : Busy(d, q)' => Progress(d, q)'
    BY SteadyKeeps DEF PeerInv
<1>. QED  BY <1>1, <1>2, <1>3, <1>4, SteadyKeeps DEF PeerInv

\* A peer with at most one call
LEMMA WithOne ==
    ASSUME NEW c \in Calls, NEW p \in Peers,
           \A d \in Calls : d # c => ~Busy(d, p)',
           Busy(c, p)' => Progress(c, p)',
           Indexed(p)' \/ (Busy(c, p)' /\ Renames(c)' /\ call'[c].pc \notin {"old", "sql"}),
           Located(p)' \/ (Busy(c, p)' /\ call'[c].pc = "geo")
    PROVE  PeerInv(p)'
<1>1. Alone(p)'
    BY DEF Alone
<1>2. ~Renaming(p)' => Indexed(p)'
    BY DEF Renaming
<1>3. ~Locating(p)' => Located(p)'
    BY DEF Locating
<1>. QED  BY <1>1, <1>2, <1>3 DEF PeerInv

\* An indexing call for an undisturbed peer is its only call.
LEMMA IndexingAlone ==
    ASSUME NEW c \in Calls, NEW p \in Peers, PeerInv(p), Busy(c, p), call[c].op \in Indexing
    PROVE  /\ \A d \in Calls : d # c => ~Busy(d, p)
           /\ Renaming(p) <=> Renames(c) /\ call[c].pc \notin {"old", "sql"}
           /\ Locating(p) <=> call[c].pc = "geo"
<1>1. \A d \in Calls : d # c => ~Busy(d, p)
    BY DEF PeerInv, Alone
<1>. QED  BY <1>1 DEF Renaming, Locating

------------------------------------------------------------------------------
(* The indexes: the peer of the call that takes a step *)

LEMMA ReadOldHome ==
    ASSUME TypeOK, Course, NEW c \in Calls, ReadOld(c), NEW p \in Peers, p = call[c].p, PeerInv(p)
    PROVE  PeerInv(p)'
<1> DEFINE k == call[c]
           words == IF meta[p] = None THEN {} ELSE meta[p].name
           pc == IF words # {} THEN "srem" ELSE "set"
<1>1. k # None /\ k.pc = "old" /\ k.op = "register" /\ Busy(c, p)
    BY DEF ReadOld, At, Course, Busy
<1>2. /\ \A d \in Calls : d # c => ~Busy(d, p)
      /\ Indexed(p) /\ Located(p)
    <2>1. ~Renaming(p) /\ ~Locating(p) /\ \A d \in Calls : d # c => ~Busy(d, p)
        BY <1>1, IndexingAlone DEF Indexing
    <2>. QED  BY <2>1 DEF PeerInv
<1>3. words = Base(meta[p]).name /\ words \in SUBSET Words
    BY NamesAreWords DEF Base, Blank
<1>4. Continues(c, [k EXCEPT !.words = words], pc) /\ pc \in Commands \cup {"end"} /\ pc # "end"
    BY DEF ReadOld, Commands
<1>5. pc \in {"srem", "set"} /\ (pc = "set" => words = {})
    OBVIOUS
<1> HIDE DEF words, pc
<1>6. /\ \A d \in Calls : d # c => call'[d] = call[d]
      /\ call'[c] # None /\ Same(k, call'[c]) /\ call'[c].pc = pc /\ call'[c].words = words
    BY <1>1, <1>3, <1>4, OnwardWithout, ZenonT(60)
<1>7. Steady(p)
    BY DEF ReadOld, Steady
<1>8. \A d \in Calls : d # c => ~Busy(d, p)'
    BY <1>2, <1>6 DEF Busy
<1>9. Busy(c, p)' /\ Renames(c)' /\ call'[c].pc \notin {"old", "sql"}
    BY <1>1, <1>5, <1>6 DEF Busy, Renames, Same
<1>10. Under(p) \subseteq words
    BY <1>2, <1>3 DEF Indexed
<1>11. Progress(c, p)'
    <2>1. Under(p)' = Under(p)
        BY <1>7, SteadyKeeps
    <2>2. call'[c].op = "register" /\ call'[c].pc \in {"srem", "set"}
        BY <1>1, <1>5, <1>6 DEF Same
    <2>. QED  BY <1>5, <1>6, <1>10, <2>1, <2>2 DEF Progress
<1>12. Located(p)'
    BY <1>2, <1>7, SteadyKeeps
<1>. QED  BY <1>8, <1>9, <1>11, <1>12, WithOne

LEMMA SRemHome ==
    ASSUME TypeOK, Course, NEW c \in Calls, SRem(c), NEW p \in Peers, p = call[c].p, PeerInv(p)
    PROVE  PeerInv(p)'
<1> DEFINE k == call[c]
<1>1. k # None /\ k.pc = "srem" /\ Renames(c) /\ Busy(c, p)
    BY DEF SRem, At, Course, Busy
<1>2. PICK w \in k.words : index' = [index EXCEPT ![w] = @ \ {p}] /\ NextWord(c, w)
    BY DEF SRem
<1> DEFINE left == k.words \ {w}
           pc == IF left # {} THEN "srem" ELSE "set"
<1>3. /\ \A d \in Calls : d # c => ~Busy(d, p)
      /\ Located(p)
    <2>1. ~Locating(p) /\ \A d \in Calls : d # c => ~Busy(d, p)
        BY <1>1, IndexingAlone DEF Indexing, Renames
    <2>. QED  BY <2>1 DEF PeerInv
<1>4. /\ \A d \in Calls : d # c => call'[d] = call[d]
      /\ call'[c] # None /\ Same(k, call'[c]) /\ call'[c].pc = pc /\ call'[c].words = left
    <2>1. pc = (IF left # {} THEN k.pc ELSE Following(k, k.pc)) /\ pc # "end"
        BY <1>1, Follows
    <2> HIDE DEF left, pc
    <2>. QED  BY <1>1, <1>2, <2>1, Worded DEF left
<1>5. pc \in {"srem", "set"} /\ (pc = "set" => left = {})
    OBVIOUS
<1>6. \A d \in Calls : d # c => ~Busy(d, p)'
    BY <1>3, <1>4 DEF Busy
<1> HIDE DEF pc
<1>7. Busy(c, p)' /\ Renames(c)' /\ call'[c].pc \notin {"old", "sql"}
    BY <1>1, <1>4, <1>5 DEF Busy, Renames, Same
<1>8. Progress(c, p)
    BY <1>1 DEF PeerInv
<1>9. Under(p)' \subseteq left
    <2>1. Under(p) \subseteq k.words /\ w \in Words
        BY <1>1, <1>8 DEF Progress, TypeOK, CallRecord
    <2>. QED  BY <1>2, <2>1 DEF Under, TypeOK
<1>10. Base(meta[p])' = Base(meta[p]) /\ geo' = geo
    BY DEF SRem, Base
<1>11. Progress(c, p)'
    <2>1. call'[c].op # "register" =>
            /\ Base(call'[c].read).name = Base(meta[p]).name
            /\ Base(call'[c].read).loc = Base(meta[p]).loc
        BY <1>1, <1>4, <1>8 DEF Progress, Same
    <2> HIDE DEF left
    <2>. QED  BY <1>4, <1>5, <1>9, <1>10, <2>1 DEF Progress
<1>12. Located(p)'
    BY <1>3, <1>10 DEF Located
<1>. QED  BY <1>6, <1>7, <1>11, <1>12, WithOne

LEMMA GeoAddHome ==
    ASSUME TypeOK, Course, NEW c \in Calls, GeoAdd(c), NEW p \in Peers, p = call[c].p, PeerInv(p)
    PROVE  PeerInv(p)'
<1> DEFINE k == call[c]
           pc == Following(k, "geo")
<1>1. k # None /\ k.pc = "geo" /\ k.op \in {"register", "latlng"} /\ Busy(c, p) /\ Progress(c, p)
    BY DEF GeoAdd, At, Course, Busy, PeerInv
<1>2. /\ \A d \in Calls : d # c => ~Busy(d, p)
      /\ ~Renames(c) => Indexed(p)
    <2>1. /\ \A d \in Calls : d # c => ~Busy(d, p)
          /\ ~Renames(c) => ~Renaming(p)
        BY <1>1, IndexingAlone DEF Indexing
    <2>. QED  BY <2>1 DEF PeerInv
<1>3. pc \in Commands \cup {"end"}
    BY FollowingTyped DEF Commands
<1>4. pc \in {"sadd", "sql"} /\ (pc = "sql" => ~Renames(c) \/ k.arg.name = {}) /\ (pc = "sadd" => Renames(c))
    BY <1>1 DEF Following, Renames
<1>5. Continues(c, k, pc) /\ geo' = [geo EXCEPT ![p] = k.arg.loc]
      /\ UNCHANGED <<meta, index, indexTTL, named>>
    BY DEF GeoAdd, historyVars
<1> HIDE DEF pc
<1>6. /\ \A d \in Calls : d # c => call'[d] = call[d]
      /\ call'[c] # None /\ Same(k, call'[c]) /\ call'[c].pc = pc /\ call'[c].words = k.words
    BY <1>1, <1>3, <1>4, <1>5, Onward
<1>7. \A d \in Calls : d # c => ~Busy(d, p)'
    BY <1>2, <1>6 DEF Busy
<1>8. Base(meta[p])' = Base(meta[p]) /\ Under(p)' = Under(p)
    BY <1>5 DEF Base, Under
<1>9. Located(p)'
    BY <1>1, <1>5, <1>8 DEF Located, Progress, TypeOK
<1>10. Renames(c) =>
        /\ Under(p) = {} /\ k.words = Base(meta[p]).name /\ k.arg.name = Base(meta[p]).name
    BY <1>1 DEF Progress
<1>11. Indexed(p)' \/ (Busy(c, p)' /\ Renames(c)' /\ call'[c].pc \notin {"old", "sql"})
    <2>1. CASE pc = "sadd"
        BY <1>4, <1>6, <2>1 DEF Busy, Renames, Same
    <2>2. CASE pc = "sql" /\ ~Renames(c)
        BY <1>2, <1>5, <1>8, <2>2 DEF Indexed
    <2>3. CASE pc = "sql" /\ Renames(c)
        <3>1. Base(meta[p]).name = {} /\ Under(p) = {}
            BY <1>4, <1>10, <2>3
        <3>. QED  BY <1>8, <3>1 DEF Indexed
    <2>. QED  BY <1>4, <2>1, <2>2, <2>3
<1>12. Progress(c, p)'
    <2>1. call'[c].pc \in {"sadd", "sql"} /\ (call'[c].pc = "sadd" => Renames(c))
        BY <1>4, <1>6
    <2>2. Renames(c) => Under(p)' = {} /\ call'[c].words = Base(meta[p])'.name
        BY <1>6, <1>8, <1>10
    <2>. QED  BY <2>1, <2>2 DEF Progress
<1>. QED  BY <1>7, <1>9, <1>11, <1>12, WithOne

LEMMA SAddHome ==
    ASSUME TypeOK, Course, NEW c \in Calls, SAdd(c), NEW p \in Peers, p = call[c].p, PeerInv(p)
    PROVE  PeerInv(p)'
<1> DEFINE k == call[c]
           name == Base(meta[p]).name
<1>1. k # None /\ k.pc = "sadd" /\ Renames(c) /\ Busy(c, p) /\ Progress(c, p)
    BY DEF SAdd, At, Course, Busy, PeerInv
<1>2. PICK w \in k.words :
        /\ index' = [index EXCEPT ![w] = @ \cup {p}]
        /\ indexTTL' = [indexTTL EXCEPT ![w] = PeerTTL]
        /\ NextWord(c, w)
    BY DEF SAdd
<1> DEFINE left == k.words \ {w}
           pc == IF left # {} THEN "sadd" ELSE Following(k, "sadd")
<1>3. /\ \A d \in Calls : d # c => ~Busy(d, p)
      /\ Located(p)
    <2>1. ~Locating(p) /\ \A d \in Calls : d # c => ~Busy(d, p)
        BY <1>1, IndexingAlone DEF Indexing, Renames
    <2>. QED  BY <2>1 DEF PeerInv
<1>4. pc \in {"sadd", "sql", "end"} /\ (pc # "sadd" => left = {})
    BY Follows
<1>5. /\ \A d \in Calls : d # c => call'[d] = call[d]
      /\ pc = "end" => call'[c] = None
      /\ pc # "end" =>
            /\ call'[c] # None /\ Same(k, call'[c]) /\ call'[c].pc = pc /\ call'[c].words = left
    <2>1. pc = IF left # {} THEN k.pc ELSE Following(k, k.pc)
        BY <1>1
    <2> HIDE DEF left, pc
    <2>. QED  BY <1>1, <1>2, <2>1, Worded DEF left
<1>6. \A d \in Calls : d # c => ~Busy(d, p)'
    BY <1>3, <1>5 DEF Busy
<1>7. Base(meta[p])' = Base(meta[p]) /\ geo' = geo /\ named' = named
    BY DEF SAdd, Base, historyVars
<1>8. name \subseteq Words /\ named[p] <= PeerTTL /\ PeerTTL \in Nat /\ named[p] \in Nat
      /\ \A v \in Words : indexTTL[v] \in Nat
    BY NamesAreWords, RegistryBounds
<1>9. /\ k.words \subseteq name
      /\ Under(p) \subseteq name \ k.words
      /\ \A v \in name \ k.words : p \in index[v] /\ indexTTL[v] >= named[p]
    BY <1>1 DEF Progress
<1> HIDE DEF pc, name
<1>10. /\ left \subseteq name
       /\ Under(p)' \subseteq name \ left
       /\ \A v \in name \ left : p \in index'[v] /\ indexTTL'[v] >= named[p]
    <2>1. Under(p)' = Under(p) \cup {w}
        BY <1>2, <1>8, <1>9 DEF Under, TypeOK
    <2>2. \A v \in Words : index'[v] = (IF v = w THEN index[v] \cup {p} ELSE index[v])
                          /\ indexTTL'[v] = (IF v = w THEN PeerTTL ELSE indexTTL[v])
        BY <1>2, <1>8, <1>9 DEF TypeOK
    <2>. QED  BY <1>2, <1>8, <1>9, <2>1, <2>2
<1> HIDE DEF left
<1>11. Indexed(p)' \/ (Busy(c, p)' /\ Renames(c)' /\ call'[c].pc \notin {"old", "sql"})
    <2>1. CASE pc = "sadd"
        BY <1>1, <1>5, <2>1 DEF Busy, Renames, Same
    <2>2. CASE pc # "sadd"
        <3>1. left = {}
            BY <1>4, <2>2
        <3>. QED  BY <1>7, <1>10, <3>1 DEF Indexed, name
    <2>. QED  BY <2>1, <2>2
<1>12. Busy(c, p)' => Progress(c, p)'
    <2>1. SUFFICES ASSUME Busy(c, p)' PROVE Progress(c, p)'
        OBVIOUS
    <2>2. /\ call'[c].pc \in {"sadd", "sql"}
          /\ call'[c].words = left
        BY <1>4, <1>5, <2>1 DEF Busy
    <2>. QED  BY <1>7, <1>10, <2>2 DEF Progress, name
<1>13. Located(p)'
    BY <1>3, <1>7 DEF Located
<1>. QED  BY <1>6, <1>11, <1>12, <1>13, WithOne

LEMMA UpsertHome ==
    ASSUME TypeOK, Course, NEW c \in Calls, Upsert(c), NEW p \in Peers, p = call[c].p, PeerInv(p)
    PROVE  PeerInv(p)'
<1>1. /\ call[c] # None /\ call[c].pc = "sql" /\ call[c].op \in Indexing /\ Busy(c, p)
    BY DEF Upsert, At, Course, Busy, Indexing
<1>2. ~Renaming(p) /\ ~Locating(p) /\ \A d \in Calls : d # c => ~Busy(d, p)
    BY <1>1, IndexingAlone
<1>3. Indexed(p) /\ Located(p)
    BY <1>2 DEF PeerInv
<1>4. Continues(c, call[c], "end") /\ Steady(p)
    BY DEF Upsert, Steady
<1>5. call'[c] = None /\ \A d \in Calls : d # c => call'[d] = call[d]
    BY <1>1, <1>4, Onward
<1>6. \A d \in Calls : ~Busy(d, p)'
    BY <1>2, <1>5 DEF Busy
<1>7. Indexed(p)' /\ Located(p)'
    BY <1>3, <1>4, SteadyKeeps
<1>. QED  BY <1>6, <1>7, WithOne

LEMMA NewMetaFields ==
    ASSUME NEW k \in CallRecord
    PROVE  /\ k.op \in {"register", "name"} => NewMeta(k).name = k.arg.name
           /\ k.op \notin {"register", "name"} => NewMeta(k).name = Base(k.read).name
           /\ k.op \in {"register", "latlng"} => NewMeta(k).loc = k.arg.loc
           /\ k.op \notin {"register", "latlng"} => NewMeta(k).loc = Base(k.read).loc
<1> DEFINE base == Base(k.read)
<1>1. base \in MetaRecord
    BY BlankTyped DEF CallRecord, Base
<1>2. k.op \in {"register", "touch", "fcm", "name", "latlng"}
    BY DEF CallRecord, Operations
<1>3. /\ k.op = "register" => NewMeta(k) = k.arg
      /\ k.op = "touch" => NewMeta(k) = base
      /\ k.op = "fcm" => NewMeta(k) = [base EXCEPT !.token = k.arg.token]
      /\ k.op = "name" => NewMeta(k) = [base EXCEPT !.name = k.arg.name]
      /\ k.op = "latlng" => NewMeta(k) = [base EXCEPT !.loc = k.arg.loc,
                                          !.city = IF k.arg.city = None THEN @ ELSE k.arg.city]
    BY <1>2 DEF NewMeta, Base
<1> HIDE DEF base
<1>4. /\ k.op = "fcm" => NewMeta(k).name = base.name /\ NewMeta(k).loc = base.loc
      /\ k.op = "name" => NewMeta(k).name = k.arg.name /\ NewMeta(k).loc = base.loc
      /\ k.op = "latlng" => NewMeta(k).name = base.name /\ NewMeta(k).loc = k.arg.loc
    BY <1>1, <1>3 DEF MetaRecord
<1>. QED  BY <1>2, <1>3, <1>4 DEF base

LEMMA SetHome ==
    ASSUME TypeOK, Course, NEW c \in Calls, Set(c), NEW p \in Peers, p = call[c].p, PeerInv(p)
    PROVE  PeerInv(p)'
<1> DEFINE k == call[c]
           pc == Following(k, "set")
           new == NewMeta(k)
<1>1. k # None /\ k.pc = "set" /\ k \in CallRecord /\ k.p = p
    BY SetCall
<1>2. Busy(c, p) /\ Progress(c, p) /\ k.op \in Operations
    BY <1>1 DEF Busy, PeerInv, CallRecord
<1>3. /\ \A d \in Calls : d # c =>
            /\ call'[d] = None <=> call[d] = None
            /\ call[d] # None =>
                /\ call'[d].op = call[d].op /\ call'[d].p = call[d].p
                /\ call'[d].pc = call[d].pc /\ call'[d].arg = call[d].arg
                /\ call'[d].read = call[d].read /\ call'[d].words = call[d].words
      /\ pc = "end" => call'[c] = None
      /\ pc # "end" =>
            /\ call'[c] # None /\ Same(k, call'[c]) /\ call'[c].pc = pc
            /\ call'[c].words = IF Renames(c) THEN k.arg.name ELSE {}
    BY SetCall DEF Renames
<1>4. /\ meta' = [meta EXCEPT ![p] = new]
      /\ named' = [named EXCEPT ![p] = IF Renames(c) THEN PeerTTL ELSE @]
      /\ UNCHANGED <<index, indexTTL, geo>>
    BY <1>1 DEF Set, Renames
<1>5. new \in MetaRecord /\ new # None
    BY <1>1, NewMetaTyped, RegistryNil
<1>6. /\ Renames(c) => new.name = k.arg.name
      /\ ~Renames(c) => new.name = Base(k.read).name
      /\ k.op \in {"register", "latlng"} => new.loc = k.arg.loc
      /\ k.op \notin {"register", "latlng"} => new.loc = Base(k.read).loc
    BY <1>1, NewMetaFields DEF Renames
<1> HIDE DEF new
<1>7. Base(meta[p])' = new
    BY <1>4, <1>5 DEF Base, TypeOK
<1>8. Under(p)' = Under(p)
    BY <1>4 DEF Under
<1>9. /\ Renames(c) => Under(p) = {}
      /\ k.op # "register" =>
            /\ Base(k.read).name = Base(meta[p]).name
            /\ Base(k.read).loc = Base(meta[p]).loc
    BY <1>1, <1>2 DEF Progress
<1>10. ~Renames(c) => named'[p] = named[p]
    BY <1>4 DEF TypeOK
<1>11. pc \in {"geo", "sadd", "sql", "end"}
    BY DEF Following
<1>12. /\ pc = "sadd" => Renames(c)
       /\ pc = "geo" => k.op \in {"register", "latlng"}
       /\ k.op \in {"touch", "fcm"} => pc = "end"
       /\ pc # "geo" /\ k.op \in {"register", "latlng"} => k.arg.loc = None
       /\ Renames(c) /\ k.arg.name # {} => pc \in {"geo", "sadd"}
    BY Follows DEF Renames
<1>13. Busy(c, p)' <=> pc # "end"
    BY <1>1, <1>3 DEF Busy, Same
<1>14. pc # "end" => call'[c].op = k.op /\ (Renames(c)' <=> Renames(c)) /\ call'[c].arg = k.arg
    BY <1>3 DEF Renames, Same
<1> HIDE DEF pc
<1>15. CASE k.op \in Indexing
    <2>1. /\ \A d \in Calls : d # c => ~Busy(d, p)
          /\ ~Renames(c) => Indexed(p)
          /\ Located(p)
        <3>1. /\ \A d \in Calls : d # c => ~Busy(d, p)
              /\ ~Renames(c) => ~Renaming(p)
              /\ ~Locating(p)
            BY <1>1, <1>2, <1>15, IndexingAlone
        <3>. QED  BY <3>1 DEF PeerInv
    <2>2. \A d \in Calls : d # c => ~Busy(d, p)'
        BY <1>3, <2>1 DEF Busy
    <2>3. Busy(c, p)' => Progress(c, p)'
        <3> SUFFICES ASSUME pc # "end" PROVE Progress(c, p)'
            BY <1>13
        <3>1. call'[c].pc = pc /\ pc \in {"geo", "sadd", "sql"}
            BY <1>3, <1>11
        <3>2. Renames(c)' =>
                /\ Under(p)' = {} /\ call'[c].words = Base(meta[p])'.name
                /\ call'[c].arg.name = Base(meta[p])'.name
            BY <1>3, <1>6, <1>7, <1>8, <1>9, <1>14
        <3>3. pc = "geo" => call'[c].arg.loc = Base(meta[p])'.loc
            BY <1>6, <1>7, <1>12, <1>14
        <3>4. pc = "sadd" => Renames(c)'
            BY <1>12, <1>14
        <3>. QED  BY <3>1, <3>2, <3>3, <3>4 DEF Progress
    <2>4. Indexed(p)' \/ (Busy(c, p)' /\ Renames(c)' /\ call'[c].pc \notin {"old", "sql"})
        <3>1. CASE ~Renames(c)
            <4>1. k.op # "register"
                BY <3>1 DEF Renames
            <4>2. Base(meta[p])'.name = Base(meta[p]).name
                BY <1>6, <1>7, <1>9, <3>1, <4>1
            <4>. QED  BY <1>4, <1>8, <1>10, <2>1, <3>1, <4>2 DEF Indexed
        <3>2. CASE Renames(c) /\ pc \in {"geo", "sadd"}
            BY <1>3, <1>13, <1>14, <3>2
        <3>3. CASE Renames(c) /\ pc \notin {"geo", "sadd"}
            <4>1. Base(meta[p])'.name = {} /\ Under(p)' = {}
                BY <1>6, <1>7, <1>8, <1>9, <1>12, <3>3
            <4>. QED  BY <4>1 DEF Indexed
        <3>. QED  BY <3>1, <3>2, <3>3
    <2>5. Located(p)' \/ (Busy(c, p)' /\ call'[c].pc = "geo")
        <3>1. CASE pc = "geo"
            BY <1>3, <1>13, <3>1
        <3>2. CASE pc # "geo" /\ k.op \in {"register", "latlng"}
            BY <1>6, <1>7, <1>12, <3>2 DEF Located
        <3>3. CASE k.op \notin {"register", "latlng"}
            <4>1. Base(meta[p])'.loc = Base(meta[p]).loc
                BY <1>6, <1>7, <1>9, <3>3
            <4>. QED  BY <1>4, <2>1, <4>1 DEF Located
        <3>. QED  BY <3>1, <3>2, <3>3
    <2>. QED  BY <2>2, <2>3, <2>4, <2>5, WithOne
<1>16. CASE k.op \notin Indexing
    <2>1. \A d \in Calls : Busy(d, p) => call[d].op \notin Indexing
        BY <1>2, <1>16 DEF PeerInv, Alone
    <2>2. \A d \in Calls : Busy(d, p) => ~Renames(d) /\ call[d].pc \notin {"srem", "geo", "sadd"}
        BY <2>1 DEF Course, Busy, Renames, Indexing
    <2>3. Indexed(p) /\ Located(p)
        BY <2>2 DEF PeerInv, Renaming, Locating
    <2>4. pc = "end" /\ ~Renames(c) /\ k.op # "register" /\ k.op \notin {"register", "latlng"}
        BY <1>2, <1>12, <1>16 DEF Operations, Indexing, Renames
    <2>5. \A d \in Calls : Busy(d, p)' =>
            /\ d # c /\ Busy(d, p)
            /\ call'[d].op = call[d].op /\ call'[d].pc = call[d].pc /\ call'[d].read = call[d].read
        BY <1>3, <1>13, <2>4 DEF Busy
    <2>6. /\ Base(meta[p])'.name = Base(meta[p]).name
          /\ Base(meta[p])'.loc = Base(meta[p]).loc
        BY <1>6, <1>7, <1>9, <2>4
    <2>7. Alone(p)'
        BY <2>1, <2>5 DEF Alone
    <2>8. Indexed(p)' /\ Located(p)'
        BY <1>4, <1>8, <1>10, <2>3, <2>4, <2>6 DEF Indexed, Located
    <2>9. \A d \in Calls : Busy(d, p)' => Progress(d, p)'
        <3> SUFFICES ASSUME NEW d \in Calls, Busy(d, p)'
                     PROVE  Progress(d, p)'
            OBVIOUS
        <3>1. Busy(d, p) /\ Progress(d, p)
            BY <2>5 DEF PeerInv
        <3>2. ~Renames(d)' /\ call'[d].pc \notin {"srem", "geo", "sadd"}
            BY <2>2, <2>5 DEF Renames
        <3>3. call'[d].op # "register" /\ call'[d].pc \in {"srem", "set"} =>
                /\ Base(call'[d].read).name = Base(meta[p]).name
                /\ Base(call'[d].read).loc = Base(meta[p]).loc
            BY <2>5, <3>1 DEF Progress
        <3>. QED  BY <2>6, <3>2, <3>3 DEF Progress
    <2>. QED  BY <2>7, <2>8, <2>9 DEF PeerInv
<1>. QED  BY <1>15, <1>16

LEMMA BeginHome ==
    ASSUME TypeOK, Course, NEW c \in Calls, NEW p \in Peers, NEW q \in Requests, Begin(c, p, q),
           PeerInv(p), ~disturbed'[p]
    PROVE  PeerInv(p)'
<1>1. Begins(c, p, q.op)
    BY DEF Begin, Get, SendsToken, KeepToken, KeepTokenFails
<1>2. call[c] = None /\ Steady(p)
    BY <1>1 DEF Begins, Steady
<1>3. \A d \in Calls : Busy(d, p) => d # c /\ call[d].op \notin Indexing /\ q.op \notin Indexing
    BY <1>1, <1>2 DEF Begins, TypeOK, Busy
<1>4. Indexed(p) /\ Located(p)
    <2>1. ~Renaming(p)
        BY <1>3 DEF Renaming, Renames, Indexing
    <2>2. ~Locating(p)
        BY <1>3 DEF Locating, Course, Busy, Indexing
    <2>. QED  BY <2>1, <2>2 DEF PeerInv
<1>5. /\ \A d \in Calls : d # c => call'[d] = call[d]
      /\ call'[c] # None =>
            /\ call'[c].p = p /\ call'[c].op = q.op
            /\ q.op = "register" => call'[c].pc = "old"
            /\ q.op # "register" =>
                /\ call'[c].read = meta[p]
                /\ call'[c].pc = IF call'[c].words # {} THEN "srem" ELSE "set"
                /\ call'[c].words = IF q.op = "name" /\ meta[p] # None THEN meta[p].name ELSE {}
    BY Begun
<1>6. \A d \in Calls : d # c => (Busy(d, p)' <=> Busy(d, p))
    BY <1>5 DEF Busy
<1>7. Alone(p)'
    <2> SUFFICES ASSUME NEW d \in Calls, NEW e \in Calls, Busy(d, p)', Busy(e, p)', d # e
                 PROVE  call'[d].op \notin Indexing /\ call'[e].op \notin Indexing
        BY DEF Alone
    <2>1. \A f \in Calls : f # c /\ Busy(f, p)' => call'[f].op \notin Indexing /\ q.op \notin Indexing
        BY <1>3, <1>5, <1>6
    <2>2. Busy(c, p)' => call'[c].op = q.op
        BY <1>5 DEF Busy
    <2>. QED  BY <2>1, <2>2
<1>8. Indexed(p)' /\ Located(p)' /\ Under(p)' = Under(p) /\ Base(meta[p])' = Base(meta[p])
    BY <1>2, <1>4, SteadyKeeps
<1>9. Busy(c, p)' => Progress(c, p)'
    <2> SUFFICES ASSUME Busy(c, p)' PROVE Progress(c, p)'
        OBVIOUS
    <2>1. call'[c] # None
        BY DEF Busy
    <2>2. CASE q.op = "register"
        BY <1>5, <2>1, <2>2 DEF Progress
    <2>3. CASE q.op # "register"
        <3> DEFINE words == IF q.op = "name" /\ meta[p] # None THEN meta[p].name ELSE {}
        <3>1. /\ call'[c].op = q.op /\ call'[c].read = meta[p] /\ call'[c].words = words
              /\ call'[c].pc = IF words # {} THEN "srem" ELSE "set"
            BY <1>5, <2>1, <2>3
        <3>2. words # {} => words = Base(meta[p]).name
            BY DEF Base
        <3>3. q.op = "name" => words = Base(meta[p]).name
            BY DEF Base, Blank
        <3> HIDE DEF words
        <3>4. Under(p) \subseteq Base(meta[p]).name
            BY <1>4 DEF Indexed
        <3>. QED  BY <1>8, <2>3, <3>1, <3>2, <3>3, <3>4 DEF Progress, Renames
    <2>. QED  BY <2>2, <2>3
<1>10. \A d \in Calls : Busy(d, p)' => Progress(d, p)'
    <2>1. \A d \in Calls : Busy(d, p) => Progress(d, p)
        BY DEF PeerInv
    <2>. QED  BY <1>2, <1>5, <1>6, <1>9, <2>1, SteadyKeeps
<1>. QED  BY <1>7, <1>8, <1>10 DEF PeerInv

------------------------------------------------------------------------------
(* The indexes: the steps *)

\* A command leaves the other peers alone.
LEMMA StepSteady ==
    ASSUME TypeOK, NEW c \in Calls, Step(c) \/ Fail(c), NEW q \in Peers, q # call[c].p
    PROVE  Steady(q)
<1> DEFINE p == call[c].p
<1>1. /\ q # p /\ p \in Peers /\ call[c].words \subseteq Words
      /\ \A w \in Words : index[w] \subseteq Peers /\ indexTTL[w] \in 0 .. PeerTTL
      /\ named[q] <= PeerTTL /\ PeerTTL \in Nat
    BY StepSplit, RegistryBounds DEF TypeOK, CallRecord
<1>2. CASE UNCHANGED <<meta, index, indexTTL, geo, named>>
    BY <1>2 DEF Steady
<1>3. CASE SRem(c)
    <2>1. PICK w \in call[c].words :
            /\ index' = [index EXCEPT ![w] = @ \ {p}]
            /\ indexTTL' = [indexTTL EXCEPT ![w] = IF index[w] = {p} THEN 0 ELSE @]
        BY <1>3 DEF SRem
    <2>2. \A v \in Words : q \in index[v] => index[v] # {p}
        BY <1>1
    <2> HIDE DEF p
    <2>3. \A v \in Words : /\ q \in index'[v] <=> q \in index[v]
                          /\ q \in index[v] => indexTTL'[v] = indexTTL[v]
        BY <1>1, <2>1, <2>2 DEF TypeOK
    <2>. QED  BY <1>3, <2>3 DEF SRem, Steady
<1>4. CASE Set(c)
    <2>1. meta'[q] = meta[q] /\ named'[q] = named[q]
        BY <1>1, <1>4 DEF Set, TypeOK
    <2>. QED  BY <1>4, <2>1 DEF Set, Steady
<1>5. CASE GeoAdd(c)
    <2>1. geo'[q] = geo[q]
        BY <1>1, <1>5 DEF GeoAdd, TypeOK
    <2>. QED  BY <1>5, <2>1 DEF GeoAdd, Steady
<1>6. CASE SAdd(c) \/ SAddFails(c)
    <2>1. \E w \in call[c].words, added \in BOOLEAN, expires \in BOOLEAN :
            /\ index' = [index EXCEPT ![w] = IF added THEN @ \cup {p} ELSE @]
            /\ indexTTL' = [indexTTL EXCEPT ![w] = IF expires THEN PeerTTL ELSE @]
        <3>1. CASE SAdd(c)
            <4>1. PICK w \in call[c].words :
                    /\ index' = [index EXCEPT ![w] = @ \cup {p}]
                    /\ indexTTL' = [indexTTL EXCEPT ![w] = PeerTTL]
                BY <3>1 DEF SAdd
            <4> WITNESS w \in call[c].words, TRUE \in BOOLEAN, TRUE \in BOOLEAN
            <4>. QED  BY <4>1
        <3>2. CASE SAddFails(c)
            <4>1. PICK w \in call[c].words, added \in BOOLEAN, expires \in BOOLEAN :
                    /\ index' = [index EXCEPT ![w] = IF added THEN @ \cup {p} ELSE @]
                    /\ indexTTL' = [indexTTL EXCEPT ![w] = IF expires /\ index[w] # {} THEN PeerTTL ELSE @]
                BY <3>2 DEF SAddFails
            <4> DEFINE set == expires /\ index[w] # {}
            <4> WITNESS w \in call[c].words, added \in BOOLEAN, set \in BOOLEAN
            <4>. QED  BY <4>1
        <3>. QED  BY <1>6, <3>1, <3>2
    <2>2. PICK w \in call[c].words, added \in BOOLEAN, expires \in BOOLEAN :
            /\ index' = [index EXCEPT ![w] = IF added THEN @ \cup {p} ELSE @]
            /\ indexTTL' = [indexTTL EXCEPT ![w] = IF expires THEN PeerTTL ELSE @]
        BY <2>1
    <2> HIDE DEF p
    <2>3. \A v \in Words : q \in index'[v] <=> q \in index[v]
        BY <1>1, <2>2 DEF TypeOK
    <2>4. \A v \in Words : indexTTL'[v] = indexTTL[v] \/ indexTTL'[v] = PeerTTL
        BY <2>2 DEF TypeOK
    <2>5. \A v \in Words : q \in index[v] /\ indexTTL[v] >= named[q] => indexTTL'[v] >= named[q]
        BY <1>1, <2>4
    <2>. QED  BY <1>6, <2>3, <2>5 DEF SAdd, SAddFails, Steady
<1>7. ReadOld(c) \/ ReadOldFails(c) \/ SRemFails(c) \/ Upsert(c) \/ Fail(c) =>
        UNCHANGED <<meta, index, indexTTL, geo, named>>
    BY DEF ReadOld, ReadOldFails, SRemFails, Upsert, Fail
<1>. QED  BY <1>2, <1>3, <1>4, <1>5, <1>6, <1>7 DEF Step

LEMMA StepElsewhere ==
    ASSUME TypeOK, NEW c \in Calls, Step(c) \/ Fail(c), NEW q \in Peers, q # call[c].p, PeerInv(q)
    PROVE  PeerInv(q)'
<1>1. Steady(q)
    BY StepSteady
<1>2. call[c] # None /\ ~Busy(c, q)
    BY StepSplit DEF Busy
<1>3. ~Busy(c, q)' /\ \A d \in Calls : d # c /\ (Busy(d, q) \/ Busy(d, q)') => call'[d] = call[d]
    <2>1. CASE ~Set(c)
        BY <2>1, <1>2, StepCall DEF Busy, Same
    <2>2. CASE Set(c)
        <3>1. call'[c] # None => call'[c].p = call[c].p
            BY <2>2, SetCall DEF Same
        <3>2. \A d \in Calls : d # c =>
                /\ call'[d] = None <=> call[d] = None
                /\ call[d] # None => call'[d].p = call[d].p
                /\ ~Busy(d, call[c].p) => call'[d] = call[d]
            BY <2>2, SetCall
        <3>. QED  BY <3>1, <3>2 DEF Busy
    <2>. QED  BY <2>1, <2>2
<1>4. \A d \in Calls : (Busy(d, q)' <=> Busy(d, q)) /\ (Busy(d, q) => call'[d] = call[d])
    <2> SUFFICES ASSUME NEW d \in Calls
                 PROVE  (Busy(d, q)' <=> Busy(d, q)) /\ (Busy(d, q) => call'[d] = call[d])
        OBVIOUS
    <2>1. CASE d = c
        BY <1>2, <1>3, <2>1
    <2>2. CASE d # c
        BY <1>3, <2>2 DEF Busy
    <2>. QED  BY <2>1, <2>2
<1>. QED  BY <1>1, <1>4, Elsewhere

\* What was disturbed stays so, and a command that fails disturbs its peer.
LEMMA StepDisturbs ==
    ASSUME TypeOK, NEW c \in Calls, Step(c) \/ Fail(c)
    PROVE  /\ \A q \in Peers : disturbed[q] => disturbed'[q]
           /\ SRemFails(c) \/ ReadOldFails(c) \/ SAddFails(c) \/ Fail(c) => disturbed'[call[c].p]
<1>1. call[c].p \in Peers
    BY StepSplit DEF TypeOK, CallRecord
<1>2. SRemFails(c) \/ ReadOldFails(c) \/ SAddFails(c) \/ Fail(c) =>
        disturbed' = [disturbed EXCEPT ![call[c].p] = TRUE]
    BY DEF SRemFails, ReadOldFails, SAddFails, Fail
<1>3. ~(SRemFails(c) \/ ReadOldFails(c) \/ SAddFails(c) \/ Fail(c)) => disturbed' = disturbed
    BY DEF Step, ReadOld, SRem, Set, GeoAdd, SAdd, Upsert
<1>. QED  BY <1>1, <1>2, <1>3 DEF TypeOK

LEMMA StepPeers ==
    ASSUME TypeOK, Inv, NEW c \in Calls, Step(c) \/ Fail(c)
    PROVE  \A q \in Peers : ~disturbed'[q] => PeerInv(q)'
<1> SUFFICES ASSUME NEW q \in Peers, ~disturbed'[q]
             PROVE  PeerInv(q)'
    OBVIOUS
<1>1. ~disturbed[q] /\ PeerInv(q) /\ Course
    BY StepDisturbs DEF Inv
<1>2. CASE q # call[c].p
    BY <1>1, <1>2, StepElsewhere
<1>3. CASE q = call[c].p
    <2>1. ReadOld(c) \/ SRem(c) \/ Set(c) \/ GeoAdd(c) \/ SAdd(c) \/ Upsert(c)
        BY <1>3, StepDisturbs DEF Step
    <2>. QED  BY <1>1, <1>3, <2>1, ReadOldHome, SRemHome, SetHome, GeoAddHome, SAddHome, UpsertHome
<1>. QED  BY <1>2, <1>3

LEMMA BeginPeers ==
    ASSUME TypeOK, Inv, NEW c \in Calls, NEW p \in Peers, NEW r \in Requests, Begin(c, p, r)
    PROVE  \A q \in Peers : ~disturbed'[q] => PeerInv(q)'
<1> SUFFICES ASSUME NEW q \in Peers, ~disturbed'[q]
             PROVE  PeerInv(q)'
    OBVIOUS
<1>1. Begins(c, p, r.op)
    BY DEF Begin, Get, SendsToken, KeepToken, KeepTokenFails
<1>2. ~disturbed[q]
    BY <1>1 DEF Begins, TypeOK
<1>3. PeerInv(q) /\ Course
    BY <1>2 DEF Inv
<1>4. CASE q = p
    BY <1>3, <1>4, BeginHome
<1>5. CASE q # p
    <2>1. Steady(q)
        BY <1>1 DEF Begins, Steady
    <2>2. /\ call[c] = None /\ \A d \in Calls : d # c => call'[d] = call[d]
          /\ call'[c] # None => call'[c].p = p
        BY Begun
    <2>3. \A d \in Calls : (Busy(d, q)' <=> Busy(d, q)) /\ (Busy(d, q) => call'[d] = call[d])
        BY <1>5, <2>2 DEF Busy
    <2>. QED  BY <1>3, <2>1, <2>3, Elsewhere
<1>. QED  BY <1>4, <1>5

\* Every operation keeps to its commands.
CourseOf(k) ==
    /\ k.pc = "old" => k.op = "register"
    /\ k.pc \in {"srem", "sadd"} => k.op \in {"register", "name"}
    /\ k.pc \in {"geo", "sql"} => k.op \in {"register", "latlng"}

LEMMA BeginCourse ==
    ASSUME TypeOK, Course, NEW c \in Calls, NEW p \in Peers, NEW q \in Requests, Begin(c, p, q)
    PROVE  Course'
<1>1. /\ \A d \in Calls : d # c => call'[d] = call[d]
      /\ call'[c] # None =>
            /\ call'[c].op = q.op
            /\ q.op = "register" => call'[c].pc = "old"
            /\ q.op # "register" =>
                /\ call'[c].pc = IF call'[c].words # {} THEN "srem" ELSE "set"
                /\ call'[c].words = IF q.op = "name" /\ meta[p] # None THEN meta[p].name ELSE {}
    BY Begun
<1>2. call'[c] # None => CourseOf(call'[c])
    BY <1>1 DEF CourseOf
<1>. QED  BY <1>1, <1>2 DEF Course, CourseOf, Renames

LEMMA StepCourse ==
    ASSUME TypeOK, Course, NEW c \in Calls, Step(c) \/ Fail(c)
    PROVE  Course'
<1> DEFINE k == call[c]
<1>1. k # None /\ CourseOf(k)
    BY StepSplit DEF Course, CourseOf, Renames
<1>2. \A d \in Calls : d # c /\ call'[d] # None =>
        call[d] # None /\ call'[d].op = call[d].op /\ call'[d].pc = call[d].pc
    <2>1. CASE ~Set(c)
        BY <2>1, StepCall
    <2>2. CASE Set(c)
        BY <2>2, SetCall
    <2>. QED  BY <2>1, <2>2
<1>3. call'[c] # None => CourseOf(call'[c])
    <2>1. CASE Set(c)
        <3>1. call'[c] # None => Same(k, call'[c]) /\ call'[c].pc = Following(k, "set")
            BY <2>1, SetCall
        <3>2. /\ Following(k, "set") \notin {"old", "srem"}
              /\ Following(k, "set") = "sadd" => k.op \in {"register", "name"}
              /\ Following(k, "set") \in {"geo", "sql"} => k.op \in {"register", "latlng"}
            BY Follows
        <3>. QED  BY <3>1, <3>2 DEF CourseOf, Same
    <2>2. CASE ReadOld(c)
        <3> DEFINE words == IF meta[k.p] = None THEN {} ELSE meta[k.p].name
        <3>1. k.pc = "old" /\ k.op = "register" /\ k.p \in Peers
            BY <1>1, <2>2 DEF ReadOld, At, CourseOf, TypeOK, CallRecord
        <3>2. words \in SUBSET Words
            BY <3>1, RegistryNames DEF TypeOK, MetaRecord
        <3>3. Continues(c, [k EXCEPT !.words = words], IF words # {} THEN "srem" ELSE "set")
            BY <2>2 DEF ReadOld
        <3>4. (IF words # {} THEN "srem" ELSE "set") \in Commands \cup {"end"}
              /\ (IF words # {} THEN "srem" ELSE "set") \in {"srem", "set"}
            BY DEF Commands
        <3> HIDE DEF words
        <3>5. Same(k, call'[c]) /\ call'[c].pc \in {"srem", "set"}
            BY <1>1, <3>2, <3>3, <3>4, OnwardWithout
        <3>. QED  BY <3>1, <3>5 DEF CourseOf, Same
    <2>3. CASE ReadOldFails(c)
        <3>1. Continues(c, k, "set") /\ "set" \in Commands \cup {"end"}
            BY <2>3 DEF ReadOldFails, Commands
        <3>2. call'[c].pc = "set"
            BY <1>1, <3>1, Onward
        <3>. QED  BY <3>2 DEF CourseOf
    <2>4. CASE GeoAdd(c)
        <3>1. Continues(c, k, Following(k, "geo")) /\ Following(k, "geo") \in Commands \cup {"end"}
            BY <2>4, FollowingTyped DEF GeoAdd, Commands
        <3>2. call'[c] # None => Same(k, call'[c]) /\ call'[c].pc = Following(k, "geo")
            BY <1>1, <3>1, Onward
        <3>3. /\ Following(k, "geo") \notin {"old", "srem", "geo"}
              /\ Following(k, "geo") = "sadd" => k.op \in {"register", "name"}
              /\ Following(k, "geo") = "sql" => k.op \in {"register", "latlng"}
            BY Follows
        <3>. QED  BY <3>2, <3>3 DEF CourseOf, Same
    <2>5. CASE Upsert(c)
        BY <1>1, <2>5, Onward DEF Upsert
    <2>6. CASE SRem(c) \/ SRemFails(c) \/ SAdd(c) \/ SAddFails(c)
        <3>1. k.pc \in {"srem", "sadd"} /\ \E w : NextWord(c, w)
            BY <2>6 DEF SRem, SRemFails, SAdd, SAddFails, At
        <3>2. PICK w : NextWord(c, w)
            BY <3>1
        <3>3. /\ Following(k, k.pc) \notin {"old", "srem", "geo"}
              /\ Following(k, k.pc) = "sadd" => k.op \in {"register", "name"}
              /\ Following(k, k.pc) = "sql" => k.op \in {"register", "latlng"}
            BY <3>1, Follows
        <3>4. call'[c] # None =>
                Same(k, call'[c]) /\ (call'[c].pc = k.pc \/ call'[c].pc = Following(k, k.pc))
            BY <1>1, <3>2, Worded
        <3>. QED  BY <1>1, <3>3, <3>4 DEF CourseOf, Same
    <2>7. CASE Fail(c)
        BY <2>7 DEF Fail, TypeOK
    <2>. QED  BY <2>1, <2>2, <2>3, <2>4, <2>5, <2>6, <2>7 DEF Step
<1>. QED  BY <1>2, <1>3 DEF Course, CourseOf, Renames

\* What expires goes, and a set without an expiry is that of a failed call.
LEMMA StepExpiry ==
    ASSUME TypeOK, Expiry, NEW c \in Calls, Step(c) \/ Fail(c)
    PROVE  Expiry'
<1> DEFINE p == call[c].p
<1>1. p \in Peers /\ call[c].words \subseteq Words /\ PeerTTL \in Nat /\ PeerTTL # 0
    BY StepSplit, RegistryBounds DEF TypeOK, CallRecord
<1>2. \A q \in Peers : disturbed[q] => disturbed'[q]
    BY StepDisturbs
<1>3. \A q \in Peers : ttl'[q] = 0 => meta'[q] = None
    <2>1. CASE Set(c)
        BY <1>1, <2>1 DEF Set, Expiry, TypeOK
    <2>2. CASE ~Set(c)
        <3>1. meta' = meta /\ ttl' = ttl
            BY <2>2 DEF Step, Fail, ReadOld, ReadOldFails, SRem, SRemFails, GeoAdd, SAdd, SAddFails, Upsert
        <3>. QED  BY <3>1 DEF Expiry
    <2>. QED  BY <2>1, <2>2
<1>4. \A w \in Words : index'[w] # {} /\ indexTTL'[w] = 0 => \A q \in index'[w] : disturbed'[q]
    <2>1. \A w \in Words : index[w] \subseteq Peers
        BY DEF TypeOK
    <2>2. CASE UNCHANGED <<index, indexTTL>>
        BY <1>2, <2>1, <2>2 DEF Expiry
    <2>3. CASE SRem(c)
        <3>1. PICK w \in call[c].words :
                /\ index' = [index EXCEPT ![w] = @ \ {p}]
                /\ indexTTL' = [indexTTL EXCEPT ![w] = IF index[w] = {p} THEN 0 ELSE @]
            BY <2>3 DEF SRem
        <3> HIDE DEF p
        <3>2. \A v \in Words : index'[v] # {} /\ indexTTL'[v] = 0 =>
                index'[v] \subseteq index[v] /\ indexTTL[v] = 0
            BY <3>1 DEF TypeOK
        <3>. QED  BY <1>2, <2>1, <3>2 DEF Expiry
    <2>4. CASE SAdd(c)
        <3>1. PICK w \in call[c].words :
                /\ index' = [index EXCEPT ![w] = @ \cup {p}]
                /\ indexTTL' = [indexTTL EXCEPT ![w] = PeerTTL]
            BY <2>4 DEF SAdd
        <3> HIDE DEF p
        <3>2. \A v \in Words : indexTTL'[v] = 0 => index'[v] = index[v] /\ indexTTL[v] = 0
            BY <1>1, <3>1 DEF TypeOK
        <3>. QED  BY <1>2, <2>1, <3>2 DEF Expiry
    <2>5. CASE SAddFails(c)
        <3>1. PICK w \in call[c].words, added \in BOOLEAN, expires \in BOOLEAN :
                /\ index' = [index EXCEPT ![w] = IF added THEN @ \cup {p} ELSE @]
                /\ indexTTL' = [indexTTL EXCEPT ![w] = IF expires /\ index[w] # {} THEN PeerTTL ELSE @]
            BY <2>5 DEF SAddFails
        <3>2. disturbed'[p]
            BY <2>5, StepDisturbs
        <3> HIDE DEF p
        <3>3. \A v \in Words : indexTTL'[v] = 0 => index'[v] \subseteq index[v] \cup {p} /\ indexTTL[v] = 0
            BY <1>1, <3>1 DEF TypeOK
        <3>. QED  BY <1>2, <2>1, <3>2, <3>3 DEF Expiry
    <2>6. ReadOld(c) \/ ReadOldFails(c) \/ SRemFails(c) \/ Set(c) \/ GeoAdd(c) \/ Upsert(c) \/ Fail(c) =>
            UNCHANGED <<index, indexTTL>>
        BY DEF ReadOld, ReadOldFails, SRemFails, Set, GeoAdd, Upsert, Fail
    <2>. QED  BY <2>2, <2>3, <2>4, <2>5, <2>6 DEF Step
<1>. QED  BY <1>3, <1>4 DEF Expiry

LEMMA TickInv ==
    ASSUME TypeOK, Inv, Tick
    PROVE  Inv'
<1> DEFINE Less(n) == IF n > 0 THEN n - 1 ELSE 0
<1>1. /\ \A c \in Calls : call[c] = None
      /\ ttl' = [p \in Peers |-> Less(ttl[p])]
      /\ meta' = [p \in Peers |-> IF ttl[p] <= 1 THEN None ELSE meta[p]]
      /\ indexTTL' = [w \in Words |-> Less(indexTTL[w])]
      /\ index' = [w \in Words |-> IF indexTTL[w] = 1 THEN {} ELSE index[w]]
      /\ named' = [p \in Peers |-> Less(named[p])]
      /\ disturbed' = [p \in Peers |-> disturbed[p] \/ ttl[p] = 1]
      /\ geo' = geo /\ call' = call
    BY DEF Tick
<1>2. /\ \A p \in Peers : ttl[p] \in Nat /\ named[p] \in Nat
      /\ \A w \in Words : indexTTL[w] \in Nat /\ index[w] \subseteq Peers
    BY RegistryBounds DEF TypeOK
<1>3. \A n \in Nat : /\ Less(n) \in Nat /\ (Less(n) = 0 => n \in {0, 1})
                     /\ Less(n) > 0 => n > 1 /\ Less(n) = n - 1
    OBVIOUS
<1> HIDE DEF Less
<1>4. \A d \in Calls, p \in Peers : ~Busy(d, p) /\ ~Busy(d, p)'
    BY <1>1 DEF Busy
<1>5. Course'
    BY <1>1 DEF Course
<1>6. Expiry'
    <2>1. \A p \in Peers : ttl'[p] = 0 => meta'[p] = None
        BY <1>1, <1>2, <1>3
    <2>2. \A w \in Words : index'[w] # {} /\ indexTTL'[w] = 0 =>
            index'[w] = index[w] /\ indexTTL[w] = 0
        BY <1>1, <1>2, <1>3
    <2>3. \A w \in Words : index'[w] # {} /\ indexTTL'[w] = 0 => \A p \in index'[w] : disturbed'[p]
        BY <1>1, <1>2, <2>2 DEF Inv, Expiry
    <2>. QED  BY <2>1, <2>3 DEF Expiry
<1>7. \A p \in Peers : ~disturbed'[p] => PeerInv(p)'
    <2> SUFFICES ASSUME NEW p \in Peers, ~disturbed'[p]
                 PROVE  PeerInv(p)'
        OBVIOUS
    <2>1. ~disturbed[p] /\ ttl[p] # 1
        BY <1>1
    <2>2. Indexed(p) /\ Located(p)
        BY <1>4, <2>1 DEF Inv, PeerInv, Renaming, Locating
    <2>3. meta'[p] = meta[p]
        <3>1. ttl[p] = 0 => meta[p] = None
            BY DEF Inv, Expiry
        <3>. QED  BY <1>1, <1>2, <2>1, <3>1
    <2>4. Base(meta[p])' = Base(meta[p])
        BY <2>3 DEF Base
    <2>5. Located(p)'
        BY <1>1, <2>2, <2>4 DEF Located
    <2>6. Under(p)' \subseteq Under(p)
        BY <1>1 DEF Under
    <2>7. ASSUME named'[p] > 0, NEW w \in Base(meta[p]).name
          PROVE  p \in index'[w] /\ indexTTL'[w] >= named'[p]
        <3>1. named[p] > 1 /\ named'[p] = named[p] - 1
            BY <1>1, <1>2, <1>3, <2>7
        <3>2. w \in Words
            BY NamesAreWords
        <3>3. p \in index[w] /\ indexTTL[w] >= named[p]
            BY <1>2, <2>2, <3>1 DEF Indexed
        <3>4. indexTTL[w] # 1 /\ indexTTL[w] # 0
            BY <1>2, <3>1, <3>2, <3>3
        <3>5. index'[w] = index[w]
            BY <1>1, <3>2, <3>4
        <3>6. indexTTL'[w] = indexTTL[w] - 1
            <4>1. indexTTL'[w] = Less(indexTTL[w])
                BY <1>1, <3>2
            <4>2. Less(indexTTL[w]) > 0
                BY <1>2, <1>3, <3>2, <3>4
            <4>. QED  BY <1>2, <1>3, <3>2, <4>1, <4>2
        <3>. QED  BY <1>2, <3>1, <3>2, <3>3, <3>5, <3>6
    <2>8. Indexed(p)'
        BY <2>2, <2>4, <2>6, <2>7 DEF Indexed
    <2>. QED  BY <1>4, <2>5, <2>8 DEF PeerInv, Alone
<1>. QED  BY <1>5, <1>6, <1>7 DEF Inv

LEMMA InitInv == Init => Inv
<1> SUFFICES ASSUME Init PROVE Inv
    OBVIOUS
<1>1. \A d \in Calls, p \in Peers : ~Busy(d, p)
    BY DEF Init, Busy
<1>2. Course
    BY DEF Init, Course
<1>3. Expiry
    BY DEF Init, Expiry
<1>4. ASSUME NEW p \in Peers PROVE PeerInv(p)
    <2>1. Base(meta[p]).name = {} /\ Base(meta[p]).loc = None /\ Under(p) = {}
        BY DEF Init, Base, Blank, Under
    <2>2. Indexed(p) /\ Located(p)
        BY <2>1 DEF Indexed, Located
    <2>. QED  BY <1>1, <2>2 DEF PeerInv, Alone
<1>. QED  BY <1>2, <1>3, <1>4 DEF Inv

LEMMA NextInv == TypeOK /\ Inv /\ [Next]_vars => Inv'
<1> SUFFICES ASSUME TypeOK, Inv, [Next]_vars PROVE Inv'
    OBVIOUS
<1>1. ASSUME NEW c \in Calls, NEW p \in Peers, NEW q \in Requests, Begin(c, p, q)
      PROVE  Inv'
    <2>1. Begins(c, p, q.op)
        BY <1>1 DEF Begin, Get, SendsToken, KeepToken, KeepTokenFails
    <2>2. Expiry'
        <3>1. \A r \in Peers : disturbed[r] => disturbed'[r]
            BY <2>1 DEF Begins, TypeOK
        <3>2. \A w \in Words : index[w] \subseteq Peers
            BY DEF TypeOK
        <3>. QED  BY <2>1, <3>1, <3>2 DEF Begins, Inv, Expiry
    <2>3. Course'
        BY <1>1, BeginCourse DEF Inv
    <2>. QED  BY <1>1, <2>2, <2>3, BeginPeers DEF Inv
<1>2. ASSUME NEW c \in Calls, Step(c) \/ Fail(c)
      PROVE  Inv'
    BY <1>2, StepCourse, StepExpiry, StepPeers DEF Inv
<1>3. CASE UNCHANGED vars
    <2>1. Course' /\ Expiry'
        BY <1>3 DEF Inv, Course, Expiry, Renames
    <2>2. ASSUME NEW p \in Peers, ~disturbed'[p] PROVE PeerInv(p)'
        <3>1. PeerInv(p) /\ Steady(p)
            BY <1>3, <2>2 DEF Inv, Steady
        <3>. QED  BY <1>3, <3>1, Elsewhere DEF Busy
    <2>. QED  BY <2>1, <2>2 DEF Inv
<1>. QED  BY <1>1, <1>2, <1>3, TickInv DEF Next

LEMMA InvAgrees == TypeOK /\ Inv => IndexesAgree
<1> SUFFICES ASSUME TypeOK, Inv PROVE IndexesAgree
    OBVIOUS
<1>1. ASSUME NEW p \in Peers, Settled(p), meta[p] # None
      PROVE  /\ {w \in Words : p \in index[w]} \subseteq meta[p].name
             /\ named[p] > 0 => \A w \in meta[p].name : p \in index[w]
             /\ meta[p].loc # None => geo[p] = meta[p].loc
    <2>1. Indexed(p) /\ Located(p)
        BY <1>1 DEF Settled, Inv, PeerInv, Renaming, Locating
    <2>. QED  BY <1>1, <2>1 DEF Indexed, Located, Base, Under
<1>2. \A w \in Words : index[w] # {} /\ indexTTL[w] = 0 => \A p \in index[w] : disturbed[p]
    BY DEF Inv, Expiry
<1>. QED  BY <1>1, <1>2 DEF IndexesAgree

LEMMA InvAlways == Spec => []Inv
BY InitInv, NextInv, TypeCorrect, PTL DEF Spec

\* Unless its calls overlapped, one failed half-way or it expired, a peer is found
\* under no word but those of its name, under all of those for PeerTTL after it was
\* named, and where it said it is, whatever happens to the peers it shares words
\* with; and it is in no set of the index that never expires.
THEOREM IndexesAgreeAlways == Spec => []IndexesAgree
BY InvAgrees, InvAlways, TypeCorrect, PTL

=============================================================================
