------------------------------ MODULE Sessions ------------------------------
(***************************************************************************)
(* Web logins: the sessions of an account, kept in memory under one lock    *)
(* for all accounts and in the account's database (store/session.go), the   *)
(* sessions of the administrator (webauth/admin.go), the single-use tokens  *)
(* for event connections (webmail/view.go), the rate limiter for failed     *)
(* authentication (ratelimit) and the log of login attempts                 *)
(* (store/loginattempt.go).  Init chooses which of them is in use.          *)
(***************************************************************************)
EXTENDS Integers, Sequences, FiniteSets, SequencesExt, FiniteSetsExt, Functions

CONSTANTS
    Procs,              \* requests in progress, each a goroutine
    MaxTokens,          \* tokens made for administrators and events, a bound of the model
    sessionsPerAccount,
    Lifetime,           \* sessionLifetime and adminSessionLifetime
    MaxAdminSessions,   \* the 10 of adminSessionAuth.add
    MaxSseTokens,       \* the 10 of xgenerate
    IPs, Mask,          \* Mask[j][ip]: the ip, and its two networks
    Limits,             \* Limits[j] of the window of the limiter
    Window,             \* length of the window of the limiter
    Accounts,
    loginAttemptsMaxPerAccount,
    ChanSize,           \* of writeLoginAttempt
    KeepTime,           \* the 30 days of LoginAttemptCleanup
    MaxTime, MaxOps, MaxFailures

VARIABLE s

Nobody == "nobody"
None == [loaded |-> FALSE]
Token == 1..MaxTokens

----------------------------------------------------------------------------
(* Sessions of an account.  An operation of a request takes the lock for all *)
(* sessions and then a write transaction; a password change takes them the   *)
(* other way around.  The database has rows with an ID, a token and its end; *)
(* in memory a token has the ID and the end of its row.                      *)

Idle == [op |-> "idle"]
Expired(e) == s.now > e

\* ensureAccountSessions: sessions are read from the database on first use.
\* Of two rows with a token the last is used.
ensureAccountSessions(t) ==
    LET Row(k) == CHOOSE r \in t.db : r.tok = k /\ \A q \in t.db : q.tok = k => q.id <= r.id
        load == [k \in {r.tok : r \in t.db} |-> [id |-> Row(k).id, exp |-> Row(k).exp]]
    IN  IF t.mem.loaded THEN t ELSE [t EXCEPT !.mem = [loaded |-> TRUE, tok |-> load]]

\* A request. A user changes the password with a session, the administrator without.
Start(p, op, k) ==
    /\ s.area = "sessions" /\ s.proc[p] = Idle /\ s.ops < MaxOps
    /\ s' = [s EXCEPT !.proc[p] = [op |-> op, pc |-> "start", tok |-> k, exp |-> s.now + Lifetime], !.ops = @ + 1]

\* The goroutine that a session's use scheduled, after sessionWriteDelay.
StartFlush(p) ==
    /\ s.area = "sessions" /\ s.proc[p] = Idle /\ s.timer
    /\ s' = [s EXCEPT !.proc[p] = [op |-> "flush", pc |-> "start", tok |-> 0, exp |-> 0], !.timer = FALSE]

TakeLock(p) ==
    /\ s.area = "sessions"
    /\ s.proc[p].op \in {"add", "remove", "flush"} /\ s.proc[p].pc = "start"
    /\ s.lock = Nobody
    /\ s' = [ensureAccountSessions(s) EXCEPT !.lock = p, !.proc[p].pc = "locked"]

\* SessionUse extends a session and schedules a write of its new lifetime. A password
\* change begins with it, and remembers the session.
sessionUse(p) ==
    /\ s.area = "sessions" /\ s.proc[p].op \in {"use", "reset"} /\ s.lock = Nobody
    /\ LET t == [ensureAccountSessions(s) EXCEPT !.proc[p] = Idle]
           w == s.proc[p]
           k == w.tok
           ok == k \in DOMAIN t.mem.tok /\ ~Expired(t.mem.tok[k].exp)
       IN  s' = IF ~ok THEN t
                ELSE [t EXCEPT !.mem.tok[k].exp = s.now + Lifetime,
                               !.timer = @ \/ ~s.pend.on,
                               !.pend = [on |-> TRUE, tok |-> @.tok \cup {k}],
                               !.proc[p] = IF w.op = "use" THEN @ ELSE [w EXCEPT !.op = "password", !.exp = s.now + Lifetime]]

\* A request leaves, releasing what it holds.
Leave(t, p) ==
    [t EXCEPT !.proc[p] = Idle,
              !.lock = IF @ = p THEN Nobody ELSE @,
              !.writer = IF @ = p THEN Nobody ELSE @]

\* The sessions removed to make room: the expired ones, and the one that
\* expires first when there are still too many.
Evicted(mem) ==
    LET gone == {k \in DOMAIN mem : Expired(mem[k].exp)}
        rest == DOMAIN mem \ gone
        old == CHOOSE k \in rest : \A j \in rest : mem[k].exp <= mem[j].exp
    IN  IF Cardinality(DOMAIN mem) < sessionsPerAccount THEN {}
        ELSE IF Cardinality(rest) < sessionsPerAccount THEN gone ELSE gone \cup {old}

\* sessionAddToken removes sessions from memory inside the transaction, and
\* adds the new one to memory after it was committed. The token is new, or that of the
\* session the password was changed with.
sessionAddToken(p) ==
    /\ s.area = "sessions" /\ s.proc[p].op = "add" /\ s.proc[p].pc = "locked"
    /\ s.writer = Nobody
    /\ LET w == s.proc[p]
           gone == Evicted(s.mem.tok)
           k == IF w.tok = 0 THEN s.made + 1 ELSE w.tok
           id == s.rows + 1
           keep == Restrict(s.mem.tok, DOMAIN s.mem.tok \ gone)
       IN  \/ s' = Leave([s EXCEPT !.made = IF w.tok = 0 THEN k ELSE @, !.rows = id,
                                   !.mem.tok = (k :> [id |-> id, exp |-> w.exp]) @@ keep,
                                   !.db = {r \in @ : \A g \in gone : r.id # s.mem.tok[g].id}
                                              \cup {[id |-> id, tok |-> k, exp |-> w.exp]},
                                   !.dup = @ \cup {r.tok : r \in {q \in s.db : q.tok = k}},
                                   !.out = (@ \cup gone) \ {k}], p)
           \/ /\ s.fails < MaxFailures
              /\ s' = Leave([s EXCEPT !.mem.tok = keep, !.fails = @ + 1], p)

SessionRemove(p) ==
    /\ s.area = "sessions" /\ s.proc[p].op = "remove" /\ s.proc[p].pc = "locked"
    /\ LET k == s.proc[p].tok
       IN  IF k \notin DOMAIN s.mem.tok THEN s' = Leave(s, p)
           ELSE /\ s.writer = Nobody
                /\ s' = Leave([s EXCEPT !.db = {r \in @ : r.id # s.mem.tok[k].id},
                                        !.mem.tok = Restrict(@, DOMAIN @ \ {k}),
                                        !.pend.tok = @ \ {k}, !.out = @ \cup {k}], p)

\* Sessions that were used are written, all or none: a session that is gone
\* from memory fails the transaction.
sessionsDelayedFlush(p) ==
    /\ s.area = "sessions" /\ s.proc[p].op = "flush" /\ s.proc[p].pc = "locked"
    /\ s.writer = Nobody
    /\ LET all == s.pend.tok \subseteq DOMAIN s.mem.tok
       IN  s' = Leave([s EXCEPT !.pend = [on |-> FALSE, tok |-> {}],
                                !.db = IF all THEN {IF r.tok \in s.pend.tok /\ r.id = s.mem.tok[r.tok].id
                                                    THEN [r EXCEPT !.exp = s.mem.tok[r.tok].exp] ELSE r : r \in @}
                                              ELSE @], p)

\* SetPassword and SessionsClear: the sessions are removed from the database
\* in a transaction, then from memory, then the transaction ends.
SetPassword(p) ==
    /\ s.area = "sessions" /\ s.proc[p].op = "password" /\ s.proc[p].pc = "start"
    /\ s.writer = Nobody
    /\ s' = [s EXCEPT !.writer = p, !.proc[p].pc = "deleted"]

sessionRemoveAll(p) ==
    /\ s.area = "sessions" /\ s.proc[p].op = "password" /\ s.proc[p].pc = "deleted"
    /\ s.lock = Nobody
    /\ s' = [s EXCEPT !.mem = [loaded |-> TRUE, tok |-> <<>>],
                      !.pend.tok = {}, !.proc[p].pc = "commit"]

\* The session of a user who changed the password is then added again.
PasswordCommit(p) ==
    /\ s.area = "sessions" /\ s.proc[p].op = "password" /\ s.proc[p].pc = "commit"
    /\ \/ LET t == Leave([s EXCEPT !.out = @ \cup {r.tok : r \in s.db}, !.db = {}], p)
          IN  s' = IF s.proc[p].tok = 0 THEN t ELSE [t EXCEPT !.proc[p] = [s.proc[p] EXCEPT !.op = "add", !.pc = "start"]]
       \/ s.fails < MaxFailures /\ s' = Leave([s EXCEPT !.fails = @ + 1], p)

\* The process stops and starts: requests and memory are gone, a transaction
\* in progress is undone.
Restart ==
    /\ s.area = "sessions" /\ s.fails < MaxFailures
    /\ s' = [s EXCEPT !.fails = @ + 1, !.proc = [p \in Procs |-> Idle], !.lock = Nobody,
                      !.writer = Nobody, !.mem = None, !.timer = FALSE,
                      !.pend = [on |-> FALSE, tok |-> {}]]

Tick ==
    /\ s.now < MaxTime
    /\ s' = [s EXCEPT !.now = @ + 1]

----------------------------------------------------------------------------
(* Sessions of the administrator, in memory only, and event tokens. *)

\* Expired sessions are removed, then the oldest of too many.
adminAdd ==
    /\ s.area = "tokens" /\ s.made < MaxTokens
    /\ LET rest == {k \in DOMAIN s.admin : ~Expired(s.admin[k])}
           old == CHOOSE k \in rest : \A j \in rest : s.admin[k] <= s.admin[j]
           keep == IF Cardinality(rest) > MaxAdminSessions THEN rest \ {old} ELSE rest
           k == s.made + 1
       IN  s' = [s EXCEPT !.made = k, !.admin = Restrict(@, keep) @@ (k :> s.now + Lifetime)]

adminUse(k) ==
    /\ s.area = "tokens" /\ k \in DOMAIN s.admin /\ ~Expired(s.admin[k])
    /\ s' = [s EXCEPT !.admin[k] = s.now + Lifetime]

adminRemove(k) ==
    /\ s.area = "tokens" /\ k \in DOMAIN s.admin
    /\ s' = [s EXCEPT !.admin = Restrict(@, DOMAIN @ \ {k})]

\* The tokens of an account from old to new, and all tokens; a new token makes
\* the oldest of too many invalid.
xgenerate(a) ==
    /\ s.area = "tokens" /\ s.made < MaxTokens
    /\ LET l == s.sse[a]
           n == Len(l)
           keep == IF n >= MaxSseTokens THEN SubSeq(l, n - (MaxSseTokens - 2), n) ELSE l
           k == s.made + 1
       IN  s' = [s EXCEPT !.made = k, !.sse[a] = Append(keep, k),
                          !.tokens = (@ \ {<<x, a>> : x \in ToSet(l) \ ToSet(keep)}) \cup {<<k, a>>},
                          !.born = @ @@ (k :> s.now)]

\* check consumes a token, valid or not.
check(k) ==
    /\ s.area = "tokens"
    /\ \E a \in Accounts :
        /\ <<k, a>> \in s.tokens
        /\ s' = [s EXCEPT !.tokens = @ \ {<<k, a>>},
                          !.sse[a] = SelectSeq(@, LAMBDA x : x # k),
                          !.internal = @ \/ k \notin ToSet(s.sse[a]),
                          !.used = IF s.now > s.born[k] + 1 THEN @ ELSE @ \cup {k},
                          !.twice = @ \/ k \in s.used]

----------------------------------------------------------------------------
(* The limiter for failed authentication, and the log of attempts. *)

\* checkAdd: a new window drops all counts; an attempt above the limit of the
\* address or of one of its networks is not counted.
WindowOf(t) == t \div Window
Fresh(l, t) == IF WindowOf(t) > l.time THEN [time |-> WindowOf(t), counts |-> <<>>] ELSE l
Count(l, j, ip) == LET k == <<j, Mask[j][ip]>> IN IF k \in DOMAIN l.counts THEN l.counts[k] ELSE 0

Added(l, ip, n) ==
    [l EXCEPT !.counts = [k \in {<<j, Mask[j][ip]>> : j \in 1..3}
                              |-> Count(l, k[1], ip) + n[k[1]]] @@ @]

checkAdd(l, ip, t) ==
    LET f == Fresh(l, t)
    IN  IF \E j \in 1..3 : Count(f, j, ip) + 1 > Limits[j] THEN [ok |-> FALSE, l |-> f]
        ELSE [ok |-> TRUE, l |-> Added(f, ip, <<1, 1, 1>>)]

\* As Reset, but the networks lose one attempt, whatever the address had.
ResetOne(l, ip, t) ==
    IF WindowOf(t) # l.time THEN l
    ELSE Added(l, ip, <<-Count(l, 1, ip), -1, -1>>)

\* Reset, after a success: the attempts of the address in the window the
\* attempt started in are subtracted from its networks as well.
Reset(l, ip, t) ==
    IF WindowOf(t) # l.time THEN l
    ELSE Added(l, ip, <<-Count(l, 1, ip), -Count(l, 1, ip), -Count(l, 1, ip)>>)

\* Login and Check: an attempt is counted when it starts; a limited one is not
\* logged.
Attempt(p, ip, a) ==
    /\ s.area = "logins" /\ s.proc[p] = Idle /\ s.ops < MaxOps
    /\ LET r == checkAdd(s.lim, ip, s.now)
       IN  s' = [s EXCEPT !.ops = @ + 1, !.lim = r.l,
                          !.proc[p] = IF r.ok THEN [op |-> "login", ip |-> ip, acc |-> a, start |-> s.now]
                                              ELSE @]

LoginAttemptAdd(t, a) == [t EXCEPT !.chan = Append(@, a)]

\* The answer, possibly much later; the attempt waits for room in the channel
\* of the writer.
Answer(p, res) ==
    /\ s.area = "logins" /\ s.proc[p] # Idle
    /\ Len(s.chan) < ChanSize
    /\ LET r == s.proc[p]
       IN  s' = LoginAttemptAdd([s EXCEPT !.proc[p] = Idle,
                                          !.lim = IF res = "ok" THEN Reset(@, r.ip, r.start) ELSE @],
                                [acc |-> r.acc, ip |-> r.ip, res |-> res])

\* The attempts with the same fields share a record.
calculateKey(a) == [acc |-> a.acc, ip |-> a.ip, res |-> a.res]

Failed(rec, a) == {x \in rec : x.key.acc = a /\ x.key.res # "ok"}

\* One record per kind of attempt, counting; at most a number of failures per
\* account, the oldest are removed.
loginAttemptWriteTx(t, a) ==
    LET key == calculateKey(a)
        old == {x \in t.rec : x.key = key}
        new == [key |-> key, count |-> 1 + SumSet({x.count : x \in old}), last |-> t.now]
        rec == (t.rec \ old) \cup {new}
        n == t.failed[key.acc] + (IF old = {} /\ key.res # "ok" THEN 1 ELSE 0)
        over == IF n > loginAttemptsMaxPerAccount THEN n - loginAttemptsMaxPerAccount ELSE 0
        all == SetToSortSeq(Failed(rec, key.acc), LAMBDA x, y : x.last < y.last)
        drop == ToSet(SubSeq(all, 1, IF over < Len(all) THEN over ELSE Len(all)))
    IN  [t EXCEPT !.rec = rec \ drop, !.failed[key.acc] = n - Cardinality(drop)]

loginAttemptWrite(t, l) == FoldLeft(loginAttemptWriteTx, t, l)

\* The writer takes all attempts that wait.
startLoginAttemptWriter ==
    /\ s.area = "logins" /\ s.chan # <<>>
    /\ s' = loginAttemptWrite([s EXCEPT !.chan = <<>>], s.chan)

LoginAttemptCleanup ==
    /\ s.area = "logins"
    /\ LET old == {x \in s.rec : x.last < s.now - KeepTime}
       IN  /\ old # {}
           /\ s' = [s EXCEPT !.rec = @ \ old,
                             !.failed = [a \in Accounts |-> @[a] - Cardinality(Failed(old, a))]]

\* The records of an account are removed with the account, the count is not.
loginAttemptRemoveAccount(a) ==
    /\ s.area = "logins" /\ s.fails < MaxFailures
    /\ s' = [s EXCEPT !.fails = @ + 1, !.rec = {x \in @ : x.key.acc # a}, !.removed = @ \cup {a}]

----------------------------------------------------------------------------

Init ==
    \E area \in {"sessions", "tokens", "logins"} :
        s = [area |-> area, now |-> 0, ops |-> 0, fails |-> 0, made |-> 0,
             proc |-> [p \in Procs |-> Idle], lock |-> Nobody, writer |-> Nobody,
             rows |-> 0, mem |-> None, db |-> {}, dup |-> {}, pend |-> [on |-> FALSE, tok |-> {}], timer |-> FALSE,
             out |-> {}, used |-> {}, twice |-> FALSE,
             admin |-> <<>>, sse |-> [a \in Accounts |-> <<>>], tokens |-> {}, born |-> <<>>,
             internal |-> FALSE,
             lim |-> [time |-> 0, counts |-> <<>>], chan |-> <<>>, rec |-> {},
             failed |-> [a \in Accounts |-> 0], removed |-> {}]

Request(p) ==
    \/ TakeLock(p) \/ sessionUse(p) \/ sessionAddToken(p) \/ SessionRemove(p)
    \/ sessionsDelayedFlush(p) \/ SetPassword(p) \/ sessionRemoveAll(p) \/ PasswordCommit(p)

Next ==
    \/ \E p \in Procs :
        \/ \E op \in {"add", "password"} : Start(p, op, 0)
        \/ \E op \in {"use", "remove", "reset"}, k \in 1..s.made : Start(p, op, k)
        \/ StartFlush(p) \/ Request(p)
        \/ \E ip \in IPs, a \in Accounts : Attempt(p, ip, a)
        \/ \E res \in {"ok", "bad"} : Answer(p, res)
    \/ Restart \/ Tick
    \/ adminAdd
    \/ \E k \in Token : adminUse(k) \/ adminRemove(k) \/ check(k)
    \/ \E a \in Accounts : xgenerate(a) \/ loginAttemptRemoveAccount(a)
    \/ startLoginAttemptWriter \/ LoginAttemptCleanup

Spec == Init /\ [][Next]_s

----------------------------------------------------------------------------
(* Properties *)

\* A session that was ended (logged out, replaced, or by a new password) is
\* not valid again, also after a restart, but for the session a user changes the password
\* with: it is added again, also when it was logged out meanwhile, and two such changes at
\* the same time store it twice, so that logging out leaves a row for after a restart.
\* Every session in memory is in the database. Requests do not wait for each other, but
\* for one that has the lock for all sessions and a password change that has the
\* transaction. A token is consumed once; there is at most one session of the
\* administrator more than the limit. The limiter's counts for networks
\* are the sums of their addresses, and never negative; the number of failed
\* attempts stored for an account is the number kept for it, and bounded, as long as the
\* account was not removed (its count stays, for a next account with the name).
SessionsSound ==
    /\ s.area = "sessions" =>
        /\ s.mem.loaded => s.out \cap DOMAIN s.mem.tok \subseteq s.dup
        /\ s.out \cap {r.tok : r \in s.db} \subseteq s.dup
        /\ s.mem.loaded =>
            /\ \A k \in DOMAIN s.mem.tok : \E r \in s.db : r.id = s.mem.tok[k].id /\ r.tok = k
            /\ Cardinality(DOMAIN s.mem.tok) <= sessionsPerAccount
        /\ \/ \A p \in Procs : s.proc[p] = Idle
           \/ \E p \in Procs : ENABLED Request(p)
           \/ s.lock # Nobody /\ s.writer # Nobody /\ s.lock # s.writer
    /\ s.area = "tokens" =>
        /\ ~s.internal /\ ~s.twice
        /\ Cardinality(DOMAIN s.admin) <= MaxAdminSessions + 1
        /\ \A a \in Accounts : Len(s.sse[a]) <= MaxSseTokens
        /\ s.tokens = UNION {{<<k, a>> : k \in ToSet(s.sse[a])} : a \in Accounts}
    /\ s.area = "logins" =>
        /\ \A k \in DOMAIN s.lim.counts :
            /\ s.lim.counts[k] >= 0
            /\ s.lim.counts[k] = MapThenSumSet(
                    LAMBDA ip : Count(s.lim, 1, ip), {ip \in IPs : Mask[k[1]][ip] = k[2]})
        /\ \A a \in Accounts \ s.removed :
            /\ s.failed[a] = Cardinality(Failed(s.rec, a))
            /\ s.failed[a] <= loginAttemptsMaxPerAccount
=============================================================================
