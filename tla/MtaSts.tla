------------------------------- MODULE MtaSts -------------------------------
(***************************************************************************)
(* The cache of MTA-STS policies (mtastsdb/db.go, mtastsdb/refresh.go,     *)
(* mtasts/mtasts.go) for one recipient domain: deliveries get the policy,  *)
(* several at a time, while a goroutine refreshes it.                      *)
(*                                                                         *)
(* The domain publishes policies by version: first the policy, then the    *)
(* DNS record whose ID announces it. Version 0 is no policy. A lookup of   *)
(* the record and the request for the policy are steps of their own, and   *)
(* can fail. The time unit is that of the shortest of the periods.         *)
(***************************************************************************)
EXTENDS Integers, FiniteSets

CONSTANTS
  Gets,         \* Deliveries that get the policy.
  Policies,     \* The policy of a version: mode and maximum age.
  Hold,         \* How long a failure to fetch the policy is remembered (5 minutes).
  RefreshAge,   \* A policy is refreshed when its last update is older (12 hours).
  UnusedAge,    \* A policy is removed when its last use is older (180 days).
  MaxTime,      \* Bound: time.
  MaxFailures   \* Bound: failures.

VARIABLE m

Versions == DOMAIN Policies

Absent == [validEnd |-> -1, lastUpdate |-> 0, lastUse |-> 0, backoff |-> FALSE, id |-> 0, ver |-> 0, text |-> 0]
NoRun == [step |-> "idle", pr |-> Absent, id |-> 0, ver |-> 0, cached |-> FALSE, policy |-> 0, fresh |-> FALSE, err |-> FALSE]

\* policy: version served; id: version the DNS record announces, 0 without record; gone:
\* the record was removed. rec: the record in the database. proc: the deliveries and the
\* refresh.
Init ==
  \E v \in {0, 1} :
    m = [now |-> 0, policy |-> v, id |-> v, gone |-> FALSE, rec |-> Absent, proc |-> [g \in Gets \cup {"refresh"} |-> NoRun],
         failures |-> 0]

\* The mode and maximum age in the database: those of mode "none" for a failed fetch.
Mode(r) == IF r.ver = 0 THEN "none" ELSE Policies[r.ver].mode
MaxAge(r) == IF r.ver = 0 THEN Hold ELSE Policies[r.ver].maxAge

Exists == m.rec.validEnd >= 0
MayFail == m.failures < MaxFailures
Fail(e) == [e EXCEPT !.failures = @ + 1]

-----------------------------------------------------------------------------
(* The domain, and time.                                                   *)

PublishPolicy ==
  /\ m.policy + 1 \in Versions /\ m.policy = m.id
  /\ m' = [m EXCEPT !.policy = @ + 1]

PublishRecord ==
  /\ m.policy # m.id /\ ~m.gone
  /\ m' = [m EXCEPT !.id = m.policy]

RemoveRecord ==
  /\ m.id # 0 /\ m.policy + 1 \notin Versions
  /\ m' = [m EXCEPT !.id = 0, !.gone = TRUE]

Tick ==
  /\ m.now < MaxTime
  /\ m' = [m EXCEPT !.now = @ + 1]

\* LookupRecord, for a process that then has the answer: the ID of the record, "norecord",
\* "invalid" for several records and a record that cannot be parsed, or "error" for a
\* temporary DNS error.
LookupRecord(p) ==
  {IF m.id # 0 THEN [r |-> "ok", e |-> [m EXCEPT !.proc[p].id = m.id]] ELSE [r |-> "norecord", e |-> m]}
  \cup {[r |-> r, e |-> Fail(m)] : r \in IF MayFail THEN {"invalid", "error"} ELSE {}}

\* FetchPolicy: the policy served, or no policy.
FetchPolicy(p) ==
  {IF m.policy # 0 THEN [ok |-> TRUE, e |-> [m EXCEPT !.proc[p].ver = m.policy]] ELSE [ok |-> FALSE, e |-> m]}
  \cup (IF MayFail THEN {[ok |-> FALSE, e |-> Fail(m)]} ELSE {})

-----------------------------------------------------------------------------
(* Get.                                                                    *)

Return(e, g, policy, fresh, err) ==
  [e EXCEPT !.proc[g] = [@ EXCEPT !.step = "done", !.policy = policy, !.fresh = fresh, !.err = err, !.ver = 0,
                                  !.pr = [Absent EXCEPT !.ver = e.proc[g].pr.ver]]]

\* lookup reads the record, if it has not expired.
Start(g) ==
  /\ m.proc[g].step = "idle"
  /\ m' = IF Exists /\ m.rec.validEnd > m.now
          THEN [m EXCEPT !.proc[g] = [NoRun EXCEPT !.step = "use", !.pr = m.rec]]
          ELSE [m EXCEPT !.proc[g] = [NoRun EXCEPT !.step = "get"]]

\* lookup writes the record it read, with a new time of use.
Use(g) ==
  LET w == m.proc[g]
      e == [m EXCEPT !.rec = IF Exists THEN [w.pr EXCEPT !.lastUse = m.now] ELSE @]
  IN /\ w.step = "use"
     /\ m' = IF w.pr.backoff THEN Return(e, g, 0, FALSE, FALSE)
             ELSE [e EXCEPT !.proc[g].step = "check", !.proc[g].cached = TRUE]

Upsert(e, id, ver) ==
  LET r == [validEnd |-> 0, lastUpdate |-> e.now, lastUse |-> e.now, backoff |-> ver = 0, id |-> id, ver |-> ver,
            text |-> ver]
  IN [e EXCEPT !.rec = [r EXCEPT !.validEnd = e.now + MaxAge(r)]]

\* Get of package mtasts, for a domain not in the cache: first its record. A temporary
\* error is returned, other errors mean the domain does not do MTA-STS.
GetRecord(g) ==
  /\ m.proc[g].step = "get"
  /\ \E a \in LookupRecord(g) :
       m' = IF a.r = "ok" THEN [a.e EXCEPT !.proc[g].step = "fetch"]
            ELSE Return(a.e, g, 0, a.r # "error", a.r = "error")

\* Then its policy; a failure is remembered.
GetPolicy(g) ==
  LET w == m.proc[g]
  IN /\ w.step = "fetch"
     /\ \E a \in FetchPolicy(g) :
          LET v == a.e.proc[g].ver IN m' = Return(Upsert(a.e, w.id, v), g, v, TRUE, FALSE)

\* A policy in the cache is used if it is the one announced and its text is there too, or
\* nothing better is found. (A refresh that replaces a failed fetch leaves no text.)
Check(g) ==
  LET w == m.proc[g]
  IN /\ w.step = "check"
     /\ \E a \in LookupRecord(g) :
          m' = IF a.r # "ok" THEN Return(a.e, g, w.pr.ver, FALSE, FALSE)
               ELSE IF a.e.proc[g].id = w.pr.id /\ w.pr.text # 0 THEN Return(a.e, g, w.pr.ver, TRUE, FALSE)
               ELSE [a.e EXCEPT !.proc[g].step = "update"]

Update(g) ==
  LET w == m.proc[g]
  IN /\ w.step = "update"
     /\ \E a \in FetchPolicy(g) :
          LET v == a.e.proc[g].ver
          IN m' = IF a.ok THEN Return(Upsert(a.e, w.id, v), g, v, TRUE, FALSE)
                  ELSE Return(a.e, g, w.pr.ver, FALSE, FALSE)

\* The delivery has its policy.
Done(g) ==
  /\ m.proc[g].step = "done"
  /\ m' = [m EXCEPT !.proc[g] = NoRun]

-----------------------------------------------------------------------------
(* The refresh.                                                            *)

R == m.proc["refresh"]
End(e) == [e EXCEPT !.proc["refresh"] = NoRun]

\* refresh1: removes the policy when it is not used, and refreshes it when it is due.
refresh1 ==
  /\ R.step = "idle" /\ Exists
  /\ LET unused == m.rec.lastUse < m.now - UnusedAge
         due == m.rec.lastUpdate < m.now - RefreshAge
     IN /\ unused \/ due
        /\ m' = IF unused THEN [m EXCEPT !.rec = Absent]
                ELSE [m EXCEPT !.proc["refresh"] = [NoRun EXCEPT !.step = "lookup", !.pr = m.rec]]

\* As Refreshed, but for the policy as it is now.
RefreshedNow(e) == Exists
\* An update after a refresh is only for the policy as it was.
Refreshed(e) == Exists /\ m.rec.lastUpdate = R.pr.lastUpdate

\* refreshDomain, up to the request for the policy.
RefreshRecord ==
  /\ R.step = "lookup"
  /\ \E a \in LookupRecord("refresh") :
       m' = IF a.r = "ok" /\ a.e.proc["refresh"].id = R.pr.id
            THEN End(IF Refreshed(m)
                     THEN [a.e EXCEPT !.rec.lastUpdate = m.now, !.rec.validEnd = m.now + MaxAge(R.pr)]
                     ELSE a.e)
            ELSE IF a.r # "ok" /\ Mode(R.pr) = "none"
            THEN End(IF a.r = "norecord" THEN [a.e EXCEPT !.rec = Absent] ELSE a.e)
            ELSE [a.e EXCEPT !.proc["refresh"].step = "fetch"]

\* The policy. Without a record, its ID stays.
RefreshFetch ==
  /\ R.step = "fetch"
  /\ \E a \in FetchPolicy("refresh") :
       m' = IF a.ok THEN [a.e EXCEPT !.proc["refresh"].step = "update"] ELSE End(a.e)

RefreshUpdate ==
  /\ R.step = "update"
  /\ m' = End(IF Refreshed(m)
              THEN [m EXCEPT !.rec = [@ EXCEPT !.lastUpdate = m.now, !.validEnd = m.now + Policies[R.ver].maxAge,
                                               !.backoff = FALSE, !.ver = R.ver,
                                               !.id = IF R.id # 0 THEN R.id ELSE @]]
              ELSE m)

-----------------------------------------------------------------------------
Next ==
  \/ PublishPolicy \/ PublishRecord \/ RemoveRecord \/ Tick
  \/ refresh1 \/ RefreshRecord \/ RefreshFetch \/ RefreshUpdate
  \/ \E g \in Gets : Start(g) \/ Use(g) \/ GetRecord(g) \/ GetPolicy(g) \/ Check(g) \/ Update(g) \/ Done(g)

Spec == Init /\ [][Next]_m

\* A policy in the cache is at least the one its record ID announced, so that a Get that
\* finds the same ID in DNS is right to call the policy fresh; a fresh policy is at least
\* the one announced when the Get looked. And a policy that was in the cache when a Get
\* started is not given up: without a better one it is used, also when DNS or the web
\* server of the domain fails.
PolicyFresh ==
  /\ Exists /\ ~m.rec.backoff => m.rec.ver >= m.rec.id /\ m.rec.ver # 0
  /\ \A g \in Gets :
       LET w == m.proc[g]
       IN w.step = "done" =>
            /\ w.fresh /\ w.policy # 0 => w.policy >= w.id
            /\ w.cached => w.policy # 0 /\ w.policy >= w.pr.ver /\ ~w.err
=============================================================================
