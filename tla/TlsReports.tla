----------------------------- MODULE TlsReports -----------------------------
(***************************************************************************)
(* Outgoing TLS reports (tlsrptsend/send.go, tlsrptdb/result.go). A        *)
(* delivery attempt stores its TLS results per policy domain (a recipient  *)
(* domain, or an MX host), day and recipient domain. After midnight UTC a  *)
(* report goes to each recipient domain, with the results of its MX hosts, *)
(* and then one to each MX host, without the results its operator already  *)
(* got as operator of the recipient domain.                                *)
(*                                                                         *)
(* Time is in days; end is the midnight that starts day end. The sessions  *)
(* counted in a result are its ids. DNS answers are chosen where they are  *)
(* asked for. The text of a report and its files are abstracted to the     *)
(* results in it.                                                          *)
(***************************************************************************)
EXTENDS Integers, Sequences, FiniteSets, FiniteSetsExt, SequencesExt

CONSTANTS
  Domains,       \* Recipient domains and MX hosts.
  Attempts,      \* Delivery attempts: recipient domain, MX hosts with a result, MTA-STS policy, whether
                 \* TLS failed, and whether of a regular message, TLS report or DMARC report.
  RUAs,          \* Reporting addresses found in TLSRPT records: sequences of URIs.
  AllSuccess,    \* OutgoingTLSReportsForAllSuccess.
  MaxSessions,   \* Bound: delivery attempts.
  MaxDays,       \* Bound: days.
  MaxFailures,   \* Bound: failures of a step.
  MaxAdmin       \* Bound: operations of an admin.

VARIABLE t

Keys == [pol : Domains, day : 0..MaxDays]
Key(r) == [pol |-> r.pol, day |-> r.day]

Idle == [step |-> "off", rcpts |-> <<>>, todo |-> <<>>, rep |-> {}, temp |-> FALSE, cleanup |-> TRUE, queued |-> FALSE]

\* phase: what the goroutine of Start does. todo: keys of the phase to send for; work:
\* the goroutines; removes: keys to remove at the end of the round. sent: sessions in
\* queued reports, with the domain of the report and its addresses; twice: those that were
\* sent again in the same way. excused: reports that can be made again: of MX hosts whose
\* results stay in the database, and of domains an admin removed results of. lost: keys with a temporary error.
Init ==
  \E signs \in BOOLEAN :
    t = [day |-> 0, results |-> {}, next |-> 1, phase |-> "sleep", end |-> 1, rcptDoms |-> {}, nonRcptDoms |-> {},
         work |-> [k \in Keys |-> Idle], removes |-> {}, suppressed |-> {}, sent |-> {}, twice |-> {}, excused |-> {}, lost |-> {},
         signs |-> signs, failures |-> 0, admin |-> 0]

Fail(e) == [e EXCEPT !.failures = @ + 1]
MayFail == t.failures < MaxFailures

-----------------------------------------------------------------------------
(* Results.                                                                *)

\* Merge and Add of tlsrpt.Report: counts of the same policy are added.
Merge(r, n) == [r EXCEPT !.ids = @ \cup n.ids, !.fail = @ \/ n.fail, !.host = n.host, !.send = @ \/ n.send]

Same(r, n) == r.pol = n.pol /\ r.day = n.day /\ r.rcpt = n.rcpt

AddTLSResults(results, new) ==
  FoldLeft(LAMBDA s, n : IF \E r \in s : Same(r, n)
                         THEN {IF Same(r, n) THEN Merge(r, n) ELSE r : r \in s}
                         ELSE s \cup {n},
           results, new)

\* The results of a delivery attempt: of the MX hosts, and of the recipient domain unless
\* it has no policy and is an MX host with one.
AttemptResults(a, id) ==
  LET Result(pol, host) ==
        [pol |-> pol, rcpt |-> a.rcpt, day |-> t.day, host |-> host, ids |-> {id}, fail |-> a.fail,
         send |-> a.kind # "tlsreport" /\ (a.kind # "dmarcreport" \/ a.fail),
         sentR |-> FALSE, sentP |-> FALSE, addrs |-> <<>>]
  IN [i \in DOMAIN a.hosts |-> Result(a.hosts[i], TRUE)]
       \o (IF a.sts = "" \/ (a.sts = "none" /\ a.rcpt \in ToSet(a.hosts)) THEN <<>> ELSE <<Result(a.rcpt, FALSE)>>)

Deliver(a) ==
  /\ t.next <= MaxSessions
  /\ t' = [t EXCEPT !.next = @ + 1, !.results = AddTLSResults(@, AttemptResults(a, t.next))]

RemoveResultsPolicyDomain(dom, day) ==
  /\ t.admin < MaxAdmin
  /\ t' = [t EXCEPT !.admin = @ + 1, !.results = {r \in @ : ~(r.pol = dom /\ r.day = day)},
                    !.excused = @ \cup {[pol |-> dom, day |-> day, isRcptDom |-> TRUE]}]

RemoveResultsRecipientDomain(dom, day) ==
  /\ t.admin < MaxAdmin
  /\ t' = [t EXCEPT !.admin = @ + 1, !.results = {r \in @ : ~(r.rcpt = dom /\ r.day = day)}]

SuppressAdd(a) ==
  /\ t.admin < MaxAdmin
  /\ t' = [t EXCEPT !.admin = @ + 1, !.suppressed = @ \cup {a}]

-----------------------------------------------------------------------------
(* The goroutine that wakes up after midnight.                             *)

Tick ==
  /\ t.day < MaxDays
  /\ ~(t.phase = "sleep" /\ t.day >= t.end)
  /\ t' = [t EXCEPT !.day = @ + 1]

\* Domains a report is asked for, and the keys of those without.
Wanted(rs) == {Key(r) : r \in {x \in rs : x.send}}

\* Removes old results; and sendReports, up to the domains it plans to send to.
Wake ==
  /\ t.phase = "sleep" /\ t.day >= t.end
  /\ LET kept == {r \in t.results : ~(r.day < t.end - 3)}
         due == {r \in kept : r.day <= t.end - 1}
         rcpt == {r \in due : r.pol = r.rcpt}
         non == due \ rcpt
     IN t' = [t EXCEPT !.phase = "rcpt", !.results = kept, !.rcptDoms = Wanted(rcpt), !.nonRcptDoms = Wanted(non),
                       !.removes = ({Key(r) : r \in rcpt} \ Wanted(rcpt)) \cup ({Key(r) : r \in non} \ Wanted(non)),
                       !.lost = {}]

IsRcptDom == t.phase = "rcpt"
Doms == IF IsRcptDom THEN "rcptDoms" ELSE "nonRcptDoms"

\* sendDomains: a goroutine for a domain and day, after a pause.
sendDomains(k) ==
  /\ t.phase \in {"rcpt", "nonrcpt"} /\ k \in t[Doms]
  /\ t' = [t EXCEPT ![Doms] = @ \ {k}, !.work[k] = [Idle EXCEPT !.step = "lookup"]]

Quiet == t[Doms] = {} /\ \A k \in Keys : t.work[k].step = "off"

\* wg.Wait after the recipient domains.
NextPhase ==
  /\ t.phase = "rcpt" /\ Quiet
  /\ t' = [t EXCEPT !.phase = "nonrcpt"]

\* The MX hosts and days with a report that have results in the database.
MXReported == {[pol |-> r.pol, day |-> r.day, isRcptDom |-> FALSE] : r \in {x \in t.results : x.sentP}}

\* wg.Wait after the MX hosts, the results that are done with are removed.
Finished ==
  /\ t.phase = "nonrcpt" /\ Quiet
  /\ \/ t' = [t EXCEPT !.phase = "sleep", !.end = @ + 1, !.results = {r \in @ : Key(r) \notin t.removes}, !.removes = {}]
     \/ MayFail /\ t' = [Fail(t) EXCEPT !.phase = "sleep", !.end = @ + 1, !.removes = {},
                                        !.excused = @ \cup MXReported]

\* The process stops, and Start begins with the reports of the previous day that are left.
Restart ==
  /\ MayFail
  /\ t' = [Fail(t) EXCEPT !.phase = "sleep", !.end = t.day, !.rcptDoms = {}, !.nonRcptDoms = {}, !.removes = {},
                          !.work = [k \in Keys |-> Idle], !.excused = @ \cup MXReported]

-----------------------------------------------------------------------------
(* sendReportDomain.                                                       *)

Leave(e, k, cleanup) == [e EXCEPT !.work[k].step = "done", !.work[k].cleanup = cleanup]

\* Without a domain to sign for, reports are not sent.
Signed(k) ==
  /\ t.work[k].step = "lookup"
  /\ t' = IF t.signs THEN [t EXCEPT !.work[k].step = "record"] ELSE Leave(t, k, TRUE)

\* The addresses of a TLSRPT record that can be used.
Recipients(rua) == SelectSeq(rua, LAMBDA u : u.mailto)

\* The TLSRPT record of the domain. With a temporary DNS error, the results are removed.
Lookup(k) ==
  /\ t.work[k].step = "record"
  /\ \/ t' = Leave(t, k, TRUE)
     \/ MayFail /\ t' = [Leave(Fail(t), k, TRUE) EXCEPT !.lost = @ \cup {k}]
     \/ MayFail /\ t' = Leave(Fail(t), k, FALSE)
     \/ \E rua \in RUAs :
          t' = IF Recipients(rua) = <<>> THEN Leave(t, k, TRUE)
               ELSE [t EXCEPT !.work[k].step = "report", !.work[k].rcpts = Recipients(rua)]

Addresses(rcpts) == [i \in DOMAIN rcpts |-> rcpts[i].addr]

\* The results for the report: for a recipient domain those of its MX hosts too.
TLSResults(k) ==
  {r \in t.results : r.day = k.day /\ (IF IsRcptDom THEN r.rcpt ELSE r.pol) = k.pol}

AlreadySent(rs) ==
  \E r \in rs : r.pol = r.rcpt /\ (IF IsRcptDom THEN r.sentR ELSE r.sentP)

\* For an MX host, without results that went to the same addresses before.
Merged(rs, rcpts) == IF IsRcptDom THEN rs ELSE {r \in rs : r.addrs # Addresses(rcpts)}

\* Whether a message can be written.
composeMessage == IF MayFail THEN BOOLEAN ELSE {TRUE}

\* The report, and writing it.
Report(k) ==
  LET w == t.work[k]
      rs == TLSResults(k)
      rep == Merged(rs, w.rcpts)
  IN /\ w.step = "report"
     /\ \/ /\ rs = {} \/ AlreadySent(rs) \/ rep = {} \/ (~AllSuccess /\ \A r \in rep : ~r.fail)
           /\ t' = Leave(t, k, TRUE)
        \/ /\ rs # {} /\ ~AlreadySent(rs) /\ rep # {} /\ (AllSuccess \/ \E r \in rep : r.fail)
           /\ \E ok \in composeMessage :
                t' = IF ok THEN [t EXCEPT !.work[k].step = "mark", !.work[k].rep = rep] ELSE Leave(Fail(t), k, FALSE)

\* As MarkSent, but the reporting addresses are not stored.
MarkSentOnly(k) ==
  LET w == t.work[k]
  IN /\ w.step = "mark"
     /\ \/ t' = [t EXCEPT !.work[k].step = "queue", !.work[k].todo = Addresses(w.rcpts),
                          !.results = {IF r.day = k.day /\ IsRcptDom /\ r.rcpt = k.pol
                                       THEN [r EXCEPT !.sentR = TRUE]
                                       ELSE IF r.day = k.day /\ ~IsRcptDom /\ r.pol = k.pol THEN [r EXCEPT !.sentP = TRUE]
                                       ELSE r : r \in @}]
        \/ MayFail /\ t' = Leave(Fail(t), k, FALSE)
\* The results are marked as sent before they are.
MarkSent(k) ==
  LET w == t.work[k]
  IN /\ w.step = "mark"
     /\ \/ t' = [t EXCEPT !.work[k].step = "queue", !.work[k].todo = Addresses(w.rcpts),
                          !.results = {IF r.day = k.day /\ IsRcptDom /\ r.rcpt = k.pol
                                       THEN [r EXCEPT !.sentR = TRUE, !.addrs = Addresses(w.rcpts)]
                                       ELSE IF r.day = k.day /\ ~IsRcptDom /\ r.pol = k.pol THEN [r EXCEPT !.sentP = TRUE]
                                       ELSE r : r \in @}]
        \/ MayFail /\ t' = Leave(Fail(t), k, FALSE)

\* The next address. The list of suppressed addresses, or the queue, can fail.
QueueAdd(k) ==
  LET w == t.work[k]
      a == Head(w.todo)
      Rest(e) == [e EXCEPT !.work[k].todo = Tail(@)]
      Sent(r) == [addr |-> a, ids |-> r.ids, pol |-> r.pol, rcpt |-> r.rcpt, day |-> r.day, dom |-> k.pol,
                  isRcptDom |-> IsRcptDom, addrs |-> Addresses(w.rcpts)]
  IN /\ w.step = "queue" /\ w.todo # <<>>
     /\ \/ MayFail /\ t' = [Leave(Fail(t), k, FALSE) EXCEPT !.excused = @ \cup MXReported]
        \/ a \in t.suppressed /\ t' = Rest(t)
        \/ a \notin t.suppressed /\ MayFail /\ t' = [Rest(Fail(t)) EXCEPT !.work[k].temp = ~w.queued]
        \/ /\ a \notin t.suppressed
           /\ t' = [Rest(t) EXCEPT !.work[k].queued = TRUE, !.work[k].temp = FALSE,
                                   !.sent = @ \cup {Sent(r) : r \in w.rep},
                                   !.twice = @ \cup ({Sent(r) : r \in w.rep} \cap t.sent)]

Queued(k) ==
  /\ t.work[k].step = "queue" /\ t.work[k].todo = <<>>
  /\ t' = Leave(t, k, TRUE)

\* The deferred function, and the goroutine.
Done(k) ==
  LET w == t.work[k]
  IN /\ w.step = "done"
     /\ t' = [t EXCEPT !.work[k] = Idle, !.removes = IF w.cleanup /\ ~w.temp THEN @ \cup {k} ELSE @]

-----------------------------------------------------------------------------
Next ==
  \/ Tick \/ Wake \/ NextPhase \/ Finished \/ Restart
  \/ \E a \in Attempts : Deliver(a)
  \/ \E k \in Keys :
       \/ RemoveResultsPolicyDomain(k.pol, k.day) \/ RemoveResultsRecipientDomain(k.pol, k.day)
       \/ sendDomains(k) \/ Signed(k) \/ Lookup(k) \/ Report(k) \/ MarkSent(k) \/ QueueAdd(k) \/ Queued(k) \/ Done(k)
  \/ \E u \in UNION {ToSet(s) : s \in RUAs} : SuppressAdd(u.addr)

Spec == Init /\ [][Next]_t

Excused(x) == [pol |-> x.dom, day |-> x.day, isRcptDom |-> x.isRcptDom] \in t.excused

\* "so we don't report twice": a session is in at most one report to the addresses of a
\* recipient domain, whatever fails and whenever the process restarts, unless an admin removes
\* the results of the domain in the meantime. It is in two reports to
\* those of an MX host only when its result stayed in the database after the first, through a
\* failure or a restart ("Stop if we already sent a report for this destination" looks
\* for results whose policy domain is the recipient domain, never those of an MX host).
\* The reports to a recipient domain and to its MX host do not both have it when their
\* reporting addresses are the same, unless that to the MX host stayed from an earlier round. Sessions that only delivered TLS reports cause no report.
TlsReportedOnce ==
  /\ \A x \in t.twice : Excused(x)
  /\ \A x, y \in t.sent :
       (x.addr = y.addr /\ x.pol = y.pol /\ x.rcpt = y.rcpt /\ x.ids \cap y.ids # {} /\ x # y) =>
         \/ x.isRcptDom = y.isRcptDom /\ Excused(x)
         \/ x.isRcptDom # y.isRcptDom /\ (x.addrs # y.addrs \/ \E z \in {x, y} : ~z.isRcptDom /\ Excused(z))
  /\ \A k \in Keys : t.work[k].step = "queue" => (\E r \in t.results : Key(r) = k /\ r.send) \/ t.admin > 0

\* "if we encounter a temporary error we cancel cleanup": results are not removed in the
\* round in which the TLSRPT record of their domain could not be looked up for now.
KeptOnTemporaryError ==
  [][t.phase = "nonrcpt" /\ t'.phase = "sleep" =>
       \A r \in t.results : Key(r) \in t.lost => r \in t'.results]_t
=============================================================================
