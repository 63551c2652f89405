---------------------------- MODULE DmarcReports ----------------------------
(***************************************************************************)
(* Outgoing DMARC aggregate reports (dmarcdb/eval.go). Deliveries add      *)
(* evaluations to a database; at every whole hour a goroutine takes the    *)
(* policy domains with evaluations of an interval that ends, and sends a   *)
(* report for each in a goroutine of its own, while deliveries continue to *)
(* add evaluations.                                                        *)
(*                                                                         *)
(* Time is in hours: an evaluation in hour h is before the end of any      *)
(* period that ends at h + 1 or later. A day has DayHours hours. DNS       *)
(* answers are chosen where they are asked for. The text of a report, its  *)
(* files and its signature are abstracted to the evaluations in it.        *)
(***************************************************************************)
EXTENDS Integers, Sequences, FiniteSets, FiniteSetsExt, SequencesExt

CONSTANTS
  Domains,       \* Policy domains.
  DayHours,      \* Hours in a day.
  IntervalOpts,  \* Intervals in hours, other than 1, that divide a day, longest first.
  Seconds,       \* Reporting intervals found in DMARC records, in seconds.
  RUAs,          \* Aggregate reporting addresses found in DMARC records: sequences of URIs.
  Replacements,  \* Addresses found in _report DMARC records: sequences of URIs.
  MaxEvals,      \* Bound: evaluations.
  MaxHours,      \* Bound: hours.
  MaxFailures,   \* Bound: temporary failures and restarts.
  MaxAdmin       \* Bound: operations of an admin.

VARIABLE d

\* A URI: the address it has, whether it is understood, whether it is of another
\* organizational domain than the policy domain, whether it is of the same host as the
\* address it replaces, and whether its maximum size is below that of the report.
Addresses == {u.addr : u \in UNION {ToSet(s) : s \in RUAs \cup Replacements}}

\* A goroutine for a domain. why: what it learnt of the reports wanted.
Idle == [step |-> "off", rcpts |-> <<>>, todo |-> <<>>, temp |-> FALSE, cleanup |-> TRUE, why |-> "", begin |-> 0,
         rep |-> {}, queued |-> FALSE]

\* evals: the database. loop: what the goroutine of Start does; end: the end of the
\* period. destDomains: domains left for this round. sent: evaluations in the reports
\* queued for an address; again: evaluations that may be reported again; told: addresses
\* that got an error report.
Init ==
  d = [now |-> 0, evals |-> {}, next |-> 1, loop |-> "sleep", end |-> 1, destDomains |-> {}, optional |-> {},
       work |-> [x \in Domains |-> Idle], suppressed |-> {}, sent |-> [a \in Addresses |-> {}], again |-> {}, told |-> {},
       failures |-> 0, admin |-> 0]

Fail(e) == [e EXCEPT !.failures = @ + 1]
MayFail == d.failures < MaxFailures

-----------------------------------------------------------------------------
(* Evaluations.                                                            *)

intervalHours(seconds) ==
  LET hours == (seconds + 3600 - 1) \div 3600
      opts == {i \in DOMAIN IntervalOpts : hours >= IntervalOpts[i]}
  IN IF opts = {} THEN 1 ELSE IntervalOpts[Min(opts)]

AddEvaluation(dom, seconds, optional) ==
  /\ d.next <= MaxEvals
  /\ d' = [d EXCEPT !.next = @ + 1,
                    !.evals = @ \cup {[id |-> d.next, dom |-> dom, at |-> d.now, opt |-> optional,
                                       ival |-> intervalHours(seconds)]}]

RemoveEvaluationsDomain(dom) ==
  /\ d.admin < MaxAdmin
  /\ d' = [d EXCEPT !.admin = @ + 1, !.evals = {e \in @ : e.dom # dom}]

SuppressAdd(a) ==
  /\ d.admin < MaxAdmin /\ a \notin d.suppressed
  /\ d' = [d EXCEPT !.admin = @ + 1, !.suppressed = @ \cup {a}]

SuppressRemove(a) ==
  /\ d.admin < MaxAdmin /\ a \in d.suppressed
  /\ d' = [d EXCEPT !.admin = @ + 1, !.suppressed = @ \ {a}]

\* As removeEvaluations, but also those of the period that has started since.
removeEvaluationsAll(evals, end, dom) == {e \in evals : e.dom # dom}
removeEvaluations(evals, end, dom) == {e \in evals : ~(e.at < end /\ e.dom = dom)}

-----------------------------------------------------------------------------
(* The goroutine that wakes up at whole hours.                             *)

\* The timer fires in the minute after the hour it was set for.
Tick ==
  /\ d.now < MaxHours
  /\ ~(d.loop = "sleep" /\ d.now >= d.end)
  /\ d' = [d EXCEPT !.now = @ + 1]

Intervals(end) ==
  LET utchour == IF end % DayHours = 0 THEN DayHours ELSE end % DayHours
  IN {1} \cup {i \in ToSet(IntervalOpts) : i * (utchour \div i) = utchour}

\* The evaluations sendReports looks at.
Due(evals, end) == {e \in evals : e.at < end /\ e.ival \in Intervals(end)}

\* Start, after the timer; and sendReports, up to the domains it plans to send to.
Wake ==
  /\ d.loop = "sleep" /\ d.now >= d.end
  /\ LET kept == {e \in d.evals : ~(e.at < d.end - 2 * DayHours)}
         due == Due(kept, d.end)
         send == {e.dom : e \in {x \in due : ~x.opt}}
     IN d' = [d EXCEPT !.loop = "send", !.evals = kept, !.destDomains = send, !.optional = {e.dom : e \in due} \ send]

\* A domain with only optional evaluations.
Cleanup(dom) ==
  /\ d.loop = "send" /\ dom \in d.optional
  /\ d' = [d EXCEPT !.optional = @ \ {dom}, !.evals = removeEvaluations(@, d.end, dom)]

\* After a pause, a goroutine for the domain.
Launch(dom) ==
  /\ d.loop = "send" /\ dom \in d.destDomains
  /\ d' = [d EXCEPT !.destDomains = @ \ {dom}, !.work[dom] = [Idle EXCEPT !.step = "lookup"]]

\* wg.Wait, and the next round.
Finished ==
  /\ d.loop = "send" /\ d.destDomains = {} /\ d.optional = {}
  /\ \A x \in Domains : d.work[x].step = "off"
  /\ d' = [d EXCEPT !.loop = "sleep", !.end = d.now + 1]

\* The process stops, and is started again: it waits for the next whole hour.
Restart ==
  /\ MayFail
  /\ d.loop = "send" \/ d.now >= d.end
  /\ d' = [Fail(d) EXCEPT !.loop = "sleep", !.end = d.now + 1, !.destDomains = {}, !.optional = {},
                          !.work = [x \in Domains |-> Idle],
                          !.again = @ \cup UNION {d.work[x].rep : x \in Domains}]

-----------------------------------------------------------------------------
(* sendReportDomain.                                                       *)

\* Ends the goroutine; the deferred function removes the evaluations.
Leave(e, dom, cleanup, why) ==
  [e EXCEPT !.work[dom].step = "clean", !.work[dom].cleanup = cleanup, !.work[dom].why = why]

\* The DMARC record of the domain.
Lookup(dom) ==
  /\ d.work[dom].step = "lookup"
  /\ \/ MayFail /\ d' = Leave(Fail(d), dom, FALSE, "temp")
     \/ d' = Leave(d, dom, TRUE, "norecord")
     \/ \E rua \in RUAs : d' = [d EXCEPT !.work[dom].step = "rua", !.work[dom].todo = rua]

parseRecipient(u) == u.ok

\* An address of another host is not used.
Followed(s) == SelectSeq(s, LAMBDA u : parseRecipient(u) /\ u.samehost)

\* The next aggregate reporting address of the record: of the same organizational
\* domain, or one whose domain says it accepts the reports, at these or other addresses.
Address(dom) ==
  LET w == d.work[dom]
      u == Head(w.todo)
      Use(e, s) == [e EXCEPT !.work[dom].todo = Tail(w.todo), !.work[dom].rcpts = @ \o s]
  IN /\ w.step = "rua" /\ w.todo # <<>>
     /\ \/ ~parseRecipient(u) /\ d' = Use(d, <<>>)
        \/ parseRecipient(u) /\ ~u.ext /\ d' = Use(d, <<u>>)
        \/ /\ parseRecipient(u) /\ u.ext
           /\ \/ MayFail /\ d' = [Use(Fail(d), <<>>) EXCEPT !.work[dom].temp = TRUE]
              \/ d' = Use(d, <<>>)
              \/ \E s \in Replacements : d' = Use(d, IF Followed(s) = <<>> THEN <<u>> ELSE Followed(s))

\* The evaluations for the report: of all intervals.
InReport(dom) == {e \in d.evals : e.at < d.end /\ e.dom = dom}

\* The period: back from its end, whole intervals of the first evaluation.
BeginTime(in) ==
  LET first == CHOOSE e \in in : \A x \in in : e.at < x.at \/ (e.at = x.at /\ e.id <= x.id)
  IN Max({t \in {d.end - n * first.ival : n \in 1..(d.end + DayHours)} : t <= first.at})

\* How far the message gets: the database or a file can fail, as can writing the XML.
composeAggregateReport == {"ok"} \cup IF MayFail THEN {"temp", "write"} ELSE {}

\* The report, when there is an address for it and an evaluation that asks for it. When the
\* XML cannot be written, the evaluations are not kept.
Compose(dom) ==
  LET w == d.work[dom]
      in == InReport(dom)
  IN /\ w.step = "rua" /\ w.todo = <<>>
     /\ \/ w.rcpts = <<>> /\ d' = Leave(d, dom, TRUE, "norcpt")
        \/ w.rcpts # <<>> /\ (\A e \in in : e.opt) /\ d' = Leave(d, dom, TRUE, "optional")
        \/ /\ w.rcpts # <<>> /\ (\E e \in in : ~e.opt)
           /\ \E res \in composeAggregateReport :
                d' = IF res = "ok"
                     THEN [d EXCEPT !.work[dom].step = "queue", !.work[dom].todo = w.rcpts,
                                     !.work[dom].begin = BeginTime(in), !.work[dom].rep = in]
                     ELSE Leave(Fail(d), dom, res = "write", res)

\* The next address: not when it is suppressed, or when the report is too large for it.
Queue(dom) ==
  LET w == d.work[dom]
      u == Head(w.todo)
      Next1(e) == [e EXCEPT !.work[dom].todo = Tail(@)]
  IN /\ w.step = "queue" /\ w.todo # <<>>
     /\ \/ MayFail /\ d' = Leave(Fail(d), dom, FALSE, "temp")
        \/ (u.addr \in d.suppressed \/ u.small) /\ d' = Next1(d)
        \/ /\ u.addr \notin d.suppressed /\ ~u.small
           /\ \/ MayFail /\ d' = [Next1(Fail(d)) EXCEPT !.work[dom].temp = TRUE]
              \/ d' = [Next1(d) EXCEPT !.work[dom].queued = TRUE, !.sent[u.addr] = @ \cup w.rep]

\* For how many of the addresses an error report gets as far as the queue.
composeErrorReport(rcpts) == IF MayFail THEN 0..Len(rcpts) ELSE {Len(rcpts)}

\* A short message to the addresses that are not suppressed, without evaluations. Errors
\* are only logged.
sendErrorReport(rcpts) ==
  {ToSet(SelectSeq(SubSeq([i \in DOMAIN rcpts |-> rcpts[i].addr], 1, n), LAMBDA a : a \notin d.suppressed)) :
     n \in composeErrorReport(rcpts)}

Queued(dom) ==
  LET w == d.work[dom]
  IN /\ w.step = "queue" /\ w.todo = <<>>
     /\ \/ w.queued /\ d' = Leave(d, dom, TRUE, "sent")
        \/ ~w.queued /\ \E t \in sendErrorReport(w.rcpts) : d' = Leave([d EXCEPT !.told = @ \cup t], dom, TRUE, "sent")

Clean(dom) ==
  LET w == d.work[dom]
  IN /\ w.step = "clean"
     /\ d' = IF ~w.cleanup \/ w.temp THEN [d EXCEPT !.work[dom] = Idle, !.again = @ \cup w.rep]
             ELSE [d EXCEPT !.work[dom] = Idle, !.evals = removeEvaluations(@, d.end, dom)]

-----------------------------------------------------------------------------
Next ==
  \/ Tick \/ Wake \/ Finished \/ Restart
  \/ \E dom \in Domains :
       \/ \E s \in Seconds, o \in BOOLEAN : AddEvaluation(dom, s, o)
       \/ RemoveEvaluationsDomain(dom)
       \/ Cleanup(dom) \/ Launch(dom)
       \/ Lookup(dom) \/ Address(dom) \/ Compose(dom) \/ Queue(dom) \/ Queued(dom) \/ Clean(dom)
  \/ \E a \in Addresses : SuppressAdd(a) \/ SuppressRemove(a)

Spec == Init /\ [][Next]_d

\* An evaluation that asks for a report leaves the database only when it is two days
\* old, when an admin removes it, or when sendReportDomain is done with its domain: there
\* is no DMARC record or address any more, or the report with this evaluation in it was
\* given to all addresses without a temporary error. There are two exceptions, in which it is lost:
\* writing the XML failed ("If we encounter a temporary error we cancel cleanup" holds for the
\* other errors), and the clean-up "for domain with only optionals" looks at the intervals
\* that end, but removes the evaluations of all intervals. A queued
\* report has an evaluation that asks for it and covers the time of all its evaluations.
\* An address gets an evaluation a second time only after a failure made it be kept, and
\* an error report only when no address got the report.
AccountStep ==
  /\ \A e \in d.evals \ d'.evals :
       \/ e.opt
       \/ e.at < d.end - 2 * DayHours
       \/ d'.admin # d.admin
       \/ e.dom \in d.optional /\ e.dom \notin d'.optional /\ e.ival \notin Intervals(d.end)
       \/ LET w == d.work[e.dom]
          IN /\ w.step = "clean" /\ ~w.temp
             /\ w.why \in {"norecord", "norcpt", "write"} \/ (w.why = "sent" /\ e \in w.rep)
  /\ \A x \in Domains :
       LET w == d.work[x]
       IN w.step = "queue" =>
            (\E e \in w.rep : ~e.opt) /\ \A e \in w.rep : w.begin <= e.at /\ e.at < d.end
  /\ \A a \in Addresses, x \in Domains :
       (d.sent[a] # d'.sent[a] /\ d.work[x] # d'.work[x]) => (d.work[x].rep \cap d.sent[a]) \subseteq d.again
  /\ \A x \in Domains : (d.told # d'.told /\ d.work[x] # d'.work[x]) => ~d.work[x].queued

EvaluationsAccounted == [][AccountStep]_d
=============================================================================
