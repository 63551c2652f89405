------------------------------- MODULE Analyze -------------------------------
(***************************************************************************)
(* The decision about one incoming message (analyze in                     *)
(* smtpserver/analyze.go), as the sequence of checks it makes. A check     *)
(* learns the facts it asks for when it asks for them, and either decides  *)
(* the message or leaves it to the next check. The facts stay in f, so     *)
(* that the verdict v can be compared with all of them.                    *)
(*                                                                         *)
(* Probabilities are percentages. The reputation is one of the results     *)
(* module Reputation can return.                                           *)
(***************************************************************************)
EXTENDS Integers

CONSTANTS
  Reputations,     \* Results of reputation: [junk, conclusive, method].
  Probabilities,   \* Of the junk filter, in percent.
  Threshold,       \* Of the account's junk filter, in percent.
  Jitters          \* Added to the threshold, in percent.

VARIABLES step, f, v

vars == <<step, f, v>>

NoRuleset == [list |-> "none", forward |-> FALSE, rejects |-> FALSE]

Facts ==
  [rate |-> "ok", rs |-> NoRuleset, dmarc |-> [use |-> FALSE, reject |-> FALSE, status |-> "none"],
   dmarcReport |-> FALSE, tlsReport |-> FALSE, validated |-> FALSE, required |-> FALSE,
   exists |-> TRUE, rep |-> [junk |-> "none", conclusive |-> FALSE, method |-> "none"],
   spf |-> "none", iprev |-> TRUE, subjectpass |-> "off", tls |-> TRUE, toMatch |-> TRUE,
   prob |-> 0, significant |-> FALSE, blocked |-> FALSE]

\* The message's own fields that analyze sets: MailboxDestinedID, IsReject with
\* Seen, IsMailingList, and IsForward with the cleared identities.
Undecided ==
  [done |-> FALSE, accept |-> FALSE, mailbox |-> "destination", code |-> 0, reason |-> "",
   destined |-> FALSE, isReject |-> FALSE, list |-> FALSE, forward |-> FALSE,
   report |-> FALSE]

Init == step = "rates" /\ f = Facts /\ v = Undecided

Goto(s) == step' = s /\ v' = v
Decide(r) == step' = "done" /\ v' = [r EXCEPT !.done = TRUE]
Accept(reason) == Decide([v EXCEPT !.accept = TRUE, !.reason = reason])

\* reject: the destination mailbox is remembered, and a ruleset may have the
\* rejected message delivered to a mailbox of its own.
reject(u, g, code, reason) ==
  \/ /\ ~u.destined
     /\ Decide([u EXCEPT !.code = 451, !.reason = "reputation-error"])
  \/ LET r == [u EXCEPT !.code = code, !.reason = reason,
                        !.destined = u.destined \/ g.exists]
     IN  Decide(IF g.rs.rejects
                THEN [r EXCEPT !.accept = TRUE, !.mailbox = "rejects", !.isReject = TRUE]
                ELSE r)

\* The number and size of recent messages from the address and its networks.
checkRates ==
  /\ step = "rates"
  /\ \E rate \in {"ok", "high", "error"} :
       /\ f' = [f EXCEPT !.rate = rate]
       /\ CASE rate = "error" -> Decide([v EXCEPT !.mailbox = "", !.code = 451,
                                                  !.reason = "reputation-error"])
            [] rate = "high"  -> Decide([v EXCEPT !.mailbox = "", !.code = 452,
                                                  !.reason = "high-rate"])
            [] OTHER -> Goto("ruleset")

\* isListDomain: list is whether the ruleset's mailing list domain has a
\* validated MAIL FROM or a passing DKIM signature.
MessageRuleset ==
  /\ step = "ruleset"
  /\ \E rs \in [list : {"none", "nomatch", "match"}, forward : BOOLEAN, rejects : BOOLEAN] :
       /\ f' = [f EXCEPT !.rs = rs]
       /\ IF rs.list = "match"
          THEN Decide([v EXCEPT !.accept = TRUE, !.reason = "list-allow", !.list = TRUE])
          ELSE step' = "dmarc" /\ v' = [v EXCEPT !.forward = rs.forward]

\* A forwarded message is not judged by its DMARC policy.
dmarcPolicy ==
  /\ step = "dmarc"
  /\ \E use \in BOOLEAN, status \in {"none", "pass", "fail", "temperror"}, policy \in BOOLEAN,
        exists \in BOOLEAN :
       LET result == [use |-> use /\ ~f.rs.forward, reject |-> policy /\ status = "fail",
                      status |-> status]
           g == [f EXCEPT !.dmarc = result, !.exists = exists]
       IN  /\ f' = g
           /\ IF result.use /\ result.reject THEN reject(v, g, 550, "dmarc-policy")
              ELSE Goto("reports")

\* What is wrong with a message to the address for DMARC or TLS reports: no DMARC
\* pass (no acceptable DKIM signature), an unparsable report, another domain, or
\* an end in the future. Only a report without faults is kept.
reports ==
  /\ step = "reports"
  /\ \E dmarcReports, tlsReports, faulty, dkim \in BOOLEAN :
       f' = [f EXCEPT !.dmarcReport = dmarcReports /\ f.dmarc.status = "pass" /\ ~faulty,
                      !.tlsReport   = tlsReports /\ dkim /\ ~faulty]
  /\ Goto("auth")

authRequired ==
  /\ step = "auth"
  /\ \E required, validated \in BOOLEAN :
       LET g == [f EXCEPT !.required = required, !.validated = validated]
       IN  /\ f' = g
           /\ IF required /\ ~validated
              THEN reject(v, g, IF f.dmarc.status = "temperror" THEN 451 ELSE 550,
                          "msg-auth-required")
              ELSE Goto("reputation")

\* As determineReputation, but a report is accepted whatever the reputation.
determineReputationReports ==
  /\ step = "reputation"
  /\ \/ /\ f' = f
        /\ \E assigned \in BOOLEAN :
             reject([v EXCEPT !.destined = assigned /\ f.exists], f, 451, "reputation-error")
     \/ \E rep \in Reputations :
          LET g == [f EXCEPT !.rep = rep]
              u == [v EXCEPT !.destined = f.exists]
              report == f.dmarcReport \/ f.tlsReport
          IN  /\ f' = g
              /\ CASE (rep.conclusive /\ rep.junk = "ham") \/ report ->
                        Decide([u EXCEPT !.accept = TRUE, !.reason = rep.method,
                                         !.report = report])
                   [] rep.conclusive /\ rep.junk # "ham" /\ ~report -> reject(u, g, 451, rep.method)
                   [] OTHER -> step' = "signals" /\ v' = u

\* assignMailbox and reputation in one read transaction, which may fail.
determineReputation ==
  /\ step = "reputation"
  /\ \/ /\ f' = f
        /\ \E assigned \in BOOLEAN :
             reject([v EXCEPT !.destined = assigned /\ f.exists], f, 451, "reputation-error")
     \/ \E rep \in Reputations :
          LET g == [f EXCEPT !.rep = rep]
              u == [v EXCEPT !.destined = f.exists]
              report == f.dmarcReport \/ f.tlsReport
          IN  /\ f' = g
              /\ CASE rep.conclusive /\ rep.junk = "ham" ->
                        Decide([u EXCEPT !.accept = TRUE, !.reason = rep.method,
                                         !.report = report])
                   [] rep.conclusive /\ rep.junk # "ham" -> reject(u, g, 451, rep.method)
                   [] ~rep.conclusive /\ report ->
                        Decide([u EXCEPT !.accept = TRUE, !.reason = "reporting",
                                         !.report = TRUE])
                   [] OTHER -> step' = "signals" /\ v' = u

\* The methods that say nothing of the sender's domain.
Stranger(rep) == rep.method \in {"dkimspf", "ip1", "ip2", "ip3", "none"}

\* SPF and reverse DNS of a sender whose domain is not known.
signals ==
  /\ step = "signals"
  /\ \E spf \in {"pass", "softfail", "fail"}, iprev \in BOOLEAN :
       LET g == [f EXCEPT !.spf = spf, !.iprev = iprev]
       IN  /\ f' = g
           /\ CASE Stranger(f.rep) /\ spf # "pass" -> reject(v, g, 451, "spf-policy")
                [] Stranger(f.rep) /\ spf = "pass" /\ ~iprev /\ f.rep.junk = "junk" ->
                     reject(v, g, 451, "iprev")
                [] OTHER -> Goto("subjectpass")

verifySubjectpass ==
  /\ step = "subjectpass"
  /\ \E s \in {"off", "pass", "fail", "error"} :
       /\ f' = [f EXCEPT !.subjectpass = s]
       /\ CASE s = "error" -> reject(v, f, 451, "subjectpass-error")
            [] s = "pass"  -> Accept("subjectpass")
            [] OTHER -> Goto("content")

suspiciousIPrevFail(g) == Stranger(g.rep) /\ ~g.iprev

\* The junk filter: the threshold is lowered to .25 after a failing reverse
\* lookup, without TLS, or when the recipient is in neither To nor Cc.
strict(g, jitter) ==
  /\ Threshold + jitter > 25
  /\ suspiciousIPrevFail(g) \/ ~g.tls \/ (~g.rs.forward /\ ~g.toMatch)
threshold(g, jitter) == IF strict(g, jitter) THEN 25 ELSE Threshold + jitter

contentAccept(g, t) == g.prob <= t \/ (~g.significant /\ ~suspiciousIPrevFail(g))

\* The last rejection. A stranger who passes DMARC is told of the subjectpass
\* token when the content was nearly acceptable or the address is blocked.
Refused(g, junkSubjectpass, reason) ==
  IF /\ g.subjectpass = "fail" /\ g.dmarc.status = "pass" /\ g.rep.method = "none"
     /\ g.blocked \/ junkSubjectpass
  THEN reject(v, g, 550, "give-subjectpass")
  ELSE reject(v, g, 451, reason)

\* The content, then, when it is acceptable, the DNS block lists.
content ==
  /\ step = "content"
  /\ \/ \E e \in {"junk-filter-error", "junk-classify-error"} :
          f' = f /\ reject(v, f, 451, e)
     \/ \E blocked \in BOOLEAN :             \* No junk filter is configured.
          LET g == [f EXCEPT !.blocked = blocked]
          IN  /\ f' = g
              /\ IF blocked THEN Refused(g, FALSE, "dns-blocklisted")
                 ELSE Accept("no-bad-signals")
     \/ \E prob \in Probabilities, significant, tls, toMatch, blocked \in BOOLEAN,
           jitter \in Jitters :
          LET h == [f EXCEPT !.prob = prob, !.significant = significant, !.tls = tls,
                             !.toMatch = toMatch]
              t == threshold(h, jitter)
              accept == contentAccept(h, t)
              g == [h EXCEPT !.blocked = accept /\ blocked]
          IN  /\ f' = g
              /\ CASE accept /\ ~blocked -> Accept("no-bad-signals")
                   [] accept /\ blocked  -> Refused(g, prob < t - 20, "dns-blocklisted")
                   [] OTHER -> Refused(g, prob < t - 20,
                                       IF strict(h, jitter) THEN "junk-content-strict" ELSE "junk-content")

Next == \/ checkRates \/ MessageRuleset \/ dmarcPolicy \/ reports \/ authRequired
        \/ determineReputation \/ signals \/ verifySubjectpass \/ content

Spec == Init /\ [][Next]_vars

-----------------------------------------------------------------------------
\* A reason to refuse the message that no later check may overrule.
Refusable ==
  \/ f.rate # "ok"
  \/ f.dmarc.use /\ f.dmarc.reject
  \/ f.required /\ ~f.validated
  \/ f.rep.conclusive /\ f.rep.junk = "junk"

\* What the checks of analyze add up to. A message reaches its destination
\* mailbox, unmarked, only without any of the final reasons to refuse it, or from
\* a validated mailing list; with a conclusively good reputation and none of
\* those reasons it is accepted, whatever SPF, reverse DNS, the content and
\* the block lists would have said. A stranger with an SPF failure or on a block
\* list is let in only with a report or with the token asked for. A report is
\* used only from an accepted message. And a refusal is permanent only when
\* the policy of the sender's domain, the destination's requirement or the offer
\* of a token is the reason: every other refusal lets the sender try again.
AnalysisSound ==
  v.done =>
    /\ v.accept /\ ~v.isReject /\ ~v.list => ~Refusable /\ v.mailbox = "destination"
    /\ f.rep.conclusive /\ f.rep.junk = "ham" => v.accept /\ ~v.isReject
    /\ v.accept /\ ~v.isReject /\ ~v.list /\ Stranger(f.rep) /\ ~f.rep.conclusive =>
         \/ f.spf = "pass" /\ ~f.blocked
         \/ v.report
    /\ v.report => v.accept /\ ~v.isReject
    /\ v.isReject => v.accept /\ f.rs.rejects /\ v.mailbox = "rejects"
                        /\ (f.exists => v.destined)
    /\ v.code = 550 => v.reason \in {"dmarc-policy", "msg-auth-required", "give-subjectpass"}
    /\ ~v.accept => v.code # 0
=============================================================================
