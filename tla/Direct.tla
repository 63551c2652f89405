-------------------------------- MODULE Direct --------------------------------
(***************************************************************************)
(* One delivery attempt of a message to recipients at a domain: directly   *)
(* to its MX hosts (queue/direct.go, with the DNS lookups and the dialing  *)
(* of smtpclient/gather.go and dial.go), or through a configured server    *)
(* (queue/submit.go). It starts with the lookups and ends with an outcome  *)
(* for every recipient.                                                    *)
(*                                                                         *)
(* An answer of DNS, of a policy lookup or of a remote host is chosen when *)
(* it is asked for. What decides the security of a connection is kept for  *)
(* the host at hand, and for each session a message was sent over.         *)
(***************************************************************************)
EXTENDS SmtpTls, Sequences, FiniteSets, SequencesExt, FiniteSetsExt

CONSTANTS
  Messages,    \* [requireTLS, dmarcReport, attempts, dialed]
  Recipients,  \* Number of recipients of a message.
  MaxHosts,    \* MX hosts of a domain.
  MaxCNAME,    \* 16 in the code.
  Addresses,   \* Sequences of addresses of a host, with a family each.
  Hosts        \* Remotes that are met.

VARIABLE d

NoHost == [matches |-> TRUE, authentic |-> FALSE, expanded |-> FALSE, dual |-> FALSE,
           ips |-> <<>>, tlsa |-> "unknown", tlsDANE |-> FALSE]
NoOpts == [mode |-> "opportunistic", pkix |-> FALSE, dane |-> "nil", ignore |-> FALSE]

\* dialed: the addresses of the host connected to before. session: the session with
\* the host, if any. out: the outcome of each recipient.
Attempt(m) ==
  [step |-> "cname", msg |-> m, cnames |-> 0, origAuth |-> TRUE, expAuth |-> TRUE,
   mx |-> FALSE, hosts |-> 0, h |-> 0, policy |-> "nil", host |-> NoHost, opts |-> NoOpts,
   fallback |-> FALSE, err |-> "none", last |-> "temporary", missing |-> 0,
   dialed |-> <<>>, todo |-> <<>>, session |-> {},
   out |-> [r \in 1..Recipients |-> "none"]]

Init == \E m \in Messages : d = Attempt(m)

No == d.msg.requireTLS = "no"
Yes == d.msg.requireTLS = "yes"

\* failMsgsDB for all messages, the end of the attempt.
FailAll(e, permanent) ==
  [Attempt(e.msg) EXCEPT !.step = "done", !.out = [r \in DOMAIN @ |-> IF permanent THEN "permanent" ELSE "temporary"]]

-----------------------------------------------------------------------------
(* Destinations of the domain.                                             *)

\* GatherDestinations for an address literal, which has no policy either.
literal ==
  /\ d.step = "cname" /\ d.cnames = 0
  /\ d' = [d EXCEPT !.step = "next", !.hosts = 1, !.origAuth = FALSE, !.expAuth = FALSE]

\* For a domain, it follows CNAMEs, up to a loop or a limit.
lookupCNAME ==
  /\ d.step = "cname"
  /\ \E answer \in {"none", "cname", "loop", "error"}, auth \in BOOLEAN :
       LET e == [d EXCEPT !.origAuth = @ /\ (d.cnames = 0 => auth), !.expAuth = @ /\ auth]
       IN  d' = CASE d.cnames = MaxCNAME \/ answer \in {"loop", "error"} -> FailAll(e, FALSE)
                  [] d.cnames < MaxCNAME /\ answer = "cname" -> [e EXCEPT !.cnames = @ + 1]
                  [] OTHER -> [e EXCEPT !.step = "mx", !.cnames = Min({@, 1})]

\* The MX records, the domain itself without any, or the null MX record.
lookupMX ==
  /\ d.step = "mx"
  /\ \E answer \in {"records", "none", "null", "invalid", "error"}, auth \in BOOLEAN, n \in 1..MaxHosts :
       LET e == [d EXCEPT !.origAuth = @ /\ (d.cnames = 0 => auth), !.expAuth = @ /\ auth]
       IN  d' = CASE answer = "error" -> FailAll(e, FALSE)
                  [] answer \in {"null", "invalid"} -> FailAll(e, TRUE)
                  [] answer = "none" -> [e EXCEPT !.step = "policy", !.hosts = 1]
                  [] OTHER -> [e EXCEPT !.step = "policy", !.mx = TRUE, !.hosts = n]

\* The MTA-STS policy of the recipient domain.
mtastsGet ==
  /\ d.step = "policy"
  /\ \E p \in {"nil", "none", "testing", "enforce", "error"} :
       d' = IF p = "error"
            THEN IF No THEN [d EXCEPT !.step = "next"] ELSE FailAll(d, FALSE)
            ELSE [d EXCEPT !.step = "next", !.policy = p]

enforceMTASTS == d.policy = "enforce"

\* All hosts failed. Without REQUIRETLS at any of them, it is permanent.
Exhausted(e) == FailAll(e, e.missing = e.hosts \/ e.last = "permanent")

\* The next host. One that an enforced policy does not name is skipped.
nextHost ==
  /\ d.step = "next"
  /\ IF d.h = d.hosts THEN d' = Exhausted(d)
     ELSE \E matches \in BOOLEAN :
            d' = IF enforceMTASTS /\ ~matches /\ ~No
                 THEN [d EXCEPT !.h = @ + 1, !.last = "temporary"]
                 ELSE [d EXCEPT !.h = @ + 1, !.step = "ips", !.fallback = FALSE,
                                !.dialed = IF d.h = 0 THEN d.msg.dialed ELSE <<>>,
                                !.host = [NoHost EXCEPT !.matches = matches \/ ~enforceMTASTS],
                                !.opts = [NoOpts EXCEPT !.mode = IF enforceMTASTS THEN "requiredstarttls"
                                                                 ELSE "opportunistic",
                                                        !.pkix = enforceMTASTS, !.ignore = No]]

-----------------------------------------------------------------------------
(* Addresses and DANE records of a host.                                   *)

Family(ip) == ip[1]

\* Addresses of the other family than that of the last address dialed come
\* first; the last address itself comes first in its family when it was the
\* only one dialed of that family.
orderIPs(ips, prev) ==
  LET lastIP == Last(prev)
      preferPrev == Cardinality({i \in DOMAIN prev : Family(prev[i]) = Family(lastIP)}) = 1
      Other == SelectSeq(ips, LAMBDA ip : Family(ip) # Family(lastIP))
      Same == SelectSeq(ips, LAMBDA ip : Family(ip) = Family(lastIP))
      Again == SelectSeq(Same, LAMBDA ip : preferPrev /\ ip = lastIP)
  IN  IF prev = <<>> THEN ips
      ELSE Other \o Again \o SelectSeq(Same, LAMBDA ip : ~(preferPrev /\ ip = lastIP))

\* The result of deliverHost is an error.
HostError(e, err) ==
  [e EXCEPT !.step = "result", !.err = err, !.session = {}, !.todo = <<>>, !.opts = NoOpts,
            !.host = [NoHost EXCEPT !.matches = e.host.matches, !.tlsa = e.host.tlsa,
                                    !.tlsDANE = e.host.tlsDANE]]

\* DANE is only for hosts reached through secure DNS answers alone.
destAuthentic(e) == e.host.authentic /\ e.origAuth /\ (e.mx => e.expAuth)

GatherIPs ==
  /\ d.step = "ips"
  /\ \/ d' = HostError(d, "temporary")
     \/ \E auth, exp \in BOOLEAN, ips \in Addresses :
          LET e == [d EXCEPT !.host = [@ EXCEPT !.authentic = auth, !.expanded = exp,
                                         !.dual = Cardinality({Family(ips[i]) : i \in DOMAIN ips}) = 2,
                                         !.ips = orderIPs(ips, d.dialed)]]
          IN  d' = [e EXCEPT !.step = IF destAuthentic(e) /\ d.opts.mode # "skip" THEN "tlsa" ELSE "dial"]

\* What a lookup of TLSA records says: none, or not securely; usable ones or
\* only unusable ones; or an error.
lookupTLSACNAME == {"none", "insecure", "usable", "unusable", "error"}

\* DANE is required as soon as there is a record, usable or not, or when the
\* lookup fails.
filterUsable(host, found) ==
  [host EXCEPT !.tlsDANE = found \in {"usable", "unusable", "error"}, !.tlsa = found]

\* What deliverHost makes of the records: TLS, verified with the usable ones. An
\* error of the lookup fails the host.
DANE(e) ==
  CASE e.host.tlsDANE /\ e.host.tlsa # "error" ->
         [e EXCEPT !.opts = [@ EXCEPT !.mode = "requiredstarttls",
                               !.dane = IF e.host.tlsa = "usable" THEN "records" ELSE "nil"]]
    [] e.host.tlsa = "error" /\ ~No -> HostError(e, "temporary")
    [] OTHER -> e

\* The records of the expanded name count, then those of the host's own name.
GatherTLSA ==
  /\ d.step = "tlsa"
  /\ \E first, second \in lookupTLSACNAME :
       LET both == d.expAuth /\ d.host.expanded
           found == IF both /\ first \in {"none", "insecure"} THEN second ELSE first
       IN  d' = DANE([d EXCEPT !.step = "dial", !.host = filterUsable(@, found)])

\* Verified TLS is required, and the host offers no way to verify it.
NoMechanism == Yes /\ d.opts.dane # "records" /\ ~enforceMTASTS

\* Dial tries the addresses in order; k of them fail. The one connected to is
\* remembered.
Dial ==
  /\ d.step = "dial"
  /\ \/ NoMechanism /\ d' = HostError(d, "missing")
     \/ /\ ~NoMechanism
        /\ \E k \in 0..Len(d.host.ips) :
             d' = IF k = Len(d.host.ips) THEN HostError(d, "temporary")
                  ELSE [d EXCEPT !.step = "session", !.dialed = Append(@, d.host.ips[k + 1])]

-----------------------------------------------------------------------------
(* The session with a host.                                                *)

\* inspectError: a rejection for policy reasons gets a second chance when the host
\* has addresses of both families.
inspectError(e, err, policy) ==
  HostError(e, IF err = "permanent" /\ e.msg.attempts = 1 /\ e.host.dual /\ policy
               THEN "temporary" ELSE err)

All == [r \in 1..Recipients |-> r]

SessionWith(opts, remote, h, limit) ==
  [opts |-> opts, remote |-> remote, tls |-> NewTLS(opts, remote).tls, h |-> h, limit |-> limit]

\* limit: the recipients the host accepts in a transaction, 0 for no limit.
NewClient ==
  \/ /\ d.step = "session"
     /\ \E remote \in Hosts, limit \in {0, 1} :
          LET err == NewTLS(d.opts, remote).err
          IN  \/ err = "tls" /\ d' = inspectError(d, "tls", FALSE)
              \/ err = "none" /\ d' = [d EXCEPT !.step = "transaction", !.todo = All,
                                                !.session = {SessionWith(d.opts, remote, d.h, limit)}]
  \* The connection, the greeting, EHLO, or storing what the domain supports fails.
  \/ /\ d.step = "session"
     /\ \E err \in {"permanent", "temporary"}, policy \in BOOLEAN : d' = inspectError(d, err, policy)

\* The number of recipients of the next transaction.
BatchSize(limit, todo) == IF limit > 0 /\ limit < Len(todo) THEN limit ELSE Len(todo)

\* Recipients still to do: those refused for now, and those not tried.
Unanswered(todo, n, again) == again \o SubSeq(todo, n + 1, Len(todo))

\* One transaction of deliverHost. An error for all recipients fails the host;
\* one for some of them fails those. Otherwise each has a response; a refused
\* recipient is put with the failed ones without it, as a temporary failure.
transaction ==
  /\ d.step = "transaction" /\ d.todo # <<>>
  /\ \E s \in d.session :
       LET n == BatchSize(s.limit, d.todo)
           batch == SubSeq(d.todo, 1, n)
           unsupported == Yes /\ ~s.remote.requiretls
           Outcome(Of(_)) == [r \in DOMAIN d.out |-> IF r \in Range(batch) THEN Of(r) ELSE d.out[r]]
       IN  \/ \E err \in {"permanent", "temporary"}, policy \in BOOLEAN :
                d' = CASE unsupported /\ n = Recipients -> HostError(d, "missing")
                       [] ~unsupported /\ n = Recipients -> inspectError(d, err, policy)
                       [] OTHER -> [d EXCEPT !.todo = Unanswered(@, n, <<>>),
                                             !.out = Outcome(LAMBDA r : IF unsupported THEN "temporary" ELSE err)]
           \/ /\ ~unsupported
              /\ \E codes \in [Range(batch) -> {250, 452, 550}] :
                   LET again == SelectSeq(Tail(batch), LAMBDA r : codes[r] = 452)
                   IN  /\ 250 \in Range(codes)
                       /\ d' = [d EXCEPT !.todo = Unanswered(@, n, again),
                                         !.out = Outcome(LAMBDA r : CASE codes[r] = 250 -> "delivered"
                                                                      [] r \in Range(again) -> "none"
                                                                      [] OTHER -> "temporary")]

\* All recipients have an answer: delivered ones are retired, failed ones marked.
settle ==
  /\ d.step = "transaction" /\ d.todo = <<>>
  /\ d' = [d EXCEPT !.step = "done"]

\* As Fallback, but when DANE is required as well.
FallbackDANE ==
  /\ d.err = "tls" /\ ~d.fallback
  /\ (~enforceMTASTS /\ ~d.msg.dmarcReport) \/ No

\* After a TLS error the host is tried once more without TLS, unless a policy,
\* DANE or the kind of message forbids it.
Fallback ==
  /\ d.err = "tls" /\ ~d.fallback
  /\ (~enforceMTASTS /\ ~d.host.tlsDANE /\ ~d.msg.dmarcReport) \/ No

\* What becomes of an error of deliverHost: the fallback, the next host, or the
\* end after a permanent one.
result ==
  /\ d.step = "result"
  /\ d' = CASE Fallback ->
                 [d EXCEPT !.step = "ips", !.fallback = TRUE, !.err = "none",
                           !.host = [@ EXCEPT !.tlsDANE = FALSE],
                           !.opts = [NoOpts EXCEPT !.mode = "skip", !.ignore = No]]
            [] ~Fallback /\ d.err = "permanent" -> FailAll([d EXCEPT !.last = "permanent"], TRUE)
            [] OTHER -> [d EXCEPT !.step = "next", !.last = "temporary", !.err = "none",
                                  !.missing = IF d.err = "missing" THEN @ + 1 ELSE @]

-----------------------------------------------------------------------------
(* Delivery through a configured server.                                   *)

\* TLS is immediate or required, verified unless configured otherwise, or off.
Transports ==
  {[NoOpts EXCEPT !.mode = "immediate", !.pkix = TRUE],
   [NoOpts EXCEPT !.mode = "requiredstarttls", !.pkix = TRUE],
   [NoOpts EXCEPT !.mode = "requiredstarttls"], [NoOpts EXCEPT !.mode = "skip"]}

\* processDeliveries: an error for all, or a response for each recipient.
processDeliveries(e) ==
  \/ \E err \in {"permanent", "temporary"} : d' = FailAll(e, err = "permanent")
  \/ \E answers \in [1..Recipients -> {"delivered", "temporary", "permanent"}] :
       /\ \E r \in 1..Recipients : answers[r] = "delivered"
       /\ d' = [e EXCEPT !.step = "done", !.out = answers]

deliverSubmit ==
  /\ d.step = "cname" /\ d.cnames = 0
  /\ \E opts \in Transports :
       IF Yes /\ (opts.mode = "skip" \/ ~opts.pkix) THEN d' = FailAll(d, TRUE)
       ELSE \/ \E permanent \in BOOLEAN : d' = FailAll(d, permanent)  \* Dialing, or the session.
            \/ \E remote \in Hosts :
                 IF NewTLS(opts, remote).err # "none" \/ (Yes /\ ~remote.requiretls) THEN d' = FailAll(d, FALSE)
                 ELSE processDeliveries([d EXCEPT !.session = {SessionWith(opts, remote, 0, 0)}])

Next ==
  \/ literal \/ lookupCNAME \/ lookupMX \/ mtastsGet \/ nextHost \/ GatherIPs \/ GatherTLSA \/ Dial
  \/ NewClient \/ transaction \/ settle \/ result \/ deliverSubmit

Spec == Init /\ [][Next]_d

-----------------------------------------------------------------------------
(* Properties.                                                             *)

\* What a message is sent over is what its sender and the recipient domain ask
\* for. A policy in mode enforce: a host it names, with a valid certificate. DANE
\* records: a certificate that matches, or TLS at least when none is usable;
\* never when the lookup of the records failed. These are set aside only for a
\* message with "TLS-Required: No". A message that requires TLS goes to a
\* verified host that requires it as well. A DMARC report is not sent in the
\* clear to a host that offers TLS. DANE counts only with secure DNS answers.
\* And each recipient has one outcome in the end, delivered only by one host.
PolicyHonoured ==
  LET delivered == \E r \in DOMAIN d.out : d.out[r] = "delivered"
  IN  /\ \A u \in d.session :
           /\ Promised(u.opts, u.remote, u.tls)
           /\ ~No /\ u.h # 0 =>
                /\ d.policy = "enforce" => d.host.matches /\ u.tls /\ u.remote.pkix
                /\ d.host.tlsa = "usable" => u.tls /\ u.remote.dane
                /\ d.host.tlsa = "unusable" => u.tls
                /\ d.host.tlsa # "error"
                /\ d.msg.dmarcReport /\ u.remote.announced => u.tls
           /\ Yes => u.tls /\ (u.remote.pkix \/ (d.host.tlsa = "usable" /\ u.remote.dane))
           /\ Yes /\ delivered => u.remote.requiretls
      /\ d.host.tlsa # "unknown" /\ d.session # {} /\ ~d.fallback => d.host.authentic /\ d.origAuth /\ (d.mx => d.expAuth)
      /\ d.step = "done" => \A r \in DOMAIN d.out : d.out[r] # "none"
      /\ delivered => d.step \in {"transaction", "done"} /\ \E u \in d.session : u.h = d.h
      /\ d.step \in {"tlsa", "dial"} /\ d.dialed # <<>> /\ d.host.dual =>
           Family(d.host.ips[1]) # Family(Last(d.dialed))
=============================================================================
