---------------------------- MODULE Verification ----------------------------
(***************************************************************************)
(* Verification of the sender of an incoming message: evaluation of the    *)
(* SPF record of the domain of MAIL FROM (spf/spf.go), and of the DMARC    *)
(* policy of the domain of the From header (dmarc/dmarc.go) with the       *)
(* results for SPF and DKIM (module Dkim).                                 *)
(*                                                                         *)
(* The DNS is a function from questions (a kind and a name) to answers     *)
(* with a status, "ok", "notfound" or "temp". A set of questions can fail  *)
(* temporarily. IP addresses are "me", for which the record is evaluated,  *)
(* and others.                                                             *)
(***************************************************************************)
EXTENDS Integers, Sequences, FiniteSets, SequencesExt

CONSTANTS
  Zones,          \* Contents of the DNS.
  Messages,       \* Records: from (domain of the header), mailfrom, dkim (domains with good signatures).
  OrgDomain,      \* Function: domain to its organizational domain.
  DNSMax,         \* dnsRequestsMax of spf.go (10).
  VoidMax,        \* voidLookupsMax (2).
  HostsMax,       \* MX hosts and PTR names that are followed (10).
  MaxFailing,     \* Bound: questions that fail.
  Patience        \* Bound: redirects that are followed until the deadline of the context.

VARIABLE v

\* An answer: st and a sequence of records. Questions that are not in the zone have none.
Ask(e, kind, name) ==
  IF <<kind, name>> \in e.failing THEN [st |-> "temp", rs |-> <<>>]
  ELSE IF <<kind, name>> \in DOMAIN e.zone THEN [st |-> "ok", rs |-> e.zone[<<kind, name>>]]
  ELSE [st |-> "notfound", rs |-> <<>>]

-----------------------------------------------------------------------------
(* SPF.                                                                    *)

\* Counters of requests and of lookups without answer, shared by nested evaluations.
trackLookupLimits(c) == c.dns < DNSMax /\ c.void < VoidMax
Counted(c) == [c EXCEPT !.dns = @ + 1]
trackVoidLookup(c, a) == IF a.st = "notfound" THEN [c EXCEPT !.void = @ + 1] ELSE c

\* Result of a mechanism: err is a status to end with, if not "".
Match(m, c) == [m |-> m, err |-> "", c |-> c]
Ends(err, c) == [m |-> FALSE, err |-> err, c |-> c]

Has(a, ip) == ip \in ToSet(a.rs)

\* The first of names that resolves to the address, and counters.
RECURSIVE verifyNames(_, _, _)
verifyNames(e, names, c) ==
  IF names = <<>> THEN [name |-> "unknown", c |-> c]
  ELSE LET a == Ask(e, "ip", Head(names))
           c2 == trackVoidLookup(c, a)
       IN  IF Has(a, "me") THEN [name |-> Head(names), c |-> c2] ELSE verifyNames(e, Tail(names), c2)

\* A domain-spec is a name, or a macro "d", "p" or an invalid one. Names in PTR records are
\* tried in order: the domain itself first.
expandDomainSpec(e, spec, dom, c) ==
  IF spec = "%d" THEN [ok |-> TRUE, name |-> dom, c |-> c]
  ELSE IF spec = "%c" THEN [ok |-> FALSE, name |-> "", c |-> c]
  ELSE IF spec # "%p" THEN [ok |-> TRUE, name |-> spec, c |-> c]
  ELSE IF ~trackLookupLimits(c) THEN [ok |-> FALSE, name |-> "", c |-> c]
  ELSE LET a == Ask(e, "ptr", "me")
           isDom(n) == n = dom
           other(n) == n # dom
           r == verifyNames(e, SelectSeq(a.rs, isDom) \o SelectSeq(a.rs, other), trackVoidLookup(Counted(c), a))
       IN  [ok |-> TRUE, name |-> r.name, c |-> r.c]

checkHostIP(e, host, c) ==
  LET a == Ask(e, "ip", host)
  IN  IF a.st = "temp" THEN Ends("temperror", c) ELSE Match(Has(a, "me"), trackVoidLookup(c, a))

RECURSIVE checkMX(_, _, _, _)
checkMX(e, hosts, n, c) ==
  IF hosts = <<>> THEN Match(FALSE, c)
  ELSE IF n >= HostsMax THEN Ends("permerror", c)
  ELSE LET r == checkHostIP(e, Head(hosts), c)
       IN  IF r.err # "" \/ r.m THEN r ELSE checkMX(e, Tail(hosts), n + 1, r.c)

MechMX(e, host, c) ==
  LET a == Ask(e, "mx", host)
      c2 == trackVoidLookup(c, a)
  IN  IF a.st = "temp" THEN Ends("temperror", c2)
      ELSE IF a.rs = <<".">> THEN Match(FALSE, c2) ELSE checkMX(e, a.rs, 0, c2)

\* Names in the domain of which an address is the remote one. Errors are ignored.
MechPTR(e, host, c) ==
  LET a == Ask(e, "ptr", "me")
      inside(n) == n = host
      names == SelectSeq(a.rs, inside)
      r == verifyNames(e, SubSeq(names, 1, IF Len(names) > HostsMax THEN HostsMax ELSE Len(names)), trackVoidLookup(c, a))
  IN  IF a.st = "temp" THEN Ends("temperror", c) ELSE Match(r.name # "unknown", r.c)

MechExists(e, spec, dom, c) ==
  LET x == expandDomainSpec(e, spec, dom, c)
      a == Ask(e, "ip", x.name)
  IN  IF ~x.ok THEN Ends("permerror", x.c)
      ELSE IF a.st = "temp" THEN Ends("temperror", x.c)
      ELSE Match(a.rs # <<>>, trackVoidLookup(x.c, a))

\* The one SPF record among the TXT records of a domain. Records are sequences of directives
\* and a redirect; "other" is text that is no SPF record, "syntax" a bad one.
Lookup(e, dom) ==
  LET a == Ask(e, "txt", dom)
      spf(r) == r.kind # "other"
      rs == SelectSeq(a.rs, spf)
  IN  IF a.st = "temp" THEN [st |-> "temperror", r |-> <<>>]
      ELSE IF rs = <<>> THEN [st |-> "none", r |-> <<>>]
      ELSE IF \E i \in DOMAIN rs : rs[i].kind = "syntax" THEN [st |-> "permerror", r |-> <<>>]
      ELSE IF Len(rs) > 1 THEN [st |-> "permerror", r |-> <<>>]
      ELSE [st |-> "", r |-> rs[1]]

Qualified == [q \in {"+", "?", "-", "~"} |->
                CASE q = "+" -> "pass" [] q = "?" -> "neutral" [] q = "-" -> "fail" [] q = "~" -> "softfail"]

\* What an include says, for the result of the included domain. 
\* As Included, but with a temporary error as a result that does not match.
IncludedNoTemp(st, c) ==
  CASE st = "pass" -> Match(TRUE, c)
    [] st \in {"permerror", "none"} -> Ends("permerror", c)
    [] OTHER -> Match(FALSE, c)

Included(st, c) ==
  CASE st = "pass" -> Match(TRUE, c)
    [] st = "temperror" -> Ends("temperror", c)
    [] st \in {"permerror", "none"} -> Ends("permerror", c)
    [] OTHER -> Match(FALSE, c)

\* Evaluates the directives of a record, then its redirect.
RECURSIVE evaluate(_, _, _, _, _)

checkHost(e, dom, c, left) ==
  LET l == Lookup(e, dom)
  IN  IF left = 0 THEN [st |-> "temperror", c |-> c]
      ELSE IF l.st # "" THEN [st |-> l.st, c |-> c]
      ELSE evaluate(e, l.r, dom, c, left)

\* No directive matched.
Redirected(e, r, dom, c, left) ==
  LET x == expandDomainSpec(e, r.redirect, dom, c)
      s == checkHost(e, x.name, x.c, left - 1)
  IN  IF r.redirect = "" THEN [st |-> "neutral", c |-> c]
      ELSE IF ~x.ok THEN [st |-> "permerror", c |-> x.c]
      ELSE [s EXCEPT !.st = IF @ = "none" THEN "permerror" ELSE @]

hostOf(spec, dom) == IF spec = "" THEN dom ELSE spec

evaluate(e, r, dom, c0, left) ==
  IF r.dirs = <<>> THEN Redirected(e, r, dom, c0, left)
  ELSE
    LET d == Head(r.dirs)
        limited == d.mech \in {"include", "a", "mx", "ptr", "exists"}
        c == IF limited THEN Counted(c0) ELSE c0
        host == hostOf(d.spec, dom)
        x == expandDomainSpec(e, d.spec, dom, c)
        res == CASE d.mech = "all" -> Match(TRUE, c)
                 [] d.mech = "ip" -> Match(d.spec = "me", c)
                 [] d.mech = "a" -> checkHostIP(e, host, c)
                 [] d.mech = "mx" -> MechMX(e, host, c)
                 [] d.mech = "ptr" -> MechPTR(e, host, c)
                 [] d.mech = "exists" -> MechExists(e, d.spec, dom, c)
                 [] d.mech = "include" ->
                      IF ~x.ok THEN Ends("permerror", x.c)
                      ELSE LET s == checkHost(e, x.name, x.c, left) IN Included(s.st, s.c)
    IN  IF limited /\ ~trackLookupLimits(c0) THEN [st |-> "permerror", c |-> c0]
        ELSE IF res.err # "" THEN [st |-> res.err, c |-> res.c]
        ELSE IF res.m THEN [st |-> Qualified[d.q], c |-> res.c]
        ELSE evaluate(e, [r EXCEPT !.dirs = Tail(@)], dom, res.c, left)

\* For MAIL FROM, or else the name in EHLO.
SpfVerify(e, m) == checkHost(e, m.mailfrom, [dns |-> 0, void |-> 0], Patience).st

-----------------------------------------------------------------------------
(* DMARC.                                                                  *)

\* Several records are as none.
lookupRecord(e, dom) ==
  LET a == Ask(e, "dmarc", dom)
      isdmarc(r) == r.kind # "other"
      rs == SelectSeq(a.rs, isdmarc)
  IN  IF a.st = "temp" THEN [st |-> "temperror", rs |-> <<>>]
      ELSE IF \E i \in DOMAIN rs : rs[i].kind = "syntax" THEN [st |-> "permerror", rs |-> <<>>]
      ELSE [st |-> "none", rs |-> IF Len(rs) = 1 THEN rs ELSE <<>>]

\* At the domain, otherwise at its organizational domain.
DmarcLookup(e, from) ==
  LET l == lookupRecord(e, from)
      org == OrgDomain[from]
  IN  IF l.st # "none" \/ l.rs # <<>> \/ org = from THEN [st |-> l.st, rs |-> l.rs, dom |-> from]
      ELSE LET o == lookupRecord(e, org) IN [st |-> o.st, rs |-> o.rs, dom |-> org]

Aligned(relaxed, from, dom) == from = dom \/ (relaxed /\ OrgDomain[from] = OrgDomain[dom])

\* dkim: sequence of results with st and dom. A later good signature ends the search.
RECURSIVE dkimAligned(_, _, _, _)
dkimAligned(rs, relaxed, from, acc) ==
  IF rs = <<>> THEN [pass |-> FALSE, temp |-> acc]
  ELSE IF Head(rs).st = "temperror" THEN dkimAligned(Tail(rs), relaxed, from, TRUE)
  ELSE IF Head(rs).st = "pass" /\ Aligned(relaxed, from, Head(rs).dom) THEN [pass |-> TRUE, temp |-> acc]
  ELSE dkimAligned(Tail(rs), relaxed, from, acc)

DmarcVerify(e, from, dkim, spf, mailfrom) ==
  LET l == DmarcLookup(e, from)
      r == l.rs[1]
      policy == IF l.dom # from /\ r.sub # "" THEN r.sub ELSE r.policy
      d == dkimAligned(dkim, r.adkim, from, FALSE)
      pass == d.pass \/ (spf = "pass" /\ Aligned(r.aspf, from, mailfrom))
      temp == spf = "temperror" \/ d.temp
  IN  IF l.rs = <<>> THEN [reject |-> FALSE, st |-> l.st]
      ELSE IF pass THEN [reject |-> FALSE, st |-> "pass"]
      ELSE IF temp THEN [reject |-> FALSE, st |-> "temperror"]
      ELSE [reject |-> policy # "none", st |-> "fail"]

-----------------------------------------------------------------------------
(* Verification of a message, as DNS questions fail temporarily.           *)

\* Good signatures, if their key can be found.
dkimResults(e, m) ==
  [i \in DOMAIN m.dkim |-> [dom |-> m.dkim[i], st |-> IF <<"dkim", m.dkim[i]>> \in e.failing THEN "temperror" ELSE "pass"]]

Verdict(e, m) == DmarcVerify(e, m.from, dkimResults(e, m), SpfVerify(e, m), m.mailfrom)

Questions(m) == DOMAIN v.zone \cup {<<"dkim", m.dkim[i]>> : i \in DOMAIN m.dkim}

Init == \E z \in Zones, m \in Messages :
          v = [zone |-> z, failing |-> {}, msg |-> m, spf |-> "", verdict |-> [reject |-> FALSE, st |-> ""]]

\* A question can no longer be answered.
Fail == Cardinality(v.failing) < MaxFailing /\ \E q \in Questions(v.msg) \ v.failing :
          v' = [v EXCEPT !.failing = @ \cup {q}, !.spf = "", !.verdict = [reject |-> FALSE, st |-> ""]]

Verify == /\ v.verdict.st = ""
          /\ v' = [v EXCEPT !.spf = SpfVerify(v, v.msg), !.verdict = Verdict(v, v.msg)]

Next == Fail \/ Verify

UsesPTR == \E q \in DOMAIN v.zone : q[1] = "ptr"

\* A message that passes DMARC when the DNS answers all questions is never rejected because
\* some questions fail temporarily, whichever these are, with include, redirect, mx and
\* macros in between: the result is pass or temporary. Except when PTR records are involved,
\* for which errors are ignored.
TransientNeverRejects ==
  (v.verdict.reject /\ ~UsesPTR) => Verdict([v EXCEPT !.failing = {}], v.msg).st # "pass"
=============================================================================
