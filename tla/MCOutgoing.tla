----------------------------- MODULE MCOutgoing -----------------------------
(***************************************************************************)
(* Outgoing mail for TLC: a session of the SMTP client, an attempt to      *)
(* deliver directly, the webhooks about deliveries, the cache of MTA-STS   *)
(* policies, and the reports that are sent about DMARC and TLS. Each is a  *)
(* part of its own, chosen in the initial state.                           *)
(***************************************************************************)
EXTENDS Integers, Sequences, TLC

VARIABLES part, s

-----------------------------------------------------------------------------
\* All ways to ask for TLS, with hosts of all kinds; and deliveries of two
\* messages over one connection, with and without pipelining.
Opts(mode, pkix, dane, ignore, auth) ==
  [mode |-> mode, pkix |-> pkix, dane |-> dane, ignore |-> ignore, auth |-> auth]
AllOpts ==
  {Opts(mode, pkix, dane, ignore, FALSE) :
     mode \in {"opportunistic", "requiredstarttls", "skip"}, pkix \in BOOLEAN,
     dane \in {"nil", "records"}, ignore \in BOOLEAN}
  \cup {Opts("immediate", TRUE, "nil", FALSE, TRUE)}
TLS == INSTANCE SmtpTls
Supporting == {r \in TLS!Remotes : r.requiretls}
Session(opts, host, announces, messages) ==
  [opts |-> opts, host |-> host, announces |-> announces, messages |-> messages]
Client ==
  INSTANCE SmtpClient WITH
    Sessions <-
      {Session(o, h, {"REQUIRETLS"}, 0) : o \in AllOpts, h \in Supporting}
      \cup {Session(Opts("opportunistic", FALSE, "nil", FALSE, FALSE),
                    CHOOSE h \in Supporting : ~h.announced, x, 2) :
              x \in {{}, {"PIPELINING", "SMTPUTF8", "SIZE"}}},
    Needs <- {{}, {"SMTPUTF8"}, {"BIG"}},
    Recipients <- {1, 2}

-----------------------------------------------------------------------------
\* A DMARC report, messages with "TLS-Required: No" and with REQUIRETLS, and one that
\* was attempted before, over IPv4. A host that does not announce STARTTLS refuses it, a
\* handshake fails as a whole, and a certificate that is verified in no way is left out.
Message(requireTLS, dmarcReport, attempts, dialed) ==
  [requireTLS |-> requireTLS, dmarcReport |-> dmarcReport, attempts |-> attempts,
   dialed |-> dialed]
Delivery ==
  INSTANCE Direct WITH
    d <- s,
    Messages <- {Message("nil", TRUE, 1, <<>>), Message("no", FALSE, 1, <<>>),
                 Message("yes", FALSE, 1, <<>>), Message("nil", FALSE, 2, << <<4, 1>> >>)},
    Hosts <- {r \in TLS!Remotes : /\ r.starttls => r.announced
                                  /\ r.starttls = r.handshake
                                  /\ r.pkix \/ r.dane
                                  /\ r.handshake \/ (r.pkix /\ r.dane /\ r.requiretls)},
    Recipients <- 2, MaxHosts <- 2, MaxCNAME <- 1,
    Addresses <- {<< <<4, 1>>, <<6, 1>> >>}

-----------------------------------------------------------------------------
\* Two messages of one submission, with hooks for the same URL.
Webhooks ==
  INSTANCE Hooks WITH
    q <- s, Msgs <- {1, 2}, URLOf <- <<"u", "u">>, AddressOf <- <<"a", "b">>,
    Batch <- <<{2}, {1}>>, MaxConcurrent <- 1, Intervals <- 1, Keep <- TRUE,
    MaxHooks <- 2, MaxEvents <- 1, MaxPosts <- 2, MaxAdmin <- 1,
    Subscribed <- {"delayed", "delivered"}

\* One message, with several messages about it.
Notices ==
  INSTANCE Hooks WITH
    q <- s, Msgs <- {1}, URLOf <- <<"u">>, AddressOf <- <<"a">>, Batch <- <<{}>>,
    MaxConcurrent <- 1, Intervals <- 1, Keep <- TRUE,
    MaxHooks <- 2, MaxEvents <- 3, MaxPosts <- 2, MaxAdmin <- 1,
    Subscribed <- {"delayed", "delivered"}

\* A policy that is enforced and then withdrawn, got by two deliveries at a time.
Policies ==
  INSTANCE MtaSts WITH
    m <- s, Gets <- {"g1", "g2"},
    Policies <- <<[mode |-> "enforce", maxAge |-> 1], [mode |-> "none", maxAge |-> 2]>>,
    Hold <- 1, RefreshAge <- 0, UnusedAge <- 0, MaxTime <- 1, MaxFailures <- 1

-----------------------------------------------------------------------------
\* Reports of one domain, hourly or for a day of two hours, to addresses of its own
\* and of others.
URI(addr, ok, ext, samehost, small) ==
  [addr |-> addr, ok |-> ok, ext |-> ext, samehost |-> samehost, small |-> small]
DMARC ==
  INSTANCE DmarcReports WITH
    d <- s, Domains <- {"x"}, DayHours <- 2, IntervalOpts <- <<2>>, Seconds <- {0, 3601},
    RUAs <- {<<URI("a", TRUE, FALSE, TRUE, FALSE), URI("b", TRUE, TRUE, TRUE, TRUE)>>,
             <<URI("b", FALSE, FALSE, TRUE, FALSE)>>},
    Replacements <- {<<>>, <<URI("a", TRUE, TRUE, TRUE, FALSE),
                             URI("b", TRUE, TRUE, FALSE, FALSE)>>},
    MaxEvals <- 2, MaxHours <- 4, MaxFailures <- 1, MaxAdmin <- 1

\* A recipient domain "r" and a host "m" that is also a recipient domain.
Address(addr, mailto) == [addr |-> addr, mailto |-> mailto]
Attempt(rcpt, hosts, sts, fail, kind) ==
  [rcpt |-> rcpt, hosts |-> hosts, sts |-> sts, fail |-> fail, kind |-> kind]
TLSRPT ==
  INSTANCE TlsReports WITH
    t <- s, Domains <- {"r", "m"},
    Attempts <- {Attempt("r", <<"m">>, "sts", TRUE, "mail"),
                 Attempt("m", <<"m">>, "none", TRUE, "mail"),
                 Attempt("m", <<>>, "sts", TRUE, "tlsreport"),
                 Attempt("r", <<"m">>, "none", FALSE, "dmarcreport")},
    RUAs <- {<<Address("p", TRUE), Address("h", FALSE), Address("q", TRUE)>>},
    AllSuccess <- FALSE, MaxSessions <- 2, MaxDays <- 1, MaxFailures <- 2, MaxAdmin <- 1

-----------------------------------------------------------------------------
Init ==
  \/ part = "client" /\ Client!Init
  \/ part = "direct" /\ Delivery!Init
  \/ part = "hooks" /\ Webhooks!Init
  \/ part = "notices" /\ Notices!Init
  \/ part = "mtasts" /\ Policies!Init
  \/ part = "dmarc" /\ DMARC!Init
  \/ part = "tlsrpt" /\ TLSRPT!Init

Next ==
  /\ UNCHANGED part
  /\ \/ part = "client" /\ Client!Next
     \/ part = "direct" /\ Delivery!Next
     \/ part = "hooks" /\ Webhooks!Next
     \/ part = "notices" /\ Notices!Next
     \/ part = "mtasts" /\ Policies!Next
     \/ part = "dmarc" /\ DMARC!Next
     \/ part = "tlsrpt" /\ TLSRPT!Next

Spec == Init /\ [][Next]_<<part, s>>

\* Only the reports about TLS.
TlsReportsSpec == (part = "tlsrpt" /\ Init) /\ [][Next]_<<part, s>>

-----------------------------------------------------------------------------
\* The answer of the SMTP client is what happened: see DeliveredExactly of SmtpClient.
DeliveredExactly == part = "client" => Client!DeliveredExactly

\* A delivery honours the policies of sender and recipient: see PolicyHonoured of
\* Direct.
PolicyHonoured == part = "direct" => Delivery!PolicyHonoured

\* The queue of webhooks is in order, whatever happens at the same time: see HooksSound
\* of Hooks.
HooksSound ==
  /\ part = "hooks" => Webhooks!HooksSound
  /\ part = "notices" => Notices!HooksSound

\* A policy from the cache is as fresh as it is said to be, and not given up: see
\* PolicyFresh of MtaSts.
PolicyFresh == part = "mtasts" => Policies!PolicyFresh

\* What is removed was reported, as AccountStep of DmarcReports says, and is reported
\* once, as TlsReportedOnce of TlsReports says of the state after every step.
ReportsAccounted ==
  [][/\ part = "dmarc" => DMARC!AccountStep
     /\ part = "tlsrpt" => TLSRPT!TlsReportedOnce']_<<part, s>>

\* The results of a TLS session stay in the database when the TLSRPT record could not be
\* looked up for now: see KeptOnTemporaryError of TlsReports.
KeptOnTemporaryError == TLSRPT!KeptOnTemporaryError
=============================================================================
