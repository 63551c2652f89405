----------------------------- MODULE MCIncoming -----------------------------
(***************************************************************************)
(* Incoming mail for TLC: a connection of the SMTP server, the two halves  *)
(* of the verification of a message (DKIM signatures; SPF and DMARC), the  *)
(* reputation of its sender, and the decision about it. Each is a part of  *)
(* its own, chosen in the initial state; the other parts' variables keep   *)
(* one value.                                                              *)
(***************************************************************************)
EXTENDS SmtpServer, TLC

CONSTANTS mjl, ops, mjlAddr, opsAddr, list, nobody, remote

VARIABLES
  part,
  s,            \* State of the parts "dkim", "dns" and "reputation".
  step, f, v    \* State of the part "analyze".

\* Two accounts with an address each, an alias for both.
TwoOwners == (mjlAddr :> mjl) @@ (opsAddr :> ops)
ListMembers == list :> <<mjlAddr, opsAddr>>

\* A listener of each kind, with TLS available; for deliveries it may be required.
OneOfEachKind ==
  {SmtpListener(TRUE, FALSE), SmtpListener(TRUE, TRUE),
   SubmissionListener(TRUE, FALSE), SubmissionsListener}

-----------------------------------------------------------------------------
\* Signed messages: an empty body, one with spaces and empty lines.
Selectors ==
  {[headerRelaxed |-> h, bodyRelaxed |-> b, seal |-> z,
    headers |-> <<"from", "to", "subject">>, expiration |-> IF z THEN 1 ELSE 0] :
     h, b, z \in BOOLEAN}
Key(key, test) == [kind |-> "dkim", key |-> key, test |-> test]
Answer(name, st, rs) == [name |-> name, st |-> st, rs |-> rs]
DKIM ==
  INSTANCE Dkim WITH
    k <- s,
    Bodies <- {<<>>, <<"x", "n">>, <<"n", "x", "s", "x", "n", "s", "n">>, <<"s", "n", "n">>},
    DNSRecords <-
      {Answer("good", "ok", <<[kind |-> "other"], Key("good", TRUE)>>),
       Answer("revoked", "ok", <<Key("bad", FALSE)>>),
       Answer("two", "ok", <<Key("good", FALSE), Key("good", FALSE)>>),
       Answer("syntax", "ok", <<[kind |-> "syntax"]>>),
       Answer("temp", "temp", <<>>), Answer("none", "notfound", <<>>)},
    MaxChanges <- 2

-----------------------------------------------------------------------------
\* SPF records of the domain "f", which can refer to "i", and DMARC records of
\* its organizational domain "o".
Directive(mech, q, spec) == [mech |-> mech, q |-> q, spec |-> spec]
Record(dirs, redirect) == [kind |-> "spf", dirs |-> dirs, redirect |-> redirect]
FailAll == Directive("all", "-", "")
FirstRecords ==
  {Record(<<Directive("include", "+", "i"), FailAll>>, ""),
   Record(<<Directive("a", "+", ""), Directive("mx", "+", ""), FailAll>>, ""),
   Record(<<Directive("ip", "+", "me"), FailAll>>, ""),
   Record(<<Directive("exists", "+", "%d"), FailAll>>, ""),
   Record(<<>>, "i"),
   Record(<<Directive("include", "-", "i"), Directive("mx", "+", "")>>, "f"),
   Record(<<Directive("exists", "~", "%p"), Directive("ptr", "+", "f")>>, "i"),
   Record(<<Directive("include", "+", "%c")>>, "i")}
SecondRecords ==
  {Record(<<Directive("mx", "+", ""), FailAll>>, ""),
   Record(<<Directive("a", "+", "f"), Directive("exists", "?", "f")>>, "f"),
   Record(<<Directive("ip", "~", "me")>>, "")}
DMARC(policy, sub, relaxed) ==
  [kind |-> "dmarc", policy |-> policy, sub |-> sub, aspf |-> relaxed, adkim |-> relaxed]
DNSZones ==
  {(<<"txt", "f">> :> first) @@ second @@ (<<"ip", "f">> :> ip) @@ (<<"mx", "f">> :> mx)
     @@ (<<"ip", "h">> :> <<"me">>) @@ (<<"dmarc", "o">> :> <<dmarc>>) @@ ptr :
   first \in {<<r>> : r \in FirstRecords \cup {[kind |-> "other"], [kind |-> "syntax"]}},
   second \in {<<"txt", "i">> :> <<r>> : r \in SecondRecords} \cup {<<>>},
   ip \in {<<"other">>, <<"other", "me">>},
   mx \in {<<"h">>, <<".">>, <<"f", "f", "h">>},
   dmarc \in {DMARC("reject", "", TRUE), DMARC("reject", "none", TRUE),
              DMARC("none", "quarantine", FALSE)},
   ptr \in {<<>>, <<"ptr", "me">> :> <<"x", "f">>}}
DNS ==
  INSTANCE Verification WITH
    v <- s, Zones <- DNSZones,
    Messages <- {[from |-> "f", mailfrom |-> "f", dkim |-> <<>>],
                 [from |-> "f", mailfrom |-> "o", dkim |-> <<"x", "o">>]},
    OrgDomain <- ("f" :> "o") @@ ("o" :> "o") @@ ("x" :> "x"),
    DNSMax <- 3, VoidMax <- 2, HostsMax <- 2, Patience <- 3, MaxFailing <- 2

-----------------------------------------------------------------------------
\* Messages of five senders, and of senders that resemble them; histories of up
\* to three messages of any of them, and long ones of a single sender around the
\* numbers of messages and shares of junk that decide.
Sender(local, dom, org, validated, dkim, mailfrom, ehlo, ip1, ip2, ip3) ==
  [local |-> local, dom |-> dom, org |-> org, validated |-> validated, dkim |-> dkim,
   mailfrom |-> mailfrom, mailfromValidated |-> TRUE, ehlo |-> ehlo, ehloValidated |-> TRUE,
   ip1 |-> ip1, ip2 |-> ip2, ip3 |-> ip3]
Known ==
  {Sender("a", "d", "o", TRUE, <<"d">>, <<"a", "d">>, "h", "i1", "i2", "i3"),
   Sender("a", "d", "o", FALSE, <<>>, <<"a", "x">>, "h", "i1", "i2", "i3"),
   Sender("b", "d", "o", TRUE, <<"d", "o">>, <<"b", "d">>, "h", "j1", "i2", "i3"),
   Sender("c", "e", "o", TRUE, <<"o">>, <<"c", "e">>, "g", "k1", "k2", "i3"),
   Sender("b", "z", "y", FALSE, <<>>, <<"none", "none">>, "none", "l1", "k2", "i3")}
Similar ==
  {Sender("q", "q", "q", FALSE, <<>>, <<"none", "none">>, "none", "i1", "i2", "i3"),
   Sender("q", "q", "q", FALSE, <<"d">>, <<"q", "none">>, "h", "none", "none", "none"),
   Sender("q", "none", "none", FALSE, <<>>, <<"a", "x">>, "none", "q1", "i2", "i3"),
   Sender("q", "q", "q", FALSE, <<>>, <<"none", "none">>, "none", "q1", "q2", "i3")}
Earlier(p, junk, age) == p @@ [junk |-> junk, age |-> age]
AnyHistory(n, ages) ==
  [1 .. n -> {Earlier(p, junk, age) : p \in Known, junk \in BOOLEAN, age \in ages}]
LongHistories ==
  {[i \in 1 .. n |-> Earlier(p, i <= junk, 0)] :
     n \in {5, 9, 10}, junk \in {0, 1, 2, 5, 9, 10}, p \in Known}
Senders ==
  INSTANCE Reputation WITH
    in <- s,
    Histories <- UNION {AnyHistory(n, {0, 6}) : n \in 0 .. 2} \cup AnyHistory(3, {0})
                   \cup LongHistories,
    Sents <- {{}, {[local |-> "b", dom |-> "z", org |-> "y", age |-> 9]},
              {[local |-> "q", dom |-> "d", org |-> "o", age |-> 2]}},
    Incoming <- Known \cup Similar

-----------------------------------------------------------------------------
\* Results of each kind that reputation returns.
Reputation(junk, conclusive, method) ==
  [junk |-> junk, conclusive |-> conclusive, method |-> method]
Decision ==
  INSTANCE Analyze WITH
    Reputations <-
      {Reputation("ham", TRUE, "msgfromfull"), Reputation("junk", TRUE, "dkimspf"),
       Reputation("junk", TRUE, "msgfromfull"), Reputation("junk", FALSE, "msgfromdomain"),
       Reputation("ham", FALSE, "msgfromfull"), Reputation("junk", FALSE, "ip1"),
       Reputation("none", FALSE, "none"), Reputation("none", FALSE, "dkimspf")},
    Probabilities <- {10, 60, 99}, Threshold <- 95, Jitters <- {-5}

-----------------------------------------------------------------------------
IdleSmtp == Init /\ lis = SubmissionsListener
IdleAnalyze == Decision!Init
IdleRecord == s = <<>>

InitIncoming ==
  \/ part = "smtp" /\ Init /\ IdleRecord /\ IdleAnalyze
  \/ part = "dkim" /\ DKIM!Init /\ IdleSmtp /\ IdleAnalyze
  \/ part = "dns" /\ DNS!Init /\ IdleSmtp /\ IdleAnalyze
  \/ part = "reputation" /\ Senders!Init /\ IdleSmtp /\ IdleAnalyze
  \/ part = "analyze" /\ Decision!Init /\ IdleSmtp /\ IdleRecord

\* The verification, reputation and decision of a message end.
NextIncoming ==
  /\ UNCHANGED part
  /\ \/ part = "smtp" /\ Next /\ UNCHANGED <<s, step, f, v>>
     \/ part = "dkim" /\ DKIM!Next /\ UNCHANGED <<vars, step, f, v>>
     \/ part = "dns" /\ DNS!Next /\ UNCHANGED <<vars, step, f, v>>
     \/ part = "analyze" /\ Decision!Next /\ UNCHANGED <<vars, s>>
     \/ part # "smtp" /\ UNCHANGED <<vars, s, step, f, v>>

SpecIncoming == InitIncoming /\ [][NextIncoming]_<<vars, part, s, step, f, v>>

-----------------------------------------------------------------------------
\* The history of a sender is respected by reputation (HistoryRespected), and the
\* decision about a message respects its reputation (AnalysisSound of Analyze).
DecisionSound ==
  /\ part = "reputation" => Senders!HistoryRespected
  /\ part = "analyze" => Decision!AnalysisSound

\* Temporary failures of DNS never turn a pass into a rejection: see
\* TransientNeverRejects of Verification.
TransientNeverRejects == part = "dns" => DNS!TransientNeverRejects

\* A signature made by Sign holds exactly as its canonicalization says: see
\* SignatureHolds of Dkim.
SignatureHolds == part = "dkim" => DKIM!SignatureHolds
=============================================================================
