----------------------------- MODULE Reputation -----------------------------
(***************************************************************************)
(* The reputation of a sender (smtpserver/reputation.go): whether earlier  *)
(* messages in the destination mailbox, marked junk or not junk, make a    *)
(* new message junk, conclusively or not. The history is a sequence with   *)
(* the newest message first; ages are in quarters of a year; shares are    *)
(* compared in integers. Each signal is looked at only when the ones       *)
(* before it found no message.                                             *)
(***************************************************************************)
EXTENDS Integers, Sequences, FiniteSets

CONSTANTS
  Histories,   \* Sequences of earlier messages, newest first.
  Sents,       \* Sets of [local, dom, org, age]: addresses written to.
  Incoming     \* New messages.

VARIABLE in    \* The message, the history and the addresses written to.

None == "none"

\* What reputation returns: rjunk (junk, ham or nil), rconclusive, rmethod.
Result(junk, conclusive, method) ==
  [junk |-> junk, conclusive |-> conclusive, method |-> method]
Junk(b) == IF b THEN "junk" ELSE "ham"

\* messageQuery: of the messages that match, the newest maxCount of at most maxAge.
messageQuery(matching, maxAge, maxCount) ==
  LET found == SelectSeq(matching, LAMBDA h : h.age <= maxAge)
  IN  SubSeq(found, 1, IF Len(found) < maxCount THEN Len(found) ELSE maxCount)

CountJunk(msgs) == Cardinality({i \in DOMAIN msgs : msgs[i].junk})

\* The last message, and the one before it if there is one, were junk.
Spam(msgs) == msgs[1].junk /\ (Len(msgs) = 1 \/ msgs[2].junk)

\* As FromFull, but a message that is not validated is held against any sender with
\* validated messages.
FromFullUnvalidated(hist, sent, m, Else) ==
  LET Same(h) == h.local = m.local /\ h.dom = m.dom
      msgs == messageQuery(SelectSeq(hist, LAMBDA h : Same(h) /\ h.validated = m.validated), 12, 2)
      known == messageQuery(SelectSeq(hist, LAMBDA h : Same(h) /\ h.validated), 12, 2)
  IN  CASE msgs # <<>> -> Result(Junk(Spam(msgs)), m.validated, "msgfromfull")
        [] msgs = <<>> /\ ~m.validated /\ known # <<>> ->
             Result("junk", TRUE, "msgfromfull")
        [] OTHER ->
             IF \E s \in sent : s.local = m.local /\ s.dom = m.dom /\ s.age <= 12
             THEN Result("ham", TRUE, "msgtofull")
             ELSE Else

\* Messages with the same From address, and the same kind of validation.
FromFull(hist, sent, m, Else) ==
  LET Same(h) == h.local = m.local /\ h.dom = m.dom
      msgs == messageQuery(SelectSeq(hist, LAMBDA h : Same(h) /\ h.validated = m.validated), 12, 2)
      known == messageQuery(SelectSeq(hist, LAMBDA h : Same(h) /\ h.validated), 12, 2)
  IN  CASE msgs # <<>> -> Result(Junk(Spam(msgs)), m.validated, "msgfromfull")
        [] msgs = <<>> /\ ~m.validated /\ known # <<>> ->
             Result("junk", Spam(known), "msgfromfull")
        [] OTHER ->
             IF \E s \in sent : s.local = m.local /\ s.dom = m.dom /\ s.age <= 12
             THEN Result("ham", TRUE, "msgtofull")
             ELSE Else

\* Messages with the same From domain, then with the same organizational domain.
FromDomain(hist, sent, m, field, names, Else) ==
  LET Same(h) == h[field] = m[field]
      msgs == messageQuery(SelectSeq(hist, LAMBDA h : Same(h) /\ h.validated = m.validated), 8, 20)
      known == messageQuery(SelectSeq(hist, LAMBDA h : Same(h) /\ h.validated), 8, 2)
      nonjunk == Len(msgs) - CountJunk(msgs)
      localparts == {msgs[i].local : i \in DOMAIN msgs}
  IN  CASE msgs # <<>> ->
             IF (100 * nonjunk) \div Len(msgs) > 80 THEN Result("ham", TRUE, names[1])
             ELSE IF nonjunk = 0
                  THEN Result("junk", Cardinality(localparts) >= 3, names[1])
                  ELSE Result(None, FALSE, names[1])
        [] msgs = <<>> /\ ~m.validated /\ known # <<>> ->
             Result("junk", Spam(known), names[1])
        [] OTHER ->
             IF \E s \in sent : s[field] = m[field] /\ s.age <= 8
             THEN Result("ham", TRUE, names[2])
             ELSE Else

\* The messages behind each verified identity: DKIM domains, and the MAIL FROM
\* address, its domain or the EHLO domain.
DkimMessages(hist, m) ==
  LET Of(i) == messageQuery(SelectSeq(hist, LAMBDA h : \E j \in DOMAIN h.dkim : h.dkim[j] = m.dkim[i]),
                            2, 50)
  IN  SelectSeq([i \in DOMAIN m.dkim |-> Of(i)], LAMBDA msgs : msgs # <<>>)

SpfMessages(hist, m) ==
  LET full == messageQuery(SelectSeq(hist, LAMBDA h : h.mailfrom = m.mailfrom), 2, 50)
      dom  == messageQuery(SelectSeq(hist, LAMBDA h : h.mailfrom[2] = m.mailfrom[2]), 2, 50)
      ehlo == messageQuery(SelectSeq(hist, LAMBDA h : h.ehlo = m.ehlo), 2, 50)
      from == IF ~m.mailfromValidated \/ m.mailfrom[2] = None THEN <<>>
              ELSE IF full # <<>> THEN full ELSE dom
  IN  IF from = <<>> /\ m.ehloValidated /\ m.ehlo # None THEN ehlo ELSE from

DkimSpf(hist, m, Else) ==
  LET dkim == DkimMessages(hist, m)
      spf  == SpfMessages(hist, m)
      signals == ({dkim[i] : i \in DOMAIN dkim} \cup {spf}) \ {<<>>}
      ham  == {s \in signals : 10 * CountJunk(s) < Len(s)}
      spam == {s \in signals : 10 * CountJunk(s) > 9 * Len(s)}
      \* The messages of the last DKIM domain, or of SPF when those are more.
      last == IF dkim = <<>> THEN 0 ELSE Len(dkim[Len(dkim)])
      dkimspfmsgs == IF Len(spf) > last THEN Len(spf) ELSE last
  IN  CASE signals = {} -> Else
        [] ham # {} /\ spam = {} -> Result("ham", TRUE, "dkimspf")
        [] spam # {} /\ ham = {} -> Result("junk", dkimspfmsgs > 1, "dkimspf")
        [] OTHER -> Result(None, FALSE, "dkimspf")

\* The address, then wider networks around it, which need more messages.
Ip(hist, m) ==
  LET Net(f) == IF m[f] = None THEN <<>>
                ELSE messageQuery(SelectSeq(hist, LAMBDA h : h[f] = m[f]), 1, 50)
      Verdict(msgs, need, method) ==
        LET n == CountJunk(msgs)
        IN  Result(CASE 4 * n < Len(msgs) -> "ham" [] 4 * n > 3 * Len(msgs) -> "junk"
                     [] OTHER -> None,
                   Len(msgs) >= need /\ (10 * n <= Len(msgs) \/ 10 * n >= 9 * Len(msgs)),
                   method)
  IN  CASE Net("ip1") # <<>> -> Verdict(Net("ip1"), 2, "ip1")
        [] Net("ip1") = <<>> /\ Net("ip2") # <<>> -> Verdict(Net("ip2"), 5, "ip2")
        [] Net("ip1") = <<>> /\ Net("ip2") = <<>> /\ Net("ip3") # <<>> ->
             Verdict(Net("ip3"), 10, "ip3")
        [] OTHER -> Result(None, FALSE, "none")

reputation(hist, sent, m) ==
  LET identities == DkimSpf(hist, m, Ip(hist, m))
  IN  IF m.dom = None THEN identities
      ELSE FromFull(hist, sent, m,
             FromDomain(hist, sent, m, "dom", <<"msgfromdomain", "msgtodomain">>,
               FromDomain(hist, sent, m, "org", <<"msgfromorgdomain", "msgtoorgdomain">>,
                 identities)))

Init == \E hist \in Histories, sent \in Sents, m \in Incoming :
          in = [hist |-> hist, sent |-> sent, m |-> m]
Next == UNCHANGED in
Spec == Init /\ [][Next]_in

-----------------------------------------------------------------------------
\* Marking one message of the history as junk.
MarkJunk(hist, i) == [hist EXCEPT ![i].junk = TRUE]

Accepts(r) == r.conclusive /\ r.junk = "ham"
Rejects(r) == r.conclusive /\ r.junk = "junk"

\* "keep accepting messages that were accepted in the past, and keep rejecting
\* those that were rejected": a history without junk never makes a message
\* conclusively junk; a history of only junk makes one acceptable only if its
\* sender was written to; and marking one more message as junk never makes a
\* message acceptable that was not, nor takes back a conclusive rejection. And a
\* conclusive result says which: analyze dereferences rjunk without a test.
HistoryRespected ==
  \A r \in {reputation(in.hist, in.sent, in.m)} :
    /\ r.conclusive => r.junk # None
    /\ CountJunk(in.hist) = 0 => ~Rejects(r)
    /\ CountJunk(in.hist) = Len(in.hist) /\ Accepts(r) =>
         r.method \in {"msgtofull", "msgtodomain", "msgtoorgdomain"}
    /\ \A hist \in {MarkJunk(in.hist, i) : i \in DOMAIN in.hist} :
       \A s \in {reputation(hist, in.sent, in.m)} :
         /\ Accepts(s) => Accepts(r)
         /\ Rejects(r) => Rejects(s)
=============================================================================
