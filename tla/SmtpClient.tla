------------------------------ MODULE SmtpClient ------------------------------
(***************************************************************************)
(* The SMTP client (smtpclient/client.go) on one connection: greeting,     *)
(* EHLO, STARTTLS, authentication, then deliveries of messages to several  *)
(* recipients, pipelined or not.                                           *)
(*                                                                         *)
(* Until the session is ready, each command and its answer are one step.   *)
(* In a transaction the commands under way (out) and the responses not yet *)
(* read (in) are queues, so that the writing goroutine, the server and the *)
(* reading client interleave, and the connection can fail in between. The  *)
(* server is external: it follows the protocol, and takes whatever arrives *)
(* after its 354 as the text of the message.                               *)
(***************************************************************************)
EXTENDS SmtpTls, Sequences, FiniteSets, SequencesExt

CONSTANTS
  Sessions,    \* Sessions: what the caller asks for (opts: mode, pkix, dane,
               \* ignore, auth), the remote host (of Remotes), the extensions it
               \* announces, and the number of messages to deliver.
  Needs,       \* What messages require: sets of extensions.
  Recipients   \* Recipients of a message.

VARIABLE s

\* ext: extensions seen in any EHLO. first: firstReadAfterHandshake. res: what
\* DeliverMultiple returned for each message, with the responses per recipient.
Client(pc, tls) ==
  [pc |-> pc, tls |-> tls, first |-> tls, ext |-> {}, botched |-> FALSE, needRset |-> FALSE,
   mf |-> 0, resps |-> <<>>, res |-> <<>>]
\* said, for the properties: what the server answered to each recipient in the current
\* transaction, and under 0 its first refusal of another command.
N == Cardinality(Recipients)
Unsaid == [i \in 0..N |-> 0]
Server == [mail |-> FALSE, rcpts |-> {}, data |-> FALSE, accepted |-> <<>>, swallowed |-> FALSE]

\* tlsResultAdd: sessions counted for the TLS reports.
Counts(ok, bad) == [success |-> ok, failure |-> bad]

Session(o, c, t) ==
  [opts |-> o.opts, host |-> o.host, announces |-> o.announces, max |-> o.messages, cl |-> c,
   srv |-> Server, said |-> Unsaid, out |-> <<>>, in |-> <<>>, up |-> TRUE, counts |-> t]

\* New with immediate TLS.
Init ==
  \E o \in Sessions :
    s = CASE o.opts.mode # "immediate" -> Session(o, Client("greeting", FALSE), Counts(0, 0))
          [] o.opts.mode = "immediate" /\ handshake(o.opts, o.host) ->
               Session(o, Client("greeting", TRUE), Counts(1, 0))
          [] OTHER -> Session(o, Client("failed", FALSE), Counts(0, 1))

-----------------------------------------------------------------------------
(* Setting up the session.                                                 *)

Step(pc) == s' = [s EXCEPT !.cl = [@ EXCEPT !.pc = pc, !.first = FALSE]]

\* readline fails. After a handshake it may be a TLS alert, which takes back the
\* success that was counted.
readline ==
  /\ s.cl.pc \in {"greeting", "ehlo", "starttls", "auth"}
  /\ \E alert \in (IF s.cl.first THEN BOOLEAN ELSE {FALSE}) :
       s' = [s EXCEPT !.cl = [@ EXCEPT !.botched = TRUE, !.pc = "failed"],
                      !.counts = IF alert THEN [success |-> @.success - 1, failure |-> @.failure + 1]
                                 ELSE @]

greeting ==
  /\ s.cl.pc = "greeting"
  /\ \E code \in {220, 554} : Step(IF code = 220 THEN "ehlo" ELSE "failed")

\* Where EHLO leads to.
AfterHello(c) ==
  CASE ~c.tls /\ s.opts.mode # "immediate" /\ attemptTLS(s.opts, "STARTTLS" \in c.ext) -> "starttls"
    [] OTHER -> IF s.opts.auth THEN "auth" ELSE "idle"

\* EHLO, or before STARTTLS also HELO, which announces nothing. What an earlier
\* EHLO announced is kept.
hello ==
  /\ s.cl.pc = "ehlo"
  /\ \E answer \in {"ehlo", "helo", "refused"} :
       LET secured == s.cl.tls /\ s.opts.mode # "immediate"
           c == [s.cl EXCEPT !.first = FALSE,
                   !.ext = IF answer = "ehlo"
                           THEN @ \cup (s.announces \ (IF s.cl.tls THEN {"STARTTLS"} ELSE {"REQUIRETLS"}))
                                  \cup (IF ~s.cl.tls /\ s.host.announced THEN {"STARTTLS"} ELSE {})
                           ELSE @]
       IN  s' = [s EXCEPT !.cl = [c EXCEPT !.pc =
                   CASE answer = "refused" -> "failed"
                     [] answer = "helo" /\ secured -> "failed"
                     [] OTHER -> AfterHello(c)]]

startTLS ==
  /\ s.cl.pc = "starttls"
  /\ s' = IF s.host.starttls /\ handshake(s.opts, s.host)
          THEN [s EXCEPT !.cl = [@ EXCEPT !.pc = "ehlo", !.tls = TRUE, !.first = TRUE],
                         !.counts.success = @ + 1]
          ELSE [s EXCEPT !.cl.pc = "failed", !.counts.failure = @ + 1]

\* An exchange of one or more rounds. Only an answer that comes when the
\* mechanism has made its last step completes it; after the client aborts, the
\* server must answer 501.
auth ==
  /\ s.cl.pc = "auth"
  /\ \E code \in {235, 334, 535}, last, proper \in BOOLEAN :
       CASE code = 235 -> Step(IF last THEN "idle" ELSE "failed")
         [] code = 334 /\ ~last /\ proper -> Step("auth")
         [] code = 334 /\ ~last /\ ~proper ->
              \E answer \in {501, 535} :
                s' = [s EXCEPT !.cl = [@ EXCEPT !.pc = "failed", !.botched = answer # 501]]
         [] OTHER -> Step("failed")

-----------------------------------------------------------------------------
(* Transactions.                                                           *)

Delivered == Len(s.cl.res)
Current == Delivered + 1

\* own: DeliverMultiple itself refused, before it sent anything.
Result(err, permanent, lost, resps) ==
  [err |-> err, permanent |-> permanent, lost |-> lost, resps |-> resps, own |-> FALSE]

\* DeliverMultiple returns.
Return(c, r) == [c EXCEPT !.pc = "idle", !.resps = <<>>, !.mf = 0,
                          !.res = Append(@, r)]

Fail(c, permanent) == Return(c, Result(TRUE, permanent, FALSE, c.resps))
Refuse(c, permanent) == Return(c, [Result(TRUE, permanent, FALSE, <<>>) EXCEPT !.own = TRUE])
Botch(c) == Return([c EXCEPT !.botched = TRUE], Result(TRUE, FALSE, TRUE, c.resps))

\* The commands of a transaction, all of them at once when pipelined.
Commands(c) ==
  IF "PIPELINING" \in c.ext
  THEN <<[cmd |-> "MAIL", i |-> 0]>> \o [i \in 1..N |-> [cmd |-> "RCPT", i |-> i]]
         \o <<[cmd |-> "DATA", i |-> 0]>>
  ELSE <<[cmd |-> "MAIL", i |-> 0]>>

\* What the message requires and the server did not announce, or limits.
Missing(c, needs) == (needs \ {"BIG"}) \ c.ext
TooBig(c, needs) == "BIG" \in needs /\ "SIZE" \in c.ext

\* DeliverMultiple from its checks up to the first command: after an earlier
\* transaction that did not complete, a RSET.
Begin(c, needs) ==
  /\ c.pc \in {"idle", "reset"}
  /\ CASE c.botched -> s' = [s EXCEPT !.cl = Refuse(c, FALSE)]
       [] ~c.botched /\ c.needRset ->
            s' = [s EXCEPT !.out = <<[cmd |-> "RSET", i |-> 0]>>, !.cl = [c EXCEPT !.pc = "rset"],
                           !.said = Unsaid]
       [] ~c.botched /\ ~c.needRset /\ (Missing(c, needs) # {} \/ TooBig(c, needs)) ->
            s' = [s EXCEPT !.cl = Refuse(c, "8BITMIME" \in Missing(c, needs) \/ Missing(c, needs) = {})]
       [] OTHER -> s' = [s EXCEPT !.out = Commands(c),
                                  !.cl = [c EXCEPT !.pc = "mail", !.needRset = TRUE],
                                  !.said = Unsaid]

DeliverMultiple == \E needs \in Needs : Delivered < s.max /\ Begin(s.cl, needs)

\* The next response, or 0 when the connection failed and nothing is left to read.
Readable == s.in # <<>> \/ ~s.up
Code == IF s.in # <<>> THEN Head(s.in) ELSE 0
Rest == IF s.in # <<>> THEN Tail(s.in) ELSE <<>>
Permanent(code) == code \div 100 = 5

Reset ==
  /\ s.cl.pc = "rset" /\ Readable
  /\ s' = [s EXCEPT !.in = Rest,
                    !.cl = CASE Code = 250 -> [@ EXCEPT !.needRset = FALSE, !.pc = "reset"]
                             [] Code = 0 -> Botch(@)
                             [] OTHER -> Fail(@, Permanent(Code))]

Pipelined == "PIPELINING" \in s.cl.ext

\* The response to MAIL. Pipelined, the others are read even if it is an error.
mailFrom ==
  /\ s.cl.pc = "mail" /\ Readable
  /\ s' = IF Code = 0 THEN [s EXCEPT !.cl = Botch(@), !.out = <<>>]
          ELSE IF Pipelined
          THEN [s EXCEPT !.in = Rest, !.cl = [@ EXCEPT !.pc = "rcpt", !.mf = Code]]
          ELSE IF Code = 250
          THEN [s EXCEPT !.in = Rest, !.cl.pc = "rcpt", !.out = <<[cmd |-> "RCPT", i |-> 1]>>]
          ELSE [s EXCEPT !.in = Rest, !.cl = Fail(@, Permanent(Code))]

Accepted(resps) == {i \in DOMAIN resps : resps[i].code = 250}
Response(code, permanent) == [code |-> code, permanent |-> permanent]

\* As NoRecipients, but any recipient decides.
NoRecipientsAny(c) == Fail(c, \E i \in DOMAIN c.resps : c.resps[i].permanent)

\* No recipient was accepted: the error is that of the only recipient.
NoRecipients(c) == Fail(c, N = 1 /\ c.resps[1].permanent)

\* Responses to RCPT, pipelined: errors are kept, 552 is a temporary one.
rcptPipelined ==
  /\ s.cl.pc = "rcpt" /\ Pipelined /\ Readable
  /\ s' = [s EXCEPT !.in = Rest,
             !.cl = [@ EXCEPT !.botched = @ \/ Code = 0,
                              !.resps = Append(@, Response(Code, Permanent(Code) /\ Code # 552)),
                              !.pc = IF Len(s.cl.resps) + 1 = N THEN "data" ELSE "rcpt"]]

\* One at a time: when the server takes no more, the rest is not tried.
rcptTo ==
  /\ s.cl.pc = "rcpt" /\ ~Pipelined /\ Readable
  /\ LET i == Len(s.cl.resps) + 1
         full == i > 1 /\ Code \in {452, 552}
         resps == IF full THEN s.cl.resps \o [j \in 1..(N - i + 1) |-> Response(Code, FALSE)]
                  ELSE Append(s.cl.resps, Response(Code, Permanent(Code)))
         c == [s.cl EXCEPT !.resps = resps]
         t == [s EXCEPT !.in = Rest]
     IN  s' = CASE Code = 0 -> [t EXCEPT !.cl = Botch(@)]
                [] Code # 0 /\ Len(resps) < N ->
                     [t EXCEPT !.cl = c, !.out = <<[cmd |-> "RCPT", i |-> i + 1]>>]
                [] Code # 0 /\ Len(resps) = N /\ Accepted(resps) = {} ->
                     [t EXCEPT !.cl = NoRecipients(c)]
                [] OTHER -> [t EXCEPT !.cl = [c EXCEPT !.pc = "data"], !.out = <<[cmd |-> "DATA", i |-> 0]>>]

\* The response to DATA after pipelined commands, and what is made of them all.
\* A server that answers 354 without a recipient gets a dot. The writes may have
\* failed with the connection.
dataPipelined ==
  /\ s.cl.pc = "data" /\ Pipelined /\ Readable
  /\ \E writeErr \in (IF s.up THEN {FALSE} ELSE BOOLEAN) :
       LET c == s.cl
           nok == Cardinality(Accepted(c.resps))
           t == [s EXCEPT !.in = Rest]
           lost == Code = 0
       IN  s' = CASE c.mf # 250 ->
                       [t EXCEPT !.cl = Fail([c EXCEPT !.botched = @ \/ writeErr \/ lost], Permanent(c.mf))]
                  [] c.mf = 250 /\ writeErr -> [t EXCEPT !.cl = Botch(c)]
                  [] c.mf = 250 /\ ~writeErr /\ lost /\ nok = 0 ->
                       [t EXCEPT !.cl = Fail([c EXCEPT !.botched = TRUE], c.resps[N].permanent)]
                  [] c.mf = 250 /\ ~writeErr /\ lost /\ nok # 0 -> [t EXCEPT !.cl = Botch(c)]
                  [] c.mf = 250 /\ ~writeErr /\ Code = 354 /\ nok = 0 ->
                       [t EXCEPT !.cl.pc = "dot", !.out = <<[cmd |-> "TEXT", i |-> 0]>>]
                  [] c.mf = 250 /\ ~writeErr /\ Code = 354 /\ nok # 0 ->
                       [t EXCEPT !.cl.pc = "text", !.out = <<[cmd |-> "TEXT", i |-> Current]>>]
                  [] OTHER -> [t EXCEPT !.cl = IF nok = 0 THEN NoRecipients(c)
                                               ELSE Fail(c, Permanent(Code))]

\* As dotRead, but no dot ends the message without recipients.
dotReadNot ==
  /\ s.cl.pc = "dot"
  /\ s' = [s EXCEPT !.cl = NoRecipients(@), !.out = <<>>]

dotRead ==
  /\ s.cl.pc = "dot" /\ Readable
  /\ s' = [s EXCEPT !.in = Rest, !.cl = NoRecipients([@ EXCEPT !.botched = @ \/ Code = 0])]

data ==
  /\ s.cl.pc = "data" /\ ~Pipelined /\ Readable
  /\ s' = [s EXCEPT !.in = Rest,
             !.cl = CASE Code = 354 -> [@ EXCEPT !.pc = "text"] [] Code = 0 -> Botch(@)
                      [] OTHER -> Fail(@, Permanent(Code)),
             !.out = IF Code = 354 THEN <<[cmd |-> "TEXT", i |-> Current]>> ELSE <<>>]

\* The text of the message was written; the final response.
text ==
  /\ s.cl.pc = "text" /\ Readable
  /\ s' = [s EXCEPT !.in = Rest,
             !.cl = CASE Code = 250 ->
                           Return([@ EXCEPT !.needRset = FALSE], Result(FALSE, FALSE, FALSE, @.resps))
                      [] Code = 0 -> Botch(@)
                      [] OTHER -> Fail(@, Permanent(Code))]

\* Close sends QUIT only on a connection in a known state.
Close ==
  /\ s.cl.pc = "idle"
  /\ s' = [s EXCEPT !.cl.pc = "closed",
                    !.out = IF s.cl.botched THEN <<>> ELSE <<[cmd |-> "QUIT", i |-> 0]>>]

-----------------------------------------------------------------------------
(* The server, and the connection.                                         *)

Reply(code) == s.in \o <<code>>
Say(m, code) ==
  CASE m.cmd = "RCPT" -> [s.said EXCEPT ![m.i] = code]
    [] m.cmd # "RCPT" /\ code >= 400 /\ s.said[0] = 0 -> [s.said EXCEPT ![0] = code]
    [] OTHER -> s.said

serve ==
  /\ s.up /\ s.out # <<>>
  /\ LET m == Head(s.out)
         v == s.srv
         Do(codes, w(_)) == \E code \in codes :
           s' = [s EXCEPT !.out = Tail(@), !.in = Reply(code), !.srv = w(code), !.said = Say(m, code)]
         Clear(w) == [w EXCEPT !.mail = FALSE, !.rcpts = {}, !.data = FALSE]
     IN  CASE v.data /\ m.cmd # "TEXT" ->
                s' = [s EXCEPT !.out = Tail(@), !.srv.swallowed = TRUE]
           [] v.data /\ m.cmd = "TEXT" ->
                Do({250, 451, 554}, LAMBDA code : Clear([v EXCEPT !.accepted =
                     IF code = 250 /\ v.rcpts # {} THEN Append(@, [m |-> m.i, rcpts |-> v.rcpts]) ELSE @]))
           [] ~v.data /\ m.cmd \in {"RSET", "QUIT"} -> Do({250}, LAMBDA code : Clear(v))
           [] ~v.data /\ m.cmd = "MAIL" /\ ~v.mail ->
                Do({250, 451, 550}, LAMBDA code : [v EXCEPT !.mail = code = 250])
           [] ~v.data /\ m.cmd = "RCPT" /\ v.mail ->
                Do({250, 452, 550, 552}, LAMBDA code : [v EXCEPT !.rcpts = IF code = 250 THEN @ \cup {m.i} ELSE @])
           [] ~v.data /\ m.cmd = "DATA" /\ v.mail ->
                Do({354, 554}, LAMBDA code : [v EXCEPT !.data = code = 354])
           [] OTHER -> Do({503}, LAMBDA code : v)

\* The connection fails: what was not received is lost.
drop ==
  /\ s.up /\ s.cl.pc \in {"rset", "mail", "rcpt", "data", "dot", "text"}
  /\ s' = [s EXCEPT !.up = FALSE, !.out = <<>>]

Next ==
  \/ readline \/ greeting \/ hello \/ startTLS \/ auth
  \/ DeliverMultiple \/ Reset \/ mailFrom \/ rcptPipelined \/ rcptTo \/ dataPipelined
  \/ dotRead \/ data \/ text \/ Close \/ serve \/ drop

Spec == Init /\ [][Next]_s

-----------------------------------------------------------------------------
(* Properties.                                                             *)

\* What the server took on: the recipients of message k.
Taken(k) == UNION {a.rcpts : a \in {a \in Range(s.srv.accepted) : a.m = k}}

\* Of the last result: what it says of a recipient is what the server answered for that
\* recipient, and a permanent failure, of a recipient or of all, rests on a permanent
\* answer of the server to that recipient or command, or, when the connection is lost and
\* nobody was accepted, to the last recipient; or DeliverMultiple refused the message
\* itself. Code 552 "must be treated like temporary error code 452", except for the
\* first recipient without pipelining, for which the code takes it as permanent.
AnswersKept(r) ==
  /\ \A i \in DOMAIN r.resps :
       /\ r.resps[i].code = 250 => s.said[i] = 250
       /\ r.resps[i].permanent => Permanent(s.said[i]) /\ (s.said[i] = 552 => i = 1 /\ ~Pipelined)
  /\ r.permanent => \/ Permanent(s.said[0])
                    \/ Accepted(r.resps) = {} /\ Permanent(s.said[N])
                    \/ r.own

\* DeliverMultiple's answer is what happened, over any number of transactions on
\* a connection and whatever fails in between. Without an error, the server took
\* the message for exactly the recipients with a 250; it never takes one that
\* is reported as failed, unless the connection was lost; and the answers are kept
\* apart (AnswersKept). Commands are never taken as the text of
\* a message, so a client that is not botched is in step with the server:
\* nothing is under way between deliveries, and a transaction the server still
\* has is one that needRset will end. A message is only sent over the
\* connection that was asked for, and TLS sessions are counted once.
DeliveredExactly ==
  /\ \A k \in DOMAIN s.cl.res :
       LET r == s.cl.res[k]
       IN  /\ ~r.err => Taken(k) = Accepted(r.resps) /\ Taken(k) # {}
           /\ Taken(k) # {} => ~r.err \/ r.lost
  /\ s.cl.pc = "idle" /\ Delivered > 0 => AnswersKept(s.cl.res[Delivered])
  /\ ~s.srv.swallowed
  /\ s.cl.pc = "idle" /\ ~s.cl.botched =>
       /\ s.out = <<>> /\ s.in = <<>> /\ ~s.srv.data
       /\ s.srv.mail => s.cl.needRset
  /\ s.cl.pc \notin {"greeting", "ehlo", "starttls", "failed"} => Promised(s.opts, s.host, s.cl.tls)
  /\ s.counts.success \in {0, 1} /\ s.counts.success + s.counts.failure \in {0, 1}
  /\ s.cl.tls /\ s.cl.pc # "failed" => s.counts = Counts(1, 0)
=============================================================================
