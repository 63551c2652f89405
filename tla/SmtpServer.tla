----------------------------- MODULE SmtpServer -----------------------------
(***************************************************************************)
(* One connection of the SMTP server (smtpserver/server.go): the greeting  *)
(* with its limits, STARTTLS and TLS client authentication, AUTH, the mail *)
(* transaction (MAIL, RCPT, DATA), submission to the queue and delivery to *)
(* local accounts and aliases, one recipient at a time.                    *)
(*                                                                         *)
(* Commands that only answer with an error leave the state alone and are   *)
(* stuttering steps; what a command changes before it fails is modelled.   *)
(* Addresses, messages and verdicts of the analysis (module Analyze) are   *)
(* members of small sets; delays (setSlow, authFailed), traces and reply   *)
(* texts are left out.                                                     *)
(* The server does not run in its Localserve testing mode.                 *)
(***************************************************************************)
EXTENDS Integers, Sequences, FiniteSets, SequencesExt

CONSTANTS
  Accounts,
  LocalAddr, Owner,        \* Addresses of accounts and their account.
  ReportAddr,              \* Those of LocalAddr that TLS reports are sent to.
  AliasAddr, Members,      \* Aliases and the addresses they stand for, in order.
  UnknownAddr,             \* Addresses of local domains that do not exist.
  RemoteAddr,              \* Addresses of other domains.
  PostPublic, AliasFrom,   \* PostPublic and AllowMsgFrom of the aliases.
  Listeners,               \* Listeners, as Listen configures them.
  RcptToLimit,             \* rcptToLimit, 1000 in the code.
  BadLimit,                \* Failed transactions before a close, 10 in the code.
  FailedAuthLimit          \* Limit of mox.LimiterFailedAuth for the remote.

None == "none"
NullPath == "null"         \* The null reverse path.
IPPath == "ip"             \* An address literal.

VARIABLES
  lis,      \* Listener of the connection.
  c,        \* The conn.
  refs,     \* References to open accounts this connection holds.
  slot,     \* Whether the connection counts in limiterConnections.
  failed,   \* Failed authentications of the remote in mox.LimiterFailedAuth.
  d,        \* The DATA command in progress, or its outcome.
  rejects   \* Accounts with the remote's message in their Rejects mailbox.

vars == <<lis, c, refs, slot, failed, d, rejects>>

-----------------------------------------------------------------------------
\* Listen: the three kinds of listener and their TLS requirements.
SmtpListener(starttls, requireSTARTTLS) ==
  [submission |-> FALSE, xtls |-> FALSE, starttls |-> starttls,
   tlsForAuth |-> FALSE, tlsForDelivery |-> requireSTARTTLS]
SubmissionListener(starttls, noRequireSTARTTLS) ==
  [submission |-> TRUE, xtls |-> FALSE, starttls |-> starttls,
   tlsForAuth |-> ~noRequireSTARTTLS, tlsForDelivery |-> ~noRequireSTARTTLS]
SubmissionsListener ==
  [submission |-> TRUE, xtls |-> TRUE, starttls |-> TRUE,
   tlsForAuth |-> TRUE, tlsForDelivery |-> TRUE]

Closed ==
  [state |-> "closed", tls |-> FALSE, first |-> TRUE, hello |-> FALSE,
   authSASL |-> FALSE, authTLS |-> FALSE, account |-> None, sasl |-> None,
   good |-> FALSE, bad |-> 0,
   mailFrom |-> None, requireTLS |-> None, hold |-> FALSE,
   recipients |-> <<>>]

NoData ==
  [phase |-> "none", from |-> None, next |-> 0, errs |-> <<>>, got |-> {},
   queued |-> {}, dsn |-> {}, code |-> 0, rcpts |-> <<>>]

rset(x) ==
  [x EXCEPT !.mailFrom = None, !.requireTLS = None, !.hold = FALSE,
            !.recipients = <<>>]

\* reset keeps only an account authenticated by TLS client certificate.
reset(x) ==
  LET y == [x EXCEPT !.hello = FALSE, !.authSASL = FALSE]
  IN  rset(IF x.authTLS THEN y
           ELSE [y EXCEPT !.account = None])

\* The number of references after closing account a, if there is one.
CloseAccount(r, a) == IF a = None THEN r ELSE [r EXCEPT ![a] = @ - 1]
OpenAccount(r, a) == [r EXCEPT ![a] = @ + 1]

Init ==
  /\ lis \in Listeners
  /\ c = Closed
  /\ refs = [a \in Accounts |-> 0]
  /\ slot = FALSE
  /\ failed = 0
  /\ d = NoData
  /\ rejects = {}

-----------------------------------------------------------------------------
\* mox.LookupAddress, by what it returns for an address: the account's
\* destination, an alias, or an error. An admin can disable a domain or change
\* its addresses at any time, and a lookup can fail.
LookupAddress(a) ==
  {"error", "disabled"} \cup
  CASE a \in LocalAddr   -> {"account", "smtperror"}
    [] a \in AliasAddr   -> {"alias"}
    [] a \in UnknownAddr -> {"notfound"}
    [] OTHER             -> {"nodomain"}

AccountsOf(alias) == {Owner[Members[alias][i]] : i \in DOMAIN Members[alias]}

\* mox.AllowMsgFrom for an enabled domain.
AllowMsgFrom(acc, a) ==
  \/ a \in LocalAddr /\ Owner[a] = acc
  \/ a \in AliasAddr /\ AliasFrom /\ acc \in AccountsOf(a)

aliasAllowedMsgFrom(alias, from) ==
  \/ \E i \in DOMAIN Members[alias] : Members[alias][i] = from
  \/ IF from = alias THEN AliasFrom ELSE PostPublic

-----------------------------------------------------------------------------
(* The connection.                                                         *)

\* As Close, but the account of an authentication exchange stays open.
CloseKeepsSasl ==
  /\ c' = Closed
  /\ refs' = CloseAccount(refs, c.account)
  /\ slot' = FALSE
  /\ d' = NoData
  /\ UNCHANGED <<lis, rejects>>

\* The deferred functions of serve: the account and the connection's slot are
\* given back however the connection ends.
Close ==
  /\ c' = Closed
  /\ refs' = CloseAccount(CloseAccount(refs, c.account), c.sasl)
  /\ slot' = FALSE
  /\ d' = NoData
  /\ UNCHANGED <<lis, rejects>>

\* tlsClientAuthVerifyPeerCert(Parsed) during a handshake, and
\* xtlsHandshakeAndAuthenticate: without a certificate, or when the remote had
\* too many failures, nothing is authenticated; a certificate that cannot be
\* matched to an account makes the handshake, and the connection, fail.
NoCert(x) == x
WithCert(x, user) ==
  [x EXCEPT !.account = Owner[user], !.authTLS = TRUE]

MayPresentCert == lis.submission /\ failed < FailedAuthLimit

\* serve: handshake on a TLS listener, the limits, then the greeting.
ServeOn(x, r, f) ==
  \/ \* Shutting down, too many connections, or too many failed logins.
     /\ c' = Closed
     /\ refs' = CloseAccount(r, x.account)
     /\ UNCHANGED slot
     /\ failed' = f
  \/ /\ ~lis.submission \/ f < FailedAuthLimit
     /\ c' = [x EXCEPT !.state = "command"]
     /\ refs' = r
     /\ slot' = TRUE
     /\ failed' = f

serve ==
  /\ c.state = "closed"
  /\ d' = NoData
  /\ UNCHANGED <<lis, rejects>>
  /\ LET x == [Closed EXCEPT !.tls = lis.xtls]
     IN  \/ ServeOn(NoCert(x), refs, failed)
         \/ /\ lis.xtls /\ MayPresentCert
            /\ \/ \E u \in LocalAddr :
                    ServeOn(WithCert(x, u), OpenAccount(refs, Owner[u]), 0)
               \/ /\ failed' = failed + 1
                  /\ UNCHANGED <<c, refs, slot>>

\* The loop of serve reads a command only when the last one is done.
Command ==
  /\ c.state = "command"
  /\ d.phase \in {"none", "done"}

\* A read or write that fails, a line that is too long, or a shutdown while a
\* command is read: panic(errIO), which ends the connection.
Abort ==
  /\ c.state # "closed" /\ d.phase \in {"none", "done"}
  /\ Close
  /\ failed' = IF c.state = "sasl" /\ failed < FailedAuthLimit THEN failed + 1 ELSE failed

cmdQuit == Command /\ Close /\ UNCHANGED failed

\* A first command that is not SMTP ends the connection.
cmdUnknown ==
  /\ Command
  /\ c.first
  /\ Close
  /\ UNCHANGED failed

\* VRFY, EXPN, HELP and NOOP only answer.
cmdNoop ==
  /\ Command
  /\ c' = [c EXCEPT !.first = FALSE]
  /\ d' = NoData
  /\ UNCHANGED <<lis, refs, slot, failed, rejects>>

cmdRset ==
  /\ Command
  /\ c' = rset([c EXCEPT !.first = FALSE])
  /\ d' = NoData
  /\ UNCHANGED <<lis, refs, slot, failed, rejects>>

cmdHello ==
  /\ Command
  /\ c' = [rset(c) EXCEPT !.first = FALSE, !.hello = TRUE]
  /\ d' = NoData
  /\ UNCHANGED <<lis, refs, slot, failed, rejects>>

\* STARTTLS starts over with the connection, on which a client certificate may
\* have been presented.
cmdStarttls ==
  /\ Command
  /\ c.hello /\ ~c.tls /\ c.account = None /\ lis.starttls
  /\ d' = NoData
  /\ UNCHANGED <<lis, slot, rejects>>
  /\ \/ /\ c' = [reset(NoCert(c)) EXCEPT !.tls = TRUE]
        /\ UNCHANGED <<refs, failed>>
     \/ /\ MayPresentCert
        /\ \E u \in LocalAddr :
             /\ c' = [reset(WithCert(c, u)) EXCEPT !.tls = TRUE]
             /\ refs' = OpenAccount(refs, Owner[u])
             /\ failed' = 0

\* The handshake of STARTTLS fails, or the client's certificate is refused.
StarttlsFailed ==
  /\ Command
  /\ c.hello /\ ~c.tls /\ c.account = None /\ lis.starttls
  /\ Close
  /\ failed' \in {failed} \cup (IF MayPresentCert THEN {failed + 1} ELSE {})

-----------------------------------------------------------------------------
(* AUTH.                                                                   *)

\* The checks at the start of cmdAuth.
AuthAllowed ==
  /\ Command
  /\ c.hello /\ lis.submission /\ ~c.authSASL /\ c.mailFrom = None

\* The deferred functions of cmdAuth for an attempt that failed: it counts for
\* the remote, up to the limit.
FailedAdd == IF failed < FailedAuthLimit THEN failed + 1 ELSE failed

\* An attempt with a mechanism for which the account has no derived secrets is
\* not held against the remote.
cmdAuthRefused ==
  /\ AuthAllowed
  /\ c' = [c EXCEPT !.first = FALSE]
  /\ \E missingDerivedSecrets \in BOOLEAN :
       failed' = IF missingDerivedSecrets THEN failed ELSE FailedAdd
  /\ d' = NoData
  /\ UNCHANGED <<lis, refs, slot, rejects>>

\* The end of cmdAuth, with the account the mechanism opened: an account known
\* from the TLS client certificate must be the same, and stays the one in use.
\* r counts the opened account.
AuthFinish(x, user, r) ==
  LET acc == Owner[user]
  IN  IF x.account # None /\ x.account # acc
      THEN /\ c' = [x EXCEPT !.state = "command", !.sasl = None, !.first = FALSE]
           /\ refs' = CloseAccount(r, acc)
           /\ failed' = FailedAdd
      ELSE /\ c' = [x EXCEPT !.state = "command", !.sasl = None, !.first = FALSE,
                             !.account = acc, !.authSASL = TRUE]
           /\ refs' = IF x.account = None THEN r ELSE CloseAccount(r, acc)
           /\ failed' = 0

\* PLAIN and LOGIN, with the right password.
cmdAuthPassword ==
  /\ AuthAllowed
  /\ c.tls \/ ~lis.tlsForAuth
  /\ \E user \in LocalAddr : AuthFinish(c, user, OpenAccount(refs, Owner[user]))
  /\ d' = NoData
  /\ UNCHANGED <<lis, slot, rejects>>

\* EXTERNAL, for a connection with a client certificate.
cmdAuthExternal ==
  /\ AuthAllowed
  /\ c.tls /\ c.account # None
  /\ \E user \in LocalAddr : AuthFinish(c, user, OpenAccount(refs, Owner[user]))
  /\ d' = NoData
  /\ UNCHANGED <<lis, slot, rejects>>

\* CRAM-MD5 and SCRAM open the account before the client has proven anything.
\* The server then waits for the client's answer.
cmdAuthChallenge ==
  /\ AuthAllowed
  /\ \E user \in LocalAddr :
       /\ c' = [c EXCEPT !.state = "sasl", !.first = FALSE, !.sasl = Owner[user]]
       /\ refs' = OpenAccount(refs, Owner[user])
  /\ d' = NoData
  /\ UNCHANGED <<lis, slot, failed, rejects>>

\* The answer: the right proof, or a wrong one, an abort, a login that has been
\* disabled meanwhile. The account is closed by the deferred function.
cmdAuthAnswer ==
  /\ c.state = "sasl"
  /\ \/ \E user \in LocalAddr : Owner[user] = c.sasl /\ AuthFinish(c, user, refs)
     \/ /\ c' = [c EXCEPT !.state = "command", !.sasl = None]
        /\ refs' = CloseAccount(refs, c.sasl)
        /\ failed' = FailedAdd
  /\ UNCHANGED <<lis, slot, d, rejects>>

-----------------------------------------------------------------------------
(* The mail transaction.                                                   *)

\* xcheckAuth.
Authenticated == lis.submission => c.account # None

\* Many failed transactions and no good one end the connection at the next MAIL.
cmdMailTooManyBad ==
  /\ Command
  /\ c.bad > BadLimit /\ ~c.good
  /\ Close
  /\ UNCHANGED failed

\* Reverse paths. Of a delivery, only the null path and address literals are told apart.
MailPaths ==
  RemoteAddr \cup {NullPath, IPPath} \cup
    (IF lis.submission THEN LocalAddr \cup AliasAddr ELSE {})
MailParams == SUBSET {"REQUIRETLS", "HOLD"}

\* The parameters of MAIL, set one at a time while the line is parsed.
WithParams(x, params) ==
  [x EXCEPT !.requireTLS = IF "REQUIRETLS" \in params /\ x.tls THEN "yes" ELSE None,
            !.hold = "HOLD" \in params /\ lis.submission]

ParamsAllowed(params) ==
  /\ "REQUIRETLS" \in params => c.tls
  /\ "HOLD" \in params => lis.submission

\* As PathAllowed, but the reverse path of a submission is not checked.
PathAllowedAny(path) == path # IPPath

\* The reverse path: one of the account's for submission; not an address literal.
PathAllowed(path) ==
  /\ path # IPPath
  /\ lis.submission => path = NullPath \/ AllowMsgFrom(c.account, path)

\* cmdMail. A line that is refused after parameters were set, for its syntax, its
\* path, the MX records of the sender or a disabled domain, resets them.
cmdMail ==
  /\ Command
  /\ ~(c.bad > BadLimit /\ ~c.good)
  /\ c.hello /\ Authenticated /\ c.mailFrom = None
  /\ \E path \in MailPaths, params \in MailParams, refused \in BOOLEAN :
       LET x == WithParams([c EXCEPT !.first = FALSE], params)
       IN  c' = IF ~refused /\ ParamsAllowed(params) /\ PathAllowed(path)
                THEN [x EXCEPT !.mailFrom = path]
                ELSE rset(x)
  /\ d' = NoData
  /\ UNCHANGED <<lis, refs, slot, failed, rejects>>

\* isTLSReportRecipient, when the lookup succeeds: HostTLSReports or DomainTLSReports
\* of the destination.
isTLSReportRecipient(path) == path \in ReportAddr

\* As xneedTLSForDelivery, but any address is exempt.
xneedTLSForNone(path) == TRUE

\* xneedTLSForDelivery: only addresses for TLS reports receive in plain text where
\* the listener requires TLS.
xneedTLSForDelivery(path) == lis.tlsForDelivery => c.tls \/ isTLSReportRecipient(path)

\* The checks of cmdRcpt before the address is looked up. A second recipient
\* needs an SPF pass for the sender, and a null reverse path has one recipient.
RcptAllowed(path, spfPass) ==
  /\ xneedTLSForDelivery(path)
  /\ Len(c.recipients) < RcptToLimit
  /\ ~lis.submission /\ Len(c.recipients) > 0 => c.mailFrom # NullPath
  /\ ~lis.submission /\ Len(c.recipients) = 1 => spfPass

\* The recipient that is added for a path, by what LookupAddress returned.
Recipient(path, found) ==
  [addr |-> path, kind |-> IF found \in {"account", "alias"} THEN found ELSE None]

\* Submission accepts what it will relay; delivery pretends to accept unknown
\* users until after DATA.
RcptAccepted(path, found) ==
  \/ path = IPPath /\ lis.submission
  \/ path # IPPath /\ found \in {"account", "alias"}
  \/ path # IPPath /\ found = "nodomain" /\ lis.submission
  \/ path # IPPath /\ found = "notfound" /\ ~lis.submission

cmdRcpt ==
  /\ Command
  /\ c.hello /\ Authenticated /\ c.mailFrom # None
  /\ \E path \in LocalAddr \cup AliasAddr \cup UnknownAddr \cup RemoteAddr \cup {IPPath} :
       \E found \in LookupAddress(path), spfPass \in BOOLEAN :
         /\ RcptAllowed(path, spfPass)
         /\ RcptAccepted(path, found)
         /\ c' = [c EXCEPT !.first = FALSE,
                           !.recipients = Append(@, Recipient(path, found))]
  /\ d' = NoData
  /\ UNCHANGED <<lis, refs, slot, failed, rejects>>

-----------------------------------------------------------------------------
(* DATA.                                                                   *)

\* A message, by its From address; none if it cannot be parsed.
Messages == LocalAddr \cup AliasAddr \cup RemoteAddr \cup {None}

\* sort.SliceStable by rcptScore: accounts, aliases, unknown.
rcptScore(r) == CASE r.kind = "account" -> 0 [] r.kind = "alias" -> 1 [] OTHER -> 2

\* As Sorted, but the recipients stay in the order of the transaction.
SortedNot(rcpts) == rcpts

Sorted(rcpts) ==
  LET Score(n) == SelectSeq(rcpts, LAMBDA r : rcptScore(r) = n)
  IN  Score(0) \o Score(1) \o Score(2)

\* hasTLSRequiredNo in submit and deliver: the message may have such a header,
\* which only counts without the REQUIRETLS extension.
TLSRequired(x) ==
  {x} \cup (IF x.requireTLS = None THEN {[x EXCEPT !.requireTLS = "no"]} ELSE {})

\* The end of cmdData: the transaction counts as bad until it succeeds, and the
\* message is submitted or delivered.
Handle(m) ==
  /\ c' = [c EXCEPT !.first = FALSE, !.bad = @ + 1]
  /\ d' = [NoData EXCEPT !.phase = IF lis.submission THEN "submit" ELSE "verify",
                         !.from = m]

\* cmdData reads the message. Data that cannot be stored, or a submission without
\* a body, is refused before the transaction counts as bad.
cmdData ==
  /\ Command
  /\ c.hello /\ Authenticated
  /\ c.mailFrom # None /\ c.recipients # <<>>
  /\ c.bad <= BadLimit
  /\ \E m \in Messages : Handle(m)
  /\ UNCHANGED <<lis, refs, slot, failed, rejects>>

\* A command that ends with an error reply keeps the transaction.
Refuse(x, code) ==
  /\ c' = x
  /\ d' = [d EXCEPT !.phase = "done", !.code = code, !.rcpts = x.recipients]

\* A command that ends well: the pessimistic count is taken back.
Complete(x, done) ==
  /\ c' = rset([x EXCEPT !.good = TRUE, !.bad = @ - 1])
  /\ d' = [done EXCEPT !.phase = "done", !.code = 250, !.rcpts = x.recipients]

\* The messages that submit queues, one for each recipient.
qml(x) ==
  {[account |-> x.account, mailFrom |-> x.mailFrom, from |-> d.from,
    rcpt |-> x.recipients[i].addr] : i \in DOMAIN x.recipients}

\* queue.Add fails, or the messages are queued. After that the recipients are
\* recorded as Outgoing: an error there is reported although all is queued.
Submitted(x) ==
  \/ \E code \in {451, 554} : Refuse(x, code)
  \/ Complete(x, [d EXCEPT !.queued = qml(x)])
  \/ /\ c' = x
     /\ d' = [d EXCEPT !.phase = "done", !.code = 451, !.queued = qml(x),
                       !.rcpts = x.recipients]

\* submit: the From address must be the account's; then limits and signing, which
\* may fail, and queueing.
submit ==
  /\ c.state = "command" /\ d.phase = "submit"
  /\ UNCHANGED <<lis, refs, slot, failed, rejects>>
  /\ IF d.from = None \/ ~AllowMsgFrom(c.account, d.from)
     THEN Refuse(c, 550)
     ELSE \E x \in TLSRequired(c) :
            \/ \E code \in {451, 550, 554} : Refuse(x, code)
            \/ Submitted(x)

\* deliver up to the loop over the recipients: loop detection, verification (SPF,
\* DKIM and DMARC, see module Verification), refusal when no recipient is known.
verify ==
  /\ c.state = "command" /\ d.phase = "verify"
  /\ UNCHANGED <<lis, refs, slot, failed, rejects>>
  /\ \/ Refuse(c, 550)
     \/ \E x \in TLSRequired(c) :
            IF \A i \in DOMAIN x.recipients : x.recipients[i].kind = None
            THEN Refuse(x, 550)
            ELSE /\ c' = [x EXCEPT !.recipients = Sorted(@)]
                 /\ d' = [d EXCEPT !.phase = "deliver", !.next = 1]

\* Verdicts of analyze for an account: accepted (possibly as reject, to a mailbox
\* a ruleset names), refused for a high rate, by DMARC policy, or as junk or
\* because of an error. The DMARC evaluation that is stored for an aggregate
\* report is AddEvaluation of module DmarcReports.
Verdicts ==
  {[accept |-> TRUE,  reason |-> "ok",       code |-> 0],
   [accept |-> FALSE, reason |-> "highrate", code |-> 452],
   [accept |-> FALSE, reason |-> "dmarc",    code |-> 550],
   [accept |-> FALSE, reason |-> "junk",     code |-> 451]}

\* The addresses a recipient stands for.
Targets(r) == IF r.kind = "alias" THEN Members[r.addr] ELSE <<r.addr>>

regularRecipient(addr) ==
  LET rcpts == c.recipients
  IN  \E i \in DOMAIN rcpts :
        /\ rcpts[i].addr = addr
        /\ \A j \in 1..i : rcpts[j].kind = "account"

Error(code) == [rcpt |-> d.next, code |-> code]

\* A recipient that is not delivered to: one error, and the next recipient.
addError(e, rej) ==
  /\ UNCHANGED c
  /\ d' = [d EXCEPT !.next = @ + 1, !.errs = Append(@, e)]
  /\ rejects' = rej

\* The accounts whose Rejects mailbox gets the message: not for an address that
\* is also an explicit recipient, and not when it is already there.
ToRejects(r) ==
  {Owner[Targets(r)[i]] : i \in {k \in DOMAIN Targets(r) :
     ~(r.kind = "alias" /\ regularRecipient(Targets(r)[k]))}} \ rejects

\* The loop that delivers to the accounts of a recipient: outcomes[i] is what
\* DeliverMailbox returns for the i-th. It stops at an error before the first
\* delivery. Each error other than a full account is added to the errors.
Skip(r, i) ==
  r.kind = "alias" /\ (regularRecipient(Targets(r)[i]) \/ Targets(r)[i] = d.from)

RECURSIVE DeliverFrom(_, _, _, _)
DeliverFrom(r, outcomes, i, acc) ==
  IF i > Len(outcomes) \/ (acc.nerr > 0 /\ acc.got = {})
  THEN acc
  ELSE DeliverFrom(r, outcomes, i + 1,
         IF Skip(r, i) THEN acc
         ELSE CASE outcomes[i] = "ok"    -> [acc EXCEPT !.got = @ \cup {i}]
                [] outcomes[i] = "full"  -> [acc EXCEPT !.nfull = @ + 1]
                [] outcomes[i] = "error" -> [acc EXCEPT !.nerr = @ + 1])

\* As DeliverErrors, but full accounts are not reported.
DeliverErrorsNotFull(acc) == [k \in 1..acc.nerr |-> Error(451)]

\* After the loop: a recipient that nothing was delivered for gets an error too.
DeliverErrors(acc) ==
  [k \in 1..acc.nerr |-> Error(451)] \o
  (IF acc.got = {} /\ (acc.nerr > 0 \/ acc.nfull > 0)
   THEN <<IF acc.nerr = 0 THEN Error(452) ELSE Error(451)>>
   ELSE <<>>)

\* An accepted message is stored for the accounts of the recipient. Where that
\* succeeds it is removed from Rejects, and passed on to queue.Incoming.
Deliver(r) ==
  \E outcomes \in [DOMAIN Targets(r) -> {"ok", "full", "error"}] :
    LET acc == DeliverFrom(r, outcomes, 1, [got |-> {}, nerr |-> 0, nfull |-> 0])
    IN  /\ d' = [d EXCEPT !.next = @ + 1, !.errs = @ \o DeliverErrors(acc),
                          !.got = @ \cup {<<d.next, Targets(r)[i]>> : i \in acc.got}]
        /\ rejects' = rejects \ {Owner[Targets(r)[i]] : i \in acc.got}
        /\ UNCHANGED c

\* processRecipient. The accounts opened for the analysis are closed again.
processRecipient ==
  /\ c.state = "command" /\ d.phase = "deliver" /\ d.next <= Len(c.recipients)
  /\ UNCHANGED <<lis, refs, slot, failed>>
  /\ LET r == c.recipients[d.next]
     IN  CASE r.kind = None -> addError(Error(550), rejects)
           [] r.kind = "alias" /\ ~aliasAllowedMsgFrom(r.addr, d.from) ->
                addError(Error(550), rejects)
           [] OTHER ->
                \/ \* The account of a target cannot be opened.
                   addError(Error(451), rejects)
                \/ \* a0 decides: the first analysis that accepts, or else the first.
                   \E a0 \in Verdicts :
                     IF a0.accept THEN Deliver(r)
                     ELSE \E stored \in SUBSET (IF a0.reason = "highrate"
                                               THEN {} ELSE ToRejects(r)) :
                            addError(Error(a0.code), rejects \cup stored)

\* The reply when all recipients failed: their error if it is the same for all.
FailureCode(errs) ==
  CASE \A k \in DOMAIN errs : errs[k].code = errs[1].code -> errs[1].code
    [] \E k \in DOMAIN errs : errs[k].code >= 500 -> 554
    [] OTHER -> 451

\* As AllFailed, but one error is enough.
AnyFailed(errs) == errs # <<>>

\* deliver takes as many errors as recipients for the failure of all of them.
AllFailed(errs) == Len(c.recipients) = Len(errs)

\* The end of deliver: an error reply, or success with a DSN for the recipients
\* that failed. A DSN that cannot be queued is only logged.
deliverDone ==
  /\ c.state = "command" /\ d.phase = "deliver" /\ d.next > Len(c.recipients)
  /\ UNCHANGED <<lis, refs, slot, failed, rejects>>
  /\ IF AllFailed(d.errs)
     THEN Refuse(c, FailureCode(d.errs))
     ELSE \E dsn \in {{}, {d.errs[k].rcpt : k \in DOMAIN d.errs}} :
            Complete(c, [d EXCEPT !.dsn = dsn])

-----------------------------------------------------------------------------
Next ==
  \/ serve \/ Abort \/ cmdQuit \/ cmdUnknown \/ cmdNoop \/ cmdRset \/ cmdHello
  \/ cmdStarttls \/ StarttlsFailed
  \/ cmdAuthRefused \/ cmdAuthPassword \/ cmdAuthExternal
  \/ cmdAuthChallenge \/ cmdAuthAnswer
  \/ cmdMailTooManyBad \/ cmdMail \/ cmdRcpt
  \/ cmdData \/ submit \/ verify \/ processRecipient \/ deliverDone

Spec == Init /\ [][Next]_vars

-----------------------------------------------------------------------------
(* Properties.                                                             *)

\* The recipients of the DATA command, as deliver sorted them.
Rcpts == IF d.phase = "done" THEN d.rcpts ELSE c.recipients

\* Whatever order of commands, failures and client certificates a connection
\* sees: without a reverse path nothing of an earlier transaction is left (rset
\* is called on every way out of cmdMail); the connection holds a reference to
\* exactly its account, and to the account of an exchange in progress; and it
\* counts in limiterConnections exactly while it is open.
SessionClean ==
  /\ c.mailFrom = None => rset(c) = c
  /\ \A a \in Accounts :
       refs[a] = Cardinality({f \in {"account", "sasl"} : c[f] = a})
  /\ slot = (c.state # "closed")
  /\ c.authSASL \/ c.authTLS => c.account # None

\* A message reaches the queue only for an account that logged in on this
\* connection, as it is now (after STARTTLS started over), with a reverse path
\* and a From address that are the account's own (submit, cmdMail). And where the
\* listener requires TLS for delivery, a message is queued or stored over a plain
\* text connection only for an address that TLS reports are sent to (cmdRcpt,
\* xneedTLSForDelivery).
SubmitAuthorized ==
  /\ \A q \in d.queued :
       /\ q.account = c.account
       /\ c.authSASL \/ c.authTLS
       /\ AllowMsgFrom(q.account, q.from)
       /\ q.mailFrom = NullPath \/ AllowMsgFrom(q.account, q.mailFrom)
  /\ lis.tlsForDelivery /\ ~c.tls =>
       /\ \A q \in d.queued : q.rcpt \in ReportAddr
       /\ \A x \in d.got : Rcpts[x[1]].addr \in ReportAddr

\* A delivery that is answered with success has, for each recipient, been stored
\* for at least one account or been reported in the errors a DSN is made of; only
\* an alias all of whose members are the sender or explicit recipients has
\* neither (deliver).
DeliveryAccounted ==
  d.phase = "done" /\ ~lis.submission /\ d.code = 250 =>
    \A i \in DOMAIN d.rcpts :
      \/ \E x \in d.got : x[1] = i
      \/ \E k \in DOMAIN d.errs : d.errs[k].rcpt = i
      \/ /\ d.rcpts[i].kind = "alias"
         /\ \A t \in ToSet(Members[d.rcpts[i].addr]) :
              t = d.from \/ \E j \in DOMAIN d.rcpts : d.rcpts[j] = Recipient(t, "account")

\* An address that was named explicitly does not get the message again as member
\* of an alias, in whatever order the recipients were given (deliver sorts them).
AliasOnce ==
  \A x, y \in d.got :
    x[2] = y[2] => Rcpts[x[1]].kind = Rcpts[y[1]].kind

\* The errors that deliver has for the i-th recipient, and whether it stored the
\* message for an account of that recipient.
ErrorsOf(i) == {k \in DOMAIN d.errs : d.errs[k].rcpt = i}
StoredFor(i) == \E x \in d.got : x[1] = i

\* "If all recipients failed to deliver, return an error.": so it is, and with an error
\* reply nothing was stored for any recipient, unless storing the message for an account
\* failed. That error is added twice when nothing is stored for the recipient, and also
\* when another member of an alias has the message, and deliver compares the number of
\* errors with the number of recipients.
FailureReplied ==
  /\ d.phase = "done" /\ d.next > Len(d.rcpts)
  /\ \A i \in DOMAIN d.rcpts : Cardinality(ErrorsOf(i)) <= IF StoredFor(i) THEN 0 ELSE 1
  => IF \A i \in DOMAIN d.rcpts : ErrorsOf(i) # {} THEN d.code # 250 /\ d.got = {} ELSE d.code = 250

\* What a connection leaves behind and what it lets into the queue: SessionClean
\* and SubmitAuthorized.
SessionSound == SessionClean /\ SubmitAuthorized

\* What becomes of each recipient of a delivery: DeliveryAccounted, AliasOnce and
\* FailureReplied.
RecipientsAccounted == DeliveryAccounted /\ AliasOnce /\ FailureReplied
=============================================================================
