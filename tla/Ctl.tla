--------------------------------- MODULE Ctl ---------------------------------
(***************************************************************************)
(* The "ctl" socket between the mox command and the running server: the    *)
(* line protocol with its streams (ctl.go), the server's side of every     *)
(* command (servectlcmd), and the functions of the command line that speak *)
(* the other side (main.go, queue.go, import.go).                          *)
(*                                                                         *)
(* A side of a command is a script: what it writes, reads and checks, in   *)
(* order. A line is its meaning (a parameter's name, "ok", "error", the    *)
(* count before data), so that a parameter read as another one shows. The  *)
(* socket delivers what is written in order, in pieces of any length, and  *)
(* lines are read through a buffer, but the answer to a piece of a stream  *)
(* is read past it. The server can fail at every check.                    *)
(***************************************************************************)
EXTENDS Integers, Sequences, SequencesExt

CONSTANTS
  Commands,   \* Commands given to a client.
  MaxChunks   \* Bound: pieces of a stream, and lines with progress.

VARIABLE x

\* The steps of a script.
W(v) == [do |-> "xwrite", v |-> v]
R(v) == [do |-> "xread", v |-> v]
ReadOk == [do |-> "xreadok", v |-> "ok"]
Check == [do |-> "xcheck", v |-> ""]
StreamFrom == [do |-> "xstreamfrom", v |-> ""]
StreamTo == [do |-> "xstreamto", v |-> ""]
Progress == [do |-> "progress", v |-> ""]
ReadProgress == [do |-> "readprogress", v |-> ""]
Exit == [do |-> "exit", v |-> ""]
ReadEOF == [do |-> "readeof", v |-> ""]
Imap == [do |-> "imap", v |-> ""]
ReadRaw == [do |-> "readraw", v |-> ""]

Writes(vs) == [i \in DOMAIN vs |-> W(vs[i])]
Reads(vs) == [i \in DOMAIN vs |-> R(vs[i])]

\* How commands end: with ok, with a stream, or with a count.
Done == <<Check, W("ok")>>
Listed == <<Check, W("ok"), StreamFrom>>
Counted == <<Check, W("ok"), W("count")>>
AwaitOk == <<ReadOk>>
AwaitList == <<ReadOk, StreamTo>>
AwaitCount == <<ReadOk, R("count")>>

-----------------------------------------------------------------------------
(* The server.                                                             *)

serveDeliver ==
  [c \in {"stop"} |-> <<Exit>>] @@
  [c \in {"deliver"} |-> Reads(<<"address">>) \o <<Check, W("ok"), StreamTo>> \o Done] @@
  [c \in {"setaccountpassword"} |-> Reads(<<"account", "password">>) \o Done]

serveHoldRules ==
  [c \in {"queueholdruleslist"} |-> Listed] @@
  [c \in {"queueholdrulesadd"} |-> Reads(<<"account", "senderdomain", "recipientdomain">>) \o Done] @@
  [c \in {"queueholdrulesremove"} |-> Reads(<<"id">>) \o Done]

serveQueue ==
  [c \in {"queuelist"} |-> Reads(<<"filter", "sort">>) \o Listed] @@
  [c \in {"queueholdset"} |-> Reads(<<"filter", "hold">>) \o Counted] @@
  [c \in {"queueschedule"} |-> Reads(<<"filter", "relnow", "duration">>) \o Counted] @@
  [c \in {"queuetransport"} |-> Reads(<<"filter", "transport">>) \o Counted] @@
  [c \in {"queuerequiretls"} |-> Reads(<<"filter", "requiretls">>) \o Counted]

serveQueueEnd ==
  [c \in {"queuefail", "queuedrop"} |-> Reads(<<"filter">>) \o Counted] @@
  [c \in {"queuedump", "queueretiredprint"} |-> Reads(<<"id">>) \o Listed] @@
  [c \in {"queueretiredlist"} |-> Reads(<<"retiredfilter", "retiredsort">>) \o Listed]

serveHooks ==
  [c \in {"queuehooklist"} |-> Reads(<<"hookfilter", "hooksort">>) \o Listed] @@
  [c \in {"queuehookschedule"} |-> Reads(<<"hookfilter", "relnow", "duration">>) \o Counted] @@
  [c \in {"queuehookcancel"} |-> Reads(<<"hookfilter">>) \o Counted] @@
  [c \in {"queuehookprint"} |-> Reads(<<"id">>) \o Listed] @@
  [c \in {"queuehookretiredlist"} |-> Reads(<<"hookretiredfilter", "hookretiredsort">>) \o Listed]

serveSuppress ==
  [c \in {"queuehookretiredprint"} |-> Reads(<<"id">>) \o Listed] @@
  [c \in {"queuesuppresslist"} |-> Reads(<<"account">>) \o Listed] @@
  [c \in {"queuesuppressadd", "queuesuppressremove"} |-> Reads(<<"account", "address">>) \o Done] @@
  [c \in {"queuesuppresslookup"} |-> Reads(<<"account", "address">>) \o Listed]

\* ximportctl: ok when it starts, then progress.
serveImport ==
  [c \in {"importmaildir", "importmbox"} |->
     Reads(<<"account", "mailbox", "src">>) \o <<Check, W("ok"), Progress>> \o Counted]

\* As serveDomains, but the parameters are read in the order of its comment.
serveDomainsComment ==
  [c \in {"domainadd"} |-> Reads(<<"disabled">>) \o <<Check>> \o Reads(<<"domain", "account", "localpart">>) \o Done] @@
  [c \in {"domainrm"} |-> Reads(<<"domain">>) \o Done] @@
  [c \in {"domaindisabled"} |-> Reads(<<"disabled", "domain">>) \o Done]

serveDomains ==
  [c \in {"domainadd"} |-> Reads(<<"disabled">>) \o <<Check>> \o Reads(<<"domain", "account", "localpart">>) \o Done] @@
  [c \in {"domainrm"} |-> Reads(<<"domain">>) \o Done] @@
  [c \in {"domaindisabled"} |-> Reads(<<"domain", "disabled">>) \o Done]

serveAccounts ==
  [c \in {"accountadd"} |-> Reads(<<"account", "address">>) \o Done] @@
  [c \in {"accountrm", "accountenable"} |-> Reads(<<"account">>) \o Done] @@
  [c \in {"accountlist"} |-> Listed] @@
  [c \in {"accountdisabled"} |-> Reads(<<"account", "message">>) \o Done]

serveTlspubkeys ==
  [c \in {"tlspubkeylist"} |-> Reads(<<"account">>) \o Listed] @@
  [c \in {"tlspubkeyget"} |-> Reads(<<"fingerprint">>) \o
     <<Check, W("ok")>> \o Writes(<<"type", "name", "account", "address", "nopreauth">>) \o <<StreamFrom>>] @@
  [c \in {"tlspubkeyadd"} |-> Reads(<<"address", "name", "nopreauth">>) \o <<Check, StreamTo>> \o Done] @@
  [c \in {"tlspubkeyrm"} |-> Reads(<<"fingerprint">>) \o Done] @@
  [c \in {"addressadd"} |-> Reads(<<"address", "account">>) \o Done] @@
  [c \in {"addressrm"} |-> Reads(<<"address">>) \o Done]

serveAliases ==
  [c \in {"aliaslist"} |-> Reads(<<"domain">>) \o Listed] @@
  [c \in {"aliasprint"} |-> Reads(<<"address">>) \o Listed] @@
  [c \in {"aliasadd"} |-> Reads(<<"address", "alias">>) \o Done] @@
  [c \in {"aliasupdate"} |-> Reads(<<"address", "postpublic", "listmembers", "allowmsgfrom">>) \o Done]

serveAliasMembers ==
  [c \in {"aliasrm"} |-> Reads(<<"address">>) \o Done] @@
  [c \in {"aliasaddaddr", "aliasrmaddr"} |-> Reads(<<"address", "addresses">>) \o Done] @@
  [c \in {"loglevels"} |-> Listed] @@
  [c \in {"setloglevels"} |-> Reads(<<"pkg", "level">>) \o Done]

\* Commands for all messages of an account.
serveMaintenance ==
  [c \in {"retrain"} |-> Reads(<<"account">>) \o Done] @@
  [c \in {"recalculatemailboxcounts", "fixmsgsize", "reparse", "reassignthreads"} |-> Reads(<<"account">>) \o Listed]

\* xbackupctl: its stream comes before its result.
serveBackup ==
  [c \in {"backup"} |-> Reads(<<"destdir", "verbose">>) \o <<StreamFrom>> \o Done]

serveIMAP ==
  [c \in {"imapserve"} |-> Reads(<<"address">>) \o <<W("ok"), Imap>>]

Server ==
  serveDeliver @@ serveHoldRules @@ serveQueue @@ serveQueueEnd @@ serveHooks @@ serveSuppress @@ serveImport @@
  serveDomains @@ serveAccounts @@ serveTlspubkeys @@ serveAliases @@ serveAliasMembers @@ serveMaintenance @@
  serveBackup @@ serveIMAP

\* A command the server does not know is answered with an error.
servectlcmd(c) == IF c \in DOMAIN Server THEN Server[c] ELSE <<W("unrecognized command")>>

-----------------------------------------------------------------------------
(* The client.                                                             *)

ctlcmdDomains ==
  [c \in {"domainadd"} |-> Writes(<<"disabled", "domain", "account", "localpart">>) \o AwaitOk] @@
  [c \in {"domainrm"} |-> Writes(<<"domain">>) \o AwaitOk] @@
  [c \in {"domaindisabled"} |-> Writes(<<"domain", "disabled">>) \o AwaitOk]

ctlcmdAliases ==
  [c \in {"aliaslist"} |-> Writes(<<"domain">>) \o AwaitList] @@
  [c \in {"aliasprint"} |-> Writes(<<"address">>) \o AwaitList] @@
  [c \in {"aliasadd"} |-> Writes(<<"address", "alias">>) \o AwaitOk] @@
  [c \in {"aliasupdate"} |-> Writes(<<"address", "postpublic", "listmembers", "allowmsgfrom">>) \o AwaitOk] @@
  [c \in {"aliasrm"} |-> Writes(<<"address">>) \o AwaitOk] @@
  [c \in {"aliasaddaddr", "aliasrmaddr"} |-> Writes(<<"address", "addresses">>) \o AwaitOk]

ctlcmdAccounts ==
  [c \in {"accountadd"} |-> Writes(<<"account", "address">>) \o AwaitOk] @@
  [c \in {"accountrm"} |-> Writes(<<"account">>) \o AwaitOk] @@
  [c \in {"accountlist"} |-> AwaitList] @@
  [c \in {"accountdisabled"} |-> Writes(<<"account", "message">>) \o AwaitOk]

ctlcmdTlspubkeys ==
  [c \in {"tlspubkeylist"} |-> Writes(<<"account">>) \o AwaitList] @@
  [c \in {"tlspubkeyget"} |-> Writes(<<"fingerprint">>) \o <<ReadOk>> \o
     Reads(<<"type", "name", "account", "address", "nopreauth">>) \o <<StreamTo>>] @@
  [c \in {"tlspubkeyadd"} |-> Writes(<<"address", "name", "nopreauth">>) \o <<StreamFrom>> \o AwaitOk] @@
  [c \in {"tlspubkeyrm"} |-> Writes(<<"fingerprint">>) \o AwaitOk]

ctlcmdAddresses ==
  [c \in {"addressadd"} |-> Writes(<<"address", "account">>) \o AwaitOk] @@
  [c \in {"addressrm"} |-> Writes(<<"address">>) \o AwaitOk]

ctlcmdLoglevels ==
  [c \in {"loglevels"} |-> AwaitList] @@
  [c \in {"setloglevels"} |-> Writes(<<"pkg", "level">>) \o AwaitOk] @@
  [c \in {"stop"} |-> <<ReadEOF>>]

ctlcmdBackup == [c \in {"backup"} |-> Writes(<<"destdir", "verbose">>) \o <<StreamTo, ReadOk>>]

ctlcmdDeliver ==
  [c \in {"setaccountpassword"} |-> Writes(<<"account", "password">>) \o AwaitOk] @@
  [c \in {"deliver"} |-> Writes(<<"address">>) \o <<ReadOk, StreamFrom>> \o AwaitOk]

ctlcmdRetrain == [c \in {"retrain"} |-> Writes(<<"account">>) \o AwaitOk]

ctlcmdReparse == [c \in {"fixmsgsize", "reparse"} |-> Writes(<<"account">>) \o AwaitList]

ctlcmdRecalculate == [c \in {"recalculatemailboxcounts"} |-> Writes(<<"account">>) \o AwaitList]

ctlcmdIMAPServe ==
  [c \in {"reassignthreads"} |-> Writes(<<"account">>) \o AwaitList] @@
  [c \in {"imapserve"} |-> Writes(<<"address">>) \o <<ReadOk, ReadRaw>>]

ctlcmdHoldrules ==
  [c \in {"queueholdruleslist"} |-> AwaitList] @@
  [c \in {"queueholdrulesadd"} |-> Writes(<<"account", "senderdomain", "recipientdomain">>) \o AwaitOk] @@
  [c \in {"queueholdrulesremove"} |-> Writes(<<"id">>) \o AwaitOk]

ctlcmdQueue ==
  [c \in {"queuelist"} |-> Writes(<<"filter", "sort">>) \o AwaitList] @@
  [c \in {"queueholdset"} |-> Writes(<<"filter", "hold">>) \o AwaitCount] @@
  [c \in {"queueschedule"} |-> Writes(<<"filter", "relnow", "duration">>) \o AwaitCount] @@
  [c \in {"queuetransport"} |-> Writes(<<"filter", "transport">>) \o AwaitCount]

ctlcmdQueueEnd ==
  [c \in {"queuerequiretls"} |-> Writes(<<"filter", "requiretls">>) \o AwaitCount] @@
  [c \in {"queuefail", "queuedrop"} |-> Writes(<<"filter">>) \o AwaitCount] @@
  [c \in {"queuedump"} |-> Writes(<<"id">>) \o AwaitList]

ctlcmdQueueSuppress ==
  [c \in {"queuesuppresslist"} |-> Writes(<<"account">>) \o AwaitList] @@
  [c \in {"queuesuppressadd", "queuesuppressremove"} |-> Writes(<<"account", "address">>) \o AwaitOk] @@
  [c \in {"queuesuppresslookup"} |-> Writes(<<"account", "address">>) \o AwaitList] @@
  [c \in {"queueretiredlist"} |-> Writes(<<"retiredfilter", "retiredsort">>) \o AwaitList] @@
  [c \in {"queueretiredprint"} |-> Writes(<<"id">>) \o AwaitList]

ctlcmdQueueHook ==
  [c \in {"queuehooklist"} |-> Writes(<<"hookfilter", "hooksort">>) \o AwaitList] @@
  [c \in {"queuehookschedule"} |-> Writes(<<"hookfilter", "relnow", "duration">>) \o AwaitCount] @@
  [c \in {"queuehookcancel"} |-> Writes(<<"hookfilter">>) \o AwaitCount] @@
  [c \in {"queuehookprint", "queuehookretiredprint"} |-> Writes(<<"id">>) \o AwaitList] @@
  [c \in {"queuehookretiredlist"} |-> Writes(<<"hookretiredfilter", "hookretiredsort">>) \o AwaitList]

ctlcmdImport ==
  [c \in {"importmaildir", "importmbox"} |->
     Writes(<<"account", "mailbox", "src">>) \o <<ReadOk, ReadProgress, R("count")>>]

Client ==
  ctlcmdDomains @@ ctlcmdAliases @@ ctlcmdAccounts @@ ctlcmdTlspubkeys @@ ctlcmdAddresses @@ ctlcmdLoglevels @@
  ctlcmdBackup @@ ctlcmdDeliver @@ ctlcmdRetrain @@ ctlcmdReparse @@ ctlcmdRecalculate @@ ctlcmdIMAPServe @@
  ctlcmdHoldrules @@ ctlcmdQueue @@ ctlcmdQueueEnd @@ ctlcmdQueueSuppress @@ ctlcmdQueueHook @@ ctlcmdImport

\* A command of a newer version, for the server to refuse.
Script(c) == <<R("ctlv0"), W(c)>> \o (IF c \in DOMAIN Client THEN Client[c] ELSE AwaitOk)

-----------------------------------------------------------------------------
(* Both sides. sent: what a side has written and the other has not read    *)
(* from the socket; buf: its bufio.Reader. at: where it is in a stream;    *)
(* chunks: the pieces written. end: how it ended.                          *)

Other == [client |-> "server", server |-> "client"]

Side(script) == [script |-> script, buf |-> << >>, sent |-> << >>, at |-> "", chunks |-> 0, end |-> ""]

Init ==
  \E c \in Commands : x = [cmd |-> c, misread |-> FALSE, failed |-> FALSE,
                           client |-> Side(Script(c)), server |-> Side(<<W("ctlv0"), R("cmd")>>)]

Do(s) == Head(x[s].script).do

\* Goes on with the script.
Advance(p) == [p EXCEPT !.script = Tail(@), !.at = "", !.chunks = 0]
Write(p, v) == [p EXCEPT !.sent = Append(@, v)]

\* A side that fails closes its end of the socket; the server first writes the error.
Fail(s, p) == IF s = "server" THEN [Write(p, "error") EXCEPT !.end = "error"] ELSE [p EXCEPT !.end = "error"]
Closed(s) == x[Other[s]].end # ""

\* The buffer is filled with what is there, or part of it.
Fill(s) ==
  /\ x[s].end = "" /\ x[s].buf = << >>
  /\ x[s].script # << >> /\ Do(s) \in {"xread", "xreadok", "xstreamto", "readprogress"}
  /\ LET sent == x[Other[s]].sent
     IN  \E n \in 1..Len(sent) :
           x' = [x EXCEPT ![s].buf = SubSeq(sent, 1, n), ![Other[s]].sent = SubSeq(sent, n + 1, Len(sent))]

\* Reading when the other side has closed and everything was read.
AtEOF(s) ==
  /\ x[s].end = "" /\ x[s].buf = << >> /\ Closed(s) /\ x[Other[s]].sent = << >>
  /\ x[s].script # << >>
  /\ \/ /\ Do(s) \in {"xread", "xreadok", "xstreamto", "readprogress", "imap"} \/ x[s].at = "await"
        /\ x' = [x EXCEPT ![s].end = "error"]
     \/ /\ Do(s) \in {"readeof", "readraw"}
        /\ x' = [x EXCEPT ![s] = Advance(@)]

xread(s) ==
  /\ x[s].end = "" /\ x[s].script # << >> /\ x[s].buf # << >>
  /\ LET v == Head(x[s].buf)
         p == [x[s] EXCEPT !.buf = Tail(@)]
         step == Head(x[s].script)
     IN  \/ /\ Do(s) = "xread" /\ step.v # "cmd"
            /\ x' = [x EXCEPT ![s] = Advance(p), !.misread = @ \/ v # step.v]
         \/ /\ Do(s) = "xread" /\ step.v = "cmd"
            /\ x' = [x EXCEPT ![s] = [Advance(p) EXCEPT !.script = servectlcmd(v) \o <<R("cmd")>>]]
         \/ /\ Do(s) = "xreadok"
            /\ x' = [x EXCEPT ![s] = IF v = "ok" THEN Advance(p) ELSE Fail(s, p)]
         \/ /\ Do(s) = "readprogress"
            /\ x' = [x EXCEPT ![s] = CASE v = "progress" -> p [] v = "ok" -> Advance(p) [] OTHER -> Fail(s, p)]

xwrite(s) ==
  /\ x[s].end = "" /\ x[s].script # << >> /\ Do(s) = "xwrite"
  /\ x' = [x EXCEPT ![s] = IF Closed(s) THEN [@ EXCEPT !.end = "error"]
                           ELSE Write(Advance(@), Head(x[s].script).v)]

\* Something the server checks: an account, a parameter, the work itself.
xcheck(s) ==
  /\ x[s].end = "" /\ x[s].script # << >> /\ Do(s) = "xcheck"
  /\ \/ x' = [x EXCEPT ![s] = Advance(@)]
     \/ x' = [x EXCEPT ![s] = Fail(s, @), !.failed = TRUE]

\* Writing a stream: the size of a piece and the piece, then its answer is read from
\* the socket directly, which may give more than one line. A server can fail between
\* pieces, while it makes the data.
ctlwriter(s) ==
  /\ x[s].end = "" /\ x[s].script # << >> /\ Do(s) = "xstreamfrom"
  /\ \/ /\ x[s].at = "" /\ x[s].chunks < MaxChunks
        /\ x' = [x EXCEPT ![s] = IF Closed(s) THEN [@ EXCEPT !.end = "error"]
                                 ELSE [Write(Write(@, "size"), "data") EXCEPT !.at = "await", !.chunks = @ + 1]]
     \/ /\ x[s].at = ""
        /\ x' = [x EXCEPT ![s] = IF Closed(s) THEN [@ EXCEPT !.end = "error"] ELSE Write(Advance(@), "0")]
     \/ /\ x[s].at = "" /\ s = "server"
        /\ x' = [x EXCEPT ![s] = Fail(s, @), !.failed = TRUE]
     \/ /\ x[s].at = "await"
        /\ LET sent == x[Other[s]].sent
           IN  \E n \in 1..Len(sent) :
                 x' = [x EXCEPT ![Other[s]].sent = SubSeq(sent, n + 1, Len(sent)),
                                ![s] = IF SubSeq(sent, 1, n) = <<"ok">> THEN [@ EXCEPT !.at = ""]
                                       ELSE [@ EXCEPT !.end = "error"]]

\* Reading a stream: a line that is not a size is an error. The server can fail to
\* store the data, after it said ok for it.
ctlreader(s) ==
  /\ x[s].end = "" /\ x[s].script # << >> /\ Do(s) = "xstreamto" /\ x[s].buf # << >>
  /\ LET v == Head(x[s].buf)
         p == [x[s] EXCEPT !.buf = Tail(@)]
     IN  CASE x[s].at = "" /\ v = "size" -> x' = [x EXCEPT ![s] = [p EXCEPT !.at = "data"]]
           [] x[s].at = "" /\ v = "0" -> x' = [x EXCEPT ![s] = Advance(p)]
           [] x[s].at = "data" ->
                \/ x' = [x EXCEPT ![s] = IF Closed(s) THEN [p EXCEPT !.end = "error"]
                                         ELSE [Write(p, "ok") EXCEPT !.at = ""], !.misread = @ \/ v # "data"]
                \/ /\ s = "server"
                   /\ x' = [x EXCEPT ![s] = Fail(s, Write(p, "ok")), !.failed = TRUE]
           [] OTHER -> x' = [x EXCEPT ![s].buf = Tail(@), ![s].end = "error"]

\* Lines about progress of an import. On an error the server's handler writes another
\* error after the first.
progress(s) ==
  /\ x[s].end = "" /\ x[s].script # << >> /\ Do(s) = "progress"
  /\ \/ /\ x[s].chunks < MaxChunks
        /\ x' = [x EXCEPT ![s] = [Write(@, "progress") EXCEPT !.chunks = @ + 1]]
     \/ x' = [x EXCEPT ![s] = Advance(@)]
     \/ x' = [x EXCEPT ![s] = Fail(s, Write(@, "error")), !.failed = TRUE]

\* The server stops, or hands the connection over to IMAP, which begins with a greeting.
serve(s) ==
  /\ x[s].end = "" /\ x[s].script # << >>
  /\ \/ Do(s) = "exit" /\ x' = [x EXCEPT ![s].end = "exit"]
     \/ /\ Do(s) = "imap" /\ x[s].at = ""
        /\ x' = [x EXCEPT ![s] = [Write(@, "imap") EXCEPT !.at = "imap"]]

\* The client copies from the socket, not from its buffer.
readraw(s) ==
  /\ x[s].end = "" /\ x[s].script # << >> /\ Do(s) = "readraw"
  /\ x[Other[s]].sent # << >>
  /\ x' = [x EXCEPT ![s] = Advance(@), ![Other[s]].sent = Tail(@), !.misread = @ \/ Head(x[Other[s]].sent) # "imap"]

\* The client is done with its command.
finish ==
  /\ x.client.end = "" /\ x.client.script = << >>
  /\ x' = [x EXCEPT !.client.end = "ok"]

Next ==
  \/ \E s \in {"client", "server"} :
       \/ Fill(s) \/ AtEOF(s) \/ xread(s) \/ xwrite(s) \/ xcheck(s) \/ ctlwriter(s) \/ ctlreader(s)
       \/ progress(s) \/ serve(s) \/ readraw(s)
  \/ finish

Spec == Init /\ [][Next]_x

-----------------------------------------------------------------------------
(* Properties.                                                             *)

\* A side that waits for the other to write.
Waits(s) ==
  /\ x[s].end = "" /\ x[s].script # << >> /\ x[Other[s]].sent = << >> /\ ~Closed(s)
  /\ \/ Do(s) \in {"xread", "xreadok", "xstreamto", "readprogress"} /\ x[s].buf = << >>
     \/ Do(s) \in {"readeof", "readraw"} \/ x[s].at \in {"await", "imap"}

\* For every command, client and server (ctl.go) keep in step, also when the server
\* fails halfway: each line is read as what it was written for, a client reports success
\* only when the server completed the command and everything was read, and an error only
\* when the server failed or does not know the command. The two never wait for each
\* other, with one exception: reading the "ok" to imapserve can also put the greeting of
\* the IMAP server in the client's buffer, while the command then copies from the socket.
CtlInStep ==
  /\ ~x.misread
  /\ Waits("client") /\ Waits("server") => x.cmd = "imapserve" /\ x.client.buf = <<"imap">>
  /\ x.client.end = "ok" => /\ ~x.failed
                            /\ x.client.buf = << >> /\ x.server.sent = << >>
                            /\ x.server.script \in {<<R("cmd")>>, <<Exit, R("cmd")>>, <<Imap, R("cmd")>>}
  /\ x.client.end = "error" => x.failed \/ x.cmd \notin DOMAIN Server
=============================================================================
