------------------------------- MODULE Queue -------------------------------
(***************************************************************************)
(* The outgoing message queue (queue/): messages are rows of a database    *)
(* with a file each; one dispatcher goroutine starts at most one delivery  *)
(* goroutine per recipient domain; a delivery marks an attempt, hands a    *)
(* batch of recipients of one submission to the remote, and settles the    *)
(* outcome by retiring rows and removing files.  Next to these run Add and *)
(* the operator's commands (drop, fail, hold, reschedule), and the process *)
(* may crash or be shut down at any moment.                                *)
(*                                                                         *)
(* Abstractions.  Time is one flag per message: NextAttempt has passed, or *)
(* not yet.  A write transaction is one step, except where the code        *)
(* changes files or accounts inside it: then it is open from a first step  *)
(* to a second, and keeps other writers out.  DNS, MX hosts, TLS and the   *)
(* SMTP dialogue are the choice of an outcome per recipient (external).    *)
(* Database and disk errors are left out.                                  *)
(***************************************************************************)
EXTENDS Naturals, FiniteSets

CONSTANTS
    Msgs,             \* queue.Msg, one per recipient
    NoMsg,            \* no message
    Domains,          \* RecipientDomainStr
    Dom,              \* recipient domain of each message
    Submissions,      \* the sets of messages passed to one call of Add
    MaxConcurrent,    \* maxConcurrentDeliveries
    MaxAttempts,      \* Msg.MaxAttempts, or the default of 8
    Managed,          \* messages the operator holds and reschedules
    Droppable,        \* messages the operator drops or fails
    Refusable,        \* messages of which delivering a notice of failure can fail
    MaxSent,          \* bound: times the remote takes one message
    MaxCrashes,       \* bound: crashes of the process
    Shutdowns         \* whether the process is shut down

ASSUME QueueAssumption ==
    /\ NoMsg \notin Msgs
    /\ IsFiniteSet(Msgs) /\ IsFiniteSet(Domains)
    /\ Dom \in [Msgs -> Domains]
    /\ Submissions \subseteq SUBSET Msgs
    /\ \A s, t \in Submissions : s \cap t # {} => s = t    \* Msg.BaseID
    /\ Managed \subseteq Msgs /\ Droppable \subseteq Msgs /\ Refusable \subseteq Msgs
    /\ MaxConcurrent \in Nat \ {0} /\ MaxAttempts \in Nat \ {0}
    /\ MaxSent \in Nat /\ MaxCrashes \in Nat /\ Shutdowns \in BOOLEAN

VARIABLES
    row,        \* what the database says of each message
    att,        \* Attempts
    due,        \* NextAttempt is not after now
    slot,       \* messages with equal NextAttempt have an equal slot
    hold,       \* Hold
    rule,       \* a hold rule matching the messages of Managed exists
    file,       \* messages with a file in the queue directory
    sent,       \* times the remote took responsibility for a message
    dsn,        \* failure notices delivered to the sender's account
    untold,     \* messages of which a failure notice could not be delivered
    disp,       \* where startQueue is
    kick,       \* msgqueue holds a token
    alarm,      \* messages whose NextAttempt the timer is set for
    busy,       \* busyDomains
    worker,     \* the deliver goroutine of each domain
    adding,     \* messages of the transaction Add has open
    trash,      \* files failDrop still has to remove
    stopping,   \* mox.Shutdown is done
    crashes

db == <<row, att, due, slot, hold, rule>>
world == <<sent, dsn, untold>>
dispatcher == <<disp, kick, alarm, busy>>
vars == <<db, file, world, dispatcher, worker, adding, trash, stopping, crashes>>

\* A row is retired as delivered, failed or canceled; "aborted" is failed by the operator,
\* "lost" is deleted without being retired.
Rows == {"absent", "queued", "delivered", "failed", "canceled", "aborted", "lost"}

\* Failures to settle together: one call of failMsgsTx.
Group == [ms : SUBSET Msgs, perm : BOOLEAN]

\* One run of deliver.  "known": m0 still holds the message it was started for;
\* "direct": deliverDirect, not processDeliveries, settles the outcome.
Job == [pc : {"idle", "begin", "prepare", "attempt", "settle", "failing", "unlink", "report"},
        m0 : Msgs \cup {NoMsg}, known : BOOLEAN, direct : BOOLEAN,
        batch : SUBSET Msgs, took : SUBSET Msgs, fails : SUBSET Group,
        retire : SUBSET Msgs, lose : SUBSET Msgs]

Idle == [pc |-> "idle", m0 |-> NoMsg, known |-> FALSE, direct |-> FALSE,
         batch |-> {}, took |-> {}, fails |-> {}, retire |-> {}, lose |-> {}]

Queued == {m \in Msgs : row[m] = "queued"}

\* No write transaction is open.
DbFree == adding = {} /\ \A d \in Domains : worker[d].pc # "failing"

Base(m) == {x \in Msgs : \E s \in Submissions : m \in s /\ x \in s}

\* NextAttempt of the messages of ms becomes one new time.
Reschedule(ms, v) ==
    /\ due' = [m \in Msgs |-> IF m \in ms THEN v ELSE due[m]]
    /\ slot' = LET new == CHOOSE s \in Msgs : \A m \in Msgs \ ms : slot[m] # s
               IN [m \in Msgs |-> IF m \in ms THEN new ELSE slot[m]]

\* Attempts is incremented, and NextAttempt is set in the future.
Attempted(ms) ==
    /\ att' = [m \in Msgs |-> IF m \in ms THEN att[m] + 1 ELSE att[m]]
    /\ Reschedule(ms, FALSE)

\* As Retire, but the transaction is not committed.
RetireNot(ms, outcome) == row

\* retireMsgs: the rows are deleted, and kept as retired messages.
Retire(ms, outcome) == [m \in Msgs |-> IF m \in ms THEN outcome ELSE row[m]]

\* deliverDSNFailure for the messages of ms, which returns nothing: the notices of got are
\* delivered.  The others are only logged: the message has no file, or the account cannot
\* be opened or takes no message (it is over its quota).  Ghost untold: the latter.
Notify(ms, got) ==
    /\ got \subseteq ms \cap file
    /\ (ms \cap file) \ got \subseteq Refusable
    /\ dsn' = [m \in Msgs |-> IF m \in got THEN dsn[m] + 1 ELSE dsn[m]]
    /\ untold' = untold \cup ((ms \cap file) \ got)

Init ==
    /\ row = [m \in Msgs |-> "absent"]
    /\ att = [m \in Msgs |-> 0]
    /\ due = [m \in Msgs |-> FALSE]
    /\ slot = [m \in Msgs |-> m]
    /\ hold = [m \in Msgs |-> FALSE]
    /\ rule = FALSE
    /\ file = {}
    /\ sent = [m \in Msgs |-> 0]
    /\ dsn = [m \in Msgs |-> 0] /\ untold = {}
    /\ disp = "select" /\ kick = TRUE /\ alarm = {} /\ busy = {}
    /\ worker = [d \in Domains |-> Idle]
    /\ adding = {} /\ trash = {}
    /\ stopping = FALSE /\ crashes = 0

-----------------------------------------------------------------------------
(* Add: rows and files in one transaction, then the kick.                  *)

\* The rows are inserted, uncommitted, and the files linked.
AddLink(s) ==
    /\ DbFree
    /\ \A m \in s : row[m] = "absent"
    /\ s \cap file = {}
    /\ adding' = s
    /\ file' = file \cup s
    /\ UNCHANGED <<db, world, dispatcher, worker, trash, stopping, crashes>>

\* As AddCommit, but the deferred removal of the files still runs.
AddCommitPaths ==
    /\ adding # {}
    /\ row' = [m \in Msgs |-> IF m \in adding THEN "queued" ELSE row[m]]
    /\ Reschedule(adding, TRUE)
    /\ hold' = [m \in Msgs |-> IF m \in adding THEN rule /\ m \in Managed ELSE hold[m]]
    /\ file' = file \ adding
    /\ adding' = {}
    /\ kick' = TRUE
    /\ UNCHANGED <<att, rule, world, disp, alarm, busy, worker, trash, stopping, crashes>>

\* As AddCommit, but without the kick.
AddCommitQuiet ==
    /\ adding # {}
    /\ row' = [m \in Msgs |-> IF m \in adding THEN "queued" ELSE row[m]]
    /\ Reschedule(adding, TRUE)
    /\ hold' = [m \in Msgs |-> IF m \in adding THEN rule /\ m \in Managed ELSE hold[m]]
    /\ adding' = {}
    /\ UNCHANGED <<att, rule, file, world, dispatcher, worker, trash, stopping, crashes>>

\* The rows are committed, on hold if a rule matches them; the queue is kicked.
AddCommit ==
    /\ adding # {}
    /\ row' = [m \in Msgs |-> IF m \in adding THEN "queued" ELSE row[m]]
    /\ Reschedule(adding, TRUE)
    /\ hold' = [m \in Msgs |-> IF m \in adding THEN rule /\ m \in Managed ELSE hold[m]]
    /\ adding' = {}
    /\ kick' = TRUE
    /\ UNCHANGED <<att, rule, file, world, disp, alarm, busy, worker, trash, stopping, crashes>>

\* A file left behind by a crash is in the way of the link: Add fails, and the
\* deferred removal takes that file with it.
AddLeftover(s) ==
    /\ DbFree
    /\ \A m \in s : row[m] = "absent"
    /\ \E m \in s \cap file : file' = file \ {m}
    /\ UNCHANGED <<db, world, dispatcher, worker, adding, trash, stopping, crashes>>

\* As AddFail, but the files stay.
AddFailKeeps ==
    /\ adding # {}
    /\ adding' = {}
    /\ UNCHANGED <<db, file, world, dispatcher, worker, trash, stopping, crashes>>

\* A failing link, sync or commit: the deferred functions remove and roll back.
AddFail ==
    /\ adding # {}
    /\ file' = file \ adding
    /\ adding' = {}
    /\ UNCHANGED <<db, world, dispatcher, worker, trash, stopping, crashes>>

-----------------------------------------------------------------------------
(* The operator's commands.                                                *)

\* HoldRuleAdd marks the matching messages, HoldRuleRemove leaves them.
HoldRuleAdd ==
    /\ DbFree /\ ~rule
    /\ Managed # {}
    /\ rule' = TRUE
    /\ hold' = [m \in Msgs |-> hold[m] \/ m \in Managed \cap Queued]
    /\ kick' = TRUE
    /\ UNCHANGED <<row, att, due, slot, file, world, disp, alarm, busy, worker, adding, trash, stopping, crashes>>

HoldRuleRemove ==
    /\ DbFree /\ rule
    /\ rule' = FALSE
    /\ UNCHANGED <<row, att, due, slot, hold, file, world, dispatcher, worker, adding, trash, stopping, crashes>>

HoldSet(m, v) ==
    /\ DbFree
    /\ m \in Managed \cap Queued /\ hold[m] # v
    /\ hold' = [hold EXCEPT ![m] = v]
    /\ kick' = TRUE
    /\ UNCHANGED <<row, att, due, slot, rule, file, world, disp, alarm, busy, worker, adding, trash, stopping, crashes>>

\* NextAttemptSet, to a time that has come or not.  (NextAttemptAdd amounts to one
\* of these for each time it changes.)
NextAttemptSet(ms, v) ==
    /\ DbFree
    /\ ms # {} /\ ms \subseteq Managed \cap Queued
    /\ Reschedule(ms, v)
    /\ kick' = TRUE
    /\ UNCHANGED <<row, att, hold, rule, file, world, disp, alarm, busy, worker, adding, trash, stopping, crashes>>

\* TransportSet and RequireTLSSet: see Gathered for what they change.
TransportSet ==
    /\ DbFree
    /\ Managed \cap Queued # {}
    /\ kick' = TRUE
    /\ UNCHANGED <<db, file, world, disp, alarm, busy, worker, adding, trash, stopping, crashes>>

\* failDrop, transaction: Drop retires as canceled, Fail informs the sender.
FailDrop(ms, fail) ==
    /\ DbFree /\ trash = {}
    /\ ms # {} /\ ms \subseteq Droppable \cap Queued
    /\ row' = Retire(ms, IF fail THEN "aborted" ELSE "canceled")
    /\ \E got \in SUBSET ms : Notify(IF fail THEN ms ELSE {}, got)
    /\ trash' = ms
    /\ UNCHANGED <<att, due, slot, hold, rule, file, sent, dispatcher, worker, adding, stopping, crashes>>

\* failDrop, after the commit: the files go, the queue is kicked.
FailDropFiles ==
    /\ trash # {}
    /\ file' = file \ trash
    /\ trash' = {}
    /\ kick' = TRUE
    /\ UNCHANGED <<db, world, disp, alarm, busy, worker, adding, stopping, crashes>>

-----------------------------------------------------------------------------
(* The dispatcher, startQueue: select, launchWork, nextWork.               *)

\* As Woken, but without the maximum.
WokenAlways(b) == "launch"

\* What a receive in the select leads to: nothing new while at the maximum.
Woken(b) == IF Cardinality(b) >= MaxConcurrent THEN "select" ELSE "launch"

ReceiveKick ==
    /\ disp = "select" /\ kick
    /\ kick' = FALSE
    /\ disp' = Woken(busy)
    /\ UNCHANGED <<db, file, world, alarm, busy, worker, adding, trash, stopping, crashes>>

\* The timer fires when the first message it was set for is due.  (That it also
\* fires 24 hours after finding no message is not relied on.)
ReceiveTimer ==
    /\ disp = "select"
    /\ \E m \in alarm : due[m]
    /\ alarm' = {}
    /\ disp' = Woken(busy)
    /\ UNCHANGED <<db, file, world, kick, busy, worker, adding, trash, stopping, crashes>>

\* As Reported, but no domain is removed.
ReportedNone(d) == {}

\* The domain a delivery reports is that of m0, which prepare may have cleared.
Reported(d) == IF worker[d].known THEN {d} ELSE {}

\* deliveryResults: a receive, by the select or by the loop waiting at shutdown.
ReceiveResult(d) ==
    /\ worker[d].pc = "report"
    /\ disp \in {"select", "drain"}
    /\ busy' = busy \ Reported(d)
    /\ disp' = IF disp = "drain" THEN "drain" ELSE Woken(busy')
    /\ worker' = [worker EXCEPT ![d] = Idle]
    /\ UNCHANGED <<db, file, world, kick, alarm, adding, trash, stopping, crashes>>

\* The messages launchWork and nextWork look at: not on hold, domain not busy.
Candidates == {m \in Queued : ~hold[m] /\ Dom[m] \notin busy}

\* launchWork: the first due messages up to the limit, the first of each domain.
Launch ==
    /\ disp = "launch"
    /\ LET work == {m \in Candidates : due[m] /\ ~stopping}
           n == IF Cardinality(work) < MaxConcurrent THEN Cardinality(work) ELSE MaxConcurrent
       IN \E first \in SUBSET work :
            /\ Cardinality(first) = n
            /\ \E ms \in SUBSET first :
                 /\ \A m \in first : \E x \in ms : Dom[x] = Dom[m]
                 /\ \A x, y \in ms : Dom[x] = Dom[y] => x = y
                 /\ busy' = busy \cup {Dom[m] : m \in ms}
                 /\ worker' = [d \in Domains |->
                      IF \E m \in ms : Dom[m] = d
                      THEN [Idle EXCEPT !.pc = "begin", !.known = TRUE,
                                        !.m0 = CHOOSE m \in ms : Dom[m] = d]
                      ELSE worker[d]]
    /\ disp' = "next"
    /\ UNCHANGED <<db, file, world, kick, alarm, adding, trash, stopping, crashes>>

\* As NextWork, but the timer is not reset.
NextWorkNone ==
    /\ disp = "next"
    /\ alarm' = {}
    /\ disp' = "select"
    /\ UNCHANGED <<db, file, world, kick, busy, worker, adding, trash, stopping, crashes>>

\* nextWork and timer.Reset.
NextWork ==
    /\ disp = "next"
    /\ alarm' = Candidates
    /\ disp' = "select"
    /\ UNCHANGED <<db, file, world, kick, busy, worker, adding, trash, stopping, crashes>>

\* The select sees the shutdown: startQueue waits for the running deliveries ...
ReceiveShutdown ==
    /\ disp = "select" /\ stopping
    /\ disp' = "drain"
    /\ UNCHANGED <<db, file, world, kick, alarm, busy, worker, adding, trash, stopping, crashes>>

\* ... and is done.
Drained ==
    /\ disp = "drain" /\ busy = {}
    /\ disp' = "done"
    /\ UNCHANGED <<db, file, world, kick, alarm, busy, worker, adding, trash, stopping, crashes>>

-----------------------------------------------------------------------------
(* A delivery, deliver: prepare and gather.                                *)

\* As GivesUp, but one attempt later.
GivesUpLate(n, perm) == perm \/ n > MaxAttempts

\* failMsgsTx gives up: a permanent error, or no attempts left.
GivesUp(n, perm) == perm \/ n >= MaxAttempts

Step(d, job) == worker' = [worker EXCEPT ![d] = job]

\* DB.Begin looks at mox.Shutdown first, and then waits for the write lock.
Begin(d) ==
    /\ worker[d].pc = "begin"
    /\ Step(d, [worker[d] EXCEPT !.pc = IF stopping THEN "report" ELSE "prepare"])
    /\ UNCHANGED <<db, file, world, dispatcher, adding, trash, stopping, crashes>>

\* prepare overwrites m0, then cannot get the message: it is gone from the
\* database, or the context of the transaction, mox.Shutdown, is done.
PrepareGone(d) ==
    /\ worker[d].pc = "prepare" /\ DbFree
    /\ stopping \/ row[worker[d].m0] # "queued"
    /\ Step(d, [worker[d] EXCEPT !.pc = "report", !.known = FALSE])
    /\ UNCHANGED <<db, file, world, dispatcher, adding, trash, stopping, crashes>>

\* Sender domain disabled or transport unknown (transient), or recipient on the
\* suppression list (permanent): failMsgsTx in the transaction of prepare.
PrepareFail(d, perm) ==
    LET m0 == worker[d].m0 IN
    /\ worker[d].pc = "prepare" /\ DbFree /\ ~stopping
    /\ row[m0] = "queued"
    /\ IF GivesUp(att[m0] + 1, perm)
       THEN /\ \E got \in SUBSET {m0} : Notify({m0}, got)
            /\ file' = file \ {m0}
            /\ Step(d, [worker[d] EXCEPT !.pc = "failing", !.retire = {m0}])
            /\ UNCHANGED <<att, due, slot, kick>>
       ELSE /\ Attempted({m0})
            /\ kick' = TRUE
            /\ Step(d, [worker[d] EXCEPT !.pc = "report"])
            /\ UNCHANGED <<dsn, untold, file>>
    /\ UNCHANGED <<row, hold, rule, sent, disp, alarm, busy, adding, trash, stopping, crashes>>

\* gather: recipients of the same submission at the same domain, not on hold.  The
\* filter on Attempts is a FilterNonzero: on a first attempt it is none.  The filter
\* NextAttempt <= that of m0 means equal, because launchWork took the earliest, unless
\* the operator gave one of them another time since.
Gatherable(m0) ==
    {m \in (Base(m0) \cap Queued) \ {m0} :
        /\ Dom[m] = Dom[m0] /\ ~hold[m]
        /\ slot[m] = slot[m0] \/ {m, m0} \cap Managed # {}
        /\ att[m0] # 0 => att[m] = att[m0]}

\* What gather takes: all of these, but the operator may have given some another
\* transport or other TLS requirements (TransportSet, RequireTLSSet).
Gathered(m0, more) ==
    /\ more \subseteq Gatherable(m0)
    /\ m0 \in Managed \/ Gatherable(m0) \ more \subseteq Managed

\* The attempt is registered for all of the batch, and committed.
PrepareBatch(d, more, direct) ==
    LET m0 == worker[d].m0
        batch == {m0} \cup more IN
    /\ worker[d].pc = "prepare" /\ DbFree /\ ~stopping
    /\ row[m0] = "queued"
    /\ Gathered(m0, more)
    /\ Attempted(batch)
    /\ Step(d, [worker[d] EXCEPT !.pc = "attempt", !.batch = batch, !.direct = direct])
    /\ UNCHANGED <<row, hold, rule, file, world, dispatcher, adding, trash, stopping, crashes>>

-----------------------------------------------------------------------------
(* The attempt (external): what the remote does with the batch.            *)

\* One error for all of the batch: no host reached, session or transaction
\* refused, file of the message missing (transient).
AttemptFails(d, perm) ==
    LET w == worker[d] IN
    /\ w.pc = "attempt"
    /\ w.m0 \notin file => ~perm
    /\ Step(d, [w EXCEPT !.pc = "settle", !.fails = {[ms |-> w.batch, perm |-> perm]}])
    /\ UNCHANGED <<db, file, world, dispatcher, adding, trash, stopping, crashes>>

\* Every recipient of a batch refused: smtpclient makes it one transient error.
AttemptRefused(d) ==
    LET w == worker[d] IN
    /\ w.pc = "attempt" /\ w.m0 \in file
    /\ Cardinality(w.batch) > 1
    /\ Step(d, [w EXCEPT !.pc = "settle", !.fails = {[ms |-> w.batch, perm |-> FALSE]}])
    /\ UNCHANGED <<db, file, world, dispatcher, adding, trash, stopping, crashes>>

\* An answer per recipient.  Those of "no" are refused permanently, those of
\* "later" transiently, the rest accepted.  deliverHost keeps the response of a
\* refused recipient only when a transaction fails as a whole ("kept").
AttemptSplit(d, no, later, kept) ==
    LET w == worker[d]
        took == w.batch \ (no \cup later) IN
    /\ w.pc = "attempt" /\ w.m0 \in file
    /\ no \cup later \subseteq w.batch /\ no \cap later = {}
    /\ took # {}
    /\ kept \subseteq no /\ (w.direct \/ kept = no)
    /\ \A m \in took : sent[m] < MaxSent
    /\ sent' = [m \in Msgs |-> IF m \in took THEN sent[m] + 1 ELSE sent[m]]
    /\ Step(d, [w EXCEPT !.pc = "settle", !.took = took,
                         !.fails = {[ms |-> {m}, perm |-> m \in kept] : m \in no \cup later}])
    /\ UNCHANGED <<db, file, dsn, untold, dispatcher, adding, trash, stopping, crashes>>

-----------------------------------------------------------------------------
(* Settling: deliverDirect retires what was delivered and then fails the   *)
(* rest in one transaction; processDeliveries fails one by one, and then   *)
(* retires.                                                                *)

\* retireMsgs for the delivered: a row that is gone rolls all of them back.
RetireDelivered(d) ==
    LET w == worker[d]
        ok == w.took \subseteq Queued IN
    /\ w.pc = "settle" /\ DbFree
    /\ w.took # {} /\ (w.direct \/ w.fails = {})
    /\ row' = IF ok THEN Retire(w.took, "delivered") ELSE row
    /\ kick' = (kick \/ ~ok)
    /\ Step(d, [w EXCEPT !.took = {}, !.pc = IF ok THEN "unlink" ELSE "settle",
                         !.retire = IF ok THEN w.took ELSE {}])
    /\ UNCHANGED <<att, due, slot, hold, rule, file, world, disp, alarm, busy, adding, trash, stopping, crashes>>

\* removeMsgsFS after the commit.
Unlink(d) ==
    LET w == worker[d] IN
    /\ w.pc = "unlink"
    /\ file' = file \ w.retire
    /\ kick' = TRUE
    /\ Step(d, [w EXCEPT !.pc = "settle", !.retire = {}])
    /\ UNCHANGED <<db, world, disp, alarm, busy, adding, trash, stopping, crashes>>

\* The message of a group that failMsgsTx calls m0.
First(g, w) == IF w.m0 \in g.ms THEN w.m0 ELSE CHOOSE m \in g.ms : TRUE

\* retireMsgs deletes rows in order and stops at one that is gone; its caller
\* failMsgsTx goes on, so that the deletions before it are committed.
Deleted(g, w) ==
    IF First(g, w) \notin Queued THEN {{}}
    ELSE {ms \in SUBSET (g.ms \cap Queued) : First(g, w) \in ms}

\* As Told, but only for the first message.
ToldFirst(gs, w) == {First(g, w) : g \in gs}

\* The messages of which failMsgsTx informs the sender.
Told(gs, w) == UNION {g.ms : g \in gs}

\* failMsgsTx, up to the commit: the senders are informed and the files removed.
FailMsgs(d, gs) ==
    LET w == worker[d]
        final == {g \in gs : GivesUp(att[First(g, w)], g.perm)}
        broken == {g \in final : ~(g.ms \subseteq Queued)}
        retire == UNION {g.ms : g \in final \ broken} IN
    /\ w.pc = "settle" /\ DbFree
    /\ gs \subseteq w.fails /\ gs # {}
    /\ IF w.direct THEN gs = w.fails /\ w.took = {} ELSE Cardinality(gs) = 1
    /\ \E got \in SUBSET Msgs : Notify(Told(final, w), got)
    /\ file' = file \ retire
    /\ \E lose \in IF broken = {} THEN {{}} ELSE UNION {Deleted(g, w) : g \in broken} :
         Step(d, [w EXCEPT !.pc = "failing", !.fails = @ \ gs,
                           !.retire = retire, !.lose = lose])
    /\ UNCHANGED <<db, sent, dispatcher, adding, trash, stopping, crashes>>

\* The commit, and the kick.
FailCommit(d) ==
    LET w == worker[d] IN
    /\ w.pc = "failing"
    /\ row' = [m \in Msgs |-> IF m \in w.lose THEN "lost" ELSE Retire(w.retire, "failed")[m]]
    /\ kick' = TRUE
    /\ Step(d, [w EXCEPT !.pc = "settle", !.retire = {}, !.lose = {}])
    /\ UNCHANGED <<att, due, slot, hold, rule, file, world, disp, alarm, busy, adding, trash, stopping, crashes>>

\* deliver returns; its deferred function reports.
Settled(d) ==
    LET w == worker[d] IN
    /\ w.pc = "settle" /\ w.took = {} /\ w.fails = {}
    /\ Step(d, [w EXCEPT !.pc = "report", !.batch = {}])
    /\ UNCHANGED <<db, file, world, dispatcher, adding, trash, stopping, crashes>>

-----------------------------------------------------------------------------
(* Time, crash and shutdown.                                               *)

\* NextAttempt of a message comes.
TimePasses(m) ==
    /\ row[m] = "queued" /\ ~due[m]
    /\ due' = [x \in Msgs |-> due[x] \/ slot[x] = slot[m]]
    /\ UNCHANGED <<row, att, slot, hold, rule, file, world, dispatcher, worker, adding, trash, stopping, crashes>>

\* The process dies and starts again: the timer of startQueue is set to fire at
\* once, for which the kick stands in.  Open transactions are gone.
Crash ==
    /\ crashes < MaxCrashes
    /\ crashes' = crashes + 1
    /\ disp' = "select" /\ kick' = TRUE /\ alarm' = {} /\ busy' = {}
    /\ worker' = [d \in Domains |-> Idle]
    /\ adding' = {} /\ trash' = {} /\ stopping' = FALSE
    /\ UNCHANGED <<db, file, world>>

Shutdown ==
    /\ Shutdowns /\ ~stopping
    /\ stopping' = TRUE
    /\ UNCHANGED <<db, file, world, dispatcher, worker, adding, trash, crashes>>

-----------------------------------------------------------------------------

Dispatch == \/ ReceiveKick \/ ReceiveTimer \/ ReceiveShutdown
            \/ \E d \in Domains : ReceiveResult(d)
            \/ Launch \/ NextWork \/ Drained

Deliver(d) == \/ Begin(d) \/ PrepareGone(d)
              \/ \E perm \in BOOLEAN : PrepareFail(d, perm)
              \/ \E more \in SUBSET Msgs, direct \in BOOLEAN : PrepareBatch(d, more, direct)
              \/ \E perm \in BOOLEAN : AttemptFails(d, perm)
              \/ AttemptRefused(d)
              \/ \E no, later, kept \in SUBSET worker[d].batch : AttemptSplit(d, no, later, kept)
              \/ RetireDelivered(d) \/ Unlink(d)
              \/ \E gs \in SUBSET worker[d].fails : FailMsgs(d, gs)
              \/ FailCommit(d) \/ Settled(d)

Operator == \/ HoldRuleAdd \/ HoldRuleRemove \/ TransportSet
            \/ \E m \in Managed, v \in BOOLEAN : HoldSet(m, v)
            \/ \E ms \in SUBSET Managed, v \in BOOLEAN : NextAttemptSet(ms, v)
            \/ \E ms \in SUBSET Droppable, fail \in BOOLEAN : FailDrop(ms, fail)
            \/ FailDropFiles

Submit == \/ \E s \in Submissions : AddLink(s) \/ AddLeftover(s)
          \/ AddCommit \/ AddFail

Next == \/ Dispatch \/ \E d \in Domains : Deliver(d)
        \/ Operator \/ Submit
        \/ \E m \in Msgs : TimePasses(m)
        \/ Crash \/ Shutdown

Spec == Init /\ [][Next]_vars

\* Goroutines run, SMTP transactions time out, the clock advances, and the open
\* transaction of Add ends.  Go's select chooses among the ready cases at random.
Fairness ==
    /\ WF_vars(Launch) /\ WF_vars(NextWork) /\ WF_vars(Drained)
    /\ SF_vars(ReceiveKick) /\ SF_vars(ReceiveTimer) /\ SF_vars(ReceiveShutdown)
    /\ \A d \in Domains : SF_vars(ReceiveResult(d)) /\ SF_vars(Deliver(d))
    /\ \A m \in Msgs : WF_vars(TimePasses(m))
    /\ WF_vars(AddCommit \/ AddFail) /\ WF_vars(FailDropFiles)

FairSpec == Spec /\ Fairness

-----------------------------------------------------------------------------

TypeOK ==
    /\ row \in [Msgs -> Rows] /\ att \in [Msgs -> Nat]
    /\ due \in [Msgs -> BOOLEAN] /\ slot \in [Msgs -> Msgs]
    /\ hold \in [Msgs -> BOOLEAN] /\ rule \in BOOLEAN
    /\ file \subseteq Msgs
    /\ sent \in [Msgs -> 0..MaxSent] /\ dsn \in [Msgs -> Nat] /\ untold \subseteq Msgs
    /\ disp \in {"select", "launch", "next", "drain", "done"}
    /\ kick \in BOOLEAN /\ alarm \subseteq Msgs /\ busy \subseteq Domains
    /\ worker \in [Domains -> Job]
    /\ adding \subseteq Msgs /\ trash \subseteq Msgs
    /\ stopping \in BOOLEAN /\ crashes \in 0..MaxCrashes

\* startQueue cannot oversleep: while it waits in its select, a message that is
\* due, not on hold and for a domain without delivery means that a token is in
\* msgqueue, that the timer fires, or that a result is still to come because the
\* maximum of deliveries is reached.
NoLostWakeup ==
    disp = "select" /\ ~stopping /\ (\E m \in Candidates : due[m]) =>
        kick \/ (\E m \in alarm : due[m]) \/ Cardinality(busy) >= MaxConcurrent

\* A running deliver goroutine has its domain in busyDomains until its result is
\* received, so that launchWork never starts a second one for the domain, and
\* although launchWork does not count the running ones, they stay below twice
\* maxConcurrentDeliveries.
OneDeliveryPerDomain ==
    /\ \A d \in Domains : worker[d].pc # "idle" => d \in busy
    /\ Cardinality(busy) < 2 * MaxConcurrent

\* The operator dropped or failed the message.
Dropped(m) == row[m] \in {"canceled", "aborted"}

\* A domain in busyDomains has a deliver goroutine that will report it, unless the
\* process is shutting down or the operator dropped a message for that domain: nothing
\* but that report ever removes it.
BusyIsRunning ==
    \A d \in busy : \/ worker[d].pc # "idle" /\ worker[d].known
                    \/ stopping
                    \/ \E m \in Msgs : Dom[m] = d /\ Dropped(m)

\* The operator dropped or failed a message of the same submission.  A delivery of both
\* then finds a row gone, and what the code does about that is not what it promises.
Disturbed(m) == \E x \in Base(m) : Dropped(x)

\* The sender was told of a failure, or the account did not take the notice, which is only
\* logged ("sender will not be informed about dsn", dsn.go:274).
Notified(m) == dsn[m] > 0 \/ m \in untold

\* A message leaves the queue with an outcome: retired as delivered only after the
\* remote took it, as failed only after the sender was told or the account did not take
\* the notice (failMsgsTx goes on and retires), and no row is deleted without being
\* retired (retireMsgs), unless disturbed.
Accounted ==
    \A m \in Msgs : /\ row[m] = "delivered" => sent[m] > 0
                    /\ row[m] = "failed" => Notified(m)
                    /\ row[m] = "lost" => Disturbed(m)

\* One outcome per message: the remote takes it once or the sender gets one notice
\* of failure, and each crash can repeat that once.
OneOutcome == \A m \in Msgs : sent[m] + dsn[m] <= 1 + crashes \/ Disturbed(m)

\* The operator can hold and reschedule a message of the same submission.  gather can
\* then take one that was attempted into the batch of one that was not.
Rescheduled(m) == Base(m) \cap Managed # {}

\* MaxAttempts: "Max number of attempts before giving up", and one more per crash,
\* unless disturbed or rescheduled.
AttemptsBounded ==
    \A m \in Msgs : att[m] <= MaxAttempts + crashes \/ Disturbed(m) \/ Rescheduled(m)

\* A deletion in progress removes the file, or is about to.
BeingRemoved(m) == m \in trash \/ \E d \in Domains : m \in worker[d].retire

\* Every message in the queue has its file (references to files that do not exist
\* are the worse mistake), except inside the transaction that retires it. A crash
\* between removeMsgsFS and the commit of failMsgsTx breaks this.
RowHasFile == crashes = 0 => \A m \in Queued : m \in file \/ BeingRemoved(m)

\* Without a crash no file is left behind: it belongs to a message in the queue,
\* being added or being removed, or to one whose row was deleted without being retired.
FileHasRow ==
    crashes = 0 => \A m \in file : row[m] \in {"queued", "lost"} \/ m \in adding \/ BeingRemoved(m)

\* The queue gives each message that is not disturbed one outcome, a failure being told to
\* the sender unless the account does not take the notice, within the attempts it may
\* make, and every domain it is busy with will be reported: OneOutcome, Accounted,
\* AttemptsBounded and BusyIsRunning.
Outcomes == OneOutcome /\ Accounted /\ AttemptsBounded /\ BusyIsRunning

\* Whatever the operator does, rows and files stay together, no domain has two
\* deliveries, and startQueue never sleeps through work: RowHasFile, FileHasRow,
\* OneDeliveryPerDomain and NoLostWakeup.
QueueSound == RowHasFile /\ FileHasRow /\ OneDeliveryPerDomain /\ NoLostWakeup

\* After the notice that "no further deliveries will be attempted", none is
\* (deliverDSNFailure, failMsgsTx), unless a crash undid the transaction that was
\* to retire the message, or the message is disturbed.
FailureFinal == [][\A m \in Msgs : att'[m] > att[m] => dsn[m] <= crashes \/ Disturbed(m)]_vars

\* Add: "The queue is kicked immediately to start a first delivery attempt."
FirstAttempt ==
    \A m \in Msgs : (row[m] = "queued" /\ att[m] = 0) ~> (att[m] > 0 \/ row[m] # "queued")

\* A queued message gets an outcome, unless the operator postpones or holds it or drops
\* another, or the process is shut down.
OutcomeReached ==
    \A m \in Msgs \ Managed :
        row[m] = "queued" ~> row[m] # "queued" \/ stopping \/ \E x \in Msgs : Dropped(x)

-----------------------------------------------------------------------------
(* The inductive invariants behind these properties.                       *)

\* A delivery is for a message.
JobsNamed == \A d \in Domains : worker[d].pc # "idle" => worker[d].m0 \in Msgs

\* launchWork starts below the maximum, and starts at most that many more.
BusyInv == OneDeliveryPerDomain /\ (disp = "launch" => Cardinality(busy) < MaxConcurrent)

\* While the dispatcher waits, the timer is set for all messages it could start, or
\* something else will make it look again.
WakeInv == disp = "select" => kick \/ Cardinality(busy) >= MaxConcurrent \/ Candidates \subseteq alarm

\* The recipients of a batch of which the outcome is not settled.
Unsettled(w) ==
    IF w.pc = "attempt" THEN w.batch ELSE w.took \cup UNION {g.ms : g \in w.fails}

\* The stages of a delivery and what it holds in each: its batch is of one submission
\* and of its domain, and what it settles, sends failures for and retires are different
\* recipients of it.
JobOK(d, w) ==
    /\ w.pc # "idle" => w.m0 \in Msgs /\ Dom[w.m0] = d
    /\ \A m \in w.batch : Dom[m] = d /\ m \in Base(w.m0)
    /\ w.pc \in {"idle", "begin", "prepare", "report"} => w.batch = {}
    /\ w.pc = "attempt" => w.batch # {}
    /\ w.pc \notin {"settle", "failing", "unlink"} => w.took = {} /\ w.fails = {}
    /\ w.pc \notin {"failing", "unlink"} => w.retire = {}
    /\ w.pc # "failing" => w.lose = {}
    /\ w.took \subseteq w.batch
    /\ \A g \in w.fails : g.ms \subseteq w.batch /\ g.ms # {}
    /\ \A g, h \in w.fails : g # h => g.ms \cap h.ms = {}
    /\ \A g \in w.fails : g.ms \cap (w.took \cup w.retire) = {}
    /\ w.took \cap w.retire = {}
    /\ \A m \in w.retire \cup w.lose : Dom[m] = d

JobInv == \A d \in Domains : JobOK(d, worker[d])

\* One write transaction at a time.
TransactionInv ==
    /\ \A d \in Domains : worker[d].pc = "failing" => adding = {}
    /\ \A d, e \in Domains : worker[d].pc = "failing" /\ worker[e].pc = "failing" => d = e
    /\ adding # {} => adding \in Submissions

\* Where the messages are that a delivery holds: what is not dropped stays in the queue
\* until its outcome is settled.
RowsOK(w) ==
    /\ w.pc \in {"begin", "prepare"} => row[w.m0] = "queued" \/ Dropped(w.m0)
    /\ \A m \in Unsettled(w) : row[m] \in {"queued", "canceled", "aborted", "lost"}
    /\ \A m \in w.retire : row[m] = IF w.pc = "failing" THEN "queued" ELSE "delivered"
    /\ \A m \in w.lose : row[m] = "queued" /\ Disturbed(m)

\* And those that Add and failDrop hold.
RowsInv ==
    /\ \A m \in Msgs : row[m] # "absent" => m \in UNION Submissions
    /\ \A m \in Msgs : row[m] = "lost" => Disturbed(m)
    /\ \A m \in adding : row[m] = "absent" /\ m \in file
    /\ \A m \in trash : Dropped(m)
    /\ \A d \in Domains : RowsOK(worker[d])

\* A file goes before its row only when a failure is being committed, or a crash undid
\* that: the sender was notified before.
FilesInv ==
    /\ \A d \in Domains : worker[d].pc = "failing" =>
        \A m \in worker[d].retire : m \notin file /\ Notified(m)
    /\ \A m \in Queued : m \notin file => Notified(m)
    /\ RowHasFile /\ FileHasRow

\* The delivery of its domain has an outcome for the message, which is not in the
\* database yet.
Decided(m) == m \in worker[Dom[m]].took \cup worker[Dom[m]].retire

\* Outcomes are counted once per crash, before they are in the database.
OutcomeInv ==
    \A m \in Msgs :
        /\ row[m] = "absent" => sent[m] = 0 /\ dsn[m] = 0
        /\ row[m] = "delivered" \/ m \in worker[Dom[m]].took => sent[m] > 0
        /\ row[m] = "failed" => Notified(m)
        /\ Disturbed(m) \/ sent[m] + dsn[m] <= 1 + crashes
        /\ row[m] = "queued" /\ ~Decided(m) => Disturbed(m) \/ sent[m] + dsn[m] <= crashes

\* Recipients that are attempted together have had as many attempts, the last one only
\* while its outcome is not settled.
AttemptInv ==
    /\ \A m \in Msgs : row[m] = "absent" => att[m] = 0
    /\ \A m, x \in Msgs : x \in Base(m) /\ slot[m] = slot[x] /\ ~Rescheduled(m) => att[m] = att[x]
    /\ \A d \in Domains : \A m, x \in worker[d].batch : ~Rescheduled(m) => att[m] = att[x]
    /\ AttemptsBounded
    /\ \A m \in Queued :
         \/ Disturbed(m) \/ Rescheduled(m) \/ Decided(m)
         \/ m \in Unsettled(worker[Dom[m]])
         \/ att[m] < MaxAttempts + crashes
=============================================================================
