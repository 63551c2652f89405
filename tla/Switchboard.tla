----------------------------- MODULE Switchboard -----------------------------
(***************************************************************************)
(* The switchboard of package store: the goroutine that distributes the    *)
(* changes made to an account to its sessions (IMAP connections, webmail   *)
(* event streams), counts which sessions still refer to an expunged        *)
(* message, and hands messages nobody refers to anymore to the eraser      *)
(* goroutine, which clears them from the database and from disk.           *)
(*                                                                         *)
(* Sources: store/state.go; the reference count, opening and closing of an *)
(* account in store/account.go; the sessions' side in imapserver/server.go,*)
(* imapserver/notify.go and webmail/view.go.                               *)
(*                                                                         *)
(* Everything in the switchboard is keyed by account, so one account is    *)
(* modelled.  The switchboard never looks at the order of a comm's pending *)
(* changes, so c.changes is kept as its length (npending) and the set of   *)
(* its removals, a removal being the set of message IDs of one             *)
(* ChangeRemoveUIDs.                                                       *)
(***************************************************************************)
EXTENDS Naturals, Integers, FiniteSets

CONSTANTS
    Sessions,              \* connections that register a Comm
    WebSessions,           \* those of Sessions that are webmail event streams
    NotifySessions,        \* those of Sessions that are IMAP clients using NOTIFY
    Workers,               \* users of the account without a Comm (deliveries, API calls)
    Msgs,                  \* message IDs
    OtherSizes,            \* sizes of the broadcasts that are not about messages
    CommPendingChangesMax, \* capacity of a comm
    MaxCrashes,            \* bound: number of process crashes explored
    NoReq                  \* no broadcast in flight

ASSUME ConstantsAssumption ==
    /\ IsFiniteSet(Sessions)
    /\ IsFiniteSet(Workers)
    /\ IsFiniteSet(Msgs)
    /\ WebSessions \subseteq Sessions
    /\ NotifySessions \subseteq Sessions \ WebSessions
    /\ Sessions \cap Workers = {}
    /\ OtherSizes \subseteq 1..4
    /\ CommPendingChangesMax \in Nat
    /\ MaxCrashes \in Nat

VARIABLES
    \* Database and disk, these survive a crash.
    msg,       \* state of each message record
    file,      \* messages with a file on disk
    erec,      \* MessageErase records
    skip,      \* those with SkipUpdateDiskUsage
    du,        \* DiskUsage.MessageSize, every message having size 1
    \* The account in memory.
    nused,     \* Account.nused, 0 when the account is not open
    opener,    \* the actor inside OpenAccountDB, holding the openAccounts lock
    \* Switchboard goroutine.
    regs,      \* registered comms
    eraseRefs, \* references per expunged message, 0 when not in the map
    eraseIDs,  \* messages ready to be sent to the eraser
    req,       \* the broadcast request of the holder of the account write lock
    panicked,  \* the switchboard goroutine panicked
    \* Comms.
    npending,  \* len(c.changes)
    removals,  \* the removals in c.changes
    overflow,  \* c.overflow
    wake,      \* c.Pending holds a token
    \* Sessions and workers.
    sess,      \* progress of the session or worker
    fetched,   \* removals returned by Get for which RemovalSeen was not yet called
    view,      \* messages in the selected mailbox as the session knows it
    notify,    \* whether message events of the selected mailbox are applied to the view
    stale,     \* the session dropped changes of its selected mailbox
    flushing,  \* the fetched removals that are acknowledged without being applied
    \* Eraser goroutine.
    eraser,    \* progress of eraseMessages
    batch,     \* messages it is erasing
    eraseFailed, \* an erase transaction failed since the account was opened
    crashes

disk == <<msg, file, erec, skip, du>>
account == <<nused, opener>>
board == <<regs, eraseRefs, eraseIDs, req, panicked>>
comms == <<npending, removals, overflow, wake>>
sessions == <<sess, fetched, view, notify, stale, flushing>>
erasing == <<eraser, batch, eraseFailed>>
vars == <<disk, account, board, comms, sessions, erasing, crashes>>

Actors == Sessions \cup Workers
NoActor == NoReq

\* Users that broadcast: the webmail event stream only listens, webmail changes
\* are made by API calls, which have no Comm.
Broadcasters == Actors \ WebSessions

\* A pending broadcast: its sender, the messages it removes, its number of changes.
Requests == [by : Actors, rem : SUBSET Msgs, n : 1..4]

ASSUME NoReqAssumption == NoReq \notin Requests \cup Actors

Live == {m \in Msgs : msg[m] = "live"}

-----------------------------------------------------------------------------
Init ==
    /\ msg = [m \in Msgs |-> "absent"]
    /\ file = {}
    /\ erec = {}
    /\ skip = {}
    /\ du = 0
    /\ nused = 0
    /\ opener = NoActor
    /\ regs = {}
    /\ eraseRefs = [m \in Msgs |-> 0]
    /\ eraseIDs = {}
    /\ req = NoReq
    /\ panicked = FALSE
    /\ npending = [c \in Sessions |-> 0]
    /\ removals = [c \in Sessions |-> {}]
    /\ overflow = [c \in Sessions |-> FALSE]
    /\ wake = [c \in Sessions |-> FALSE]
    /\ sess = [a \in Actors |-> "closed"]
    /\ fetched = [c \in Sessions |-> {}]
    /\ view = [c \in Sessions |-> {}]
    /\ notify = [c \in Sessions |-> TRUE]
    /\ stale = [c \in Sessions |-> FALSE]
    /\ flushing = [c \in Sessions |-> {}]
    /\ eraser = "idle"
    /\ batch = {}
    /\ eraseFailed = FALSE
    /\ crashes = 0

-----------------------------------------------------------------------------
(* Opening and closing the account. *)

\* The account write lock is held from before a database change until the
\* switchboard answered its broadcast, and by the eraser.
WLocked == req # NoReq \/ eraser = "committed"

\* The actor waits for the answer to its broadcast.
Waiting(a) == req # NoReq /\ req.by = a

\* OpenAccount of an account that is already open.
OpenAccount(a) ==
    /\ sess[a] = "closed"
    /\ opener = NoActor
    /\ nused > 0
    /\ nused' = nused + 1
    /\ sess' = [sess EXCEPT ![a] = "open"]
    /\ UNCHANGED <<disk, opener, board, comms, fetched, view, notify, stale, flushing, erasing, crashes>>

\* OpenAccountDB applies the erases left by an earlier run: the files are removed
\* inside the transaction, before its commit.
OpenAccountDB(a) ==
    /\ sess[a] = "closed"
    /\ opener = NoActor
    /\ nused = 0
    /\ opener' = a
    /\ file' = file \ erec
    /\ UNCHANGED <<msg, erec, skip, du, nused, board, comms, sessions, erasing, crashes>>

\* As EraseRecords, but SkipUpdateDiskUsage is ignored.
EraseRecordsNoSkip(ids) ==
    /\ msg' = [m \in Msgs |-> IF m \in ids THEN "erased" ELSE msg[m]]
    /\ erec' = erec \ ids
    /\ skip' = skip \ ids
    /\ du' = IF du >= Cardinality(ids) THEN du - Cardinality(ids) ELSE 0

\* Clearing of the messages in ids in the database.
EraseRecords(ids) ==
    /\ msg' = [m \in Msgs |-> IF m \in ids THEN "erased" ELSE msg[m]]
    /\ erec' = erec \ ids
    /\ skip' = skip \ ids
    /\ du' = du - Cardinality(ids \ skip)

OpenAccountCommit ==
    /\ opener # NoActor
    /\ \A m \in erec : msg[m] = "expunged"
    /\ EraseRecords(erec)
    /\ nused' = 1
    /\ sess' = [sess EXCEPT ![opener] = "open"]
    /\ opener' = NoActor
    /\ eraseFailed' = FALSE
    /\ UNCHANGED <<file, board, comms, fetched, view, notify, stale, flushing, eraser, batch, crashes>>

\* closeAccount: the account is closed when nused becomes 0.
CloseAccount(a) ==
    /\ sess[a] = "open"
    /\ ~Waiting(a)
    /\ sess' = [sess EXCEPT ![a] = "closed"]
    /\ nused' = nused - 1
    /\ UNCHANGED <<disk, opener, board, comms, fetched, view, notify, stale, flushing, erasing, crashes>>

-----------------------------------------------------------------------------
(* Database changes, each followed by a broadcast under the write lock. *)

Ready(a) == sess[a] = (IF a \in Sessions THEN "registered" ELSE "open") /\ ~Waiting(a)

\* Deliver, APPEND, COPY: a new message with its file.  ChangeAddUID, ChangeMailboxCounts.
Deliver(a, m) ==
    /\ Ready(a) /\ ~WLocked
    /\ msg[m] = "absent"
    /\ msg' = [msg EXCEPT ![m] = "live"]
    /\ file' = file \cup {m}
    /\ du' = du + 1
    /\ req' = [by |-> a, rem |-> {}, n |-> 2]
    /\ UNCHANGED <<erec, skip, account, regs, eraseRefs, eraseIDs, panicked, comms, sessions, erasing, crashes>>

\* MessageRemove (EXPUNGE, webmail delete, retention): the records are marked
\* expunged and get a MessageErase record.  ChangeRemoveUIDs, ChangeMailboxCounts.
MessageRemove(a, ids) ==
    /\ Ready(a) /\ ~WLocked
    /\ ids # {} /\ ids \subseteq Live
    /\ msg' = [m \in Msgs |-> IF m \in ids THEN "expunged" ELSE msg[m]]
    /\ erec' = erec \cup ids
    /\ req' = [by |-> a, rem |-> ids, n |-> 2]
    /\ UNCHANGED <<file, skip, du, account, regs, eraseRefs, eraseIDs, panicked, comms, sessions, erasing, crashes>>

\* As LinkOrCopy, but the file is not made.
LinkOrCopyNot(m) == UNCHANGED file

\* The expunged duplicate of a moved message gets a file of its own.
LinkOrCopy(m) == file' = file \cup {m}

\* xmoveMessages: the record of m moves to the other mailbox; an expunged record old
\* takes its place, with its own link to the file, and is what sessions that still
\* have the original mailbox selected now find.  ChangeAddUID, ChangeRemoveUIDs, two
\* ChangeMailboxCounts.
MoveMessage(a, m, old) ==
    /\ Ready(a) /\ ~WLocked
    /\ msg[m] = "live" /\ msg[old] = "absent"
    /\ msg' = [msg EXCEPT ![old] = "expunged"]
    /\ LinkOrCopy(old)
    /\ erec' = erec \cup {old}
    /\ skip' = skip \cup {old}
    /\ view' = [c \in Sessions |-> IF m \in view[c] THEN (view[c] \ {m}) \cup {old} ELSE view[c]]
    /\ req' = [by |-> a, rem |-> {old}, n |-> 4]
    /\ UNCHANGED <<du, account, regs, eraseRefs, eraseIDs, panicked, comms, sess, fetched, notify, stale, flushing, erasing, crashes>>

\* A broadcast without messages, e.g. of ChangeAddSubscription.
ChangeOther(a, n) ==
    /\ Ready(a) /\ ~WLocked
    /\ req' = [by |-> a, rem |-> {}, n |-> n]
    /\ UNCHANGED <<disk, account, regs, eraseRefs, eraseIDs, panicked, comms, sessions, erasing, crashes>>

-----------------------------------------------------------------------------
(* The select loop of the switchboard goroutine. *)

One(b) == IF b THEN 1 ELSE 0
Referenced(refs) == \E m \in Msgs : refs[m] > 0

\* As CountAccount, but the account is not kept open for eraseIDs.
CountAccountRefsOnly(refs, ids) ==
    nused' = nused + (One(Referenced(refs)) - One(Referenced(eraseRefs)))

\* An account has one reference for being in eraseRefs and one for being in eraseIDs.
CountAccount(refs, ids) ==
    nused' = nused + (One(Referenced(refs)) - One(Referenced(eraseRefs)))
                   + (One(ids # {}) - One(eraseIDs # {}))

\* decreaseEraseRefs, with addEraseIDs for the messages that lose their last reference.
DecreaseEraseRefs(ids) ==
    /\ panicked' = IF \E m \in ids : eraseRefs[m] = 0 THEN TRUE ELSE panicked
    /\ eraseRefs' = [m \in Msgs |-> IF m \in ids /\ eraseRefs[m] > 0 THEN eraseRefs[m] - 1 ELSE eraseRefs[m]]
    /\ eraseIDs' = eraseIDs \cup {m \in ids : eraseRefs[m] = 1}
    /\ CountAccount(eraseRefs', eraseIDs')

\* case register, with RegisterComm making a new comm.
Register(c) ==
    /\ sess[c] = "open"
    /\ regs' = regs \cup {c}
    /\ sess' = [sess EXCEPT ![c] = "registered"]
    /\ notify' = [notify EXCEPT ![c] = TRUE]
    /\ stale' = [stale EXCEPT ![c] = FALSE]
    /\ UNCHANGED <<disk, account, eraseRefs, eraseIDs, req, panicked, comms, fetched, view, flushing, erasing, crashes>>

\* As Drained, but the changes left in the comm are forgotten.
DrainedNot(c) == {}

\* The messages of the removals still in the comm when it is unregistered.
Drained(c) == UNION removals[c]

\* case unregister: the removals still in the comm are counted as seen.  The
\* deferred functions of an IMAP connection first flush what it fetched.
Unregister(c) ==
    /\ \/ Ready(c) /\ fetched[c] = {}
       \/ sess[c] = "ending"
    /\ DecreaseEraseRefs(Drained(c))
    /\ regs' = regs \ {c}
    /\ sess' = [sess EXCEPT ![c] = "open"]
    /\ npending' = [npending EXCEPT ![c] = 0]
    /\ removals' = [removals EXCEPT ![c] = {}]
    /\ overflow' = [overflow EXCEPT ![c] = FALSE]
    /\ wake' = [wake EXCEPT ![c] = FALSE]
    /\ fetched' = [fetched EXCEPT ![c] = {}]
    /\ view' = [view EXCEPT ![c] = {}]
    /\ flushing' = [flushing EXCEPT ![c] = {}]
    /\ UNCHANGED <<disk, opener, req, notify, stale, erasing, crashes>>

\* As RefsFor, but the sender is always taken off.
RefsForOthers(by) == Cardinality(regs) - 1

\* As RefsFor, but the sender is never taken off.
RefsForAll(by) == Cardinality(regs)

\* The references a removal gets: one per comm, except that of the sender if it has one.
RefsFor(by) == Cardinality(regs) - One(by \in Sessions)

\* The changes of the request fit in the comm.
HasRoom(c) == npending[c] + req.n <= CommPendingChangesMax

\* As Signalled, but only after appending changes.
SignalledAppended(others, full) == others \ full

\* The comms of which Pending is filled.
Signalled(others, full) == others

\* case broadcast: count the references to removed messages, append the changes to
\* every other comm that has room, and take back the references of those that do not.
\* With the answer, the sender drops the messages from its own view.
Broadcast ==
    /\ req # NoReq
    /\ LET others == regs \ {req.by}
           refs   == RefsFor(req.by)
           full   == {c \in others : ~HasRoom(c)}
           left   == refs - Cardinality(full)
       IN /\ panicked' = IF \/ refs > 0 /\ \E m \in req.rem : eraseRefs[m] > 0
                            \/ refs <= 0 /\ req.rem # {} /\ full # {}
                         THEN TRUE ELSE panicked
          /\ eraseRefs' = [m \in Msgs |-> IF m \in req.rem /\ left > 0 THEN left ELSE eraseRefs[m]]
          /\ eraseIDs' = IF left <= 0 THEN eraseIDs \cup req.rem ELSE eraseIDs
          /\ CountAccount(eraseRefs', eraseIDs')
          /\ overflow' = [c \in Sessions |-> overflow[c] \/ c \in full]
          /\ npending' = [c \in Sessions |-> npending[c] + (IF c \in others \ full THEN req.n ELSE 0)]
          /\ removals' = [c \in Sessions |-> removals[c] \cup
                             (IF c \in others \ full /\ req.rem # {} THEN {req.rem} ELSE {})]
          /\ wake' = [c \in Sessions |-> wake[c] \/ c \in Signalled(others, full)]
    /\ view' = [c \in Sessions |-> IF c = req.by THEN view[c] \ req.rem ELSE view[c]]
    /\ req' = NoReq
    /\ UNCHANGED <<disk, opener, regs, sess, fetched, notify, stale, flushing, erasing, crashes>>

\* case applied, with RemovalSeen: the session is done with one removal.  It was
\* applied to the selected mailbox, unless events for it are not wanted or it was only
\* flushed.
RemovalSeen(c, ids) ==
    /\ Ready(c)
    /\ ids \in fetched[c]
    /\ DecreaseEraseRefs(ids)
    /\ fetched' = [fetched EXCEPT ![c] = @ \ {ids}]
    /\ flushing' = [flushing EXCEPT ![c] = @ \ {ids}]
    /\ view' = [view EXCEPT ![c] = IF notify[c] /\ ids \notin flushing[c] THEN @ \ ids ELSE @]
    /\ stale' = [stale EXCEPT ![c] = @ \/ ~notify[c]]
    /\ UNCHANGED <<disk, opener, regs, req, comms, sess, notify, erasing, crashes>>

\* case cc <- eraseIDs, received by the idle eraser.
SendErase ==
    /\ eraser = "idle"
    /\ eraseIDs # {}
    /\ eraser' = "erasing"
    /\ batch' = eraseIDs
    /\ eraseIDs' = {}
    /\ UNCHANGED <<disk, account, regs, eraseRefs, req, panicked, comms, sessions, eraseFailed, crashes>>

-----------------------------------------------------------------------------
(* The eraser goroutine. *)

\* The transaction of eraseMessages, under the account write lock.
EraseCommit ==
    /\ eraser = "erasing"
    /\ req = NoReq
    /\ \A m \in batch : m \in erec /\ msg[m] = "expunged"
    /\ EraseRecords(batch)
    /\ eraser' = "committed"
    /\ UNCHANGED <<file, account, board, comms, sessions, batch, eraseFailed, crashes>>

\* As EraseFail, but the files are removed all the same.
EraseFailContinue ==
    /\ eraser = "erasing"
    /\ req = NoReq
    /\ eraser' = "closing"
    /\ eraseFailed' = TRUE
    /\ file' = file \ batch
    /\ UNCHANGED <<msg, erec, skip, du, account, board, comms, sessions, batch, crashes>>

\* The transaction fails: logged, the messages stay as they are.
EraseFail ==
    /\ eraser = "erasing"
    /\ req = NoReq
    /\ eraser' = "closing"
    /\ eraseFailed' = TRUE
    /\ UNCHANGED <<disk, account, board, comms, sessions, batch, crashes>>

\* The files are removed after the commit, still under the lock.
EraseFiles ==
    /\ eraser = "committed"
    /\ file' = file \ batch
    /\ eraser' = "closing"
    /\ UNCHANGED <<msg, erec, skip, du, account, board, comms, sessions, batch, eraseFailed, crashes>>

\* The deferred acc.Close.
EraserClose ==
    /\ eraser = "closing"
    /\ nused' = nused - 1
    /\ eraser' = "idle"
    /\ batch' = {}
    /\ UNCHANGED <<disk, opener, board, comms, sessions, eraseFailed, crashes>>

-----------------------------------------------------------------------------
(* Sessions. *)

\* IDLE, NOTIFY and the webmail event stream receive from c.Pending, then call Get.
Wake(c) ==
    /\ Ready(c)
    /\ wake[c]
    /\ wake' = [wake EXCEPT ![c] = FALSE]
    /\ sess' = [sess EXCEPT ![c] = "woken"]
    /\ UNCHANGED <<disk, account, board, npending, removals, overflow, fetched, view, notify, stale, flushing, erasing, crashes>>

\* As TakeChanges, but the changes stay in the comm.
TakeChangesKept(c) ==
    /\ overflow' = [overflow EXCEPT ![c] = FALSE]
    /\ UNCHANGED <<npending, removals>>

\* What Get leaves in the comm.
TakeChanges(c) ==
    /\ npending' = [npending EXCEPT ![c] = 0]
    /\ removals' = [removals EXCEPT ![c] = {}]
    /\ overflow' = [overflow EXCEPT ![c] = FALSE]

\* Get by an IMAP connection, after a wakeup or at the end of a command, and the start of
\* xapplyChanges: after an overflow, the changes are only flushed and events are off.
\* Also by a webmail event stream, after a wakeup without overflow.
Get(c) ==
    /\ \/ sess[c] = "woken"
       \/ Ready(c) /\ c \notin WebSessions
    /\ c \in WebSessions => ~overflow[c]
    /\ TakeChanges(c)
    /\ fetched' = [fetched EXCEPT ![c] = @ \cup removals[c]]
    /\ notify' = [notify EXCEPT ![c] = @ /\ ~overflow[c]]
    /\ stale' = [stale EXCEPT ![c] = @ \/ overflow[c]]
    /\ sess' = [sess EXCEPT ![c] = "registered"]
    /\ UNCHANGED <<disk, account, board, wake, view, flushing, erasing, crashes>>

\* Get by an APPEND to another mailbox than the selected one: the changes are only
\* flushed, and an overflow is forgotten.
GetFlush(c) ==
    /\ Ready(c) /\ c \notin WebSessions
    /\ TakeChanges(c)
    /\ fetched' = [fetched EXCEPT ![c] = @ \cup removals[c]]
    /\ flushing' = [flushing EXCEPT ![c] = @ \cup removals[c]]
    /\ stale' = [stale EXCEPT ![c] = @ \/ overflow[c] \/ removals[c] # {}]
    /\ UNCHANGED <<disk, account, board, wake, sess, view, notify, erasing, crashes>>

\* Get by a webmail event stream that overflowed: the stream ends, the fetched
\* changes are dropped.
GetWebOverflow(c) ==
    /\ c \in WebSessions
    /\ sess[c] = "woken"
    /\ overflow[c]
    /\ TakeChanges(c)
    /\ sess' = [sess EXCEPT ![c] = "ending"]
    /\ UNCHANGED <<disk, account, board, wake, fetched, view, notify, stale, flushing, erasing, crashes>>

\* xprocessChanges of a webmail event stream panics (a message that was added is gone
\* again, the request was canceled): the stream ends without RemovalSeen for the rest.
WebAbort(c) ==
    /\ c \in WebSessions
    /\ Ready(c)
    /\ fetched[c] # {}
    /\ sess' = [sess EXCEPT ![c] = "ending"]
    /\ UNCHANGED <<disk, account, board, comms, fetched, view, notify, stale, flushing, erasing, crashes>>

\* SELECT, EXAMINE: unselect flushes delayed changes, then the messages of a mailbox are
\* read under the read lock.
Select(c, ms) ==
    /\ c \notin WebSessions
    /\ Ready(c) /\ ~WLocked
    /\ fetched[c] = {}
    /\ ms \subseteq Live
    /\ view' = [view EXCEPT ![c] = ms]
    /\ stale' = [stale EXCEPT ![c] = FALSE]
    /\ UNCHANGED <<disk, account, board, comms, sess, fetched, notify, flushing, erasing, crashes>>

\* NOTIFY NONE: delayed changes are flushed without being applied.
NotifyNone(c) ==
    /\ c \in NotifySessions
    /\ Ready(c)
    /\ notify' = [notify EXCEPT ![c] = FALSE]
    /\ UNCHANGED <<disk, account, board, comms, sess, fetched, view, stale, flushing, erasing, crashes>>

\* NOTIFY SET with message events for the selected mailbox, after the delayed changes
\* were applied.
NotifySet(c) ==
    /\ c \in NotifySessions
    /\ Ready(c)
    /\ fetched[c] = {}
    /\ notify' = [notify EXCEPT ![c] = TRUE]
    /\ UNCHANGED <<disk, account, board, comms, sess, fetched, view, stale, flushing, erasing, crashes>>

\* The process ends at any point; only the database and the files remain.
Crash ==
    /\ crashes < MaxCrashes
    /\ crashes' = crashes + 1
    /\ nused' = 0
    /\ opener' = NoActor
    /\ regs' = {}
    /\ eraseRefs' = [m \in Msgs |-> 0]
    /\ eraseIDs' = {}
    /\ req' = NoReq
    /\ npending' = [c \in Sessions |-> 0]
    /\ removals' = [c \in Sessions |-> {}]
    /\ overflow' = [c \in Sessions |-> FALSE]
    /\ wake' = [c \in Sessions |-> FALSE]
    /\ sess' = [a \in Actors |-> "closed"]
    /\ fetched' = [c \in Sessions |-> {}]
    /\ view' = [c \in Sessions |-> {}]
    /\ notify' = [c \in Sessions |-> TRUE]
    /\ stale' = [c \in Sessions |-> FALSE]
    /\ flushing' = [c \in Sessions |-> {}]
    /\ eraser' = "idle"
    /\ batch' = {}
    /\ eraseFailed' = FALSE
    /\ UNCHANGED <<disk, panicked>>

-----------------------------------------------------------------------------
Change ==
    \E a \in Broadcasters :
        \/ \E m \in Msgs : Deliver(a, m)
        \/ \E ids \in SUBSET Msgs : MessageRemove(a, ids)
        \/ \E m, old \in Msgs : MoveMessage(a, m, old)
        \/ \E n \in OtherSizes : ChangeOther(a, n)

Session(c) ==
    \/ Register(c)
    \/ Unregister(c)
    \/ Wake(c)
    \/ Get(c)
    \/ GetFlush(c)
    \/ GetWebOverflow(c)
    \/ WebAbort(c)
    \/ \E ids \in fetched[c] : RemovalSeen(c, ids)
    \/ \E ms \in SUBSET Msgs : Select(c, ms)
    \/ NotifyNone(c)
    \/ NotifySet(c)

Eraser == SendErase \/ EraseCommit \/ EraseFail \/ EraseFiles \/ EraserClose

Next ==
    \/ \E a \in Actors : OpenAccount(a) \/ OpenAccountDB(a) \/ CloseAccount(a)
    \/ OpenAccountCommit
    \/ Change
    \/ Broadcast
    \/ \E c \in Sessions : Session(c)
    \/ Eraser
    \/ Crash

Spec == Init /\ [][Next]_vars

\* The switchboard and the eraser keep running and get the account lock; a session that
\* has changes pending fetches them, and acknowledges the removals it fetched.
Fairness ==
    /\ WF_vars(Broadcast)
    /\ WF_vars(SendErase)
    /\ SF_vars(EraseCommit)
    /\ WF_vars(EraseFiles)
    /\ WF_vars(EraserClose)
    /\ \A c \in Sessions :
        /\ SF_vars(Get(c))
        /\ SF_vars(\E ids \in fetched[c] : RemovalSeen(c, ids))

FairSpec == Spec /\ Fairness

-----------------------------------------------------------------------------
(* Properties. *)

\* The removal of m is in the comm of c, or was fetched from it and not yet acknowledged.
Holds(c, m) == \E ids \in removals[c] \cup fetched[c] : m \in ids

Holders(m) == {c \in Sessions : Holds(c, m)}

TypeOK ==
    /\ msg \in [Msgs -> {"absent", "live", "expunged", "erased"}]
    /\ file \subseteq Msgs
    /\ erec \subseteq Msgs
    /\ skip \subseteq erec
    /\ du \in Int
    /\ nused \in Int
    /\ opener \in Actors \cup {NoActor}
    /\ regs \subseteq Sessions
    /\ eraseRefs \in [Msgs -> Nat]
    /\ eraseIDs \subseteq Msgs
    /\ req \in Requests \cup {NoReq}
    /\ panicked \in BOOLEAN
    /\ npending \in [Sessions -> 0..CommPendingChangesMax]
    /\ removals \in [Sessions -> SUBSET SUBSET Msgs]
    /\ overflow \in [Sessions -> BOOLEAN]
    /\ wake \in [Sessions -> BOOLEAN]
    /\ sess \in [Actors -> {"closed", "open", "registered", "woken", "ending"}]
    /\ fetched \in [Sessions -> SUBSET SUBSET Msgs]
    /\ view \in [Sessions -> SUBSET Msgs]
    /\ notify \in [Sessions -> BOOLEAN]
    /\ stale \in [Sessions -> BOOLEAN]
    /\ flushing \in [Sessions -> SUBSET SUBSET Msgs]
    /\ eraser \in {"idle", "erasing", "committed", "closing"}
    /\ batch \subseteq Msgs
    /\ eraseFailed \in BOOLEAN
    /\ crashes \in 0..MaxCrashes

\* decreaseEraseRefs never finds a reference count of zero, and a broadcast never
\* removes a message that is already counted: the panics of the switchboard are
\* unreachable.
NoPanic == ~panicked

\* The count of an expunged message never drops below the number of sessions that
\* have not acknowledged its removal.
RefsCoverHolders == \A m \in Msgs : eraseRefs[m] >= Cardinality(Holders(m))

\* The counting of references works out: RefsCoverHolders and NoPanic.
ReferencesSafe == RefsCoverHolders /\ NoPanic

\* The count is exactly that number, so that the message is erased once the last of
\* these sessions acknowledges the removal or goes away.
RefsExact == \A m \in Msgs : eraseRefs[m] = Cardinality(Holders(m))

\* A message in the mailbox a session has selected can still be read, from the database
\* and from its file, until the session saw its removal; except by a session that lost
\* changes to an overflow or to an APPEND elsewhere, or turned events off.
ViewReadable ==
    \A c \in Sessions : \A m \in view[c] :
        stale[c] \/ overflow[c] \/ (m \in file /\ msg[m] \in {"live", "expunged"})

\* Account.nused is the number of users that opened the account, plus one each for
\* having messages in eraseRefs, in eraseIDs and at the eraser.  So the account is not
\* closed under any of them.
AccountRefs ==
    nused = Cardinality({a \in Actors : sess[a] # "closed"})
            + One(Referenced(eraseRefs)) + One(eraseIDs # {}) + One(eraser # "idle")

\* When closeAccount drops the last reference, no MessageErase records are left: the
\* check at the end of closeAccount does not fail, unless an erase transaction failed.
CloseClean ==
    [][nused > 0 /\ nused' = 0 /\ crashes' = crashes /\ ~eraseFailed => erec = {}]_vars

\* Every expunged message is eventually erased, unless an erase transaction fails.
ExpungedErased ==
    \A m \in Msgs : msg[m] = "expunged" ~> msg[m] = "erased" \/ eraseFailed

\* The sessions that may refer to a message: all of them until its removal was
\* broadcast, then those that have not acknowledged it.
References(m) == IF req # NoReq /\ m \in req.rem THEN Sessions ELSE Holders(m)

Erasure == INSTANCE MessageErasure WITH
    Users <- Sessions, Items <- Msgs, state <- msg, users <- [m \in Msgs |-> References(m)]

\* The switchboard and the eraser implement MessageErasure: a message is erased only
\* when no session refers to it anymore.
ErasesUnreferenced == Erasure!Spec

\* The disk usage counted for the quota is that of the messages that are not erased,
\* leaving out the duplicates made for moved messages.
DiskUsageExact ==
    du = Cardinality({m \in Msgs : msg[m] = "live" \/ (msg[m] = "expunged" /\ m \notin skip)})

\* A message in the database has its file, except an expunged one whose erase at the
\* next open of the account was interrupted.
RecordHasFile ==
    /\ \A m \in Live : m \in file
    /\ nused > 0 => \A m \in Msgs : msg[m] = "expunged" => m \in file

\* What an account counts and keeps is in order: AccountRefs, DiskUsageExact and
\* RecordHasFile.
AccountSound == AccountRefs /\ DiskUsageExact /\ RecordHasFile

\* A session with pending changes or an overflow has a wakeup, or is about to call Get.
NoLostWakeup ==
    \A c \in regs : npending[c] > 0 \/ overflow[c] => wake[c] \/ sess[c] \in {"woken", "ending"}

-----------------------------------------------------------------------------
(* The inductive invariant behind NoPanic and RefsCoverHolders. *)

\* No session holds a removal of m and none is counted.
Untracked(m) == eraseRefs[m] = 0 /\ \A c \in Sessions : ~Holds(c, m)

\* A comm is registered exactly while its session runs, and others hold nothing.
RegsInv ==
    /\ regs = {c \in Sessions : sess[c] \in {"registered", "woken", "ending"}}
    /\ \A c \in Sessions \ regs : removals[c] = {} /\ fetched[c] = {}

\* The actor that is opening the account has not opened it yet.
OpenerInv == opener # NoActor => sess[opener] = "closed"

\* The sender of a broadcast is still there, and nobody knows of its removals yet.
ReqInv ==
    req # NoReq =>
        /\ req.by \in Sessions => sess[req.by] = "registered"
        /\ \A m \in req.rem : msg[m] \notin {"absent", "live"} /\ Untracked(m)

\* A session holds a message through one removal at most.
HeldOnce ==
    \A c \in Sessions :
        /\ removals[c] \cap fetched[c] = {}
        /\ \A i, j \in removals[c] \cup fetched[c] : i \cap j # {} => i = j

\* Messages that were never expunged are not tracked.
FreshUntracked == \A m \in Msgs : msg[m] \in {"absent", "live"} => Untracked(m)

RefInv == RegsInv /\ ReqInv /\ HeldOnce /\ FreshUntracked /\ RefsCoverHolders /\ NoPanic
-----------------------------------------------------------------------------
(* The inductive invariants behind the properties about the account. *)

\* The account is not open while an actor is opening it, and the sender of a broadcast
\* has it open.
OpenInv ==
    /\ opener # NoActor => nused = 0
    /\ req # NoReq => sess[req.by] # "closed"

AccountInv == AccountRefs /\ OpenInv

\* The messages that are at the eraser or about to be sent to it.
Erasable == eraseIDs \cup (IF eraser = "erasing" THEN batch ELSE {})

\* The MessageErase records are those of the expunged messages, and what the eraser
\* committed is erased.
RecordsInv ==
    /\ erec = {m \in Msgs : msg[m] = "expunged"}
    /\ eraser = "committed" => \A m \in batch : msg[m] = "erased"

\* Nobody refers to a message on its way to the eraser, or is going to.
ErasableInv ==
    \A m \in Erasable :
        /\ eraseRefs[m] = 0
        /\ msg[m] \notin {"absent", "live"}
        /\ req # NoReq => m \notin req.rem

\* An expunged message of an open account is in a broadcast, referred to, or on its way
\* to the eraser.
ErasePending ==
    nused > 0 /\ ~eraseFailed =>
        \A m \in erec : (req # NoReq /\ m \in req.rem) \/ eraseRefs[m] > 0 \/ m \in Erasable

\* A comm that is not registered is empty.
WakeInv == NoLostWakeup /\ \A c \in Sessions \ regs : npending[c] = 0 /\ ~overflow[c]

\* The message is live, or its removal is being broadcast or was not yet applied by c.
Current(c, m) ==
    \/ msg[m] = "live"
    \/ msg[m] = "expunged" /\ ((req # NoReq /\ m \in req.rem) \/ Holds(c, m))

\* An IMAP session that missed no changes has selected messages that are current for it.
ViewInv ==
    \A c \in Sessions :
        /\ view[c] # {} => c \in regs \ WebSessions
        /\ flushing[c] \subseteq fetched[c]
        /\ flushing[c] # {} => stale[c]
        /\ \A m \in view[c] : stale[c] \/ overflow[c] \/ Current(c, m)
=============================================================================
