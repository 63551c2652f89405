---------------------------- MODULE ImapSession ----------------------------
(***************************************************************************)
(* The list of messages an IMAP session has of its selected mailbox        *)
(* (imapserver/server.go: conn.uids, conn.exists and conn.uidnext), and    *)
(* how it follows the mailbox in the database.                             *)
(*                                                                         *)
(* A command that changes messages does so in a transaction, under the     *)
(* account lock, and broadcasts the changes to the other sessions before   *)
(* it unlocks.  It brings its own list up to date after that, and applies  *)
(* the changes of others that were queued for it when it writes its        *)
(* result: at different moments, with other commands in between.  A change *)
(* the list cannot take is a server error that ends the connection.        *)
(*                                                                         *)
(* A command is two actions here: the transaction, with what is fetched    *)
(* and broadcast under the lock, and Respond.  Flags, sequence numbers and *)
(* the text of responses are left out.                                     *)
(***************************************************************************)
EXTENDS Integers, Sequences, FiniteSets, FiniteSetsExt, SequencesExt

CONSTANTS
    Sessions,         \* IMAP connections to one account
    Mailboxes,
    NoMailbox,        \* no mailbox selected, conn.mailboxID 0
    NotifyModes,      \* what clients ask for with NOTIFY
    PendingMax,       \* store.CommPendingChangesMax
    DelayedMax,       \* selectedDelayedChangesMax
    MaxUID,           \* bound: UIDs per mailbox
    MaxMessages       \* bound: UIDs of all mailboxes together

ASSUME ImapAssumption ==
    /\ NoMailbox \notin Mailboxes
    /\ NotifyModes \subseteq {"none", "selected", "delayed"}
    /\ PendingMax \in Nat \ {0} /\ DelayedMax \in Nat /\ MaxUID \in Nat /\ MaxMessages \in Nat

VARIABLES
    live,      \* UIDs of the messages of a mailbox that are not expunged
    uidNext,   \* Mailbox.UIDNext
    conn,      \* state of each connection
    pending,   \* Comm.changes of each connection
    overflow,  \* Comm.overflow of each connection
    cmd        \* the command that still has to respond

vars == <<live, uidNext, conn, pending, overflow, cmd>>

UIDs == 1..MaxUID

Changes == [op : {"add", "remove"}, mb : Mailboxes, uids : SUBSET UIDs]

\* uids: conn.uids, a list that is kept in ascending order, as a set.
\* notify: conn.notify, nil or with an event group for the selected mailbox of kind
\* SELECTED or SELECTED-DELAYED, or without such a group ("none").
\* failed: the connection was ended by a server error.
\* told: the client asked not to hear of changes, or was told that it missed some.
\* astray: a command took the list out of step with the mailbox, see Astray below.
Conn == [up : BOOLEAN, failed : BOOLEAN, told : BOOLEAN, astray : BOOLEAN,
         mailbox : Mailboxes \cup {NoMailbox}, uids : SUBSET UIDs, uidnext : 0..MaxUID + 1,
         notify : {"nil", "none", "selected", "delayed"}, delayed : Seq(Changes)]

Command == [kind : {"none", "append", "expunge", "close", "move", "copy", "replace"},
            mb : Mailboxes \cup {NoMailbox}, new : SUBSET UIDs, gone : SUBSET UIDs,
            take : Seq(Changes), over : BOOLEAN]

NoCommand == [kind |-> "none", mb |-> NoMailbox, new |-> {}, gone |-> {}, take |-> <<>>, over |-> FALSE]

Closed == [up |-> FALSE, failed |-> FALSE, told |-> FALSE, astray |-> FALSE,
           mailbox |-> NoMailbox, uids |-> {}, uidnext |-> 0, notify |-> "nil", delayed |-> <<>>]

Init ==
    /\ live = [b \in Mailboxes |-> {}]
    /\ uidNext = [b \in Mailboxes |-> 1]
    /\ conn = [s \in Sessions |-> Closed]
    /\ pending = [s \in Sessions |-> <<>>]
    /\ overflow = [s \in Sessions |-> FALSE]
    /\ cmd = [s \in Sessions |-> NoCommand]

-----------------------------------------------------------------------------
(* The list of a connection. *)

\* A uid that is there already, or below the last, is a server error.
uidAppend(c, u) ==
    IF c.failed \/ \E v \in c.uids : v >= u
    THEN [c EXCEPT !.failed = TRUE]
    ELSE [c EXCEPT !.uids = @ \cup {u}, !.uidnext = u + 1]

\* xsequence and sequenceRemove for each uid: an unknown uid is a server error.
sequenceRemove(c, us) ==
    IF c.failed \/ ~(us \subseteq c.uids)
    THEN [c EXCEPT !.failed = TRUE]
    ELSE [c EXCEPT !.uids = @ \ us]

\* Changes that were delayed are forgotten with the mailbox.
unselect(c) ==
    [c EXCEPT !.mailbox = NoMailbox, !.uids = {}, !.uidnext = 0, !.delayed = <<>>, !.told = FALSE,
              !.astray = FALSE]

\* Three commands take the list out of step:
\*   SELECT, of a mailbox with changes that are pending: the list it reads has them,
\*     and they are applied once more;
\*   APPEND to another mailbox than the selected one, when changes of that were pending
\*     or lost: they are fetched and then dropped;
\*   REPLACE in the selected mailbox, when new messages remain delayed: they come after
\*     its own message.
Astray(c) == [c EXCEPT !.astray = TRUE]
Touches(changes, b) == \E k \in DOMAIN changes : changes[k].mb = b

\* One change of the selected mailbox.
Apply(c, ch) ==
    IF ch.op = "add" THEN uidAppend(c, CHOOSE u \in ch.uids : TRUE) ELSE sequenceRemove(c, ch.uids)

\* xapplyChangesNotify for one change: not for the client, for later, or for now.
applyNotify(c, ch, sendDelayed) ==
    CASE c.mailbox # ch.mb -> c
      [] c.mailbox = ch.mb /\ c.notify = "none" -> [c EXCEPT !.told = TRUE]
      [] c.mailbox = ch.mb /\ c.notify = "delayed" /\ ~sendDelayed -> [c EXCEPT !.delayed = Append(@, ch)]
      [] OTHER -> Apply(c, ch)

\* As xapplyChangesNotify, but the changes that were delayed are dropped.
xapplyChangesNotifyForgets(c, changes, sendDelayed) ==
    LET c0 == IF sendDelayed THEN [c EXCEPT !.delayed = <<>>] ELSE c
        c1 == FoldLeft(LAMBDA d, ch : applyNotify(d, ch, sendDelayed), c0, changes)
    IN  IF Len(c1.delayed) > DelayedMax
        THEN [c1 EXCEPT !.delayed = <<>>, !.notify = "none", !.told = TRUE]
        ELSE c1

\* xapplyChangesNotify: changes that were delayed go first, and too many of them
\* end the notifications.
xapplyChangesNotify(c, changes, sendDelayed) ==
    LET l == IF sendDelayed THEN c.delayed \o changes ELSE changes
        c0 == IF sendDelayed THEN [c EXCEPT !.delayed = <<>>] ELSE c
        c1 == FoldLeft(LAMBDA d, ch : applyNotify(d, ch, sendDelayed), c0, l)
    IN  IF Len(c1.delayed) > DelayedMax
        THEN [c1 EXCEPT !.delayed = <<>>, !.notify = "none", !.told = TRUE]
        ELSE c1

\* xapplyChanges: after an overflow nothing is applied anymore, until a new NOTIFY.
xapplyChanges(c, over, changes, sendDelayed) ==
    CASE over -> [c EXCEPT !.notify = "none", !.delayed = <<>>, !.told = TRUE]
      [] ~over /\ c.notify # "nil" -> xapplyChangesNotify(c, changes, sendDelayed)
      [] OTHER -> FoldLeft(LAMBDA d, ch : IF ch.mb = d.mailbox THEN Apply(d, ch) ELSE d, c, changes)

\* APPEND: the changes it fetched under the lock, and then its own messages, but only
\* if they are in the selected mailbox; else what it fetched is dropped.
appended(c, k) ==
    IF c.mailbox = k.mb
    THEN FoldLeft(uidAppend, xapplyChanges(c, k.over, k.take, TRUE), SetToSortSeq(k.new, <))
    ELSE IF k.over \/ Touches(k.take, c.mailbox) THEN Astray(c) ELSE c

\* REPLACE: the changes it fetched, leaving delayed ones for later, then its new
\* message if it is in the selected mailbox, then the removal of the old one.
replaced(c, k) ==
    LET c0 == xapplyChanges(c, k.over, k.take, FALSE)
        c1 == IF c.mailbox = k.mb THEN FoldLeft(uidAppend, c0, SetToSortSeq(k.new, <)) ELSE c0
        c2 == sequenceRemove(c1, k.gone)
        early == c.mailbox = k.mb /\ k.new # {} /\ \E n \in DOMAIN c0.delayed : c0.delayed[n].op = "add"
    IN  IF early THEN Astray(c2) ELSE c2

\* The effect of a command on its own list, after its transaction.
Finish(c, k) ==
    CASE k.kind = "append" -> appended(c, k)
      [] k.kind = "replace" -> replaced(c, k)
      [] k.kind \in {"expunge", "move"} -> sequenceRemove(c, k.gone)
      [] k.kind = "close" -> unselect(c)
      [] OTHER -> c

\* The connection after its command and its result, for which xbwriteresultf applies
\* the pending changes.
Settled(s) == xapplyChanges(Finish(conn[s], cmd[s]), overflow[s], pending[s], TRUE)

-----------------------------------------------------------------------------
(* Connections. *)

\* The connection becomes c; a server error ends it, and unregisters the comm.
Becomes(s, c) ==
    /\ conn' = [conn EXCEPT ![s] = IF c.failed THEN [Closed EXCEPT !.failed = TRUE, !.told = c.told, !.astray = c.astray]
                                   ELSE c]
    /\ cmd' = [cmd EXCEPT ![s] = NoCommand]
    /\ UNCHANGED <<live, uidNext>>

\* Comm.Get.
Fetched(s) ==
    /\ pending' = [pending EXCEPT ![s] = <<>>]
    /\ overflow' = [overflow EXCEPT ![s] = FALSE]

Ready(s) == conn[s].up /\ cmd[s] = NoCommand

Connect(s) ==
    /\ ~conn[s].up
    /\ Becomes(s, [Closed EXCEPT !.up = TRUE])
    /\ Fetched(s)

Disconnect(s) ==
    /\ Ready(s)
    /\ Becomes(s, Closed)
    /\ Fetched(s)

\* The result of a command that changed messages.
Respond(s) ==
    /\ conn[s].up /\ cmd[s] # NoCommand
    /\ Becomes(s, Settled(s))
    /\ Fetched(s)

\* NOOP, any other command that leaves the list alone, or one that fails, and every
\* round of IDLE.
Noop(s) ==
    /\ Ready(s)
    /\ Becomes(s, Settled(s))
    /\ Fetched(s)

\* With NOTIFY, command also wakes up for changes while it waits for a line.
NotifyWake(s) ==
    /\ Ready(s) /\ conn[s].notify # "nil" /\ (pending[s] # <<>> \/ overflow[s])
    /\ Becomes(s, xapplyChanges(conn[s], overflow[s], pending[s], FALSE))
    /\ Fetched(s)

\* SELECT and EXAMINE read the list from the database, and write their result
\* without fetching pending changes.
Select(s, b) ==
    /\ Ready(s)
    /\ LET c == [unselect(conn[s]) EXCEPT !.mailbox = b, !.uids = live[b], !.uidnext = uidNext[b]]
       IN  Becomes(s, IF Touches(pending[s], b) THEN Astray(c) ELSE c)
    /\ UNCHANGED <<pending, overflow>>

\* UNSELECT, or a SELECT of a mailbox that does not exist.
Unselect(s) ==
    /\ Ready(s) /\ conn[s].mailbox # NoMailbox
    /\ Becomes(s, xapplyChanges(unselect(conn[s]), overflow[s], pending[s], TRUE))
    /\ Fetched(s)

\* NOTIFY NONE forgets the delayed changes.
NotifyNone(s) ==
    /\ Ready(s) /\ "none" \in NotifyModes
    /\ LET c == [conn[s] EXCEPT !.notify = "none", !.delayed = <<>>,
                                !.told = @ \/ conn[s].delayed # <<>>]
       IN  Becomes(s, xapplyChanges(c, overflow[s], pending[s], TRUE))
    /\ Fetched(s)

\* NOTIFY SET first applies the delayed changes, with STATUS also the pending ones,
\* and answers with the new configuration in place.
NotifySet(s, mode, status) ==
    /\ Ready(s)
    /\ LET c0 == IF conn[s].notify = "nil" THEN conn[s] ELSE xapplyChangesNotify(conn[s], <<>>, TRUE)
           c1 == IF status THEN xapplyChanges(c0, overflow[s], pending[s], TRUE) ELSE c0
           c2 == [c1 EXCEPT !.notify = mode, !.delayed = <<>>]
       IN  Becomes(s, IF status THEN c2 ELSE xapplyChanges(c2, overflow[s], pending[s], TRUE))
    /\ Fetched(s)

-----------------------------------------------------------------------------
(* Transactions, under the account lock. *)

\* The next n uids of mailbox b.
NewUIDs(b, n) == uidNext[b]..uidNext[b] + n - 1

HasUIDs(b, n) ==
    /\ uidNext[b] + n <= MaxUID + 1
    /\ MapThenSumSet(LAMBDA x : uidNext[x] - 1, Mailboxes) + n <= MaxMessages

Adds(b, us) == [i \in 1..Cardinality(us) |-> [op |-> "add", mb |-> b, uids |-> {SetToSortSeq(us, <)[i]}]]

Removal(b, us) == IF us = {} THEN <<>> ELSE <<[op |-> "remove", mb |-> b, uids |-> us]>>

Fits(t, changes) == Len(pending[t]) + Len(changes) <= PendingMax

\* The changes go to all other connections, or set their overflow.
Broadcast(from, changes) ==
    LET others == {t \in Sessions \ from : conn[t].up}
    IN  /\ pending' = [t \in Sessions |-> IF t \in others /\ Fits(t, changes)
                                          THEN pending[t] \o changes ELSE pending[t]]
        /\ overflow' = [t \in Sessions |-> overflow[t] \/ (t \in others /\ ~Fits(t, changes))]

\* As Broadcast, after the sender fetched its own pending changes.
GetAndBroadcast(s, changes) ==
    LET others == {t \in Sessions \ {s} : conn[t].up}
    IN  /\ pending' = [t \in Sessions |-> CASE t = s -> <<>>
                                            [] t \in others /\ Fits(t, changes) -> pending[t] \o changes
                                            [] OTHER -> pending[t]]
        /\ overflow' = [t \in Sessions |-> t # s /\ (overflow[t] \/ (t \in others /\ ~Fits(t, changes)))]

\* Messages us of mailbox a are removed, and n are added to mailbox b.
Store(a, us, b, n) ==
    /\ HasUIDs(b, n)
    /\ live' = [x \in Mailboxes |-> (IF x = a THEN live[x] \ us ELSE live[x])
                                    \cup (IF x = b THEN NewUIDs(b, n) ELSE {})]
    /\ uidNext' = [uidNext EXCEPT ![b] = @ + n]

\* Delivery over SMTP, or by webmail or the web API: without a comm.
Deliver(b) ==
    /\ Store(b, {}, b, 1)
    /\ Broadcast({}, Adds(b, NewUIDs(b, 1)))
    /\ UNCHANGED <<conn, cmd>>

\* Removal by webmail or the web API.
MessageDelete(b, us) ==
    /\ us # {} /\ us \subseteq live[b]
    /\ Store(b, us, b, 0)
    /\ Broadcast({}, Removal(b, us))
    /\ UNCHANGED <<conn, cmd>>

\* A move by webmail or the web API.
MessageMove(a, b, us) ==
    /\ a # b /\ us # {} /\ us \subseteq live[a]
    /\ LET n == Cardinality(us)
       IN  /\ Store(a, us, b, n)
           /\ Broadcast({}, Adds(b, NewUIDs(b, n)) \o Removal(a, us))
    /\ UNCHANGED <<conn, cmd>>

\* As AppendMessages, but pending changes are left for the result of the command.
AppendMessagesLate(s, b, n) ==
    /\ Ready(s) /\ n > 0
    /\ Store(b, {}, b, n)
    /\ Broadcast({s}, Adds(b, NewUIDs(b, n)))
    /\ cmd' = [cmd EXCEPT ![s] = [NoCommand EXCEPT !.kind = "append", !.mb = b, !.new = NewUIDs(b, n)]]
    /\ UNCHANGED conn

\* APPEND, which fetches the pending changes under the lock.
AppendMessages(s, b, n) ==
    /\ Ready(s) /\ n > 0
    /\ Store(b, {}, b, n)
    /\ GetAndBroadcast(s, Adds(b, NewUIDs(b, n)))
    /\ cmd' = [cmd EXCEPT ![s] = [NoCommand EXCEPT !.kind = "append", !.mb = b, !.new = NewUIDs(b, n),
                                                   !.take = pending[s], !.over = overflow[s]]]
    /\ UNCHANGED conn

\* As Expungeable, but also of messages this connection has not heard of.
ExpungeableAll(c) == live[c.mailbox]

\* The messages xexpunge removes are below conn.uidnext.
Expungeable(c) == {u \in live[c.mailbox] : u < c.uidnext}

\* EXPUNGE and UID EXPUNGE, and CLOSE, of the messages us with flag \Deleted.
Expunge(s, us, kind) ==
    /\ Ready(s) /\ conn[s].mailbox # NoMailbox
    /\ us # {} /\ us \subseteq Expungeable(conn[s])
    /\ LET b == conn[s].mailbox
       IN  /\ Store(b, us, b, 0)
           /\ Broadcast({s}, Removal(b, us))
    /\ cmd' = [cmd EXCEPT ![s] = [NoCommand EXCEPT !.kind = kind, !.gone = us]]
    /\ UNCHANGED conn

\* MOVE of messages in the list that are all still there; another one is refused.
Move(s, b, us) ==
    /\ Ready(s) /\ conn[s].mailbox \notin {b, NoMailbox}
    /\ us # {} /\ us \subseteq conn[s].uids \cap live[conn[s].mailbox]
    /\ LET n == Cardinality(us)
       IN  /\ Store(conn[s].mailbox, us, b, n)
           /\ Broadcast({s}, Adds(b, NewUIDs(b, n)) \o Removal(conn[s].mailbox, us))
    /\ cmd' = [cmd EXCEPT ![s] = [NoCommand EXCEPT !.kind = "move", !.gone = us]]
    /\ UNCHANGED conn

\* COPY, likewise.
Copy(s, b, us) ==
    /\ Ready(s) /\ conn[s].mailbox \notin {b, NoMailbox}
    /\ us # {} /\ us \subseteq conn[s].uids \cap live[conn[s].mailbox]
    /\ LET n == Cardinality(us)
       IN  /\ Store(b, {}, b, n)
           /\ Broadcast({s}, Adds(b, NewUIDs(b, n)))
    /\ cmd' = [cmd EXCEPT ![s] = [NoCommand EXCEPT !.kind = "copy"]]
    /\ UNCHANGED conn

\* REPLACE of a message by a new one, possibly in another mailbox.  If the message
\* was expunged in the meantime, only the pending changes are fetched.
Replace(s, b, u) ==
    /\ Ready(s) /\ conn[s].mailbox # NoMailbox /\ u \in conn[s].uids
    /\ LET a == conn[s].mailbox
           us == {u} \cap live[a]
           n == Cardinality(us)
       IN  /\ Store(a, us, b, n)
           /\ GetAndBroadcast(s, Removal(a, us) \o Adds(b, NewUIDs(b, n)))
           /\ cmd' = [cmd EXCEPT ![s] = [kind |-> "replace", mb |-> b, new |-> NewUIDs(b, n), gone |-> us,
                                         take |-> pending[s], over |-> overflow[s]]]
    /\ UNCHANGED conn

Next ==
    \/ \E s \in Sessions :
        \/ Connect(s) \/ Disconnect(s) \/ Respond(s) \/ Noop(s) \/ NotifyWake(s) \/ Unselect(s) \/ NotifyNone(s)
        \/ \E mode \in NotifyModes \ {"none"}, status \in BOOLEAN : NotifySet(s, mode, status)
        \/ \E b \in Mailboxes :
            \/ Select(s, b)
            \/ \E n \in 1..MaxUID : AppendMessages(s, b, n)
            \/ \E us \in SUBSET UIDs : Move(s, b, us) \/ Copy(s, b, us)
            \/ \E u \in UIDs : Replace(s, b, u)
        \/ \E us \in SUBSET UIDs, kind \in {"expunge", "close"} : Expunge(s, us, kind)
    \/ \E b \in Mailboxes :
        \/ Deliver(b)
        \/ \E us \in SUBSET UIDs :
            MessageDelete(b, us) \/ \E a \in Mailboxes : MessageMove(a, b, us)

Spec == Init /\ [][Next]_vars

-----------------------------------------------------------------------------
(* Properties. *)

TypeOK ==
    /\ live \in [Mailboxes -> SUBSET UIDs] /\ uidNext \in [Mailboxes -> 1..MaxUID + 1]
    /\ conn \in [Sessions -> Conn] /\ cmd \in [Sessions -> Command]
    /\ pending \in [Sessions -> Seq(Changes)] /\ overflow \in [Sessions -> BOOLEAN]

\* No change is lost: the next result brings the list of a connection in line with its
\* mailbox, unless the client was told otherwise, a command took the list out of step
\* (Astray), or the connection is ended.
Converges ==
    \A s \in Sessions :
        LET c == Settled(s)
        IN  conn[s].up /\ c.mailbox # NoMailbox /\ ~c.told /\ ~c.astray /\ ~c.failed
            => c.uids = live[c.mailbox]

\* The checks of uidAppend and xsequence only fail after the client was told that it
\* missed changes, or after a command took the list out of step.
NoServerError == \A s \in Sessions : conn[s].failed => conn[s].told \/ conn[s].astray

\* A client that was not told otherwise ends up with the mailbox as it is, and until then
\* no command ends its connection, but for the three commands of Astray: Converges and
\* NoServerError.
ImapInStep == Converges /\ NoServerError

\* xexpunge: "Only remove if this session knows about the message".  It looks at the UID
\* only, so this is not so once the client was told that it misses changes, or a command
\* took the list out of step.
ExpungesKnown ==
    [][\A s \in Sessions :
          /\ cmd[s] # cmd'[s] /\ cmd'[s].kind \in {"expunge", "close"}
          /\ ~conn[s].told /\ ~conn[s].astray
          => cmd'[s].gone \subseteq conn[s].uids]_vars
=============================================================================
