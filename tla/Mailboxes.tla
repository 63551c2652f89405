------------------------------ MODULE Mailboxes ------------------------------
(***************************************************************************)
(* The mailboxes of an account and the bookkeeping that every change of    *)
(* them shares: names and parents, UIDs and UID validity, modification     *)
(* sequence numbers, message counts, special-use flags, keywords,          *)
(* annotations, subscriptions and the training of the junk filter.         *)
(*                                                                         *)
(* Each action is one database transaction, run under the account lock:    *)
(* the IMAP commands that change mailboxes or flags, the webmail           *)
(* operations, and deliveries.  A transaction works on the record "db" and *)
(* replaces it as a whole, so a command that fails half way leaves it as   *)
(* it was.  Message content, sizes, files and the broadcast of changes are *)
(* the business of MessageFiles and Switchboard; threads are in Threads.   *)
(***************************************************************************)
EXTENDS Integers, Sequences, FiniteSets, SequencesExt, FiniteSetsExt

CONSTANTS
  Names,        \* mailbox names used by clients, sequences of elements
  Initial,      \* mailboxes of a new account: sequence of [name, use]
  Stored,       \* messages already in its Inbox
  Deliveries,   \* names of mailboxes that incoming messages are delivered to
  RejectsName,  \* the configured rejects mailbox
  JunkConf,     \* automatic junk flags: [enabled, patterns]
  Marks,        \* what clients add, clear or set: sets of [flags, kw]
  Subscribable, \* names that clients subscribe to
  UseSets,      \* sets of special uses clients give to a mailbox
  MaxModSeq, MaxMailboxes, MaxMessages, MaxDepth, MaxAnnotations  \* bounds

Nil == "nil"
Inbox == <<"Inbox">>

VARIABLE db  \* the account database and the junk filter

ZeroCounts == [total |-> 0, deleted |-> 0, unread |-> 0, unseen |-> 0]

Mailbox(name, parent, uidv, ms, use) ==
  [name |-> name, parent |-> parent, uidv |-> uidv, next |-> 1, cs |-> ms, ms |-> ms,
   exp |-> FALSE, use |-> use, kw |-> {}, counts |-> ZeroCounts]

Live(d) == {i \in DOMAIN d.mbs : ~d.mbs[i].exp}

\* The id of the live mailbox with a name, 0 if there is none.
MailboxFind(d, n) ==
  LET S == {i \in Live(d) : d.mbs[i].name = n} IN IF S = {} THEN 0 ELSE Min(S)

InMailbox(d, i) == {k \in DOMAIN d.msgs : d.msgs[k].mb = i /\ ~d.msgs[k].exp}

\* Annotations have one key here; those of mailbox 0 are of the account.
Annotation(i, ms) == [mb |-> i, cs |-> ms, ms |-> ms, exp |-> FALSE]
Annotations(d, i) == {a \in DOMAIN d.anns : d.anns[a].mb = i /\ ~d.anns[a].exp}

-----------------------------------------------------------------------------
(* Counts, junk flags and training.                                        *)

MailboxCounts(m) ==
  LET One(b) == IF ~m.exp /\ b THEN 1 ELSE 0
      seen == "Seen" \in m.flags
      deleted == "Deleted" \in m.flags
  IN  [total |-> One(~deleted), deleted |-> One(deleted),
       unread |-> One(~seen /\ ~deleted), unseen |-> One(~seen)]

Add(c, delta) ==
  [total |-> c.total + delta.total, deleted |-> c.deleted + delta.deleted,
   unread |-> c.unread + delta.unread, unseen |-> c.unseen + delta.unseen]
Sub(c, delta) ==
  [total |-> c.total - delta.total, deleted |-> c.deleted - delta.deleted,
   unread |-> c.unread - delta.unread, unseen |-> c.unseen - delta.unseen]

\* JunkConf.patterns gives the names that each configured pattern matches.  The
\* one pattern that is not configured, of three, stands for all other names.
JunkFlagsForMailbox(flags, mb) ==
  LET patterns == JunkConf.patterns
      Kinds == {"junk", "neutral", "notjunk"}
      matched == {p \in DOMAIN patterns : mb.name \in patterns[p]}
      First(S) == IF "junk" \in S THEN "junk" ELSE IF "neutral" \in S THEN "neutral" ELSE "notjunk"
      As(p) == (flags \ {"Junk", "Notjunk"}) \cup
                 (CASE p = "junk" -> {"Junk"} [] p = "neutral" -> {} [] p = "notjunk" -> {"Notjunk"})
      other == Kinds \ DOMAIN patterns
  IN  IF "Junk" \in mb.use THEN As("junk")
      ELSE IF ~JunkConf.enabled THEN flags
      ELSE IF matched # {} THEN As(First(matched))
      ELSE IF Cardinality(other) = 1 THEN As(First(other))
      ELSE flags

\* What a message should be trained as.
Training(flags) ==
  IF ("Junk" \in flags) = ("Notjunk" \in flags) THEN Nil
  ELSE IF "Junk" \in flags THEN "junk" ELSE "ham"

needsTraining(m) == m.trained # Training(m.flags)

RetrainMessage(d, k) ==
  LET m == d.msgs[k]
      want == Training(m.flags)
      One(b) == IF b THEN 1 ELSE 0
  IN  IF ~needsTraining(m) THEN d
      ELSE [d EXCEPT !.msgs[k].trained = want,
                     !.jf = [junk |-> @.junk - One(m.trained = "junk") + One(want = "junk"),
                             ham |-> @.ham - One(m.trained = "ham") + One(want = "ham")]]

RetrainMessages(d, S) == FoldSet(LAMBDA k, acc : RetrainMessage(acc, k), d, S)

-----------------------------------------------------------------------------
(* Mailboxes.                                                              *)

Path(n) == [k \in 1..Len(n) |-> SubSeq(n, 1, k)]

\* Write the mailboxes that have a new value.
UpdateMailboxes(d, new) ==
  FoldSet(LAMBDA j, acc : [acc EXCEPT !.mbs[j] = new[j]], d, DOMAIN new)

\* Insert the mailbox with name p, under its parent, unless it exists.
EnsureOne(d, p, subscribe, ms) ==
  IF MailboxFind(d, p) # 0 THEN d
  ELSE [d EXCEPT !.mbs = Append(@, Mailbox(p, MailboxFind(d, Front(p)), d.uidv, ms, {})),
                 !.uidv = @ + 1,
                 !.seq = ms,
                 !.subs = IF subscribe THEN @ \cup {p} ELSE @]

\* As SetSpecialUse, but other mailboxes keep the special use.
SetSpecialUseToo(d, i, use, ms) ==
  LET had == {j \in DOMAIN d.mbs : j # i /\ d.mbs[j].use \cap use # {}}
      e == UpdateMailboxes(d, [j \in had |-> [d.mbs[j] EXCEPT !.ms = ms]])
  IN  [e EXCEPT !.seq = ms, !.mbs[i] = [@ EXCEPT !.use = use, !.ms = ms]]

\* Give mailbox i the special uses, taking them from the mailboxes that had them.
SetSpecialUse(d, i, use, ms) ==
  LET had == {j \in DOMAIN d.mbs : j # i /\ d.mbs[j].use \cap use # {}}
      e == UpdateMailboxes(d, [j \in had |-> [d.mbs[j] EXCEPT !.use = @ \ use, !.ms = ms]])
  IN  [e EXCEPT !.seq = ms, !.mbs[i] = [@ EXCEPT !.use = use, !.ms = ms]]

MailboxEnsure(d, n, subscribe, use, ms) ==
  LET e == FoldLeft(LAMBDA acc, p : EnsureOne(acc, p, subscribe, ms), d, Path(n))
  IN  IF MailboxFind(d, n) # 0 \/ use = {} THEN e
      ELSE SetSpecialUse(e, MailboxFind(e, n), use, ms)

\* Every missing parent is created like the mailbox itself, special use
\* included, which then goes on to the next one.
MailboxCreate(d, n, use, ms) ==
  FoldLeft(LAMBDA acc, p : IF MailboxFind(acc, p) # 0 THEN acc
                           ELSE MailboxEnsure(acc, p, TRUE, use, ms),
           d, Path(n))

Renamed(n, src, dst) == dst \o SubSeq(n, Len(src) + 1, Len(n))

MailboxRename(d, i, dst, ms) ==
  LET src == d.mbs[i].name
      moved == {j \in Live(d) : IsPrefix(src, d.mbs[j].name)}
      e == UpdateMailboxes([d EXCEPT !.seq = ms],
             [j \in moved |-> [d.mbs[j] EXCEPT !.name = Renamed(@, src, dst), !.ms = ms]])
      f == FoldLeft(LAMBDA acc, p : EnsureOne(acc, p, FALSE, ms), e, Front(Path(dst)))
  IN  [f EXCEPT !.mbs[i].parent = MailboxFind(f, Front(dst))]

-----------------------------------------------------------------------------
(* Messages.                                                               *)

NewMessage(flags, kw) ==
  [mb |-> 0, uid |-> 0, cs |-> 0, ms |-> 0, exp |-> FALSE, flags |-> flags, kw |-> kw,
   trained |-> Nil, orig |-> 0, dest |-> 0, reject |-> FALSE]

\* Add message m, not yet in the database, to mailbox i.
MessageAdd(d, i, m, ms) ==
  LET mb == d.mbs[i]
      orig == IF m.orig = 0 THEN i ELSE m.orig
      nm == [m EXCEPT !.mb = i, !.uid = mb.next, !.cs = ms, !.ms = ms, !.orig = orig,
                      !.dest = IF @ = orig THEN 0 ELSE @,
                      !.flags = JunkFlagsForMailbox(@, mb)]
      e == [d EXCEPT !.seq = ms,
                     !.msgs = Append(@, nm),
                     !.mbs[i] = [mb EXCEPT !.next = @ + 1, !.ms = ms, !.kw = @ \cup nm.kw,
                                           !.counts = Add(@, MailboxCounts(nm))]]
  IN  RetrainMessage(e, Len(e.msgs))

\* As RemoveOne, but the message keeps its modseq.
RemoveOneSilent(d, k, ms) ==
  LET m == d.msgs[k]
      om == [m EXCEPT !.exp = TRUE, !.flags = @ \ {"Junk", "Notjunk"}]
      e == [d EXCEPT !.msgs[k] = om,
                     !.mbs[m.mb] = [@ EXCEPT !.ms = ms, !.counts = Sub(@, MailboxCounts(m))]]
  IN  IF m.trained = Nil THEN e ELSE RetrainMessage(e, k)

RemoveOne(d, k, ms) ==
  LET m == d.msgs[k]
      om == [m EXCEPT !.ms = ms, !.exp = TRUE, !.flags = @ \ {"Junk", "Notjunk"}]
      e == [d EXCEPT !.msgs[k] = om,
                     !.mbs[m.mb] = [@ EXCEPT !.ms = ms, !.counts = Sub(@, MailboxCounts(m))]]
  IN  IF m.trained = Nil THEN e ELSE RetrainMessage(e, k)

MessageRemove(d, S, ms) ==
  FoldSet(LAMBDA k, acc : RemoveOne(acc, k, ms), [d EXCEPT !.seq = ms], S)

\* Messages in the order a query sorted by mailbox and UID yields them.
ByUID(d, S) ==
  SetToSortSeq(S, LAMBDA j, k : \/ d.msgs[j].mb < d.msgs[k].mb
                                \/ d.msgs[j].mb = d.msgs[k].mb /\ d.msgs[j].uid < d.msgs[k].uid)

\* A message that was put in the rejects mailbox by mistake counts for the
\* mailbox it was meant for once it is moved or copied.
Unreject(m) == m.reject /\ m.dest # 0

Moved(m, dst, dstID, ms, web) ==
  LET flags == IF Unreject(m) THEN m.flags \ {"Seen"} ELSE m.flags
      seen == IF web /\ "Trash" \in dst.use THEN flags \cup {"Seen"} ELSE flags
  IN  [m EXCEPT !.mb = dstID, !.uid = dst.next, !.ms = ms, !.cs = ms,
                !.orig = IF Unreject(m) THEN m.dest ELSE @,
                !.reject = @ /\ ~Unreject(m),
                !.flags = JunkFlagsForMailbox(seen, dst)]

\* As MoveOne, but the old mailbox is counted down with the new flags.
MoveOneStale(d, k, i, ms, web) ==
  LET om == d.msgs[k]
      nm == Moved(om, d.mbs[i], i, ms, web)
      gone == [om EXCEPT !.exp = TRUE, !.ms = ms, !.trained = Nil]
      e == [d EXCEPT !.msgs = Append([@ EXCEPT ![k] = nm], gone),
                     !.mbs[om.mb] = [@ EXCEPT !.ms = ms, !.counts = Sub(@, MailboxCounts(nm))],
                     !.mbs[i] = [@ EXCEPT !.ms = ms, !.next = @ + 1, !.kw = @ \cup nm.kw,
                                          !.counts = Add(@, MailboxCounts(nm))]]
  IN  RetrainMessage(e, k)

\* The record keeps its id and changes mailbox; a new, expunged record takes
\* its place in the old mailbox, for sessions that have it open.
MoveOne(d, k, i, ms, web) ==
  LET om == d.msgs[k]
      nm == Moved(om, d.mbs[i], i, ms, web)
      gone == [om EXCEPT !.exp = TRUE, !.ms = ms, !.trained = Nil]
      e == [d EXCEPT !.msgs = Append([@ EXCEPT ![k] = nm], gone),
                     !.mbs[om.mb] = [@ EXCEPT !.ms = ms, !.counts = Sub(@, MailboxCounts(om))],
                     !.mbs[i] = [@ EXCEPT !.ms = ms, !.next = @ + 1, !.kw = @ \cup nm.kw,
                                          !.counts = Add(@, MailboxCounts(nm))]]
  IN  RetrainMessage(e, k)

MoveMessages(d, S, i, ms, web) ==
  FoldLeft(LAMBDA acc, k : MoveOne(acc, k, i, ms, web),
           [d EXCEPT !.seq = ms, !.mbs[i].ms = ms], ByUID(d, S))

CopyOne(d, k, i, ms) ==
  LET m == d.msgs[k]
      dst == d.mbs[i]
      nm == [m EXCEPT !.mb = i, !.uid = dst.next, !.ms = ms, !.cs = ms, !.trained = Nil,
                      !.orig = IF Unreject(m) THEN m.dest ELSE @,
                      !.reject = @ /\ ~Unreject(m),
                      !.flags = JunkFlagsForMailbox(@, dst)]
      e == [d EXCEPT !.msgs = Append(@, nm),
                     !.mbs[m.mb].ms = ms,
                     !.mbs[i] = [@ EXCEPT !.ms = ms, !.next = @ + 1, !.kw = @ \cup nm.kw,
                                          !.counts = Add(@, MailboxCounts(nm))]]
  IN  RetrainMessage(e, Len(e.msgs))

\* Message k gets flags and keywords; its mailbox's counts follow.
Reflag(d, k, flags, kw, ms) ==
  LET m == d.msgs[k]
      nm == [m EXCEPT !.flags = flags, !.kw = kw, !.ms = ms]
  IN  [d EXCEPT !.msgs[k] = nm,
                !.mbs[m.mb] = [@ EXCEPT !.ms = ms,
                                        !.counts = Add(Sub(@, MailboxCounts(m)), MailboxCounts(nm))]]

\* A new account, and its first messages.
NewAccount ==
  [mbs |-> FoldLeft(LAMBDA acc, i : Append(acc, Mailbox(i.name, 0, 1, 1, i.use)), <<>>, Initial),
   msgs |-> <<>>, anns |-> <<>>, subs |-> {Initial[i].name : i \in DOMAIN Initial},
   seq |-> 1, uidv |-> 2, jf |-> [junk |-> 0, ham |-> 0]]

Init == db = FoldLeft(LAMBDA d, m : MessageAdd(d, MailboxFind(d, Inbox), m, 1), NewAccount, Stored)

\* The mailbox stays as an expunged record, for sessions that still know it.
MailboxDelete(d, i, ms) ==
  LET e == FoldSet(LAMBDA a, acc : [acc EXCEPT !.anns[a] = [@ EXCEPT !.ms = ms, !.exp = TRUE]],
                   MessageRemove(d, InMailbox(d, i), ms), Annotations(d, i))
  IN  [e EXCEPT !.mbs[i] = [@ EXCEPT !.ms = ms, !.exp = TRUE, !.use = {}]]

-----------------------------------------------------------------------------
(* Transactions on mailboxes: IMAP commands and webmail operations.        *)

Commit(d) ==
  /\ db' = d
  /\ db'.seq <= MaxModSeq
  /\ Len(db'.mbs) <= MaxMailboxes
  /\ Len(db'.msgs) <= MaxMessages
  /\ Len(db'.anns) <= MaxAnnotations
  /\ \A i \in Live(db') : Len(db'.mbs[i].name) <= MaxDepth

ms == db.seq + 1

cmdCreate(n, use) ==
  /\ n # Inbox /\ MailboxFind(db, n) = 0
  /\ Commit(MailboxCreate(db, n, use, ms))

cmdDelete(i) ==
  /\ db.mbs[i].name # Inbox
  /\ ~\E j \in Live(db) : IsStrictPrefix(db.mbs[i].name, db.mbs[j].name)
  /\ Commit(MailboxDelete(db, i, ms))

cmdRename(i, dst) ==
  /\ db.mbs[i].name # Inbox /\ dst # Inbox
  /\ MailboxFind(db, dst) = 0
  /\ Commit(MailboxRename(db, i, dst, ms))

\* Renaming the Inbox creates the destination, copies the annotations and
\* moves the messages; the children of the Inbox stay.
cmdRenameInbox(dst) ==
  LET i == MailboxFind(db, Inbox)
      d == MailboxEnsure(db, dst, FALSE, {}, ms)
      j == MailboxFind(d, dst)
      e == FoldSet(LAMBDA a, acc : [acc EXCEPT !.anns = Append(@, Annotation(j, ms))],
                   [d EXCEPT !.mbs[i].ms = ms], Annotations(d, i))
  IN  /\ dst # Inbox /\ MailboxFind(db, dst) = 0
      /\ Commit(MoveMessages(e, InMailbox(e, i), j, ms, FALSE))

\* The same from the webmail, which cannot rename the Inbox.
webMailboxCreate(n) == cmdCreate(n, {})

webMailboxDelete(i) == cmdDelete(i)

webMailboxRename(i, dst) == cmdRename(i, dst)

cmdSubscribe(n) == Commit([db EXCEPT !.subs = @ \cup {n}])

cmdUnsubscribe(n) == n \in db.subs /\ Commit([db EXCEPT !.subs = @ \ {n}])

MailboxSetSpecialUse(i, use) == Commit(SetSpecialUse(db, i, use, ms))

\* Set (or, without a value, remove) the annotation of mailbox i, 0 for the
\* account.  Removing an annotation that is not there changes nothing.
cmdSetmetadata(i, value) ==
  LET S == Annotations(db, i)
      Touch(d) == IF i = 0 THEN d ELSE [d EXCEPT !.mbs[i].ms = ms]
      d == [db EXCEPT !.seq = ms]
  IN  /\ S # {} \/ value
      /\ Commit(Touch(IF S = {}
                      THEN [d EXCEPT !.anns = Append(@, Annotation(i, ms))]
                      ELSE [d EXCEPT !.anns[Min(S)] = [@ EXCEPT !.ms = ms, !.exp = ~value]]))

-----------------------------------------------------------------------------
(* Transactions on messages.                                               *)

cmdAppend(i, flags, kw) == Commit(MessageAdd(db, i, NewMessage(flags, kw), ms))

cmdxReplace(k, i, flags, kw) ==
  Commit(MessageAdd(MessageRemove(db, {k}, ms), i, NewMessage(flags, kw), ms))

xexpunge(i) ==
  LET S == {k \in InMailbox(db, i) : "Deleted" \in db.msgs[k].flags}
  IN  S # {} /\ Commit(MessageRemove(db, S, ms))

MessageDelete(S) == Commit(MessageRemove(db, S, ms))

MailboxEmpty(i) == InMailbox(db, i) # {} /\ Commit(MessageRemove(db, InMailbox(db, i), ms))

cmdxCopy(S, i) ==
  Commit(FoldLeft(LAMBDA acc, k : CopyOne(acc, k, i, ms), [db EXCEPT !.seq = ms], ByUID(db, S)))

cmdxMove(S, i) == Commit(MoveMessages(db, S, i, ms, FALSE))

MessageMove(S, i) == Commit(MoveMessages(db, S, i, ms, TRUE))

NewFlags(m, mode, flags) ==
  CASE mode = "plus" -> m.flags \cup flags [] mode = "minus" -> m.flags \ flags [] OTHER -> flags

NewKeywords(m, mode, kw) ==
  CASE mode = "plus" -> m.kw \cup kw [] mode = "minus" -> m.kw \ kw [] OTHER -> kw

\* STORE: messages changed after the modseq in "since", if any, are left alone;
\* a modseq is taken only if something changes.
cmdxStore(i, S, mode, flags, kw, since) ==
  LET Old(k) == \E s \in since : db.msgs[k].ms > s
      F(k) == NewFlags(db.msgs[k], mode, flags)
      K(k) == NewKeywords(db.msgs[k], mode, kw)
      changed == {k \in S : ~Old(k) /\ (F(k) # db.msgs[k].flags \/ K(k) # db.msgs[k].kw)}
      d == [db EXCEPT !.mbs[i].kw = IF mode = "minus" THEN @ ELSE @ \cup kw,
                      !.seq = IF changed = {} THEN @ ELSE ms]
      e == FoldSet(LAMBDA k, acc : Reflag(acc, k, F(k), K(k), ms), d, changed)
  IN  Commit(RetrainMessages(e, {k \in S : ~Old(k)}))

\* Adding and clearing flags from the web: the modseq is taken, and given to
\* the mailboxes, even if no message changes.
FlagMessages(S, mode, flags, kw) ==
  LET F(k) == NewFlags(db.msgs[k], mode, flags)
      K(k) == NewKeywords(db.msgs[k], mode, kw)
      changed == {k \in S : F(k) # db.msgs[k].flags \/ K(k) # db.msgs[k].kw}
      touched == {db.msgs[k].mb : k \in S}
      d == UpdateMailboxes([db EXCEPT !.seq = ms],
             [j \in touched |-> [db.mbs[j] EXCEPT !.ms = ms,
                                                  !.kw = IF mode = "plus" THEN @ \cup kw ELSE @]])
      e == FoldSet(LAMBDA k, acc : Reflag(acc, k, F(k), K(k), ms), d, changed)
  IN  Commit(RetrainMessages(e, changed))

MessageFlagsAdd(S, flags, kw) == FlagMessages(S, "plus", flags, kw)

MessageFlagsClear(S, flags, kw) == FlagMessages(S, "minus", flags, kw)

MailboxesMarkRead(I) ==
  LET S == {k \in UNION {InMailbox(db, i) : i \in I} : "Seen" \notin db.msgs[k].flags}
  IN  /\ S # {}
      /\ Commit(FoldSet(LAMBDA k, acc : Reflag(acc, k, db.msgs[k].flags \cup {"Seen"}, db.msgs[k].kw, ms),
                        [db EXCEPT !.seq = ms], S))

\* Saving a draft removes the previous version of it.
MessageCompose(i, draft) ==
  Commit(MessageAdd(MessageRemove(db, draft, ms), i, NewMessage({"Notjunk"}, {}), ms))

WithUse(d, use) == {i \in Live(d) : use \in d.mbs[i].use}

\* After a message was put in the delivery queue: its draft is removed, the
\* message it answers is flagged, the thread T archived, and the message is
\* added to the Sent mailbox.
MessageSubmit(draft, response, T) ==
  LET Answer(d, k) ==
        LET f == d.msgs[k].flags \cup {"Answered"}
            g == IF f \cap {"Junk", "Notjunk"} = {} THEN f \cup {"Notjunk"} ELSE f
        IN  IF g = d.msgs[k].flags THEN d
            ELSE RetrainMessage(Reflag([d EXCEPT !.seq = ms], k, g, d.msgs[k].kw, ms), k)
      a == IF draft = {} THEN db ELSE MessageRemove(db, draft, ms)
      b == FoldSet(LAMBDA k, acc : Answer(acc, k), a, response)
      c == IF T = {} THEN b ELSE MoveMessages(b, T, Min(WithUse(b, "Archive")), ms, TRUE)
  IN  /\ response \cap draft = {} /\ T \cap draft = {}
      /\ T # {} => /\ WithUse(db, "Archive") # {}
                   /\ \A k \in T : db.msgs[k].mb \notin WithUse(db, "Archive")
      /\ Commit(IF WithUse(c, "Sent") = {} THEN c
                ELSE MessageAdd(c, Min(WithUse(c, "Sent")), NewMessage({"Notjunk", "Seen"}, {}), ms))

-----------------------------------------------------------------------------
(* Deliveries.                                                             *)

\* An incoming message, for which rejects D were stored earlier.
Deliver(n, D) ==
  LET d == MailboxEnsure(db, n, TRUE, {}, ms)
      e == MessageAdd(d, MailboxFind(d, n), NewMessage({}, {}), ms)
  IN  Commit(IF D = {} THEN e ELSE MessageRemove(e, D, e.seq + 1))

\* A rejected message meant for mailbox "dest" goes to the rejects mailbox, after
\* removal of the old messages O there.
DeliverReject(dest, O) ==
  LET r == MailboxFind(db, RejectsName)
      d == IF r = 0 THEN MailboxCreate(db, RejectsName, {}, ms)
           ELSE IF O = {} THEN db ELSE MessageRemove(db, O, ms)
      m == [NewMessage({"Seen"}, {}) EXCEPT !.dest = dest, !.reject = TRUE]
  IN  Commit(MessageAdd(d, MailboxFind(d, RejectsName), m, d.seq + 1))

-----------------------------------------------------------------------------

LiveMessages == {k \in DOMAIN db.msgs : ~db.msgs[k].exp}

\* Non-empty sets of at most two live messages of a mailbox, or of any.
Some(S) == {T \in SUBSET S : Cardinality(T) \in 1..2}

Rejected == LET r == MailboxFind(db, RejectsName) IN IF r = 0 THEN {} ELSE InMailbox(db, r)

MailboxNext ==
  \/ \E n \in Names, use \in UseSets \cup {{}} : cmdCreate(n, use)
  \/ \E i \in Live(db) : cmdDelete(i)
  \/ \E i \in Live(db), n \in Names : cmdRename(i, n)
  \/ \E n \in Names : cmdRenameInbox(n)
  \/ \E n \in Names : webMailboxCreate(n)
  \/ \E i \in Live(db) : webMailboxDelete(i)
  \/ \E i \in Live(db), n \in Names : webMailboxRename(i, n)
  \/ \E n \in Subscribable : cmdSubscribe(n)
  \/ \E n \in Subscribable : cmdUnsubscribe(n)
  \/ \E i \in Live(db), use \in UseSets \cup {{}} : MailboxSetSpecialUse(i, use)
  \/ \E i \in Live(db) \cup {0}, value \in BOOLEAN : cmdSetmetadata(i, value)

MessageNext ==
  \/ \E i \in Live(db), mark \in Marks : cmdAppend(i, mark.flags, mark.kw)
  \/ \E k \in LiveMessages, i \in Live(db), mark \in Marks : cmdxReplace(k, i, mark.flags, mark.kw)
  \/ \E i \in Live(db) : xexpunge(i)
  \/ \E S \in Some(LiveMessages) : MessageDelete(S)
  \/ \E i \in Live(db) : MailboxEmpty(i)
  \/ \E i, j \in Live(db) : i # j /\ \E S \in Some(InMailbox(db, i)) : cmdxCopy(S, j)
  \/ \E i, j \in Live(db) : i # j /\ \E S \in Some(InMailbox(db, i)) : cmdxMove(S, j)
  \/ \E i \in Live(db) : \E S \in Some(LiveMessages \ InMailbox(db, i)) : MessageMove(S, i)
  \/ \E i \in Live(db), mode \in {"plus", "minus", "set"}, since \in {{}, {db.seq - 1}} :
       \E S \in Some(InMailbox(db, i)), mark \in Marks :
         cmdxStore(i, S, mode, mark.flags, mark.kw, since)
  \/ \E S \in Some(LiveMessages), mark \in Marks : MessageFlagsAdd(S, mark.flags, mark.kw)
  \/ \E S \in Some(LiveMessages), mark \in Marks : MessageFlagsClear(S, mark.flags, mark.kw)
  \/ \E I \in SUBSET Live(db) : MailboxesMarkRead(I)
  \/ \E i \in Live(db), draft \in {{}} \cup {{k} : k \in LiveMessages} : MessageCompose(i, draft)
  \/ \E draft, response \in {{}} \cup {{k} : k \in LiveMessages} :
       \E T \in {{}, response} : MessageSubmit(draft, response, T)
  \/ \E n \in Deliveries : \E D \in {{}} \cup {{k} : k \in Rejected} : Deliver(n, D)
  \/ \E dest \in Live(db) : \E O \in SUBSET Rejected : DeliverReject(dest, O)

Next == db.seq < MaxModSeq /\ (MailboxNext \/ MessageNext)

Spec == Init /\ [][Next]_db

-----------------------------------------------------------------------------
(* Properties.                                                             *)

MessageSum(d, i) ==
  FoldSet(LAMBDA k, acc : Add(acc, MailboxCounts(d.msgs[k])), ZeroCounts, InMailbox(d, i))

\* CheckConsistency, which the tests run when they close an account, in parts.
CheckMailboxes(d) ==
  /\ \A i, j \in Live(d) : d.mbs[i].name = d.mbs[j].name => i = j
  /\ \A i \in DOMAIN d.mbs :
       LET mb == d.mbs[i]
       IN  /\ mb.uidv < d.uidv
           /\ 0 < mb.cs /\ mb.cs <= mb.ms
           /\ \A k \in DOMAIN d.msgs : d.msgs[k].mb = i => d.msgs[k].ms <= mb.ms
  /\ \A i \in Live(d) :
       LET mb == d.mbs[i]
       IN  IF Len(mb.name) = 1 THEN mb.parent = 0
           ELSE mb.parent # 0 /\ d.mbs[mb.parent].name = Front(mb.name)

CheckAnnotations(d) ==
  \A a \in DOMAIN d.anns :
    LET an == d.anns[a]
    IN  /\ \A b \in DOMAIN d.anns : ~an.exp /\ ~d.anns[b].exp /\ an.mb = d.anns[b].mb => a = b
        /\ 0 < an.cs /\ an.cs <= an.ms
        /\ an.mb # 0 => an.ms <= d.mbs[an.mb].ms

CheckMessages(d) ==
  \A k \in DOMAIN d.msgs :
    LET m == d.msgs[k]
    IN  0 < m.cs /\ m.cs <= m.ms /\ m.uid < d.mbs[m.mb].next

CheckCounts(d) == \A i \in Live(d) : d.mbs[i].counts = MessageSum(d, i)

CheckJunkFilter(d) ==
  \A c \in {"junk", "ham"} :
    d.jf[c] = Cardinality({k \in DOMAIN d.msgs : ~d.msgs[k].exp /\ Training(d.msgs[k].flags) = c})

CheckConsistency(d) ==
  CheckMailboxes(d) /\ CheckAnnotations(d) /\ CheckMessages(d) /\ CheckCounts(d) /\ CheckJunkFilter(d)

\* Whatever sequence of operations clients, the webmail and deliveries perform,
\* an account passes CheckConsistency (store/account.go), and more, which the
\* sessions rely on: a UID stands for one message, removed ones and the traces of
\* moved ones included; the parent of a live mailbox, and the mailbox of a live
\* message, are live; the modseq handed out last is the highest; a mailbox has
\* the keywords of its messages.
Consistent ==
  /\ CheckConsistency(db)
  /\ \A j, k \in DOMAIN db.msgs :
       db.msgs[j].mb = db.msgs[k].mb /\ db.msgs[j].uid = db.msgs[k].uid => j = k
  /\ \A i \in Live(db) : db.mbs[i].parent # 0 => ~db.mbs[db.mbs[i].parent].exp
  /\ \A i \in DOMAIN db.mbs : db.mbs[i].ms <= db.seq
  /\ \A k \in LiveMessages :
       ~db.mbs[db.msgs[k].mb].exp /\ db.msgs[k].kw \subseteq db.mbs[db.msgs[k].mb].kw

\* "We only allow a single mailbox for each flag": whatever creates, renames,
\* deletes or marks mailboxes, no two mailboxes have the same special use, so
\* the lookups of the Sent and Archive mailboxes, which fail on two, succeed.
OneMailboxPerUse ==
  \A i, j \in DOMAIN db.mbs : i # j => db.mbs[i].use \cap db.mbs[j].use = {}

\* The view of a client that synchronised with the account at some modseq.
Visible(m) == <<m.mb, m.uid, m.exp, m.flags, m.kw>>

\* A client that asks for changes since the last modseq it has seen misses
\* nothing: a message that appears, changes or disappears in a step gets a
\* modseq above every one handed out before, and the mailbox with it; a
\* mailbox that appears, disappears, is renamed or changes special use too.
SyncStep ==
  /\ \A k \in DOMAIN db.msgs : \/ Visible(db.msgs[k]) = Visible(db'.msgs[k])
                               \/ db'.msgs[k].ms > db.seq
  /\ \A k \in DOMAIN db'.msgs \ DOMAIN db.msgs : db'.msgs[k].ms > db.seq
  /\ \A k \in DOMAIN db'.msgs : db'.msgs[k].ms > db.seq => db'.mbs[db'.msgs[k].mb].ms > db.seq
  /\ \A i \in DOMAIN db.mbs :
       \/ <<db.mbs[i].name, db.mbs[i].use, db.mbs[i].exp>> =
            <<db'.mbs[i].name, db'.mbs[i].use, db'.mbs[i].exp>>
       \/ db'.mbs[i].ms > db.seq
  /\ \A i \in DOMAIN db'.mbs \ DOMAIN db.mbs : db'.mbs[i].ms > db.seq
  /\ \A a \in DOMAIN db'.anns : \/ a \in DOMAIN db.anns /\ db.anns[a] = db'.anns[a]
                                \/ db'.anns[a].ms > db.seq

SyncComplete == [][SyncStep]_db
=============================================================================
