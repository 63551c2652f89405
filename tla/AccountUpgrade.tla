--------------------------- MODULE AccountUpgrade ---------------------------
(***************************************************************************)
(* What OpenAccountDB (store/account.go) does to an account written by an  *)
(* older version, after the messages to erase: sequence numbers, parents   *)
(* and counts for mailboxes, each in a transaction of its own, and the     *)
(* reparsing of all messages in batches (store/reparse.go), in the         *)
(* background or before the account opens.  Also the queue that spreads    *)
(* such work over goroutines (moxio/workq.go).  The upgrade to threads is  *)
(* in module Threads.  area says which of the three a behaviour is about.  *)
(***************************************************************************)
EXTENDS Naturals, Sequences, FiniteSets, SequencesExt, FiniteSetsExt, Functions, TLC

CONSTANTS
    Names,        \* mailbox names, sorted: sequences of path elements
    Tops,         \* highest modseq of a mailbox's messages; 0 before modseqs
    Empty,        \* in Tops: the mailbox has no messages
    MaxMessages,  \* messages to reparse
    BatchSize,    \* reparseMessageBatchSize
    Items,        \* items of work, 1..Items
    Size,         \* of the work queue
    Workers,      \* goroutines of the work queue
    MaxEvents     \* deliveries, expunges, failures and restarts

VARIABLE g

NoMailboxes == [mbs |-> <<>>, up |-> {}, modseq |-> 2, uidval |-> 1, pc |-> "open"]
NoMessages == [msgs |-> <<>>, last |-> 0, pc |-> "none", version |-> 2, bg |-> FALSE]
NoQueue == [pc |-> "none", in |-> 0, start |-> 0, n |-> 0, ring |-> <<>>, work |-> <<>>,
            busy |-> {}, done |-> <<>>, processed |-> <<>>, err |-> FALSE, bad |-> {}]

-----------------------------------------------------------------------------
(* Mailboxes.                                                              *)

\* A mailbox of an older version; count is what is stored, size what there is.
OldMailbox(name, top, have) ==
    [name |-> name, top |-> top, modseq |-> 0, createseq |-> 0, parent |-> 0,
     have |-> have, count |-> IF have /\ top # Empty THEN 1 ELSE 0,
     size |-> IF top = Empty THEN 0 ELSE 1]

\* ModSeq.Client: 0 is told to clients as 1.
Client(modseq) == IF modseq = 0 THEN 1 ELSE modseq

ParentName(name) == Front(name)

\* Each mailbox gets the modseq of its last changed message, or a new one that
\* all empty mailboxes share.
MailboxModSeq ==
    /\ g.area = "mailboxes" /\ g.m.pc = "modseq"
    /\ LET next == g.m.modseq + 1
           empty == \E i \in DOMAIN g.m.mbs : g.m.mbs[i].top = Empty
           Set(mb) == [mb EXCEPT !.modseq = IF mb.top = Empty THEN next ELSE Client(mb.top),
                                 !.createseq = 1]
       IN  g' = [g EXCEPT !.m.mbs = [i \in DOMAIN @ |-> Set(@[i])],
                          !.m.modseq = IF empty THEN next ELSE @,
                          !.m.up = @ \cup {"modseq"}, !.m.pc = "parent"]

\* The mailbox with a name, of those present when the transaction started.
Known(mbs, name) == {i \in DOMAIN mbs : mbs[i].name = name}

\* ensureParentMailboxID: the id of the parent, which is created, with its own
\* parents, when it was not there at the start.
RECURSIVE ensureParentMailboxID(_, _, _)
ensureParentMailboxID(st, old, name) ==
    IF ParentName(name) = <<>> THEN [st EXCEPT !.id = 0]
    ELSE IF Known(old, ParentName(name)) # {}
    THEN [st EXCEPT !.id = Min(Known(old, ParentName(name)))]
    ELSE LET s == ensureParentMailboxID(st, old, ParentName(name))
             mb == [OldMailbox(ParentName(name), Empty, TRUE)
                       EXCEPT !.modseq = st.modseq, !.createseq = st.modseq, !.parent = s.id]
         IN  [s EXCEPT !.id = Len(s.mbs) + 1, !.new = TRUE, !.mbs = Append(@, mb)]

\* The mailboxes are visited by name.
MailboxParentID ==
    /\ g.area = "mailboxes" /\ g.m.pc = "parent"
    /\ LET old == g.m.mbs
           Visit(st, i) == LET s == ensureParentMailboxID(st, old, old[i].name)
                           IN  [s EXCEPT !.mbs[i].parent = s.id]
           st == FoldLeft(Visit, [mbs |-> old, id |-> 0, new |-> FALSE, modseq |-> g.m.modseq + 1],
                          [i \in 1..Len(old) |-> i])
       IN  g' = [g EXCEPT !.m.mbs = st.mbs,
                          !.m.modseq = IF st.new THEN @ + 1 ELSE @,
                          !.m.uidval = @ + Len(st.mbs) - Len(old),
                          !.m.up = @ \cup {"parent"}, !.m.pc = "counts"]

MailboxCounts ==
    /\ g.area = "mailboxes" /\ g.m.pc = "counts"
    /\ LET Counted(mb) == IF mb.have THEN mb ELSE [mb EXCEPT !.have = TRUE, !.count = mb.size]
       IN  g' = [g EXCEPT !.m.mbs = [i \in DOMAIN @ |-> Counted(@[i])],
                          !.m.up = @ \cup {"counts"}, !.m.pc = "open"]

\* The first upgrade that is still to be done.
FirstUpgrade(up) ==
    IF "modseq" \notin up THEN "modseq" ELSE IF "parent" \notin up THEN "parent"
    ELSE IF "counts" \notin up THEN "counts" ELSE "open"

\* A transaction fails, or the server stops, and the account is opened again.
Reopen ==
    /\ g.area = "mailboxes" /\ g.m.pc # "open" /\ g.events < MaxEvents
    /\ g' = [g EXCEPT !.m.pc = FirstUpgrade(g.m.up), !.events = @ + 1]

-----------------------------------------------------------------------------
(* Reparsing messages.  A message: whether it is live, and how it was       *)
(* parsed (old, new, or failed to be parsed anew).                         *)

\* Waiting for the reparse unless threads are already there (bg).
StartReparse ==
    /\ g.area = "reparse" /\ g.r.pc = "start"
    /\ g' = [g EXCEPT !.r.pc = IF g.r.bg THEN "run" ELSE "wait"]

\* One transaction of ReparseMessages.  A batch that is not full is the last.
ReparseMessages ==
    /\ g.area = "reparse" /\ g.r.pc \in {"run", "wait"}
    /\ LET l == SetToSortSeq({i \in DOMAIN g.r.msgs : g.r.msgs[i] # "gone" /\ i > g.r.last}, <)
           n == IF Len(l) < BatchSize THEN Len(l) ELSE BatchSize
           batch == {l[k] : k \in 1..n}
       IN  \E failed \in SUBSET batch :
             g' = [g EXCEPT !.r.msgs = [i \in DOMAIN @ |->
                                           IF i \in failed THEN "failed"
                                           ELSE IF i \in batch THEN "new" ELSE @[i]],
                            !.r.last = IF n = 0 THEN @ ELSE l[n],
                            !.r.pc = IF n < BatchSize THEN "mark" ELSE @]

MarkParsed ==
    /\ g.area = "reparse" /\ g.r.pc = "mark"
    /\ g' = [g EXCEPT !.r.version = 2, !.r.pc = "done"]

\* While the reparse runs in the background, messages come and go; a new one
\* has been parsed by this version.
DeliverParsed ==
    /\ g.area = "reparse" /\ g.r.bg /\ g.r.pc \in {"run", "mark", "done"}
    /\ Len(g.r.msgs) < MaxMessages /\ g.events < MaxEvents
    /\ g' = [g EXCEPT !.r.msgs = Append(@, "new"), !.events = @ + 1]

ExpungeParsed(i) ==
    /\ g.area = "reparse" /\ g.r.bg /\ g.r.pc \in {"run", "mark"}
    /\ g.r.msgs[i] # "gone" /\ g.events < MaxEvents
    /\ g' = [g EXCEPT !.r.msgs[i] = "gone", !.events = @ + 1]

\* The transaction fails, the server shuts down, or it is stopped: the account
\* is reparsed from the start when it is opened again.
ReparseStops ==
    /\ g.area = "reparse" /\ g.r.pc \in {"run", "wait", "mark"} /\ g.events < MaxEvents
    /\ g' = [g EXCEPT !.r.pc = "start", !.r.last = 0, !.events = @ + 1]

-----------------------------------------------------------------------------
(* The work queue.  ring holds what was received from done, by position;   *)
(* work and done are channels; bad are the items that cannot be prepared.  *)

NotDone == 0

\* Add without waiting.
AddItem ==
    /\ g.area = "workq" /\ g.w.pc = "add" /\ g.w.in < Items /\ g.w.n < Size
    /\ g' = [g EXCEPT !.w.work = Append(@, [i |-> (g.w.start + g.w.n) % Size, item |-> g.w.in + 1]),
                      !.w.n = @ + 1, !.w.in = @ + 1]

\* Add, and Finish, wait for prepared work.
WaitDone ==
    /\ g.area = "workq" /\ g.w.pc = "add"
    /\ IF g.w.in < Items THEN g.w.n = Size ELSE g.w.n > 0
    /\ g' = [g EXCEPT !.w.pc = IF g.w.in < Items THEN "head" ELSE "finish"]

\* As processHead, but everything received is processed.
processHeadAny(w) ==
    LET got == SetToSortSeq({i \in DOMAIN w.ring : w.ring[i] # NotDone}, <)
    IN  [w EXCEPT !.processed = @ \o [k \in 1..Len(got) |-> w.ring[got[k]]],
                  !.ring = [i \in DOMAIN @ |-> NotDone],
                  !.start = (@ + Len(got)) % Size, !.n = @ - Len(got)]

\* processHead: the work at the head of the queue that is prepared, in order,
\* until an error.
RECURSIVE processHead(_)
processHead(w) ==
    LET x == w.ring[w.start]
        t == [w EXCEPT !.ring[w.start] = NotDone, !.start = (@ + 1) % Size, !.n = @ - 1]
    IN  IF w.n = 0 \/ x = NotDone THEN w
        ELSE IF x \in w.bad THEN [t EXCEPT !.err = TRUE]
        ELSE processHead([t EXCEPT !.processed = Append(@, x)])

\* A result is received: Add goes on until the head of the queue is prepared,
\* Finish handles every result.
Received ==
    /\ g.area = "workq" /\ g.w.pc \in {"head", "finish"} /\ g.w.done # <<>>
    /\ LET r == Head(g.w.done)
           t == [g.w EXCEPT !.done = Tail(@), !.ring[r.i] = r.item]
           p == IF g.w.pc = "head" /\ r.i # g.w.start THEN t ELSE processHead(t)
           pc == IF p.err THEN "failed"
                 ELSE IF g.w.pc = "head" THEN IF r.i = g.w.start THEN "add" ELSE "head"
                 ELSE IF p.n = 0 THEN "done" ELSE "finish"
       IN  g' = [g EXCEPT !.w = [p EXCEPT !.pc = pc]]

\* A goroutine takes work and, some time later, sends the result.
Take(k) ==
    /\ g.area = "workq" /\ g.w.work # <<>> /\ ~\E b \in g.w.busy : b.by = k
    /\ g' = [g EXCEPT !.w.busy = @ \cup {[by |-> k, job |-> Head(g.w.work)]},
                      !.w.work = Tail(@)]

Prepared(b) ==
    /\ g.area = "workq" /\ b \in g.w.busy
    /\ g' = [g EXCEPT !.w.busy = @ \ {b}, !.w.done = Append(@, b.job)]

-----------------------------------------------------------------------------
Init ==
    \/ \E names \in SUBSET Range(Names) : \E top \in [names -> Tops] : \E have \in BOOLEAN :
           LET l == SelectSeq(Names, LAMBDA x : x \in names)
           IN  g = [area |-> "mailboxes", r |-> NoMessages, w |-> NoQueue, events |-> 0,
                    m |-> [NoMailboxes EXCEPT !.pc = "modseq",
                              !.mbs = [i \in 1..Len(l) |-> OldMailbox(l[i], top[l[i]], have)]]]
    \/ \E n \in 0..MaxMessages : \E bg \in BOOLEAN :
           g = [area |-> "reparse", m |-> NoMailboxes, w |-> NoQueue, events |-> 0,
                r |-> [NoMessages EXCEPT !.pc = "start", !.bg = bg, !.version = 1,
                                         !.msgs = [i \in 1..n |-> "old"]]]
    \/ \E bad \in SUBSET (1..Items) :
           /\ Cardinality(bad) <= 1
           /\ g = [area |-> "workq", m |-> NoMailboxes, r |-> NoMessages, events |-> 0,
                   w |-> [NoQueue EXCEPT !.pc = "add", !.bad = bad,
                                         !.ring = [i \in 0..(Size - 1) |-> NotDone]]]

Next ==
    \/ MailboxModSeq \/ MailboxParentID \/ MailboxCounts \/ Reopen
    \/ StartReparse \/ ReparseMessages \/ MarkParsed \/ DeliverParsed \/ ReparseStops
    \/ \E i \in DOMAIN g.r.msgs : ExpungeParsed(i)
    \/ AddItem \/ WaitDone \/ Received
    \/ \E k \in Workers : Take(k)
    \/ \E b \in g.w.busy : Prepared(b)

Spec == Init /\ [][Next]_g

-----------------------------------------------------------------------------
\* Mailboxes with the same name were created by the upgrade, each as the parent
\* of another mailbox: of a parent that several mailboxes miss.
OneForEach ==
    \A i, j \in DOMAIN g.m.mbs : i # j /\ g.m.mbs[i].name = g.m.mbs[j].name =>
        /\ g.m.mbs[i].createseq > 1
        /\ Cardinality({k \in DOMAIN g.m.mbs : g.m.mbs[k].parent = i}) = 1

\* An opened account has been upgraded (OpenAccountDB), whatever transactions
\* failed or were repeated: every mailbox has the sequence numbers and the count
\* CheckConsistency (account.go:1800-1805) asks for, below a mailbox that has
\* its parent's name; every live message has been parsed anew, or failed to,
\* when the version is stored.  The names are not always unique, as
\* CheckConsistency also asks ("live names must be unique", account.go:1805):
\* a parent that is created is not added to the names known (1417-1458), and is
\* created again for the next mailbox below it.  No other name is there twice.
Upgraded ==
    /\ (g.area = "mailboxes" /\ g.m.pc = "open") =>
           /\ OneForEach
           /\ \A i \in DOMAIN g.m.mbs :
               LET mb == g.m.mbs[i]
               IN  /\ 0 < mb.createseq /\ mb.createseq <= mb.modseq
                   /\ mb.modseq <= g.m.modseq
                   /\ mb.top # Empty => mb.top <= mb.modseq
                   /\ mb.count = mb.size
                   /\ IF ParentName(mb.name) = <<>> THEN mb.parent = 0
                      ELSE mb.parent # 0 /\ g.m.mbs[mb.parent].name = ParentName(mb.name)
    /\ (g.area = "reparse" /\ g.r.version = 2) => "old" \notin Range(g.r.msgs)

\* A work queue processes the items in the order they were added, each once
\* (workq.go:40-42), all of them unless one fails; while it waits for a result
\* there is one to come.
InOrder ==
    g.area = "workq" =>
        /\ g.w.processed = [k \in 1..Len(g.w.processed) |-> k]
        /\ g.w.pc = "done" => Len(g.w.processed) = Items
        /\ g.w.pc = "failed" => g.w.bad = {Len(g.w.processed) + 1}
        /\ g.w.pc \in {"head", "finish"} => g.w.work # <<>> \/ g.w.busy # {} \/ g.w.done # <<>>
        /\ Len(g.w.work) <= Size /\ Len(g.w.done) <= Size

\* Both of the above.
UpgradeSound == Upgraded /\ InOrder
=============================================================================
