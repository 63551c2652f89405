------------------------------ MODULE Threads ------------------------------
(***************************************************************************)
(* Assigning messages to threads (store/threads.go): at delivery           *)
(* (assignThread), during the upgrade of an account from before threads    *)
(* existed (upgradeThreads, in the background, while messages are          *)
(* delivered and expunged), by "mox reassignthreads", and in one           *)
(* transaction during an import (AssignThreads with txOpt).                *)
(*                                                                         *)
(* A message is known by its Message-ID, the ids it references, its base   *)
(* subject, whether the subject marks a response, and when it was          *)
(* received.  The flags that a message takes over from its thread (muted,  *)
(* collapsed) are left out.  Every transaction is a step.                  *)
(***************************************************************************)
EXTENDS Naturals, Sequences, FiniteSets, SequencesExt, FiniteSetsExt, Functions, TLC

CONSTANTS
    Mails,        \* contents of messages: [mid, refs, subj, resp, dsn, at]
    MidOrder,     \* the Message-IDs, sorted
    MaxOld,       \* messages in an account from before threads
    MaxMessages,  \* messages in an account
    MaxImport,    \* messages of an import
    BatchSize,    \* messages changed per transaction
    Back, Ahead,  \* how far a message matched by subject may be from another
    MaxEvents     \* expunges, failures, restarts and commands

VARIABLE u

None == ""
Idle == [kind |-> "none", pc |-> "", last |-> 0, pending |-> <<>>, calm |-> TRUE]

\* A message before it has been given a thread.
NewMessage(id, c, prepared, run) ==
    [id |-> id, mail |-> c, mid |-> IF prepared THEN c.mid ELSE None,
     subj |-> IF prepared THEN c.subj ELSE None,
     tid |-> 0, parents |-> <<>>, missing |-> FALSE, live |-> TRUE,
     born |-> run, run |-> 0, late |-> FALSE]

MessageType ==
    [id : 1..MaxMessages, mail : Mails, mid : {c.mid : c \in Mails} \cup {None},
     subj : {c.subj : c \in Mails} \cup {None}, tid : 0..MaxMessages,
     parents : Seq(1..MaxMessages), missing : BOOLEAN, live : BOOLEAN,
     born : Nat, run : Nat, late : BOOLEAN]

-----------------------------------------------------------------------------
(* Lookups.                                                                *)

Live(msgs) == {i \in DOMAIN msgs : msgs[i].live}

\* lookupThreadMessage: the first message with the Message-ID and the subject
\* that has a thread, and whether there is any such message at all.
Candidates(msgs, m, mid) ==
    {i \in Live(msgs) : /\ msgs[i].mid = mid /\ i # m.id
                        /\ m.mail.dsn \/ msgs[i].subj = m.subj}

lookupThreadMessage(msgs, m, mid) ==
    LET l == Candidates(msgs, m, mid)
        ok == {i \in l : msgs[i].tid # 0}
    IN  [found |-> ok # {}, id |-> IF ok = {} THEN 0 ELSE Min(ok), exists |-> l # {}]

\* lookupThreadMessageSubject: the last received message with the subject, of
\* those received around the same time.
lookupThreadMessageSubject(msgs, m) ==
    LET l == {i \in Live(msgs) : /\ msgs[i].subj = m.mail.subj /\ i # m.id
                                 /\ msgs[i].tid # 0
                                 /\ msgs[i].mail.at + Back > m.mail.at
                                 /\ msgs[i].mail.at < m.mail.at + Ahead}
    IN  IF l = {} THEN 0
        ELSE CHOOSE i \in l : \A j \in l :
                 \/ msgs[i].mail.at > msgs[j].mail.at
                 \/ msgs[i].mail.at = msgs[j].mail.at /\ i >= j

-----------------------------------------------------------------------------
(* The parent of a message.                                                *)

\* As assignParent, but the thread's ancestors are not taken over.
assignParentOnly(m, pm) ==
    [m EXCEPT !.tid = pm.tid, !.parents = <<pm.id>>,
              !.missing = @ \/ (m.mid # None /\ m.mid = pm.mid)]

assignParent(m, pm) ==
    [m EXCEPT !.tid = pm.tid,
              !.parents = IF m.id \in Range(pm.parents) THEN <<pm.id>>
                          ELSE <<pm.id>> \o pm.parents,
              !.missing = @ \/ (m.mid # None /\ m.mid = pm.mid)]

\* The referenced ids to look for, the direct parent first.
refids(m) == SelectSeq(Reverse(m.mail.refs), LAMBDA r : r # m.mid)

\* assignThread, for a message that is delivered.
assignThread(msgs, m) ==
    LET same == {i \in Live(msgs) : m.mid # None /\ msgs[i].mid = m.mid /\ msgs[i].tid # 0}
        hits == {k \in DOMAIN refids(m) : lookupThreadMessage(msgs, m, refids(m)[k]).found}
        k == Min(hits)
        s == lookupThreadMessageSubject(msgs, m)
    IN  IF same # {} THEN assignParent(m, msgs[Min(same)])
        ELSE IF hits # {}
        THEN assignParent([m EXCEPT !.missing = k > 1],
                          msgs[lookupThreadMessage(msgs, m, refids(m)[k]).id])
        ELSE IF m.mail.refs # <<>> THEN [m EXCEPT !.missing = refids(m) # <<>>]
        ELSE IF ~m.mail.resp \/ m.mail.subj = None THEN m
        ELSE IF s = 0 THEN [m EXCEPT !.missing = TRUE]
        ELSE assignParent([m EXCEPT !.missing = TRUE], msgs[s])

-----------------------------------------------------------------------------
(* AssignThreads.  Its working state: [msgs, pending, err].                *)

\* A message that waits for the message-id mid to get a thread.
Wait(st, mid, m, missing) ==
    LET child == [id |-> m.id, mid |-> m.mid, missing |-> missing]
        l == IF mid \in DOMAIN st.pending THEN st.pending[mid] ELSE <<>>
    IN  [st EXCEPT !.pending = (mid :> Append(l, child)) @@ @]

\* resolvePending: the messages that wait for tm, and those that wait for them.
RECURSIVE resolvePending(_, _, _)
resolvePending(st, tm, cyclic) ==
    IF tm.mid = None \/ tm.mid \notin DOMAIN st.pending THEN st
    ELSE LET Resolve(s, c) ==
                 LET m == s.msgs[c.id]
                     m2 == [assignParent(m, tm) EXCEPT !.missing = c.missing]
                 IN  IF s.err # None THEN s
                     ELSE IF ~m.live THEN [s EXCEPT !.err = "expunged"]
                     ELSE IF m.tid # 0
                     THEN IF m.mid # tm.mid /\ ~cyclic THEN [s EXCEPT !.err = "panic"] ELSE s
                     ELSE resolvePending([s EXCEPT !.msgs[c.id] = m2], m2, cyclic)
         IN  FoldLeft(Resolve, [st EXCEPT !.pending = Restrict(@, DOMAIN @ \ {tm.mid})],
                      st.pending[tm.mid])

\* A message that got its thread is stored, and what waits for it resolved.
Save(st, m) ==
    IF m.tid = 0 \/ m.id \in Range(m.parents) THEN [st EXCEPT !.err = "panic"]
    ELSE resolvePending([st EXCEPT !.msgs[m.id] = m], m, FALSE)

\* assign: a message joins the thread of a message with the same Message-ID or
\* of the first known message it references, or waits for that message.
assign(st, m) ==
    LET msgs == st.msgs
        same == {i \in Live(msgs) : m.mid # None /\ msgs[i].mid = m.mid /\ i < m.id}
        r == refids(m)
        hits == {k \in DOMAIN r : lookupThreadMessage(msgs, m, r[k]).exists}
        k == Min(hits)
        hit == lookupThreadMessage(msgs, m, r[k])
        s == lookupThreadMessageSubject(msgs, m)
        root == [m EXCEPT !.tid = m.id, !.missing = m.mail.refs # <<>>]
    IN  IF same # {}
        THEN IF msgs[Min(same)].tid = 0 THEN Wait(st, m.mid, m, TRUE)
             ELSE Save(st, assignParent(m, msgs[Min(same)]))
        ELSE IF hits # {}
        THEN IF hit.found THEN Save(st, assignParent(m, msgs[hit.id]))
             ELSE Wait(st, r[k], m, r[k] # Last(m.mail.refs))
        ELSE IF m.mail.refs # <<>> \/ ~m.mail.resp \/ m.mail.subj = None \/ s = 0
        THEN Save(st, root)
        ELSE Save(st, [m EXCEPT !.tid = msgs[s].tid, !.parents = <<msgs[s].tid>>,
                                !.missing = TRUE])

\* The messages of a batch, in order of id.
Todo(msgs, start, n) ==
    LET all == {i \in Live(msgs) : i >= start}
        new == SetToSortSeq({i \in all : msgs[i].tid = 0}, <)
    IN  SubSeq(new, 1, IF Len(new) < n THEN Len(new) ELSE n)

processMessage(st, id) == IF st.err # None THEN st ELSE assign(st, st.msgs[id])

AssignBatch(st, start, n) == FoldLeft(processMessage, st, Todo(st.msgs, start, n))

\* The parent of a message-id among what still waits, without duplicates.
Parents(pending) ==
    LET kids == UNION {{c.mid : c \in Range(pending[p])} \ {p} : p \in DOMAIN pending}
    IN  [x \in kids |-> CHOOSE p \in DOMAIN pending :
                           p # x /\ \E c \in Range(pending[p]) : c.mid = x]

\* Walking up from a message-id until one is seen again: the root of a cycle.
RECURSIVE CycleRoot(_, _, _)
CycleRoot(parent, mid, seen) ==
    IF mid \notin DOMAIN parent THEN None
    ELSE IF parent[mid] \in seen THEN mid
    ELSE CycleRoot(parent, parent[mid], seen \cup {parent[mid]})

\* What hangs below a message-id.
RECURSIVE Below(_, _)
Below(pending, done) ==
    LET more == UNION {{c.mid : c \in Range(pending[p])} : p \in done \cap DOMAIN pending} \ done
    IN  IF more = {} THEN done ELSE Below(pending, done \cup more)

\* The messages of a cycle's root start a thread, and the cycle is resolved.
MakeRoot(st, mid) ==
    LET l == SetToSortSeq({i \in Live(st.msgs) : st.msgs[i].mid = mid /\ st.msgs[i].tid = 0}, <)
        first == [st.msgs[l[1]] EXCEPT !.tid = l[1], !.missing = TRUE, !.parents = <<>>]
        Store(s, i) == IF i = l[1] THEN [s EXCEPT !.msgs[i] = first]
                       ELSE [s EXCEPT !.msgs[i] = assignParent([@ EXCEPT !.missing = TRUE], first)]
    IN  IF l = <<>> THEN [st EXCEPT !.err = "no messages"]
        ELSE resolvePending(FoldLeft(Store, st, l), first, TRUE)

\* What still waits has a cycle at its head.  The message-ids are visited in
\* order; those of a resolved thread are skipped.
ResolveCyclic(st0, order) ==
    LET parent == Parents(st0.pending)
        Visit(a, mid) ==
            LET root == CycleRoot(parent, mid, {})
            IN  IF a.st.err # None \/ mid \in a.done THEN a
                ELSE IF root = None THEN [a EXCEPT !.st.err = "panic"]
                ELSE [st |-> MakeRoot(a.st, root),
                      done |-> Below(a.st.pending, a.done \cup {root})]
        st == FoldLeft(Visit, [st |-> st0, done |-> {}],
                       SelectSeq(order, LAMBDA x : x \in DOMAIN st0.pending)).st
    IN  IF st.err = None /\ \E i \in Live(st.msgs) : st.msgs[i].tid = 0
        THEN [st EXCEPT !.err = "found messages without threadid"] ELSE st

-----------------------------------------------------------------------------
(* The account: its messages, the stored progress of the upgrade (threads), *)
(* the upgrade or reassignment that runs (job), whether threadsCompleted is *)
(* closed, and threadsErr.  run numbers the runs of AssignThreads; cut is   *)
(* set while a reassignment that was stopped halfway has not been redone.   *)

NextID(msgs) == Len(msgs) + 1

\* Opening an account that has not been upgraded starts the upgrade.
Open(t) ==
    [t EXCEPT !.completed = t.threads = 2, !.err = FALSE,
              !.job = IF t.threads = 2 THEN Idle
                      ELSE [Idle EXCEPT !.kind = "upgrade",
                                        !.pc = IF t.threads = 0 THEN "reset" ELSE "assign"],
              !.run = IF t.threads = 1 THEN @ + 1 ELSE @]

Init ==
    \E n \in 0..MaxOld : \E old \in [1..n -> Mails] :
        u = Open([msgs |-> [i \in 1..n |-> NewMessage(i, old[i], FALSE, 0)],
                  threads |-> IF n = 0 THEN 2 ELSE 0, job |-> Idle,
                  completed |-> FALSE, err |-> FALSE, run |-> 0, cut |-> FALSE, panic |-> None, events |-> 0])

\* A job ends with an error: the upgrade leaves threadsErr, the command reports
\* the error.
JobFails(t) ==
    [t EXCEPT !.job = Idle, !.completed = TRUE,
              !.err = @ \/ t.job.kind = "upgrade",
              !.cut = @ \/ t.job.kind = "reassign"]

\* A panic of AssignThreads, and whether messages were expunged below it or had
\* lost their thread before it.
Panic(err, disturbed) ==
    IF err # "panic" THEN u.panic ELSE IF disturbed THEN "disturbed" ELSE "calm"

\* ResetThreading, one transaction: the fields used for matching are set and
\* the threads removed, in order of id.
ResetThreading ==
    /\ u.job.pc = "reset"
    /\ LET l == SetToSortSeq({i \in Live(u.msgs) : i > u.job.last}, <)
           batch == SubSeq(l, 1, IF Len(l) < BatchSize THEN Len(l) ELSE BatchSize)
           Clear(msgs, i) ==
               [msgs EXCEPT ![i] = [@ EXCEPT !.mid = msgs[i].mail.mid, !.subj = msgs[i].mail.subj,
                                             !.tid = 0, !.parents = <<>>, !.missing = FALSE]]
       IN  u' = IF batch = <<>>
                THEN [u EXCEPT !.job.pc = IF u.job.kind = "upgrade" THEN "mark1" ELSE "start",
                               !.job.last = 0]
                ELSE [u EXCEPT !.msgs = FoldLeft(Clear, @, batch), !.job.last = Last(batch)]

\* upgradeThreads stores that the first step is done.
MarkReset ==
    /\ u.job.pc = "mark1"
    /\ u' = [u EXCEPT !.threads = 1, !.job.pc = "start"]

StartAssign ==
    /\ u.job.pc = "start"
    /\ u' = [u EXCEPT !.job.pc = "assign", !.run = @ + 1, !.job.calm = TRUE]

Numbered(msgs, old, run) ==
    [i \in DOMAIN msgs |-> IF old[i].tid = 0 /\ msgs[i].tid # 0
                           THEN [msgs[i] EXCEPT !.run = run] ELSE msgs[i]]

\* AssignThreads, the transaction of a batch.
AssignThreads ==
    /\ u.job.pc = "assign"
    /\ LET todo == Todo(u.msgs, u.job.last + 1, BatchSize)
           st == AssignBatch([msgs |-> u.msgs, pending |-> u.job.pending, err |-> None],
                             u.job.last + 1, BatchSize)
       IN  u' = IF todo = <<>> THEN [u EXCEPT !.job.pc = "final"]
                ELSE IF st.err # None
                THEN [JobFails(u) EXCEPT !.panic = Panic(st.err, ~u.job.calm)]
                ELSE [u EXCEPT !.msgs = Numbered(st.msgs, u.msgs, u.run),
                               !.job.pending = st.pending, !.job.last = Last(todo)]

\* AssignThreads, the last transaction: cycles, and the check that no message is
\* without a thread.
AssignFinal ==
    /\ u.job.pc = "final"
    /\ LET st == ResolveCyclic([msgs |-> u.msgs, pending |-> u.job.pending, err |-> None], MidOrder)
       IN  u' = IF st.err # None
                THEN [JobFails(u) EXCEPT !.panic = Panic(st.err, ~u.job.calm)]
                ELSE [u EXCEPT !.msgs = Numbered(st.msgs, u.msgs, u.run), !.job.pending = <<>>,
                               !.job.pc = IF u.job.kind = "upgrade" THEN "mark2" ELSE "close"]

MarkAssigned ==
    /\ u.job.pc = "mark2"
    /\ u' = [u EXCEPT !.threads = 2, !.job.pc = "close"]

\* The background goroutine closes threadsCompleted; the command is done.
Close ==
    /\ u.job.pc = "close"
    /\ u' = [u EXCEPT !.job = Idle, !.completed = TRUE,
                      !.cut = @ /\ u.job.kind # "reassign"]

\* Reading a message or the database fails, or the server shuts down.
Fail ==
    /\ u.events < MaxEvents /\ u.job.pc \notin {"", "close"}
    /\ u' = [JobFails(u) EXCEPT !.events = @ + 1]

\* MessageAdd for a delivery: a thread is assigned unless the upgrade runs or
\* has failed.
Deliver(c) ==
    /\ NextID(u.msgs) <= MaxMessages
    /\ LET m == NewMessage(NextID(u.msgs), c, TRUE, u.run)
           t == assignThread(u.msgs, m)
           own == IF t.tid = 0 THEN [t EXCEPT !.tid = m.id] ELSE t
           wait == [m EXCEPT !.late = u.job.pc \in {"mark2", "close"} \/ u.err]
       IN  u' = [u EXCEPT !.msgs = Append(@, IF u.completed /\ ~u.err THEN own ELSE wait)]

Expunge(i) ==
    /\ u.events < MaxEvents
    /\ u.msgs[i].live
    /\ u' = [u EXCEPT !.msgs[i].live = FALSE, !.job.calm = FALSE, !.events = @ + 1]

\* "mox reassignthreads" waits for the upgrade (ThreadingWait).
Reassign ==
    /\ u.events < MaxEvents
    /\ u.job = Idle /\ u.completed /\ ~u.err
    /\ u' = [u EXCEPT !.job = [Idle EXCEPT !.kind = "reassign", !.pc = "reset"],
                      !.cut = TRUE, !.events = @ + 1]

\* An import waits for the upgrade too.  Its messages are added without a
\* thread, and assigned at the end of the transaction.
Import(cs) ==
    /\ u.events < MaxEvents
    /\ u.completed /\ ~u.err
    /\ Len(u.msgs) + Len(cs) <= MaxMessages
    /\ LET first == NextID(u.msgs)
           add == [k \in 1..Len(cs) |-> NewMessage(first + k - 1, cs[k], TRUE, u.run)]
           st == AssignBatch([msgs |-> u.msgs \o add, pending |-> <<>>, err |-> None],
                             first, MaxMessages)
           fin == IF st.err = None THEN ResolveCyclic(st, MidOrder) ELSE st
           odd == u.cut \/ \E i \in Live(u.msgs) : u.msgs[i].late
       IN  u' = IF fin.err # None
                THEN [u EXCEPT !.panic = Panic(fin.err, odd), !.events = @ + 1]
                ELSE [u EXCEPT !.msgs = Numbered(fin.msgs, u.msgs \o add, u.run + 1),
                               !.run = @ + 1, !.events = @ + 1]

\* The server stops and the account is opened again.
Restart ==
    /\ u.events < MaxEvents
    /\ u' = [Open(u) EXCEPT !.cut = @ \/ u.job.kind = "reassign", !.events = @ + 1]

Next ==
    \/ ResetThreading \/ MarkReset \/ StartAssign \/ AssignThreads \/ AssignFinal
    \/ MarkAssigned \/ Close \/ Fail \/ Reassign \/ Restart
    \/ \E c \in Mails : Deliver(c)
    \/ \E i \in DOMAIN u.msgs : Expunge(i)
    \/ \E n \in 1..MaxImport : \E cs \in [1..n -> Mails] : Import(cs)

Spec == Init /\ [][Next]_u

-----------------------------------------------------------------------------
TypeOK ==
    /\ \A i \in DOMAIN u.msgs : u.msgs[i] \in MessageType /\ u.msgs[i].id = i
    /\ u.threads \in 0..2 /\ u.completed \in BOOLEAN /\ u.err \in BOOLEAN

\* The tail of a message's ancestors that its first live ancestor must have.
FirstLive(m) == {k \in DOMAIN m.parents : u.msgs[m.parents[k]].live}

Linked(m) ==
    /\ m.id \notin Range(m.parents)
    /\ FirstLive(m) # {} =>
           LET k == Min(FirstLive(m))
           IN  /\ u.msgs[m.parents[k]].parents = SubSeq(m.parents, k + 1, Len(m.parents))
               /\ u.msgs[m.parents[k]].tid = m.tid

\* A reply is in the thread of the message it answers, when AssignThreads gave
\* both their thread in a run that started after they, and any duplicates, were
\* stored.
Answers(m, p) ==
    /\ m.live /\ p.live /\ m # p /\ m.run = p.run /\ m.born < m.run /\ p.born < p.run
    /\ m.mail.refs # <<>> /\ Last(m.mail.refs) = p.mid /\ p.mid # m.mid
    /\ m.mail.dsn \/ m.subj = p.subj
    /\ \A i \in DOMAIN u.msgs :
           /\ u.msgs[i].mid = m.mid /\ m.mid # None => i >= m.id
           /\ u.msgs[i].mid = p.mid => u.msgs[i].run = m.run /\ u.msgs[i].born < m.run

\* Threads are sound (CheckConsistency, account.go:1990-2010, and the claims in
\* AssignThreads).  AssignThreads does not panic (threads.go:95-98, 370, 481-485,
\* 599, 630): what still waits for a parent after the last batch has a cycle at
\* its head (554); unless a message was expunged while it ran, or it runs for an
\* import into an account in which messages have no thread.  A message is never
\* its own ancestor, and its first ancestor that still exists is in the same
\* thread and has the rest of its ancestors, except while or after a reassignment is cut off.  When no job runs
\* every message has a thread, except those delivered when the upgrade had
\* failed or had read its last batch, although MessageAdd logs that the upgrade
\* will assign them (account.go:2402-2404).  A reply joins the thread of the
\* message it answers whatever order, cycles and duplicates they were stored in.
ThreadsSound ==
    /\ u.panic # "calm"
    /\ ~u.cut => \A i \in Live(u.msgs) : Linked(u.msgs[i])
    /\ (u.job = Idle /\ ~u.err /\ ~u.cut) =>
           \A i \in Live(u.msgs) : u.msgs[i].tid # 0 \/ u.msgs[i].late
    /\ (u.job = Idle /\ ~u.err /\ ~u.cut /\ \A i \in DOMAIN u.msgs : u.msgs[i].live) =>
           \A i, j \in DOMAIN u.msgs :
               Answers(u.msgs[i], u.msgs[j]) => u.msgs[i].tid = u.msgs[j].tid
=============================================================================
