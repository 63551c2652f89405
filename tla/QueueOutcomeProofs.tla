------------------------- MODULE QueueOutcomeProofs -------------------------
(***************************************************************************)
(* Proofs that every message of Queue gets one outcome, within the         *)
(* attempts it may make, that rows, files and deliveries stay consistent,  *)
(* and that a failure is final, for any messages, domains, submissions,    *)
(* commands of the operator, crashes and limits.                           *)
(***************************************************************************)
EXTENDS QueueProofs, QueueAttemptProofs

-----------------------------------------------------------------------------
(* Recipients that are attempted together. *)

\* The messages that are rescheduled get a time that no other message has.
LEMMA RescheduleApart ==
  ASSUME TypeOK, NEW ms \in SUBSET Msgs, ms # {}, NEW v, Reschedule(ms, v)
  PROVE  /\ \A m \in Msgs \ ms : slot'[m] = slot[m]
         /\ \A m \in ms, x \in Msgs \ ms : slot'[m] # slot'[x]
<1> DEFINE new == CHOOSE s \in Msgs : \A m \in Msgs \ ms : slot[m] # s
<1>1. \A m \in Msgs \ ms : slot[m] # new
  BY Zenon, FreeSlot
<1>2. slot' = [m \in Msgs |-> IF m \in ms THEN new ELSE slot[m]]
  BY Zenon DEF Reschedule
<1> HIDE DEF new
<1> QED BY Zenon, <1>1, <1>2

\* Recipients that are attempted together keep having as many attempts.
LEMMA AlikeStep ==
  TypeOK /\ JobsNamed /\ BusyInv /\ JobInv /\ RowsInv /\ Alike /\ [Next]_vars => Alike'
<1> SUFFICES ASSUME TypeOK, JobsNamed, BusyInv, JobInv, RowsInv, Alike, [Next]_vars PROVE Alike'
  OBVIOUS
<1>a. \A m \in Msgs : row'[m] = "absent" => row[m] = "absent"
  BY Zenon, RowFinal
<1>b. att \in [Msgs -> Nat]
  BY Zenon DEF TypeOK
<1>c. \A m, x \in Msgs : x \in Base(m) /\ ~Rescheduled(m) => m \notin Managed /\ x \notin Managed
  BY Zenon DEF Base, Rescheduled
<1>d. \A e \in Domains : \A m \in worker[e].batch : m \in Msgs /\ Dom[m] = e
  BY DEF JobInv, JobOK, TypeOK, Job
<1>1. CASE NoAttempt
  <2>1. \A m \in Msgs : row'[m] = "absent" => att'[m] = 0
    BY Zenon, <1>1, <1>a DEF Alike, NoAttempt
  <2>2. \A m, x \in Msgs : x \in Base(m) /\ slot'[m] = slot'[x] /\ ~Rescheduled(m) => att'[m] = att'[x]
    BY Zenon, <1>1, <1>c DEF Alike, NoAttempt
  <2>3. \A d \in Domains : \A m, x \in worker'[d].batch : ~Rescheduled(m) => att'[m] = att'[x]
    BY Zenon, <1>1 DEF Alike, NoAttempt
  <2> QED BY Zenon, <2>1, <2>2, <2>3 DEF Alike, Base, Rescheduled
<1>2. CASE AddCommit
  <2>1. /\ att' = att /\ worker' = worker /\ Reschedule(adding, TRUE) /\ adding # {} /\ adding \in SUBSET Msgs
        /\ \A m \in adding : m \in Msgs /\ row[m] = "absent"
    BY Zenon, <1>2 DEF AddCommit, RowsInv, TypeOK
  <2>2. /\ \A m \in Msgs \ adding : slot'[m] = slot[m]
        /\ \A m \in adding, x \in Msgs \ adding : slot'[m] # slot'[x]
    BY Zenon, <2>1, RescheduleApart
  <2>3. \A m \in adding : att[m] = 0
    BY Zenon, <2>1 DEF Alike
  <2>4. ASSUME NEW m \in Msgs, NEW x \in Msgs, x \in Base(m), slot'[m] = slot'[x], ~Rescheduled(m)
        PROVE  att'[m] = att'[x]
    <3>1. m \in adding <=> x \in adding
      BY Zenon, <2>2, <2>4
    <3>2. CASE m \in adding
      BY Zenon, <2>1, <2>3, <3>1, <3>2
    <3>3. CASE m \notin adding
      BY SMTT(60), <2>1, <2>2, <2>4, <3>1, <3>3 DEF Alike
    <3> QED BY Zenon, <3>2, <3>3
  <2>5. \A m \in Msgs : row'[m] = "absent" => att'[m] = 0
    BY Zenon, <1>a, <2>1 DEF Alike
  <2> QED BY SMTT(60), <2>1, <2>4, <2>5 DEF Alike, Base, Rescheduled
<1>3. ASSUME NEW d \in Domains, NEW ms \in SUBSET Msgs, AttemptsOn(d, ms) PROVE Alike'
  <2>1. /\ att' = [m \in Msgs |-> IF m \in ms THEN att[m] + 1 ELSE att[m]] /\ Reschedule(ms, FALSE)
        /\ ms # {} /\ ms \subseteq Queued /\ row' = row
    BY <1>3, Zenon DEF AttemptsOn, Attempted
  <2>2. /\ \A m \in Msgs \ ms : slot'[m] = slot[m]
        /\ \A m \in ms, x \in Msgs \ ms : slot'[m] # slot'[x]
    BY Zenon, <2>1, RescheduleApart
  <2>3. \A m, x \in ms : ~Rescheduled(m) => att'[m] = att'[x]
    BY Zenon, <1>3, <2>1 DEF AttemptsOn
  <2>4. \A m \in Msgs \ ms : att'[m] = att[m]
    BY Zenon, <2>1
  <2>5. ASSUME NEW m \in Msgs, NEW x \in Msgs, x \in Base(m), slot'[m] = slot'[x], ~Rescheduled(m)
        PROVE  att'[m] = att'[x]
    <3>1. m \in ms <=> x \in ms
      BY Zenon, <2>2, <2>5
    <3>2. CASE m \in ms
      BY Zenon, <2>3, <2>5, <3>1, <3>2
    <3>3. CASE m \notin ms
      BY SMTT(60), <2>2, <2>4, <2>5, <3>1, <3>3 DEF Alike
    <3> QED BY Zenon, <3>2, <3>3
  <2>6. \A m \in Msgs : row'[m] = "absent" => att'[m] = 0
    BY Zenon, <2>1, <2>4 DEF Alike, Queued
  <2>7. ASSUME NEW e \in Domains, NEW m \in worker'[e].batch, NEW x \in worker'[e].batch, ~Rescheduled(m)
        PROVE  att'[m] = att'[x]
    <3>1. CASE e = d
      BY Zenon, <1>3, <2>3, <2>7, <3>1 DEF AttemptsOn
    <3>2. CASE e # d
      <4>1. worker'[e] = worker[e] /\ \A y \in ms : Dom[y] = d
        BY Zenon, <1>3, <3>2 DEF AttemptsOn
      <4>2. m \in Msgs \ ms /\ x \in Msgs \ ms
        BY SMTT(60), <1>d, <2>7, <3>2, <4>1
      <4>3. att[m] = att[x]
        BY ZenonT(60), <2>7, <4>1 DEF Alike
      <4> QED BY Zenon, <2>4, <4>2, <4>3
    <3> QED BY Zenon, <3>1, <3>2
  <2> QED BY Zenon, <2>5, <2>6, <2>7 DEF Alike, Base, Rescheduled
<1> QED BY Zenon, <1>1, <1>2, <1>3, StepAttempts

-----------------------------------------------------------------------------
(* The domains that are busy. *)

\* A delivery remembers the message it was started for, unless that is gone from the queue.
LEMMA DeliverRuns ==
  ASSUME TypeOK, JobsNamed, JobInv, RowsInv, NEW d \in Domains, Deliver(d)
  PROVE  /\ worker'[d].pc # "idle"
         /\ \A e \in Domains \ {d} : worker'[e] = worker[e]
         /\ stopping' = stopping
         /\ \/ worker'[d].known = worker[d].known
            \/ stopping
            \/ \E m \in Msgs : Dom[m] = d /\ Dropped(m)
<1> DEFINE w == worker[d]
           runs == /\ worker'[d].pc # "idle"
                   /\ \A e \in Domains \ {d} : worker'[e] = worker[e]
                   /\ stopping' = stopping /\ worker'[d].known = w.known
<1>s. ASSUME NEW pc, pc # "idle", NEW batch, NEW took, NEW fails, NEW retire, NEW lose,
             Becomes(d, pc, batch, took, fails, retire, lose),
             stopping' = stopping, worker'[d].known = w.known
      PROVE  runs
  BY Zenon, <1>s DEF Becomes
<1>1. CASE Begin(d)
  <2>1. PICK pc \in {"report", "prepare"} : Becomes(d, pc, w.batch, w.took, w.fails, w.retire, w.lose)
    BY Zenon, <1>1, BeginEffect DEF Begins
  <2>2. stopping' = stopping /\ worker'[d].known = w.known /\ pc # "idle"
    BY Zenon, <1>1, BeginEffect DEF Begins, OnlyWorker
  <2> QED BY Zenon, <1>s, <2>1, <2>2
<1>2. CASE PrepareGone(d)
  <2>1. /\ w.pc = "prepare" /\ OnlyWorker /\ (stopping \/ row[w.m0] # "queued")
        /\ Becomes(d, "report", w.batch, w.took, w.fails, w.retire, w.lose)
    BY Zenon, <1>2, PrepareGoneEffect DEF GoneBefore
  <2>2. w.m0 \in Msgs /\ Dom[w.m0] = d /\ (row[w.m0] = "queued" \/ Dropped(w.m0))
    BY Zenon, <2>1 DEF JobInv, JobOK, RowsInv, RowsOK
  <2> QED BY Zenon, <2>1, <2>2 DEF OnlyWorker, Becomes
<1>3. ASSUME NEW perm \in BOOLEAN, PrepareFail(d, perm) PROVE runs
  <2>1. stopping' = stopping /\ worker'[d].known = w.known
    BY <1>3, PrepareFailEffect, Zenon DEF FailsEarly
  <2>2. CASE Becomes(d, "failing", w.batch, w.took, w.fails, {w.m0}, w.lose)
    BY Zenon, <2>1, <2>2 DEF Becomes
  <2>3. CASE Becomes(d, "report", w.batch, w.took, w.fails, w.retire, w.lose)
    BY Zenon, <2>1, <2>3 DEF Becomes
  <2> QED BY <1>3, <2>2, <2>3, PrepareFailEffect, Zenon DEF FailsEarly
<1>4. ASSUME NEW more \in SUBSET Msgs, NEW direct \in BOOLEAN, PrepareBatch(d, more, direct) PROVE runs
  <2>1. /\ stopping' = stopping /\ worker'[d].known = w.known
        /\ \E batch : Becomes(d, "attempt", batch, w.took, w.fails, w.retire, w.lose)
    BY <1>4, PrepareBatchEffect, ZenonT(60) DEF Prepares
  <2> QED BY Zenon, <2>1 DEF Becomes
<1>5. ASSUME NEW perm \in BOOLEAN, AttemptFails(d, perm) \/ (AttemptRefused(d) /\ ~perm) PROVE runs
  <2>1. /\ OnlyWorker /\ worker'[d].known = w.known
        /\ \E fails : Becomes(d, "settle", w.batch, w.took, fails, w.retire, w.lose)
    BY <1>5, AttemptFailsEffect, Zenon DEF AllFail
  <2> QED BY Zenon, <2>1 DEF OnlyWorker, Becomes
<1>6. ASSUME NEW no \in SUBSET w.batch, NEW later \in SUBSET w.batch, NEW kept \in SUBSET w.batch,
             AttemptSplit(d, no, later, kept)
      PROVE  runs
  <2>1. \E took, fails : Becomes(d, "settle", w.batch, took, fails, w.retire, w.lose)
    BY <1>6, AttemptSplitEffect, Zenon DEF Splits
  <2>2. stopping' = stopping /\ worker'[d].known = w.known
    BY <1>6, AttemptSplitEffect, Zenon DEF Splits
  <2> QED BY Zenon, <2>1, <2>2 DEF Becomes
<1>7. CASE RetireDelivered(d)
  <2>1. \/ Becomes(d, "unlink", w.batch, {}, w.fails, w.took, w.lose)
        \/ Becomes(d, "settle", w.batch, {}, w.fails, {}, w.lose)
    BY <1>7, RetireDeliveredEffect, Zenon DEF Retires
  <2>2. stopping' = stopping /\ worker'[d].known = w.known
    BY <1>7, RetireDeliveredEffect, Zenon DEF Retires
  <2> QED BY Zenon, <2>1, <2>2 DEF Becomes
<1>8. CASE Unlink(d)
  BY Zenon, <1>8, UnlinkEffect DEF Unlinks, Becomes
<1>9. ASSUME NEW gs \in SUBSET w.fails, FailMsgs(d, gs) PROVE runs
  <2>1. PICK final, retire, lose : FailsAs(d, gs, final, retire, lose)
    BY <1>9, FailMsgsEffect, ZenonT(60) DEF FailsGroups
  <2>2. Becomes(d, "failing", w.batch, w.took, w.fails \ gs, retire, lose)
    BY <2>1, Zenon DEF FailsAs
  <2>3. stopping' = stopping /\ worker'[d].known = w.known
    BY <1>9, FailMsgsEffect, ZenonT(60) DEF FailsGroups
  <2> QED BY Zenon, <2>2, <2>3 DEF Becomes
<1>10. CASE FailCommit(d)
  <2>1. /\ Becomes(d, "settle", w.batch, w.took, w.fails, {}, {})
        /\ stopping' = stopping /\ worker'[d].known = w.known
    BY <1>10, FailCommitEffect, ZenonT(60) DEF CommitsFailure
  <2> QED BY Zenon, <2>1 DEF Becomes
<1>11. CASE Settled(d)
  BY ZenonT(60), <1>11, SettledEffect DEF Settles, OnlyWorker, Becomes
<1>12. CASE AttemptRefused(d)
  BY ZenonT(60), <1>5, <1>12
<1> QED
  BY Zenon, <1>1, <1>2, <1>3, <1>4, <1>5, <1>6, <1>7, <1>8, <1>9, <1>10, <1>11, <1>12 DEF Deliver

\* A domain that is busy stays busy until its delivery reports.
LEMMA RunningStep ==
  TypeOK /\ JobsNamed /\ BusyInv /\ JobInv /\ RowsInv /\ BusyIsRunning /\ [Next]_vars => BusyIsRunning'
<1> SUFFICES ASSUME TypeOK, JobsNamed, BusyInv, JobInv, RowsInv, BusyIsRunning, [Next]_vars
             PROVE  BusyIsRunning'
  OBVIOUS
<1> DEFINE dropped(d) == \E m \in Msgs : Dom[m] = d /\ Dropped(m)
<1>a. \A d : dropped(d) => dropped(d)'
  BY Zenon, RowFinal
<1>b. busy \subseteq Domains
  BY Zenon DEF TypeOK
<1>c. \A d \in busy : (worker[d].pc # "idle" /\ worker[d].known) \/ stopping \/ dropped(d)
  BY Zenon DEF BusyIsRunning
<1>d. (\A d \in busy' : (worker'[d].pc # "idle" /\ worker'[d].known) \/ stopping' \/ dropped(d)') => BusyIsRunning'
  BY Zenon DEF BusyIsRunning
<1> HIDE DEF dropped
<1>w. ASSUME worker' = worker, busy' = busy, stopping => stopping' PROVE BusyIsRunning'
  BY Zenon, <1>a, <1>c, <1>d, <1>w
<1>1. CASE Quiet
  BY Zenon, <1>1, <1>w, QuietEffect DEF StaysQuiet
<1>2. CASE Launch
  <2>1. PICK new \in SUBSET Domains :
          /\ busy' = busy \cup new
          /\ \A d \in Domains \ new : worker'[d] = worker[d]
          /\ \A d \in new : Started(d)
    BY <1>2, LaunchEffect, Zenon DEF Starts
  <2>2. stopping' = stopping
    BY Zenon, <1>2, LaunchEffect DEF Starts, OnlyWorker
  <2>3. \A d \in new : worker'[d].pc # "idle" /\ worker'[d].known
    BY Zenon, <2>1 DEF Started
  <2> QED BY ZenonT(60), <1>a, <1>b, <1>c, <1>d, <2>1, <2>2, <2>3
<1>3. CASE Crash
  BY Zenon, <1>3 DEF Crash, BusyIsRunning
<1>4. ASSUME NEW d \in Domains, ReceiveResult(d) PROVE BusyIsRunning'
  <2>1. /\ \A e \in Domains \ {d} : worker'[e] = worker[e]
        /\ busy' = busy \ Reported(d) /\ stopping' = stopping
    BY Zenon, <1>4, ReceiveResultEffect DEF Reports, OnlyWorker
  <2>2. d \in busy' => ~worker[d].known
    BY Zenon, <2>1 DEF Reported
  <2> QED BY ZenonT(60), <1>a, <1>b, <1>c, <1>d, <2>1, <2>2
<1>5. ASSUME NEW s \in Submissions, AddLink(s) \/ AddLeftover(s) PROVE BusyIsRunning'
  BY SMTT(60), <1>5, <1>w DEF AddLink, AddLeftover, dispatcher
<1>6. CASE AddFail \/ FailDropFiles \/ AddCommit
  <2>1. worker' = worker /\ busy' = busy /\ stopping' = stopping
    BY <1>6, Zenon DEF AddFail, FailDropFiles, AddCommit, dispatcher
  <2> QED BY Zenon, <1>w, <2>1
<1>7. ASSUME NEW ms \in SUBSET Droppable, NEW fail \in BOOLEAN, FailDrop(ms, fail) PROVE BusyIsRunning'
  BY Zenon, <1>7, <1>w DEF FailDrop, dispatcher
<1>8. ASSUME NEW d \in Domains, Deliver(d) PROVE BusyIsRunning'
  <2>1. busy' = busy
    BY Zenon, <1>8, DeliverKept
  <2>2. /\ worker'[d].pc # "idle" /\ \A e \in Domains \ {d} : worker'[e] = worker[e]
        /\ stopping' = stopping
        /\ worker'[d].known = worker[d].known \/ stopping \/ dropped(d)
    BY Zenon, <1>8, DeliverRuns DEF dropped
  <2> QED BY ZenonT(60), <1>a, <1>b, <1>c, <1>d, <2>1, <2>2
<1> QED
  BY ZenonT(60), <1>1, <1>2, <1>3, <1>4, <1>5, <1>6, <1>7, <1>8, NextCases

-----------------------------------------------------------------------------

\* The invariants together.
IInv ==
  /\ TypeOK /\ JobsNamed /\ BusyInv /\ WakeInv /\ JobInv /\ TransactionInv
  /\ RowsInv /\ FilesInv /\ OutcomeInv /\ AttemptInv /\ BusyIsRunning

\* The queue starts with the invariants.
LEMMA InvariantInit == Init => IInv
<1> SUFFICES ASSUME Init PROVE IInv
  OBVIOUS
<1>1. TypeOK /\ JobsNamed
  BY Zenon, TypeInit
<1>2. BusyInv /\ WakeInv
  BY SMTT(60), FS_EmptySet, QueueAssumption DEF Init, Idle, BusyInv, OneDeliveryPerDomain, WakeInv
<1>3. \A d \in Domains : worker[d] = Idle
  BY Zenon DEF Init
<1>4. JobInv
  BY Zenon, <1>3, IdleJob DEF JobInv
<1>5. \A d \in Domains : worker[d].pc = "idle" /\ Unsettled(worker[d]) = {} /\ worker[d].batch = {}
        /\ worker[d].took = {} /\ worker[d].retire = {} /\ worker[d].lose = {}
  BY <1>3 DEF Idle, Unsettled
<1>6. TransactionInv
  BY Zenon, <1>5 DEF Init, TransactionInv
<1>7. \A m \in Msgs : row[m] = "absent" /\ sent[m] = 0 /\ dsn[m] = 0 /\ att[m] = 0 /\ Dom[m] \in Domains
  BY QueueAssumption DEF Init
<1>8. adding = {} /\ trash = {} /\ file = {} /\ busy = {} /\ crashes = 0 /\ Queued = {}
  BY Zenon, <1>7 DEF Init, Queued
<1>9. RowsInv
  BY Zenon, <1>5, <1>7, <1>8 DEF RowsInv, RowsOK
<1>10. FilesInv
  BY Zenon, <1>5, <1>8 DEF FilesInv, RowHasFile, FileHasRow
<1>11. OutcomeInv
  BY SMTT(60), <1>5, <1>7, <1>8 DEF OutcomeInv
<1>12. AttemptInv
  BY SMTT(60), <1>5, <1>7, <1>8, QueueAssumption DEF AttemptInv, AttemptsBounded
<1>13. BusyIsRunning
  BY Zenon, <1>8 DEF BusyIsRunning
<1> QED BY ZenonT(60), <1>1, <1>2, <1>4, <1>6, <1>9, <1>10, <1>11, <1>12, <1>13 DEF IInv

\* Each step keeps the invariants.
LEMMA InvariantStep == IInv /\ [Next]_vars => IInv'
<1> SUFFICES ASSUME IInv, [Next]_vars PROVE IInv'
  OBVIOUS
<1>1. TypeOK' /\ JobsNamed'
  BY Zenon, TypeStep DEF IInv
<1>2. BusyInv' /\ WakeInv'
  BY Zenon, BusyStep, WakeStep DEF IInv
<1>3. JobInv' /\ TransactionInv' /\ RowsInv'
  BY Zenon, JobStep, TransactionStep, RowsStep DEF IInv
<1>4. FilesInv' /\ OutcomeInv'
  BY Zenon, FilesStep, OutcomeStep DEF IInv
<1>5. Alike'
  <2>1. Alike
    BY Zenon DEF IInv, AttemptInv, Alike
  <2> QED BY Zenon, <2>1, AlikeStep DEF IInv
<1>6. AttemptInv' /\ BusyIsRunning'
  BY Zenon, <1>1, <1>5, AttemptStep, RunningStep DEF IInv
<1> QED BY ZenonT(60), <1>1, <1>2, <1>3, <1>4, <1>6 DEF IInv

\* The invariants hold always.
LEMMA Invariant == Spec => []IInv
BY InvariantInit, InvariantStep, PTL DEF Spec

\* For any messages, submissions and domains, and whatever is added, delivered, dropped,
\* failed, held and rescheduled at the same time: while the process runs, a message in the
\* queue has its file until removeMsgsFS, no file is left behind, no domain has two
\* deliveries and startQueue does not sleep through work.
THEOREM QueueConsistent == Spec => []QueueSound
<1>1. IInv => QueueSound
  BY Zenon DEF IInv, FilesInv, BusyInv, WakeInv, QueueSound, NoLostWakeup
<1> QED BY <1>1, Invariant, PTL

\* For any batches, answers of remotes, notices that the sender's account does not take
\* (any Refusable), numbers of crashes and MaxAttempts: a message that the operator does not
\* disturb has one outcome and one more for each crash, is retired as delivered only after
\* the remote took it and as failed only after the sender was told or the account did not
\* take the notice, is attempted no more than MaxAttempts times and once more for each
\* crash, and a domain stays busy only as long as its deliver goroutine runs.
THEOREM OneOutcomeEach == Spec => []Outcomes
<1>1. OutcomeInv /\ RowsInv => OneOutcome /\ Accounted
  BY Zenon DEF OutcomeInv, RowsInv, OneOutcome, Accounted
<1>2. IInv => Outcomes
  BY Zenon, <1>1 DEF IInv, AttemptInv, Outcomes
<1> QED BY <1>2, Invariant, PTL

\* Once the sender has the notice of failMsgsTx that no further deliveries will be attempted,
\* none is, unless a crash comes between that notice and the commit that retires the message.
THEOREM FailuresFinal == Spec => FailureFinal
<1>1. ASSUME IInv, [Next]_vars, NEW m \in Msgs, att'[m] > att[m] PROVE dsn[m] <= crashes \/ Disturbed(m)
  <2>1. Alike
    BY Zenon, <1>1 DEF IInv, AttemptInv, Alike
  <2>2. att[m] \in Nat /\ sent[m] \in Nat /\ dsn[m] \in Nat /\ crashes \in Nat
    <3>1. att \in [Msgs -> Nat] /\ dsn \in [Msgs -> Nat] /\ sent \in [Msgs -> 0 .. MaxSent]
          /\ crashes \in 0 .. MaxCrashes
      BY Zenon, <1>1 DEF IInv, TypeOK
    <3>2. att[m] \in Nat /\ dsn[m] \in Nat /\ sent[m] \in 0 .. MaxSent
      BY Zenon, <1>1, <3>1
    <3> QED BY SMTT(60), <3>1, <3>2, QueueAssumption
  <2>3. PICK d \in Domains : \E ms \in SUBSET Msgs : AttemptsOn(d, ms) /\ m \in ms
    <3>1. CASE NoAttempt
      BY SMTT(60), <1>1, <2>2, <3>1 DEF NoAttempt
    <3>2. CASE AddCommit
      BY SMTT(60), <1>1, <2>2, <3>2 DEF AddCommit
    <3>3. ASSUME NEW d \in Domains, NEW ms \in SUBSET Msgs, AttemptsOn(d, ms) PROVE m \in ms
      BY SMTT(60), <1>1, <2>2, <3>3 DEF AttemptsOn, Attempted
    <3> QED BY ZenonT(60), <1>1, <2>1, <3>1, <3>2, <3>3, StepAttempts DEF IInv
  <2>4. worker[d].pc = "prepare" /\ Dom[m] = d /\ row[m] = "queued"
    BY Zenon, <2>3 DEF AttemptsOn, Queued
  <2>5. ~Decided(m)
    BY ZenonT(60), <1>1, <2>4 DEF IInv, JobInv, JobOK, Decided
  <2>6. Disturbed(m) \/ sent[m] + dsn[m] <= crashes
    BY Zenon, <1>1, <2>4, <2>5 DEF IInv, OutcomeInv
  <2> QED BY SMTT(60), <2>2, <2>6
<1>2. IInv /\ [Next]_vars => [\A m \in Msgs : att'[m] > att[m] => dsn[m] <= crashes \/ Disturbed(m)]_vars
  BY Zenon, <1>1
<1> QED BY <1>2, Invariant, PTL DEF Spec, FailureFinal

=============================================================================
