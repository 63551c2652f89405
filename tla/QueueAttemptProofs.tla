------------------------- MODULE QueueAttemptProofs -------------------------
(***************************************************************************)
(* Proofs about Queue, continued: what each step does to the outcomes of   *)
(* messages, and how many attempts they have had and have left.            *)
(***************************************************************************)
EXTENDS QueueRowProofs

-----------------------------------------------------------------------------
(* One outcome per message. *)

\* OutcomeInv for one message.
OutcomeOf(m) ==
  /\ row[m] = "absent" => sent[m] = 0 /\ dsn[m] = 0
  /\ row[m] = "delivered" \/ m \in worker[Dom[m]].took => sent[m] > 0
  /\ row[m] = "failed" => Notified(m)
  /\ Disturbed(m) \/ sent[m] + dsn[m] <= 1 + crashes
  /\ row[m] = "queued" /\ ~Decided(m) => Disturbed(m) \/ sent[m] + dsn[m] <= crashes

\* OutcomeInv, message by message.
LEMMA OutcomeEach == OutcomeInv <=> \A m \in Msgs : OutcomeOf(m)
BY Zenon DEF OutcomeInv, OutcomeOf

\* A step that does not count an outcome of the message, and forgets none.
LEMMA OutcomeSame ==
  ASSUME NEW m \in Msgs, OutcomeOf(m), row'[m] = row[m], sent'[m] = sent[m], dsn'[m] = dsn[m],
         Notified(m) => Notified(m)', crashes' = crashes, Disturbed(m) => Disturbed(m)',
         m \in worker'[Dom[m]].took => m \in worker[Dom[m]].took,
         row[m] = "queued" /\ Decided(m) => Decided(m)'
  PROVE  OutcomeOf(m)'
BY Zenon DEF OutcomeOf

\* A message that is out of the queue without an outcome is disturbed.
LEMMA GoneDisturbed ==
  ASSUME RowsInv, NEW m \in Msgs, row[m] \in {"canceled", "aborted", "lost"} PROVE Disturbed(m)
<1>1. CASE row[m] = "lost"
  BY Zenon, <1>1 DEF RowsInv
<1>2. CASE row[m] # "lost"
  <2>1. Dropped(m) /\ m \in UNION Submissions
    BY Zenon, <1>2 DEF Dropped, RowsInv
  <2> QED BY Zenon, <2>1, OwnBase DEF Disturbed
<1> QED BY Zenon, <1>1, <1>2

\* When a row of the batch is gone, all of the batch is disturbed.
LEMMA BatchDisturbed ==
  ASSUME RowsInv, NEW d \in Domains, worker[d] \in Job, JobOK(d, worker[d]), worker[d].pc # "idle",
         NEW m \in worker[d].batch, NEW x \in worker[d].batch, x \notin Queued,
         row[x] \in {"queued", "canceled", "aborted", "lost"}
  PROVE  Disturbed(m)
<1>1. x \in Msgs /\ worker[d].m0 \in Msgs /\ m \in Base(worker[d].m0) /\ x \in Base(worker[d].m0)
  BY Zenon DEF JobOK, Job
<1>2. Disturbed(x)
  BY Zenon, <1>1, GoneDisturbed DEF Queued
<1> QED BY Zenon, <1>1, <1>2, DisturbedTogether

\* A delivery counts an outcome of a message when it had none since the last crash.
LEMMA OutcomeDeliver ==
  ASSUME TypeOK, JobsNamed, BusyInv, JobInv, TransactionInv, RowsInv, FilesInv, OutcomeInv, [Next]_vars,
         NEW d \in Domains, Deliver(d)
  PROVE  OutcomeInv'
<1> DEFINE w == worker[d]
<1>a. JobOK(d, w) /\ RowsOK(w) /\ w \in Job
  BY Zenon DEF JobInv, RowsInv, TypeOK
<1>b. /\ dsn \in [Msgs -> Nat] /\ sent \in [Msgs -> Nat] /\ row \in [Msgs -> Rows] /\ crashes \in Nat
      /\ Dom \in [Msgs -> Domains]
  BY QueueAssumption DEF TypeOK
<1>c. \A m \in Msgs : OutcomeOf(m)
  BY Zenon, OutcomeEach
<1>d. \A m \in Msgs : Disturbed(m) => Disturbed(m)'
  BY Zenon, RowFinal
<1>e. \A m \in w.batch \cup w.retire \cup w.lose : m \in Msgs /\ Dom[m] = d
  BY Zenon, <1>a DEF JobOK, Job
<1>o. SUFFICES ASSUME NEW m \in Msgs PROVE OutcomeOf(m)'
  <2>1. \A m \in Msgs : OutcomeOf(m)'
    BY Zenon, <1>o
  <2> QED BY Zenon, <2>1 DEF OutcomeInv, OutcomeOf
<1>f. OutcomeOf(m)
  BY Zenon, <1>c
<1>g. Disturbed(m) => Disturbed(m)'
  BY Zenon, <1>d
<1> HIDE DEF w
<1>s. ASSUME row'[m] = row[m], sent'[m] = sent[m], dsn'[m] = dsn[m], Notified(m) => Notified(m)', crashes' = crashes,
             NEW pc, NEW batch, NEW fails, NEW took, NEW retire, NEW lose,
             Becomes(d, pc, batch, took, fails, retire, lose),
             Dom[m] = d => /\ m \in took => m \in w.took
                           /\ row[m] = "queued" /\ m \in w.took \cup w.retire => m \in took \cup retire
      PROVE  OutcomeOf(m)'
  <2>1. CASE Dom[m] = d
    <3>1. worker'[Dom[m]].took = took /\ worker'[Dom[m]].retire = retire /\ worker[Dom[m]] = w
      BY Zenon, <1>s, <2>1 DEF Becomes, w
    <3>2. m \in worker'[Dom[m]].took => m \in worker[Dom[m]].took
      BY Zenon, <1>s, <2>1, <3>1
    <3>3. row[m] = "queued" /\ Decided(m) => Decided(m)'
      BY Zenon, <1>s, <2>1, <3>1 DEF Decided
    <3> QED BY Zenon, <1>f, <1>g, <1>s, <3>2, <3>3, OutcomeSame
  <2>2. CASE Dom[m] # d
    <3>1. worker'[Dom[m]] = worker[Dom[m]]
      BY Zenon, <1>b, <1>s, <2>2 DEF Becomes
    <3>2. Decided(m) => Decided(m)'
      BY Zenon, <3>1 DEF Decided
    <3> QED BY Zenon, <1>f, <1>g, <1>s, <3>1, <3>2, OutcomeSame
  <2> QED BY Zenon, <2>1, <2>2
<1>1. CASE Begin(d)
  <2>1. PICK pc \in {"report", "prepare"} : Becomes(d, pc, w.batch, w.took, w.fails, w.retire, w.lose)
    BY Zenon, <1>1, BeginEffect DEF Begins, w
  <2>2. OnlyWorker
    BY Zenon, <1>1, BeginEffect DEF Begins
  <2> QED BY Zenon, <1>s, <2>1, <2>2 DEF OnlyWorker, Notified
<1>2. CASE PrepareGone(d)
  <2>1. OnlyWorker /\ Becomes(d, "report", w.batch, w.took, w.fails, w.retire, w.lose)
    BY Zenon, <1>2, PrepareGoneEffect DEF GoneBefore, w
  <2> QED BY Zenon, <1>s, <2>1 DEF OnlyWorker, Notified
<1>3. ASSUME NEW perm \in BOOLEAN, PrepareFail(d, perm) PROVE OutcomeOf(m)'
  <2>1. /\ w.pc = "prepare" /\ w.m0 \in Msgs /\ row[w.m0] = "queued"
        /\ row' = row /\ sent' = sent /\ crashes' = crashes
    BY <1>3, PrepareFailEffect, Zenon DEF FailsEarly, w
  <2>2. CASE dsn' = dsn /\ untold' = untold /\ Becomes(d, "report", w.batch, w.took, w.fails, w.retire, w.lose)
    BY Zenon, <1>s, <2>1, <2>2 DEF Notified
  <2>3. CASE /\ Tells({w.m0})
             /\ Becomes(d, "failing", w.batch, w.took, w.fails, {w.m0}, w.lose)
    <3>1. w.took = {} /\ w.retire = {} /\ Dom[w.m0] = d
      BY Zenon, <1>a, <2>1 DEF JobOK
    <3>2. CASE m # w.m0
      <4>1. dsn'[m] = dsn[m] /\ (Notified(m) => Notified(m)')
        BY Zenon, <2>3, <3>2 DEF Tells
      <4> QED BY Zenon, <1>s, <2>1, <2>3, <3>1, <4>1
    <3>3. CASE m = w.m0
      <4>1. ~Decided(m) /\ row[m] = "queued"
        BY Zenon, <2>1, <3>1, <3>3 DEF Decided, w
      <4>2. dsn'[m] \in Nat /\ (dsn'[m] = dsn[m] \/ dsn'[m] = dsn[m] + 1)
        BY <1>b, <2>3 DEF Tells
      <4>3. Decided(m)' /\ m \notin worker'[Dom[m]].took
        BY Zenon, <2>3, <3>1, <3>3 DEF Decided, Becomes
      <4>4. Disturbed(m) \/ sent[m] + dsn[m] <= crashes
        BY Zenon, <1>f, <4>1 DEF OutcomeOf
      <4>5. row'[m] = "queued" /\ sent'[m] = sent[m] /\ sent[m] \in Nat /\ dsn[m] \in Nat
        BY Zenon, <1>b, <2>1, <4>1
      <4>6. Disturbed(m)' \/ sent'[m] + dsn'[m] <= 1 + crashes'
        BY <1>b, <1>g, <2>1, <4>2, <4>4, <4>5
      <4> QED BY Zenon, <4>3, <4>5, <4>6 DEF OutcomeOf
    <3> QED BY Zenon, <3>2, <3>3
  <2> QED BY <1>3, <2>2, <2>3, PrepareFailEffect, Zenon DEF FailsEarly, w
<1>4. ASSUME NEW more \in SUBSET Msgs, NEW direct \in BOOLEAN, PrepareBatch(d, more, direct) PROVE OutcomeOf(m)'
  <2>1. /\ row' = row /\ sent' = sent /\ dsn' = dsn /\ untold' = untold /\ crashes' = crashes
        /\ \E batch : Becomes(d, "attempt", batch, w.took, w.fails, w.retire, w.lose)
    BY <1>4, PrepareBatchEffect, ZenonT(60) DEF Prepares, w
  <2> QED BY Zenon, <1>s, <2>1 DEF Notified
<1>5. ASSUME NEW perm \in BOOLEAN, AttemptFails(d, perm) \/ (AttemptRefused(d) /\ ~perm) PROVE OutcomeOf(m)'
  <2>1. OnlyWorker /\ \E fails : Becomes(d, "settle", w.batch, w.took, fails, w.retire, w.lose)
    BY <1>5, AttemptFailsEffect, Zenon DEF AllFail, w
  <2> QED BY Zenon, <1>s, <2>1 DEF OnlyWorker, Notified
<1>6. ASSUME NEW no \in SUBSET worker[d].batch, NEW later \in SUBSET worker[d].batch,
             NEW kept \in SUBSET worker[d].batch, AttemptSplit(d, no, later, kept)
      PROVE  OutcomeOf(m)'
  <2>1. PICK took, fails :
          /\ took \subseteq w.batch
          /\ sent' = [x \in Msgs |-> IF x \in took THEN sent[x] + 1 ELSE sent[x]]
          /\ Becomes(d, "settle", w.batch, took, fails, w.retire, w.lose)
    BY <1>6, AttemptSplitEffect, Zenon DEF Splits, w
  <2>2. w.pc = "attempt" /\ row' = row /\ dsn' = dsn /\ untold' = untold /\ crashes' = crashes
    BY <1>6, AttemptSplitEffect, Zenon DEF Splits, w
  <2>3. w.took = {} /\ w.retire = {}
    BY Zenon, <1>a, <2>2 DEF JobOK
  <2>4. CASE m \notin took
    <3>1. sent'[m] = sent[m]
      BY Zenon, <2>1, <2>4
    <3> QED BY Zenon, <1>s, <2>1, <2>2, <2>3, <2>4, <3>1 DEF Notified
  <2>5. CASE m \in took
    <3>1. sent'[m] = sent[m] + 1 /\ Dom[m] = d
      BY Zenon, <1>e, <2>1, <2>5
    <3>2. row[m] \in {"queued", "canceled", "aborted", "lost"}
      BY Zenon, <1>a, <2>1, <2>2, <2>5 DEF RowsOK, Unsettled
    <3>3. ~Decided(m)
      BY Zenon, <2>3, <3>1 DEF Decided, w
    <3>4. Disturbed(m) \/ sent[m] + dsn[m] <= crashes
      <4>1. CASE row[m] = "queued"
        BY Zenon, <1>f, <3>3, <4>1 DEF OutcomeOf
      <4>2. CASE row[m] # "queued"
        BY Zenon, <3>2, <4>2, GoneDisturbed
      <4> QED BY Zenon, <4>1, <4>2
    <3>5. Decided(m)'
      BY Zenon, <2>1, <2>5, <3>1 DEF Decided, Becomes
    <3>6. sent'[m] > 0 /\ (Disturbed(m)' \/ sent'[m] + dsn'[m] <= 1 + crashes')
      BY <1>b, <1>g, <2>2, <3>1, <3>4
    <3> QED BY Zenon, <2>2, <3>2, <3>5, <3>6 DEF OutcomeOf
  <2> QED BY Zenon, <2>4, <2>5
<1>7. CASE RetireDelivered(d)
  <2>a. w.pc = "settle" /\ sent' = sent /\ dsn' = dsn /\ untold' = untold /\ crashes' = crashes
    BY <1>7, RetireDeliveredEffect, Zenon DEF Retires, w
  <2>b. w.retire = {} /\ w.took \subseteq w.batch
    BY Zenon, <1>a, <2>a DEF JobOK
  <2>1. CASE /\ row' = [x \in Msgs |-> IF x \in w.took THEN "delivered" ELSE row[x]]
             /\ Becomes(d, "unlink", w.batch, {}, w.fails, w.took, w.lose)
    <3>1. CASE m \notin w.took
      <4>1. row'[m] = row[m]
        BY Zenon, <2>1, <3>1
      <4> QED BY Zenon, <1>s, <2>a, <2>b, <2>1, <3>1, <4>1 DEF Notified
    <3>2. CASE m \in w.took
      <4>1. row'[m] = "delivered" /\ Dom[m] = d
        BY Zenon, <1>e, <2>1, <2>b, <3>2
      <4>2. sent[m] > 0
        BY Zenon, <1>f, <3>2, <4>1 DEF OutcomeOf, w
      <4> QED BY Zenon, <1>f, <1>g, <2>a, <4>1, <4>2 DEF OutcomeOf
    <3> QED BY Zenon, <3>1, <3>2
  <2>2. CASE /\ ~(w.took \subseteq Queued) /\ row' = row
             /\ Becomes(d, "settle", w.batch, {}, w.fails, {}, w.lose)
    <3>1. CASE m \notin w.took
      BY Zenon, <1>s, <2>a, <2>b, <2>2, <3>1 DEF Notified
    <3>2. CASE m \in w.took
      <4>1. PICK x \in w.took : x \notin Queued
        BY Zenon, <2>2
      <4>2. row[x] \in {"queued", "canceled", "aborted", "lost"} /\ x \in w.batch /\ m \in w.batch
        BY Zenon, <1>a, <2>a, <2>b, <3>2 DEF RowsOK, Unsettled
      <4>3. Disturbed(m)
        BY Zenon, <1>a, <2>a, <4>1, <4>2, BatchDisturbed DEF w
      <4>4. Dom[m] = d /\ m \notin worker'[Dom[m]].took
        BY Zenon, <1>e, <2>2, <4>2 DEF Becomes
      <4> QED BY Zenon, <1>f, <1>g, <2>a, <2>2, <4>3, <4>4 DEF OutcomeOf, Notified
    <3> QED BY Zenon, <3>1, <3>2
  <2> QED BY <1>7, <2>1, <2>2, RetireDeliveredEffect, Zenon DEF Retires, w
<1>8. CASE Unlink(d)
  <2>1. /\ w.pc = "unlink" /\ row' = row /\ sent' = sent /\ dsn' = dsn /\ untold' = untold /\ crashes' = crashes
        /\ Becomes(d, "settle", w.batch, w.took, w.fails, {}, w.lose)
    BY Zenon, <1>8, UnlinkEffect DEF Unlinks, w
  <2>2. m \in w.retire => row[m] = "delivered"
    BY Zenon, <1>a, <2>1 DEF RowsOK
  <2> QED BY Zenon, <1>s, <2>1, <2>2 DEF Notified
<1>9. ASSUME NEW gs \in SUBSET worker[d].fails, FailMsgs(d, gs) PROVE OutcomeOf(m)'
  <2>1. PICK final, retire, lose : FailsAs(d, gs, final, retire, lose)
    BY <1>9, FailMsgsEffect, ZenonT(60) DEF FailsGroups
  <2>2. w.pc = "settle" /\ row' = row /\ sent' = sent /\ crashes' = crashes
    BY <1>9, FailMsgsEffect, ZenonT(60) DEF FailsGroups, w
  <2>3. /\ final \subseteq gs
        /\ \A x \in retire : \E g \in final : x \in g.ms
        /\ \A g \in final : g.ms \subseteq Queued => g.ms \subseteq retire
        /\ dsn'[m] = dsn[m] \/ ((\E g \in final : m \in g.ms) /\ dsn'[m] = dsn[m] + 1)
        /\ Notified(m) => Notified(m)'
        /\ Becomes(d, "failing", w.batch, w.took, w.fails \ gs, retire, lose)
    BY <2>1, Zenon DEF FailsAs, Tells, w
  <2>4. w.retire = {}
    BY Zenon, <1>a, <2>2 DEF JobOK
  <2>5. CASE ~\E g \in final : m \in g.ms
    <3>1. dsn'[m] = dsn[m] /\ row'[m] = row[m] /\ sent'[m] = sent[m]
      BY Zenon, <2>2, <2>3, <2>5
    <3> QED BY Zenon, <1>s, <2>2, <2>3, <2>4, <2>5, <3>1
  <2>6. CASE \E g \in final : m \in g.ms
    <3>1. PICK g \in final : m \in g.ms
      BY Zenon, <2>6
    <3>2. g \in w.fails /\ g.ms \subseteq w.batch /\ m \notin w.took
      BY Zenon, <1>a, <2>3, <3>1 DEF JobOK, w
    <3>3. \A x \in g.ms : row[x] \in {"queued", "canceled", "aborted", "lost"}
      BY <1>a, <2>2, <3>2 DEF RowsOK, Unsettled
    <3>4. Dom[m] = d
      BY Zenon, <1>e, <3>1, <3>2
    <3>5. ~Decided(m) /\ m \notin worker'[Dom[m]].took
      BY Zenon, <2>3, <2>4, <3>2, <3>4 DEF Decided, Becomes, w
    <3>6. dsn'[m] = dsn[m] \/ dsn'[m] = dsn[m] + 1
      BY Zenon, <2>3
    <3>7. CASE g.ms \subseteq Queued
      <4>1. Decided(m)' /\ row[m] = "queued"
        BY Zenon, <2>3, <3>1, <3>4, <3>7 DEF Decided, Becomes, Queued
      <4>2. Disturbed(m) \/ sent[m] + dsn[m] <= crashes
        BY Zenon, <1>f, <3>5, <4>1 DEF OutcomeOf
      <4>3. Disturbed(m)' \/ sent'[m] + dsn'[m] <= 1 + crashes'
        BY <1>b, <1>g, <2>2, <3>6, <4>2
      <4> QED BY Zenon, <2>2, <3>5, <4>1, <4>3 DEF OutcomeOf
    <3>8. CASE ~(g.ms \subseteq Queued)
      <4>1. PICK x \in g.ms : x \notin Queued
        BY Zenon, <3>8
      <4>2. Disturbed(m)
        BY Zenon, <1>a, <2>2, <3>1, <3>2, <3>3, <4>1, BatchDisturbed DEF w
      <4>3. row'[m] \in {"queued", "canceled", "aborted", "lost"}
        BY Zenon, <2>2, <3>1, <3>3
      <4> QED BY Zenon, <1>g, <3>5, <4>2, <4>3 DEF OutcomeOf
    <3> QED BY Zenon, <3>7, <3>8
  <2> QED BY Zenon, <2>5, <2>6
<1>10. CASE FailCommit(d)
  <2>1. /\ w.pc = "failing" /\ Becomes(d, "settle", w.batch, w.took, w.fails, {}, {})
        /\ row'[m] = IF m \in w.lose THEN "lost" ELSE IF m \in w.retire THEN "failed" ELSE row[m]
        /\ sent' = sent /\ dsn' = dsn /\ untold' = untold /\ crashes' = crashes
    BY <1>10, FailCommitEffect, ZenonT(60) DEF CommitsFailure, w
  <2>2. CASE m \in w.lose \cup w.retire
    <3>1. row'[m] = "lost" \/ (m \in w.retire /\ row'[m] = "failed")
      BY Zenon, <2>1, <2>2
    <3>2. Dom[m] = d /\ worker'[Dom[m]].took = worker[Dom[m]].took
      BY Zenon, <1>e, <2>1, <2>2 DEF Becomes, w
    <3>3. m \in w.retire => Notified(m)
      BY Zenon, <2>1 DEF FilesInv, w
    <3>4. m \in w.retire => Notified(m)'
      BY Zenon, <2>1, <3>3 DEF Notified
    <3>5. row'[m] = "lost" \/ (row'[m] = "failed" /\ Notified(m)')
      BY Zenon, <3>1, <3>4
    <3>6. dsn'[m] = dsn[m] /\ sent'[m] = sent[m] /\ crashes' = crashes
      BY Zenon, <2>1
    <3>7. m \in worker'[Dom[m]].took => sent'[m] > 0
      BY Zenon, <1>f, <3>2, <3>6 DEF OutcomeOf
    <3> QED BY Zenon, <1>f, <1>g, <3>5, <3>6, <3>7 DEF OutcomeOf
  <2>3. CASE m \notin w.lose \cup w.retire
    BY Zenon, <1>s, <2>1, <2>3 DEF Notified
  <2> QED BY Zenon, <2>2, <2>3
<1>11. CASE Settled(d)
  <2>1. OnlyWorker /\ Becomes(d, "report", {}, w.took, w.fails, w.retire, w.lose)
    BY Zenon, <1>11, SettledEffect DEF Settles, w
  <2> QED BY Zenon, <1>s, <2>1 DEF OnlyWorker, Notified
<1>12. CASE AttemptRefused(d)
  BY Zenon, <1>5, <1>12
<1> QED
  BY Zenon, <1>1, <1>2, <1>3, <1>4, <1>5, <1>6, <1>7, <1>8, <1>9, <1>10, <1>11, <1>12 DEF Deliver

\* All steps keep the count of outcomes.
LEMMA OutcomeStep ==
  /\ TypeOK /\ JobsNamed /\ BusyInv /\ JobInv /\ TransactionInv /\ RowsInv /\ FilesInv
  /\ OutcomeInv /\ [Next]_vars
  => OutcomeInv'
<1> SUFFICES ASSUME TypeOK, JobsNamed, BusyInv, JobInv, TransactionInv, RowsInv, FilesInv, OutcomeInv, [Next]_vars,
                    ~\E d \in Domains : Deliver(d), NEW m \in Msgs
             PROVE  OutcomeOf(m)'
  <2>1. (\A m \in Msgs : OutcomeOf(m)') => OutcomeInv'
    BY Zenon DEF OutcomeInv, OutcomeOf
  <2> QED BY Zenon, <2>1, OutcomeDeliver
<1>b. dsn \in [Msgs -> Nat] /\ sent \in [Msgs -> Nat] /\ crashes \in Nat /\ Dom[m] \in Domains
  BY QueueAssumption DEF TypeOK
<1>f. OutcomeOf(m)
  BY Zenon, OutcomeEach
<1>g. Disturbed(m) => Disturbed(m)'
  BY Zenon, RowFinal
<1>w. ASSUME worker' = worker, sent' = sent, dsn'[m] = dsn[m], Notified(m) => Notified(m)', row'[m] = row[m],
             crashes' = crashes
      PROVE  OutcomeOf(m)'
  BY Zenon, <1>f, <1>g, <1>w, OutcomeSame DEF Decided
<1>1. CASE Quiet
  BY Zenon, <1>1, <1>w, QuietEffect DEF StaysQuiet, Notified
<1>2. CASE Launch
  <2>1. PICK new \in SUBSET Domains :
          /\ \A d \in Domains \ new : worker'[d] = worker[d]
          /\ \A d \in new : worker[d].pc = "idle" /\ Started(d)
    BY <1>2, LaunchEffect, Zenon DEF Starts
  <2>2. OnlyWorker
    BY Zenon, <1>2, LaunchEffect DEF Starts
  <2>3. \A e \in new : worker[e].retire = {} /\ worker[e].took = {} /\ worker'[e].took = {}
    BY Zenon, <2>1 DEF JobInv, JobOK, Started
  <2>4. Decided(m) => Decided(m)'
    BY Zenon, <1>b, <2>1, <2>3 DEF Decided
  <2>5. m \in worker'[Dom[m]].took => m \in worker[Dom[m]].took
    BY Zenon, <1>b, <2>1, <2>3
  <2> QED BY Zenon, <1>f, <1>g, <2>2, <2>4, <2>5, OutcomeSame DEF OnlyWorker, Notified
<1>3. CASE Crash
  <2>1. /\ row' = row /\ sent' = sent /\ dsn' = dsn /\ untold' = untold /\ crashes' = crashes + 1
        /\ worker'[Dom[m]] = Idle
    BY Zenon, <1>3, <1>b DEF Crash, db, world
  <2>2. m \notin worker'[Dom[m]].took
    BY <2>1 DEF Idle
  <2>3. Disturbed(m)' \/ sent'[m] + dsn'[m] <= crashes'
    BY <1>b, <1>f, <1>g, <2>1 DEF OutcomeOf
  <2>4. Disturbed(m)' \/ sent'[m] + dsn'[m] <= 1 + crashes'
    BY <1>b, <2>1, <2>3
  <2> QED BY Zenon, <1>f, <2>1, <2>2, <2>3, <2>4 DEF OutcomeOf, Notified
<1>4. ASSUME NEW d \in Domains, ReceiveResult(d) PROVE OutcomeOf(m)'
  <2>1. /\ worker[d].pc = "report" /\ OnlyWorker /\ worker'[d] = Idle
        /\ \A e \in Domains \ {d} : worker'[e] = worker[e]
    BY Zenon, <1>4, ReceiveResultEffect DEF Reports
  <2>2. worker[d].retire = {} /\ worker[d].took = {} /\ worker'[d].took = {}
    <3>1. JobOK(d, worker[d])
      BY Zenon DEF JobInv
    <3>2. Idle.took = {}
      BY Zenon DEF Idle
    <3>3. worker[d].pc \notin {"settle", "failing", "unlink"}
      BY Zenon, <2>1
    <3> QED BY Zenon, <2>1, <3>1, <3>2, <3>3 DEF JobOK
  <2>3. Decided(m) => Decided(m)'
    BY Zenon, <1>b, <2>1, <2>2 DEF Decided
  <2>4. m \in worker'[Dom[m]].took => m \in worker[Dom[m]].took
    BY Zenon, <1>b, <2>1, <2>2
  <2> QED BY Zenon, <1>f, <1>g, <2>1, <2>3, <2>4, OutcomeSame DEF OnlyWorker, Notified
<1>5. ASSUME NEW s \in Submissions, AddLink(s) \/ AddLeftover(s) PROVE OutcomeOf(m)'
  BY Zenon, <1>5, <1>w DEF AddLink, AddLeftover, db, world, Notified
<1>6. CASE AddFail \/ FailDropFiles
  BY Zenon, <1>6, <1>w DEF AddFail, FailDropFiles, db, world, Notified
<1>7. CASE AddCommit
  <2>1. /\ row'[m] = IF m \in adding THEN "queued" ELSE row[m]
        /\ m \in adding => row[m] = "absent"
        /\ worker' = worker /\ sent' = sent /\ dsn' = dsn /\ untold' = untold /\ crashes' = crashes
    BY Zenon, <1>7 DEF AddCommit, world, RowsInv
  <2>2. CASE m \in adding
    <3>1. sent[m] = 0 /\ dsn[m] = 0 /\ m \notin worker[Dom[m]].took
      BY <1>f, <2>1, <2>2 DEF OutcomeOf
    <3> QED BY <1>b, <2>1, <2>2, <3>1 DEF OutcomeOf
  <2>3. CASE m \notin adding
    BY Zenon, <1>w, <2>1, <2>3 DEF Notified
  <2> QED BY Zenon, <2>2, <2>3
<1>8. ASSUME NEW ms \in SUBSET Droppable, NEW fail \in BOOLEAN, FailDrop(ms, fail) PROVE OutcomeOf(m)'
  <2>1. /\ m \in ms => row[m] = "queued" /\ row'[m] \in {"canceled", "aborted"}
        /\ m \notin ms => row'[m] = row[m]
        /\ \E got : Notify(IF fail THEN ms ELSE {}, got)
        /\ worker' = worker /\ sent' = sent /\ crashes' = crashes
    BY Zenon, <1>8 DEF FailDrop, Retire, Queued
  <2>4. Tells(IF fail THEN ms ELSE {})
    BY Zenon, <2>1, NotifyTells
  <2>2. CASE m \in ms
    <3>1. m \in Base(m)
      BY Zenon, <2>1, <2>2, OwnBase DEF RowsInv
    <3>2. Disturbed(m)'
      BY Zenon, <2>1, <2>2, <3>1 DEF Disturbed, Dropped, Base
    <3> QED BY Zenon, <1>f, <2>1, <2>2, <3>2 DEF OutcomeOf
  <2>3. CASE m \notin ms
    BY Zenon, <1>w, <2>1, <2>3, <2>4 DEF Tells
  <2> QED BY Zenon, <2>2, <2>3
<1> QED
  BY Zenon, <1>1, <1>2, <1>3, <1>4, <1>5, <1>6, <1>7, <1>8, NextCases

-----------------------------------------------------------------------------
(* The number of attempts. *)

\* The delivery of d registers an attempt for the messages of ms, which have had as many.
AttemptsOn(d, ms) ==
  /\ worker[d].pc = "prepare" /\ ms # {} /\ ms \subseteq Queued /\ \A m \in ms : Dom[m] = d
  /\ Attempted(ms) /\ row' = row /\ crashes' = crashes
  /\ \A m, x \in ms : ~Rescheduled(m) => att[m] = att[x]
  /\ worker'[d].batch \in {{}, ms}
  /\ \A e \in Domains \ {d} : worker'[e] = worker[e]

\* No attempt is registered, and only messages of Managed get another time.
NoAttempt ==
  /\ att' = att /\ crashes' >= crashes
  /\ \A m \in Msgs \ Managed : slot'[m] = slot[m]
  /\ \A e \in Domains : worker'[e].batch \in {{}, worker[e].batch}

\* Recipients that are attempted together have had as many attempts.
Alike ==
  /\ \A m \in Msgs : row[m] = "absent" => att[m] = 0
  /\ \A m, x \in Msgs : x \in Base(m) /\ slot[m] = slot[x] /\ ~Rescheduled(m) => att[m] = att[x]
  /\ \A d \in Domains : \A m, x \in worker[d].batch : ~Rescheduled(m) => att[m] = att[x]

\* A delivery registers attempts in prepare only.
LEMMA DeliverAttempts ==
  ASSUME TypeOK, JobsNamed, JobInv, RowsInv, Alike, NEW d \in Domains, Deliver(d)
  PROVE  NoAttempt \/ \E ms \in SUBSET Msgs : AttemptsOn(d, ms)
<1> DEFINE w == worker[d]
<1>a. JobOK(d, w) /\ RowsOK(w) /\ w \in Job
  BY Zenon DEF JobInv, RowsInv, TypeOK
<1>b. crashes \in Nat
  BY QueueAssumption DEF TypeOK
<1> HIDE DEF w
<1>s. ASSUME att' = att, slot' = slot, crashes' = crashes, NEW pc, NEW took, NEW fails, NEW retire, NEW lose,
             NEW batch, batch \in {{}, w.batch}, Becomes(d, pc, batch, took, fails, retire, lose)
      PROVE  NoAttempt
  BY <1>b, <1>s DEF NoAttempt, Becomes, w
<1>1. CASE Begin(d)
  <2>1. OnlyWorker /\ \E pc : Becomes(d, pc, w.batch, w.took, w.fails, w.retire, w.lose)
    BY <1>1, BeginEffect, Zenon DEF Begins, w
  <2> QED BY Zenon, <1>s, <2>1 DEF OnlyWorker
<1>2. CASE PrepareGone(d)
  <2>1. OnlyWorker /\ Becomes(d, "report", w.batch, w.took, w.fails, w.retire, w.lose)
    BY Zenon, <1>2, PrepareGoneEffect DEF GoneBefore, w
  <2> QED BY Zenon, <1>s, <2>1 DEF OnlyWorker
<1>3. ASSUME NEW perm \in BOOLEAN, PrepareFail(d, perm) PROVE NoAttempt \/ \E ms \in SUBSET Msgs : AttemptsOn(d, ms)
  <2>1. /\ w.pc = "prepare" /\ w.m0 \in Msgs /\ row[w.m0] = "queued" /\ row' = row /\ crashes' = crashes
    BY <1>3, PrepareFailEffect, Zenon DEF FailsEarly, w
  <2>2. CASE /\ att' = att /\ slot' = slot
             /\ Becomes(d, "failing", w.batch, w.took, w.fails, {w.m0}, w.lose)
    BY Zenon, <1>s, <2>1, <2>2
  <2>3. CASE Attempted({w.m0}) /\ Becomes(d, "report", w.batch, w.took, w.fails, w.retire, w.lose)
    <3>1. Dom[w.m0] = d /\ w.batch = {}
      BY Zenon, <1>a, <2>1 DEF JobOK
    <3>2. worker'[d].batch = {} /\ \A e \in Domains \ {d} : worker'[e] = worker[e]
      BY Zenon, <2>3, <3>1 DEF Becomes
    <3>3. AttemptsOn(d, {w.m0})
      BY Zenon, <2>1, <2>3, <3>1, <3>2 DEF AttemptsOn, Queued, w
    <3> QED BY Zenon, <2>1, <3>3
  <2> QED BY <1>3, <2>2, <2>3, PrepareFailEffect, Zenon DEF FailsEarly, w
<1>4. ASSUME NEW more \in SUBSET Msgs, NEW direct \in BOOLEAN, PrepareBatch(d, more, direct)
      PROVE  \E ms \in SUBSET Msgs : AttemptsOn(d, ms)
  <2> DEFINE batch == {w.m0} \cup more
  <2>1. /\ w.pc = "prepare" /\ w.m0 \in Msgs /\ row[w.m0] = "queued" /\ more \subseteq Gatherable(w.m0)
        /\ row' = row /\ crashes' = crashes
        /\ Attempted(batch)
        /\ Becomes(d, "attempt", batch, w.took, w.fails, w.retire, w.lose)
    BY <1>4, PrepareBatchEffect, ZenonT(60) DEF Prepares, w
  <2>2. Dom[w.m0] = d
    BY Zenon, <1>a, <2>1 DEF JobOK
  <2>3. batch \subseteq Queued /\ batch # {} /\ \A m \in batch : Dom[m] = d
    BY Zenon, <2>1, <2>2 DEF Gatherable, Queued
  <2>4. w.m0 \in Base(w.m0)
    BY Zenon, <2>1, OwnBase DEF RowsInv
  <2>5. \A m \in batch : m \in Base(w.m0) /\ m \in Msgs
    BY Zenon, <2>1, <2>4 DEF Gatherable
  <2>6. \A m \in batch : Rescheduled(m) <=> Rescheduled(w.m0)
    BY Zenon, <2>1, <2>5, SameBase DEF Rescheduled
  <2>7. ASSUME ~Rescheduled(w.m0), NEW m \in batch PROVE att[m] = att[w.m0]
    <3>1. CASE m = w.m0
      BY Zenon, <3>1
    <3>2. CASE m # w.m0
      <4>1. m \in Gatherable(w.m0) /\ m \in Base(w.m0)
        BY Zenon, <2>1, <2>5, <3>2
      <4>2. {m, w.m0} \cap Managed = {}
        BY Zenon, <2>4, <2>7, <4>1 DEF Rescheduled
      <4>3. slot[m] = slot[w.m0]
        BY Zenon, <4>1, <4>2 DEF Gatherable
      <4>4. m \in Msgs
        BY Zenon, <2>5
      <4>5. att[w.m0] = att[m]
        BY Zenon, <2>1, <2>7, <4>1, <4>3, <4>4 DEF Alike
      <4> QED BY Zenon, <4>5
    <3> QED BY Zenon, <3>1, <3>2
  <2>8. \A m, x \in batch : ~Rescheduled(m) => att[m] = att[x]
    BY Zenon, <2>6, <2>7
  <2>9. batch \in SUBSET Msgs
    BY Zenon, <2>1
  <2> HIDE DEF batch
  <2>10. worker'[d].batch = batch /\ \A e \in Domains \ {d} : worker'[e] = worker[e]
    BY Zenon, <2>1 DEF Becomes
  <2>11. AttemptsOn(d, batch)
    BY <2>1, <2>3, <2>8, <2>10, Zenon DEF AttemptsOn, w
  <2> QED BY Zenon, <2>9, <2>11
<1>5. ASSUME NEW perm \in BOOLEAN, AttemptFails(d, perm) \/ (AttemptRefused(d) /\ ~perm) PROVE NoAttempt
  <2>1. OnlyWorker /\ \E fails : Becomes(d, "settle", w.batch, w.took, fails, w.retire, w.lose)
    BY <1>5, AttemptFailsEffect, Zenon DEF AllFail, w
  <2> QED BY Zenon, <1>s, <2>1 DEF OnlyWorker
<1>6. ASSUME NEW no \in SUBSET worker[d].batch, NEW later \in SUBSET worker[d].batch,
             NEW kept \in SUBSET worker[d].batch, AttemptSplit(d, no, later, kept)
      PROVE  NoAttempt
  <2>1. \E took, fails : Becomes(d, "settle", w.batch, took, fails, w.retire, w.lose)
    BY <1>6, AttemptSplitEffect, Zenon DEF Splits, w
  <2>2. att' = att /\ slot' = slot /\ crashes' = crashes
    BY <1>6, AttemptSplitEffect, Zenon DEF Splits
  <2> QED BY Zenon, <1>s, <2>1, <2>2
<1>7. CASE RetireDelivered(d)
  <2>1. \E pc, retire : Becomes(d, pc, w.batch, {}, w.fails, retire, w.lose)
    BY <1>7, RetireDeliveredEffect, Zenon DEF Retires, w
  <2>2. att' = att /\ slot' = slot /\ crashes' = crashes
    BY <1>7, RetireDeliveredEffect, Zenon DEF Retires
  <2> QED BY Zenon, <1>s, <2>1, <2>2
<1>8. CASE Unlink(d)
  <2>1. Becomes(d, "settle", w.batch, w.took, w.fails, {}, w.lose) /\ att' = att /\ slot' = slot /\ crashes' = crashes
    BY Zenon, <1>8, UnlinkEffect DEF Unlinks, w
  <2> QED BY Zenon, <1>s, <2>1
<1>9. ASSUME NEW gs \in SUBSET worker[d].fails, FailMsgs(d, gs) PROVE NoAttempt
  <2>1. PICK final, retire, lose : FailsAs(d, gs, final, retire, lose)
    BY <1>9, FailMsgsEffect, ZenonT(60) DEF FailsGroups
  <2>2. Becomes(d, "failing", w.batch, w.took, w.fails \ gs, retire, lose)
    BY <2>1, Zenon DEF FailsAs, w
  <2>3. att' = att /\ slot' = slot /\ crashes' = crashes
    BY <1>9, FailMsgsEffect, ZenonT(60) DEF FailsGroups
  <2> QED BY Zenon, <1>s, <2>2, <2>3
<1>10. CASE FailCommit(d)
  <2>1. Becomes(d, "settle", w.batch, w.took, w.fails, {}, {}) /\ att' = att /\ slot' = slot /\ crashes' = crashes
    BY <1>10, FailCommitEffect, ZenonT(60) DEF CommitsFailure, w
  <2> QED BY Zenon, <1>s, <2>1
<1>11. CASE Settled(d)
  <2>1. OnlyWorker /\ Becomes(d, "report", {}, w.took, w.fails, w.retire, w.lose)
    BY Zenon, <1>11, SettledEffect DEF Settles, w
  <2> QED BY Zenon, <1>s, <2>1 DEF OnlyWorker
<1>12. CASE AttemptRefused(d)
  BY Zenon, <1>5, <1>12
<1> QED
  BY Zenon, <1>1, <1>2, <1>3, <1>4, <1>5, <1>6, <1>7, <1>8, <1>9, <1>10, <1>11, <1>12 DEF Deliver

\* No other step registers attempts, or reschedules what the operator does not manage.
LEMMA StepAttempts ==
  ASSUME TypeOK, JobsNamed, BusyInv, JobInv, RowsInv, Alike, [Next]_vars
  PROVE  \/ NoAttempt \/ AddCommit
         \/ \E d \in Domains : \E ms \in SUBSET Msgs : AttemptsOn(d, ms)
<1>b. crashes \in Nat
  BY QueueAssumption DEF TypeOK
<1>1. CASE Quiet
  <2>1. /\ att' = att /\ crashes' = crashes /\ worker' = worker
    BY Zenon, <1>1, QuietEffect DEF StaysQuiet
  <2>2. ASSUME NEW m \in Msgs \ Managed PROVE slot'[m] = slot[m]
    <3>1. CASE \E ms \in SUBSET Managed, v \in BOOLEAN : NextAttemptSet(ms, v)
      BY Zenon, <3>1 DEF NextAttemptSet, Reschedule
    <3>2. CASE ~\E ms \in SUBSET Managed, v \in BOOLEAN : NextAttemptSet(ms, v)
      BY <1>1, <3>2, Zenon DEF Quiet, HoldRuleAdd, HoldRuleRemove, TransportSet, HoldSet, ReceiveKick, ReceiveTimer,
                        ReceiveShutdown, NextWork, Drained, TimePasses, Shutdown, vars, db
    <3> QED BY Zenon, <3>1, <3>2
  <2> QED BY <1>b, <2>1, <2>2 DEF NoAttempt
<1>2. CASE Launch
  <2>1. \A e \in Domains : worker'[e].batch \in {{}, worker[e].batch}
    BY Zenon, <1>2, LaunchEffect DEF Starts, Started
  <2> QED BY <1>2, <1>b, <2>1, LaunchEffect DEF Starts, NoAttempt, OnlyWorker
<1>3. CASE Crash
  <2>1. /\ att' = att /\ slot' = slot /\ crashes' = crashes + 1
        /\ \A e \in Domains : worker'[e].batch = {}
    BY Zenon, <1>3 DEF Crash, db, Idle
  <2> QED BY <1>b, <2>1 DEF NoAttempt
<1>4. ASSUME NEW d \in Domains, ReceiveResult(d) PROVE NoAttempt
  <2>1. OnlyWorker /\ worker'[d] = Idle /\ \A e \in Domains \ {d} : worker'[e] = worker[e]
    BY Zenon, <1>4, ReceiveResultEffect DEF Reports
  <2>2. ASSUME NEW e \in Domains PROVE worker'[e].batch \in {{}, worker[e].batch}
    <3>1. CASE e = d
      <4>1. Idle.batch = {}
        BY Zenon DEF Idle
      <4> QED BY Zenon, <2>1, <3>1, <4>1
    <3>2. CASE e # d
      BY Zenon, <2>1, <3>2
    <3> QED BY Zenon, <3>1, <3>2
  <2>3. att' = att /\ slot' = slot /\ crashes' = crashes
    BY Zenon, <2>1 DEF OnlyWorker
  <2>4. crashes' >= crashes
    BY SMTT(60), <1>b, <2>3
  <2> QED BY Zenon, <2>2, <2>3, <2>4 DEF NoAttempt
<1>5. ASSUME NEW s \in Submissions, AddLink(s) \/ AddLeftover(s) PROVE NoAttempt
  BY SMTT(60), <1>5, <1>b DEF AddLink, AddLeftover, db, NoAttempt
<1>6. CASE AddFail \/ FailDropFiles
  BY SMTT(60), <1>6, <1>b DEF AddFail, FailDropFiles, db, NoAttempt
<1>7. ASSUME NEW ms \in SUBSET Droppable, NEW fail \in BOOLEAN, FailDrop(ms, fail) PROVE NoAttempt
  BY <1>7, <1>b DEF FailDrop, NoAttempt
<1> QED
  BY Zenon, <1>1, <1>2, <1>3, <1>4, <1>5, <1>6, <1>7, NextCases, DeliverAttempts

-----------------------------------------------------------------------------
(* The attempts that are left to a message. *)

\* A delivery with these values has the message in its hands.
Holds(m, pc, batch, took, fails, retire) ==
  m \in took \/ m \in retire \/ IF pc = "attempt" THEN m \in batch ELSE \E g \in fails : m \in g.ms

\* The delivery of its domain has the message in its hands.
Handled(m) == Decided(m) \/ m \in Unsettled(worker[Dom[m]])

\* Handled, in the terms of Holds.
LEMMA HandledHolds ==
  ASSUME NEW m
  PROVE  LET w == worker[Dom[m]] IN Handled(m) <=> Holds(m, w.pc, w.batch, w.took, w.fails, w.retire)
BY Zenon DEF Handled, Holds, Decided, Unsettled

\* A delivery has nothing in its hands before it attempts, and after it has settled.
LEMMA NotHandled ==
  ASSUME JobInv, NEW m, Dom[m] \in Domains, worker[Dom[m]].pc \in {"idle", "begin", "prepare", "report"}
  PROVE  ~Handled(m)
<1> DEFINE w == worker[Dom[m]]
<1>1. JobOK(Dom[m], w)
  BY Zenon DEF JobInv
<1> HIDE DEF w
<1>2. w.pc \in {"idle", "begin", "prepare", "report"} => w.took = {} /\ w.fails = {} /\ w.retire = {} /\ w.batch = {}
  BY Zenon, <1>1 DEF JobOK
<1> QED BY Zenon, <1>2 DEF w, Handled, Decided, Unsettled

\* A message that waits in the queue may be attempted once more.
Waits(m) ==
  row[m] = "queued" => \/ Disturbed(m) \/ Rescheduled(m) \/ Handled(m)
                       \/ att[m] < MaxAttempts + crashes

\* A step that registers no attempt for the message, and does not let go of it too early.
LEMMA WaitsSame ==
  ASSUME NEW m \in Msgs, att[m] \in Nat, crashes \in Nat, crashes' \in Nat, Waits(m),
         att'[m] = att[m], crashes' >= crashes, row'[m] = "queued" => row[m] = "queued",
         Disturbed(m) => Disturbed(m)',
         row'[m] = "queued" /\ Handled(m) =>
           Disturbed(m) \/ Rescheduled(m) \/ Handled(m)' \/ att[m] < MaxAttempts
  PROVE  Waits(m)'
<1> SUFFICES ASSUME row'[m] = "queued", ~Disturbed(m)', ~Rescheduled(m), ~Handled(m)'
             PROVE  att'[m] < MaxAttempts + crashes'
  BY Zenon DEF Waits, Rescheduled, Base
<1>1. att[m] < MaxAttempts \/ att[m] < MaxAttempts + crashes
  BY Zenon DEF Waits
<1>2. MaxAttempts \in Nat
  BY Zenon, QueueAssumption
<1>3. ASSUME NEW a \in Nat, NEW b \in Nat, NEW c \in Nat, NEW n \in Nat, a < n \/ a < n + b, c >= b
      PROVE  a < n + c
  BY <1>3
<1> QED BY Zenon, <1>1, <1>2, <1>3

\* A delivery puts a message back into the queue only when an attempt is left.
LEMMA WaitsDeliver ==
  ASSUME TypeOK, JobsNamed, BusyInv, JobInv, TransactionInv, RowsInv, Alike, [Next]_vars,
         NEW d \in Domains, Deliver(d), NEW m \in Msgs, Waits(m)
  PROVE  Waits(m)'
<1> DEFINE w == worker[d]
<1>a. JobOK(d, w) /\ RowsOK(w) /\ w \in Job
  BY Zenon DEF JobInv, RowsInv, TypeOK
<1>b. att \in [Msgs -> Nat] /\ crashes \in Nat /\ Dom[m] \in Domains /\ row \in [Msgs -> Rows]
  BY QueueAssumption DEF TypeOK
<1>c. att[m] \in Nat /\ (crashes' = crashes => crashes' \in Nat /\ crashes' >= crashes)
  BY <1>b
<1>e. \A x \in w.batch : x \in Msgs /\ Dom[x] = d
  BY Zenon, <1>a DEF JobOK, Job
<1>g. Disturbed(m) => Disturbed(m)'
  BY Zenon, RowFinal
<1> HIDE DEF w
<1>s. ASSUME att'[m] = att[m], crashes' = crashes, row'[m] = "queued" => row[m] = "queued",
             NEW pc, NEW batch, NEW took, NEW fails, NEW retire, NEW lose,
             Becomes(d, pc, batch, took, fails, retire, lose),
             Dom[m] = d /\ row'[m] = "queued" /\ Holds(m, w.pc, w.batch, w.took, w.fails, w.retire) =>
               \/ Disturbed(m) \/ Rescheduled(m) \/ att[m] < MaxAttempts
               \/ Holds(m, pc, batch, took, fails, retire)
      PROVE  Waits(m)'
  <2>1. CASE Dom[m] = d
    <3>1. Handled(m) => Holds(m, w.pc, w.batch, w.took, w.fails, w.retire)
      BY Zenon, <2>1, HandledHolds DEF w
    <3>2. Holds(m, pc, batch, took, fails, retire) => Handled(m)'
      BY Zenon, <1>s, <2>1 DEF Handled, Holds, Decided, Unsettled, Becomes
    <3> QED BY <1>c, <1>g, <1>s, <2>1, <3>1, <3>2, WaitsSame, Zenon
  <2>2. CASE Dom[m] # d
    <3>1. worker'[Dom[m]] = worker[Dom[m]]
      BY Zenon, <1>b, <1>s, <2>2 DEF Becomes
    <3>2. Handled(m) => Handled(m)'
      BY Zenon, <3>1 DEF Handled, Decided, Unsettled
    <3> QED BY <1>c, <1>g, <1>s, <3>2, WaitsSame, Zenon
  <2> QED BY Zenon, <2>1, <2>2
<1>n. ASSUME w.pc \in {"begin", "prepare", "report"} PROVE ~Holds(m, w.pc, w.batch, w.took, w.fails, w.retire)
  BY Zenon, <1>a, <1>n DEF JobOK, Holds
<1>1. CASE Begin(d)
  <2>1. w.pc = "begin" /\ OnlyWorker /\ \E pc : Becomes(d, pc, w.batch, w.took, w.fails, w.retire, w.lose)
    BY <1>1, BeginEffect, Zenon DEF Begins, w
  <2> QED BY Zenon, <1>n, <1>s, <2>1 DEF OnlyWorker
<1>2. CASE PrepareGone(d)
  <2>1. w.pc = "prepare" /\ OnlyWorker /\ Becomes(d, "report", w.batch, w.took, w.fails, w.retire, w.lose)
    BY Zenon, <1>2, PrepareGoneEffect DEF GoneBefore, w
  <2> QED BY Zenon, <1>n, <1>s, <2>1 DEF OnlyWorker
<1>3. ASSUME NEW perm \in BOOLEAN, PrepareFail(d, perm) PROVE Waits(m)'
  <2>1. w.pc = "prepare" /\ w.m0 \in Msgs /\ row' = row /\ crashes' = crashes
    BY <1>3, PrepareFailEffect, Zenon DEF FailsEarly, w
  <2>2. CASE att' = att /\ Becomes(d, "failing", w.batch, w.took, w.fails, {w.m0}, w.lose)
    BY Zenon, <1>n, <1>s, <2>1, <2>2
  <2>3. CASE /\ Attempted({w.m0}) /\ att[w.m0] + 1 < MaxAttempts
             /\ Becomes(d, "report", w.batch, w.took, w.fails, w.retire, w.lose)
    <3>1. att' = [x \in Msgs |-> IF x \in {w.m0} THEN att[x] + 1 ELSE att[x]]
      BY <2>3, Zenon DEF Attempted
    <3>2. CASE m = w.m0
      <4>1. att'[m] < MaxAttempts /\ att'[m] \in Nat
        BY SMTT(60), <1>b, <2>3, <3>1, <3>2
      <4> QED BY SMTT(60), <1>b, <2>1, <4>1, QueueAssumption DEF Waits
    <3>3. CASE m # w.m0
      <4>1. att'[m] = att[m]
        BY Zenon, <3>1, <3>3
      <4> QED BY Zenon, <1>n, <1>s, <2>1, <2>3, <4>1
    <3> QED BY Zenon, <3>2, <3>3
  <2> QED BY <1>3, <2>2, <2>3, PrepareFailEffect, Zenon DEF FailsEarly, w
<1>4. ASSUME NEW more \in SUBSET Msgs, NEW direct \in BOOLEAN, PrepareBatch(d, more, direct) PROVE Waits(m)'
  <2> DEFINE batch == {w.m0} \cup more
  <2>1. /\ w.pc = "prepare" /\ w.m0 \in Msgs /\ more \subseteq Gatherable(w.m0)
        /\ row' = row /\ crashes' = crashes /\ Attempted(batch)
        /\ Becomes(d, "attempt", batch, w.took, w.fails, w.retire, w.lose)
    BY <1>4, PrepareBatchEffect, ZenonT(60) DEF Prepares, w
  <2>2. Dom[w.m0] = d
    BY Zenon, <1>a, <2>1 DEF JobOK
  <2>3. \A x \in batch : Dom[x] = d
    BY Zenon, <2>1, <2>2 DEF Gatherable
  <2> HIDE DEF batch
  <2>4. CASE m \in batch
    <3>1. worker'[Dom[m]].pc = "attempt" /\ m \in worker'[Dom[m]].batch
      BY Zenon, <2>1, <2>3, <2>4 DEF Becomes
    <3> QED BY Zenon, <3>1 DEF Waits, Handled, Unsettled
  <2>5. CASE m \notin batch
    <3>1. att'[m] = att[m]
      BY Zenon, <2>1, <2>5 DEF Attempted
    <3> QED BY Zenon, <1>n, <1>s, <2>1, <3>1
  <2> QED BY Zenon, <2>4, <2>5
<1>5. ASSUME NEW perm \in BOOLEAN, AttemptFails(d, perm) \/ (AttemptRefused(d) /\ ~perm) PROVE Waits(m)'
  <2> DEFINE g == [ms |-> w.batch, perm |-> perm]
  <2>1. w.pc = "attempt" /\ OnlyWorker /\ Becomes(d, "settle", w.batch, w.took, {g}, w.retire, w.lose)
    BY <1>5, AttemptFailsEffect, Zenon DEF AllFail, w
  <2>2. g.ms = w.batch
    OBVIOUS
  <2> HIDE DEF g
  <2>3. Holds(m, w.pc, w.batch, w.took, w.fails, w.retire) => Holds(m, "settle", w.batch, w.took, {g}, w.retire)
    BY Zenon, <2>1, <2>2 DEF Holds
  <2> QED BY Zenon, <1>s, <2>1, <2>3 DEF OnlyWorker
<1>6. ASSUME NEW no \in SUBSET worker[d].batch, NEW later \in SUBSET worker[d].batch,
             NEW kept \in SUBSET worker[d].batch, AttemptSplit(d, no, later, kept)
      PROVE  Waits(m)'
  <2>1. PICK took, fails :
          /\ \A x \in w.batch \ took : \E g \in fails : g.ms = {x}
          /\ Becomes(d, "settle", w.batch, took, fails, w.retire, w.lose)
    BY <1>6, AttemptSplitEffect, Zenon DEF Splits, w
  <2>2. w.pc = "attempt" /\ att' = att /\ row' = row /\ crashes' = crashes
    BY <1>6, AttemptSplitEffect, Zenon DEF Splits, w
  <2>3. w.took = {}
    BY Zenon, <1>a, <2>2 DEF JobOK
  <2>4. Holds(m, w.pc, w.batch, w.took, w.fails, w.retire) => Holds(m, "settle", w.batch, took, fails, w.retire)
    BY Zenon, <2>1, <2>2, <2>3 DEF Holds
  <2> QED BY Zenon, <1>s, <2>1, <2>2, <2>4
<1>7. CASE RetireDelivered(d)
  <2>a. w.pc = "settle" /\ att' = att /\ crashes' = crashes
    BY <1>7, RetireDeliveredEffect, Zenon DEF Retires, w
  <2>b. w.retire = {} /\ w.took \subseteq w.batch
    BY Zenon, <1>a, <2>a DEF JobOK
  <2>1. CASE /\ row' = [x \in Msgs |-> IF x \in w.took THEN "delivered" ELSE row[x]]
             /\ Becomes(d, "unlink", w.batch, {}, w.fails, w.took, w.lose)
    <3>1. row'[m] = "queued" => row[m] = "queued" /\ m \notin w.took
      BY Zenon, <2>1
    <3>2. Holds(m, w.pc, w.batch, w.took, w.fails, w.retire) /\ m \notin w.took
            => Holds(m, "unlink", w.batch, {}, w.fails, w.took)
      BY Zenon, <2>a, <2>b DEF Holds
    <3> QED BY Zenon, <1>s, <2>a, <2>1, <3>1, <3>2
  <2>2. CASE /\ ~(w.took \subseteq Queued) /\ row' = row
             /\ Becomes(d, "settle", w.batch, {}, w.fails, {}, w.lose)
    <3>1. m \in w.took => Disturbed(m)
      <4> SUFFICES ASSUME m \in w.took PROVE Disturbed(m)
        OBVIOUS
      <4>1. PICK x \in w.took : x \notin Queued
        BY Zenon, <2>2
      <4>2. row[x] \in {"queued", "canceled", "aborted", "lost"} /\ x \in w.batch /\ m \in w.batch
        BY Zenon, <1>a, <2>a, <2>b DEF RowsOK, Unsettled
      <4> QED BY Zenon, <1>a, <2>a, <4>1, <4>2, BatchDisturbed DEF w
    <3>2. Holds(m, w.pc, w.batch, w.took, w.fails, w.retire) /\ m \notin w.took
            => Holds(m, "settle", w.batch, {}, w.fails, {})
      BY Zenon, <2>a, <2>b DEF Holds
    <3> QED BY Zenon, <1>s, <2>a, <2>2, <3>1, <3>2
  <2> QED BY <1>7, <2>1, <2>2, RetireDeliveredEffect, Zenon DEF Retires, w
<1>8. CASE Unlink(d)
  <2>1. /\ w.pc = "unlink" /\ row' = row /\ att' = att /\ crashes' = crashes
        /\ Becomes(d, "settle", w.batch, w.took, w.fails, {}, w.lose)
    BY Zenon, <1>8, UnlinkEffect DEF Unlinks, w
  <2>2. m \in w.retire => row[m] = "delivered"
    BY Zenon, <1>a, <2>1 DEF RowsOK
  <2>3. Holds(m, w.pc, w.batch, w.took, w.fails, w.retire) /\ m \notin w.retire
          => Holds(m, "settle", w.batch, w.took, w.fails, {})
    BY Zenon, <2>1 DEF Holds
  <2> QED BY Zenon, <1>s, <2>1, <2>2, <2>3
<1>9. ASSUME NEW gs \in SUBSET worker[d].fails, FailMsgs(d, gs) PROVE Waits(m)'
  <2>1. PICK final, retire, lose : FailsAs(d, gs, final, retire, lose)
    BY <1>9, FailMsgsEffect, ZenonT(60) DEF FailsGroups
  <2>2. w.pc = "settle" /\ row' = row /\ att' = att /\ crashes' = crashes
    BY <1>9, FailMsgsEffect, ZenonT(60) DEF FailsGroups, w
  <2>3. /\ final \subseteq gs
        /\ \A g \in gs \ final : att[First(g, w)] < MaxAttempts
        /\ \A g \in final : g.ms \subseteq Queued => g.ms \subseteq retire
        /\ Becomes(d, "failing", w.batch, w.took, w.fails \ gs, retire, lose)
    BY <2>1, Zenon DEF FailsAs, w
  <2>4. w.retire = {}
    BY Zenon, <1>a, <2>2 DEF JobOK
  <2>5. ASSUME NEW g \in gs, m \in g.ms
        PROVE  Disturbed(m) \/ Rescheduled(m) \/ att[m] < MaxAttempts \/ m \in retire
    <3>1. g \in w.fails /\ g.ms \subseteq w.batch /\ g.ms # {}
      BY Zenon, <1>a DEF JobOK, w
    <3>2. CASE g \in final
      <4>1. CASE g.ms \subseteq Queued
        BY Zenon, <2>3, <2>5, <3>2, <4>1
      <4>2. CASE ~(g.ms \subseteq Queued)
        <5>1. PICK x \in g.ms : x \notin Queued
          BY Zenon, <4>2
        <5>2. row[x] \in {"queued", "canceled", "aborted", "lost"}
          BY ZenonT(60), <1>a, <2>2, <3>1 DEF RowsOK, Unsettled
        <5> QED BY Zenon, <1>a, <2>2, <2>5, <3>1, <5>1, <5>2, BatchDisturbed DEF w
      <4> QED BY Zenon, <4>1, <4>2
    <3>3. CASE g \notin final
      <4>1. First(g, w) \in g.ms
        BY Zenon, <3>1 DEF First
      <4>2. ~Rescheduled(m) => att[m] = att[First(g, w)]
        BY <2>5, <3>1, <4>1 DEF Alike, w
      <4> QED BY Zenon, <2>3, <3>3, <4>2
    <3> QED BY Zenon, <3>2, <3>3
  <2>6. Holds(m, w.pc, w.batch, w.took, w.fails, w.retire) =>
          \/ Holds(m, "failing", w.batch, w.took, w.fails \ gs, retire)
          \/ \E g \in gs : m \in g.ms
    BY Zenon, <2>2, <2>4 DEF Holds
  <2>7. m \in retire => Holds(m, "failing", w.batch, w.took, w.fails \ gs, retire)
    BY Zenon DEF Holds
  <2> QED BY Zenon, <1>s, <2>2, <2>3, <2>5, <2>6, <2>7
<1>10. CASE FailCommit(d)
  <2>1. /\ w.pc = "failing" /\ Becomes(d, "settle", w.batch, w.took, w.fails, {}, {})
        /\ row'[m] = IF m \in w.lose THEN "lost" ELSE IF m \in w.retire THEN "failed" ELSE row[m]
        /\ att' = att /\ crashes' = crashes
    BY <1>10, FailCommitEffect, ZenonT(60) DEF CommitsFailure, w
  <2>2. row'[m] = "queued" => row[m] = "queued" /\ m \notin w.retire
    BY Zenon, <2>1
  <2>3. Holds(m, w.pc, w.batch, w.took, w.fails, w.retire) /\ m \notin w.retire
          => Holds(m, "settle", w.batch, w.took, w.fails, {})
    BY Zenon, <2>1 DEF Holds
  <2> QED BY Zenon, <1>s, <2>1, <2>2, <2>3
<1>11. CASE Settled(d)
  <2>1. /\ w.pc = "settle" /\ OnlyWorker /\ Becomes(d, "report", {}, w.took, w.fails, w.retire, w.lose)
    BY Zenon, <1>11, SettledEffect DEF Settles, w
  <2>2. Holds(m, w.pc, w.batch, w.took, w.fails, w.retire) => Holds(m, "report", {}, w.took, w.fails, w.retire)
    BY Zenon, <2>1 DEF Holds
  <2> QED BY Zenon, <1>s, <2>1, <2>2 DEF OnlyWorker
<1>12. CASE AttemptRefused(d)
  BY Zenon, <1>5, <1>12
<1> QED
  BY ZenonT(60), <1>1, <1>2, <1>3, <1>4, <1>5, <1>6, <1>7, <1>8, <1>9, <1>10, <1>11, <1>12 DEF Deliver

\* All steps keep to the maximum of attempts.
LEMMA AttemptStep ==
  /\ TypeOK /\ JobsNamed /\ BusyInv /\ JobInv /\ TransactionInv /\ RowsInv /\ AttemptInv /\ [Next]_vars
  /\ TypeOK' /\ Alike'
  => AttemptInv'
<1> SUFFICES ASSUME TypeOK, JobsNamed, BusyInv, JobInv, TransactionInv, RowsInv, AttemptInv, [Next]_vars,
                    TypeOK', Alike'
             PROVE  AttemptInv'
  OBVIOUS
<1>a. Alike /\ Alike'
  BY Zenon DEF AttemptInv, Alike
<1>b. att \in [Msgs -> Nat] /\ crashes \in Nat /\ crashes' \in Nat /\ \A m \in Msgs : Dom[m] \in Domains
  BY QueueAssumption DEF TypeOK
<1>c. \A m \in Msgs : Waits(m)
  BY Zenon DEF AttemptInv, Waits, Queued, Handled
<1>d. \A m \in Msgs : Disturbed(m) => Disturbed(m)'
  BY Zenon, RowFinal
<1>e. \A m \in Msgs : (Rescheduled(m) <=> Rescheduled(m)')
  BY Zenon DEF Rescheduled, Base
<1>1. AttemptsBounded'
  <2> SUFFICES ASSUME NEW m \in Msgs, ~Disturbed(m)', ~Rescheduled(m) PROVE att'[m] <= MaxAttempts + crashes'
    BY Zenon, <1>e DEF AttemptsBounded
  <2>1. att[m] <= MaxAttempts + crashes
    BY Zenon, <1>d DEF AttemptInv, AttemptsBounded
  <2>2. CASE NoAttempt
    BY <1>b, <2>1, <2>2, QueueAssumption DEF NoAttempt
  <2>3. CASE AddCommit
    BY Zenon, <2>1, <2>3 DEF AddCommit
  <2>4. ASSUME NEW d \in Domains, NEW ms \in SUBSET Msgs, AttemptsOn(d, ms) PROVE att'[m] <= MaxAttempts + crashes'
    <3>1. /\ att'[m] = IF m \in ms THEN att[m] + 1 ELSE att[m]
          /\ crashes' = crashes /\ worker[d].pc = "prepare"
          /\ m \in ms => m \in Queued /\ Dom[m] = d
      BY Zenon, <2>4 DEF AttemptsOn, Attempted
    <3>2. CASE m \in ms
      <4>1. ~Handled(m)
        BY Zenon, <3>1, <3>2, NotHandled
      <4>2. att[m] < MaxAttempts + crashes
        BY Zenon, <1>c, <1>d, <3>1, <3>2, <4>1 DEF Waits, Queued
      <4> QED BY <1>b, <3>1, <4>2, QueueAssumption
    <3>3. CASE m \notin ms
      BY Zenon, <2>1, <3>1, <3>3
    <3> QED BY Zenon, <3>2, <3>3
  <2> QED BY Zenon, <1>a, <2>2, <2>3, <2>4, StepAttempts
<1>2. ASSUME NEW m \in Msgs, ~\E d \in Domains : Deliver(d) PROVE Waits(m)'
  <2>v. ASSUME att' = att, row'[m] = "queued" => row[m] = "queued", crashes' = crashes,
               Handled(m) => Handled(m)'
        PROVE  Waits(m)'
    <3>1. att[m] \in Nat /\ att'[m] = att[m] /\ crashes' >= crashes
      BY <1>b, <2>v
    <3> QED BY <1>b, <1>c, <1>d, <2>v, <3>1, WaitsSame, Zenon
  <2>w. ASSUME worker' = worker, att' = att, row'[m] = "queued" => row[m] = "queued", crashes' = crashes
        PROVE  Waits(m)'
    <3>1. Handled(m) => Handled(m)'
      BY Zenon, <2>w DEF Handled, Decided
    <3> QED BY Zenon, <2>v, <2>w, <3>1
  <2>1. CASE Quiet
    BY Zenon, <2>1, <2>w, QuietEffect DEF StaysQuiet
  <2>2. CASE Launch
    <3>1. PICK new \in SUBSET Domains :
            /\ \A d \in Domains \ new : worker'[d] = worker[d]
            /\ \A d \in new : worker[d].pc = "idle" /\ Started(d)
      BY <2>2, LaunchEffect, Zenon DEF Starts
    <3>2. OnlyWorker
      BY Zenon, <2>2, LaunchEffect DEF Starts
    <3>3. Handled(m) => Handled(m)'
      <4>1. CASE Dom[m] \in new
        BY Zenon, <1>b, <3>1, <4>1, NotHandled
      <4>2. CASE Dom[m] \notin new
        BY Zenon, <1>b, <3>1, <4>2 DEF Handled, Decided
      <4> QED BY Zenon, <4>1, <4>2
    <3> QED BY Zenon, <2>v, <3>2, <3>3 DEF OnlyWorker
  <2>3. CASE Crash
    <3>1. crashes' = crashes + 1 /\ att' = att
      BY Zenon, <2>3 DEF Crash, db
    <3>2. att[m] <= MaxAttempts + crashes \/ Disturbed(m)' \/ Rescheduled(m)'
      BY Zenon, <1>d, <1>e DEF AttemptInv, AttemptsBounded
    <3> QED BY <1>b, <3>1, <3>2, QueueAssumption DEF Waits
  <2>4. ASSUME NEW d \in Domains, ReceiveResult(d) PROVE Waits(m)'
    <3>1. /\ worker[d].pc = "report" /\ OnlyWorker
          /\ \A e \in Domains \ {d} : worker'[e] = worker[e]
      BY Zenon, <2>4, ReceiveResultEffect DEF Reports
    <3>2. Handled(m) => Handled(m)'
      <4>1. CASE Dom[m] = d
        BY Zenon, <3>1, <4>1, NotHandled
      <4>2. CASE Dom[m] # d
        BY Zenon, <1>b, <3>1, <4>2 DEF Handled, Decided
      <4> QED BY Zenon, <4>1, <4>2
    <3> QED BY Zenon, <2>v, <3>1, <3>2 DEF OnlyWorker
  <2>5. ASSUME NEW s \in Submissions, AddLink(s) \/ AddLeftover(s) PROVE Waits(m)'
    BY Zenon, <2>5, <2>w DEF AddLink, AddLeftover, db
  <2>6. CASE AddFail \/ FailDropFiles
    BY Zenon, <2>6, <2>w DEF AddFail, FailDropFiles, db
  <2>7. CASE AddCommit
    <3>1. /\ row'[m] = IF m \in adding THEN "queued" ELSE row[m]
          /\ m \in adding => row[m] = "absent"
          /\ worker' = worker /\ att' = att /\ crashes' = crashes
      BY Zenon, <2>7 DEF AddCommit, RowsInv
    <3>2. CASE m \in adding
      <4>1. att[m] = 0
        BY Zenon, <1>a, <3>1, <3>2 DEF Alike
      <4> QED BY <1>b, <3>1, <4>1, QueueAssumption DEF Waits
    <3>3. CASE m \notin adding
      BY Zenon, <2>w, <3>1, <3>3
    <3> QED BY Zenon, <3>2, <3>3
  <2>8. ASSUME NEW ms \in SUBSET Droppable, NEW fail \in BOOLEAN, FailDrop(ms, fail) PROVE Waits(m)'
    <3>1. /\ row'[m] = "queued" => row[m] = "queued"
          /\ worker' = worker /\ att' = att /\ crashes' = crashes
      BY Zenon, <2>8 DEF FailDrop, Retire, Queued
    <3> QED BY Zenon, <2>w, <3>1
  <2> QED
    BY Zenon, <1>2, <2>1, <2>2, <2>3, <2>4, <2>5, <2>6, <2>7, <2>8, NextCases
<1>3. \A m \in Msgs : Waits(m)'
  BY Zenon, <1>a, <1>c, <1>2, WaitsDeliver
<1> QED BY Zenon, <1>a, <1>1, <1>3 DEF AttemptInv, Alike, Waits, Handled, Queued

=============================================================================
