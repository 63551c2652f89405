--------------------------- MODULE QueueRowProofs ---------------------------
(***************************************************************************)
(* Proofs about Queue: what deliveries, Add and failDrop hold, where the   *)
(* rows of their messages are, and that rows and files stay together, for  *)
(* any messages, domains, submissions, commands of the operator, crashes   *)
(* and limits.                                                             *)
(***************************************************************************)
EXTENDS Queue, TLAPS

-----------------------------------------------------------------------------
(* What each step of a delivery does, one field of its job at a time. *)

\* The job of d has these values next, and the other deliveries are left alone.
Becomes(d, pc, batch, took, fails, retire, lose) ==
  /\ worker'[d].pc = pc /\ worker'[d].m0 = worker[d].m0
  /\ worker'[d].batch = batch /\ worker'[d].took = took /\ worker'[d].fails = fails
  /\ worker'[d].retire = retire /\ worker'[d].lose = lose
  /\ \A e \in Domains \ {d} : worker'[e] = worker[e]

\* Only the deliveries change.
OnlyWorker ==
  /\ row' = row /\ att' = att /\ slot' = slot /\ file' = file /\ sent' = sent /\ dsn' = dsn /\ untold' = untold
  /\ adding' = adding /\ trash' = trash /\ stopping' = stopping /\ crashes' = crashes

\* Of the messages of ms that have a file the sender is told, or cannot be, and of no others.
Tells(ms) ==
  /\ \A m \in Msgs : dsn'[m] = dsn[m] \/ (m \in ms /\ dsn'[m] = dsn[m] + 1)
  /\ \A m \in Msgs : Notified(m) \/ m \in ms \cap file => Notified(m)'

LEMMA NotifyTells == ASSUME TypeOK, NEW ms, NEW got, Notify(ms, got) PROVE Tells(ms)
<1>1. /\ got \subseteq ms
      /\ \A m \in Msgs : dsn'[m] = IF m \in got THEN dsn[m] + 1 ELSE dsn[m]
      /\ untold' = untold \cup ((ms \cap file) \ got)
  BY Zenon DEF Notify
<1>2. \A m \in Msgs : dsn[m] \in Nat
  BY Zenon DEF TypeOK
<1>3. \A m \in Msgs : /\ m \in got => dsn'[m] > 0
                      /\ dsn[m] > 0 => dsn'[m] > 0
  BY <1>1, <1>2
<1>4. \A m \in Msgs : Notified(m) \/ m \in ms \cap file => Notified(m)'
  BY Zenon, <1>1, <1>3 DEF Notified
<1> QED BY Zenon, <1>1, <1>4 DEF Tells

\* A step of a delivery replaces its job, and no other.
LEMMA StepBecomes ==
  ASSUME TypeOK, NEW d \in Domains, NEW job \in Job, job.m0 = worker[d].m0, Step(d, job)
  PROVE  /\ Becomes(d, job.pc, job.batch, job.took, job.fails, job.retire, job.lose)
         /\ worker'[d] = job
<1>1. worker'[d] = job /\ \A e \in Domains \ {d} : worker'[e] = worker[e]
  BY Zenon DEF Step, TypeOK
<1> QED BY Zenon, <1>1 DEF Becomes

\* DB.Begin of a delivery: it goes on to prepare, or reports when the process is shutting down.
Begins(d) ==
  LET w == worker[d] IN
  /\ w.pc = "begin" /\ OnlyWorker
  /\ \E pc \in {"report", "prepare"} : Becomes(d, pc, w.batch, w.took, w.fails, w.retire, w.lose)
  /\ worker'[d].known = w.known

LEMMA BeginEffect ==
  ASSUME TypeOK, NEW d \in Domains, Begin(d)
  PROVE  Begins(d)
<1> DEFINE w == worker[d]
           pc == IF stopping THEN "report" ELSE "prepare"
           job == [w EXCEPT !.pc = pc]
<1>1. w.pc = "begin" /\ Step(d, job)
  BY Zenon DEF Begin
<1>2. OnlyWorker
  BY Zenon DEF Begin, OnlyWorker, db, world, dispatcher
<1>3. w \in Job /\ pc \in {"report", "prepare"}
  BY Zenon DEF TypeOK
<1> HIDE DEF pc, w
<1>4. /\ job \in Job /\ job.pc = pc /\ job.m0 = w.m0 /\ job.batch = w.batch /\ job.took = w.took
      /\ job.fails = w.fails /\ job.retire = w.retire /\ job.lose = w.lose /\ job.known = w.known
  BY Zenon, <1>3 DEF Job
<1> HIDE DEF job
<1>5. Becomes(d, pc, w.batch, w.took, w.fails, w.retire, w.lose) /\ worker'[d] = job
  <2>1. job.m0 = worker[d].m0
    BY Zenon, <1>4 DEF w
  <2> QED BY Zenon, <1>1, <1>4, <2>1, StepBecomes
<1> QED BY <1>1, <1>2, <1>3, <1>4, <1>5, Zenon DEF Begins, w

\* prepare of a message that is gone: the delivery reports.
GoneBefore(d) ==
  LET w == worker[d] IN
  /\ w.pc = "prepare" /\ OnlyWorker
  /\ stopping \/ row[w.m0] # "queued"
  /\ Becomes(d, "report", w.batch, w.took, w.fails, w.retire, w.lose)

LEMMA PrepareGoneEffect ==
  ASSUME TypeOK, NEW d \in Domains, PrepareGone(d)
  PROVE  GoneBefore(d)
<1> DEFINE w == worker[d]
           job == [w EXCEPT !.pc = "report", !.known = FALSE]
<1>1. w.pc = "prepare" /\ Step(d, job) /\ (stopping \/ row[w.m0] # "queued")
  BY Zenon DEF PrepareGone
<1>2. OnlyWorker
  BY Zenon DEF PrepareGone, OnlyWorker, db, world, dispatcher
<1>3. w \in Job
  BY Zenon DEF TypeOK
<1> HIDE DEF w
<1>4. /\ job \in Job /\ job.pc = "report" /\ job.m0 = w.m0 /\ job.batch = w.batch /\ job.took = w.took
      /\ job.fails = w.fails /\ job.retire = w.retire /\ job.lose = w.lose
  BY Zenon, <1>3 DEF Job
<1> HIDE DEF job
<1>5. Becomes(d, "report", w.batch, w.took, w.fails, w.retire, w.lose)
  <2>1. job.m0 = worker[d].m0
    BY Zenon, <1>4 DEF w
  <2> QED BY Zenon, <1>1, <1>4, <2>1, StepBecomes
<1> QED BY <1>1, <1>2, <1>5, Zenon DEF GoneBefore, w

\* prepare that fails: for good, with a notice and a transaction to commit, or until later.
FailsEarly(d) ==
  LET w == worker[d] IN
  /\ w.pc = "prepare" /\ w.m0 \in Msgs /\ row[w.m0] = "queued" /\ DbFree
  /\ row' = row /\ sent' = sent /\ adding' = adding /\ trash' = trash
  /\ stopping' = stopping /\ crashes' = crashes
  /\ worker'[d].known = w.known
  /\ \/ /\ att' = att /\ slot' = slot /\ file' = file \ {w.m0}
        /\ Tells({w.m0})
        /\ Becomes(d, "failing", w.batch, w.took, w.fails, {w.m0}, w.lose)
     \/ /\ Attempted({w.m0}) /\ att[w.m0] + 1 < MaxAttempts
        /\ dsn' = dsn /\ untold' = untold /\ file' = file
        /\ Becomes(d, "report", w.batch, w.took, w.fails, w.retire, w.lose)

LEMMA PrepareFailEffect ==
  ASSUME TypeOK, JobsNamed, NEW d \in Domains, NEW perm \in BOOLEAN, PrepareFail(d, perm)
  PROVE  FailsEarly(d)
<1> DEFINE w == worker[d]
           up == GivesUp(att[w.m0] + 1, perm)
           fail == [w EXCEPT !.pc = "failing", !.retire = {w.m0}]
           wait == [w EXCEPT !.pc = "report"]
<1>1. /\ w.pc = "prepare" /\ row[w.m0] = "queued" /\ DbFree
      /\ row' = row /\ sent' = sent /\ adding' = adding /\ trash' = trash
      /\ stopping' = stopping /\ crashes' = crashes
  BY Zenon DEF PrepareFail
<1>2. w \in Job /\ w.m0 \in Msgs
  BY Zenon, <1>1 DEF TypeOK, JobsNamed
<1>3. up => /\ att' = att /\ slot' = slot /\ file' = file \ {w.m0}
            /\ Tells({w.m0})
            /\ Step(d, fail)
  BY Zenon, NotifyTells DEF PrepareFail
<1>4. ~up => Attempted({w.m0}) /\ dsn' = dsn /\ untold' = untold /\ file' = file /\ Step(d, wait)
  BY Zenon DEF PrepareFail
<1>5. ~up => att[w.m0] + 1 < MaxAttempts
  BY <1>2, QueueAssumption DEF GivesUp, TypeOK
<1>m. worker[d].m0 = w.m0
  OBVIOUS
<1> HIDE DEF w, up
<1>6. /\ fail \in Job /\ fail.pc = "failing" /\ fail.m0 = w.m0 /\ fail.batch = w.batch /\ fail.took = w.took
      /\ fail.fails = w.fails /\ fail.retire = {w.m0} /\ fail.lose = w.lose /\ fail.known = w.known
  BY Zenon, <1>2 DEF Job
<1>7. /\ wait \in Job /\ wait.pc = "report" /\ wait.m0 = w.m0 /\ wait.batch = w.batch /\ wait.took = w.took
      /\ wait.fails = w.fails /\ wait.retire = w.retire /\ wait.lose = w.lose /\ wait.known = w.known
  BY Zenon, <1>2 DEF Job
<1> HIDE DEF fail, wait
<1>8. up => Becomes(d, "failing", w.batch, w.took, w.fails, {w.m0}, w.lose) /\ worker'[d] = fail
  <2> SUFFICES ASSUME up PROVE Becomes(d, "failing", w.batch, w.took, w.fails, {w.m0}, w.lose) /\ worker'[d] = fail
    OBVIOUS
  <2>1. Step(d, fail) /\ fail.m0 = worker[d].m0
    BY Zenon, <1>3, <1>6, <1>m
  <2>2. /\ Becomes(d, fail.pc, fail.batch, fail.took, fail.fails, fail.retire, fail.lose)
        /\ worker'[d] = fail
    BY Zenon, <2>1, <1>6, StepBecomes
  <2> QED BY <2>2, <1>6, Zenon
<1>9. ~up => Becomes(d, "report", w.batch, w.took, w.fails, w.retire, w.lose) /\ worker'[d] = wait
  BY Zenon, <1>4, <1>7, <1>m, StepBecomes
<1>10. worker'[d].known = w.known
  BY <1>6, <1>7, <1>8, <1>9, Zenon
<1> QED BY <1>1, <1>2, <1>3, <1>4, <1>5, <1>8, <1>9, <1>10, Zenon DEF FailsEarly, w

\* prepare and gather: an attempt is registered for the batch.
Prepares(d, more) ==
  LET w == worker[d]
      batch == {w.m0} \cup more IN
  /\ w.pc = "prepare" /\ w.m0 \in Msgs /\ row[w.m0] = "queued"
  /\ more \subseteq Gatherable(w.m0)
  /\ row' = row /\ file' = file /\ sent' = sent /\ dsn' = dsn /\ untold' = untold
  /\ adding' = adding /\ trash' = trash /\ stopping' = stopping /\ crashes' = crashes
  /\ Attempted(batch)
  /\ Becomes(d, "attempt", batch, w.took, w.fails, w.retire, w.lose)
  /\ worker'[d].known = w.known

LEMMA PrepareBatchEffect ==
  ASSUME TypeOK, JobsNamed, NEW d \in Domains, NEW more \in SUBSET Msgs, NEW direct \in BOOLEAN,
         PrepareBatch(d, more, direct)
  PROVE  Prepares(d, more)
<1> DEFINE w == worker[d]
           batch == {w.m0} \cup more
           job == [w EXCEPT !.pc = "attempt", !.batch = batch, !.direct = direct]
<1>1. /\ w.pc = "prepare" /\ row[w.m0] = "queued" /\ Gathered(w.m0, more)
      /\ Attempted(batch) /\ Step(d, job)
  BY Zenon DEF PrepareBatch
<1>2. /\ row' = row /\ file' = file /\ sent' = sent /\ dsn' = dsn /\ untold' = untold
      /\ adding' = adding /\ trash' = trash /\ stopping' = stopping /\ crashes' = crashes
  BY Zenon DEF PrepareBatch, world, dispatcher
<1>3. w \in Job /\ w.m0 \in Msgs
  BY Zenon, <1>1 DEF TypeOK, JobsNamed
<1>4. batch \in SUBSET Msgs
  BY Zenon, <1>3
<1>m. worker[d].m0 = w.m0
  OBVIOUS
<1>g. more \subseteq Gatherable(w.m0)
  BY Zenon, <1>1 DEF Gathered
<1> HIDE DEF w, batch
<1>5. /\ job \in Job /\ job.pc = "attempt" /\ job.m0 = w.m0 /\ job.batch = batch /\ job.took = w.took
      /\ job.fails = w.fails /\ job.retire = w.retire /\ job.lose = w.lose /\ job.known = w.known
  BY Zenon, <1>3, <1>4 DEF Job
<1> HIDE DEF job
<1>6. Becomes(d, "attempt", batch, w.took, w.fails, w.retire, w.lose) /\ worker'[d] = job
  BY Zenon, <1>1, <1>5, <1>m, StepBecomes
<1> QED BY <1>1, <1>2, <1>3, <1>5, <1>6, <1>g, Zenon DEF Prepares, w, batch

\* AttemptFails and AttemptRefused.
AllFail(d, perm) ==
  LET w == worker[d] IN
  /\ w.pc = "attempt" /\ OnlyWorker
  /\ Becomes(d, "settle", w.batch, w.took, {[ms |-> w.batch, perm |-> perm]}, w.retire, w.lose)
  /\ worker'[d].known = w.known

LEMMA AttemptFailsEffect ==
  ASSUME TypeOK, NEW d \in Domains, NEW perm \in BOOLEAN,
         AttemptFails(d, perm) \/ (AttemptRefused(d) /\ ~perm)
  PROVE  AllFail(d, perm)
<1> DEFINE w == worker[d]
           fails == {[ms |-> w.batch, perm |-> perm]}
           job == [w EXCEPT !.pc = "settle", !.fails = fails]
<1>1. w.pc = "attempt" /\ Step(d, job)
  <2>1. CASE AttemptFails(d, perm)
    BY <2>1, Zenon DEF AttemptFails
  <2>2. CASE AttemptRefused(d) /\ ~perm
    <3>1. perm = FALSE
      BY Zenon, <2>2
    <3> QED BY <2>2, <3>1, Zenon DEF AttemptRefused
  <2> QED BY Zenon, <2>1, <2>2
<1>2. OnlyWorker
  BY Zenon DEF AttemptFails, AttemptRefused, OnlyWorker, db, world, dispatcher
<1>3. w \in Job /\ fails \in SUBSET Group
  BY DEF TypeOK, Job, Group
<1>m. worker[d].m0 = w.m0
  OBVIOUS
<1> HIDE DEF w, fails
<1>4. /\ job \in Job /\ job.pc = "settle" /\ job.m0 = w.m0 /\ job.batch = w.batch /\ job.took = w.took
      /\ job.fails = fails /\ job.retire = w.retire /\ job.lose = w.lose /\ job.known = w.known
  BY Zenon, <1>3 DEF Job
<1> HIDE DEF job
<1>5. Becomes(d, "settle", w.batch, w.took, fails, w.retire, w.lose) /\ worker'[d] = job
  BY Zenon, <1>1, <1>4, <1>m, StepBecomes
<1> QED BY <1>1, <1>2, <1>4, <1>5, Zenon DEF AllFail, w, fails

\* An answer per recipient: each is taken or fails by itself.
Splits(d) ==
  LET w == worker[d] IN
  /\ w.pc = "attempt"
  /\ row' = row /\ att' = att /\ slot' = slot /\ file' = file /\ dsn' = dsn /\ untold' = untold
  /\ adding' = adding /\ trash' = trash /\ stopping' = stopping /\ crashes' = crashes
  /\ worker'[d].known = w.known
  /\ \E took, fails :
       /\ took \subseteq w.batch
       /\ \A m \in w.batch \ took : \E g \in fails : g.ms = {m}
       /\ \A g \in fails : \E m \in w.batch \ took : g.ms = {m}
       /\ \A g, h \in fails : g # h => g.ms \cap h.ms = {}
       /\ sent' = [m \in Msgs |-> IF m \in took THEN sent[m] + 1 ELSE sent[m]]
       /\ Becomes(d, "settle", w.batch, took, fails, w.retire, w.lose)

LEMMA AttemptSplitEffect ==
  ASSUME TypeOK, NEW d \in Domains, NEW no \in SUBSET worker[d].batch, NEW later \in SUBSET worker[d].batch,
         NEW kept \in SUBSET worker[d].batch, AttemptSplit(d, no, later, kept)
  PROVE  Splits(d)
<1> DEFINE w == worker[d]
           took == w.batch \ (no \cup later)
           fails == {[ms |-> {m}, perm |-> m \in kept] : m \in no \cup later}
           job == [w EXCEPT !.pc = "settle", !.took = took, !.fails = fails]
<1>1. /\ w.pc = "attempt" /\ Step(d, job)
      /\ sent' = [m \in Msgs |-> IF m \in took THEN sent[m] + 1 ELSE sent[m]]
  BY Zenon DEF AttemptSplit
<1>2. /\ row' = row /\ att' = att /\ slot' = slot /\ file' = file /\ dsn' = dsn /\ untold' = untold
      /\ adding' = adding /\ trash' = trash /\ stopping' = stopping /\ crashes' = crashes
  BY Zenon DEF AttemptSplit, db, dispatcher
<1>3. w \in Job /\ took \in SUBSET Msgs /\ no \cup later \in SUBSET Msgs
  BY Zenon DEF TypeOK, Job
<1>4. fails \in SUBSET Group
  <2>1. ASSUME NEW m \in no \cup later PROVE [ms |-> {m}, perm |-> m \in kept] \in Group
    <3>1. (m \in kept) \in BOOLEAN /\ {m} \in SUBSET Msgs
      BY <1>3
    <3> QED BY <3>1, Zenon DEF Group
  <2> QED BY Zenon, <2>1
<1>f. /\ took \subseteq w.batch
      /\ \A m \in w.batch \ took : \E g \in fails : g.ms = {m}
      /\ \A g \in fails : \E m \in w.batch \ took : g.ms = {m}
      /\ \A g, h \in fails : g # h => g.ms \cap h.ms = {}
  <2>1. took \subseteq w.batch /\ w.batch \ took = no \cup later
    OBVIOUS
  <2>2. \A m \in no \cup later : \E g \in fails : g.ms = {m}
    <3>1. ASSUME NEW m \in no \cup later PROVE \E g \in fails : g.ms = {m}
      <4> DEFINE g == [ms |-> {m}, perm |-> m \in kept]
      <4>1. g \in fails
        BY Zenon
      <4>2. g.ms = {m}
        OBVIOUS
      <4> HIDE DEF g, fails
      <4> QED BY Zenon, <4>1, <4>2
    <3> QED BY Zenon, <3>1
  <2>3. \A g \in fails : \E m \in no \cup later : g = [ms |-> {m}, perm |-> m \in kept]
    OBVIOUS
  <2> HIDE DEF fails, took
  <2>4. \A g \in fails : \E m \in no \cup later : g.ms = {m}
    BY <2>3
  <2>5. ASSUME NEW g \in fails, NEW h \in fails, g # h PROVE g.ms \cap h.ms = {}
    <3>1. PICK m \in no \cup later : g = [ms |-> {m}, perm |-> m \in kept]
      BY Zenon, <2>3
    <3>2. PICK x \in no \cup later : h = [ms |-> {x}, perm |-> x \in kept]
      BY Zenon, <2>3
    <3>3. m # x
      BY <3>1, <3>2, <2>5, Zenon
    <3> QED BY Zenon, <3>1, <3>2, <3>3
  <2> QED BY Zenon, <2>1, <2>2, <2>4, <2>5
<1>m. worker[d].m0 = w.m0
  OBVIOUS
<1> HIDE DEF w, took, fails
<1>5. /\ job \in Job /\ job.pc = "settle" /\ job.m0 = w.m0 /\ job.batch = w.batch /\ job.took = took
      /\ job.fails = fails /\ job.retire = w.retire /\ job.lose = w.lose /\ job.known = w.known
  BY Zenon, <1>3, <1>4 DEF Job
<1> HIDE DEF job
<1>6. Becomes(d, "settle", w.batch, took, fails, w.retire, w.lose) /\ worker'[d] = job
  BY Zenon, <1>1, <1>5, <1>m, StepBecomes
<1>7. worker'[d].known = w.known
  BY <1>5, <1>6, Zenon
<1> QED BY <1>1, <1>2, <1>6, <1>7, <1>f, Zenon DEF Splits, w

\* retireMsgs for the delivered: all of the rows are retired, or none.
Retires(d) ==
  LET w == worker[d] IN
  /\ w.pc = "settle" /\ DbFree
  /\ att' = att /\ slot' = slot /\ file' = file /\ sent' = sent /\ dsn' = dsn /\ untold' = untold
  /\ adding' = adding /\ trash' = trash /\ stopping' = stopping /\ crashes' = crashes
  /\ worker'[d].known = w.known
  /\ \/ /\ w.took \subseteq Queued
        /\ row' = [m \in Msgs |-> IF m \in w.took THEN "delivered" ELSE row[m]]
        /\ Becomes(d, "unlink", w.batch, {}, w.fails, w.took, w.lose)
     \/ /\ ~(w.took \subseteq Queued)
        /\ row' = row
        /\ Becomes(d, "settle", w.batch, {}, w.fails, {}, w.lose)

LEMMA RetireDeliveredEffect ==
  ASSUME TypeOK, NEW d \in Domains, RetireDelivered(d)
  PROVE  Retires(d)
<1> DEFINE w == worker[d]
           ok == w.took \subseteq Queued
           pc == IF ok THEN "unlink" ELSE "settle"
           retire == IF ok THEN w.took ELSE {}
           job == [w EXCEPT !.took = {}, !.pc = pc, !.retire = retire]
<1>1. /\ w.pc = "settle" /\ DbFree /\ Step(d, job)
      /\ row' = IF ok THEN Retire(w.took, "delivered") ELSE row
  BY Zenon DEF RetireDelivered
<1>2. /\ att' = att /\ slot' = slot /\ file' = file /\ sent' = sent /\ dsn' = dsn /\ untold' = untold
      /\ adding' = adding /\ trash' = trash /\ stopping' = stopping /\ crashes' = crashes
  BY Zenon DEF RetireDelivered, world
<1>3. w \in Job /\ retire \in SUBSET Msgs /\ pc \in {"unlink", "settle"}
  BY Zenon DEF TypeOK, Job
<1>m. worker[d].m0 = w.m0
  OBVIOUS
<1>p. (ok => pc = "unlink" /\ retire = w.took) /\ (~ok => pc = "settle" /\ retire = {})
  OBVIOUS
<1> HIDE DEF w, ok, pc, retire
<1>4. /\ job \in Job /\ job.pc = pc /\ job.m0 = w.m0 /\ job.batch = w.batch /\ job.took = {}
      /\ job.fails = w.fails /\ job.retire = retire /\ job.lose = w.lose /\ job.known = w.known
  BY Zenon, <1>3 DEF Job
<1> HIDE DEF job
<1>5. Becomes(d, pc, w.batch, {}, w.fails, retire, w.lose) /\ worker'[d] = job
  <2>1. job.m0 = worker[d].m0
    BY Zenon, <1>4, <1>m
  <2>2. Becomes(d, job.pc, job.batch, job.took, job.fails, job.retire, job.lose) /\ worker'[d] = job
    BY Zenon, <1>1, <1>4, <2>1, StepBecomes
  <2> QED BY <2>2, <1>4, Zenon
<1>6. CASE ok
  <2>1. row' = [m \in Msgs |-> IF m \in w.took THEN "delivered" ELSE row[m]]
    BY <1>1, <1>6, Zenon DEF Retire
  <2>2. Becomes(d, "unlink", w.batch, {}, w.fails, w.took, w.lose)
    BY <1>5, <1>6, <1>p, Zenon
  <2> QED BY <1>1, <1>2, <1>4, <1>5, <1>6, <2>1, <2>2, Zenon DEF Retires, w, ok
<1>7. CASE ~ok
  <2>1. row' = row /\ Becomes(d, "settle", w.batch, {}, w.fails, {}, w.lose)
    BY <1>1, <1>5, <1>7, <1>p, Zenon
  <2> QED BY <1>1, <1>2, <1>4, <1>5, <1>7, <2>1, Zenon DEF Retires, w, ok
<1> QED BY Zenon, <1>6, <1>7

\* removeMsgsFS after a delivery.
Unlinks(d) ==
  LET w == worker[d] IN
  /\ w.pc = "unlink"
  /\ row' = row /\ att' = att /\ slot' = slot /\ sent' = sent /\ dsn' = dsn /\ untold' = untold
  /\ adding' = adding /\ trash' = trash /\ stopping' = stopping /\ crashes' = crashes
  /\ file' = file \ w.retire
  /\ Becomes(d, "settle", w.batch, w.took, w.fails, {}, w.lose)
  /\ worker'[d].known = w.known

LEMMA UnlinkEffect ==
  ASSUME TypeOK, NEW d \in Domains, Unlink(d)
  PROVE  Unlinks(d)
<1> DEFINE w == worker[d]
           job == [w EXCEPT !.pc = "settle", !.retire = {}]
<1>1. w.pc = "unlink" /\ Step(d, job) /\ file' = file \ w.retire
  BY Zenon DEF Unlink
<1>2. /\ row' = row /\ att' = att /\ slot' = slot /\ sent' = sent /\ dsn' = dsn /\ untold' = untold
      /\ adding' = adding /\ trash' = trash /\ stopping' = stopping /\ crashes' = crashes
  BY Zenon DEF Unlink, db, world
<1>3. w \in Job
  BY Zenon DEF TypeOK
<1>m. worker[d].m0 = w.m0
  OBVIOUS
<1> HIDE DEF w
<1>4. /\ job \in Job /\ job.pc = "settle" /\ job.m0 = w.m0 /\ job.batch = w.batch /\ job.took = w.took
      /\ job.fails = w.fails /\ job.retire = {} /\ job.lose = w.lose /\ job.known = w.known
  BY Zenon, <1>3 DEF Job
<1> HIDE DEF job
<1>5. Becomes(d, "settle", w.batch, w.took, w.fails, {}, w.lose) /\ worker'[d] = job
  BY Zenon, <1>1, <1>4, <1>m, StepBecomes
<1> QED BY <1>1, <1>2, <1>4, <1>5, Zenon DEF Unlinks, w

\* The commit of failMsgsTx.
CommitsFailure(d) ==
  LET w == worker[d] IN
  /\ w.pc = "failing"
  /\ att' = att /\ slot' = slot /\ file' = file /\ sent' = sent /\ dsn' = dsn /\ untold' = untold
  /\ adding' = adding /\ trash' = trash /\ stopping' = stopping /\ crashes' = crashes
  /\ \A m \in Msgs : row'[m] = IF m \in w.lose THEN "lost" ELSE IF m \in w.retire THEN "failed" ELSE row[m]
  /\ Becomes(d, "settle", w.batch, w.took, w.fails, {}, {})
  /\ worker'[d].known = w.known

LEMMA FailCommitEffect ==
  ASSUME TypeOK, NEW d \in Domains, FailCommit(d)
  PROVE  CommitsFailure(d)
<1> DEFINE w == worker[d]
           job == [w EXCEPT !.pc = "settle", !.retire = {}, !.lose = {}]
<1>1. /\ w.pc = "failing" /\ Step(d, job)
      /\ row' = [m \in Msgs |-> IF m \in w.lose THEN "lost" ELSE Retire(w.retire, "failed")[m]]
  BY Zenon DEF FailCommit
<1>2. /\ att' = att /\ slot' = slot /\ file' = file /\ sent' = sent /\ dsn' = dsn /\ untold' = untold
      /\ adding' = adding /\ trash' = trash /\ stopping' = stopping /\ crashes' = crashes
  BY Zenon DEF FailCommit, world
<1>3. w \in Job
  BY Zenon DEF TypeOK
<1>m. worker[d].m0 = w.m0
  OBVIOUS
<1> HIDE DEF w
<1>r. \A m \in Msgs : row'[m] = IF m \in w.lose THEN "lost" ELSE IF m \in w.retire THEN "failed" ELSE row[m]
  BY Zenon, <1>1 DEF Retire
<1>4. /\ job \in Job /\ job.pc = "settle" /\ job.m0 = w.m0 /\ job.batch = w.batch /\ job.took = w.took
      /\ job.fails = w.fails /\ job.retire = {} /\ job.lose = {} /\ job.known = w.known
  BY Zenon, <1>3 DEF Job
<1> HIDE DEF job
<1>5. Becomes(d, "settle", w.batch, w.took, w.fails, {}, {}) /\ worker'[d] = job
  BY Zenon, <1>1, <1>4, <1>m, StepBecomes
<1> QED BY <1>1, <1>2, <1>4, <1>5, <1>r, Zenon DEF CommitsFailure, w

\* The end of deliver.
Settles(d) ==
  LET w == worker[d] IN
  /\ w.pc = "settle" /\ w.took = {} /\ w.fails = {} /\ OnlyWorker
  /\ Becomes(d, "report", {}, w.took, w.fails, w.retire, w.lose)
  /\ worker'[d].known = w.known

LEMMA SettledEffect ==
  ASSUME TypeOK, NEW d \in Domains, Settled(d)
  PROVE  Settles(d)
<1> DEFINE w == worker[d]
           job == [w EXCEPT !.pc = "report", !.batch = {}]
<1>1. w.pc = "settle" /\ w.took = {} /\ w.fails = {} /\ Step(d, job)
  BY Zenon DEF Settled
<1>2. OnlyWorker
  BY Zenon DEF Settled, OnlyWorker, db, world
<1>3. w \in Job
  BY Zenon DEF TypeOK
<1>m. worker[d].m0 = w.m0
  OBVIOUS
<1> HIDE DEF w
<1>4. /\ job \in Job /\ job.pc = "report" /\ job.m0 = w.m0 /\ job.batch = {} /\ job.took = w.took
      /\ job.fails = w.fails /\ job.retire = w.retire /\ job.lose = w.lose /\ job.known = w.known
  BY Zenon, <1>3 DEF Job
<1> HIDE DEF job
<1>5. Becomes(d, "report", {}, w.took, w.fails, w.retire, w.lose) /\ worker'[d] = job
  BY Zenon, <1>1, <1>4, <1>m, StepBecomes
<1> QED BY <1>1, <1>2, <1>4, <1>5, Zenon DEF Settles, w

\* The groups of final fail for good; those of them with a row that is gone are not retired.
FailsAs(d, gs, final, retire, lose) ==
  LET w == worker[d] IN
  /\ final \subseteq gs
  /\ \A g \in gs \ final : att[First(g, w)] < MaxAttempts
  /\ \A m \in retire : \E g \in final : m \in g.ms /\ g.ms \subseteq Queued
  /\ \A g \in final : g.ms \subseteq Queued => g.ms \subseteq retire
  /\ \A m \in lose : row[m] = "queued" /\ \E g \in final : m \in g.ms /\ ~(g.ms \subseteq Queued)
  /\ file' = file \ retire
  /\ Tells(UNION {g.ms : g \in final})
  /\ Becomes(d, "failing", w.batch, w.took, w.fails \ gs, retire, lose)

\* failMsgsTx up to its commit, in the terms of FailsAs.
FailsGroups(d, gs) ==
  /\ worker[d].pc = "settle" /\ DbFree
  /\ row' = row /\ att' = att /\ slot' = slot /\ sent' = sent
  /\ adding' = adding /\ trash' = trash /\ stopping' = stopping /\ crashes' = crashes
  /\ worker'[d].known = worker[d].known
  /\ \E final, retire, lose : FailsAs(d, gs, final, retire, lose)

LEMMA FailMsgsEffect ==
  ASSUME TypeOK, JobInv, NEW d \in Domains, NEW gs \in SUBSET worker[d].fails, FailMsgs(d, gs)
  PROVE  FailsGroups(d, gs)
<1> DEFINE w == worker[d]
           final == {g \in gs : GivesUp(att[First(g, w)], g.perm)}
           broken == {g \in final : ~(g.ms \subseteq Queued)}
           retire == UNION {g.ms : g \in final \ broken}
           loses == IF broken = {} THEN {{}} ELSE UNION {Deleted(g, w) : g \in broken}
<1>1. /\ w.pc = "settle" /\ DbFree
      /\ \E got : Notify(Told(final, w), got)
      /\ file' = file \ retire
      /\ \E lose \in loses :
           Step(d, [w EXCEPT !.pc = "failing", !.fails = @ \ gs, !.retire = retire, !.lose = lose])
  BY Zenon DEF FailMsgs
<1>2. /\ row' = row /\ att' = att /\ slot' = slot /\ sent' = sent
      /\ adding' = adding /\ trash' = trash /\ stopping' = stopping /\ crashes' = crashes
  BY Zenon DEF FailMsgs, db
<1>3. w \in Job
  BY Zenon DEF TypeOK
<1>4. \A g \in w.fails : g.ms \subseteq Msgs /\ g.ms # {} /\ g.perm \in BOOLEAN
  BY <1>3 DEF Job, Group, JobInv, JobOK
<1>5. \A g \in gs \ final : att[First(g, w)] < MaxAttempts
  <2>1. ASSUME NEW g \in gs \ final PROVE att[First(g, w)] < MaxAttempts
    <3>1. First(g, w) \in g.ms
      BY Zenon, <1>4 DEF First
    <3>2. att[First(g, w)] \in Nat
      BY Zenon, <3>1, <1>4 DEF TypeOK
    <3>3. ~GivesUp(att[First(g, w)], g.perm)
      BY Zenon, <2>1
    <3> QED BY <3>2, <3>3, QueueAssumption DEF GivesUp
  <2> QED BY Zenon, <2>1
<1>6. final \subseteq gs /\ retire \in SUBSET Msgs
  BY Zenon, <1>4
<1>7. \A m \in retire : \E g \in final : m \in g.ms /\ g.ms \subseteq Queued
  OBVIOUS
<1>8. \A g \in final : g.ms \subseteq Queued => g.ms \subseteq retire
  OBVIOUS
<1>9. \A ls \in loses : /\ ls \in SUBSET Msgs
                        /\ \A m \in ls : row[m] = "queued" /\ \E g \in final : m \in g.ms /\ ~(g.ms \subseteq Queued)
  <2>1. ASSUME NEW g \in broken, NEW ls \in Deleted(g, w)
        PROVE  /\ ls \in SUBSET Msgs
               /\ \A m \in ls : row[m] = "queued" /\ m \in g.ms
    BY Zenon, <2>1, <1>4 DEF Deleted, Queued
  <2>2. CASE broken = {}
    BY Zenon, <2>2
  <2>3. CASE broken # {}
    <3>1. ASSUME NEW ls \in loses
          PROVE  /\ ls \in SUBSET Msgs
                 /\ \A m \in ls : row[m] = "queued" /\ \E g \in final : m \in g.ms /\ ~(g.ms \subseteq Queued)
      <4>1. PICK g \in broken : ls \in Deleted(g, w)
        BY Zenon, <2>3, <3>1
      <4>2. /\ ls \in SUBSET Msgs
            /\ \A m \in ls : row[m] = "queued" /\ m \in g.ms
        BY Zenon, <4>1, <2>1
      <4>3. g \in final /\ ~(g.ms \subseteq Queued)
        BY Zenon, <4>1
      <4> QED BY Zenon, <4>2, <4>3
    <3> QED BY Zenon, <3>1
  <2> QED BY Zenon, <2>2, <2>3
<1>10. Tells(UNION {g.ms : g \in final})
  <2> HIDE DEF final
  <2> QED BY Zenon, <1>1, NotifyTells DEF Told
<1>m. worker[d].m0 = w.m0
  OBVIOUS
<1>11. PICK lose \in loses :
         Step(d, [w EXCEPT !.pc = "failing", !.fails = @ \ gs, !.retire = retire, !.lose = lose])
  BY <1>1, Zenon
<1>12. /\ lose \in SUBSET Msgs
       /\ \A m \in lose : row[m] = "queued" /\ \E g \in final : m \in g.ms /\ ~(g.ms \subseteq Queued)
  BY <1>9, <1>11, Zenon
<1> DEFINE job == [w EXCEPT !.pc = "failing", !.fails = @ \ gs, !.retire = retire, !.lose = lose]
<1> HIDE DEF w, final, retire, loses, broken
<1>14. /\ job \in Job /\ job.pc = "failing" /\ job.m0 = w.m0 /\ job.batch = w.batch /\ job.took = w.took
       /\ job.fails = w.fails \ gs /\ job.retire = retire /\ job.lose = lose /\ job.known = w.known
  BY Zenon, <1>3, <1>6, <1>12 DEF Job
<1>15. Step(d, job)
  BY <1>11, Zenon
<1> HIDE DEF job
<1>16. Becomes(d, "failing", w.batch, w.took, w.fails \ gs, retire, lose) /\ worker'[d] = job
  <2>1. job.m0 = worker[d].m0
    BY Zenon, <1>14, <1>m
  <2>2. Becomes(d, job.pc, job.batch, job.took, job.fails, job.retire, job.lose) /\ worker'[d] = job
    BY Zenon, <1>15, <1>14, <2>1, StepBecomes
  <2> QED BY <2>2, <1>14, Zenon
<1>17. FailsAs(d, gs, final, retire, lose)
  BY <1>1, <1>5, <1>6, <1>7, <1>8, <1>10, <1>12, <1>16, Zenon DEF FailsAs, w
<1>18. worker'[d].known = worker[d].known
  BY <1>14, <1>16, Zenon DEF w
<1> QED BY <1>1, <1>2, <1>17, <1>18, Zenon DEF FailsGroups, w

\* The result of a delivery is received, and its job is over.
Reports(d) ==
  /\ worker[d].pc = "report" /\ worker'[d] = Idle /\ OnlyWorker
  /\ \A e \in Domains \ {d} : worker'[e] = worker[e]
  /\ busy' = busy \ Reported(d)

LEMMA ReceiveResultEffect ==
  ASSUME TypeOK, NEW d \in Domains, ReceiveResult(d)
  PROVE  Reports(d)
BY Zenon DEF Reports, ReceiveResult, OnlyWorker, TypeOK, db, world

\* A delivery for d is started.
Started(d) ==
  /\ worker'[d].pc = "begin" /\ worker'[d].known
  /\ row[worker'[d].m0] = "queued" /\ worker'[d].m0 \in Msgs /\ Dom[worker'[d].m0] = d
  /\ worker'[d].batch = {} /\ worker'[d].took = {} /\ worker'[d].fails = {}
  /\ worker'[d].retire = {} /\ worker'[d].lose = {}

\* A domain that launchWork starts had no delivery.
Starts ==
  /\ OnlyWorker
  /\ \E new \in SUBSET Domains :
       /\ busy' = busy \cup new
       /\ \A d \in Domains \ new : worker'[d] = worker[d]
       /\ \A d \in new : worker[d].pc = "idle" /\ Started(d)

LEMMA LaunchEffect ==
  ASSUME TypeOK, BusyInv, Launch
  PROVE  Starts
<1> DEFINE work == {m \in Candidates : due[m] /\ ~stopping}
<1>1. OnlyWorker
  BY Zenon DEF Launch, OnlyWorker, db, world
<1>2. PICK ms \in SUBSET work :
        /\ busy' = busy \cup {Dom[m] : m \in ms}
        /\ worker' = [d \in Domains |->
             IF \E m \in ms : Dom[m] = d
             THEN [Idle EXCEPT !.pc = "begin", !.known = TRUE, !.m0 = CHOOSE m \in ms : Dom[m] = d]
             ELSE worker[d]]
  <2>1. PICK first \in SUBSET work :
        \E ms \in SUBSET first :
          /\ busy' = busy \cup {Dom[m] : m \in ms}
          /\ worker' = [d \in Domains |->
               IF \E m \in ms : Dom[m] = d
               THEN [Idle EXCEPT !.pc = "begin", !.known = TRUE, !.m0 = CHOOSE m \in ms : Dom[m] = d]
               ELSE worker[d]]
    BY ZenonT(60) DEF Launch
  <2>2. PICK ms \in SUBSET first :
          /\ busy' = busy \cup {Dom[m] : m \in ms}
          /\ worker' = [d \in Domains |->
               IF \E m \in ms : Dom[m] = d
               THEN [Idle EXCEPT !.pc = "begin", !.known = TRUE, !.m0 = CHOOSE m \in ms : Dom[m] = d]
               ELSE worker[d]]
    BY <2>1, Zenon
  <2>3. ms \in SUBSET work
    OBVIOUS
  <2> QED BY <2>2, <2>3, Zenon
<1> DEFINE new == {Dom[m] : m \in ms}
<1>3. ms \in SUBSET Queued /\ \A m \in ms : Dom[m] \notin busy
  BY Zenon DEF Candidates
<1>4. new \in SUBSET Domains
  BY <1>3, QueueAssumption DEF Queued
<1>5. ASSUME NEW d \in Domains \ new PROVE worker'[d] = worker[d]
  <2>1. ~\E m \in ms : Dom[m] = d
    BY Zenon, <1>5
  <2> QED BY <1>2, <2>1, Zenon
<1>6. ASSUME NEW d \in new
      PROVE  worker[d].pc = "idle" /\ Started(d)
  <2>1. \E m \in ms : Dom[m] = d
    OBVIOUS
  <2>2. d \in Domains /\ d \notin busy
    BY Zenon, <1>3, <1>4, <2>1
  <2>3. worker[d].pc = "idle"
    BY Zenon, <2>2 DEF BusyInv, OneDeliveryPerDomain
  <2> DEFINE m0 == CHOOSE m \in ms : Dom[m] = d
  <2>4. m0 \in ms /\ Dom[m0] = d
    BY Zenon, <2>1
  <2>5. worker'[d] = [Idle EXCEPT !.pc = "begin", !.known = TRUE, !.m0 = m0]
    BY <1>2, <2>1, <2>2, Zenon
  <2> HIDE DEF m0
  <2>6. m0 \in Queued
    BY Zenon, <1>3, <2>4
  <2>7. Started(d)
    BY <2>4, <2>5, <2>6 DEF Started, Idle, Queued
  <2> QED BY Zenon, <2>3, <2>7
<1> QED BY <1>1, <1>2, <1>4, <1>5, <1>6, Zenon DEF Starts

-----------------------------------------------------------------------------
(* Submissions. *)

\* Messages of one submission have the same messages with them.
LEMMA SameBase ==
  ASSUME NEW m \in Msgs, NEW x \in Base(m) PROVE Base(x) = Base(m) /\ m \in Base(x)
BY QueueAssumption DEF Base

\* A message that is submitted belongs to its submission.
LEMMA OwnBase ==
  ASSUME NEW m \in UNION Submissions PROVE m \in Base(m)
BY Zenon, QueueAssumption DEF Base

\* When the operator drops a message of a submission, all of it is disturbed.
LEMMA DisturbedTogether ==
  ASSUME NEW m0 \in Msgs, NEW m \in Base(m0), NEW x \in Base(m0), Disturbed(x) PROVE Disturbed(m)
<1>1. m \in Msgs /\ x \in Msgs
  BY Zenon DEF Base
<1>2. Base(x) = Base(m0) /\ Base(m) = Base(m0)
  BY Zenon, <1>1, SameBase
<1> QED BY Zenon, <1>2 DEF Disturbed

-----------------------------------------------------------------------------
(* What a delivery holds. *)

\* A delivery that keeps to its stages does not disturb the others.
LEMMA JobsKept ==
  ASSUME JobInv, NEW d \in Domains, \A e \in Domains \ {d} : worker'[e] = worker[e],
         JobOK(d, worker'[d])
  PROVE  JobInv'
<1>1. ASSUME NEW e \in Domains PROVE JobOK(e, worker'[e])
  <2>1. CASE e = d
    BY Zenon, <2>1
  <2>2. CASE e # d
    <3>1. worker'[e] = worker[e]
      BY Zenon, <2>2
    <3> QED BY Zenon, <3>1 DEF JobInv
  <2> QED BY Zenon, <2>1, <2>2
<1> QED BY Zenon, <1>1 DEF JobInv

\* A domain without a delivery holds nothing.
LEMMA IdleJob == \A d \in Domains : JobOK(d, Idle)
BY Zenon DEF JobOK, Idle

\* Each step of a delivery keeps what it holds in order.
LEMMA JobDeliver ==
  ASSUME TypeOK, JobsNamed, JobInv, RowsInv, NEW d \in Domains, Deliver(d) PROVE JobInv'
<1> DEFINE w == worker[d]
<1>a. JobOK(d, w)
  BY Zenon DEF JobInv
<1>t. w \in Job
  BY Zenon DEF TypeOK
<1>1. CASE Begin(d)
  <2>1. PICK pc \in {"report", "prepare"} : Becomes(d, pc, w.batch, w.took, w.fails, w.retire, w.lose)
    BY Zenon, <1>1, BeginEffect DEF Begins
  <2>2. w.pc = "begin"
    BY Zenon, <1>1, BeginEffect DEF Begins
  <2>3. JobOK(d, worker'[d])
    BY Zenon, <1>a, <2>1, <2>2 DEF JobOK, Becomes
  <2> QED BY Zenon, <2>1, <2>3, JobsKept DEF Becomes
<1>2. CASE PrepareGone(d)
  <2>1. w.pc = "prepare" /\ Becomes(d, "report", w.batch, w.took, w.fails, w.retire, w.lose)
    BY Zenon, <1>2, PrepareGoneEffect DEF GoneBefore
  <2>2. JobOK(d, worker'[d])
    BY Zenon, <1>a, <2>1 DEF JobOK, Becomes
  <2> QED BY Zenon, <2>1, <2>2, JobsKept DEF Becomes
<1>3. ASSUME NEW perm \in BOOLEAN, PrepareFail(d, perm) PROVE JobInv'
  <2>1. /\ w.pc = "prepare"
        /\ \/ Becomes(d, "failing", w.batch, w.took, w.fails, {w.m0}, w.lose)
           \/ Becomes(d, "report", w.batch, w.took, w.fails, w.retire, w.lose)
    BY <1>3, PrepareFailEffect, Zenon DEF FailsEarly
  <2>2. JobOK(d, worker'[d])
    BY Zenon, <1>a, <2>1 DEF JobOK, Becomes
  <2> QED BY Zenon, <2>1, <2>2, JobsKept DEF Becomes
<1>4. ASSUME NEW more \in SUBSET Msgs, NEW direct \in BOOLEAN, PrepareBatch(d, more, direct) PROVE JobInv'
  <2> DEFINE batch == {w.m0} \cup more
  <2>1. /\ w.pc = "prepare" /\ w.m0 \in Msgs /\ row[w.m0] = "queued"
        /\ more \subseteq Gatherable(w.m0)
        /\ Becomes(d, "attempt", batch, w.took, w.fails, w.retire, w.lose)
    BY <1>4, PrepareBatchEffect, ZenonT(60) DEF Prepares
  <2>2. Dom[w.m0] = d /\ w.m0 \in Base(w.m0)
    BY Zenon, <1>a, <2>1, OwnBase DEF JobOK, RowsInv
  <2>3. batch # {} /\ \A m \in batch : Dom[m] = d /\ m \in Base(w.m0)
    BY Zenon, <2>1, <2>2 DEF Gatherable
  <2> HIDE DEF batch
  <2>4. JobOK(d, worker'[d])
    BY Zenon, <1>a, <2>1, <2>3 DEF JobOK, Becomes
  <2> QED BY Zenon, <2>1, <2>4, JobsKept DEF Becomes
<1>5. ASSUME NEW perm \in BOOLEAN, AttemptFails(d, perm) \/ (AttemptRefused(d) /\ ~perm) PROVE JobInv'
  <2> DEFINE g == [ms |-> w.batch, perm |-> perm]
  <2>1. w.pc = "attempt" /\ Becomes(d, "settle", w.batch, w.took, {g}, w.retire, w.lose)
    BY <1>5, AttemptFailsEffect, Zenon DEF AllFail
  <2>2. g.ms = w.batch
    OBVIOUS
  <2> HIDE DEF g
  <2>3. JobOK(d, worker'[d])
    BY Zenon, <1>a, <1>5, <2>1, <2>2 DEF JobOK, Becomes
  <2> QED BY Zenon, <2>1, <2>3, JobsKept DEF Becomes
<1>6. ASSUME NEW no \in SUBSET w.batch, NEW later \in SUBSET w.batch, NEW kept \in SUBSET w.batch,
             AttemptSplit(d, no, later, kept)
      PROVE  JobInv'
  <2>1. PICK took, fails :
          /\ took \subseteq w.batch
          /\ \A g \in fails : \E m \in w.batch \ took : g.ms = {m}
          /\ \A g, h \in fails : g # h => g.ms \cap h.ms = {}
          /\ Becomes(d, "settle", w.batch, took, fails, w.retire, w.lose)
    BY <1>6, AttemptSplitEffect, Zenon DEF Splits
  <2>2. w.pc = "attempt"
    BY <1>6, AttemptSplitEffect, Zenon DEF Splits
  <2>3. JobOK(d, worker'[d])
    BY <1>a, <2>1, <2>2 DEF JobOK, Becomes
  <2> QED BY Zenon, <2>1, <2>3, JobsKept DEF Becomes
<1>7. CASE RetireDelivered(d)
  <2>1. /\ w.pc = "settle"
        /\ \/ Becomes(d, "unlink", w.batch, {}, w.fails, w.took, w.lose)
           \/ Becomes(d, "settle", w.batch, {}, w.fails, {}, w.lose)
    BY <1>7, RetireDeliveredEffect, Zenon DEF Retires
  <2>2. JobOK(d, worker'[d])
    BY Zenon, <1>a, <2>1 DEF JobOK, Becomes
  <2> QED BY Zenon, <2>1, <2>2, JobsKept DEF Becomes
<1>8. CASE Unlink(d)
  <2>1. w.pc = "unlink" /\ Becomes(d, "settle", w.batch, w.took, w.fails, {}, w.lose)
    BY Zenon, <1>8, UnlinkEffect DEF Unlinks
  <2>2. JobOK(d, worker'[d])
    BY Zenon, <1>a, <2>1 DEF JobOK, Becomes
  <2> QED BY Zenon, <2>1, <2>2, JobsKept DEF Becomes
<1>9. ASSUME NEW gs \in SUBSET w.fails, FailMsgs(d, gs) PROVE JobInv'
  <2>1. PICK final, retire, lose : FailsAs(d, gs, final, retire, lose)
    BY <1>9, FailMsgsEffect, ZenonT(60) DEF FailsGroups
  <2>2. w.pc = "settle" /\ final \subseteq gs
    <3>1. w.pc = "settle"
      BY <1>9, FailMsgsEffect, ZenonT(60) DEF FailsGroups
    <3>2. final \subseteq gs
      BY <2>1, Zenon DEF FailsAs
    <3> QED BY Zenon, <3>1, <3>2
  <2>3. Becomes(d, "failing", w.batch, w.took, w.fails \ gs, retire, lose)
    BY Zenon, <2>1 DEF FailsAs
  <2>4. \A m \in retire : \E g \in final : m \in g.ms
    BY Zenon, <2>1 DEF FailsAs
  <2>l. \A m \in lose : \E g \in final : m \in g.ms
    BY <2>1, Zenon DEF FailsAs
  <2>5. /\ \A g \in w.fails \ gs : g.ms \cap retire = {}
        /\ w.took \cap retire = {}
        /\ \A m \in retire \cup lose : Dom[m] = d
    BY <1>a, <2>2, <2>4, <2>l DEF JobOK
  <2>6. JobOK(d, worker'[d])
    BY Zenon, <1>a, <2>2, <2>3, <2>5 DEF JobOK, Becomes
  <2> QED BY Zenon, <2>3, <2>6, JobsKept DEF Becomes
<1>10. CASE FailCommit(d)
  <2>1. w.pc = "failing" /\ Becomes(d, "settle", w.batch, w.took, w.fails, {}, {})
    BY Zenon, <1>10, FailCommitEffect DEF CommitsFailure
  <2>2. JobOK(d, worker'[d])
    BY Zenon, <1>a, <2>1 DEF JobOK, Becomes
  <2> QED BY Zenon, <2>1, <2>2, JobsKept DEF Becomes
<1>11. CASE Settled(d)
  <2>1. w.pc = "settle" /\ w.took = {} /\ w.fails = {} /\ Becomes(d, "report", {}, w.took, w.fails, w.retire, w.lose)
    BY Zenon, <1>11, SettledEffect DEF Settles
  <2>2. JobOK(d, worker'[d])
    BY Zenon, <1>a, <2>1 DEF JobOK, Becomes
  <2> QED BY Zenon, <2>1, <2>2, JobsKept DEF Becomes
<1>12. CASE AttemptRefused(d)
  BY Zenon, <1>5, <1>12
<1> QED
  BY Zenon, <1>1, <1>2, <1>3, <1>4, <1>5, <1>6, <1>7, <1>8, <1>9, <1>10, <1>11, <1>12 DEF Deliver

\* The steps other than deliveries and the dispatcher leave the jobs alone.
LEMMA WorkerKept ==
  ASSUME \/ Submit \/ Operator \/ Shutdown \/ UNCHANGED vars
         \/ ReceiveKick \/ ReceiveTimer \/ ReceiveShutdown \/ NextWork \/ Drained
         \/ \E m \in Msgs : TimePasses(m)
  PROVE  worker' = worker
BY Zenon DEF Submit, AddLink, AddLeftover, AddCommit, AddFail, Operator, HoldRuleAdd, HoldRuleRemove, TransportSet,
       HoldSet, NextAttemptSet, FailDrop, FailDropFiles, Shutdown, vars, ReceiveKick, ReceiveTimer,
       ReceiveShutdown, NextWork, Drained, TimePasses

\* Each step of the queue keeps what the deliveries hold in order.
LEMMA JobStep == TypeOK /\ JobsNamed /\ BusyInv /\ JobInv /\ RowsInv /\ [Next]_vars => JobInv'
<1> SUFFICES ASSUME TypeOK, JobsNamed, BusyInv, JobInv, RowsInv, [Next]_vars PROVE JobInv'
  OBVIOUS
<1>1. CASE worker' = worker
  BY Zenon, <1>1 DEF JobInv
<1>2. ASSUME NEW d \in Domains, Deliver(d) PROVE JobInv'
  BY Zenon, <1>2, JobDeliver
<1>3. ASSUME NEW d \in Domains, ReceiveResult(d) PROVE JobInv'
  BY Zenon, <1>3, ReceiveResultEffect, IdleJob, JobsKept DEF Reports
<1>4. CASE Launch
  <2>1. PICK new \in SUBSET Domains :
          /\ \A d \in Domains \ new : worker'[d] = worker[d]
          /\ \A d \in new : Started(d)
    BY <1>4, LaunchEffect, Zenon DEF Starts
  <2>2. ASSUME NEW d \in new PROVE JobOK(d, worker'[d])
    BY Zenon, <2>1, <2>2 DEF JobOK, Started
  <2>3. ASSUME NEW d \in Domains \ new PROVE JobOK(d, worker'[d])
    <3>1. worker'[d] = worker[d]
      BY <2>1, Zenon
    <3> QED BY Zenon, <3>1 DEF JobInv
  <2> QED BY Zenon, <2>2, <2>3 DEF JobInv
<1>5. CASE Crash
  BY Zenon, <1>5, IdleJob DEF Crash, JobInv
<1> QED BY Zenon, <1>1, <1>2, <1>3, <1>4, <1>5, WorkerKept DEF Next, Dispatch

-----------------------------------------------------------------------------
(* One transaction at a time. *)

\* A step that opens no transaction.
LEMMA TransactionKept ==
  ASSUME TransactionInv, adding' \in {adding, {}},
         \A e \in Domains : worker'[e].pc = "failing" => worker[e].pc = "failing"
  PROVE  TransactionInv'
BY Zenon DEF TransactionInv

\* A step that opens one while none is open.
LEMMA TransactionOpened ==
  ASSUME TransactionInv, DbFree, adding' = adding, NEW d \in Domains,
         \A e \in Domains \ {d} : worker'[e] = worker[e]
  PROVE  TransactionInv'
BY Zenon DEF TransactionInv, DbFree

\* The steps of a delivery keep to one write transaction at a time.
LEMMA TransactionDeliver ==
  ASSUME TypeOK, JobsNamed, JobInv, TransactionInv, NEW d \in Domains, Deliver(d) PROVE TransactionInv'
<1> USE DEF Becomes, OnlyWorker
<1>1. CASE Begin(d)
  BY Zenon, <1>1, BeginEffect, TransactionKept DEF Begins
<1>2. CASE PrepareGone(d)
  BY Zenon, <1>2, PrepareGoneEffect, TransactionKept DEF GoneBefore
<1>3. ASSUME NEW perm \in BOOLEAN, PrepareFail(d, perm) PROVE TransactionInv'
  <2>1. DbFree /\ adding' = adding /\ \A e \in Domains \ {d} : worker'[e] = worker[e]
    BY <1>3, PrepareFailEffect, Zenon DEF FailsEarly
  <2> QED BY Zenon, <2>1, TransactionOpened
<1>4. ASSUME NEW more \in SUBSET Msgs, NEW direct \in BOOLEAN, PrepareBatch(d, more, direct) PROVE TransactionInv'
  <2>1. adding' = adding /\ worker'[d].pc = "attempt" /\ \A e \in Domains \ {d} : worker'[e] = worker[e]
    BY <1>4, PrepareBatchEffect, ZenonT(60) DEF Prepares
  <2> QED BY Zenon, <2>1, TransactionKept
<1>5. ASSUME NEW perm \in BOOLEAN, AttemptFails(d, perm) \/ (AttemptRefused(d) /\ ~perm) PROVE TransactionInv'
  <2>1. adding' = adding /\ worker'[d].pc = "settle" /\ \A e \in Domains \ {d} : worker'[e] = worker[e]
    BY <1>5, AttemptFailsEffect, Zenon DEF AllFail
  <2> QED BY Zenon, <2>1, TransactionKept
<1>6. ASSUME NEW no \in SUBSET worker[d].batch, NEW later \in SUBSET worker[d].batch,
             NEW kept \in SUBSET worker[d].batch, AttemptSplit(d, no, later, kept)
      PROVE  TransactionInv'
  <2>1. adding' = adding /\ worker'[d].pc = "settle" /\ \A e \in Domains \ {d} : worker'[e] = worker[e]
    BY <1>6, AttemptSplitEffect, Zenon DEF Splits
  <2> QED BY Zenon, <2>1, TransactionKept
<1>7. CASE RetireDelivered(d)
  <2>1. DbFree /\ adding' = adding /\ \A e \in Domains \ {d} : worker'[e] = worker[e]
    BY <1>7, RetireDeliveredEffect, Zenon DEF Retires
  <2> QED BY Zenon, <2>1, TransactionOpened
<1>8. CASE Unlink(d)
  BY Zenon, <1>8, UnlinkEffect, TransactionKept DEF Unlinks
<1>9. ASSUME NEW gs \in SUBSET worker[d].fails, FailMsgs(d, gs) PROVE TransactionInv'
  <2>1. DbFree /\ adding' = adding /\ \A e \in Domains \ {d} : worker'[e] = worker[e]
    BY <1>9, FailMsgsEffect, ZenonT(60) DEF FailsGroups, FailsAs
  <2> QED BY Zenon, <2>1, TransactionOpened
<1>10. CASE FailCommit(d)
  <2>1. adding' = adding /\ worker'[d].pc = "settle" /\ \A e \in Domains \ {d} : worker'[e] = worker[e]
    BY <1>10, FailCommitEffect, ZenonT(60) DEF CommitsFailure
  <2> QED BY Zenon, <2>1, TransactionKept
<1>11. CASE Settled(d)
  BY Zenon, <1>11, SettledEffect, TransactionKept DEF Settles
<1>12. CASE AttemptRefused(d)
  BY Zenon, <1>5, <1>12
<1> QED
  BY Zenon, <1>1, <1>2, <1>3, <1>4, <1>5, <1>6, <1>7, <1>8, <1>9, <1>10, <1>11, <1>12 DEF Deliver

\* All steps keep to one write transaction at a time.
LEMMA TransactionStep ==
  TypeOK /\ JobsNamed /\ BusyInv /\ JobInv /\ TransactionInv /\ [Next]_vars => TransactionInv'
<1> SUFFICES ASSUME TypeOK, JobsNamed, BusyInv, JobInv, TransactionInv, [Next]_vars PROVE TransactionInv'
  OBVIOUS
<1>1. CASE worker' = worker /\ adding' \in {adding, {}}
  BY Zenon, <1>1, TransactionKept
<1>2. ASSUME NEW s \in Submissions, AddLink(s) PROVE TransactionInv'
  BY Zenon, <1>2 DEF AddLink, DbFree, TransactionInv
<1>3. ASSUME NEW d \in Domains, ReceiveResult(d) PROVE TransactionInv'
  <2>1. OnlyWorker /\ worker'[d] = Idle /\ \A e \in Domains \ {d} : worker'[e] = worker[e]
    BY Zenon, <1>3, ReceiveResultEffect DEF Reports
  <2> QED BY <2>1, TransactionKept DEF OnlyWorker, Idle
<1>4. CASE Launch
  <2>1. PICK new \in SUBSET Domains :
          /\ \A d \in Domains \ new : worker'[d] = worker[d]
          /\ \A d \in new : Started(d)
    BY <1>4, LaunchEffect, Zenon DEF Starts
  <2>2. adding' = adding
    BY Zenon, <1>4, LaunchEffect DEF Starts, OnlyWorker
  <2>3. \A d \in new : worker'[d].pc = "begin"
    BY Zenon, <2>1 DEF Started
  <2>4. \A e \in Domains : worker'[e].pc = "failing" => worker[e].pc = "failing"
    BY Zenon, <2>1, <2>3
  <2> QED BY Zenon, <2>2, <2>4, TransactionKept
<1>5. CASE Crash
  BY Zenon, <1>5 DEF Crash, TransactionInv, Idle
<1>6. CASE UNCHANGED vars
  BY Zenon, <1>6, <1>1 DEF vars
<1>7. CASE \/ AddCommit \/ AddFail \/ Operator \/ Shutdown
           \/ \E s \in Submissions : AddLeftover(s)
           \/ \E m \in Msgs : TimePasses(m)
           \/ ReceiveKick \/ ReceiveTimer \/ ReceiveShutdown \/ NextWork \/ Drained
  <2>1. worker' = worker
    BY Zenon, <1>7, WorkerKept DEF Submit
  <2>2. adding' \in {adding, {}}
    BY Zenon, <1>7 DEF AddCommit, AddFail, AddLeftover, Operator, HoldRuleAdd, HoldRuleRemove, TransportSet,
       HoldSet, NextAttemptSet, FailDrop, FailDropFiles, Shutdown, ReceiveKick, ReceiveTimer,
       ReceiveShutdown, NextWork, Drained, TimePasses
  <2> QED BY Zenon, <1>1, <2>1, <2>2
<1> QED BY Zenon, <1>2, <1>3, <1>4, <1>5, <1>6, <1>7, TransactionDeliver DEF Next, Dispatch, Submit

-----------------------------------------------------------------------------
(* Where the messages are that are being added, dropped or delivered. *)

\* The steps that only hold, reschedule, wake or wait.
Quiet ==
  \/ HoldRuleAdd \/ HoldRuleRemove \/ TransportSet
  \/ \E m \in Managed, v \in BOOLEAN : HoldSet(m, v)
  \/ \E ms \in SUBSET Managed, v \in BOOLEAN : NextAttemptSet(ms, v)
  \/ ReceiveKick \/ ReceiveTimer \/ ReceiveShutdown \/ NextWork \/ Drained
  \/ \E m \in Msgs : TimePasses(m)
  \/ Shutdown \/ UNCHANGED vars

\* What the quiet steps leave alone.
StaysQuiet ==
  /\ row' = row /\ att' = att /\ file' = file /\ sent' = sent /\ dsn' = dsn /\ untold' = untold /\ busy' = busy
  /\ adding' = adding /\ trash' = trash /\ crashes' = crashes /\ worker' = worker
  /\ stopping => stopping'

LEMMA QuietEffect ==
  ASSUME Quiet
  PROVE  StaysQuiet
<1>1. CASE HoldRuleAdd \/ HoldRuleRemove \/ TransportSet \/ Shutdown
  BY <1>1 DEF StaysQuiet, HoldRuleAdd, HoldRuleRemove, TransportSet, Shutdown, db, world, dispatcher
<1>2. CASE \E m \in Managed, v \in BOOLEAN : HoldSet(m, v)
  BY <1>2 DEF StaysQuiet, HoldSet, world
<1>3. CASE \E ms \in SUBSET Managed, v \in BOOLEAN : NextAttemptSet(ms, v)
  BY <1>3 DEF StaysQuiet, NextAttemptSet, world
<1>4. CASE ReceiveKick \/ ReceiveTimer \/ ReceiveShutdown
  BY <1>4 DEF StaysQuiet, ReceiveKick, ReceiveTimer, ReceiveShutdown, db, world
<1>5. CASE NextWork \/ Drained
  BY <1>5 DEF StaysQuiet, NextWork, Drained, db, world
<1>6. CASE \E m \in Msgs : TimePasses(m)
  BY <1>6 DEF StaysQuiet, TimePasses, world, dispatcher
<1>7. CASE UNCHANGED vars
  BY Zenon, <1>7 DEF StaysQuiet, vars, db, world, dispatcher
<1> QED BY <1>1, <1>2, <1>3, <1>4, <1>5, <1>6, <1>7, Zenon DEF StaysQuiet, Quiet

\* The steps of the queue, the quiet ones together.
LEMMA NextCases ==
  ASSUME [Next]_vars
  PROVE  \/ Quiet \/ Launch \/ Crash
         \/ \E d \in Domains : ReceiveResult(d) \/ Deliver(d)
         \/ \E s \in Submissions : AddLink(s) \/ AddLeftover(s)
         \/ AddCommit \/ AddFail \/ FailDropFiles
         \/ \E ms \in SUBSET Droppable, fail \in BOOLEAN : FailDrop(ms, fail)
BY Zenon DEF Next, Dispatch, Operator, Submit, Quiet

\* A step that changes no row.
LEMMA RowsKept ==
  ASSUME RowsInv, row' = row, trash' \subseteq trash,
         \A m \in adding' : m \in adding /\ m \in file',
         \A e \in Domains : RowsOK(worker[e])'
  PROVE  RowsInv'
BY Zenon DEF RowsInv, Disturbed, Dropped

\* A delivery that is left alone, when no row changes.
LEMMA SameRows ==
  ASSUME row' = row, NEW e \in Domains, worker'[e] = worker[e], RowsOK(worker[e])
  PROVE  RowsOK(worker[e])'
BY Zenon DEF RowsOK, Unsettled, Disturbed, Dropped

\* A delivery that settles, by its fields.
LEMMA SettlingRows ==
  ASSUME NEW d \in Domains, NEW pc, pc \notin {"begin", "prepare", "attempt"},
         NEW batch, NEW took, NEW fails, NEW retire, NEW lose,
         Becomes(d, pc, batch, took, fails, retire, lose),
         \A m \in took : row'[m] \in {"queued", "canceled", "aborted", "lost"},
         \A g \in fails : \A m \in g.ms : row'[m] \in {"queued", "canceled", "aborted", "lost"},
         \A m \in retire : row'[m] = IF pc = "failing" THEN "queued" ELSE "delivered",
         \A m \in lose : row'[m] = "queued" /\ Disturbed(m)'
  PROVE  RowsOK(worker[d])'
BY Zenon DEF RowsOK, Unsettled, Becomes

\* The messages of a delivery are those of its domain.
LEMMA OwnDomain ==
  ASSUME TypeOK, JobInv, NEW d \in Domains
  PROVE  /\ \A m \in Unsettled(worker[d]) \cup worker[d].retire \cup worker[d].lose : m \in Msgs /\ Dom[m] = d
         /\ worker[d].pc \in {"begin", "prepare"} => worker[d].m0 \in Msgs /\ Dom[worker[d].m0] = d
<1> DEFINE w == worker[d]
<1>1. JobOK(d, w) /\ w \in Job
  BY Zenon DEF JobInv, TypeOK
<1> HIDE DEF w
<1>2. w.batch \subseteq Msgs /\ w.retire \subseteq Msgs /\ w.lose \subseteq Msgs
  BY Zenon, <1>1 DEF Job
<1>3. Unsettled(w) \subseteq w.batch
  BY <1>1 DEF JobOK, Unsettled
<1>4. \A m \in Unsettled(w) \cup w.retire \cup w.lose : m \in Msgs /\ Dom[m] = d
  BY Zenon, <1>1, <1>2, <1>3 DEF JobOK
<1>5. w.pc \in {"begin", "prepare"} => w.m0 \in Msgs /\ Dom[w.m0] = d
  BY Zenon, <1>1 DEF JobOK
<1> QED BY Zenon, <1>4, <1>5 DEF w

\* Another delivery's settling leaves a delivery's messages alone.
LEMMA OtherRows ==
  ASSUME TypeOK, JobInv, NEW d \in Domains, NEW e \in Domains, e # d, worker'[e] = worker[e], RowsOK(worker[e]),
         \A m \in Msgs : Dom[m] # d => row'[m] = row[m],
         \A m \in Msgs : Dropped(m) => Dropped(m)'
  PROVE  RowsOK(worker[e])'
<1> DEFINE w == worker[e]
<1>1. \A m \in Unsettled(w) \cup w.retire \cup w.lose : m \in Msgs /\ Dom[m] # d
  BY Zenon, OwnDomain
<1>2. w.pc \in {"begin", "prepare"} => w.m0 \in Msgs /\ row'[w.m0] = row[w.m0]
  BY Zenon, OwnDomain
<1>3. \A m \in Unsettled(w) \cup w.retire \cup w.lose : row'[m] = row[m]
  BY Zenon, <1>1
<1>4. \A m \in Msgs : Disturbed(m) => Disturbed(m)'
  BY Zenon DEF Disturbed, Base
<1>5. \A m \in w.lose : Disturbed(m)'
  BY Zenon, <1>1, <1>4 DEF RowsOK
<1>6. RowsOK(w) /\ worker'[e] = w
  OBVIOUS
<1> HIDE DEF w
<1> QED BY <1>2, <1>3, <1>5, <1>6 DEF RowsOK, Unsettled, Dropped

\* A step of a delivery that changes no row.
LEMMA RowsQuietDeliver ==
  ASSUME TypeOK, JobInv, RowsInv, NEW d \in Domains, row' = row, adding' = adding, trash' = trash,
         \A m \in adding : m \in file',
         \A e \in Domains \ {d} : worker'[e] = worker[e], RowsOK(worker[d])'
  PROVE  RowsInv'
<1>1. ASSUME NEW e \in Domains PROVE RowsOK(worker[e])'
  <2>1. CASE e = d
    BY Zenon, <2>1
  <2>2. CASE e # d
    BY Zenon, <2>2, SameRows DEF RowsInv
  <2> QED BY Zenon, <2>1, <2>2
<1> QED BY Zenon, <1>1, RowsKept

\* A delivery that settles messages of its domain, which were in the queue.
LEMMA RowsSettled ==
  ASSUME TypeOK, JobInv, RowsInv, NEW d \in Domains, adding' = adding, trash' = trash, file' = file,
         \A e \in Domains \ {d} : worker'[e] = worker[e], RowsOK(worker[d])',
         \A m \in Msgs : row'[m] # row[m] =>
           /\ row[m] = "queued" /\ Dom[m] = d /\ row'[m] # "absent"
           /\ row'[m] = "lost" => Disturbed(m)
  PROVE  RowsInv'
<1>1. \A m \in Msgs : Dropped(m) => Dropped(m)'
  BY Zenon DEF Dropped
<1>2. \A m \in Msgs : Disturbed(m) => Disturbed(m)'
  BY Zenon, <1>1 DEF Disturbed, Base
<1>3. ASSUME NEW e \in Domains PROVE RowsOK(worker[e])'
  <2>1. CASE e = d
    BY Zenon, <2>1
  <2>2. CASE e # d
    <3>1. \A m \in Msgs : Dom[m] # d => row'[m] = row[m]
      OBVIOUS
    <3>2. RowsOK(worker[e]) /\ worker'[e] = worker[e]
      BY Zenon, <2>2 DEF RowsInv
    <3> QED BY Zenon, <1>1, <2>2, <3>1, <3>2, OtherRows
  <2> QED BY Zenon, <2>1, <2>2
<1>4. \A m \in Msgs : row'[m] # "absent" => m \in UNION Submissions
  BY Zenon DEF RowsInv
<1>5. \A m \in Msgs : row'[m] = "lost" => Disturbed(m)'
  BY Zenon, <1>2 DEF RowsInv
<1>6. \A m \in trash' : Dropped(m)'
  BY Zenon, <1>1 DEF RowsInv, TypeOK
<1>7. \A m \in adding' : row'[m] = "absent" /\ m \in file'
  BY Zenon DEF RowsInv, TypeOK
<1> QED BY Zenon, <1>3, <1>4, <1>5, <1>6, <1>7 DEF RowsInv

\* A delivery changes the rows of the messages it holds only.
LEMMA RowsDeliver ==
  ASSUME TypeOK, JobsNamed, JobInv, TransactionInv, RowsInv, NEW d \in Domains, Deliver(d) PROVE RowsInv'
<1> DEFINE w == worker[d]
<1>a. JobOK(d, w) /\ RowsOK(w) /\ w \in Job
  BY Zenon DEF JobInv, RowsInv, TypeOK
<1>b. \A m \in adding : row[m] = "absent" /\ m \in file
  BY Zenon DEF RowsInv
<1>1. CASE Begin(d)
  <2>1. PICK pc \in {"report", "prepare"} : Becomes(d, pc, w.batch, w.took, w.fails, w.retire, w.lose)
    BY Zenon, <1>1, BeginEffect DEF Begins
  <2>2. w.pc = "begin" /\ OnlyWorker
    BY Zenon, <1>1, BeginEffect DEF Begins
  <2>3. RowsOK(worker[d])'
    BY Zenon, <1>a, <2>1, <2>2 DEF JobOK, RowsOK, Unsettled, Dropped, Becomes, OnlyWorker
  <2> QED BY Zenon, <1>b, <2>1, <2>2, <2>3, RowsQuietDeliver DEF Becomes, OnlyWorker
<1>2. CASE PrepareGone(d)
  <2>1. w.pc = "prepare" /\ OnlyWorker /\ Becomes(d, "report", w.batch, w.took, w.fails, w.retire, w.lose)
    BY Zenon, <1>2, PrepareGoneEffect DEF GoneBefore
  <2>2. RowsOK(worker[d])'
    BY Zenon, <1>a, <2>1 DEF JobOK, RowsOK, Unsettled, Becomes, OnlyWorker
  <2> QED BY Zenon, <1>b, <2>1, <2>2, RowsQuietDeliver DEF Becomes, OnlyWorker
<1>3. ASSUME NEW perm \in BOOLEAN, PrepareFail(d, perm) PROVE RowsInv'
  <2>1. /\ w.pc = "prepare" /\ row[w.m0] = "queued" /\ DbFree
        /\ row' = row /\ adding' = adding /\ trash' = trash
        /\ \/ Becomes(d, "failing", w.batch, w.took, w.fails, {w.m0}, w.lose)
           \/ Becomes(d, "report", w.batch, w.took, w.fails, w.retire, w.lose)
    BY <1>3, PrepareFailEffect, Zenon DEF FailsEarly
  <2>2. adding = {}
    BY Zenon, <2>1 DEF DbFree
  <2>3. RowsOK(worker[d])'
    BY Zenon, <1>a, <2>1 DEF JobOK, RowsOK, Unsettled, Becomes
  <2> QED BY Zenon, <2>1, <2>2, <2>3, RowsQuietDeliver DEF Becomes
<1>4. ASSUME NEW more \in SUBSET Msgs, NEW direct \in BOOLEAN, PrepareBatch(d, more, direct) PROVE RowsInv'
  <2> DEFINE batch == {w.m0} \cup more
  <2>1. /\ w.pc = "prepare" /\ row[w.m0] = "queued" /\ more \subseteq Gatherable(w.m0)
        /\ row' = row /\ adding' = adding /\ trash' = trash /\ file' = file
        /\ Becomes(d, "attempt", batch, w.took, w.fails, w.retire, w.lose)
    BY <1>4, PrepareBatchEffect, ZenonT(60) DEF Prepares
  <2>2. \A m \in batch : row[m] = "queued"
    BY Zenon, <2>1 DEF Gatherable, Queued
  <2> HIDE DEF batch
  <2>3. RowsOK(worker[d])'
    BY Zenon, <1>a, <2>1, <2>2 DEF JobOK, RowsOK, Unsettled, Becomes
  <2> QED BY Zenon, <1>b, <2>1, <2>3, RowsQuietDeliver DEF Becomes
<1>5. ASSUME NEW perm \in BOOLEAN, AttemptFails(d, perm) \/ (AttemptRefused(d) /\ ~perm) PROVE RowsInv'
  <2> DEFINE g == [ms |-> w.batch, perm |-> perm]
  <2>1. w.pc = "attempt" /\ OnlyWorker /\ Becomes(d, "settle", w.batch, w.took, {g}, w.retire, w.lose)
    BY <1>5, AttemptFailsEffect, Zenon DEF AllFail
  <2>2. g.ms = w.batch
    OBVIOUS
  <2> HIDE DEF g
  <2>3. w.took = {} /\ w.retire = {} /\ w.lose = {} /\ row' = row
    BY Zenon, <1>a, <2>1 DEF JobOK, OnlyWorker
  <2>4. \A m \in g.ms : row[m] \in {"queued", "canceled", "aborted", "lost"}
    BY Zenon, <1>a, <2>1, <2>2 DEF RowsOK, Unsettled
  <2>5. RowsOK(worker[d])'
    BY <2>1, <2>3, <2>4, SettlingRows
  <2> QED BY Zenon, <1>b, <2>1, <2>5, RowsQuietDeliver DEF Becomes, OnlyWorker
<1>6. ASSUME NEW no \in SUBSET w.batch, NEW later \in SUBSET w.batch, NEW kept \in SUBSET w.batch,
             AttemptSplit(d, no, later, kept)
      PROVE  RowsInv'
  <2>1. PICK took, fails :
          /\ took \subseteq w.batch
          /\ \A g \in fails : \E m \in w.batch \ took : g.ms = {m}
          /\ Becomes(d, "settle", w.batch, took, fails, w.retire, w.lose)
    BY <1>6, AttemptSplitEffect, Zenon DEF Splits
  <2>2. w.pc = "attempt" /\ row' = row /\ adding' = adding /\ trash' = trash /\ file' = file
    BY <1>6, AttemptSplitEffect, Zenon DEF Splits
  <2>3. w.retire = {} /\ w.lose = {}
    BY Zenon, <1>a, <2>2 DEF JobOK
  <2>4. \A m \in w.batch : row[m] \in {"queued", "canceled", "aborted", "lost"}
    BY Zenon, <1>a, <2>2 DEF RowsOK, Unsettled
  <2>5. \A g \in fails : \A m \in g.ms : m \in w.batch
    BY Zenon, <2>1
  <2>6. RowsOK(worker[d])'
    BY SMTT(60), <2>1, <2>2, <2>3, <2>4, <2>5, SettlingRows
  <2> QED BY Zenon, <1>b, <2>1, <2>2, <2>6, RowsQuietDeliver DEF Becomes
<1>7. CASE RetireDelivered(d)
  <2>a. w.pc = "settle" /\ DbFree /\ adding' = adding /\ trash' = trash /\ file' = file
    BY <1>7, RetireDeliveredEffect, Zenon DEF Retires
  <2>1. CASE /\ w.took \subseteq Queued
             /\ row' = [m \in Msgs |-> IF m \in w.took THEN "delivered" ELSE row[m]]
             /\ Becomes(d, "unlink", w.batch, {}, w.fails, w.took, w.lose)
    <3>1. \A m \in w.took : m \in Msgs /\ Dom[m] = d /\ row[m] = "queued"
      BY Zenon, <1>a, <2>1 DEF JobOK, Job, Queued
    <3>2. \A m \in Msgs : m \notin w.took => row'[m] = row[m]
      BY Zenon, <2>1
    <3>3. RowsOK(worker[d])'
      <4>1. \A m \in w.took : row'[m] = "delivered"
        BY Zenon, <2>1, <3>1
      <4>2. \A g \in w.fails : \A m \in g.ms : m \in Msgs /\ m \notin w.took
        BY Zenon, <1>a DEF JobOK, Job
      <4>3. \A g \in w.fails : \A m \in g.ms : row'[m] = row[m]
        BY Zenon, <4>2, <3>2
      <4>4. \A g \in w.fails : \A m \in g.ms : row[m] \in {"queued", "canceled", "aborted", "lost"}
        BY Zenon, <1>a, <2>a DEF RowsOK, Unsettled
      <4>5. w.lose = {}
        BY Zenon, <1>a, <2>a DEF JobOK
      <4>6. \A g \in w.fails : \A m \in g.ms : row'[m] \in {"queued", "canceled", "aborted", "lost"}
        BY Zenon, <4>3, <4>4
      <4>7. "unlink" \notin {"begin", "prepare", "attempt"} /\ "unlink" # "failing"
        OBVIOUS
      <4> QED BY ZenonT(60), <2>1, <4>1, <4>5, <4>6, <4>7, SettlingRows
    <3>4. \A m \in Msgs : row'[m] # row[m] => row[m] = "queued" /\ Dom[m] = d /\ row'[m] = "delivered"
      BY Zenon, <2>1, <3>1, <3>2
    <3> QED BY Zenon, <2>1, <2>a, <3>3, <3>4, RowsSettled DEF Becomes
  <2>2. CASE row' = row /\ Becomes(d, "settle", w.batch, {}, w.fails, {}, w.lose)
    <3>1. RowsOK(worker[d])'
      BY Zenon, <1>a, <2>a, <2>2 DEF JobOK, RowsOK, Unsettled, Becomes
    <3> QED BY Zenon, <1>b, <2>a, <2>2, <3>1, RowsQuietDeliver DEF Becomes
  <2> QED BY <1>7, <2>1, <2>2, RetireDeliveredEffect, Zenon DEF Retires
<1>8. CASE Unlink(d)
  <2>1. /\ w.pc = "unlink" /\ row' = row /\ adding' = adding /\ trash' = trash /\ file' = file \ w.retire
        /\ Becomes(d, "settle", w.batch, w.took, w.fails, {}, w.lose)
    BY Zenon, <1>8, UnlinkEffect DEF Unlinks
  <2>2. \A m \in w.retire : row[m] = "delivered"
    BY Zenon, <1>a, <2>1 DEF RowsOK
  <2>3. \A m \in adding : m \in file'
    BY Zenon, <1>b, <2>1, <2>2
  <2>4. RowsOK(worker[d])'
    BY Zenon, <1>a, <2>1 DEF JobOK, RowsOK, Unsettled, Becomes
  <2> QED BY Zenon, <2>1, <2>3, <2>4, RowsQuietDeliver DEF Becomes
<1>9. ASSUME NEW gs \in SUBSET w.fails, FailMsgs(d, gs) PROVE RowsInv'
  <2>1. PICK final, retire, lose : FailsAs(d, gs, final, retire, lose)
    BY <1>9, FailMsgsEffect, ZenonT(60) DEF FailsGroups
  <2>2. /\ w.pc = "settle" /\ DbFree
        /\ row' = row /\ adding' = adding /\ trash' = trash
    BY <1>9, FailMsgsEffect, ZenonT(60) DEF FailsGroups
  <2>3. Becomes(d, "failing", w.batch, w.took, w.fails \ gs, retire, lose) /\ final \subseteq gs
    BY <2>1, Zenon DEF FailsAs
  <2>4. \A m \in retire : row[m] = "queued"
    BY Zenon, <2>1 DEF FailsAs, Queued
  <2>5. \A m \in lose : row[m] = "queued" /\ \E g \in final : m \in g.ms /\ ~(g.ms \subseteq Queued)
    BY <2>1, Zenon DEF FailsAs
  <2>6. ASSUME NEW m \in lose PROVE Disturbed(m)
    <3>1. PICK g \in final : m \in g.ms /\ ~(g.ms \subseteq Queued)
      BY <2>5, Zenon
    <3>2. PICK x \in g.ms : x \notin Queued
      BY Zenon, <3>1
    <3>3. g \in w.fails /\ w.m0 \in Msgs /\ m \in Base(w.m0) /\ x \in Base(w.m0)
      BY Zenon, <1>a, <2>2, <2>3, <3>1, <3>2 DEF JobOK
    <3>4. x \in Msgs /\ row[x] \in {"queued", "canceled", "aborted", "lost"}
      BY ZenonT(60), <1>a, <2>2, <3>2, <3>3 DEF RowsOK, Unsettled, Base
    <3>5. Dropped(x) \/ row[x] = "lost"
      BY Zenon, <3>2, <3>4 DEF Queued, Dropped
    <3>6. x \in Base(x)
      BY Zenon, <3>4, OwnBase DEF RowsInv
    <3>7. Disturbed(x)
      BY Zenon, <3>4, <3>5, <3>6 DEF Disturbed, RowsInv
    <3> QED BY Zenon, <3>3, <3>7, DisturbedTogether
  <2>7. adding = {}
    BY Zenon, <2>2 DEF DbFree
  <2>8. RowsOK(worker[d])'
    <3>1. \A m \in lose : Disturbed(m)'
      BY Zenon, <2>2, <2>6 DEF Disturbed, Dropped
    <3>2. /\ \A m \in w.took : row[m] \in {"queued", "canceled", "aborted", "lost"}
          /\ \A g \in w.fails : \A m \in g.ms : row[m] \in {"queued", "canceled", "aborted", "lost"}
      BY ZenonT(60), <1>a, <2>2 DEF RowsOK, Unsettled
    <3> QED BY <2>2, <2>3, <2>4, <2>5, <3>1, <3>2, SettlingRows
  <2> QED BY Zenon, <2>2, <2>3, <2>7, <2>8, RowsQuietDeliver DEF Becomes
<1>10. CASE FailCommit(d)
  <2>1. /\ w.pc = "failing" /\ Becomes(d, "settle", w.batch, w.took, w.fails, {}, {})
        /\ \A m \in Msgs : row'[m] = IF m \in w.lose THEN "lost" ELSE IF m \in w.retire THEN "failed" ELSE row[m]
        /\ adding' = adding /\ trash' = trash /\ file' = file
    BY <1>10, FailCommitEffect, ZenonT(60) DEF CommitsFailure
  <2>2. /\ \A m \in w.retire \cup w.lose : row[m] = "queued" /\ Dom[m] = d
        /\ \A m \in w.lose : Disturbed(m)
    BY Zenon, <1>a, <2>1 DEF JobOK, RowsOK
  <2>3. \A m \in Msgs : row'[m] # row[m] =>
          /\ row[m] = "queued" /\ Dom[m] = d /\ row'[m] # "absent"
          /\ row'[m] = "lost" => Disturbed(m)
    BY Zenon, <2>1, <2>2
  <2>4. RowsOK(worker[d])'
    <3>1. \A m \in Unsettled(w) : m \in Msgs /\ m \notin w.retire
      <4>1. w.batch \subseteq Msgs
        BY Zenon, <1>a DEF Job
      <4>2. ASSUME NEW m \in w.took PROVE m \in Msgs /\ m \notin w.retire
        BY Zenon, <1>a, <4>1 DEF JobOK
      <4>3. ASSUME NEW g \in w.fails, NEW m \in g.ms PROVE m \in Msgs /\ m \notin w.retire
        BY Zenon, <1>a, <4>1 DEF JobOK
      <4> QED BY Zenon, <2>1, <4>2, <4>3 DEF Unsettled
    <3>2. \A m \in Unsettled(w) : row'[m] \in {"queued", "canceled", "aborted", "lost"}
      BY Zenon, <1>a, <2>1, <3>1 DEF RowsOK
    <3> QED BY Zenon, <2>1, <3>2 DEF RowsOK, Unsettled, Becomes
  <2> QED BY Zenon, <2>1, <2>3, <2>4, RowsSettled DEF Becomes
<1>11. CASE Settled(d)
  <2>1. /\ w.pc = "settle" /\ w.took = {} /\ w.fails = {} /\ OnlyWorker
        /\ Becomes(d, "report", {}, w.took, w.fails, w.retire, w.lose)
    BY Zenon, <1>11, SettledEffect DEF Settles
  <2>2. RowsOK(worker[d])'
    BY Zenon, <1>a, <2>1 DEF JobOK, RowsOK, Unsettled, Becomes, OnlyWorker
  <2> QED BY Zenon, <1>b, <2>1, <2>2, RowsQuietDeliver DEF Becomes, OnlyWorker
<1>12. CASE AttemptRefused(d)
  BY Zenon, <1>5, <1>12
<1> QED
  BY Zenon, <1>1, <1>2, <1>3, <1>4, <1>5, <1>6, <1>7, <1>8, <1>9, <1>10, <1>11, <1>12 DEF Deliver

\* A row that is retired or lost stays as it is, in particular a dropped message stays dropped;
\* and a message is added once.
LEMMA RowFinal ==
  ASSUME TypeOK, JobsNamed, BusyInv, JobInv, RowsInv, [Next]_vars
  PROVE  /\ \A m \in Msgs : row[m] \in {"absent", "queued"} \/ row'[m] = row[m]
         /\ \A m \in Msgs : row'[m] = "absent" => row[m] = "absent"
         /\ \A m \in Msgs : Dropped(m) => Dropped(m)'
         /\ \A m \in Msgs : Disturbed(m) => Disturbed(m)'
<1> DEFINE final == \A m \in Msgs : \/ row'[m] = row[m]
                                    \/ row[m] \in {"absent", "queued"} /\ row'[m] # "absent"
<1>1. row' = row => final
  OBVIOUS
<1>2. ASSUME NEW d \in Domains, Deliver(d) PROVE final
  <2> DEFINE w == worker[d]
  <2>a. JobOK(d, w) /\ RowsOK(w) /\ w \in Job
    BY Zenon DEF JobInv, RowsInv, TypeOK
  <2>1. CASE RetireDelivered(d)
    <3>1. \/ /\ w.took \subseteq Queued
             /\ row' = [m \in Msgs |-> IF m \in w.took THEN "delivered" ELSE row[m]]
          \/ row' = row
      BY <2>1, RetireDeliveredEffect, Zenon DEF Retires
    <3> QED BY Zenon, <3>1 DEF Queued
  <2>2. CASE FailCommit(d)
    <3>1. /\ w.pc = "failing"
          /\ \A m \in Msgs : row'[m] = IF m \in w.lose THEN "lost" ELSE IF m \in w.retire THEN "failed" ELSE row[m]
      BY <2>2, FailCommitEffect, ZenonT(60) DEF CommitsFailure
    <3> QED BY Zenon, <2>a, <3>1 DEF RowsOK
  <2>3. CASE \/ Begin(d) \/ PrepareGone(d)
             \/ \E perm \in BOOLEAN : PrepareFail(d, perm) \/ AttemptFails(d, perm)
             \/ \E more \in SUBSET Msgs, direct \in BOOLEAN : PrepareBatch(d, more, direct)
             \/ AttemptRefused(d)
             \/ \E no, later, kept \in SUBSET worker[d].batch : AttemptSplit(d, no, later, kept)
             \/ Unlink(d) \/ Settled(d)
             \/ \E gs \in SUBSET worker[d].fails : FailMsgs(d, gs)
    <3>1. row' = row
      BY <2>3, ZenonT(60) DEF Begin, PrepareGone, PrepareFail, AttemptFails, PrepareBatch, AttemptRefused, AttemptSplit,
                         Unlink, Settled, FailMsgs, db
    <3> QED BY Zenon, <3>1
  <2> QED BY <1>2, <2>1, <2>2, <2>3, Zenon DEF Deliver
<1>3. Quiet => final
  BY Zenon, <1>1, QuietEffect DEF StaysQuiet
<1>4. Launch \/ Crash \/ (\E d \in Domains : ReceiveResult(d)) => final
  BY Zenon, <1>1, LaunchEffect, ReceiveResultEffect DEF Reports, Starts, OnlyWorker, Crash, db
<1>5. AddFail \/ FailDropFiles \/ (\E s \in Submissions : AddLink(s) \/ AddLeftover(s)) => final
  BY Zenon, <1>1 DEF AddFail, FailDropFiles, AddLink, AddLeftover, db
<1>6. AddCommit => final
  BY Zenon DEF AddCommit, RowsInv, TypeOK
<1>7. ASSUME NEW ms \in SUBSET Droppable, NEW fail \in BOOLEAN, FailDrop(ms, fail) PROVE final
  BY Zenon, <1>7 DEF FailDrop, Retire, Queued
<1>8. final
  BY <1>2, <1>3, <1>4, <1>5, <1>6, <1>7, NextCases, Zenon
<1>9. \A m \in Msgs : Dropped(m) => Dropped(m)'
  BY Zenon, <1>8 DEF Dropped
<1>10. \A m \in Msgs : Disturbed(m) => Disturbed(m)'
  BY Zenon, <1>9 DEF Disturbed, Base
<1> QED BY Zenon, <1>8, <1>9, <1>10

\* All steps keep the rows in step with those who hold the messages.
LEMMA RowsStep ==
  TypeOK /\ JobsNamed /\ BusyInv /\ JobInv /\ TransactionInv /\ RowsInv /\ [Next]_vars => RowsInv'
<1> SUFFICES ASSUME TypeOK, JobsNamed, BusyInv, JobInv, TransactionInv, RowsInv, [Next]_vars PROVE RowsInv'
  OBVIOUS
<1>a. ASSUME row' = row, worker' = worker PROVE \A e \in Domains : RowsOK(worker[e])'
  BY Zenon, <1>a, SameRows DEF RowsInv
<1>b. \A m \in Msgs : Disturbed(m) => Disturbed(m)'
  BY Zenon, RowFinal
<1>1. CASE Quiet
  BY Zenon, <1>1, <1>a, QuietEffect, RowsKept DEF StaysQuiet, RowsInv
<1>2. CASE Launch
  <2>1. PICK new \in SUBSET Domains :
          /\ \A d \in Domains \ new : worker'[d] = worker[d]
          /\ \A d \in new : Started(d)
    BY <1>2, LaunchEffect, Zenon DEF Starts
  <2>2. OnlyWorker
    BY Zenon, <1>2, LaunchEffect DEF Starts
  <2>3. ASSUME NEW e \in Domains PROVE RowsOK(worker[e])'
    <3>1. CASE e \in new
      BY ZenonT(60), <2>1, <2>2, <3>1 DEF Started, OnlyWorker, RowsOK, Unsettled
    <3>2. CASE e \notin new
      BY Zenon, <2>1, <2>2, <3>2, SameRows DEF OnlyWorker, RowsInv
    <3> QED BY Zenon, <3>1, <3>2
  <2> QED BY Zenon, <2>2, <2>3, RowsKept DEF OnlyWorker, RowsInv
<1>i. RowsOK(Idle)'
  BY Zenon DEF RowsOK, Unsettled, Idle
<1>3. CASE Crash
  <2>1. row' = row /\ adding' = {} /\ trash' = {} /\ \A e \in Domains : worker'[e] = Idle
    BY Zenon, <1>3 DEF Crash, db
  <2>2. \A e \in Domains : RowsOK(worker[e])'
    BY <2>1 DEF RowsOK, Unsettled, Idle
  <2> QED BY Zenon, <2>1, <2>2, RowsKept
<1>4. ASSUME NEW d \in Domains, ReceiveResult(d) PROVE RowsInv'
  <2>1. OnlyWorker /\ worker'[d] = Idle /\ \A e \in Domains \ {d} : worker'[e] = worker[e]
    BY Zenon, <1>4, ReceiveResultEffect DEF Reports
  <2>2. RowsOK(worker[d])'
    BY <2>1 DEF RowsOK, Unsettled, Idle
  <2> QED BY Zenon, <2>1, <2>2, RowsQuietDeliver DEF OnlyWorker, RowsInv
<1>5. ASSUME NEW s \in Submissions, AddLink(s) PROVE RowsInv'
  <2>1. /\ row' = row /\ worker' = worker /\ trash' = trash /\ adding' = s /\ file' = file \cup s
        /\ \A m \in s : row[m] = "absent"
    BY Zenon, <1>5 DEF AddLink, db
  <2> QED BY Zenon, <2>1, <1>a, <1>b DEF RowsInv, Dropped
<1>6. ASSUME NEW s \in Submissions, AddLeftover(s) PROVE RowsInv'
  <2>1. row' = row /\ worker' = worker /\ trash' = trash /\ adding' = adding /\ adding = {}
    BY Zenon, <1>6 DEF AddLeftover, db, DbFree
  <2> QED BY Zenon, <2>1, <1>a, RowsKept
<1>7. CASE AddFail
  <2>1. row' = row /\ worker' = worker /\ trash' = trash /\ adding' = {}
    BY Zenon, <1>7 DEF AddFail, db
  <2> QED BY Zenon, <2>1, <1>a, RowsKept
<1>8. CASE FailDropFiles
  <2>1. row' = row /\ worker' = worker /\ trash' = {} /\ adding' = adding /\ file' = file \ trash
    BY Zenon, <1>8 DEF FailDropFiles, db
  <2>2. \A m \in adding' : m \in adding /\ m \in file'
    BY Zenon, <2>1 DEF RowsInv, Dropped
  <2> QED BY Zenon, <2>1, <2>2, <1>a, RowsKept
<1>9. CASE AddCommit
  <2>1. /\ adding \in Submissions /\ adding \subseteq Msgs
        /\ \A m \in Msgs : row'[m] = IF m \in adding THEN "queued" ELSE row[m]
        /\ \A m \in adding : row[m] = "absent"
        /\ adding' = {} /\ trash' = trash /\ worker' = worker
    BY Zenon, <1>9 DEF AddCommit, TransactionInv, RowsInv, TypeOK
  <2>2. ASSUME NEW e \in Domains PROVE RowsOK(worker[e])'
    <3> DEFINE w == worker[e]
    <3>1. RowsOK(w) /\ worker'[e] = w
      BY Zenon, <2>1 DEF RowsInv
    <3>2. \A m \in Unsettled(w) \cup w.retire \cup w.lose : m \in Msgs
      BY Zenon, OwnDomain
    <3>3. w.pc \in {"begin", "prepare"} => w.m0 \in Msgs
      BY Zenon, OwnDomain
    <3> HIDE DEF w
    <3>4. \A m \in Unsettled(w) \cup w.retire \cup w.lose : row'[m] = row[m]
      BY ZenonT(60), <2>1, <3>1, <3>2 DEF RowsOK
    <3>5. w.pc \in {"begin", "prepare"} => row'[w.m0] = row[w.m0]
      BY Zenon, <2>1, <3>1, <3>3 DEF RowsOK, Dropped
    <3> QED BY SMTT(60), <1>b, <3>1, <3>2, <3>4, <3>5 DEF RowsOK, Unsettled, Dropped
  <2>3. \A m \in trash' : Dropped(m)'
    BY Zenon, <2>1 DEF RowsInv, Dropped, TypeOK
  <2> QED BY Zenon, <1>b, <2>1, <2>2, <2>3 DEF RowsInv
<1>10. ASSUME NEW ms \in SUBSET Droppable, NEW fail \in BOOLEAN, FailDrop(ms, fail) PROVE RowsInv'
  <2> DEFINE out == IF fail THEN "aborted" ELSE "canceled"
  <2>1. /\ \A m \in Msgs : row'[m] = IF m \in ms THEN out ELSE row[m]
        /\ \A m \in ms : m \in Msgs /\ row[m] = "queued"
        /\ adding' = adding /\ trash' = ms /\ worker' = worker /\ file' = file
        /\ adding = {} /\ \A e \in Domains : worker[e].pc # "failing"
    BY Zenon, <1>10 DEF FailDrop, Retire, Queued, DbFree
  <2>2. out \in {"canceled", "aborted"}
    OBVIOUS
  <2> HIDE DEF out
  <2>3. ASSUME NEW e \in Domains PROVE RowsOK(worker[e])'
    <3> DEFINE w == worker[e]
    <3>1. RowsOK(w) /\ JobOK(e, w) /\ worker'[e] = w /\ w.pc # "failing"
      BY Zenon, <2>1 DEF RowsInv, JobInv
    <3>2. \A m \in Unsettled(w) \cup w.retire \cup w.lose : m \in Msgs
      BY Zenon, OwnDomain
    <3>3. w.pc \in {"begin", "prepare"} => w.m0 \in Msgs
      BY Zenon, OwnDomain
    <3> HIDE DEF w
    <3>4. w.lose = {}
      BY Zenon, <3>1 DEF JobOK
    <3>5. \A m \in Unsettled(w) : row'[m] \in {"queued", "canceled", "aborted", "lost"}
      BY Zenon, <2>1, <2>2, <3>1, <3>2 DEF RowsOK
    <3>6. \A m \in w.retire : row'[m] = "delivered"
      BY Zenon, <2>1, <2>2, <3>1, <3>2 DEF RowsOK
    <3>7. w.pc \in {"begin", "prepare"} => row'[w.m0] \in {"queued", "canceled", "aborted"}
      BY Zenon, <2>1, <2>2, <3>1, <3>3 DEF RowsOK, Dropped
    <3> QED BY Zenon, <3>1, <3>4, <3>5, <3>6, <3>7 DEF RowsOK, Unsettled, Dropped
  <2>4. \A m \in trash' : Dropped(m)'
    BY Zenon, <2>1, <2>2 DEF Dropped
  <2>5. \A m \in Msgs : row'[m] # "absent" => m \in UNION Submissions
    BY Zenon, <2>1 DEF RowsInv
  <2>6. \A m \in Msgs : row'[m] = "lost" => Disturbed(m)'
    BY Zenon, <1>b, <2>1, <2>2 DEF RowsInv
  <2> QED BY Zenon, <2>1, <2>3, <2>4, <2>5, <2>6 DEF RowsInv
<1> QED
  BY Zenon, <1>1, <1>2, <1>3, <1>4, <1>5, <1>6, <1>7, <1>8, <1>9, <1>10, NextCases, RowsDeliver

-----------------------------------------------------------------------------
(* Rows and files. *)

\* A step that changes no row and no file.
LEMMA FilesKept ==
  ASSUME FilesInv, row' = row, file' = file, dsn' = dsn /\ untold' = untold, adding' = adding, trash' = trash, crashes' = crashes,
         \A e \in Domains : /\ worker'[e].retire = worker[e].retire
                            /\ worker'[e].pc = "failing" => worker[e].pc = "failing"
  PROVE  FilesInv'
BY Zenon DEF FilesInv, Queued, Notified, RowHasFile, FileHasRow, BeingRemoved

\* Steps of a delivery that keep rows and files.
LEMMA FilesSameDeliver ==
  ASSUME FilesInv, NEW d \in Domains, row' = row, file' = file, dsn' = dsn /\ untold' = untold, adding' = adding, trash' = trash,
         crashes' = crashes, NEW pc, pc # "failing", NEW batch, NEW took, NEW fails, NEW lose,
         Becomes(d, pc, batch, took, fails, worker[d].retire, lose)
  PROVE  FilesInv'
<1>1. \A e \in Domains : /\ worker'[e].retire = worker[e].retire
                         /\ worker'[e].pc = "failing" => worker[e].pc = "failing"
  BY Zenon DEF Becomes
<1> QED BY Zenon, <1>1, FilesKept

\* A delivery removes files together with their rows.
LEMMA FilesDeliver ==
  ASSUME TypeOK, JobsNamed, JobInv, TransactionInv, RowsInv, FilesInv, NEW d \in Domains, Deliver(d)
  PROVE  FilesInv'
<1> DEFINE w == worker[d]
<1>a. JobOK(d, w) /\ RowsOK(w) /\ w \in Job
  BY Zenon DEF JobInv, RowsInv, TypeOK
<1>b. dsn \in [Msgs -> Nat] /\ file \subseteq Msgs /\ row \in [Msgs -> Rows]
  BY Zenon DEF TypeOK
<1>1. CASE Begin(d)
  <2>1. PICK pc \in {"report", "prepare"} : Becomes(d, pc, w.batch, w.took, w.fails, w.retire, w.lose)
    BY Zenon, <1>1, BeginEffect DEF Begins
  <2>2. OnlyWorker /\ pc # "failing"
    BY Zenon, <1>1, BeginEffect DEF Begins
  <2> QED BY Zenon, <2>1, <2>2, FilesSameDeliver DEF OnlyWorker
<1>2. CASE PrepareGone(d)
  <2>1. OnlyWorker /\ Becomes(d, "report", w.batch, w.took, w.fails, w.retire, w.lose)
    BY Zenon, <1>2, PrepareGoneEffect DEF GoneBefore
  <2> QED BY Zenon, <2>1, FilesSameDeliver DEF OnlyWorker
<1>3. ASSUME NEW perm \in BOOLEAN, PrepareFail(d, perm) PROVE FilesInv'
  <2>1. /\ w.pc = "prepare" /\ w.m0 \in Msgs /\ row[w.m0] = "queued" /\ DbFree
        /\ row' = row /\ adding' = adding /\ trash' = trash /\ crashes' = crashes
    BY <1>3, PrepareFailEffect, Zenon DEF FailsEarly
  <2>2. CASE /\ file' = file \ {w.m0}
             /\ Tells({w.m0})
             /\ Becomes(d, "failing", w.batch, w.took, w.fails, {w.m0}, w.lose)
    <3>1. \A m \in Msgs : Notified(m) => Notified(m)'
      BY Zenon, <2>2 DEF Tells
    <3>2. \A m \in {w.m0} : Notified(m)'
      <4>1. CASE w.m0 \in file
        BY Zenon, <2>1, <2>2, <4>1 DEF Tells
      <4>2. CASE w.m0 \notin file
        <5>1. Notified(w.m0)
          BY Zenon, <2>1, <4>2 DEF FilesInv, Queued
        <5> QED BY Zenon, <2>1, <3>1, <5>1
      <4> QED BY Zenon, <4>1, <4>2
    <3>3. /\ worker'[d].retire = {w.m0} /\ worker'[d].pc = "failing" /\ w.retire = {}
          /\ \A e \in Domains \ {d} : worker'[e] = worker[e]
      BY Zenon, <1>a, <2>1, <2>2 DEF Becomes, JobOK
    <3>4. \A e \in Domains : worker'[e].pc = "failing" => e = d
      BY Zenon, <2>1, <3>3 DEF DbFree
    <3>5. \A m : BeingRemoved(m) => BeingRemoved(m)'
      <4>1. \A m : \A e \in Domains : m \in worker[e].retire => m \in worker'[e].retire
        BY Zenon, <3>3
      <4> QED BY Zenon, <2>1, <4>1 DEF BeingRemoved
    <3>6. \A m \in {w.m0} : BeingRemoved(m)'
      BY Zenon, <3>3 DEF BeingRemoved
    <3>7. file' = file \ {w.m0}
      BY Zenon, <2>2
    <3>8. \A m \in Queued' : m \notin file' => Notified(m)'
      <4>1. Queued' = Queued
        BY Zenon, <2>1 DEF Queued
      <4>2. \A m \in Queued : m # w.m0 /\ m \notin file => Notified(m)'
        BY Zenon, <3>1 DEF FilesInv, Queued
      <4> QED BY Zenon, <3>2, <3>7, <4>1, <4>2
    <3>9. RowHasFile'
      BY Zenon, <2>1, <3>5, <3>6, <3>7 DEF FilesInv, RowHasFile, Queued
    <3>10. FileHasRow'
      BY Zenon, <2>1, <3>5, <3>7 DEF FilesInv, FileHasRow
    <3> QED BY Zenon, <3>2, <3>3, <3>4, <3>7, <3>8, <3>9, <3>10 DEF FilesInv
  <2>3. CASE /\ dsn' = dsn /\ untold' = untold /\ file' = file
             /\ Becomes(d, "report", w.batch, w.took, w.fails, w.retire, w.lose)
    BY Zenon, <2>1, <2>3, FilesSameDeliver
  <2> QED BY <1>3, <2>2, <2>3, PrepareFailEffect, Zenon DEF FailsEarly
<1>4. ASSUME NEW more \in SUBSET Msgs, NEW direct \in BOOLEAN, PrepareBatch(d, more, direct) PROVE FilesInv'
  <2>1. /\ row' = row /\ file' = file /\ dsn' = dsn /\ untold' = untold /\ adding' = adding /\ trash' = trash /\ crashes' = crashes
        /\ Becomes(d, "attempt", {w.m0} \cup more, w.took, w.fails, w.retire, w.lose)
    BY <1>4, PrepareBatchEffect, ZenonT(60) DEF Prepares
  <2> QED BY Zenon, <2>1, FilesSameDeliver
<1>5. ASSUME NEW perm \in BOOLEAN, AttemptFails(d, perm) \/ (AttemptRefused(d) /\ ~perm) PROVE FilesInv'
  <2>1. /\ OnlyWorker
        /\ Becomes(d, "settle", w.batch, w.took, {[ms |-> w.batch, perm |-> perm]}, w.retire, w.lose)
    BY <1>5, AttemptFailsEffect, Zenon DEF AllFail
  <2> QED BY Zenon, <2>1, FilesSameDeliver DEF OnlyWorker
<1>6. ASSUME NEW no \in SUBSET w.batch, NEW later \in SUBSET w.batch, NEW kept \in SUBSET w.batch,
             AttemptSplit(d, no, later, kept)
      PROVE  FilesInv'
  <2>1. PICK took, fails : Becomes(d, "settle", w.batch, took, fails, w.retire, w.lose)
    BY <1>6, AttemptSplitEffect, Zenon DEF Splits
  <2>2. row' = row /\ file' = file /\ dsn' = dsn /\ untold' = untold /\ adding' = adding /\ trash' = trash /\ crashes' = crashes
    BY <1>6, AttemptSplitEffect, Zenon DEF Splits
  <2> QED BY Zenon, <2>1, <2>2, FilesSameDeliver
<1>7. CASE RetireDelivered(d)
  <2>a. /\ w.pc = "settle" /\ DbFree /\ file' = file /\ dsn' = dsn /\ untold' = untold /\ adding' = adding /\ trash' = trash
        /\ crashes' = crashes
    BY <1>7, RetireDeliveredEffect, Zenon DEF Retires
  <2>b. w.retire = {}
    BY Zenon, <1>a, <2>a DEF JobOK
  <2>1. CASE /\ w.took \subseteq Queued
             /\ row' = [m \in Msgs |-> IF m \in w.took THEN "delivered" ELSE row[m]]
             /\ Becomes(d, "unlink", w.batch, {}, w.fails, w.took, w.lose)
    <3>1. /\ worker'[d].retire = w.took /\ worker'[d].pc = "unlink"
          /\ \A e \in Domains \ {d} : worker'[e] = worker[e]
      BY Zenon, <2>1 DEF Becomes
    <3>2. \A m : \A e \in Domains : m \in worker[e].retire => m \in worker'[e].retire
      BY Zenon, <2>b, <3>1
    <3>3. \A m : BeingRemoved(m) => BeingRemoved(m)'
      BY Zenon, <2>a, <3>2 DEF BeingRemoved
    <3>4. \A m \in w.took : BeingRemoved(m)'
      BY Zenon, <3>1 DEF BeingRemoved
    <3>5. \A m \in Msgs : /\ m \in w.took => row'[m] = "delivered" /\ row[m] = "queued"
                          /\ m \notin w.took => row'[m] = row[m]
      BY Zenon, <2>1 DEF Queued
    <3>6. Queued' \subseteq Queued
      BY Zenon, <3>5 DEF Queued
    <3>7. RowHasFile'
      BY Zenon, <2>a, <3>3, <3>6 DEF FilesInv, RowHasFile
    <3>8. FileHasRow'
      BY Zenon, <1>b, <2>a, <3>3, <3>4, <3>5 DEF FilesInv, FileHasRow
    <3>9. \A e \in Domains : worker'[e].pc # "failing"
      BY Zenon, <2>a, <3>1 DEF DbFree
    <3> QED BY Zenon, <2>a, <3>6, <3>7, <3>8, <3>9 DEF FilesInv, Notified
  <2>2. CASE row' = row /\ Becomes(d, "settle", w.batch, {}, w.fails, {}, w.lose)
    BY Zenon, <2>a, <2>b, <2>2, FilesSameDeliver
  <2> QED BY <1>7, <2>1, <2>2, RetireDeliveredEffect, Zenon DEF Retires
<1>8. CASE Unlink(d)
  <2>1. /\ w.pc = "unlink" /\ row' = row /\ dsn' = dsn /\ untold' = untold /\ adding' = adding /\ trash' = trash /\ crashes' = crashes
        /\ file' = file \ w.retire
        /\ Becomes(d, "settle", w.batch, w.took, w.fails, {}, w.lose)
    BY Zenon, <1>8, UnlinkEffect DEF Unlinks
  <2>2. /\ worker'[d].retire = {} /\ worker'[d].pc = "settle"
        /\ \A e \in Domains \ {d} : worker'[e] = worker[e]
    BY Zenon, <2>1 DEF Becomes
  <2>3. \A m \in w.retire : row[m] = "delivered"
    BY Zenon, <1>a, <2>1 DEF RowsOK
  <2>4. \A m : m \notin w.retire /\ BeingRemoved(m) => BeingRemoved(m)'
    BY Zenon, <2>1, <2>2 DEF BeingRemoved
  <2>5. Queued' = Queued /\ \A m \in Queued : m \notin w.retire
    BY Zenon, <2>1, <2>3 DEF Queued
  <2>6. RowHasFile' /\ FileHasRow'
    BY Zenon, <2>1, <2>4, <2>5 DEF FilesInv, RowHasFile, FileHasRow
  <2>7. \A m \in Queued' : m \notin file' => Notified(m)'
    BY Zenon, <2>1, <2>5 DEF FilesInv, Notified
  <2>8. \A e \in Domains : worker'[e].pc = "failing" => worker'[e] = worker[e] /\ worker[e].pc = "failing"
    BY Zenon, <2>2
  <2> QED BY Zenon, <2>1, <2>6, <2>7, <2>8 DEF FilesInv, Notified
<1>9. ASSUME NEW gs \in SUBSET w.fails, FailMsgs(d, gs) PROVE FilesInv'
  <2>1. PICK final, retire, lose : FailsAs(d, gs, final, retire, lose)
    BY <1>9, FailMsgsEffect, ZenonT(60) DEF FailsGroups
  <2>2. /\ w.pc = "settle" /\ DbFree
        /\ row' = row /\ adding' = adding /\ trash' = trash /\ crashes' = crashes
    BY <1>9, FailMsgsEffect, ZenonT(60) DEF FailsGroups
  <2>3. /\ file' = file \ retire
        /\ \A m \in retire : \E g \in final : m \in g.ms /\ g.ms \subseteq Queued
        /\ Tells(UNION {g.ms : g \in final})
        /\ Becomes(d, "failing", w.batch, w.took, w.fails \ gs, retire, lose)
    BY <2>1, Zenon DEF FailsAs
  <2>4. /\ worker'[d].retire = retire /\ worker'[d].pc = "failing" /\ w.retire = {}
        /\ \A e \in Domains \ {d} : worker'[e] = worker[e]
    BY Zenon, <1>a, <2>2, <2>3 DEF Becomes, JobOK
  <2>5. \A m \in Msgs : Notified(m) => Notified(m)'
    BY Zenon, <2>3 DEF Tells
  <2>6. \A m \in retire : m \in Queued /\ \E g \in final : m \in g.ms
    BY Zenon, <2>3
  <2>7. \A m \in retire : Notified(m)'
    <3>1. \A m \in retire : m \in file => Notified(m)'
      BY Zenon, <2>3, <2>6 DEF Tells, Queued
    <3>2. \A m \in retire : m \notin file => Notified(m)'
      BY Zenon, <2>5, <2>6 DEF FilesInv, Queued
    <3> QED BY Zenon, <3>1, <3>2
  <2>8. \A m : \A e \in Domains : m \in worker[e].retire => m \in worker'[e].retire
    BY Zenon, <2>4
  <2>9. \A m : BeingRemoved(m) => BeingRemoved(m)'
    BY Zenon, <2>2, <2>8 DEF BeingRemoved
  <2>10. \A m \in retire : BeingRemoved(m)'
    BY Zenon, <2>4 DEF BeingRemoved
  <2>11. Queued' = Queued
    BY Zenon, <2>2 DEF Queued
  <2>12. RowHasFile'
    BY Zenon, <2>2, <2>3, <2>9, <2>10, <2>11 DEF FilesInv, RowHasFile
  <2>13. FileHasRow'
    BY Zenon, <2>2, <2>3, <2>9 DEF FilesInv, FileHasRow
  <2>14. \A m \in Queued' : m \notin file' => Notified(m)'
    <3>1. ASSUME NEW m \in Queued, m \notin file' PROVE Notified(m)'
      <4>1. CASE m \in retire
        BY Zenon, <2>7, <4>1
      <4>2. CASE m \notin retire
        <5>1. m \in Msgs /\ Notified(m)
          BY Zenon, <2>3, <3>1, <4>2 DEF FilesInv, Queued
        <5> QED BY Zenon, <2>5, <5>1
      <4> QED BY Zenon, <4>1, <4>2
    <3> QED BY Zenon, <2>11, <3>1
  <2>15. \A e \in Domains : worker'[e].pc = "failing" => e = d
    BY Zenon, <2>2, <2>4 DEF DbFree
  <2> QED BY Zenon, <2>3, <2>4, <2>7, <2>12, <2>13, <2>14, <2>15 DEF FilesInv
<1>10. CASE FailCommit(d)
  <2>1. /\ w.pc = "failing" /\ Becomes(d, "settle", w.batch, w.took, w.fails, {}, {})
        /\ \A m \in Msgs : row'[m] = IF m \in w.lose THEN "lost" ELSE IF m \in w.retire THEN "failed" ELSE row[m]
        /\ file' = file /\ dsn' = dsn /\ untold' = untold /\ adding' = adding /\ trash' = trash /\ crashes' = crashes
    BY <1>10, FailCommitEffect, ZenonT(60) DEF CommitsFailure
  <2>2. /\ worker'[d].retire = {} /\ worker'[d].pc = "settle"
        /\ \A e \in Domains \ {d} : worker'[e] = worker[e]
    BY Zenon, <2>1 DEF Becomes
  <2>3. \A m \in w.retire : m \notin file
    BY Zenon, <2>1 DEF FilesInv
  <2>4. \A m : m \notin w.retire /\ BeingRemoved(m) => BeingRemoved(m)'
    BY Zenon, <2>1, <2>2 DEF BeingRemoved
  <2>5. \A m \in Queued' : m \in Queued /\ m \notin w.retire
    BY Zenon, <2>1 DEF Queued
  <2>6. RowHasFile'
    BY Zenon, <2>1, <2>4, <2>5 DEF FilesInv, RowHasFile
  <2>7. FileHasRow'
    BY Zenon, <1>b, <2>1, <2>3, <2>4 DEF FilesInv, FileHasRow
  <2>8. \A e \in Domains : worker'[e].pc = "failing" => worker'[e] = worker[e] /\ worker[e].pc = "failing"
    BY Zenon, <2>2
  <2> QED BY Zenon, <2>1, <2>5, <2>6, <2>7, <2>8 DEF FilesInv, Notified
<1>11. CASE Settled(d)
  <2>1. OnlyWorker /\ Becomes(d, "report", {}, w.took, w.fails, w.retire, w.lose)
    BY Zenon, <1>11, SettledEffect DEF Settles
  <2> QED BY Zenon, <2>1, FilesSameDeliver DEF OnlyWorker
<1>12. CASE AttemptRefused(d)
  BY Zenon, <1>5, <1>12
<1> QED
  BY Zenon, <1>1, <1>2, <1>3, <1>4, <1>5, <1>6, <1>7, <1>8, <1>9, <1>10, <1>11, <1>12 DEF Deliver
\* All steps keep rows and files together.
LEMMA FilesStep ==
  TypeOK /\ JobsNamed /\ BusyInv /\ JobInv /\ TransactionInv /\ RowsInv /\ FilesInv /\ [Next]_vars => FilesInv'
<1> SUFFICES ASSUME TypeOK, JobsNamed, BusyInv, JobInv, TransactionInv, RowsInv, FilesInv, [Next]_vars
             PROVE  FilesInv'
  OBVIOUS
<1>b. dsn \in [Msgs -> Nat] /\ file \subseteq Msgs /\ row \in [Msgs -> Rows] /\ crashes \in Nat
  BY QueueAssumption DEF TypeOK
<1>1. CASE Quiet
  BY Zenon, <1>1, QuietEffect, FilesKept DEF StaysQuiet
<1>2. CASE Launch
  <2>1. PICK new \in SUBSET Domains :
          /\ \A d \in Domains \ new : worker'[d] = worker[d]
          /\ \A d \in new : worker[d].pc = "idle" /\ Started(d)
    BY <1>2, LaunchEffect, Zenon DEF Starts
  <2>2. OnlyWorker
    BY Zenon, <1>2, LaunchEffect DEF Starts
  <2>3. \A e \in new : worker[e].retire = {} /\ worker'[e].retire = {} /\ worker'[e].pc # "failing"
    BY Zenon, <2>1 DEF JobInv, JobOK, Started
  <2> QED BY Zenon, <2>1, <2>2, <2>3, FilesKept DEF OnlyWorker
<1>3. CASE Crash
  <2>1. /\ row' = row /\ file' = file /\ dsn' = dsn /\ untold' = untold /\ crashes' > 0
        /\ \A e \in Domains : worker'[e].pc = "idle"
    BY <1>3, <1>b DEF Crash, db, world, Idle
  <2> QED BY <2>1 DEF FilesInv, RowHasFile, FileHasRow, Queued, Notified
<1>4. ASSUME NEW d \in Domains, ReceiveResult(d) PROVE FilesInv'
  <2>1. /\ worker[d].pc = "report" /\ OnlyWorker /\ worker'[d] = Idle
        /\ \A e \in Domains \ {d} : worker'[e] = worker[e]
    BY Zenon, <1>4, ReceiveResultEffect DEF Reports
  <2>2. worker[d].retire = {} /\ worker'[d].retire = {} /\ worker'[d].pc # "failing"
    <3>1. JobOK(d, worker[d])
      BY Zenon DEF JobInv
    <3>2. worker[d].retire = {}
      BY Zenon, <2>1, <3>1 DEF JobOK
    <3> QED BY <2>1, <3>2 DEF Idle
  <2> QED BY Zenon, <2>1, <2>2, FilesKept DEF OnlyWorker
<1>5. ASSUME NEW s \in Submissions, AddLink(s) PROVE FilesInv'
  <2>1. /\ row' = row /\ worker' = worker /\ trash' = trash /\ dsn' = dsn /\ untold' = untold /\ crashes' = crashes
        /\ adding' = s /\ file' = file \cup s /\ adding = {}
        /\ \A m \in s : row[m] = "absent"
        /\ \A d \in Domains : worker[d].pc # "failing"
    BY Zenon, <1>5 DEF AddLink, db, world, DbFree
  <2> QED BY Zenon, <2>1 DEF FilesInv, RowHasFile, FileHasRow, Queued, BeingRemoved, Notified
<1>6. ASSUME NEW s \in Submissions, AddLeftover(s) PROVE FilesInv'
  <2>1. /\ row' = row /\ worker' = worker /\ trash' = trash /\ dsn' = dsn /\ untold' = untold /\ crashes' = crashes
        /\ adding' = adding /\ \E m \in s : file' = file \ {m}
        /\ \A m \in s : row[m] = "absent"
        /\ \A d \in Domains : worker[d].pc # "failing"
    BY Zenon, <1>6 DEF AddLeftover, db, world, DbFree
  <2> QED BY Zenon, <2>1 DEF FilesInv, RowHasFile, FileHasRow, Queued, BeingRemoved, Notified
<1>7. CASE AddFail
  <2>1. /\ row' = row /\ worker' = worker /\ trash' = trash /\ dsn' = dsn /\ untold' = untold /\ crashes' = crashes
        /\ adding' = {} /\ file' = file \ adding
        /\ \A m \in adding : row[m] = "absent"
    BY Zenon, <1>7 DEF AddFail, db, world, RowsInv
  <2> QED BY Zenon, <2>1 DEF FilesInv, RowHasFile, FileHasRow, Queued, BeingRemoved, Notified
<1>8. CASE FailDropFiles
  <2>1. /\ row' = row /\ worker' = worker /\ trash' = {} /\ dsn' = dsn /\ untold' = untold /\ crashes' = crashes
        /\ adding' = adding /\ file' = file \ trash
    BY Zenon, <1>8 DEF FailDropFiles, db, world
  <2>2. Queued' = Queued /\ \A m \in Queued : m \notin trash
    BY Zenon, <2>1 DEF RowsInv, Queued, Dropped
  <2>3. \A m : m \notin trash => (BeingRemoved(m) <=> BeingRemoved(m)')
    BY Zenon, <2>1 DEF BeingRemoved
  <2> QED BY Zenon, <2>1, <2>2, <2>3 DEF FilesInv, RowHasFile, FileHasRow, Notified
<1>9. CASE AddCommit
  <2>1. /\ \A m \in Msgs : row'[m] = IF m \in adding THEN "queued" ELSE row[m]
        /\ adding' = {} /\ trash' = trash /\ worker' = worker /\ file' = file /\ dsn' = dsn /\ untold' = untold /\ crashes' = crashes
        /\ adding \subseteq file
    BY Zenon, <1>9 DEF AddCommit, RowsInv, world
  <2>2. \A m : BeingRemoved(m) <=> BeingRemoved(m)'
    BY Zenon, <2>1 DEF BeingRemoved
  <2>3. \A m \in Queued' : m \in adding \/ m \in Queued
    BY Zenon, <2>1 DEF Queued
  <2>4. RowHasFile'
    BY Zenon, <2>1, <2>2, <2>3 DEF FilesInv, RowHasFile
  <2>5. FileHasRow'
    BY Zenon, <1>b, <2>1, <2>2 DEF FilesInv, FileHasRow
  <2> QED BY Zenon, <2>1, <2>3, <2>4, <2>5 DEF FilesInv, Notified
<1>10. ASSUME NEW ms \in SUBSET Droppable, NEW fail \in BOOLEAN, FailDrop(ms, fail) PROVE FilesInv'
  <2>1. /\ \A m \in Msgs : m \notin ms => row'[m] = row[m]
        /\ \A m \in Msgs : m \in ms => row'[m] # "queued"
        /\ \E got : Notify(IF fail THEN ms ELSE {}, got)
        /\ adding' = adding /\ trash' = ms /\ trash = {} /\ worker' = worker /\ file' = file /\ crashes' = crashes
        /\ \A e \in Domains : worker[e].pc # "failing"
    BY Zenon, <1>10 DEF FailDrop, Retire, DbFree
  <2>2. \A m : BeingRemoved(m)' <=> BeingRemoved(m) \/ m \in ms
    BY Zenon, <2>1 DEF BeingRemoved
  <2>3. Queued' \subseteq Queued /\ Queued \subseteq Msgs
    BY Zenon, <2>1 DEF Queued
  <2>4. RowHasFile'
    BY Zenon, <2>1, <2>2, <2>3 DEF FilesInv, RowHasFile
  <2>5. FileHasRow'
    BY Zenon, <1>b, <2>1, <2>2 DEF FilesInv, FileHasRow
  <2>6. ASSUME NEW m \in Queued', m \notin file' PROVE Notified(m)'
    <3>1. m \in Msgs /\ Notified(m)
      BY Zenon, <2>1, <2>3, <2>6 DEF FilesInv
    <3>2. Tells(IF fail THEN ms ELSE {})
      BY Zenon, <2>1, NotifyTells
    <3> QED BY Zenon, <3>1, <3>2 DEF Tells
  <2> QED BY Zenon, <2>1, <2>4, <2>5, <2>6 DEF FilesInv
<1> QED
  BY Zenon, <1>1, <1>2, <1>3, <1>4, <1>5, <1>6, <1>7, <1>8, <1>9, <1>10, NextCases, FilesDeliver

=============================================================================
