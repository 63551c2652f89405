----------------------------- MODULE QueueProofs -----------------------------
(***************************************************************************)
(* Proofs about Queue, for any messages, domains, submissions, commands of *)
(* the operator, crashes and limits.                                       *)
(***************************************************************************)
EXTENDS Queue, FiniteSetTheorems, TLAPS

-----------------------------------------------------------------------------
(* Cardinalities. *)

\* An image of a finite set is no larger than the set.
LEMMA ImageSize ==
  ASSUME NEW S, IsFiniteSet(S), NEW f
  PROVE  LET T == {f[x] : x \in S} IN IsFiniteSet(T) /\ Cardinality(T) <= Cardinality(S)
<1> DEFINE T == {f[x] : x \in S}
           g == [x \in S |-> f[x]]
<1>1. g \in Surjection(S, T)
  BY Zenon DEF Surjection
<1> QED BY Zenon, <1>1, FS_Surjection

\* Two different NextAttempt times never have to share a slot: some slot is free for the
\* messages that get a new time.
LEMMA FreeSlot ==
  ASSUME TypeOK, NEW ms \in SUBSET Msgs, ms # {}
  PROVE  \E s \in Msgs : \A m \in Msgs \ ms : slot[m] # s
<1> DEFINE rest == Msgs \ ms
           used == {slot[m] : m \in rest}
<1>1. IsFiniteSet(Msgs) /\ rest \in SUBSET Msgs /\ rest # Msgs
  BY Zenon, QueueAssumption
<1>2. IsFiniteSet(rest) /\ Cardinality(rest) <= Cardinality(Msgs) /\ Cardinality(rest) # Cardinality(Msgs)
  BY Zenon, <1>1, FS_Subset
<1>3. IsFiniteSet(used) /\ Cardinality(used) <= Cardinality(rest)
  BY Zenon, <1>2, ImageSize
<1>4. Cardinality(used) \in Nat /\ Cardinality(rest) \in Nat /\ Cardinality(Msgs) \in Nat
  BY Zenon, <1>1, <1>2, <1>3, FS_CardinalityType
<1>5. Cardinality(used) # Cardinality(Msgs)
  BY <1>2, <1>3, <1>4
<1>6. used # Msgs
  BY Zenon, <1>5
<1>7. used \subseteq Msgs
  BY DEF TypeOK
<1> QED BY Zenon, <1>6, <1>7

LEMMA RescheduleType ==
  ASSUME TypeOK, NEW ms \in SUBSET Msgs, ms # {}, NEW v \in BOOLEAN, Reschedule(ms, v)
  PROVE  due' \in [Msgs -> BOOLEAN] /\ slot' \in [Msgs -> Msgs]
<1> DEFINE new == CHOOSE s \in Msgs : \A m \in Msgs \ ms : slot[m] # s
<1>1. new \in Msgs
  BY Zenon, FreeSlot
<1>2. slot' = [m \in Msgs |-> IF m \in ms THEN new ELSE slot[m]]
  BY Zenon DEF Reschedule
<1> HIDE DEF new
<1>3. slot' \in [Msgs -> Msgs]
  BY Zenon, <1>1, <1>2 DEF TypeOK
<1>4. due' \in [Msgs -> BOOLEAN]
  BY Zenon DEF Reschedule, TypeOK
<1> QED BY Zenon, <1>3, <1>4

LEMMA AttemptedType ==
  ASSUME TypeOK, NEW ms \in SUBSET Msgs, ms # {}, Attempted(ms)
  PROVE  /\ att' \in [Msgs -> Nat]
         /\ due' \in [Msgs -> BOOLEAN] /\ slot' \in [Msgs -> Msgs]
<1>1. att' \in [Msgs -> Nat]
  BY DEF Attempted, TypeOK
<1> QED BY Zenon, <1>1, RescheduleType DEF Attempted

-----------------------------------------------------------------------------
(* Type correctness. *)

\* A step of one delivery keeps the types of all of them.
LEMMA WorkerType ==
  ASSUME TypeOK, JobsNamed, NEW d \in Domains, NEW job \in Job, Step(d, job),
         job.pc # "idle" => job.m0 \in Msgs
  PROVE  worker' \in [Domains -> Job] /\ JobsNamed'
BY Zenon DEF TypeOK, JobsNamed, Step

LEMMA TypeInit == Init => TypeOK /\ JobsNamed
<1> SUFFICES ASSUME Init PROVE TypeOK /\ JobsNamed
  OBVIOUS
<1>1. Idle \in Job
  BY Zenon DEF Idle, Job
<1>2. rule \in BOOLEAN /\ kick \in BOOLEAN /\ stopping \in BOOLEAN
  BY Zenon DEF Init
<1>3. due \in [Msgs -> BOOLEAN] /\ hold \in [Msgs -> BOOLEAN]
  BY Zenon DEF Init
<1>4. worker \in [Domains -> Job]
  BY Zenon, <1>1 DEF Init
<1>5. JobsNamed
  BY Zenon DEF Init, Idle, JobsNamed
<1> QED BY <1>2, <1>3, <1>4, <1>5, QueueAssumption DEF Init, TypeOK, Rows

\* Notices are counted, for messages.
LEMMA NotifyType ==
  ASSUME TypeOK, NEW ms \in SUBSET Msgs, NEW got, Notify(ms, got)
  PROVE  dsn' \in [Msgs -> Nat] /\ untold' \subseteq Msgs
<1>1. dsn' = [m \in Msgs |-> IF m \in got THEN dsn[m] + 1 ELSE dsn[m]] /\ untold' = untold \cup ((ms \cap file) \ got)
  BY Zenon DEF Notify
<1> QED BY <1>1 DEF TypeOK

LEMMA SubmitType ==
  ASSUME TypeOK, JobsNamed, Submit PROVE TypeOK' /\ JobsNamed'
<1> USE QueueAssumption DEF db, world, dispatcher
<1>1. ASSUME NEW s \in Submissions, AddLink(s) PROVE TypeOK' /\ JobsNamed'
  BY Zenon, <1>1 DEF AddLink, TypeOK, JobsNamed
<1>2. ASSUME NEW s \in Submissions, AddLeftover(s) PROVE TypeOK' /\ JobsNamed'
  BY Zenon, <1>2 DEF AddLeftover, TypeOK, JobsNamed
<1>3. CASE AddCommit
  <2>1. adding \in SUBSET Msgs /\ adding # {} /\ Reschedule(adding, TRUE)
    BY Zenon, <1>3 DEF AddCommit, TypeOK
  <2>2. due' \in [Msgs -> BOOLEAN] /\ slot' \in [Msgs -> Msgs]
    BY Zenon, <2>1, RescheduleType
  <2>3. row' \in [Msgs -> Rows]
    BY <1>3 DEF AddCommit, TypeOK, Rows
  <2>4. hold' \in [Msgs -> BOOLEAN] /\ kick' \in BOOLEAN
    <3>1. /\ hold' = [m \in Msgs |-> IF m \in adding THEN rule /\ m \in Managed ELSE hold[m]]
          /\ kick' = TRUE
      BY Zenon, <1>3 DEF AddCommit
    <3>2. \A m \in Msgs : (IF m \in adding THEN rule /\ m \in Managed ELSE hold[m]) \in BOOLEAN
      BY Zenon DEF TypeOK
    <3> QED BY Zenon, <3>1, <3>2
  <2> QED BY Zenon, <1>3, <2>2, <2>3, <2>4 DEF AddCommit, TypeOK, JobsNamed
<1>4. CASE AddFail
  BY Zenon, <1>4 DEF AddFail, TypeOK, JobsNamed
<1> QED BY Zenon, <1>1, <1>2, <1>3, <1>4 DEF Submit

LEMMA OperatorType ==
  ASSUME TypeOK, JobsNamed, Operator PROVE TypeOK' /\ JobsNamed'
<1> USE QueueAssumption DEF db, world, dispatcher
<1>1. CASE HoldRuleAdd
  <2>1. hold' \in [Msgs -> BOOLEAN] /\ kick' \in BOOLEAN /\ rule' \in BOOLEAN
    BY Zenon, <1>1 DEF HoldRuleAdd, TypeOK
  <2> QED BY Zenon, <1>1, <2>1 DEF HoldRuleAdd, TypeOK, JobsNamed
<1>2. CASE HoldRuleRemove
  <2>1. rule' \in BOOLEAN
    BY Zenon, <1>2 DEF HoldRuleRemove
  <2> QED BY Zenon, <1>2, <2>1 DEF HoldRuleRemove, TypeOK, JobsNamed
<1>3. CASE TransportSet
  <2>1. kick' \in BOOLEAN
    BY Zenon, <1>3 DEF TransportSet
  <2> QED BY Zenon, <1>3, <2>1 DEF TransportSet, TypeOK, JobsNamed
<1>4. ASSUME NEW m \in Managed, NEW v \in BOOLEAN, HoldSet(m, v) PROVE TypeOK' /\ JobsNamed'
  <2>1. hold' \in [Msgs -> BOOLEAN] /\ kick' \in BOOLEAN
    BY Zenon, <1>4 DEF HoldSet, TypeOK
  <2> QED BY Zenon, <1>4, <2>1 DEF HoldSet, TypeOK, JobsNamed
<1>5. ASSUME NEW ms \in SUBSET Managed, NEW v \in BOOLEAN, NextAttemptSet(ms, v)
      PROVE TypeOK' /\ JobsNamed'
  <2>1. ms \in SUBSET Msgs /\ ms # {} /\ Reschedule(ms, v) /\ kick' \in BOOLEAN
    BY Zenon, <1>5 DEF NextAttemptSet
  <2>2. due' \in [Msgs -> BOOLEAN] /\ slot' \in [Msgs -> Msgs]
    <3> HIDE QueueAssumption
    <3>1. ms \in SUBSET Msgs /\ ms # {}
      BY Zenon, <2>1
    <3>2. Reschedule(ms, v)
      BY Zenon, <2>1
    <3> QED BY <3>1, <3>2, RescheduleType, Zenon
  <2> QED BY Zenon, <1>5, <2>1, <2>2 DEF NextAttemptSet, TypeOK, JobsNamed
<1>6. ASSUME NEW ms \in SUBSET Droppable, NEW fail \in BOOLEAN, FailDrop(ms, fail)
      PROVE TypeOK' /\ JobsNamed'
  <2>1. row' \in [Msgs -> Rows]
    BY <1>6 DEF FailDrop, Retire, TypeOK, Rows
  <2>2. dsn' \in [Msgs -> Nat] /\ untold' \subseteq Msgs
    <3>1. PICK got : Notify(IF fail THEN ms ELSE {}, got)
      BY Zenon, <1>6 DEF FailDrop
    <3>2. (IF fail THEN ms ELSE {}) \in SUBSET Msgs
      BY Zenon
    <3> QED BY Zenon, <3>1, <3>2, NotifyType
  <2> QED BY Zenon, <1>6, <2>1, <2>2 DEF FailDrop, TypeOK, JobsNamed
<1>7. CASE FailDropFiles
  <2>1. kick' \in BOOLEAN
    BY Zenon, <1>7 DEF FailDropFiles
  <2> QED BY Zenon, <1>7, <2>1 DEF FailDropFiles, TypeOK, JobsNamed
<1> QED BY <1>1, <1>2, <1>3, <1>4, <1>5, <1>6, <1>7 DEF Operator

LEMMA DispatchType ==
  ASSUME TypeOK, JobsNamed, Dispatch PROVE TypeOK' /\ JobsNamed'
<1> USE QueueAssumption DEF db, world, dispatcher
<1>1. CASE ReceiveKick
  <2>1. kick' \in BOOLEAN
    BY Zenon, <1>1 DEF ReceiveKick
  <2> QED BY Zenon, <1>1, <2>1 DEF ReceiveKick, Woken, TypeOK, JobsNamed
<1>2. CASE ReceiveTimer
  BY Zenon, <1>2 DEF ReceiveTimer, Woken, TypeOK, JobsNamed
<1>3. CASE ReceiveShutdown
  BY Zenon, <1>3 DEF ReceiveShutdown, TypeOK, JobsNamed
<1>4. ASSUME NEW d \in Domains, ReceiveResult(d) PROVE TypeOK' /\ JobsNamed'
  <2>1. Idle \in Job /\ Idle.pc = "idle"
    BY Zenon DEF Idle, Job
  <2>2. worker' \in [Domains -> Job] /\ JobsNamed'
    BY <1>4, <2>1 DEF ReceiveResult, TypeOK, JobsNamed
  <2>3. busy' \subseteq Domains /\ disp' \in {"select", "launch", "next", "drain", "done"}
    BY Zenon, <1>4 DEF ReceiveResult, Woken, TypeOK
  <2> QED BY Zenon, <1>4, <2>2, <2>3 DEF ReceiveResult, TypeOK
<1>5. CASE Launch
  <2> HIDE QueueAssumption
  <2> DEFINE work == {m \in Candidates : due[m] /\ ~stopping}
  <2>a. PICK first \in SUBSET work : \E ms \in SUBSET first :
          /\ busy' = busy \cup {Dom[m] : m \in ms}
          /\ worker' = [d \in Domains |->
               IF \E m \in ms : Dom[m] = d
               THEN [Idle EXCEPT !.pc = "begin", !.known = TRUE,
                                 !.m0 = CHOOSE m \in ms : Dom[m] = d]
               ELSE worker[d]]
    BY ZenonT(60), <1>5 DEF Launch
  <2>b. work \subseteq Msgs
    BY Zenon DEF Candidates, Queued
  <2> HIDE DEF work
  <2>1. PICK ms \in SUBSET Msgs :
          /\ busy' = busy \cup {Dom[m] : m \in ms}
          /\ worker' = [d \in Domains |->
               IF \E m \in ms : Dom[m] = d
               THEN [Idle EXCEPT !.pc = "begin", !.known = TRUE,
                                 !.m0 = CHOOSE m \in ms : Dom[m] = d]
               ELSE worker[d]]
    BY <2>a, <2>b, Zenon
  <2>2. ASSUME NEW d \in Domains
        PROVE worker'[d] \in Job /\ (worker'[d].pc # "idle" => worker'[d].m0 \in Msgs)
    <3>1. CASE \E m \in ms : Dom[m] = d
      <4> DEFINE x == CHOOSE m \in ms : Dom[m] = d
      <4>1. x \in Msgs
        BY Zenon, <3>1
      <4>2. worker'[d] = [Idle EXCEPT !.pc = "begin", !.known = TRUE, !.m0 = x]
        BY <2>1, <3>1, Zenon
      <4> HIDE DEF x
      <4>3. worker'[d] = [pc |-> "begin", m0 |-> x, known |-> TRUE, direct |-> FALSE, batch |-> {},
                          took |-> {}, fails |-> {}, retire |-> {}, lose |-> {}]
        BY Zenon, <4>2 DEF Idle
      <4>4. worker'[d].m0 = x
        BY <4>3
      <4>5. {} \in SUBSET Msgs /\ {} \in SUBSET Group /\ x \in Msgs \cup {NoMsg}
        BY Zenon, <4>1
      <4>6. "begin" \in {"idle", "begin", "prepare", "attempt", "settle", "failing", "unlink", "report"}
        OBVIOUS
      <4>7. worker'[d] \in Job
        BY <4>3, <4>5, <4>6 DEF Job
      <4> QED BY Zenon, <4>1, <4>4, <4>7
    <3>2. CASE ~\E m \in ms : Dom[m] = d
      BY <2>1, <3>2, Zenon DEF TypeOK, JobsNamed
    <3> QED BY Zenon, <3>1, <3>2
  <2>3. worker' \in [Domains -> Job] /\ JobsNamed'
    BY <2>1, <2>2, Zenon DEF JobsNamed
  <2>4. busy' \subseteq Domains
    <3>1. {Dom[m] : m \in ms} \subseteq Domains
      BY QueueAssumption
    <3> QED BY <2>1, <3>1, Zenon DEF TypeOK
  <2>5. /\ disp' = "next"
        /\ UNCHANGED <<db, file, world, kick, alarm, adding, trash, stopping, crashes>>
    BY <1>5, Zenon DEF Launch
  <2> QED BY Zenon, <2>3, <2>4, <2>5 DEF TypeOK
<1>6. CASE NextWork
  BY Zenon, <1>6 DEF NextWork, Candidates, Queued, TypeOK, JobsNamed
<1>7. CASE Drained
  BY Zenon, <1>7 DEF Drained, TypeOK, JobsNamed
<1> QED BY Zenon, <1>1, <1>2, <1>3, <1>4, <1>5, <1>6, <1>7 DEF Dispatch

LEMMA DeliverType ==
  ASSUME TypeOK, JobsNamed, NEW d \in Domains, Deliver(d) PROVE TypeOK' /\ JobsNamed'
<1> DEFINE w == worker[d]
<1> USE DEF db, world, dispatcher
<1>a. w \in Job /\ (w.pc # "idle" => w.m0 \in Msgs)
  BY Zenon DEF TypeOK, JobsNamed
<1> HIDE DEF w
<1>1. CASE Begin(d)
  <2>1. Step(d, [w EXCEPT !.pc = IF stopping THEN "report" ELSE "prepare"]) /\ w.pc = "begin"
    BY Zenon, <1>1 DEF Begin, w
  <2>2. worker' \in [Domains -> Job] /\ JobsNamed'
    <3>1. [w EXCEPT !.pc = IF stopping THEN "report" ELSE "prepare"] \in Job
      BY Zenon, <1>a DEF Job
    <3> QED BY Zenon, <1>a, <2>1, <3>1, WorkerType DEF Job
  <2> QED BY Zenon, <1>1, <2>2 DEF Begin, TypeOK
<1>2. CASE PrepareGone(d)
  <2>1. Step(d, [w EXCEPT !.pc = "report", !.known = FALSE]) /\ w.pc = "prepare"
    BY Zenon, <1>2 DEF PrepareGone, w
  <2>2. worker' \in [Domains -> Job] /\ JobsNamed'
    <3>1. [w EXCEPT !.pc = "report", !.known = FALSE] \in Job
      BY Zenon, <1>a DEF Job
    <3> QED BY Zenon, <1>a, <2>1, <3>1, WorkerType DEF Job
  <2> QED BY Zenon, <1>2, <2>2 DEF PrepareGone, TypeOK
<1>3. ASSUME NEW perm \in BOOLEAN, PrepareFail(d, perm) PROVE TypeOK' /\ JobsNamed'
  <2>1. w.pc = "prepare" /\ w.m0 \in Msgs
    BY Zenon, <1>3, <1>a DEF PrepareFail, w
  <2>2. CASE GivesUp(att[w.m0] + 1, perm)
    <3>1. Step(d, [w EXCEPT !.pc = "failing", !.retire = {w.m0}])
      BY Zenon, <1>3, <2>2 DEF PrepareFail, w
    <3>2. worker' \in [Domains -> Job] /\ JobsNamed'
      <4>1. [w EXCEPT !.pc = "failing", !.retire = {w.m0}] \in Job
        BY Zenon, <1>a, <2>1 DEF Job
      <4> QED BY Zenon, <1>a, <2>1, <3>1, <4>1, WorkerType DEF Job
    <3>3. (\E got : Notify({w.m0}, got)) /\ file' = file \ {w.m0}
      BY Zenon, <1>3, <2>2 DEF PrepareFail, w
    <3>4. dsn' \in [Msgs -> Nat] /\ untold' \subseteq Msgs /\ file' \subseteq Msgs
      BY Zenon, <2>1, <3>3, NotifyType DEF TypeOK
    <3> QED BY Zenon, <1>3, <2>2, <3>2, <3>4 DEF PrepareFail, TypeOK, w
  <2>3. CASE ~GivesUp(att[w.m0] + 1, perm)
    <3>1. Step(d, [w EXCEPT !.pc = "report"]) /\ Attempted({w.m0}) /\ kick' = TRUE
      BY Zenon, <1>3, <2>3 DEF PrepareFail, w
    <3>2. worker' \in [Domains -> Job] /\ JobsNamed'
      <4>1. [w EXCEPT !.pc = "report"] \in Job
        BY Zenon, <1>a DEF Job
      <4> QED BY Zenon, <1>a, <2>1, <3>1, <4>1, WorkerType DEF Job
    <3>3. /\ att' \in [Msgs -> Nat]
          /\ due' \in [Msgs -> BOOLEAN] /\ slot' \in [Msgs -> Msgs]
      BY Zenon, <2>1, <3>1, AttemptedType
    <3>4. kick' \in BOOLEAN
      BY Zenon, <3>1
    <3> QED BY Zenon, <1>3, <2>3, <3>2, <3>3, <3>4 DEF PrepareFail, TypeOK, w
  <2> QED BY Zenon, <2>2, <2>3
<1>4. ASSUME NEW more \in SUBSET Msgs, NEW direct \in BOOLEAN, PrepareBatch(d, more, direct)
      PROVE TypeOK' /\ JobsNamed'
  <2> DEFINE batch == {w.m0} \cup more
  <2>1. w.pc = "prepare" /\ w.m0 \in Msgs
    BY Zenon, <1>4, <1>a DEF PrepareBatch, w
  <2>2. Step(d, [w EXCEPT !.pc = "attempt", !.batch = batch, !.direct = direct]) /\ Attempted(batch)
    BY Zenon, <1>4 DEF PrepareBatch, w
  <2>3. batch \in SUBSET Msgs /\ batch # {}
    BY Zenon, <2>1
  <2> HIDE DEF batch
  <2>4. worker' \in [Domains -> Job] /\ JobsNamed'
    <3>1. [w EXCEPT !.pc = "attempt", !.batch = batch, !.direct = direct] \in Job
      BY Zenon, <1>a, <2>3 DEF Job
    <3> QED BY Zenon, <1>a, <2>1, <2>2, <3>1, WorkerType DEF Job
  <2>5. /\ att' \in [Msgs -> Nat]
        /\ due' \in [Msgs -> BOOLEAN] /\ slot' \in [Msgs -> Msgs]
    BY Zenon, <2>2, <2>3, AttemptedType
  <2> QED BY Zenon, <1>4, <2>4, <2>5 DEF PrepareBatch, TypeOK
<1>5. ASSUME NEW perm \in BOOLEAN, AttemptFails(d, perm) PROVE TypeOK' /\ JobsNamed'
  <2> DEFINE fails == {[ms |-> w.batch, perm |-> perm]}
  <2>1. Step(d, [w EXCEPT !.pc = "settle", !.fails = fails]) /\ w.pc = "attempt"
    BY Zenon, <1>5 DEF AttemptFails, w
  <2>2. fails \subseteq Group
    BY <1>a DEF Job, Group
  <2> HIDE DEF fails
  <2>3. worker' \in [Domains -> Job] /\ JobsNamed'
    <3>1. [w EXCEPT !.pc = "settle", !.fails = fails] \in Job
      BY Zenon, <1>a, <2>2 DEF Job
    <3> QED BY Zenon, <1>a, <2>1, <3>1, WorkerType DEF Job
  <2> QED BY Zenon, <1>5, <2>3 DEF AttemptFails, TypeOK
<1>6. CASE AttemptRefused(d)
  <2> DEFINE fails == {[ms |-> w.batch, perm |-> FALSE]}
  <2>1. Step(d, [w EXCEPT !.pc = "settle", !.fails = fails]) /\ w.pc = "attempt"
    BY Zenon, <1>6 DEF AttemptRefused, w
  <2>2. fails \subseteq Group
    BY <1>a DEF Job, Group
  <2> HIDE DEF fails
  <2>3. worker' \in [Domains -> Job] /\ JobsNamed'
    <3>1. [w EXCEPT !.pc = "settle", !.fails = fails] \in Job
      BY Zenon, <1>a, <2>2 DEF Job
    <3> QED BY Zenon, <1>a, <2>1, <3>1, WorkerType DEF Job
  <2> QED BY Zenon, <1>6, <2>3 DEF AttemptRefused, TypeOK
<1>7. ASSUME NEW no \in SUBSET w.batch, NEW later \in SUBSET w.batch, NEW kept \in SUBSET w.batch,
             AttemptSplit(d, no, later, kept)
      PROVE TypeOK' /\ JobsNamed'
  <2> DEFINE took == w.batch \ (no \cup later)
             fails == {[ms |-> {m}, perm |-> m \in kept] : m \in no \cup later}
  <2>1. Step(d, [w EXCEPT !.pc = "settle", !.took = took, !.fails = fails]) /\ w.pc = "attempt"
    BY Zenon, <1>7 DEF AttemptSplit, w
  <2>2. w.batch \subseteq Msgs /\ took \subseteq Msgs
    BY Zenon, <1>a DEF Job
  <2>3. fails \subseteq Group
    <3>1. ASSUME NEW m \in no \cup later PROVE [ms |-> {m}, perm |-> m \in kept] \in Group
      <4>1. (m \in kept) \in BOOLEAN /\ {m} \in SUBSET Msgs
        BY <2>2
      <4> QED BY <4>1, Zenon DEF Group
    <3> QED BY Zenon, <3>1
  <2>4. sent' \in [Msgs -> 0..MaxSent]
    <3>1. /\ \A m \in took : sent[m] < MaxSent
          /\ sent' = [m \in Msgs |-> IF m \in took THEN sent[m] + 1 ELSE sent[m]]
      BY Zenon, <1>7 DEF AttemptSplit, w
    <3> HIDE DEF took
    <3> QED BY <3>1, QueueAssumption DEF TypeOK
  <2> HIDE DEF took, fails
  <2>5. worker' \in [Domains -> Job] /\ JobsNamed'
    <3>1. [w EXCEPT !.pc = "settle", !.took = took, !.fails = fails] \in Job
      BY Zenon, <1>a, <2>2, <2>3 DEF Job
    <3> QED BY Zenon, <1>a, <2>1, <3>1, WorkerType DEF Job
  <2> QED BY Zenon, <1>7, <2>4, <2>5 DEF AttemptSplit, TypeOK
<1>8. CASE RetireDelivered(d)
  <2> DEFINE ok == w.took \subseteq Queued
             retire == IF ok THEN w.took ELSE {}
             pc == IF ok THEN "unlink" ELSE "settle"
  <2>1. Step(d, [w EXCEPT !.took = {}, !.pc = pc, !.retire = retire]) /\ w.pc = "settle"
    BY Zenon, <1>8 DEF RetireDelivered, w
  <2>2. row' \in [Msgs -> Rows]
    BY Zenon, <1>8 DEF RetireDelivered, Retire, TypeOK, Rows
  <2>3. kick' \in BOOLEAN
    BY Zenon, <1>8 DEF RetireDelivered
  <2>4. retire \subseteq Msgs /\ pc \in {"unlink", "settle"}
    BY Zenon, <1>a DEF Job
  <2> HIDE DEF retire, pc
  <2>5. worker' \in [Domains -> Job] /\ JobsNamed'
    <3>1. [w EXCEPT !.took = {}, !.pc = pc, !.retire = retire] \in Job
      BY Zenon, <1>a, <2>4 DEF Job
    <3> QED BY Zenon, <1>a, <2>1, <3>1, WorkerType DEF Job
  <2> QED BY Zenon, <1>8, <2>2, <2>3, <2>5 DEF RetireDelivered, TypeOK
<1>9. CASE Unlink(d)
  <2>1. Step(d, [w EXCEPT !.pc = "settle", !.retire = {}]) /\ w.pc = "unlink"
    BY Zenon, <1>9 DEF Unlink, w
  <2>2. worker' \in [Domains -> Job] /\ JobsNamed'
    <3>1. [w EXCEPT !.pc = "settle", !.retire = {}] \in Job
      BY Zenon, <1>a DEF Job
    <3> QED BY Zenon, <1>a, <2>1, <3>1, WorkerType DEF Job
  <2>3. kick' \in BOOLEAN
    BY Zenon, <1>9 DEF Unlink
  <2> QED BY Zenon, <1>9, <2>2, <2>3 DEF Unlink, TypeOK
<1>10. ASSUME NEW gs \in SUBSET w.fails, FailMsgs(d, gs) PROVE TypeOK' /\ JobsNamed'
  <2> DEFINE final == {g \in gs : GivesUp(att[First(g, w)], g.perm)}
             broken == {g \in final : ~(g.ms \subseteq Queued)}
             retire == UNION {g.ms : g \in final \ broken}
  <2>1. /\ w.pc = "settle"
        /\ \E got : Notify(Told(final, w), got)
        /\ file' = file \ retire
        /\ \E lose \in IF broken = {} THEN {{}} ELSE UNION {Deleted(g, w) : g \in broken} :
             Step(d, [w EXCEPT !.pc = "failing", !.fails = @ \ gs, !.retire = retire, !.lose = lose])
    BY <1>10, Zenon DEF FailMsgs, w
  <2>2. \A g \in w.fails : g.ms \subseteq Msgs
    BY Zenon, <1>a DEF Job, Group
  <2>3. retire \subseteq Msgs
    BY Zenon, <2>2
  <2>4. PICK lose \in SUBSET Msgs :
          Step(d, [w EXCEPT !.pc = "failing", !.fails = @ \ gs, !.retire = retire, !.lose = lose])
    <3>1. \A g \in broken : Deleted(g, w) \subseteq SUBSET Msgs
      BY Zenon, <2>2 DEF Deleted
    <3> DEFINE loses == IF broken = {} THEN {{}} ELSE UNION {Deleted(g, w) : g \in broken}
    <3>2. loses \subseteq SUBSET Msgs
      BY <3>1
    <3>3. PICK lose \in loses :
            Step(d, [w EXCEPT !.pc = "failing", !.fails = @ \ gs, !.retire = retire, !.lose = lose])
      BY <2>1, Zenon
    <3> HIDE DEF loses, retire
    <3> QED BY <3>2, <3>3, Zenon
  <2>5. dsn' \in [Msgs -> Nat] /\ untold' \subseteq Msgs /\ file' \subseteq Msgs
    <3>1. Told(final, w) \in SUBSET Msgs
      BY Zenon, <2>2 DEF Told
    <3> HIDE DEF final, retire
    <3> QED BY Zenon, <2>1, <3>1, NotifyType DEF TypeOK
  <2> HIDE DEF retire
  <2>6. worker' \in [Domains -> Job] /\ JobsNamed'
    <3>1. [w EXCEPT !.pc = "failing", !.fails = @ \ gs, !.retire = retire, !.lose = lose] \in Job
      BY Zenon, <1>a, <2>3 DEF Job
    <3> QED BY Zenon, <1>a, <2>1, <2>4, <3>1, WorkerType DEF Job
  <2>7. UNCHANGED <<db, sent, dispatcher, adding, trash, stopping, crashes>>
    BY <1>10, Zenon DEF FailMsgs
  <2> QED BY Zenon, <2>5, <2>6, <2>7 DEF TypeOK
<1>11. CASE FailCommit(d)
  <2>1. Step(d, [w EXCEPT !.pc = "settle", !.retire = {}, !.lose = {}]) /\ w.pc = "failing"
    BY Zenon, <1>11 DEF FailCommit, w
  <2>2. worker' \in [Domains -> Job] /\ JobsNamed'
    <3>1. [w EXCEPT !.pc = "settle", !.retire = {}, !.lose = {}] \in Job
      BY Zenon, <1>a DEF Job
    <3> QED BY Zenon, <1>a, <2>1, <3>1, WorkerType DEF Job
  <2>3. row' \in [Msgs -> Rows]
    BY Zenon, <1>11 DEF FailCommit, Retire, TypeOK, Rows
  <2>4. kick' \in BOOLEAN
    BY Zenon, <1>11 DEF FailCommit
  <2> QED BY Zenon, <1>11, <2>2, <2>3, <2>4 DEF FailCommit, TypeOK
<1>12. CASE Settled(d)
  <2>1. Step(d, [w EXCEPT !.pc = "report", !.batch = {}]) /\ w.pc = "settle"
    BY Zenon, <1>12 DEF Settled, w
  <2>2. worker' \in [Domains -> Job] /\ JobsNamed'
    <3>1. [w EXCEPT !.pc = "report", !.batch = {}] \in Job
      BY Zenon, <1>a DEF Job
    <3> QED BY Zenon, <1>a, <2>1, <3>1, WorkerType DEF Job
  <2> QED BY Zenon, <1>12, <2>2 DEF Settled, TypeOK
<1> QED
  BY Zenon, <1>1, <1>2, <1>3, <1>4, <1>5, <1>6, <1>7, <1>8, <1>9, <1>10, <1>11, <1>12 DEF Deliver, w

LEMMA TypeStep == TypeOK /\ JobsNamed /\ [Next]_vars => TypeOK' /\ JobsNamed'
<1> SUFFICES ASSUME TypeOK, JobsNamed, [Next]_vars PROVE TypeOK' /\ JobsNamed'
  OBVIOUS
<1> USE DEF db, world, dispatcher
<1>1. ASSUME NEW m \in Msgs, TimePasses(m) PROVE TypeOK' /\ JobsNamed'
  <2>1. due' \in [Msgs -> BOOLEAN]
    BY Zenon, <1>1 DEF TimePasses, TypeOK
  <2> QED BY Zenon, <1>1, <2>1 DEF TimePasses, TypeOK, JobsNamed
<1>2. CASE Crash
  <2>1. Idle \in Job /\ Idle.pc = "idle"
    BY Zenon DEF Idle, Job
  <2>2. worker' \in [Domains -> Job] /\ JobsNamed'
    BY Zenon, <1>2, <2>1 DEF Crash, JobsNamed
  <2>3. crashes' \in 0..MaxCrashes
    BY <1>2, QueueAssumption DEF Crash, TypeOK
  <2>4. kick' \in BOOLEAN /\ stopping' \in BOOLEAN
    BY Zenon, <1>2 DEF Crash
  <2> QED BY Zenon, <1>2, <2>2, <2>3, <2>4 DEF Crash, TypeOK
<1>3. CASE Shutdown
  <2>1. stopping' \in BOOLEAN
    BY Zenon, <1>3 DEF Shutdown
  <2> QED BY Zenon, <1>3, <2>1 DEF Shutdown, TypeOK, JobsNamed
<1>4. CASE UNCHANGED vars
  BY Zenon, <1>4 DEF vars, TypeOK, JobsNamed
<1> QED BY Zenon, <1>1, <1>2, <1>3, <1>4, SubmitType, OperatorType, DispatchType, DeliverType DEF Next

\* Every variable of the queue's database, files, dispatcher and deliveries keeps its type,
\* and a delivery goroutine always has a message.
THEOREM QueueTyping == Spec => [](TypeOK /\ JobsNamed)
BY TypeInit, TypeStep, PTL DEF Spec

-----------------------------------------------------------------------------
(* The dispatcher: one delivery per domain, and a bound on all of them. *)

\* A delivery changes no other delivery and leaves the dispatcher alone, except that it kicks;
\* without a kick it puts no message in the queue and releases none.
LEMMA DeliverKept ==
  ASSUME NEW d \in Domains, Deliver(d)
  PROVE  /\ busy' = busy /\ disp' = disp /\ alarm' = alarm
         /\ worker[d].pc # "idle"
         /\ \E job : Step(d, job)
         /\ kick' \/ (~kick /\ hold' = hold /\ Queued' \subseteq Queued)
<1> DEFINE same == busy' = busy /\ disp' = disp /\ alarm' = alarm
           running == worker[d].pc # "idle"
           stepped == \E job : Step(d, job)
           quiet == kick' \/ (~kick /\ hold' = hold /\ Queued' \subseteq Queued)
<1> USE DEF db, dispatcher
<1>1. CASE Begin(d)
  <2>1. same /\ running
    BY Zenon, <1>1 DEF Begin
  <2>2. stepped
    BY <1>1, Zenon DEF Begin
  <2>3. quiet
    BY Zenon, <1>1 DEF Begin, Queued
  <2> QED BY Zenon, <2>1, <2>2, <2>3
<1>2. CASE PrepareGone(d)
  <2>1. same /\ running
    BY Zenon, <1>2 DEF PrepareGone
  <2>2. stepped
    BY <1>2, Zenon DEF PrepareGone
  <2>3. quiet
    BY Zenon, <1>2 DEF PrepareGone, Queued
  <2> QED BY Zenon, <2>1, <2>2, <2>3
<1>3. ASSUME NEW perm \in BOOLEAN, PrepareFail(d, perm)
      PROVE same /\ running /\ stepped /\ quiet
  <2>1. same /\ running
    BY Zenon, <1>3 DEF PrepareFail
  <2>2. stepped
    BY <1>3, Zenon DEF PrepareFail
  <2>3. quiet
    BY Zenon, <1>3 DEF PrepareFail, Queued
  <2> QED BY Zenon, <2>1, <2>2, <2>3
<1>4. ASSUME NEW more \in SUBSET Msgs, NEW direct \in BOOLEAN, PrepareBatch(d, more, direct)
      PROVE same /\ running /\ stepped /\ quiet
  <2>1. same /\ running
    BY Zenon, <1>4 DEF PrepareBatch
  <2>2. stepped
    BY <1>4, Zenon DEF PrepareBatch
  <2>3. quiet
    BY Zenon, <1>4 DEF PrepareBatch, Queued
  <2> QED BY Zenon, <2>1, <2>2, <2>3
<1>5. ASSUME NEW perm \in BOOLEAN, AttemptFails(d, perm)
      PROVE same /\ running /\ stepped /\ quiet
  <2>1. same /\ running
    BY Zenon, <1>5 DEF AttemptFails
  <2>2. stepped
    BY <1>5, Zenon DEF AttemptFails
  <2>3. quiet
    BY Zenon, <1>5 DEF AttemptFails, Queued
  <2> QED BY Zenon, <2>1, <2>2, <2>3
<1>6. CASE AttemptRefused(d)
  <2>1. same /\ running
    BY Zenon, <1>6 DEF AttemptRefused
  <2>2. stepped
    BY <1>6, Zenon DEF AttemptRefused
  <2>3. quiet
    BY Zenon, <1>6 DEF AttemptRefused, Queued
  <2> QED BY Zenon, <2>1, <2>2, <2>3
<1>7. ASSUME NEW no \in SUBSET worker[d].batch, NEW later \in SUBSET worker[d].batch,
             NEW kept \in SUBSET worker[d].batch, AttemptSplit(d, no, later, kept)
      PROVE same /\ running /\ stepped /\ quiet
  <2>1. same /\ running
    BY Zenon, <1>7 DEF AttemptSplit
  <2>2. stepped
    BY <1>7, Zenon DEF AttemptSplit
  <2>3. quiet
    BY Zenon, <1>7 DEF AttemptSplit, Queued
  <2> QED BY Zenon, <2>1, <2>2, <2>3
<1>8. CASE RetireDelivered(d)
  <2>1. same /\ running
    BY Zenon, <1>8 DEF RetireDelivered
  <2>2. stepped
    BY <1>8, Zenon DEF RetireDelivered
  <2>3. quiet
    <3>1. hold' = hold /\ (kick => kick')
      BY Zenon, <1>8 DEF RetireDelivered
    <3>2. Queued' \subseteq Queued
      BY Zenon, <1>8 DEF RetireDelivered, Retire, Queued
    <3> QED BY Zenon, <3>1, <3>2
  <2> QED BY Zenon, <2>1, <2>2, <2>3
<1>9. CASE Unlink(d)
  <2>1. same /\ running
    BY Zenon, <1>9 DEF Unlink
  <2>2. stepped
    BY <1>9, Zenon DEF Unlink
  <2>3. quiet
    BY Zenon, <1>9 DEF Unlink, Queued
  <2> QED BY Zenon, <2>1, <2>2, <2>3
<1>10. ASSUME NEW gs \in SUBSET worker[d].fails, FailMsgs(d, gs)
      PROVE same /\ running /\ stepped /\ quiet
  <2>1. same /\ running
    BY Zenon, <1>10 DEF FailMsgs
  <2>2. stepped
    BY <1>10, Zenon DEF FailMsgs
  <2>3. quiet
    BY Zenon, <1>10 DEF FailMsgs, Queued
  <2> QED BY Zenon, <2>1, <2>2, <2>3
<1>11. CASE FailCommit(d)
  <2>1. same /\ running
    BY Zenon, <1>11 DEF FailCommit
  <2>2. stepped
    BY <1>11, Zenon DEF FailCommit
  <2>3. quiet
    BY Zenon, <1>11 DEF FailCommit, Queued
  <2> QED BY Zenon, <2>1, <2>2, <2>3
<1>12. CASE Settled(d)
  <2>1. same /\ running
    BY Zenon, <1>12 DEF Settled
  <2>2. stepped
    BY <1>12, Zenon DEF Settled
  <2>3. quiet
    BY Zenon, <1>12 DEF Settled, Queued
  <2> QED BY Zenon, <2>1, <2>2, <2>3
<1> QED
  BY Zenon, <1>1, <1>2, <1>3, <1>4, <1>5, <1>6, <1>7, <1>8, <1>9, <1>10, <1>11, <1>12 DEF Deliver

\* The submissions, the operator, the clock and the shutdown leave the dispatcher and the
\* deliveries alone, except that they kick; a delivery changes no other delivery, and ends
\* only with the receive of its result.
LEMMA DispatcherKept ==
  ASSUME TypeOK,
         \/ Submit \/ Operator \/ Shutdown
         \/ \E d \in Domains : Deliver(d)
         \/ \E m \in Msgs : TimePasses(m)
  PROVE  /\ busy' = busy /\ disp' = disp /\ alarm' = alarm
         /\ \A d \in Domains : worker'[d].pc # "idle" => worker[d].pc # "idle"
<1> DEFINE kept == /\ busy' = busy /\ disp' = disp /\ alarm' = alarm
                   /\ \A d \in Domains : worker'[d].pc # "idle" => worker[d].pc # "idle"
<1> USE DEF dispatcher
<1>1. CASE Submit
  BY Zenon, <1>1 DEF Submit, AddLink, AddLeftover, AddCommit, AddFail
<1>2. CASE Operator
  BY Zenon, <1>2 DEF Operator, HoldRuleAdd, HoldRuleRemove, TransportSet, HoldSet, NextAttemptSet,
              FailDrop, FailDropFiles
<1>3. CASE Shutdown
  BY Zenon, <1>3 DEF Shutdown
<1>4. ASSUME NEW m \in Msgs, TimePasses(m) PROVE kept
  BY Zenon, <1>4 DEF TimePasses
<1>5. ASSUME NEW d \in Domains, Deliver(d) PROVE kept
  <2>1. busy' = busy /\ disp' = disp /\ alarm' = alarm /\ worker[d].pc # "idle"
    BY Zenon, <1>5, DeliverKept
  <2>2. PICK job : Step(d, job)
    BY Zenon, <1>5, DeliverKept
  <2>3. \A e \in Domains \ {d} : worker'[e] = worker[e]
    BY Zenon, <2>2 DEF Step, TypeOK
  <2> QED BY Zenon, <2>1, <2>2, <2>3
<1> QED BY Zenon, <1>1, <1>2, <1>3, <1>4, <1>5

LEMMA BusyStep == TypeOK /\ BusyInv /\ [Next]_vars => BusyInv'
<1> SUFFICES ASSUME TypeOK, BusyInv, [Next]_vars PROVE BusyInv'
  OBVIOUS
<1> USE DEF BusyInv, OneDeliveryPerDomain
<1>a. IsFiniteSet(busy) /\ Cardinality(busy) \in Nat
  <2>1. busy \in SUBSET Domains /\ IsFiniteSet(Domains)
    BY Zenon, QueueAssumption DEF TypeOK
  <2>2. IsFiniteSet(busy)
    BY Zenon, <2>1, FS_Subset
  <2> QED BY Zenon, <2>2, FS_CardinalityType
<1>b. MaxConcurrent \in Nat \ {0}
  BY Zenon, QueueAssumption
<1>1. CASE \/ Submit \/ Operator \/ Shutdown
           \/ \E d \in Domains : Deliver(d)
           \/ \E m \in Msgs : TimePasses(m)
  BY Zenon, <1>1, DispatcherKept
<1>2. CASE ReceiveKick \/ ReceiveTimer
  BY SMTT(60), <1>2, <1>a, <1>b DEF ReceiveKick, ReceiveTimer, Woken
<1>3. CASE ReceiveShutdown \/ NextWork \/ Drained
  BY Zenon, <1>3 DEF ReceiveShutdown, NextWork, Drained
<1>4. ASSUME NEW d \in Domains, ReceiveResult(d) PROVE BusyInv'
  <2>1. busy' = busy \ Reported(d) /\ busy' \in SUBSET busy
    BY Zenon, <1>4 DEF ReceiveResult
  <2>2. Cardinality(busy') <= Cardinality(busy) /\ IsFiniteSet(busy')
    BY Zenon, <2>1, <1>a, FS_Subset
  <2>3. Cardinality(busy') \in Nat
    BY Zenon, <2>2, FS_CardinalityType
  <2>4. disp' = "launch" => Cardinality(busy') < MaxConcurrent
    BY <1>4, <2>3, <1>b DEF ReceiveResult, Woken
  <2>5. \A e \in Domains : worker'[e].pc # "idle" => e \in busy'
    BY Zenon, <1>4, <2>1 DEF ReceiveResult, Reported, Idle, TypeOK
  <2> QED BY SMTT(60), <2>2, <2>3, <2>4, <2>5, <1>a, <1>b
<1>5. CASE Launch
  <2> DEFINE work == {m \in Candidates : due[m] /\ ~stopping}
             n == IF Cardinality(work) < MaxConcurrent THEN Cardinality(work) ELSE MaxConcurrent
  <2>a. PICK first \in SUBSET work :
            /\ Cardinality(first) = n
            /\ \E ms \in SUBSET first :
                 /\ \A m \in first : \E x \in ms : Dom[x] = Dom[m]
                 /\ \A x, y \in ms : Dom[x] = Dom[y] => x = y
                 /\ busy' = busy \cup {Dom[m] : m \in ms}
                 /\ worker' = [d \in Domains |->
                      IF \E m \in ms : Dom[m] = d
                      THEN [Idle EXCEPT !.pc = "begin", !.known = TRUE,
                                        !.m0 = CHOOSE m \in ms : Dom[m] = d]
                      ELSE worker[d]]
    BY <1>5, Zenon DEF Launch
  <2>1. PICK ms \in SUBSET first :
                 /\ \A m \in first : \E x \in ms : Dom[x] = Dom[m]
                 /\ \A x, y \in ms : Dom[x] = Dom[y] => x = y
                 /\ busy' = busy \cup {Dom[m] : m \in ms}
                 /\ worker' = [d \in Domains |->
                      IF \E m \in ms : Dom[m] = d
                      THEN [Idle EXCEPT !.pc = "begin", !.known = TRUE,
                                        !.m0 = CHOOSE m \in ms : Dom[m] = d]
                      ELSE worker[d]]
    BY <2>a, Zenon
  <2> DEFINE started == {Dom[m] : m \in ms}
  <2>2. IsFiniteSet(work) /\ IsFiniteSet(first)
    <3>1. work \in SUBSET Msgs /\ first \in SUBSET Msgs /\ IsFiniteSet(Msgs)
      BY Zenon, QueueAssumption DEF Candidates, Queued
    <3> QED BY Zenon, <3>1, FS_Subset
  <2>3. Cardinality(first) \in Nat /\ Cardinality(work) \in Nat
    BY Zenon, <2>2, FS_CardinalityType
  <2>4. Cardinality(first) <= MaxConcurrent
    <3>1. Cardinality(first) = n
      BY <2>a, Zenon
    <3> HIDE DEF work
    <3> QED BY <3>1, <2>3, <1>b
  <2>5. IsFiniteSet(ms) /\ Cardinality(ms) <= Cardinality(first)
    BY Zenon, <2>2, FS_Subset
  <2>6. IsFiniteSet(started) /\ Cardinality(started) <= Cardinality(ms)
    BY Zenon, <2>5, ImageSize
  <2>7. Cardinality(ms) \in Nat /\ Cardinality(started) \in Nat
    BY Zenon, <2>5, <2>6, FS_CardinalityType
  <2>8. Cardinality(started) <= MaxConcurrent
    <3> HIDE DEF started
    <3> QED BY SMTT(60), <2>3, <2>4, <2>5, <2>6, <2>7, <1>b
  <2>9. Cardinality(busy') < 2 * MaxConcurrent
    <3> HIDE DEF started
    <3>1. busy' = busy \cup started
      BY <2>1, Zenon DEF started
    <3>2. Cardinality(busy \cup started) = Cardinality(busy) + Cardinality(started) - Cardinality(busy \cap started)
      BY Zenon, <1>a, <2>6, FS_Union
    <3>3. IsFiniteSet(busy \cap started)
      BY Zenon, <1>a, FS_Subset, busy \cap started \in SUBSET busy
    <3>4. Cardinality(busy \cap started) \in Nat
      BY Zenon, <3>3, FS_CardinalityType
    <3>a. disp = "launch"
      BY <1>5, Zenon DEF Launch
    <3>5. Cardinality(busy) < MaxConcurrent
      BY Zenon, <3>a
    <3> QED BY SMTT(60), <3>1, <3>2, <3>4, <3>5, <2>7, <2>8, <1>a, <1>b
  <2>10. \A d \in Domains : worker'[d].pc # "idle" => d \in busy'
    <3>1. ASSUME NEW d \in Domains, worker'[d].pc # "idle" PROVE d \in busy'
      <4>a. busy' = busy \cup {Dom[m] : m \in ms}
        BY <2>1, Zenon
      <4>1. CASE \E m \in ms : Dom[m] = d
        BY Zenon, <4>a, <4>1
      <4>2. CASE ~\E m \in ms : Dom[m] = d
        <5>1. worker'[d] = worker[d]
          BY <2>1, <4>2, Zenon
        <5> QED BY Zenon, <3>1, <4>a, <5>1
      <4> QED BY Zenon, <4>1, <4>2
    <3> QED BY Zenon, <3>1
  <2>11. disp' = "next"
    BY <1>5, Zenon DEF Launch
  <2> QED BY Zenon, <2>9, <2>10, <2>11
<1>6. CASE Crash
  BY <1>6, <1>b, FS_EmptySet DEF Crash, Idle
<1>7. CASE UNCHANGED vars
  BY Zenon, <1>7 DEF vars, dispatcher
<1> QED BY Zenon, <1>1, <1>2, <1>3, <1>4, <1>5, <1>6, <1>7 DEF Next, Dispatch

\* For any number of messages and domains and any maxConcurrentDeliveries: a domain never
\* has two deliver goroutines, and never are there twice the maximum or more of them.
THEOREM DeliveriesExclusive == Spec => []OneDeliveryPerDomain
<1>1. Init => BusyInv
  BY FS_EmptySet, QueueAssumption DEF Init, Idle, BusyInv, OneDeliveryPerDomain
<1>2. BusyInv => OneDeliveryPerDomain
  BY Zenon DEF BusyInv
<1> QED BY <1>1, <1>2, BusyStep, QueueTyping, PTL DEF Spec

-----------------------------------------------------------------------------
(* The dispatcher does not oversleep. *)

LEMMA WakeStep == TypeOK /\ WakeInv /\ [Next]_vars => WakeInv'
<1> SUFFICES ASSUME TypeOK, WakeInv, [Next]_vars PROVE WakeInv'
  OBVIOUS
<1> USE DEF WakeInv
<1>a. ASSUME Candidates' \subseteq Candidates, kick => kick', busy' = busy, disp' = disp, alarm' = alarm
      PROVE WakeInv'
  BY Zenon, <1>a
<1>b. ASSUME row' = row, hold' = hold, busy' = busy PROVE Candidates' = Candidates
  BY Zenon, <1>b DEF Candidates, Queued
<1>c. Cardinality(busy) \in Nat /\ MaxConcurrent \in Nat
  <2>1. busy \in SUBSET Domains /\ IsFiniteSet(Domains)
    BY Zenon, QueueAssumption DEF TypeOK
  <2>2. IsFiniteSet(busy)
    BY Zenon, <2>1, FS_Subset
  <2> QED BY Zenon, <2>2, FS_CardinalityType, QueueAssumption
<1>1. CASE Submit
  <2>1. CASE AddCommit
    BY Zenon, <2>1 DEF AddCommit
  <2>2. CASE AddFail \/ \E s \in Submissions : AddLink(s) \/ AddLeftover(s)
    <3>1. row' = row /\ hold' = hold /\ busy' = busy /\ kick' = kick /\ disp' = disp /\ alarm' = alarm
      BY Zenon, <2>2 DEF AddFail, AddLink, AddLeftover, db, dispatcher
    <3> QED BY Zenon, <3>1, <1>a, <1>b
  <2> QED BY Zenon, <1>1, <2>1, <2>2 DEF Submit
<1>2. CASE Operator
  <2>1. CASE kick'
    BY Zenon, <2>1
  <2>2. CASE HoldRuleRemove
    <3>1. row' = row /\ hold' = hold /\ busy' = busy /\ kick' = kick /\ disp' = disp /\ alarm' = alarm
      BY Zenon, <2>2 DEF HoldRuleRemove, dispatcher
    <3> QED BY Zenon, <3>1, <1>a, <1>b
  <2>3. ASSUME NEW ms \in SUBSET Droppable, NEW fail \in BOOLEAN, FailDrop(ms, fail) PROVE WakeInv'
    <3>1. hold' = hold /\ busy' = busy /\ kick' = kick /\ disp' = disp /\ alarm' = alarm
      BY Zenon, <2>3 DEF FailDrop, dispatcher
    <3>2. Queued' \subseteq Queued
      BY Zenon, <2>3 DEF FailDrop, Queued, Retire
    <3>3. Candidates' \subseteq Candidates
      BY Zenon, <3>1, <3>2 DEF Candidates
    <3> QED BY Zenon, <3>1, <3>3, <1>a
  <2> QED BY Zenon, <1>2, <2>1, <2>2, <2>3 DEF Operator, HoldRuleAdd, TransportSet, HoldSet, NextAttemptSet, FailDropFiles
<1>3. CASE Shutdown \/ \E m \in Msgs : TimePasses(m)
  <2>1. row' = row /\ hold' = hold /\ busy' = busy /\ kick' = kick /\ disp' = disp /\ alarm' = alarm
    BY Zenon, <1>3 DEF Shutdown, TimePasses, db, dispatcher
  <2> QED BY Zenon, <2>1, <1>a, <1>b
<1>4. ASSUME NEW d \in Domains, Deliver(d) PROVE WakeInv'
  <2>1. CASE kick'
    BY Zenon, <2>1
  <2>2. CASE ~kick'
    <3>1. /\ busy' = busy /\ disp' = disp /\ alarm' = alarm
          /\ ~kick /\ hold' = hold /\ Queued' \subseteq Queued
      BY Zenon, <1>4, <2>2, DeliverKept
    <3>2. Candidates' \subseteq Candidates
      BY Zenon, <3>1 DEF Candidates
    <3> QED BY Zenon, <3>1, <3>2, <1>a
  <2> QED BY Zenon, <2>1, <2>2
<1>5. CASE ReceiveKick \/ ReceiveTimer
  BY Zenon, <1>5, <1>c DEF ReceiveKick, ReceiveTimer, Woken
<1>6. ASSUME NEW d \in Domains, ReceiveResult(d) PROVE WakeInv'
  BY Zenon, <1>6 DEF ReceiveResult, Woken
<1>7. CASE NextWork
  <2>1. row' = row /\ hold' = hold /\ busy' = busy
    BY Zenon, <1>7 DEF NextWork, db
  <2> QED BY Zenon, <1>7, <2>1, <1>b DEF NextWork
<1>8. CASE Launch \/ ReceiveShutdown \/ Drained
  <2>1. disp' # "select"
    <3>1. CASE Launch
      <4>1. disp' = "next"
        BY <3>1, Zenon DEF Launch
      <4> QED BY Zenon, <4>1
    <3>2. CASE ReceiveShutdown \/ Drained
      BY Zenon, <3>2 DEF ReceiveShutdown, Drained
    <3> QED BY Zenon, <1>8, <3>1, <3>2
  <2> QED BY Zenon, <2>1
<1>9. CASE Crash
  BY Zenon, <1>9 DEF Crash
<1>10. CASE UNCHANGED vars
  <2>1. row' = row /\ hold' = hold /\ busy' = busy /\ kick' = kick /\ disp' = disp /\ alarm' = alarm
    BY Zenon, <1>10 DEF vars, db, dispatcher
  <2> QED BY Zenon, <2>1, <1>a, <1>b
<1> QED BY Zenon, <1>1, <1>2, <1>3, <1>4, <1>5, <1>6, <1>7, <1>8, <1>9, <1>10 DEF Next, Dispatch

\* Whatever is submitted, held, released, rescheduled, dropped and delivered meanwhile, and
\* however the kicks, the timer and the results interleave: startQueue never waits without
\* something to wake it while a message it could start is due.
THEOREM DispatcherWakes == Spec => []NoLostWakeup
<1>1. Init => WakeInv
  BY Zenon DEF Init, WakeInv
<1>2. WakeInv => NoLostWakeup
  BY Zenon DEF WakeInv, NoLostWakeup
<1> QED BY <1>1, <1>2, WakeStep, QueueTyping, PTL DEF Spec

=============================================================================
