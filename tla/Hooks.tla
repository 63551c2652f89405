-------------------------------- MODULE Hooks --------------------------------
(***************************************************************************)
(* Webhooks for deliveries (queue/hook.go), and the suppression list       *)
(* (queue/suppression.go) that failed deliveries fill. A hook is queued    *)
(* for an event of a message, superseding the one still queued for it; a   *)
(* dispatcher starts one delivery per URL at a time, in goroutines that    *)
(* work on a copy of the hook; an administrator cancels and reschedules.   *)
(*                                                                         *)
(* Each step of the dispatcher's loop and of a delivery is an action, so   *)
(* that events, results and the administrator come in between, and the     *)
(* process can be restarted. Time is whether a hook is due.                *)
(***************************************************************************)
EXTENDS Integers, Sequences, FiniteSets, FiniteSetsExt, Functions

CONSTANTS
  Msgs,           \* Messages, each with a URL for its hooks and an address.
  URLOf,
  AddressOf,
  Batch,          \* Other messages of the same submission, for the same domain.
  MaxConcurrent,  \* maxConcurrentHookDeliveries
  Intervals,      \* len(hookIntervals)
  Keep,           \* Whether retired hooks and messages are kept.
  MaxHooks,       \* Bound: hooks inserted.
  MaxEvents,      \* Bound: events, after which no message about one arrives.
  MaxPosts,       \* Bound: requests made.
  MaxAdmin,       \* Bound: operations of the administrator, clean ups and restarts.
  Subscribed      \* Events with a hook.

VARIABLE q

\* hooks and retired by ID. run: the delivery for each busy URL, with its copy of
\* the hook. results: URLs in hookDeliveryResults. timer: the hooks it was
\* set for, the first of which it fires at. msgs: the messages' states; sup: suppressed
\* addresses with the reason. dsns: calls of Incoming between their two transactions.
\* For the properties, hooks have the time of their event, and overlap has the messages
\* of which two DSNs were processed at the same time.
Init ==
  q = [hooks |-> << >>, retired |-> << >>, nextID |-> 1, run |-> << >>, results |-> {},
       kicked |-> FALSE, pc |-> "select", timer |-> {},
       msgs |-> [m \in Msgs |-> [state |-> "queued", success |-> FALSE, seen |-> 0]],
       clock |-> 0, sup |-> << >>, failed |-> {},
       dsns |-> {}, overlap |-> {}, posts |-> 0, ok |-> {}, again |-> FALSE, admin |-> 0, restarts |-> 0, gone |-> {}]

busyHookURLs == DOMAIN q.run

\* Functions on finite sets of IDs.
Put(f, i, v) == [j \in DOMAIN f \cup {i} |-> IF j = i THEN v ELSE f[j]]
Drop(f, i) == [j \in DOMAIN f \ {i} |-> f[j]]

Retired(h, success, by) ==
  [msg |-> h.msg, at |-> h.at, attempts |-> h.attempts, success |-> success, by |-> by, late |-> FALSE]

Retire(e, i, success, by) ==
  [e EXCEPT !.hooks = Drop(@, i),
            !.retired = IF Keep THEN Put(@, i, Retired(e.hooks[i], success, by)) ELSE @,
            !.gone = IF Keep THEN @ ELSE @ \cup {i}]

\* Inserts a hook for an event at a time, retiring the one queued for the same message.
hookInsert(e, m, at) ==
  LET old == {i \in DOMAIN e.hooks : e.hooks[i].msg = m}
      f == [e EXCEPT !.hooks = Put(@, e.nextID, [msg |-> m, url |-> URLOf[m], at |-> at,
                                                 attempts |-> 0, due |-> TRUE]),
                     !.nextID = @ + 1]
  IN  IF old = {} THEN f ELSE Retire(f, CHOOSE i \in old : TRUE, FALSE, {e.nextID})

\* A hook when the account asks for one about the event.
Notify(e, m, event) ==
  IF event \in Subscribed THEN [hookInsert(e, m, e.clock) EXCEPT !.kicked = TRUE] ELSE e

-----------------------------------------------------------------------------
(* The suppression list.                                                   *)

Codes == {0, 550, 554}
isImmediateBlock(code) == code = 550

\* The two most recent other messages to the address, both failed.
Consecutive(e, m) ==
  LET others == {n \in Msgs \ {m} : e.msgs[n].state = "retired" /\ AddressOf[n] = AddressOf[m]}
      recent == {n \in others : Cardinality({k \in others : e.msgs[k].seen > e.msgs[n].seen}) < 2}
  IN  Cardinality(recent) = 2 /\ \A n \in recent : ~e.msgs[n].success

\* A failure with a code puts the address on the list.
suppressionProcess(e, m, code) ==
  LET a == AddressOf[m]
  IN  IF code = 0 \/ a \in DOMAIN e.sup \/ ~(isImmediateBlock(code) \/ Consecutive(e, m)) THEN e
      ELSE [e EXCEPT !.sup = Put(@, a, IF isImmediateBlock(code) THEN "code" ELSE "consecutive")]

SuppressionAdd(a) ==
  /\ a \notin DOMAIN q.sup /\ q.admin < MaxAdmin
  /\ q' = [q EXCEPT !.sup = Put(@, a, "user"), !.admin = @ + 1]

SuppressionRemove(a) ==
  /\ a \in DOMAIN q.sup /\ q.admin < MaxAdmin
  /\ q' = [q EXCEPT !.sup = Drop(@, a), !.admin = @ + 1, !.failed = @ \ {m \in Msgs : AddressOf[m] = a}]

-----------------------------------------------------------------------------
(* Events of messages.                                                     *)

RetireMsg(e, m, success) ==
  [e EXCEPT !.msgs[m] = [state |-> IF Keep THEN "retired" ELSE "removed", success |-> success, seen |-> e.clock + 1],
            !.clock = @ + 1, !.failed = IF success THEN @ ELSE @ \cup {m}]

\* failMsgsTx for a temporary failure of a message.
Delayed(m) ==
  /\ q.msgs[m].state = "queued" /\ q.nextID <= MaxHooks
  /\ "delayed" \in Subscribed
  /\ q' = Notify(q, m, "delayed")

\* The result of an attempt for one message: delivered, or failed for good.
Outcome(e, m, code) ==
  IF code = 250
  THEN Notify(RetireMsg(e, m, TRUE), m, "delivered")
  ELSE Notify(RetireMsg(suppressionProcess(e, m, code), m, FALSE), m, "failed")

\* deliver for m: a suppressed address fails at once. Otherwise other recipients of
\* the same submission are gathered, without looking at the list again.
Deliver(m) ==
  /\ q.msgs[m].state = "queued" /\ q.nextID <= MaxHooks
  /\ IF AddressOf[m] \in DOMAIN q.sup THEN q' = Notify(RetireMsg(q, m, FALSE), m, "suppressed")
     ELSE \E more \in SUBSET {n \in Batch[m] : q.msgs[n].state = "queued"} :
            /\ q.nextID + Cardinality(more) <= MaxHooks + 1
            /\ \E codes \in [more \cup {m} -> {0, 250, 550, 554}] :
                 q' = FoldSet(LAMBDA n, e : Outcome(e, n, codes[n]), q, more \cup {m})

\* Incoming goes on with a hook when the account asks for one about the event.
Await(e, m, event) ==
  IF event \notin Subscribed THEN e
  ELSE [e EXCEPT !.dsns = @ \cup {[msg |-> m, at |-> e.clock]},
                 !.overlap = IF \E c \in e.dsns : c.msg = m THEN @ \cup {m} ELSE @]

\* Incoming for a message about a retired message, its first transaction: the last
\* activity is now, but whether the message succeeded stays as it is.
Incoming(m) ==
  /\ q.msgs[m].state = "retired" /\ q.clock < MaxEvents
  /\ LET e == [q EXCEPT !.msgs[m].seen = q.clock + 1, !.clock = @ + 1]
     IN  \/ \E event \in {"delayed", "delivered", "relayed", "expanded", "unrecognized"} : q' = Await(e, m, event)
         \/ \E code \in Codes :
              q' = Await(suppressionProcess([e EXCEPT !.failed = @ \cup {m}], m, code), m, "failed")

\* Its second transaction, in which the hook is queued.
IncomingHook(c) ==
  /\ q.nextID <= MaxHooks
  /\ q' = [hookInsert(q, c.msg, c.at) EXCEPT !.dsns = @ \ {c}, !.kicked = TRUE]

-----------------------------------------------------------------------------
(* The dispatcher.                                                         *)

\* Wakes up for a kick, the timer, or the result of a delivery. With all slots
\* taken there is nothing to start.
startHookQueue ==
  /\ q.pc = "select"
  /\ LET Woken(e) == [e EXCEPT !.pc = IF Cardinality(DOMAIN e.run) >= MaxConcurrent THEN "select" ELSE "launch"]
     IN  \/ q.kicked /\ q' = Woken([q EXCEPT !.kicked = FALSE])
         \/ /\ \E i \in q.timer : i \in DOMAIN q.hooks => q.hooks[i].due
            /\ q' = Woken([q EXCEPT !.timer = {}])
         \/ \E u \in q.results : q' = Woken([q EXCEPT !.results = @ \ {u}, !.run = Drop(@, u)])

\* Starts a delivery for due hooks, at most one per URL, from the ones that are
\* due longest. (A query with a limit: the order among them is left open.)
hookLaunchWork ==
  /\ q.pc = "launch"
  /\ LET due == {i \in DOMAIN q.hooks : q.hooks[i].due /\ q.hooks[i].url \notin busyHookURLs}
     IN  \E limited \in SUBSET due :
           /\ Cardinality(limited) = IF Cardinality(due) < MaxConcurrent THEN Cardinality(due) ELSE MaxConcurrent
           /\ \E chosen \in SUBSET limited :
                /\ \A i \in limited : Cardinality({j \in chosen : q.hooks[j].url = q.hooks[i].url}) = 1
                /\ q' = [q EXCEPT !.pc = "next",
                           !.run = [u \in DOMAIN @ \cup {q.hooks[i].url : i \in chosen} |->
                                      IF u \in DOMAIN @ THEN @[u]
                                      ELSE LET i == CHOOSE i \in chosen : q.hooks[i].url = u
                                           IN  [id |-> i, hook |-> q.hooks[i], pc |-> "start", ok |-> FALSE]]]

\* The timer is for the first of the hooks of URLs that are not busy.
hookNextWork ==
  /\ q.pc = "next"
  /\ q' = [q EXCEPT !.pc = "select", !.timer = {i \in DOMAIN q.hooks : q.hooks[i].url \notin busyHookURLs}]

-----------------------------------------------------------------------------
(* A delivery.                                                             *)

\* Stores the attempt first. The hook may be gone by now.
hookDeliver(u) ==
  /\ q.run[u].pc = "start"
  /\ LET r == q.run[u]
         h == [r.hook EXCEPT !.attempts = @ + 1, !.due = FALSE]
     IN  IF r.id \in DOMAIN q.hooks
         THEN q' = [q EXCEPT !.hooks[r.id] = h, !.run[u] = [r EXCEPT !.hook = h, !.pc = "post"]]
         ELSE q' = [q EXCEPT !.run[u].pc = "result"]

HookPost(u) ==
  /\ q.run[u].pc = "post" /\ q.posts < MaxPosts
  /\ \E ok \in BOOLEAN :
       q' = [q EXCEPT !.run[u] = [@ EXCEPT !.pc = "store", !.ok = ok], !.posts = @ + 1,
                      !.ok = IF ok THEN @ \cup {q.run[u].id} ELSE @,
                      !.again = @ \/ (ok /\ q.run[u].id \in q.ok)]

\* A hook that was superseded or canceled meanwhile gets the result if it was kept.
updateRetiredHook(e, i) ==
  IF i \in DOMAIN e.retired THEN [e EXCEPT !.retired[i].late = TRUE] ELSE e

\* As Finish, but a hook that is gone is stored again.
FinishStore(u) ==
  /\ q.run[u].pc = "store"
  /\ LET r == q.run[u]
         e == [q EXCEPT !.run[u].pc = "result"]
     IN  q' = CASE ~r.ok /\ r.hook.attempts <= Intervals -> [e EXCEPT !.hooks = Put(@, r.id, r.hook)]
                [] ~(~r.ok /\ r.hook.attempts <= Intervals) /\ r.id \in DOMAIN q.hooks -> Retire(e, r.id, r.ok, {})
                [] OTHER -> updateRetiredHook(e, r.id)

\* The result: another attempt later, or the hook is retired.
Finish(u) ==
  /\ q.run[u].pc = "store"
  /\ LET r == q.run[u]
         e == [q EXCEPT !.run[u].pc = "result"]
     IN  q' = CASE r.id \notin DOMAIN q.hooks -> updateRetiredHook(e, r.id)
                [] r.id \in DOMAIN q.hooks /\ ~r.ok /\ r.hook.attempts <= Intervals ->
                     [e EXCEPT !.hooks[r.id] = r.hook]
                [] OTHER -> Retire(e, r.id, r.ok, {})

Result(u) ==
  /\ q.run[u].pc = "result"
  /\ u \notin q.results
  /\ q' = [q EXCEPT !.results = @ \cup {u}, !.run[u].pc = "done"]

-----------------------------------------------------------------------------
(* The administrator, time, and restarts.                                  *)

HookCancel(i) ==
  /\ q.admin < MaxAdmin /\ i \in DOMAIN q.hooks
  /\ q' = [Retire(q, i, FALSE, {}) EXCEPT !.kicked = TRUE, !.admin = @ + 1]

\* HookNextAttemptSet and HookNextAttemptAdd.
HookNextAttempt(i) ==
  /\ q.admin < MaxAdmin /\ i \in DOMAIN q.hooks
  /\ \E due \in BOOLEAN : q' = [q EXCEPT !.hooks[i].due = due, !.kicked = TRUE, !.admin = @ + 1]

cleanupHookRetiredSingle(i) ==
  /\ q.admin < MaxAdmin /\ i \in DOMAIN q.retired
  /\ q' = [q EXCEPT !.retired = Drop(@, i), !.gone = @ \cup {i}, !.admin = @ + 1]

Tick(i) ==
  /\ i \in DOMAIN q.hooks /\ ~q.hooks[i].due
  /\ q' = [q EXCEPT !.hooks[i].due = TRUE]

\* Start: the queue is in the database, the dispatcher begins with its timer.
Restart ==
  /\ q.admin < MaxAdmin
  /\ q' = [q EXCEPT !.run = << >>, !.results = {}, !.kicked = FALSE, !.pc = "launch", !.timer = {}, !.dsns = {},
                    !.admin = @ + 1, !.restarts = @ + 1]

Next ==
  \/ \E m \in Msgs : Delayed(m) \/ Deliver(m) \/ Incoming(m)
  \/ \E c \in q.dsns : IncomingHook(c)
  \/ \E a \in Range(AddressOf) : SuppressionAdd(a) \/ SuppressionRemove(a)
  \/ startHookQueue \/ hookLaunchWork \/ hookNextWork
  \/ \E u \in DOMAIN q.run : hookDeliver(u) \/ HookPost(u) \/ Finish(u) \/ Result(u)
  \/ \E i \in DOMAIN q.hooks : HookCancel(i) \/ HookNextAttempt(i) \/ Tick(i)
  \/ \E i \in DOMAIN q.retired : cleanupHookRetiredSingle(i)
  \/ Restart

Spec == Init /\ [][Next]_q

-----------------------------------------------------------------------------
(* Properties.                                                             *)

\* Whatever events, deliveries and the administrator do at the same time, at most
\* one hook is queued for a message, and it is the last one that was queued; every hook
\* is queued, retired, or was removed, never two of these; a hook that was
\* superseded names its successor, which is for an event that is not earlier, unless two
\* DSNs about the message were processed at the same time (Incoming records the event in
\* one transaction and queues the hook in another, in any order; a restart between the two
\* loses the hook); after an answer of 200 a hook is not sent again, unless the process
\* restarts in between; attempts are limited, but for one that each restart cuts short; a
\* due hook of a URL that is not busy is seen by a kick, the timer or a result still to
\* come; and an address is on the suppression list after a failure or at a user's request.
HooksSound ==
  /\ \A i, j \in DOMAIN q.hooks : i # j => q.hooks[i].msg # q.hooks[j].msg
  /\ \A i \in DOMAIN q.hooks : \A j \in DOMAIN q.retired : q.retired[j].msg = q.hooks[i].msg => j < i
  /\ DOMAIN q.hooks \cap DOMAIN q.retired = {} /\ DOMAIN q.hooks \cap q.gone = {}
  /\ DOMAIN q.hooks \cup DOMAIN q.retired \cup q.gone = 1..(q.nextID - 1)
  /\ \A i \in DOMAIN q.retired : \A j \in q.retired[i].by :
       /\ j > i /\ j < q.nextID
       /\ j \in DOMAIN q.hooks /\ q.retired[i].msg \notin q.overlap => q.retired[i].at <= q.hooks[j].at
       /\ j \in DOMAIN q.retired /\ q.retired[i].msg \notin q.overlap => q.retired[i].at <= q.retired[j].at
  /\ q.restarts = 0 => ~q.again
  /\ \A i \in DOMAIN q.hooks : q.hooks[i].attempts <= Intervals + 1 + q.restarts
  /\ Cardinality(DOMAIN q.run) < 2 * MaxConcurrent
  /\ q.pc = "select" /\ Cardinality(DOMAIN q.run) < MaxConcurrent =>
       \A i \in DOMAIN q.hooks : q.hooks[i].due /\ q.hooks[i].url \notin DOMAIN q.run =>
         \/ q.kicked \/ q.results # {} \/ \E u \in DOMAIN q.run : TRUE
         \/ \E j \in q.timer : j \in DOMAIN q.hooks => q.hooks[j].due
  /\ \A a \in DOMAIN q.sup : q.sup[a] = "user" \/ \E m \in q.failed : AddressOf[m] = a
=============================================================================
