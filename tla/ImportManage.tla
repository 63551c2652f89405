---------------------------- MODULE ImportManage ----------------------------
(***************************************************************************)
(* Imports through the account web page: the requests that start, follow    *)
(* and abort an import (webaccount/account.go), the goroutine that imports  *)
(* the files of an archive in one transaction, and the goroutine that keeps *)
(* the state of imports and passes on their events (webaccount/import.go).  *)
(* What an import makes of the files is in module ImportExport; here a file *)
(* is a step that sends an event, fails or does neither.                    *)
(***************************************************************************)
EXTENDS Integers, Sequences, FiniteSets, SequencesExt, Functions

CONSTANTS
    Tokens,         \* imports, all for one account
    Listeners,      \* /importprogress requests
    Buffer,         \* of importListener.Events, the 100
    Files,          \* in an archive
    MaxAborts, MaxTicks

VARIABLE i

None == [cancel |-> FALSE]
Nobody == "nobody"
Final == {"done", "aborted"}

Init ==
    \E up \in {"running", "completed"} :
        i = [alive |-> TRUE,
             imports |-> [t \in Tokens |-> None],
             imp |-> [t \in Tokens |-> [pc |-> "new", left |-> Files, ctx |-> FALSE,
                                        commit |-> FALSE, then |-> <<>>]],
             lock |-> Nobody, tx |-> Nobody, upgrade |-> up,
             register |-> <<>>, unregister |-> <<>>,
             lis |-> [l \in Listeners |-> [pc |-> "new", tok |-> Nobody, q |-> <<>>,
                                           told |-> FALSE, dropped |-> FALSE]],
             answers |-> {}, aborts |-> 0, ticks |-> 0]

----------------------------------------------------------------------------
(* ImportManage                                                              *)

\* A listener that does not keep up misses the event.
Pass(l, kind) ==
    IF Len(l.q) < Buffer THEN [l EXCEPT !.q = Append(@, kind)]
    ELSE [l EXCEPT !.dropped = @ \/ kind \in Final]

\* The end of each iteration: imports that are over for a minute are forgotten,
\* unless someone listens.
Cleanup(imports) ==
    [t \in Tokens |-> IF imports[t] # None /\ imports[t].ls = {} /\ imports[t].over
                      THEN None ELSE imports[t]]

\* The state after an event; the first one for a token makes it.
State(t, kind, cancel) ==
    LET s == IF i.imports[t] # None THEN i.imports[t]
             ELSE [cancel |-> cancel, ls |-> {}, counts |-> FALSE, problems |-> 0,
                   end |-> "", over |-> FALSE]
    IN  CASE kind = "count" -> [s EXCEPT !.counts = TRUE]
          [] kind = "problem" -> [s EXCEPT !.problems = @ + 1]
          [] kind \in Final -> [s EXCEPT !.end = kind]
          [] OTHER -> s

\* importers.Events <- e: the channel has no buffer, so the sender waits for
\* the manager.
Event(t, kind, cancel) ==
    LET s == State(t, kind, cancel)
    IN  [i EXCEPT !.imports = Cleanup([@ EXCEPT ![t] = s]),
                  !.lis = [l \in Listeners |-> IF l \in s.ls THEN Pass(@[l], kind) ELSE @[l]]]

\* A new listener gets the counts, the problems and how it ended.
Register ==
    /\ i.alive /\ i.register # <<>>
    /\ LET l == Head(i.register)
           t == i.lis[l].tok
           s == i.imports[t]
           first == (IF s.counts THEN <<"count">> ELSE <<>>)
                       \o [k \in 1..s.problems |-> "problem"]
                       \o (IF s.end # "" THEN <<s.end>> ELSE <<>>)
       IN  i' = [i EXCEPT
               !.register = Tail(@),
               !.lis[l] = IF s = None THEN [@ EXCEPT !.pc = "refused"]
                          ELSE FoldLeft(Pass, [@ EXCEPT !.pc = "open"], first),
               !.imports = IF s = None THEN Cleanup(@)
                           ELSE Cleanup([@ EXCEPT ![t].ls = @ \cup {l}])]

Unregister ==
    /\ i.alive /\ i.unregister # <<>>
    /\ LET l == Head(i.unregister)
           t == i.lis[l].tok
       IN  i' = [i EXCEPT
               !.unregister = Tail(@),
               !.imports = Cleanup(IF @[t] = None THEN @ ELSE [@ EXCEPT ![t].ls = @ \ {l}])]

\* A check for cancellation still follows.
InTime(t) ==
    i.imp[t].pc = "wait" \/ (i.imp[t].pc = "files" /\ i.imp[t].left > 0)

\* ImportAbort.  For an import that is not known or has finished the manager
\* answers and returns; without a cancel function it panics.  i.answers has the
\* imports that were aborted in time.
Abort(t) ==
    /\ i.aborts < MaxAborts
    /\ i.alive
    /\ LET s == i.imports[t]
           bad == s = None \/ s.end = "done"
       IN  i' = IF bad \/ ~s.cancel
                THEN [i EXCEPT !.alive = FALSE, !.aborts = @ + 1]
                ELSE [i EXCEPT !.imp[t].ctx = TRUE, !.aborts = @ + 1,
                               !.answers = IF InTime(t) THEN @ \cup {t} ELSE @,
                               !.imports = Cleanup(@)]

\* A minute passes.
Tick ==
    /\ i.ticks < MaxTicks
    /\ i' = [i EXCEPT !.ticks = @ + 1,
                      !.imports = [t \in Tokens |-> IF @[t] # None /\ @[t].end # ""
                                                    THEN [@[t] EXCEPT !.over = TRUE] ELSE @[t]]]

----------------------------------------------------------------------------
(* /importprogress                                                           *)

Listen(l, t) ==
    /\ i.lis[l].pc = "new" /\ i.register = <<>>
    /\ i' = [i EXCEPT !.lis[l].pc = "registering", !.lis[l].tok = t, !.register = <<l>>]

Receive(l) ==
    /\ i.lis[l].pc = "open" /\ i.lis[l].q # <<>>
    /\ i' = [i EXCEPT !.lis[l].q = Tail(@),
                      !.lis[l].told = @ \/ Head(i.lis[l].q) \in Final]

\* The connection is gone, or writing to it fails.
Leave(l) ==
    /\ i.lis[l].pc = "open" /\ i.unregister = <<>>
    /\ i' = [i EXCEPT !.lis[l].pc = "left", !.lis[l].q = <<>>, !.unregister = <<l>>]

----------------------------------------------------------------------------
(* importStart and importMessages                                            *)

\* The upload is not a zip or tgz file.
Refuse(t) ==
    /\ i.imp[t].pc = "new"
    /\ i' = [i EXCEPT !.imp[t].pc = "refused"]

Lock(t) ==
    /\ i.imp[t].pc = "new" /\ i.lock = Nobody
    /\ i' = [i EXCEPT !.imp[t].pc = "locked", !.lock = t]

Begin(t) ==
    /\ i.imp[t].pc = "locked" /\ i.tx = Nobody
    /\ i' = [i EXCEPT !.imp[t].pc = "begun", !.tx = t]

\* The token is known, with the function that cancels, before /import answers.
Announce(t) ==
    /\ i.alive
    /\ i.imp[t].pc = "begun"
    /\ i' = [Event(t, "keepalive", TRUE) EXCEPT !.imp[t].pc = "wait"]

\* ThreadingWait.
Wait(t) ==
    /\ i.imp[t].pc = "wait" /\ i.upgrade = "completed"
    /\ i' = [i EXCEPT !.imp[t].pc = "files"]

\* The deferred function: files removed, transaction and lock released; then
\* the events of `then` are sent.
Unwind(s, t, then) ==
    [s EXCEPT !.imp[t].pc = "send", !.imp[t].then = then, !.tx = Nobody, !.lock = Nobody]

\* canceled, before every file, and before the end of a tar file but not of a zip
\* file.
Canceled(t) ==
    /\ i.alive
    /\ i.imp[t].pc = "files" /\ i.imp[t].ctx
    /\ i' = Unwind(Event(t, "aborted", FALSE), t, <<>>)

\* importFile, with an event for a problem or a count.
ImportFile(t, kind) ==
    /\ i.imp[t].pc = "files" /\ ~i.imp[t].ctx /\ i.imp[t].left > 0
    /\ kind # "" => i.alive
    /\ i' = [(IF kind = "" THEN i ELSE Event(t, kind, FALSE)) EXCEPT !.imp[t].left = @ - 1]

\* The next header of the tar file cannot be read.
HeaderFails(t) ==
    /\ i.alive
    /\ i.imp[t].pc = "files" /\ ~i.imp[t].ctx
    /\ i' = Unwind(Event(t, "problem", FALSE), t, <<>>)

LastFile(t) ==
    /\ i.imp[t].pc = "files" /\ i.imp[t].left = 0
    /\ i' = [i EXCEPT !.imp[t].pc = "count"]

\* The last count, and the step of matching threads if there are messages.
Counted(t) ==
    /\ i.alive
    /\ i.imp[t].pc = "count"
    /\ i' = [Event(t, "count", FALSE) EXCEPT !.imp[t].pc = "commit"]

Commit(t) ==
    /\ i.imp[t].pc = "commit"
    /\ i' = [i EXCEPT !.imp[t].pc = "send", !.imp[t].then = <<"done">>, !.imp[t].commit = TRUE,
                      !.tx = Nobody, !.lock = Nobody]

\* As ErrorEvents, but that the import is over is said first.
ErrorEventsSwapped == <<"aborted", "problem">>

\* What is sent for a fatal error.
ErrorEvents == <<"problem", "aborted">>

\* ximportcheckf: waiting for the upgrade, a file, threads, the commit fail.
Fails(t) ==
    /\ i.imp[t].pc \in {"wait", "files", "commit"}
    /\ i.imp[t].pc = "wait" => i.upgrade = "completed"
    /\ i' = Unwind(i, t, ErrorEvents)

\* Any other panic is only logged.
Panics(t) ==
    /\ i.imp[t].pc \in {"files", "commit"}
    /\ i' = Unwind(i, t, <<>>)

SendEnd(t) ==
    /\ i.imp[t].pc = "send"
    /\ IF i.imp[t].then = <<>> THEN i' = [i EXCEPT !.imp[t].pc = "end"]
       ELSE /\ i.alive
            /\ i' = [Event(t, Head(i.imp[t].then), FALSE) EXCEPT !.imp[t].then = Tail(@)]

----------------------------------------------------------------------------
(* The background goroutine that upgrades the account to threads, in write   *)
(* transactions.                                                             *)

UpgradeBegin ==
    /\ i.upgrade = "running" /\ i.tx = Nobody
    /\ i' = [i EXCEPT !.tx = "upgrade"]

UpgradeCommit ==
    /\ i.tx = "upgrade"
    /\ \E up \in {"running", "completed"} : i' = [i EXCEPT !.tx = Nobody, !.upgrade = up]

Step(t) ==
    \/ Lock(t) \/ Begin(t) \/ Announce(t) \/ Wait(t) \/ Canceled(t) \/ HeaderFails(t)
    \/ LastFile(t) \/ Counted(t) \/ Commit(t) \/ Fails(t) \/ Panics(t) \/ SendEnd(t)
    \/ \E kind \in {"", "problem", "count"} : ImportFile(t, kind)

Next ==
    \/ Register \/ Unregister \/ Tick \/ UpgradeBegin \/ UpgradeCommit
    \/ \E t \in Tokens : Abort(t) \/ Refuse(t) \/ Step(t)
    \/ \E l \in Listeners : Receive(l) \/ Leave(l) \/ \E t \in Tokens : Listen(l, t)

Spec == Init /\ [][Next]_i

----------------------------------------------------------------------------
TypeOK ==
    /\ i.alive \in BOOLEAN
    /\ i.lock \in Tokens \cup {Nobody} /\ i.tx \in Tokens \cup {Nobody, "upgrade"}
    /\ Len(i.register) <= 1 /\ Len(i.unregister) <= 1

\* What the manager says of an import is true and reaches those who listen:
\* every import it knows can be canceled; "done" means that the changes are
\* committed and the account is unlocked, "aborted" that nothing is or will be
\* committed; an import whose abort was answered commits nothing, if the abort
\* came before the last check for cancellation; a listener of an import that is
\* over has the final event in its queue or has received it, unless its queue was
\* full; and the state of an import stays while someone listens.
ImportsTold ==
    /\ \A t \in Tokens :
          LET s == i.imports[t] IN
          s # None =>
             /\ s.cancel
             /\ s.end = "done" => i.imp[t].commit /\ i.lock # t
             /\ s.end = "aborted" => ~i.imp[t].commit /\ i.imp[t].pc \in {"send", "end"}
             /\ s.end # "" => \A l \in s.ls :
                   \/ i.lis[l].pc # "open" \/ i.lis[l].told \/ i.lis[l].dropped
                   \/ s.end \in Range(i.lis[l].q)
    /\ \A l \in Listeners : i.lis[l].pc = "open" => i.imports[i.lis[l].tok] # None
    /\ \A t \in i.answers : ~i.imp[t].commit
=============================================================================
