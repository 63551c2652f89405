------------------------------- MODULE Backup -------------------------------
(***************************************************************************)
(* "mox backup" (backup.go) against a running server, and "mox verifydata" *)
(* (verifydata.go) on what it made. The message queue and an account each  *)
(* have a database and a directory with a file per message; both keep      *)
(* changing while the backup copies the database in a transaction, then    *)
(* links the files of the messages in the copy one by one, and then walks  *)
(* the directory for files it does not know.                               *)
(*                                                                         *)
(* A message is its ID. rows: messages in the database with a file; erase: *)
(* MessageErase records of expunged messages; going: files about to be     *)
(* removed after the database commit; adding: a file written by a          *)
(* transaction that is not committed yet.                                  *)
(***************************************************************************)
EXTENDS Integers, FiniteSets, FiniteSetsExt

CONSTANTS
  MaxID,     \* Bound: messages per area.
  MaxErrors  \* Bound: files that cannot be copied.

VARIABLE b

Areas == {"queue", "account"}

Area(n) == [rows |-> 1..n, erase |-> {}, files |-> 1..n, going |-> {}, adding |-> {}, next |-> n + 1]
NoCopy == [rows |-> {}, erase |-> {}, files |-> {}, next |-> 1]

\* step: where the backup is. copy: what it made of an area. todo: message files left
\* to link; seen: files known; walk: files left of the walk.
\* The areas have only the report of errors in common, so messages come and go in one
\* of them, busy.
Init ==
  \E busy \in Areas, nq, na \in 0..1 :
    b = [queue |-> Area(nq), account |-> Area(na), busy |-> busy, step |-> "config", area |-> "queue",
         copy |-> [a \in Areas |-> NoCopy], todo |-> {}, seen |-> {}, walk |-> {},
         incomplete |-> FALSE, errors |-> 0, warned |-> {}, lost |-> FALSE, result |-> "", verified |-> "", moved |-> {}]

-----------------------------------------------------------------------------
(* The running server.                                                     *)

\* queue.Add and MessageAdd: the file is written within the transaction, and removed
\* again if that fails.
AddFile(a) ==
  /\ b[a].adding = {} /\ b[a].next <= MaxID
  /\ b' = [b EXCEPT ![a].adding = {b[a].next}, ![a].files = @ \cup {b[a].next}]

AddDone(a) ==
  /\ b[a].adding # {}
  /\ \/ b' = [b EXCEPT ![a].rows = @ \cup b[a].adding, ![a].next = @ + 1, ![a].adding = {}]
     \/ b' = [b EXCEPT ![a].files = @ \ b[a].adding, ![a].adding = {}]

\* A message leaves the queue: from the database, and then its file.
Retire(i) ==
  /\ i \in b.queue.rows
  /\ b' = [b EXCEPT !.queue.rows = @ \ {i}, !.queue.going = @ \cup {i}]

\* Expunge, and later eraseMessages.
Expunge(i) ==
  /\ i \in b.account.rows
  /\ b' = [b EXCEPT !.account.rows = @ \ {i}, !.account.erase = @ \cup {i}]

Erase(i) ==
  /\ i \in b.account.erase
  /\ b' = [b EXCEPT !.account.erase = @ \ {i}, !.account.going = @ \cup {i}]

RemoveFile(a, i) ==
  /\ i \in b[a].going
  /\ b' = [b EXCEPT ![a].going = @ \ {i}, ![a].files = @ \ {i}]

-----------------------------------------------------------------------------
(* The backup.                                                             *)

xerrx(e) == [e EXCEPT !.incomplete = TRUE]
Error(e) == [xerrx(e) EXCEPT !.errors = @ + 1]

\* The configuration directory.
ConfigDir ==
  /\ b.step = "config"
  /\ \/ b' = [b EXCEPT !.step = "dbs"]
     \/ b.errors < MaxErrors /\ b' = [Error(b) EXCEPT !.step = "dbs"]

\* The databases without files of their own, keys and certificates.
Databases ==
  /\ b.step = "dbs"
  /\ \/ b' = [b EXCEPT !.step = "copy", !.area = "queue"]
     \/ b.errors < MaxErrors /\ b' = [Error(b) EXCEPT !.step = "copy", !.area = "queue"]

NextArea(e) ==
  LET r == [e EXCEPT !.todo = {}, !.seen = {}, !.walk = {}]
  IN  IF e.area = "queue" THEN [r EXCEPT !.step = "copy", !.area = "account"] ELSE [r EXCEPT !.step = "other"]

\* backupDB: a consistent copy. An account whose copy cannot be opened, and the queue
\* when it is not copied, are left at that.
backupDB ==
  /\ b.step = "copy"
  /\ LET s == b[b.area]
     IN  \/ b' = [b EXCEPT !.step = "link", !.todo = s.rows, !.seen = {},
                           !.copy[b.area] = [rows |-> s.rows, erase |-> s.erase, files |-> {}, next |-> s.next]]
         \/ b.errors < MaxErrors /\ b' = NextArea(Error(b))

\* As linkOrCopy, but a message whose file is gone is not an error.
linkOrCopyOrGone(e, i) ==
  \/ i \in b[b.area].files /\ b' = [e EXCEPT !.copy[b.area].files = @ \cup {i}]
  \/ i \notin b[b.area].files /\ b' = [e EXCEPT !.lost = TRUE]
  \/ b.errors < MaxErrors /\ b' = Error(e)

\* A hard link to the message file, or a copy. A message that was removed since the
\* database was copied is an error.
linkOrCopy(e, i) ==
  \/ i \in b[b.area].files /\ b' = [e EXCEPT !.copy[b.area].files = @ \cup {i}]
  \/ i \notin b[b.area].files /\ b' = [xerrx(e) EXCEPT !.lost = TRUE]
  \/ b.errors < MaxErrors /\ b' = Error(e)

Link(a) ==
  /\ b.step = "link" /\ b.area = a
  /\ IF b.todo = {} THEN b' = [b EXCEPT !.step = "walk", !.walk = b[a].files]
     ELSE \E i \in b.todo : linkOrCopy([b EXCEPT !.todo = @ \ {i}, !.seen = @ \cup {i}], i)

QueueMessages == Link("queue")
AccountMessages == Link("account")

\* Copies a file as it is. It may be gone by now.
backupFile(e, i) ==
  \/ i \in b[b.area].files /\ b' = [e EXCEPT !.copy[b.area].files = @ \cup {i}]
  \/ i \notin b[b.area].files /\ b' = [xerrx(e) EXCEPT !.lost = TRUE]
  \/ b.errors < MaxErrors /\ b' = Error(e)

\* The other files in the directory, those found when the walk began.
Walk(a, skip) ==
  /\ b.step = "walk" /\ b.area = a
  /\ IF b.walk = {} THEN b' = NextArea(b)
     ELSE \E i \in b.walk :
            LET e == [b EXCEPT !.walk = @ \ {i}]
            IN  IF i \in b.seen \cup skip THEN b' = e
                ELSE backupFile([e EXCEPT !.warned = @ \cup {<<a, i>>}], i)

maxID == IF b.copy[b.area].rows = {} THEN 0 ELSE Max(b.copy[b.area].rows)

\* Files that are newer than the copied database are left out, and files that are to be
\* erased.
WalkQueue == Walk("queue", {i \in 1..MaxID : maxID > 0 /\ i > maxID})
WalkAccount == Walk("account", {i \in 1..MaxID : i > maxID \/ i \in b.copy.account.erase})

\* All other files, and the result.
OtherFiles ==
  /\ b.step = "other"
  /\ \/ b' = [b EXCEPT !.step = "done", !.result = IF b.incomplete THEN "errors" ELSE "ok"]
     \/ b.errors < MaxErrors /\ b' = [Error(b) EXCEPT !.step = "done", !.result = "errors"]

-----------------------------------------------------------------------------
(* Verification of the copy.                                               *)

Unknown(a) == b.copy[a].files \ b.copy[a].rows

\* All messages of the database must have a file, and other files must be moved away.
checkQueue(fix) == b.copy.queue.rows \subseteq b.copy.queue.files /\ (fix \/ Unknown("queue") = {})
checkAccount == b.copy.account.rows \subseteq b.copy.account.files
checkAccountFiles(fix) == fix \/ Unknown("account") = {}

\* With -fix, message files that are not in the database are moved away.
verifydata(fix) ==
  /\ b.step = "done" /\ b.verified = "" /\ b.result = "ok"
  /\ b' = [b EXCEPT !.verified = IF checkQueue(fix) /\ checkAccount /\ checkAccountFiles(fix) THEN "ok" ELSE "errors",
                    !.copy = IF ~fix THEN @ ELSE [a \in Areas |-> [@[a] EXCEPT !.files = @ \ Unknown(a)]],
                    !.moved = IF fix THEN {<<a, i>> \in Areas \X (1..MaxID) : i \in Unknown(a)} ELSE {}]

Next ==
  \/ /\ b.step \in {"copy", "link", "walk"} /\ b.area = b.busy
     /\ \/ AddFile(b.busy)
        \/ AddDone(b.busy)
        \/ b.busy = "queue" /\ \E i \in b.queue.rows : Retire(i)
        \/ b.busy = "account" /\ \E i \in b.account.rows : Expunge(i)
        \/ b.busy = "account" /\ \E i \in b.account.erase : Erase(i)
        \/ \E i \in b[b.busy].going : RemoveFile(b.busy, i)
  \/ ConfigDir \/ Databases \/ backupDB \/ QueueMessages \/ WalkQueue \/ AccountMessages \/ WalkAccount
  \/ OtherFiles
  \/ \E fix \in BOOLEAN : verifydata(fix)

Spec == Init /\ [][Next]_b

-----------------------------------------------------------------------------
(* Properties.                                                             *)

\* A backup that is reported as successful (xbackupctl) has the file of every message
\* in its databases, whatever the server did meanwhile, so that verifydata -fix
\* finds no error and leaves only these files; and errors are reported only when
\* files could not be copied or were removed while they were being copied.
BackupComplete ==
  /\ b.result = "ok" => \A a \in Areas : b.copy[a].rows \subseteq b.copy[a].files
  /\ b.result = "errors" => b.errors > 0 \/ b.lost
  /\ b.moved # {} => b.verified = "ok" /\ \A a \in Areas : b.copy[a].files = b.copy[a].rows
  /\ b.result = "ok" => \A i \in b.copy.account.files \ b.copy.account.rows : i < b.copy.account.next
  /\ b.verified = "errors" => b.warned # {}

\* "Message files that are newer than we expect from our consistent database
\* snapshot are ignored": no file with an ID the copied database will assign again.
NewerIgnored == b.step = "done" => \A a \in Areas : \A i \in b.copy[a].files : i < b.copy[a].next
=============================================================================
