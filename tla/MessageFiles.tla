---------------------------- MODULE MessageFiles ----------------------------
(***************************************************************************)
(* The messages of an account: a record in the database and a file on disk *)
(* named after the ID of the record.  Files are made inside the            *)
(* transaction that inserts the records, by MessageAdd (store/account.go), *)
(* by COPY and MOVE (imapserver/server.go, webops/xops.go), and must be    *)
(* removed again by the caller when the transaction fails.  They are       *)
(* removed by the eraser (store/state.go), and when the account is opened  *)
(* again (OpenAccountDB), which also moves the IDs past files a crash left *)
(* behind.                                                                 *)
(*                                                                         *)
(* All of this happens under the account write lock, so there is one       *)
(* transaction at a time.  A file is its content; the record of a message  *)
(* says which content it should have.  Which expunged messages are erased  *)
(* when is up to the switchboard (module Switchboard), here it is a choice.*)
(* The end of MessageAdd, which stores messages at NATS, is in NatsStore.  *)
(***************************************************************************)
EXTENDS Naturals, FiniteSets, FiniteSetsExt

CONSTANTS
    MaxID,          \* bound: highest message ID explored
    FilesPerDir,    \* msgFilesPerDir
    Bodies,         \* contents of messages
    NoBody,         \* no file, or no record
    MaxCrashes      \* bound: crashes explored

ASSUME FilesAssumption ==
    /\ MaxID \in Nat \ {0} /\ FilesPerDir \in Nat \ {0} /\ MaxCrashes \in Nat
    /\ IsFiniteSet(Bodies) /\ NoBody \notin Bodies

IDs == 1..MaxID

VARIABLES
    state,      \* message records, as committed
    body,       \* the content a record is for, also for inserted but uncommitted ones
    seq,        \* the next ID bstore gives out, as committed
    erase,      \* MessageErase records
    file,       \* content of the file of each ID
    dirs,       \* directories that exist
    opened,     \* the account is open
    tx,         \* the write transaction
    lost,       \* moved messages of which a failed move removed the file
    orphans,    \* files a failed move left behind, or opening the account did not see
    crashes

database == <<state, body, seq, erase>>
vars == <<database, file, dirs, opened, tx, lost, orphans, crashes>>

\* A transaction: the IDs of the records it inserted, the messages it moved, and the
\* IDs of which the file is removed, on error or at the end of an erase.
Txs == [op : {"none", "add", "copy", "move", "erase", "open"}, new : SUBSET IDs,
        moved : SUBSET IDs, cleanup : SUBSET IDs]

NoTx == [op |-> "none", new |-> {}, moved |-> {}, cleanup |-> {}]

Live == {id \in IDs : state[id] = "live"}

\* The ID of the next record inserted in the transaction.
NextID == seq + Cardinality(tx.new)

Dir(id) == id \div FilesPerDir

HasFile(id) == file[id] # NoBody

\* The files after os.Remove of those of ids.
Removed(ids) == [id \in IDs |-> IF id \in ids THEN NoBody ELSE file[id]]

Init ==
    /\ state = [id \in IDs |-> "none"]
    /\ body = [id \in IDs |-> NoBody]
    /\ seq = 1
    /\ erase = {}
    /\ file = [id \in IDs |-> NoBody]
    /\ dirs = {}
    /\ opened = TRUE
    /\ tx = NoTx
    /\ lost = {} /\ orphans = {}
    /\ crashes = 0

-----------------------------------------------------------------------------
(* Transactions that add messages.                                         *)

Begin(op) ==
    /\ opened /\ tx = NoTx
    /\ tx' = [NoTx EXCEPT !.op = op]
    /\ UNCHANGED <<database, file, dirs, opened, lost, orphans, crashes>>

\* As Linked, but an existing file is taken for the one to make.
LinkedAny(id, b) == file' = IF HasFile(id) THEN file ELSE [file EXCEPT ![id] = b]

\* LinkOrCopy makes the file; neither a link nor a copy replaces an existing file.
Linked(id, b) == ~HasFile(id) /\ file' = [file EXCEPT ![id] = b]

\* Insert of a record with content b and its file, with the new transaction.
Insert(b, after) ==
    /\ NextID <= MaxID
    /\ Linked(NextID, b)
    /\ body' = [body EXCEPT ![NextID] = b]
    /\ dirs' = dirs \cup {Dir(NextID)}
    /\ tx' = after
    /\ UNCHANGED <<state, seq, erase, opened, lost, orphans, crashes>>

\* MessageAdd of a message with new content, for DeliverMailbox and APPEND.
MessageAdd(b) ==
    /\ tx.op = "add"
    /\ \A id \in IDs : b \notin {body[id], file[id]}
    /\ Insert(b, [tx EXCEPT !.new = @ \cup {NextID}, !.cleanup = @ \cup {NextID}])

\* COPY of message id.
CopyMessage(id) ==
    /\ tx.op = "copy"
    /\ id \in Live /\ HasFile(id)
    /\ Insert(file[id], [tx EXCEPT !.new = @ \cup {NextID}, !.cleanup = @ \cup {NextID}])

\* MOVE of message id: its record is changed, and an expunged record with a file of its
\* own takes its place.  What is kept for cleanup is the ID of the moved message.
MoveMessage(id) ==
    /\ tx.op = "move"
    /\ id \in Live \ tx.moved /\ HasFile(id)
    /\ Insert(file[id], [tx EXCEPT !.new = @ \cup {NextID}, !.moved = @ \cup {id},
                                   !.cleanup = @ \cup {id}])

\* Removal of files on error, with rollback of the transaction.
Rollback(ids) ==
    /\ file' = Removed(ids)
    /\ body' = [id \in IDs |-> IF id \in tx.new THEN NoBody ELSE body[id]]
    /\ lost' = lost \cup (ids \cap tx.moved)
    /\ orphans' = (orphans \ ids) \cup {id \in tx.new \ ids : tx.op = "move"}
    /\ tx' = NoTx
    /\ UNCHANGED <<state, seq, erase, opened, crashes>>

\* A file is in the way of the next insert: the transaction fails.  DeliverMailbox and
\* APPEND also remove the file that was in the way, COPY and MOVE do not.
LinkFails ==
    /\ tx.op \in {"add", "copy", "move"}
    /\ NextID <= MaxID /\ HasFile(NextID)
    /\ Rollback(tx.cleanup \cup (IF tx.op = "add" THEN {NextID} ELSE {}))
    /\ UNCHANGED dirs

\* As Fail, but the caller does not remove files.
FailKeeps ==
    /\ tx.op \in {"add", "copy", "move"}
    /\ Rollback({})
    /\ UNCHANGED dirs

\* A later error: sync, junk filter, update of the mailbox, commit.
Fail ==
    /\ tx.op \in {"add", "copy", "move"}
    /\ Rollback(tx.cleanup)
    /\ UNCHANGED dirs

\* As Expunging, but without MessageErase records.
ExpungingNot(ids) == UNCHANGED erase

\* MessageErase records for newly expunged records.
Expunging(ids) == erase' = erase \cup ids

Commit ==
    /\ tx.op \in {"add", "copy", "move"} /\ tx.new # {}
    /\ state' = [id \in IDs |->
                    IF id \notin tx.new THEN state[id]
                    ELSE IF tx.op = "move" THEN "expunged" ELSE "live"]
    /\ seq' = NextID
    /\ Expunging(IF tx.op = "move" THEN tx.new ELSE {})
    /\ tx' = NoTx
    /\ UNCHANGED <<body, file, dirs, opened, lost, orphans, crashes>>

-----------------------------------------------------------------------------
(* Removing messages.                                                      *)

\* MessageRemove, committed.
MessageRemove(id) ==
    /\ opened /\ tx = NoTx
    /\ id \in Live
    /\ state' = [state EXCEPT ![id] = "expunged"]
    /\ Expunging({id})
    /\ UNCHANGED <<body, seq, file, dirs, opened, tx, lost, orphans, crashes>>

Erased(ids) ==
    /\ state' = [id \in IDs |-> IF id \in ids THEN "erased" ELSE state[id]]
    /\ body' = [id \in IDs |-> IF id \in ids THEN NoBody ELSE body[id]]
    /\ erase' = erase \ ids

\* eraseMessages: the database first ...
EraseCommit(ids) ==
    /\ opened /\ tx = NoTx
    /\ ids # {} /\ ids \subseteq erase
    /\ Erased(ids)
    /\ tx' = [NoTx EXCEPT !.op = "erase", !.cleanup = ids]
    /\ UNCHANGED <<seq, file, dirs, opened, lost, orphans, crashes>>

\* ... then the files.
EraseFiles ==
    /\ tx.op = "erase"
    /\ file' = Removed(tx.cleanup)
    /\ tx' = NoTx
    /\ UNCHANGED <<database, dirs, opened, lost, orphans, crashes>>

-----------------------------------------------------------------------------
(* Closing, crashing, and opening the account.                             *)

\* The last user closes the account.  (Opening can increase the ID again and again.)
Close ==
    /\ opened /\ tx = NoTx
    /\ seq <= MaxID
    /\ opened' = FALSE
    /\ UNCHANGED <<database, file, dirs, tx, lost, orphans, crashes>>

\* The process ends inside or outside a transaction.  Files it made, and did not yet
\* sync the directory of, may be gone.
Crash ==
    /\ crashes < MaxCrashes
    /\ crashes' = crashes + 1
    /\ opened' = FALSE
    /\ tx' = NoTx
    /\ body' = [id \in IDs |-> IF id \in tx.new THEN NoBody ELSE body[id]]
    /\ \E gone \in SUBSET tx.new : file' = Removed(gone)
    /\ UNCHANGED <<state, seq, erase, dirs, lost, orphans>>

\* OpenAccountDB: the files of messages still to be erased are removed first ...
Open ==
    /\ ~opened /\ tx = NoTx
    /\ file' = Removed(erase)
    /\ tx' = [NoTx EXCEPT !.op = "open"]
    /\ UNCHANGED <<database, dirs, opened, lost, orphans, crashes>>

MaxDBID == Max({0} \cup {id \in IDs : state[id] # "none"})

\* As LastDir, but only the directory of the last message is looked in.
LastDirFirst == Dir(MaxDBID)

\* The directory of the last message in the database, or the last one of those that
\* follow it without a gap.
LastDir == Max({d \in {Dir(MaxDBID)} \cup dirs :
                   \A e \in (Dir(MaxDBID) + 1)..d : e \in dirs})

\* The highest ID on disk: of the files in the last directory, and at least the first
\* ID of a directory that follows that of the last message.
MaxFSID == Max({MaxDBID} \cup {id \in IDs : HasFile(id) /\ Dir(id) = LastDir}
               \cup (IF LastDir > Dir(MaxDBID) THEN {LastDir * FilesPerDir} ELSE {}))

\* Files that are not seen: a directory between that of the last message and theirs
\* does not exist.
Unseen == {id \in IDs : HasFile(id) /\ \E d \in (Dir(MaxDBID) + 1)..Dir(id) : d \notin dirs}

\* ... then they are erased in the database, and records are inserted and deleted
\* until the next ID is past the files found.
OpenCommit ==
    /\ tx.op = "open"
    /\ \A id \in erase : state[id] = "expunged"
    /\ Erased(erase)
    /\ seq' = IF MaxFSID > MaxDBID THEN Max({seq, MaxFSID}) + 1 ELSE seq
    /\ opened' = TRUE
    /\ tx' = NoTx
    /\ orphans' = orphans \cup Unseen
    /\ UNCHANGED <<file, dirs, lost, crashes>>

-----------------------------------------------------------------------------
Next ==
    \/ \E op \in {"add", "copy", "move"} : Begin(op)
    \/ \E b \in Bodies : MessageAdd(b)
    \/ \E id \in IDs : CopyMessage(id) \/ MoveMessage(id) \/ MessageRemove(id)
    \/ LinkFails \/ Fail \/ Commit
    \/ \E ids \in SUBSET IDs : EraseCommit(ids)
    \/ EraseFiles
    \/ Close \/ Crash \/ Open \/ OpenCommit

Spec == Init /\ [][Next]_vars

-----------------------------------------------------------------------------
(* Properties.                                                             *)

TypeOK ==
    /\ state \in [IDs -> {"none", "live", "expunged", "erased"}]
    /\ body \in [IDs -> Bodies \cup {NoBody}]
    /\ file \in [IDs -> Bodies \cup {NoBody}]
    /\ seq \in Nat \ {0}
    /\ erase \subseteq IDs
    /\ dirs \subseteq 0..MaxID
    /\ opened \in BOOLEAN
    /\ tx \in Txs
    /\ lost \subseteq IDs /\ orphans \subseteq IDs
    /\ crashes \in 0..MaxCrashes

\* A message in a mailbox can be read, and has the content it was added with: its file
\* is not that of a message added before under the same ID, and no failing or
\* interrupted transaction takes it away.
Readable == \A id \in Live : file[id] = body[id]

\* As Readable, except for messages of a failed move.
ReadableUnlessMoved == \A id \in Live \ lost : file[id] = body[id]

\* The records to be erased are the expunged ones: opening the account does not fail
\* on them, and none is forgotten.
EraseExpunged == erase = {id \in IDs : state[id] = "expunged"}

\* While the account is open, and after any sequence of crashes, the files for the next
\* IDs do not exist yet, so that no delivery fails on them; except for the files left
\* behind by a failed move, and for those opening did not see after a missing directory
\* (every opening that finds a file moves the next ID up, in the end past a directory).
SequenceAhead ==
    opened => \A id \in IDs : id >= seq /\ HasFile(id) => id \in tx.new \cup orphans

\* Without crashes no file stays behind: it belongs to a message that is not erased, or
\* to the transaction; except after a failed move.
NoGarbage ==
    crashes = 0 =>
        \A id \in IDs : HasFile(id) =>
            \/ state[id] \in {"live", "expunged"}
            \/ id \in tx.new \cup tx.cleanup \cup orphans

\* Files, records and the sequence of IDs agree: no file is in the way of a message to
\* come, none is left behind, and what is expunged will be erased, with the exceptions
\* of SequenceAhead, NoGarbage and EraseExpunged.
FilesAccounted == SequenceAhead /\ NoGarbage /\ EraseExpunged

-----------------------------------------------------------------------------
(* The inductive invariants behind these.                                  *)

\* A transaction has inserted the IDs from seq on, which no committed record has, each
\* with its file.  It cleans up its own IDs, or those of messages it moved.
TxInv ==
    /\ \A id \in IDs : id >= seq => state[id] = "none"
    /\ tx.new = seq..(NextID - 1)
    /\ \A id \in tx.new : HasFile(id) /\ file[id] = body[id]
    /\ tx.op \in {"none", "erase", "open"} => tx.new = {}
    /\ tx.op # "erase" => tx.cleanup \subseteq tx.new \cup tx.moved
    /\ tx.op = "erase" => \A id \in tx.cleanup : state[id] = "erased"

FilesInv == TxInv /\ ReadableUnlessMoved /\ EraseExpunged

\* The caller of a transaction that adds or copies removes all its files on error; moved
\* messages are still there; and opening removed the files of what it is to erase.
CleanupInv ==
    /\ tx.op \in {"add", "copy"} => tx.new \subseteq tx.cleanup
    /\ tx.moved \subseteq Live
    /\ tx.op = "open" => ~opened /\ \A id \in erase : ~HasFile(id)
=============================================================================
