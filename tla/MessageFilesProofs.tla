------------------------- MODULE MessageFilesProofs -------------------------
(***************************************************************************)
(* Proofs about MessageFiles, for any number of messages and directories.  *)
(***************************************************************************)
EXTENDS MessageFiles, FiniteSetTheorems, WellFoundedInduction, TLAPS

-----------------------------------------------------------------------------
(* Numbers. *)

Less == {ss \in Nat \X Nat : ss[1] < ss[2]}

LEMMA LessWellFounded == IsWellFoundedOn(Less, Nat)
BY NatLessThanWellFounded, Zenon DEF Less, OpToRel

\* A bounded set of numbers has a maximum.
LEMMA MaxNat ==
  ASSUME NEW S, S \subseteq Nat, S # {}, NEW b \in Nat, \A x \in S : x <= b
  PROVE  Max(S) \in S /\ \A y \in S : Max(S) >= y
<1> DEFINE T == {b - x : x \in S}
<1>1. T \subseteq Nat
  <2>1. \A x \in S : b - x \in Nat
    OBVIOUS
  <2> QED BY Zenon, <2>1
<1>2. T # {}
  <2>1. PICK x \in S : TRUE
    BY Zenon
  <2>2. b - x \in T
    OBVIOUS
  <2> QED BY Zenon, <2>2
<1>3. PICK t \in T : \A y \in T : <<y, t>> \notin Less
  <2> HIDE DEF T
  <2> QED BY Zenon, <1>1, <1>2, WFMin, LessWellFounded
<1>4. \A y \in T : ~(y < t)
  <2> HIDE DEF T
  <2> QED BY Zenon, <1>1, <1>3 DEF Less
<1>5. PICK x \in S : t = b - x
  OBVIOUS
<1>6. \A y \in S : x >= y
  <2> TAKE y \in S
  <2>1. b - y \in T
    OBVIOUS
  <2>2. ~(b - y < b - x)
    <3> HIDE DEF T
    <3> QED BY Zenon, <2>1, <1>4, <1>5
  <2> QED BY <2>2
<1> QED BY Zenon, <1>6 DEF Max

LEMMA DivNat == ASSUME NEW a \in Nat, NEW b \in Nat \ {0} PROVE a \div b \in Nat /\ a \div b <= a
OBVIOUS

LEMMA TimesNat == ASSUME NEW a \in Nat, NEW b \in Nat PROVE a * b \in Nat
OBVIOUS

\* A number is below the multiple of b that follows it, and not below the one before it.
LEMMA DivBounds ==
  ASSUME NEW a \in Nat, NEW b \in Nat \ {0}
  PROVE  (a \div b) * b <= a /\ a < (a \div b + 1) * b
OBVIOUS

LEMMA TimesMonotonic ==
  ASSUME NEW a \in Nat, NEW b \in Nat, NEW c \in Nat, a <= c
  PROVE  a * b <= c * b
OBVIOUS

LEMMA DirNat == ASSUME NEW id \in Nat PROVE Dir(id) \in Nat /\ Dir(id) <= id
BY Zenon, DivNat, FilesAssumption DEF Dir

\* The next ID is a number, past those the transaction has.
LEMMA NextIDType == ASSUME TypeOK PROVE Cardinality(tx.new) \in Nat /\ NextID \in Nat \ {0} /\ NextID >= seq
<1>1. tx.new \subseteq IDs
  BY Zenon DEF TypeOK, Txs
<1>2. IsFiniteSet(tx.new)
  BY <1>1, FS_Interval, FS_Subset, FilesAssumption DEF IDs
<1>3. Cardinality(tx.new) \in Nat
  BY Zenon, <1>2, FS_CardinalityType
<1> QED BY <1>3 DEF NextID, TypeOK

\* The highest ID in the database, if any.
LEMMA MaxDBIDType == ASSUME TypeOK PROVE MaxDBID \in 0..MaxID /\ Dir(MaxDBID) \in 0..MaxID
<1> USE FilesAssumption
<1>1. MaxDBID \in 0..MaxID
  <2> DEFINE S == {0} \cup {id \in IDs : state[id] # "none"}
  <2>1. S \subseteq Nat /\ S # {} /\ \A x \in S : x <= MaxID
    BY DEF IDs
  <2>2. Max(S) \in S
    <3> HIDE DEF S
    <3> QED BY Zenon, <2>1, MaxNat
  <2> QED BY <2>2 DEF MaxDBID, IDs
<1>2. Dir(MaxDBID) \in Nat /\ Dir(MaxDBID) <= MaxID
  BY <1>1, DirNat
<1> QED BY <1>1, <1>2

\* The last directory is not before that of the last message, nor before one that can be
\* reached from there.
LEMMA LastDirFound ==
  ASSUME TypeOK
  PROVE  /\ LastDir \in Nat /\ LastDir >= Dir(MaxDBID)
         /\ \A d \in dirs : (\A e \in (Dir(MaxDBID) + 1)..d : e \in dirs) => LastDir >= d
<1> DEFINE S == {d \in {Dir(MaxDBID)} \cup dirs : \A e \in (Dir(MaxDBID) + 1)..d : e \in dirs}
<1>1. Dir(MaxDBID) \in Nat /\ Dir(MaxDBID) <= MaxID
  BY MaxDBIDType, FilesAssumption
<1>2. S \subseteq Nat /\ \A x \in S : x <= MaxID
  <2>1. S \subseteq {Dir(MaxDBID)} \cup dirs
    OBVIOUS
  <2> HIDE DEF S
  <2>2. \A x \in dirs : x \in Nat /\ x <= MaxID
    BY FilesAssumption DEF TypeOK
  <2> QED BY Zenon, <1>1, <2>1, <2>2
<1>3. Dir(MaxDBID) \in S
  BY <1>1
<1>4. Max(S) \in S /\ \A y \in S : Max(S) >= y
  <2> HIDE DEF S
  <2>1. MaxID \in Nat
    BY FilesAssumption
  <2> QED BY Zenon, <1>2, <1>3, <2>1, MaxNat
<1>5. LastDir = Max(S)
  BY Zenon DEF LastDir
<1>6. \A d \in dirs : (\A e \in (Dir(MaxDBID) + 1)..d : e \in dirs) => d \in S
  BY Zenon
<1> HIDE DEF S
<1> QED BY Zenon, <1>2, <1>3, <1>4, <1>5, <1>6

\* What OpenAccountDB finds on disk: a number that is not below the ID of the last message, nor
\* below that of a file in the last directory, nor below the first ID of that directory when it
\* follows that of the last message.
LEMMA MaxFSIDFound ==
  ASSUME TypeOK
  PROVE  /\ MaxFSID \in Nat /\ MaxFSID >= MaxDBID
         /\ \A id \in IDs : HasFile(id) /\ Dir(id) = LastDir => MaxFSID >= id
         /\ LastDir > Dir(MaxDBID) => MaxFSID >= LastDir * FilesPerDir
<1> USE FilesAssumption
<1> DEFINE n == LastDir * FilesPerDir
           S == {MaxDBID} \cup {id \in IDs : HasFile(id) /\ Dir(id) = LastDir}
                \cup (IF LastDir > Dir(MaxDBID) THEN {LastDir * FilesPerDir} ELSE {})
<1>1. n \in Nat
  BY Zenon, LastDirFound, TimesNat
<1>2. S \subseteq Nat /\ MaxDBID \in S /\ \A x \in S : x <= MaxID + n
  <2>1. S \subseteq {MaxDBID, n} \cup IDs
    OBVIOUS
  <2> HIDE DEF n, S
  <2>2. {MaxDBID, n} \cup IDs \subseteq Nat /\ \A x \in {MaxDBID, n} \cup IDs : x <= MaxID + n
    BY <1>1, MaxDBIDType DEF IDs
  <2>3. MaxDBID \in S
    BY Zenon DEF S
  <2> QED BY Zenon, <2>1, <2>2, <2>3
<1>3. Max(S) \in S /\ \A y \in S : Max(S) >= y
  <2> HIDE DEF S, n
  <2>1. MaxID + n \in Nat
    BY <1>1
  <2> QED BY Zenon, <1>2, <2>1, MaxNat
<1>4. MaxFSID = Max(S)
  BY Zenon DEF MaxFSID
<1>5. /\ \A id \in IDs : HasFile(id) /\ Dir(id) = LastDir => id \in S
      /\ LastDir > Dir(MaxDBID) => LastDir * FilesPerDir \in S
  BY Zenon
<1> HIDE DEF n, S
<1> QED BY Zenon, <1>2, <1>3, <1>4, <1>5

-----------------------------------------------------------------------------
(* Types. *)

LEMMA TypeInit == Init => TypeOK
BY FilesAssumption DEF Init, TypeOK, IDs, NoTx, Txs

LEMMA RemovedType == ASSUME TypeOK, NEW ids PROVE Removed(ids) \in [IDs -> Bodies \cup {NoBody}]
BY Zenon DEF TypeOK, Removed

\* Insert, with the transaction it leaves.
LEMMA InsertType ==
  ASSUME TypeOK, NEW b \in Bodies, NEW after \in Txs, Insert(b, after)
  PROVE  TypeOK'
<1>1. NextID \in IDs
  BY NextIDType, FilesAssumption DEF Insert, IDs
<1>2. Dir(NextID) \in 0..MaxID
  BY <1>1, DirNat, FilesAssumption DEF IDs
<1> QED BY Zenon, <1>1, <1>2 DEF Insert, Linked, TypeOK

LEMMA RollbackType ==
  ASSUME TypeOK, NEW ids, Rollback(ids), UNCHANGED dirs
  PROVE  TypeOK'
<1>1. tx.new \subseteq IDs /\ tx.moved \subseteq IDs /\ NoTx \in Txs
  BY Zenon DEF TypeOK, Txs, NoTx
<1>2. file' \in [IDs -> Bodies \cup {NoBody}]
  BY Zenon, RemovedType DEF Rollback
<1>3. body' \in [IDs -> Bodies \cup {NoBody}]
  BY Zenon DEF Rollback, TypeOK
<1>4. lost' \subseteq IDs /\ orphans' \subseteq IDs
  BY Zenon, <1>1 DEF Rollback, TypeOK
<1> QED BY Zenon, <1>1, <1>2, <1>3, <1>4 DEF Rollback, TypeOK

\* The types are preserved.
LEMMA TypeStep == TypeOK /\ [Next]_vars => TypeOK'
<1> SUFFICES ASSUME TypeOK, [Next]_vars PROVE TypeOK'
  OBVIOUS
<1> USE FilesAssumption
<1>a. tx.new \subseteq IDs /\ tx.moved \subseteq IDs /\ tx.cleanup \subseteq IDs /\ NoTx \in Txs
  BY Zenon DEF TypeOK, Txs, NoTx
<1>b. NextID <= MaxID => NextID \in IDs
  BY NextIDType DEF IDs
<1>1. ASSUME NEW op \in {"add", "copy", "move"}, Begin(op) PROVE TypeOK'
  BY Zenon, <1>1 DEF Begin, TypeOK, Txs, NoTx, database
<1>2. ASSUME NEW b \in Bodies, MessageAdd(b) PROVE TypeOK'
  <2>1. NextID \in IDs
    BY Zenon, <1>2, <1>b DEF MessageAdd, Insert
  <2>2. [tx EXCEPT !.new = @ \cup {NextID}, !.cleanup = @ \cup {NextID}] \in Txs
    BY Zenon, <2>1 DEF TypeOK, Txs
  <2> QED BY Zenon, <1>2, <2>2, InsertType DEF MessageAdd
<1>3. ASSUME NEW id \in IDs, CopyMessage(id) PROVE TypeOK'
  <2>1. NextID \in IDs /\ file[id] \in Bodies
    BY Zenon, <1>3, <1>b DEF CopyMessage, Insert, HasFile, TypeOK
  <2>2. [tx EXCEPT !.new = @ \cup {NextID}, !.cleanup = @ \cup {NextID}] \in Txs
    BY Zenon, <2>1 DEF TypeOK, Txs
  <2> QED BY Zenon, <1>3, <2>1, <2>2, InsertType DEF CopyMessage
<1>4. ASSUME NEW id \in IDs, MoveMessage(id) PROVE TypeOK'
  <2>1. NextID \in IDs /\ file[id] \in Bodies
    BY Zenon, <1>4, <1>b DEF MoveMessage, Insert, HasFile, TypeOK
  <2>2. [tx EXCEPT !.new = @ \cup {NextID}, !.moved = @ \cup {id}, !.cleanup = @ \cup {id}] \in Txs
    BY Zenon, <2>1 DEF TypeOK, Txs
  <2> QED BY Zenon, <1>4, <2>1, <2>2, InsertType DEF MoveMessage
<1>5. ASSUME NEW id \in IDs, MessageRemove(id) PROVE TypeOK'
  BY Zenon, <1>5 DEF MessageRemove, Expunging, TypeOK
<1>6. CASE LinkFails
  BY Zenon, <1>6, RollbackType DEF LinkFails
<1>7. CASE Fail
  BY Zenon, <1>7, RollbackType DEF Fail
<1>8. CASE Commit
  <2>1. NextID \in Nat \ {0}
    BY Zenon, NextIDType
  <2> QED BY Zenon, <1>8, <1>a, <2>1 DEF Commit, Expunging, TypeOK
<1>9. ASSUME NEW ids \in SUBSET IDs, EraseCommit(ids) PROVE TypeOK'
  <2>1. [NoTx EXCEPT !.op = "erase", !.cleanup = ids] \in Txs
    BY Zenon DEF NoTx, Txs
  <2> QED BY Zenon, <1>9, <2>1 DEF EraseCommit, Erased, TypeOK
<1>10. CASE EraseFiles
  BY Zenon, <1>10, <1>a, RemovedType DEF EraseFiles, TypeOK, database
<1>11. CASE Close
  BY Zenon, <1>11 DEF Close, TypeOK, database
<1>12. CASE Crash
  <2>1. PICK gone \in SUBSET tx.new : file' = Removed(gone)
    BY Zenon, <1>12 DEF Crash
  <2>2. file' \in [IDs -> Bodies \cup {NoBody}]
    BY Zenon, <2>1, RemovedType
  <2>3. body' \in [IDs -> Bodies \cup {NoBody}]
    BY Zenon, <1>12 DEF Crash, TypeOK
  <2>4. /\ crashes < MaxCrashes /\ crashes' = crashes + 1 /\ opened' = FALSE /\ tx' = NoTx
        /\ UNCHANGED <<state, seq, erase, dirs, lost, orphans>>
    BY Zenon, <1>12 DEF Crash
  <2>5. crashes' \in 0..MaxCrashes
    BY <2>4 DEF TypeOK
  <2> QED BY Zenon, <1>a, <2>2, <2>3, <2>4, <2>5 DEF TypeOK
<1>13. CASE Open
  <2>1. [NoTx EXCEPT !.op = "open"] \in Txs
    BY Zenon DEF NoTx, Txs
  <2> QED BY Zenon, <1>13, <2>1, RemovedType DEF Open, TypeOK, database
<1>14. CASE OpenCommit
  <2>1. Max({seq, MaxFSID}) \in Nat
    <3>1. MaxFSID \in Nat /\ seq \in Nat
      BY Zenon, MaxFSIDFound DEF TypeOK
    <3> HIDE DEF MaxFSID
    <3>2. \E x \in {seq, MaxFSID} : \A y \in {seq, MaxFSID} : x >= y
      BY <3>1
    <3>3. Max({seq, MaxFSID}) \in {seq, MaxFSID}
      BY Zenon, <3>2 DEF Max
    <3> QED BY Zenon, <3>1, <3>3
  <2>2. Unseen \subseteq IDs
    BY Zenon DEF Unseen
  <2>3. seq' \in Nat \ {0}
    <3>1. seq' = IF MaxFSID > MaxDBID THEN Max({seq, MaxFSID}) + 1 ELSE seq
      BY Zenon, <1>14 DEF OpenCommit
    <3> QED BY <2>1, <3>1 DEF TypeOK
  <2> QED BY Zenon, <1>14, <1>a, <2>2, <2>3 DEF OpenCommit, Erased, TypeOK
<1>15. CASE UNCHANGED vars
  BY Zenon, <1>15 DEF vars, database, TypeOK
<1> QED
  BY Zenon, <1>1, <1>2, <1>3, <1>4, <1>5, <1>6, <1>7, <1>8, <1>9, <1>10, <1>11, <1>12, <1>13, <1>14, <1>15 DEF Next

\* All variables keep their types: no ID below 1 or beyond the sequence, no directory
\* outside those of the IDs, whatever transactions fail and wherever the process ends.
THEOREM FilesTyping == Spec => []TypeOK
BY TypeInit, TypeStep, PTL DEF Spec

-----------------------------------------------------------------------------
(* Files and records. *)

\* The transaction after an insert.
LEMMA InsertTx ==
  ASSUME TypeOK, FilesInv, NEW b \in Bodies, NEW after \in Txs, Insert(b, after),
         after.new = tx.new \cup {NextID}, after.op = tx.op, tx.op \in {"add", "copy", "move"},
         after.cleanup \subseteq after.new \cup after.moved
  PROVE  FilesInv'
<1> USE FilesAssumption
<1>1. NextID \in IDs /\ seq \in Nat \ {0} /\ NextID \in Nat /\ NextID >= seq
  BY NextIDType DEF Insert, IDs, TypeOK
<1>2. state[NextID] = "none"
  BY Zenon, <1>1 DEF FilesInv, TxInv
<1>3. after.new = seq..NextID
  BY <1>1 DEF FilesInv, TxInv
<1>4. Cardinality(after.new) = NextID - seq + 1
  <2>1. Cardinality(seq..NextID) = IF seq > NextID THEN 0 ELSE NextID - seq + 1
    <3>1. seq \in Int /\ NextID \in Int
      BY <1>1
    <3> QED BY Zenon, <3>1, FS_Interval
  <2>2. Cardinality(after.new) = Cardinality(seq..NextID)
    BY <1>3, Zenon
  <2> QED BY <1>1, <2>1, <2>2
<1>5. tx' = after /\ UNCHANGED <<state, seq, erase, lost>>
  BY Zenon DEF Insert
<1>6. NextID' = NextID + 1
  <2>1. NextID' = seq + Cardinality(after.new)
    BY Zenon, <1>5 DEF NextID
  <2> QED BY <1>1, <1>4, <2>1
<1>7. file' = [file EXCEPT ![NextID] = b] /\ body' = [body EXCEPT ![NextID] = b]
  BY Zenon DEF Insert, Linked
<1>8. tx'.new = seq'..(NextID' - 1)
  BY <1>1, <1>3, <1>5, <1>6
<1>9. \A id \in tx'.new : file'[id] # NoBody /\ file'[id] = body'[id]
  BY Zenon, <1>1, <1>5, <1>7 DEF FilesInv, TxInv, TypeOK, HasFile, Txs
<1>10. TxInv'
  BY Zenon, <1>5, <1>8, <1>9 DEF FilesInv, TxInv, HasFile
<1>11. ReadableUnlessMoved'
  BY Zenon, <1>2, <1>5, <1>7 DEF FilesInv, ReadableUnlessMoved, Live, TypeOK
<1>12. EraseExpunged'
  BY Zenon, <1>5 DEF FilesInv, EraseExpunged
<1> QED BY Zenon, <1>10, <1>11, <1>12 DEF FilesInv

\* Nothing is inserted anymore: what remains to be shown about the transaction.
LEMMA NoInserts ==
  ASSUME seq' \in Nat, tx'.new = {}
  PROVE  tx'.new = seq'..(NextID' - 1)
BY FS_EmptySet DEF NextID

LEMMA RollbackStep ==
  ASSUME TypeOK, FilesInv, NEW ids \in SUBSET IDs, Rollback(ids), tx.op \in {"add", "copy", "move"},
         \A id \in ids : id \in tx.moved \/ state[id] = "none"
  PROVE  FilesInv'
<1>1. tx' = NoTx /\ UNCHANGED <<state, seq, erase>>
  BY Zenon DEF Rollback
<1>2. \A id \in tx.new : id \in IDs /\ id >= seq
  <2>1. tx.new \subseteq IDs /\ tx.new = seq..(NextID - 1) /\ seq \in Nat
    BY Zenon DEF FilesInv, TxInv, TypeOK, Txs
  <2> QED BY <2>1, NextIDType
<1>3. \A id \in tx.new : state[id] = "none"
  BY Zenon, <1>2 DEF FilesInv, TxInv
<1>4. TxInv'
  BY Zenon, <1>1, NoInserts DEF FilesInv, TxInv, NoTx, TypeOK
<1>5. ReadableUnlessMoved'
  BY Zenon, <1>1, <1>3 DEF Rollback, Removed, FilesInv, ReadableUnlessMoved, Live
<1> QED BY Zenon, <1>1, <1>4, <1>5 DEF FilesInv, EraseExpunged

\* The invariant is preserved.
LEMMA FilesStep == TypeOK /\ FilesInv /\ [Next]_vars => FilesInv'
<1> SUFFICES ASSUME TypeOK, FilesInv, [Next]_vars PROVE FilesInv'
  OBVIOUS
<1> USE FilesAssumption
<1>t. TypeOK'
  BY Zenon, TypeStep
<1>a. /\ tx.new \subseteq IDs /\ tx.moved \subseteq IDs /\ tx.cleanup \subseteq IDs
      /\ tx.new = seq..(NextID - 1) /\ seq \in Nat /\ seq' \in Nat
  BY Zenon, <1>t DEF FilesInv, TxInv, TypeOK, Txs
<1>b. \A id \in tx.new : state[id] = "none"
  BY <1>a, NextIDType DEF FilesInv, TxInv
<1>c. NextID <= MaxID => NextID \in IDs /\ state[NextID] = "none"
  BY NextIDType DEF IDs, FilesInv, TxInv
<1>1. ASSUME NEW op \in {"add", "copy", "move"}, Begin(op) PROVE FilesInv'
  <2>1. tx'.new = {} /\ tx'.cleanup = {} /\ tx'.op = op /\ UNCHANGED <<state, body, seq, erase, file, lost>>
    BY Zenon, <1>1 DEF Begin, NoTx, database
  <2> QED BY Zenon, <1>a, <2>1, NoInserts DEF FilesInv, TxInv, ReadableUnlessMoved, Live, EraseExpunged
<1>2. ASSUME NEW b \in Bodies, MessageAdd(b) PROVE FilesInv'
  <2> DEFINE after == [tx EXCEPT !.new = @ \cup {NextID}, !.cleanup = @ \cup {NextID}]
  <2>1. NextID \in IDs
    BY Zenon, <1>2, <1>c DEF MessageAdd, Insert
  <2>2. after \in Txs /\ after.op = tx.op /\ after.new = tx.new \cup {NextID}
    BY Zenon, <2>1 DEF TypeOK, Txs
  <2>3. after.cleanup \subseteq after.new \cup after.moved /\ tx.op = "add"
    BY Zenon, <1>2, <2>1 DEF TypeOK, Txs, FilesInv, TxInv, MessageAdd
  <2>4. Insert(b, after)
    BY Zenon, <1>2 DEF MessageAdd
  <2> HIDE DEF after
  <2> QED BY Zenon, <2>2, <2>3, <2>4, InsertTx
<1>3. ASSUME NEW id \in IDs, CopyMessage(id) PROVE FilesInv'
  <2> DEFINE after == [tx EXCEPT !.new = @ \cup {NextID}, !.cleanup = @ \cup {NextID}]
  <2>1. NextID \in IDs /\ file[id] \in Bodies
    BY Zenon, <1>3, <1>c DEF CopyMessage, Insert, HasFile, TypeOK
  <2>2. after \in Txs /\ after.op = tx.op /\ after.new = tx.new \cup {NextID}
    BY Zenon, <2>1 DEF TypeOK, Txs
  <2>3. after.cleanup \subseteq after.new \cup after.moved /\ tx.op = "copy"
    BY Zenon, <1>3, <2>1 DEF TypeOK, Txs, FilesInv, TxInv, CopyMessage
  <2>4. Insert(file[id], after)
    BY Zenon, <1>3 DEF CopyMessage
  <2> HIDE DEF after
  <2> QED BY Zenon, <2>1, <2>2, <2>3, <2>4, InsertTx
<1>4. ASSUME NEW id \in IDs, MoveMessage(id) PROVE FilesInv'
  <2> DEFINE after == [tx EXCEPT !.new = @ \cup {NextID}, !.moved = @ \cup {id}, !.cleanup = @ \cup {id}]
  <2>1. NextID \in IDs /\ file[id] \in Bodies
    BY Zenon, <1>4, <1>c DEF MoveMessage, Insert, HasFile, TypeOK
  <2>2. after \in Txs /\ after.op = tx.op /\ after.new = tx.new \cup {NextID}
    BY Zenon, <2>1 DEF TypeOK, Txs
  <2>3. after.cleanup \subseteq after.new \cup after.moved /\ tx.op = "move"
    BY Zenon, <1>4, <2>1 DEF TypeOK, Txs, FilesInv, TxInv, MoveMessage
  <2>4. Insert(file[id], after)
    BY Zenon, <1>4 DEF MoveMessage
  <2> HIDE DEF after
  <2> QED BY Zenon, <2>1, <2>2, <2>3, <2>4, InsertTx
<1>5. ASSUME NEW id \in IDs, MessageRemove(id) PROVE FilesInv'
  <2>1. /\ tx = NoTx /\ state[id] = "live" /\ state' = [state EXCEPT ![id] = "expunged"]
        /\ erase' = erase \cup {id} /\ UNCHANGED <<body, seq, file, tx, lost>>
    BY Zenon, <1>5 DEF MessageRemove, Live, Expunging
  <2>2. TxInv'
    BY Zenon, <1>a, <2>1, NoInserts DEF FilesInv, TxInv, NoTx, TypeOK
  <2> QED BY Zenon, <2>1, <2>2 DEF FilesInv, ReadableUnlessMoved, Live, EraseExpunged, TypeOK
<1>6. CASE LinkFails
  <2>1. PICK ids \in SUBSET IDs : Rollback(ids) /\ \A id \in ids : id \in tx.moved \/ state[id] = "none"
    BY <1>6, <1>a, <1>b, <1>c DEF LinkFails, FilesInv, TxInv
  <2> QED BY Zenon, <1>6, <2>1, RollbackStep DEF LinkFails
<1>7. CASE Fail
  <2>1. \A id \in tx.cleanup : id \in tx.moved \/ state[id] = "none"
    BY Zenon, <1>7, <1>b DEF Fail, FilesInv, TxInv
  <2> QED BY Zenon, <1>7, <1>a, <2>1, RollbackStep DEF Fail
<1>8. CASE Commit
  <2>1. /\ tx' = NoTx /\ seq' = NextID /\ UNCHANGED <<body, file, lost>>
        /\ state' = [id \in IDs |-> IF id \notin tx.new THEN state[id]
                                   ELSE IF tx.op = "move" THEN "expunged" ELSE "live"]
        /\ erase' = erase \cup (IF tx.op = "move" THEN tx.new ELSE {})
    BY Zenon, <1>8 DEF Commit, Expunging
  <2>2. \A id \in IDs : id >= seq' => state'[id] = "none"
    <3> SUFFICES ASSUME NEW id \in IDs, id >= seq' PROVE state'[id] = "none"
      OBVIOUS
    <3>1. id \in Nat /\ NextID \in Nat /\ NextID >= seq /\ id >= NextID
      BY <2>1, NextIDType DEF IDs
    <3>2. id \notin tx.new /\ id >= seq
      BY <1>a, <3>1
    <3> QED BY Zenon, <2>1, <3>2 DEF FilesInv, TxInv
  <2>3. TxInv'
    BY Zenon, <1>a, <2>1, <2>2, NoInserts DEF TxInv, NoTx
  <2>4. ReadableUnlessMoved'
    BY Zenon, <2>1 DEF FilesInv, TxInv, ReadableUnlessMoved, Live
  <2>5. EraseExpunged'
    BY Zenon, <1>a, <1>b, <2>1 DEF FilesInv, EraseExpunged
  <2> QED BY Zenon, <2>3, <2>4, <2>5 DEF FilesInv
<1>9. ASSUME NEW ids \in SUBSET IDs, EraseCommit(ids) PROVE FilesInv'
  <2>1. /\ tx = NoTx /\ ids \subseteq erase /\ UNCHANGED <<seq, file, lost>> /\ Erased(ids)
        /\ tx'.new = {} /\ tx'.op = "erase" /\ tx'.cleanup = ids
    BY Zenon, <1>9 DEF EraseCommit, NoTx
  <2>2. \A id \in ids : state[id] = "expunged"
    BY Zenon, <2>1 DEF FilesInv, EraseExpunged
  <2>3. TxInv'
    BY Zenon, <1>a, <2>1, <2>2, NoInserts DEF FilesInv, TxInv, Erased
  <2> QED BY Zenon, <2>1, <2>2, <2>3 DEF FilesInv, ReadableUnlessMoved, Live, EraseExpunged, Erased
<1>10. CASE EraseFiles
  <2>1. /\ tx.op = "erase" /\ tx' = NoTx /\ file' = Removed(tx.cleanup)
        /\ UNCHANGED <<state, body, seq, erase, lost>>
    BY Zenon, <1>10 DEF EraseFiles, database
  <2>2. TxInv'
    BY Zenon, <1>a, <2>1, NoInserts DEF FilesInv, TxInv, NoTx
  <2> QED BY Zenon, <2>1, <2>2 DEF FilesInv, TxInv, ReadableUnlessMoved, Live, EraseExpunged, Removed
<1>11. CASE Close
  BY Zenon, <1>11 DEF Close, database, FilesInv, TxInv, NextID, HasFile, ReadableUnlessMoved, Live, EraseExpunged
<1>12. CASE Crash
  <2>1. PICK gone \in SUBSET tx.new : file' = Removed(gone)
    BY Zenon, <1>12 DEF Crash
  <2>2. /\ tx' = NoTx /\ body' = [id \in IDs |-> IF id \in tx.new THEN NoBody ELSE body[id]]
        /\ UNCHANGED <<state, seq, erase, lost>>
    BY Zenon, <1>12 DEF Crash
  <2>3. TxInv'
    BY Zenon, <1>a, <2>2, NoInserts DEF FilesInv, TxInv, NoTx
  <2> QED BY Zenon, <1>b, <2>1, <2>2, <2>3 DEF FilesInv, ReadableUnlessMoved, Live, EraseExpunged, Removed
<1>13. CASE Open
  <2>1. /\ tx'.new = {} /\ tx'.cleanup = {} /\ tx'.op = "open" /\ file' = Removed(erase)
        /\ UNCHANGED <<state, body, seq, erase, lost>>
    BY Zenon, <1>13 DEF Open, NoTx, database
  <2>2. TxInv'
    BY Zenon, <1>a, <2>1, NoInserts DEF FilesInv, TxInv
  <2> QED BY Zenon, <2>1, <2>2 DEF FilesInv, ReadableUnlessMoved, Live, EraseExpunged, Removed
<1>14. CASE OpenCommit
  <2>1. tx' = NoTx /\ Erased(erase) /\ UNCHANGED <<file, lost>>
    BY Zenon, <1>14 DEF OpenCommit
  <2>2. seq' >= seq
    <3>1. MaxFSID \in Nat
      BY Zenon, MaxFSIDFound
    <3>2. \E x \in {seq, MaxFSID} : \A y \in {seq, MaxFSID} : x >= y
      BY <1>a, <3>1
    <3>3. Max({seq, MaxFSID}) \in {seq, MaxFSID} /\ Max({seq, MaxFSID}) >= seq
      BY Zenon, <3>2 DEF Max
    <3> QED BY <1>14, <1>a, <3>1, <3>3 DEF OpenCommit
  <2>3. \A id \in IDs : id >= seq' => state'[id] = "none"
    <3> SUFFICES ASSUME NEW id \in IDs, id >= seq' PROVE state'[id] = "none"
      OBVIOUS
    <3>1. id >= seq
      BY <1>a, <2>2 DEF IDs
    <3>2. state[id] = "none" /\ id \notin erase
      BY Zenon, <3>1 DEF FilesInv, TxInv, EraseExpunged
    <3> QED BY Zenon, <2>1, <3>2 DEF Erased
  <2>4. TxInv'
    BY Zenon, <1>a, <2>1, <2>3, NoInserts DEF TxInv, NoTx
  <2> QED BY Zenon, <2>1, <2>4 DEF FilesInv, ReadableUnlessMoved, Live, EraseExpunged, Erased, TypeOK
<1>15. CASE UNCHANGED vars
  BY Zenon, <1>15 DEF vars, database, FilesInv, TxInv, NextID, HasFile, ReadableUnlessMoved, Live, EraseExpunged
<1> QED
  BY Zenon, <1>1, <1>2, <1>3, <1>4, <1>5, <1>6, <1>7, <1>8, <1>9, <1>10, <1>11, <1>12, <1>13, <1>14, <1>15 DEF Next

LEMMA FilesInvariance == Spec => []FilesInv
<1>1. Init => FilesInv
  <2> SUFFICES ASSUME Init PROVE FilesInv
    OBVIOUS
  <2>1. tx.new = {} /\ seq = 1 /\ NextID = 1
    BY FS_EmptySet DEF Init, NoTx, NextID
  <2> QED BY <2>1 DEF Init, NoTx, FilesInv, TxInv, ReadableUnlessMoved, Live, EraseExpunged
<1> QED BY <1>1, FilesStep, FilesTyping, PTL DEF Spec

\* Over any sequence of deliveries, copies, moves, erases, failed transactions, crashes and
\* openings, a message in a mailbox has a file with its own content, unless it was part of
\* a move that failed: IDs that are given out again do not bring back other files, and the
\* cleanup of DeliverMailbox, APPEND and COPY takes no other files away.
THEOREM MessagesKeepTheirFile == Spec => []ReadableUnlessMoved
BY FilesInvariance, PTL DEF FilesInv

\* MessageErase records are those of the expunged messages: OpenAccountDB never refuses an
\* account because of them, and no expunged message stays without being erased.
THEOREM EraseRecordsExact == Spec => []EraseExpunged
BY FilesInvariance, PTL DEF FilesInv

-----------------------------------------------------------------------------
(* What is left behind. *)

\* What an insert adds to the transaction and to the files.
LEMMA InsertAdds ==
  ASSUME TypeOK, FilesInv, NEW b \in Bodies, NEW after, Insert(b, after), after.new = tx.new \cup {NextID}
  PROVE  /\ NextID \in IDs /\ tx' = after
         /\ UNCHANGED <<state, seq, erase, opened, orphans, crashes>>
         /\ \A id \in IDs : HasFile(id)' => HasFile(id) \/ id \in tx'.new
<1>1. NextID \in IDs
  BY NextIDType, FilesAssumption DEF Insert, IDs
<1>2. tx' = after /\ file' = [file EXCEPT ![NextID] = b]
  BY Zenon DEF Insert, Linked
<1> QED BY Zenon, <1>1, <1>2 DEF Insert, HasFile, TypeOK

\* What a step that inserts leaves to be shown.
LEMMA InsertLeaves ==
  ASSUME TypeOK, FilesInv, CleanupInv, NoGarbage, NEW b \in Bodies, NEW after, Insert(b, after),
         after.new = tx.new \cup {NextID}, after.op = tx.op, tx.op \in {"add", "copy", "move"},
         tx.cleanup \subseteq after.cleanup, after.moved \subseteq Live,
         tx.op \in {"add", "copy"} => after.cleanup = tx.cleanup \cup {NextID}
  PROVE  CleanupInv' /\ NoGarbage'
<1>1. /\ tx' = after /\ UNCHANGED <<state, seq, erase, opened, orphans, crashes>>
      /\ \A id \in IDs : HasFile(id)' => HasFile(id) \/ id \in tx'.new
  BY Zenon, InsertAdds
<1>2. CleanupInv'
  BY Zenon, <1>1 DEF CleanupInv, Live
<1>3. NoGarbage'
  BY Zenon, <1>1 DEF NoGarbage
<1> QED BY Zenon, <1>2, <1>3

\* A failed transaction leaves no file but those of a move, and these are recorded.
LEMMA RollbackLeaves ==
  ASSUME TypeOK, FilesInv, CleanupInv, NoGarbage, NEW ids \in SUBSET IDs, Rollback(ids),
         tx.op \in {"add", "copy", "move"}, tx.cleanup \subseteq ids
  PROVE  CleanupInv' /\ NoGarbage'
<1>1. /\ tx' = NoTx /\ UNCHANGED <<state, seq, erase, opened, crashes>>
      /\ \A id \in IDs : HasFile(id)' => HasFile(id) /\ id \notin ids
      /\ orphans' = (orphans \ ids) \cup {id \in tx.new \ ids : tx.op = "move"}
  BY Zenon DEF Rollback, Removed, HasFile
<1>2. CleanupInv'
  BY Zenon, <1>1 DEF CleanupInv, NoTx, Live
<1>3. NoGarbage'
  BY Zenon, <1>1 DEF NoGarbage, CleanupInv, NoTx
<1> QED BY Zenon, <1>2, <1>3

\* A step that neither makes files nor gives up any.
LEMMA NothingMade ==
  ASSUME NoGarbage, crashes' >= crashes, crashes \in Nat, crashes' \in Nat,
         orphans \subseteq orphans',
         \A id \in IDs : HasFile(id)' => HasFile(id),
         \A id \in IDs : HasFile(id)' /\ (state[id] \in {"live", "expunged"} \/ id \in tx.new \cup tx.cleanup)
           => state'[id] \in {"live", "expunged"} \/ id \in tx'.new \cup tx'.cleanup
  PROVE  NoGarbage'
BY DEF NoGarbage

\* Without crashes no file is left behind.
LEMMA LeftStep ==
  TypeOK /\ FilesInv /\ CleanupInv /\ NoGarbage /\ [Next]_vars => CleanupInv' /\ NoGarbage'
<1> SUFFICES ASSUME TypeOK, FilesInv, CleanupInv, NoGarbage, [Next]_vars PROVE CleanupInv' /\ NoGarbage'
  OBVIOUS
<1>a. /\ tx.new \subseteq IDs /\ tx.moved \subseteq IDs /\ tx.cleanup \subseteq IDs
      /\ crashes \in Nat /\ crashes >= crashes
  BY FilesAssumption DEF TypeOK, Txs
<1>b. NextID <= MaxID => NextID \in IDs
  BY NextIDType, FilesAssumption DEF IDs
<1>1. ASSUME NEW op \in {"add", "copy", "move"}, Begin(op) PROVE CleanupInv' /\ NoGarbage'
  <2>1. /\ tx = NoTx /\ tx'.new = {} /\ tx'.cleanup = {} /\ tx'.moved = {} /\ tx'.op = op
        /\ UNCHANGED <<state, erase, file, orphans, crashes>>
    BY Zenon, <1>1 DEF Begin, NoTx, database
  <2>2. CleanupInv'
    BY Zenon, <2>1 DEF CleanupInv
  <2>3. NoGarbage'
    BY Zenon, <1>a, <2>1, NothingMade DEF NoTx, HasFile
  <2> QED BY Zenon, <2>2, <2>3
<1>2. ASSUME NEW b \in Bodies, MessageAdd(b) PROVE CleanupInv' /\ NoGarbage'
  <2> DEFINE after == [tx EXCEPT !.new = @ \cup {NextID}, !.cleanup = @ \cup {NextID}]
  <2>1. /\ after.op = tx.op /\ after.new = tx.new \cup {NextID} /\ after.moved = tx.moved
        /\ after.cleanup = tx.cleanup \cup {NextID}
    BY Zenon DEF TypeOK, Txs
  <2>2. tx.op = "add" /\ Insert(b, after)
    BY Zenon, <1>2 DEF MessageAdd
  <2> HIDE DEF after
  <2> QED BY Zenon, <2>1, <2>2, InsertLeaves DEF CleanupInv
<1>3. ASSUME NEW id \in IDs, CopyMessage(id) PROVE CleanupInv' /\ NoGarbage'
  <2> DEFINE after == [tx EXCEPT !.new = @ \cup {NextID}, !.cleanup = @ \cup {NextID}]
  <2>1. /\ after.op = tx.op /\ after.new = tx.new \cup {NextID} /\ after.moved = tx.moved
        /\ after.cleanup = tx.cleanup \cup {NextID}
    BY Zenon DEF TypeOK, Txs
  <2>2. tx.op = "copy" /\ Insert(file[id], after) /\ file[id] \in Bodies
    BY Zenon, <1>3 DEF CopyMessage, HasFile, TypeOK
  <2> HIDE DEF after
  <2> QED BY Zenon, <2>1, <2>2, InsertLeaves DEF CleanupInv
<1>4. ASSUME NEW id \in IDs, MoveMessage(id) PROVE CleanupInv' /\ NoGarbage'
  <2> DEFINE after == [tx EXCEPT !.new = @ \cup {NextID}, !.moved = @ \cup {id}, !.cleanup = @ \cup {id}]
  <2>1. /\ after.op = tx.op /\ after.new = tx.new \cup {NextID} /\ after.moved = tx.moved \cup {id}
        /\ after.cleanup = tx.cleanup \cup {id}
    BY Zenon DEF TypeOK, Txs
  <2>2. tx.op = "move" /\ Insert(file[id], after) /\ file[id] \in Bodies /\ id \in Live
    BY Zenon, <1>4 DEF MoveMessage, HasFile, TypeOK
  <2> HIDE DEF after
  <2> QED BY Zenon, <2>1, <2>2, InsertLeaves DEF CleanupInv
<1>5. ASSUME NEW id \in IDs, MessageRemove(id) PROVE CleanupInv' /\ NoGarbage'
  <2>1. /\ tx = NoTx /\ tx' = tx /\ state' = [state EXCEPT ![id] = "expunged"]
        /\ UNCHANGED <<file, orphans, crashes>>
    BY Zenon, <1>5 DEF MessageRemove
  <2>2. CleanupInv'
    BY Zenon, <2>1 DEF CleanupInv, NoTx
  <2>3. NoGarbage'
    BY Zenon, <1>a, <2>1, NothingMade DEF NoTx, HasFile, TypeOK
  <2> QED BY Zenon, <2>2, <2>3
<1>6. CASE LinkFails
  <2>1. PICK ids \in SUBSET IDs : Rollback(ids) /\ tx.cleanup \subseteq ids
    BY Zenon, <1>6, <1>a, <1>b DEF LinkFails
  <2> QED BY Zenon, <1>6, <2>1, RollbackLeaves DEF LinkFails
<1>7. CASE Fail
  BY Zenon, <1>7, <1>a, RollbackLeaves DEF Fail
<1>8. CASE Commit
  <2>1. /\ tx.op \in {"add", "copy", "move"} /\ tx' = NoTx /\ UNCHANGED <<file, orphans, crashes>>
        /\ state' = [id \in IDs |-> IF id \notin tx.new THEN state[id]
                                   ELSE IF tx.op = "move" THEN "expunged" ELSE "live"]
    BY Zenon, <1>8 DEF Commit
  <2>2. CleanupInv'
    BY Zenon, <2>1 DEF CleanupInv, NoTx
  <2>3. tx.cleanup \subseteq tx.new \cup Live
    BY Zenon, <2>1 DEF CleanupInv, FilesInv, TxInv
  <2>4. NoGarbage'
    BY Zenon, <1>a, <2>1, <2>3, NothingMade DEF Live, HasFile
  <2> QED BY Zenon, <2>2, <2>4
<1>9. ASSUME NEW ids \in SUBSET IDs, EraseCommit(ids) PROVE CleanupInv' /\ NoGarbage'
  <2>1. /\ tx = NoTx /\ UNCHANGED <<file, orphans, crashes>> /\ Erased(ids)
        /\ tx'.new = {} /\ tx'.op = "erase" /\ tx'.cleanup = ids /\ tx'.moved = {}
    BY Zenon, <1>9 DEF EraseCommit, NoTx
  <2>2. CleanupInv'
    BY Zenon, <2>1 DEF CleanupInv
  <2>3. NoGarbage'
    BY Zenon, <1>a, <2>1, NothingMade DEF NoTx, HasFile, Erased
  <2> QED BY Zenon, <2>2, <2>3
<1>10. CASE EraseFiles
  <2>1. /\ tx.op = "erase" /\ tx' = NoTx /\ file' = Removed(tx.cleanup)
        /\ UNCHANGED <<state, orphans, crashes>> /\ tx.new = {}
    BY Zenon, <1>10 DEF EraseFiles, database, FilesInv, TxInv
  <2>2. CleanupInv'
    BY Zenon, <2>1 DEF CleanupInv, NoTx
  <2>3. NoGarbage'
    BY Zenon, <1>a, <2>1, NothingMade DEF HasFile, Removed
  <2> QED BY Zenon, <2>2, <2>3
<1>11. CASE Close
  <2>1. tx = NoTx /\ UNCHANGED <<state, file, tx, orphans, crashes>>
    BY Zenon, <1>11 DEF Close, database
  <2> QED BY Zenon, <2>1 DEF CleanupInv, NoGarbage, NoTx, HasFile
<1>12. CASE Crash
  <2>1. crashes' = crashes + 1 /\ tx' = NoTx
    BY Zenon, <1>12 DEF Crash
  <2> QED BY <1>a, <2>1 DEF CleanupInv, NoGarbage, NoTx
<1>13. CASE Open
  <2>1. /\ tx = NoTx /\ ~opened /\ file' = Removed(erase) /\ UNCHANGED <<state, erase, opened, orphans, crashes>>
        /\ tx'.new = {} /\ tx'.cleanup = {} /\ tx'.moved = {} /\ tx'.op = "open"
    BY Zenon, <1>13 DEF Open, NoTx, database
  <2>2. CleanupInv'
    BY Zenon, <2>1 DEF CleanupInv, HasFile, Removed, TypeOK
  <2>3. NoGarbage'
    BY Zenon, <1>a, <2>1, NothingMade DEF NoTx, HasFile, Removed
  <2> QED BY Zenon, <2>2, <2>3
<1>14. CASE OpenCommit
  <2>1. /\ tx.op = "open" /\ tx' = NoTx /\ Erased(erase) /\ UNCHANGED <<file, crashes>>
        /\ orphans \subseteq orphans'
    BY Zenon, <1>14 DEF OpenCommit
  <2>2. tx.new = {} /\ tx.cleanup \subseteq Live /\ \A id \in erase : ~HasFile(id)
    BY Zenon, <2>1 DEF CleanupInv, FilesInv, TxInv
  <2>3. CleanupInv'
    BY Zenon, <2>1 DEF CleanupInv, NoTx
  <2>4. NoGarbage'
    BY Zenon, <1>a, <2>1, <2>2, NothingMade DEF HasFile, Erased, Live
  <2> QED BY Zenon, <2>3, <2>4
<1>15. CASE UNCHANGED vars
  BY Zenon, <1>15 DEF vars, database, CleanupInv, NoGarbage, Live, HasFile
<1> QED
  BY Zenon, <1>1, <1>2, <1>3, <1>4, <1>5, <1>6, <1>7, <1>8, <1>9, <1>10, <1>11, <1>12, <1>13, <1>14, <1>15 DEF Next

LEMMA LeftInvariance == Spec => [](CleanupInv /\ NoGarbage)
<1>1. Init => CleanupInv /\ NoGarbage
  BY DEF Init, NoTx, CleanupInv, NoGarbage, HasFile, Live
<1> QED BY <1>1, LeftStep, FilesInvariance, FilesTyping, PTL DEF Spec

\* As long as the process does not crash, every file belongs to a message that is not erased or
\* to the transaction in progress, whatever transactions fail: the callers of MessageAdd and
\* COPY, the eraser and OpenAccountDB remove what they have to. Only a failed move leaves files.
THEOREM NothingLeftBehind == Spec => []NoGarbage
BY LeftInvariance, PTL

-----------------------------------------------------------------------------
(* The sequence of IDs.  *)

\* OpenAccountDB finds an ID that is not below that of any file, but for those it does not see.
LEMMA FilesFound ==
  ASSUME TypeOK, NEW id \in IDs, HasFile(id), id \notin Unseen
  PROVE  MaxFSID >= id
<1> USE FilesAssumption
<1>1. /\ id \in Nat /\ Dir(id) \in Nat /\ FilesPerDir \in Nat \ {0}
      /\ MaxDBID \in Nat /\ Dir(MaxDBID) \in Nat
      /\ LastDir \in Nat /\ LastDir >= Dir(MaxDBID)
      /\ MaxFSID \in Nat /\ MaxFSID >= MaxDBID
  <2>1. id \in Nat /\ MaxDBID \in Nat /\ Dir(MaxDBID) \in Nat
    BY MaxDBIDType DEF IDs
  <2> QED BY Zenon, <2>1, DirNat, LastDirFound, MaxFSIDFound
<1>2. \A d \in (Dir(MaxDBID) + 1)..Dir(id) : d \in dirs
  BY Zenon DEF Unseen
<1>3. LastDir >= Dir(id)
  <2>1. CASE Dir(id) > Dir(MaxDBID)
    <3>1. Dir(id) \in (Dir(MaxDBID) + 1)..Dir(id)
      BY <1>1, <2>1
    <3> QED BY Zenon, <1>2, <3>1, LastDirFound
  <2>2. CASE ~(Dir(id) > Dir(MaxDBID))
    BY <1>1, <2>2
  <2> QED BY Zenon, <2>1, <2>2
<1>4. id < (Dir(id) + 1) * FilesPerDir
  BY Zenon, <1>1, DivBounds DEF Dir
<1>5. CASE Dir(id) = LastDir
  BY Zenon, <1>5, MaxFSIDFound
<1>6. CASE Dir(id) < LastDir
  <2> DEFINE m == (Dir(id) + 1) * FilesPerDir
             n == LastDir * FilesPerDir
  <2>1. m <= n /\ m \in Nat /\ n \in Nat
    <3>1. Dir(id) + 1 \in Nat /\ Dir(id) + 1 <= LastDir
      BY <1>1, <1>6
    <3> QED BY Zenon, <1>1, <3>1, TimesMonotonic, TimesNat
  <2>2. MaxFSID >= n
    <3>1. CASE LastDir > Dir(MaxDBID)
      BY Zenon, <3>1, MaxFSIDFound
    <3>2. CASE LastDir = Dir(MaxDBID)
      <4>1. n <= MaxDBID
        BY Zenon, <1>1, <3>2, DivBounds DEF Dir
      <4> HIDE DEF n
      <4> QED BY <1>1, <2>1, <4>1
    <3>3. LastDir > Dir(MaxDBID) \/ LastDir = Dir(MaxDBID)
      BY <1>1
    <3> QED BY Zenon, <3>1, <3>2, <3>3
  <2>3. id < m
    BY Zenon, <1>4
  <2> HIDE DEF m, n
  <2> QED BY <1>1, <2>1, <2>2, <2>3
<1>7. Dir(id) = LastDir \/ Dir(id) < LastDir
  BY <1>1, <1>3
<1> QED BY Zenon, <1>5, <1>6, <1>7

\* The sequence is past what was found, and past the records.
LEMMA OpenedAhead ==
  ASSUME TypeOK, FilesInv, OpenCommit, NEW id \in IDs, HasFile(id), id \notin Unseen
  PROVE  id < seq'
<1> USE FilesAssumption
<1>1. MaxFSID \in Nat /\ MaxDBID \in Nat /\ seq \in Nat \ {0} /\ id \in Nat /\ MaxFSID >= id
  <2>1. MaxDBID \in Nat /\ id \in Nat
    BY MaxDBIDType DEF IDs
  <2> QED BY Zenon, <2>1, MaxFSIDFound, FilesFound DEF TypeOK
<1>2. seq' = IF MaxFSID > MaxDBID THEN Max({seq, MaxFSID}) + 1 ELSE seq
  BY Zenon DEF OpenCommit
<1>3. MaxDBID < seq
  <2> DEFINE S == {0} \cup {x \in IDs : state[x] # "none"}
  <2>1. S \subseteq Nat /\ S # {} /\ \A x \in S : x <= MaxID /\ x < seq
    BY <1>1 DEF IDs, FilesInv, TxInv
  <2>2. Max(S) \in S
    <3> HIDE DEF S
    <3> QED BY Zenon, <2>1, MaxNat
  <2>3. MaxDBID = Max(S)
    BY Zenon DEF MaxDBID
  <2> HIDE DEF S
  <2> QED BY Zenon, <2>1, <2>2, <2>3
<1>4. Max({seq, MaxFSID}) \in Nat /\ Max({seq, MaxFSID}) >= MaxFSID
  <2> HIDE DEF MaxFSID
  <2>1. \E x \in {seq, MaxFSID} : \A y \in {seq, MaxFSID} : x >= y
    BY <1>1
  <2>2. Max({seq, MaxFSID}) \in {seq, MaxFSID} /\ Max({seq, MaxFSID}) >= MaxFSID
    BY Zenon, <2>1 DEF Max
  <2> QED BY Zenon, <1>1, <2>2
<1> QED BY SMTT(60), <1>1, <1>2, <1>3, <1>4

\* A step that gives out no IDs and makes no files.
LEMMA StillAhead ==
  ASSUME TypeOK, FilesInv, SequenceAhead, opened' => opened, seq' = seq,
         \A id \in IDs : HasFile(id)' => HasFile(id) /\ (id \in tx.new \cup orphans => id \in tx'.new \cup orphans')
  PROVE  SequenceAhead'
BY Zenon DEF SequenceAhead

\* The files of the next IDs do not exist, but for those of failed moves and those not seen.
LEMMA AheadStep == TypeOK /\ FilesInv /\ CleanupInv /\ SequenceAhead /\ [Next]_vars => SequenceAhead'
<1> SUFFICES ASSUME TypeOK, FilesInv, CleanupInv, SequenceAhead, [Next]_vars PROVE SequenceAhead'
  OBVIOUS
<1>a. /\ tx.new \subseteq IDs /\ tx.cleanup \subseteq IDs /\ tx.new = seq..(NextID - 1)
      /\ seq \in Nat /\ NextID \in Nat /\ NextID >= seq
  BY Zenon, NextIDType DEF TypeOK, Txs, FilesInv, TxInv
<1>1. ASSUME NEW op \in {"add", "copy", "move"}, Begin(op) PROVE SequenceAhead'
  <2>1. tx = NoTx /\ UNCHANGED <<seq, opened, file, orphans>>
    BY Zenon, <1>1 DEF Begin, database
  <2> QED BY Zenon, <2>1, StillAhead DEF NoTx, HasFile
<1>2. ASSUME NEW b \in Bodies, NEW after, Insert(b, after), after.new = tx.new \cup {NextID} PROVE SequenceAhead'
  <2>1. /\ tx' = after /\ UNCHANGED <<seq, opened, orphans>>
        /\ \A id \in IDs : HasFile(id)' => HasFile(id) \/ id \in tx'.new
    BY Zenon, <1>2, InsertAdds
  <2> QED BY Zenon, <1>2, <2>1 DEF SequenceAhead
<1>3. ASSUME NEW b \in Bodies, MessageAdd(b) PROVE SequenceAhead'
  <2>1. [tx EXCEPT !.new = @ \cup {NextID}, !.cleanup = @ \cup {NextID}].new = tx.new \cup {NextID}
    BY Zenon DEF TypeOK, Txs
  <2> QED BY Zenon, <1>2, <1>3, <2>1 DEF MessageAdd
<1>4. ASSUME NEW id \in IDs, CopyMessage(id) PROVE SequenceAhead'
  <2>1. [tx EXCEPT !.new = @ \cup {NextID}, !.cleanup = @ \cup {NextID}].new = tx.new \cup {NextID}
    BY Zenon DEF TypeOK, Txs
  <2>2. file[id] \in Bodies
    BY Zenon, <1>4 DEF CopyMessage, HasFile, TypeOK
  <2> QED BY Zenon, <1>2, <1>4, <2>1, <2>2 DEF CopyMessage
<1>5. ASSUME NEW id \in IDs, MoveMessage(id) PROVE SequenceAhead'
  <2>1. [tx EXCEPT !.new = @ \cup {NextID}, !.moved = @ \cup {id}, !.cleanup = @ \cup {id}].new
          = tx.new \cup {NextID}
    BY Zenon DEF TypeOK, Txs
  <2>2. file[id] \in Bodies
    BY Zenon, <1>5 DEF MoveMessage, HasFile, TypeOK
  <2> QED BY Zenon, <1>2, <1>5, <2>1, <2>2 DEF MoveMessage
<1>6. ASSUME NEW ids, Rollback(ids), tx.op \in {"add", "copy", "move"}, tx.cleanup \subseteq ids PROVE SequenceAhead'
  <2>1. /\ UNCHANGED <<seq, opened>>
        /\ \A id \in IDs : HasFile(id)' => HasFile(id) /\ id \notin ids
        /\ orphans' = (orphans \ ids) \cup {id \in tx.new \ ids : tx.op = "move"}
    BY Zenon, <1>6 DEF Rollback, Removed, HasFile
  <2>2. \A id \in tx.new \ ids : tx.op = "move"
    BY Zenon, <1>6 DEF CleanupInv
  <2> QED BY Zenon, <2>1, <2>2, StillAhead
<1>7. CASE LinkFails
  BY Zenon, <1>6, <1>7 DEF LinkFails
<1>8. CASE Fail
  BY Zenon, <1>6, <1>8 DEF Fail
<1>9. CASE Commit
  <2>1. seq' = NextID /\ UNCHANGED <<file, opened, orphans>>
    BY Zenon, <1>9 DEF Commit
  <2>2. \A id \in IDs : id >= NextID => id >= seq /\ id \notin tx.new
    BY <1>a DEF IDs
  <2> QED BY Zenon, <2>1, <2>2 DEF SequenceAhead, HasFile
<1>10. ASSUME NEW id \in IDs, MessageRemove(id) PROVE SequenceAhead'
  BY Zenon, <1>10 DEF MessageRemove, SequenceAhead, HasFile
<1>11. ASSUME NEW ids \in SUBSET IDs, EraseCommit(ids) PROVE SequenceAhead'
  <2>1. tx = NoTx /\ UNCHANGED <<seq, opened, file, orphans>>
    BY Zenon, <1>11 DEF EraseCommit
  <2> QED BY Zenon, <2>1, StillAhead DEF NoTx, HasFile
<1>12. CASE EraseFiles
  <2>1. tx.new = {} /\ UNCHANGED <<seq, opened, orphans>> /\ file' = Removed(tx.cleanup)
    BY Zenon, <1>12 DEF EraseFiles, database, FilesInv, TxInv
  <2> QED BY Zenon, <2>1, StillAhead DEF HasFile, Removed
<1>13. CASE Close \/ Crash
  BY Zenon, <1>13 DEF Close, Crash, SequenceAhead
<1>14. CASE Open
  BY Zenon, <1>14 DEF Open, SequenceAhead
<1>15. CASE OpenCommit
  <2>1. \A id \in IDs : HasFile(id) => id < seq' \/ id \in Unseen
    BY Zenon, <1>15, OpenedAhead
  <2>2. file' = file /\ seq' \in Nat /\ Unseen \subseteq orphans'
    BY Zenon, <1>15, TypeStep DEF OpenCommit, TypeOK
  <2> QED BY <2>1, <2>2 DEF SequenceAhead, HasFile, IDs
<1>16. CASE UNCHANGED vars
  BY Zenon, <1>16 DEF vars, database, SequenceAhead, HasFile
<1> QED
  BY ZenonT(60), <1>1, <1>3, <1>4, <1>5, <1>7, <1>8, <1>9, <1>10, <1>11, <1>12, <1>13, <1>14, <1>15, <1>16 DEF Next

\* Over any sequence of failed transactions, crashes and openings, for any number of messages and
\* of directories: files, records and the sequence of IDs agree.  OpenAccountDB moves the sequence
\* past every file that a crash left behind in the directory of the last message or in those that
\* follow it without a gap, so that no delivery fails on one: what it may leave in the way are
\* only the files of failed moves, and files past a directory that does not exist.
THEOREM FilesAccountedFor == Spec => []FilesAccounted
<1>1. Init => SequenceAhead
  BY Zenon DEF Init, SequenceAhead, HasFile
<1>2. Spec => []SequenceAhead
  BY <1>1, AheadStep, LeftInvariance, FilesInvariance, FilesTyping, PTL DEF Spec
<1>3. FilesInv /\ NoGarbage /\ SequenceAhead => FilesAccounted
  BY Zenon DEF FilesInv, FilesAccounted
<1> QED BY <1>2, <1>3, LeftInvariance, FilesInvariance, PTL

=============================================================================
