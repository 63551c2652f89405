---------------------- MODULE SwitchboardAccountProofs ----------------------
(***************************************************************************)
(* Proofs about the account that the switchboard works for: what is       *)
(* erased and when, who is woken and what its sessions can read.  They     *)
(* rest on the counting of references and of users of the account, and on  *)
(* its files and disk usage, in SwitchboardProofs.                         *)
(***************************************************************************)
EXTENDS SwitchboardProofs

-----------------------------------------------------------------------------
(* The way of an expunged message to the eraser. *)

\* A change is followed by its broadcast.
LEMMA ChangeRequests ==
  ASSUME Change
  PROVE  req' # NoReq
<1>1. \A a \in Broadcasters, ids \in SUBSET Msgs, n \in 1..4 :
         [by |-> a, rem |-> ids, n |-> n] # NoReq
  BY NoReqAssumption DEF Requests, Broadcasters, Actors
<1>2. ASSUME NEW a \in Broadcasters, NEW m \in Msgs, Deliver(a, m) PROVE req' # NoReq
  BY <1>1, <1>2 DEF Deliver
<1>3. ASSUME NEW a \in Broadcasters, NEW ids \in SUBSET Msgs, MessageRemove(a, ids) PROVE req' # NoReq
  BY <1>1, <1>3 DEF MessageRemove
<1>4. ASSUME NEW a \in Broadcasters, NEW m \in Msgs, NEW old \in Msgs, MoveMessage(a, m, old)
      PROVE req' # NoReq
  BY <1>1, <1>4 DEF MoveMessage
<1>5. ASSUME NEW a \in Broadcasters, NEW n \in OtherSizes, ChangeOther(a, n) PROVE req' # NoReq
  BY Zenon, <1>1, <1>5, ConstantsAssumption DEF ChangeOther
<1> QED BY Zenon, <1>2, <1>3, <1>4, <1>5 DEF Change

\* Steps that have nothing to do with it.
Quiet == UNCHANGED <<msg, erec, eraseRefs, eraseIDs, req, eraser, batch, eraseFailed>>

\* The steps that may have to do with it.
LEMMA QuietSteps ==
  ASSUME [Next]_vars
  PROVE  \/ Quiet
         \/ OpenAccountCommit
         \/ Change
         \/ Broadcast
         \/ \E c \in Sessions : Unregister(c)
         \/ \E c \in Sessions : \E ids \in fetched[c] : RemovalSeen(c, ids)
         \/ Eraser
         \/ Crash
<1> USE DEF Quiet, disk, board, erasing
<1>1. ASSUME NEW a \in Actors, OpenAccount(a) \/ OpenAccountDB(a) \/ CloseAccount(a) PROVE Quiet
  BY Zenon, <1>1 DEF OpenAccount, OpenAccountDB, CloseAccount
<1>2. ASSUME NEW c \in Sessions,
             \/ Register(c) \/ Wake(c) \/ Get(c) \/ GetFlush(c) \/ GetWebOverflow(c) \/ WebAbort(c)
             \/ (\E ms \in SUBSET Msgs : Select(c, ms)) \/ NotifyNone(c) \/ NotifySet(c)
      PROVE Quiet
  BY Zenon, <1>2
  DEF Register, Wake, Get, GetFlush, GetWebOverflow, WebAbort, Select, NotifyNone, NotifySet
<1>3. CASE UNCHANGED vars
  BY Zenon, <1>3 DEF vars
<1> HIDE DEF Quiet
<1> QED BY Zenon, <1>1, <1>2, <1>3 DEF Next, Session

\* What a broadcast does to the counts: left is the number of sessions that get the
\* removal.
LEMMA BroadcastRefs ==
  ASSUME TypeOK, Broadcast
  PROVE  \E left \in Int :
            /\ eraseRefs' = [m \in Msgs |-> IF m \in req.rem /\ left > 0 THEN left ELSE eraseRefs[m]]
            /\ eraseIDs' = IF left <= 0 THEN eraseIDs \cup req.rem ELSE eraseIDs
<1> DEFINE full == {c \in regs \ {req.by} : ~HasRoom(c)}
           left == RefsFor(req.by) - Cardinality(full)
<1>1. regs \in SUBSET Sessions /\ full \in SUBSET regs
  BY Zenon DEF TypeOK
<1>2. Cardinality(regs) \in Nat /\ Cardinality(full) \in Nat
  BY Zenon, <1>1, SessionSets
<1>3. left \in Int
  BY <1>2 DEF RefsFor, One
<1>4. /\ eraseRefs' = [m \in Msgs |-> IF m \in req.rem /\ left > 0 THEN left ELSE eraseRefs[m]]
      /\ eraseIDs' = IF left <= 0 THEN eraseIDs \cup req.rem ELSE eraseIDs
  BY Zenon DEF Broadcast
<1> HIDE DEF left
<1> QED BY Zenon, <1>3, <1>4

\* What is handed to the eraser has no references, and its removal was broadcast.
LEMMA ErasableStep ==
  ASSUME TypeOK, RefInv, ErasableInv, [Next]_vars
  PROVE  ErasableInv'
<1> USE DEF disk, account, board, erasing
<1>1. CASE Quiet
  BY Zenon, <1>1 DEF Quiet, ErasableInv, Erasable
<1>2. ASSUME UNCHANGED <<eraseRefs, req>>, Erasable' \subseteq Erasable,
             \A m \in Msgs : msg[m] \notin Unexpunged => msg'[m] \notin Unexpunged
      PROVE ErasableInv'
  <2>1. Erasable \subseteq Msgs
    BY Zenon DEF Erasable, TypeOK
  <2> QED BY Zenon, <1>2, <2>1 DEF ErasableInv, Unexpunged
<1>3. CASE OpenAccountCommit
  BY Zenon, <1>2, <1>3 DEF OpenAccountCommit, EraseRecords, Erasable, TypeOK, Unexpunged
<1>4. ASSUME NEW ids \in SUBSET Msgs, UNCHANGED <<eraseRefs, eraseIDs, eraser, batch>>,
             req'.rem = ids, \A m \in ids : msg[m] \in Unexpunged,
             \A m \in Msgs : msg[m] \notin Unexpunged => msg'[m] \notin Unexpunged
      PROVE ErasableInv'
  <2>1. Erasable' = Erasable /\ Erasable \subseteq Msgs
    BY Zenon, <1>4 DEF Erasable, TypeOK
  <2> QED BY Zenon, <1>4, <2>1 DEF ErasableInv, Unexpunged
<1>5. CASE Change
  <2>1. ASSUME NEW a \in Broadcasters, NEW m \in Msgs, Deliver(a, m) PROVE ErasableInv'
    <3>1. req'.rem = {} /\ UNCHANGED <<eraseRefs, eraseIDs, eraser, batch>>
      BY Zenon, <2>1 DEF Deliver
    <3>2. \A k \in Msgs : msg[k] \notin Unexpunged => msg'[k] \notin Unexpunged
      BY Zenon, <2>1 DEF Deliver, TypeOK, Unexpunged
    <3> QED BY Zenon, <1>4, <3>1, <3>2
  <2>2. ASSUME NEW a \in Broadcasters, NEW ids \in SUBSET Msgs, MessageRemove(a, ids) PROVE ErasableInv'
    <3>1. req'.rem = ids /\ UNCHANGED <<eraseRefs, eraseIDs, eraser, batch>>
      BY Zenon, <2>2 DEF MessageRemove
    <3>2. /\ \A m \in ids : msg[m] \in Unexpunged
          /\ \A k \in Msgs : msg[k] \notin Unexpunged => msg'[k] \notin Unexpunged
      BY Zenon, <2>2 DEF MessageRemove, Live, TypeOK, Unexpunged
    <3> QED BY Zenon, <1>4, <3>1, <3>2
  <2>3. ASSUME NEW a \in Broadcasters, NEW m \in Msgs, NEW old \in Msgs, MoveMessage(a, m, old)
        PROVE ErasableInv'
    <3>1. req'.rem = {old} /\ UNCHANGED <<eraseRefs, eraseIDs, eraser, batch>>
      BY Zenon, <2>3 DEF MoveMessage
    <3>2. /\ msg[old] \in Unexpunged
          /\ \A k \in Msgs : msg[k] \notin Unexpunged => msg'[k] \notin Unexpunged
      BY Zenon, <2>3 DEF MoveMessage, TypeOK, Unexpunged
    <3> QED BY Zenon, <1>4, <3>1, <3>2
  <2>4. ASSUME NEW a \in Broadcasters, NEW n \in OtherSizes, ChangeOther(a, n) PROVE ErasableInv'
    <3>1. req'.rem = {} /\ UNCHANGED <<msg, eraseRefs, eraseIDs, eraser, batch>>
      BY Zenon, <2>4 DEF ChangeOther
    <3> QED BY Zenon, <1>4, <3>1
  <2> QED BY Zenon, <1>5, <2>1, <2>2, <2>3, <2>4 DEF Change
<1>6. CASE Broadcast
  <2>1. /\ req \in Requests /\ req # NoReq /\ req' = NoReq
        /\ UNCHANGED <<msg, eraser, batch>>
    BY Zenon, <1>6 DEF Broadcast, TypeOK
  <2>2. PICK left \in Int :
            /\ eraseRefs' = [m \in Msgs |-> IF m \in req.rem /\ left > 0 THEN left ELSE eraseRefs[m]]
            /\ eraseIDs' = IF left <= 0 THEN eraseIDs \cup req.rem ELSE eraseIDs
    BY Zenon, <1>6, BroadcastRefs
  <2>3. \A m \in req.rem : m \in Msgs /\ eraseRefs[m] = 0 /\ msg[m] \notin {"absent", "live"}
    BY Zenon, <2>1 DEF RefInv, ReqInv, Untracked, Requests
  <2>4. ASSUME NEW m \in Erasable' PROVE eraseRefs'[m] = 0 /\ msg'[m] \notin {"absent", "live"}
    <3>1. CASE m \in Erasable
      <4>1. m \in Msgs /\ m \notin req.rem /\ eraseRefs[m] = 0 /\ msg[m] \notin {"absent", "live"}
        BY Zenon, <2>1, <3>1 DEF ErasableInv, Erasable, TypeOK
      <4> QED BY Zenon, <2>1, <2>2, <4>1
    <3>2. CASE m \notin Erasable
      <4>1. left <= 0 /\ m \in req.rem
        BY Zenon, <2>1, <2>2, <3>2 DEF Erasable
      <4> QED BY <2>1, <2>2, <2>3, <4>1
    <3> QED BY Zenon, <3>1, <3>2
  <2> QED BY Zenon, <2>1, <2>4 DEF ErasableInv
<1>7. ASSUME NEW ids \in SUBSET Msgs, DecreaseEraseRefs(ids), UNCHANGED <<msg, req, eraser, batch>>
      PROVE ErasableInv'
  <2> SUFFICES ASSUME NEW m \in Erasable'
               PROVE  /\ eraseRefs'[m] = 0 /\ msg[m] \notin {"absent", "live"}
                      /\ req # NoReq => m \notin req.rem
    BY Zenon, <1>7 DEF ErasableInv
  <2>1. m \in Msgs /\ eraseRefs[m] \in Nat
    BY Zenon, <1>7 DEF Erasable, DecreaseEraseRefs, TypeOK
  <2>2. eraseRefs'[m] = IF m \in ids /\ eraseRefs[m] > 0 THEN eraseRefs[m] - 1 ELSE eraseRefs[m]
    BY Zenon, <1>7, <2>1 DEF DecreaseEraseRefs
  <2>3. CASE m \in Erasable
    BY <2>1, <2>2, <2>3 DEF ErasableInv
  <2>4. CASE m \notin Erasable
    <3>1. m \in ids /\ eraseRefs[m] = 1
      BY Zenon, <1>7, <2>4 DEF Erasable, DecreaseEraseRefs
    <3>2. ~Untracked(m)
      BY <3>1 DEF Untracked
    <3> QED BY <2>1, <2>2, <3>1, <3>2 DEF RefInv, FreshUntracked, ReqInv
  <2> QED BY Zenon, <2>3, <2>4
<1>8. ASSUME NEW c \in Sessions, Unregister(c) PROVE ErasableInv'
  <2>1. Drained(c) \in SUBSET Msgs
    BY Zenon DEF Drained, TypeOK
  <2>2. DecreaseEraseRefs(Drained(c)) /\ UNCHANGED <<msg, req, eraser, batch>>
    BY Zenon, <1>8 DEF Unregister
  <2> QED BY Zenon, <1>7, <2>1, <2>2
<1>9. ASSUME NEW c \in Sessions, NEW ids \in fetched[c], RemovalSeen(c, ids) PROVE ErasableInv'
  <2>1. ids \in SUBSET Msgs
    BY Zenon DEF TypeOK
  <2>2. DecreaseEraseRefs(ids) /\ UNCHANGED <<msg, req, eraser, batch>>
    BY Zenon, <1>9 DEF RemovalSeen
  <2> QED BY Zenon, <1>7, <2>1, <2>2
<1>10. CASE Eraser
  <2>1. CASE SendErase
    BY Zenon, <1>2, <2>1 DEF SendErase, Erasable
  <2>2. CASE EraseCommit
    BY Zenon, <1>2, <2>2 DEF EraseCommit, EraseRecords, Erasable, TypeOK, Unexpunged
  <2>3. CASE EraseFail \/ EraseFiles \/ EraserClose
    BY Zenon, <1>2, <2>3 DEF EraseFail, EraseFiles, EraserClose, Erasable
  <2> QED BY Zenon, <1>10, <2>1, <2>2, <2>3 DEF Eraser
<1>11. CASE Crash
  BY Zenon, <1>11 DEF Crash, ErasableInv, Erasable
<1> QED BY Zenon, <1>1, <1>3, <1>5, <1>6, <1>8, <1>9, <1>10, <1>11, QuietSteps
\* The message is in a broadcast, referred to, or on its way to the eraser.
Pending(m) == (req # NoReq /\ m \in req.rem) \/ eraseRefs[m] > 0 \/ m \in Erasable

\* A MessageErase record has references, or is on its way to the eraser, or its removal
\* is still to be broadcast.
LEMMA PendingStep ==
  ASSUME TypeOK, TypeOK', AccountInv, RefInv, ErasePending, [Next]_vars
  PROVE  ErasePending'
<1> USE DEF disk, account, board, erasing
<1>1. CASE nused = 0
  <2>1. CASE nused' = 0
    BY <2>1 DEF ErasePending
  <2>2. CASE OpenAccountCommit
    BY Zenon, <2>2 DEF OpenAccountCommit, EraseRecords, ErasePending
  <2> QED BY Zenon, <1>1, <2>1, <2>2, OpenedByCommit
<1>2. CASE nused # 0
  <2>1. nused > 0
    BY <1>2, UsedNat
  <2>2. ASSUME eraseFailed => eraseFailed', \A m \in erec' : (m \in erec => Pending(m)) => Pending(m)'
        PROVE ErasePending'
    BY Zenon, <2>1, <2>2 DEF ErasePending, Pending
  <2>3. CASE Quiet
    BY Zenon, <2>2, <2>3 DEF Quiet, Pending, Erasable
  <2>4. ~OpenAccountCommit
    BY Zenon, <1>2 DEF OpenAccountCommit, AccountInv, OpenInv
  <2>5. CASE Change
    <3>1. req = NoReq /\ UNCHANGED <<eraseRefs, eraseIDs, eraser, batch, eraseFailed>>
      BY Zenon, <2>5 DEF Change, Deliver, MessageRemove, MoveMessage, ChangeOther, WLocked
    <3>2. \A m \in Msgs : Pending(m) => Pending(m)'
      BY Zenon, <3>1 DEF Pending, Erasable
    <3>3. req' # NoReq /\ \A m \in erec' : m \in erec \/ m \in req'.rem
      <4>1. ASSUME NEW a \in Broadcasters, NEW m \in Msgs, Deliver(a, m)
            PROVE req'.by = a /\ erec' = erec
        BY Zenon, <4>1 DEF Deliver
      <4>2. ASSUME NEW a \in Broadcasters, NEW ids \in SUBSET Msgs, MessageRemove(a, ids)
            PROVE req'.by = a /\ erec' = erec \cup ids /\ req'.rem = ids
        BY Zenon, <4>2 DEF MessageRemove
      <4>3. ASSUME NEW a \in Broadcasters, NEW m \in Msgs, NEW old \in Msgs, MoveMessage(a, m, old)
            PROVE req'.by = a /\ erec' = erec \cup {old} /\ req'.rem = {old}
        BY Zenon, <4>3 DEF MoveMessage
      <4>4. ASSUME NEW a \in Broadcasters, NEW n \in OtherSizes, ChangeOther(a, n)
            PROVE req'.by = a /\ erec' = erec
        BY Zenon, <4>4 DEF ChangeOther
      <4>5. \A m \in erec' : m \in erec \/ m \in req'.rem
        BY Zenon, <2>5, <4>1, <4>2, <4>3, <4>4 DEF Change
      <4> QED BY Zenon, <2>5, <4>5, ChangeRequests
    <3> QED BY Zenon, <2>2, <3>1, <3>2, <3>3 DEF Pending, TypeOK
  <2>6. CASE Broadcast
    <3>1. req \in Requests /\ req # NoReq /\ UNCHANGED <<erec, eraser, batch, eraseFailed>>
      BY Zenon, <2>6 DEF Broadcast, TypeOK
    <3>2. PICK left \in Int :
              /\ eraseRefs' = [m \in Msgs |-> IF m \in req.rem /\ left > 0 THEN left ELSE eraseRefs[m]]
              /\ eraseIDs' = IF left <= 0 THEN eraseIDs \cup req.rem ELSE eraseIDs
      BY Zenon, <2>6, BroadcastRefs
    <3>3. ASSUME NEW m \in Msgs, Pending(m) PROVE Pending(m)'
      <4>1. eraseRefs'[m] = IF m \in req.rem /\ left > 0 THEN left ELSE eraseRefs[m]
        BY Zenon, <3>2
      <4>2. CASE m \in Erasable
        BY Zenon, <3>1, <3>2, <4>2 DEF Pending, Erasable
      <4>3. CASE m \in req.rem /\ left <= 0
        BY Zenon, <3>2, <4>3 DEF Pending, Erasable
      <4>4. CASE (m \in req.rem /\ left > 0) \/ (m \notin req.rem /\ eraseRefs[m] > 0)
        BY Zenon, <4>1, <4>4 DEF Pending
      <4> QED BY <3>2, <3>3, <4>2, <4>3, <4>4 DEF Pending
    <3> QED BY Zenon, <2>2, <3>1, <3>3 DEF TypeOK
  <2>7. ASSUME NEW ids \in SUBSET Msgs, DecreaseEraseRefs(ids),
               UNCHANGED <<erec, req, eraser, batch, eraseFailed>>
        PROVE ErasePending'
    <3>1. ASSUME NEW m \in Msgs, Pending(m) PROVE Pending(m)'
      <4>1. eraseRefs[m] \in Nat
        BY Zenon DEF TypeOK
      <4>2. eraseRefs'[m] = IF m \in ids /\ eraseRefs[m] > 0 THEN eraseRefs[m] - 1 ELSE eraseRefs[m]
        BY Zenon, <2>7 DEF DecreaseEraseRefs
      <4>3. eraseIDs' = eraseIDs \cup {k \in ids : eraseRefs[k] = 1}
        BY Zenon, <2>7 DEF DecreaseEraseRefs
      <4> QED BY SMTT(60), <2>7, <3>1, <4>1, <4>2, <4>3 DEF Pending, Erasable
    <3> QED BY Zenon, <2>2, <2>7, <3>1 DEF TypeOK
  <2>8. ASSUME NEW c \in Sessions, Unregister(c) PROVE ErasePending'
    <3>1. Drained(c) \in SUBSET Msgs
      BY Zenon DEF Drained, TypeOK
    <3>2. DecreaseEraseRefs(Drained(c)) /\ UNCHANGED <<erec, req, eraser, batch, eraseFailed>>
      BY Zenon, <2>8 DEF Unregister
    <3> QED BY Zenon, <2>7, <3>1, <3>2
  <2>9. ASSUME NEW c \in Sessions, NEW ids \in fetched[c], RemovalSeen(c, ids) PROVE ErasePending'
    <3>1. ids \in SUBSET Msgs
      BY Zenon DEF TypeOK
    <3>2. DecreaseEraseRefs(ids) /\ UNCHANGED <<erec, req, eraser, batch, eraseFailed>>
      BY Zenon, <2>9 DEF RemovalSeen
    <3> QED BY Zenon, <2>7, <3>1, <3>2
  <2>10. CASE Eraser
    <3>1. CASE SendErase
      BY Zenon, <2>2, <3>1 DEF SendErase, Pending, Erasable
    <3>2. CASE EraseCommit
      BY Zenon, <2>2, <3>2 DEF EraseCommit, EraseRecords, Pending, Erasable
    <3>3. CASE EraseFail
      BY Zenon, <3>3 DEF EraseFail, ErasePending
    <3>4. CASE EraseFiles \/ EraserClose
      BY Zenon, <2>2, <3>4 DEF EraseFiles, EraserClose, Pending, Erasable
    <3> QED BY Zenon, <2>10, <3>1, <3>2, <3>3, <3>4 DEF Eraser
  <2>11. CASE Crash
    BY <2>11 DEF Crash, ErasePending
  <2> QED BY Zenon, <2>3, <2>4, <2>5, <2>6, <2>8, <2>9, <2>10, <2>11, QuietSteps
<1> QED BY Zenon, <1>1, <1>2

\* The last user of the account leaves no message waiting to be erased.
LEMMA CloseStep ==
  ASSUME TypeOK, TypeOK', AccountInv, AccountInv', ErasePending, [Next]_vars,
         nused > 0, nused' = 0, crashes' = crashes, ~eraseFailed
  PROVE  erec = {}
<1> USE DEF account, board, erasing
<1>1. /\ \A a \in Actors : sess'[a] = "closed"
      /\ \A m \in Msgs : eraseRefs'[m] = 0
      /\ eraseIDs' = {} /\ eraser' = "idle" /\ req' = NoReq
  BY Zenon, AsleepNext
<1>2. ASSUME UNCHANGED <<eraseRefs, eraseIDs, req>>, eraser # "erasing"
      PROVE erec = {}
  BY SMTT(60), <1>1, <1>2 DEF ErasePending, Erasable, TypeOK
<1>3. ASSUME NEW a \in Actors, OpenAccount(a) \/ CloseAccount(a) PROVE erec = {}
  <2>1. ~OpenAccount(a)
    BY Zenon, <1>1 DEF OpenAccount, TypeOK
  <2>2. UNCHANGED <<eraseRefs, eraseIDs, req, eraser>>
    BY Zenon, <1>3, <2>1 DEF CloseAccount
  <2> QED BY Zenon, <1>1, <1>2, <2>2
<1>4. CASE OpenAccountCommit \/ Crash \/ \E a \in Actors : OpenAccountDB(a)
  BY <1>4 DEF OpenAccountCommit, Crash, OpenAccountDB, TypeOK
<1>5. CASE Eraser
  <2>1. ~SendErase /\ ~EraseCommit /\ ~EraseFail /\ ~EraseFiles
    BY Zenon, <1>1 DEF SendErase, EraseCommit, EraseFail, EraseFiles
  <2>2. UNCHANGED <<eraseRefs, eraseIDs, req>> /\ eraser = "closing"
    BY Zenon, <1>5, <2>1 DEF Eraser, EraserClose
  <2> QED BY Zenon, <1>2, <2>2
<1>6. CASE Change \/ Broadcast \/ \E c \in Sessions : Session(c)
  <2>1. OpenersKept
    BY Zenon, <1>6, CountedSteps
  <2>2. \A a \in Actors : sess[a] = "closed"
    BY Zenon, <1>1, <2>1 DEF OpenersKept
  <2>3. ~Change
    BY <2>2 DEF Change, Broadcasters, Deliver, MessageRemove, MoveMessage, ChangeOther, Ready
  <2>4. ~Broadcast
    BY Zenon, <2>2 DEF Broadcast, AccountInv, OpenInv, TypeOK, Requests
  <2>5. ASSUME NEW c \in Sessions PROVE ~Session(c)
    <3>1. sess[c] = "closed" /\ ~Ready(c)
      BY Zenon, <2>2 DEF Actors, Ready
    <3> QED BY Zenon, <3>1
            DEF Session, Register, Unregister, Wake, Get, GetFlush, GetWebOverflow, WebAbort,
                RemovalSeen, Select, NotifyNone, NotifySet
  <2> QED BY Zenon, <1>6, <2>3, <2>4, <2>5
<1>7. CASE UNCHANGED vars
  BY <1>7 DEF vars
<1> QED BY Zenon, <1>3, <1>4, <1>5, <1>6, <1>7 DEF Next
-----------------------------------------------------------------------------
(* Wakeups. *)

\* Broadcasts signal, and only the session itself takes the signal.
LEMMA WakeStep ==
  ASSUME TypeOK, OpenerInv, RefInv, WakeInv, [Next]_vars
  PROVE  WakeInv'
<1> USE DEF account, board, comms, sessions
<1>1. ASSUME UNCHANGED <<regs, npending, overflow, wake>>,
             \A c \in regs : sess[c] \in {"woken", "ending"} => sess'[c] \in {"woken", "ending"}
      PROVE WakeInv'
  BY Zenon, <1>1 DEF WakeInv, NoLostWakeup
<1>2. \A c \in regs : c \in Actors /\ sess[c] \in {"registered", "woken", "ending"}
  BY Zenon DEF RefInv, RegsInv, Actors
<1>3. ASSUME NEW a \in Actors, OpenAccount(a) \/ CloseAccount(a) PROVE WakeInv'
  <2>1. UNCHANGED <<regs, npending, overflow, wake>>
    BY Zenon, <1>3 DEF OpenAccount, CloseAccount
  <2>2. a \notin regs /\ \A c \in Actors : c # a => sess'[c] = sess[c]
    BY Zenon, <1>2, <1>3 DEF OpenAccount, CloseAccount, TypeOK
  <2> QED BY Zenon, <1>1, <1>2, <2>1, <2>2
<1>4. ASSUME NEW a \in Actors, OpenAccountDB(a) PROVE WakeInv'
  BY Zenon, <1>1, <1>4 DEF OpenAccountDB
<1>5. CASE OpenAccountCommit
  <2>1. UNCHANGED <<regs, npending, overflow, wake>>
    BY Zenon, <1>5 DEF OpenAccountCommit
  <2>2. \A c \in Actors : c # opener => sess'[c] = sess[c]
    BY Zenon, <1>5 DEF OpenAccountCommit, TypeOK
  <2>3. opener \in regs => sess'[opener] = sess[opener]
    BY Zenon, <1>5, <1>2 DEF OpenAccountCommit, OpenerInv
  <2> QED BY Zenon, <1>1, <1>2, <2>1, <2>2, <2>3
<1>6. CASE Change
  BY ZenonT(60), <1>1, <1>6 DEF Change, Deliver, MessageRemove, MoveMessage, ChangeOther
<1>7. CASE Eraser
  BY Zenon, <1>1, <1>7 DEF Eraser, SendErase, EraseCommit, EraseFail, EraseFiles, EraserClose
<1>8. CASE Broadcast
  <2> DEFINE others == regs \ {req.by}
             full == {c \in others : ~HasRoom(c)}
  <2>1. /\ overflow' = [c \in Sessions |-> overflow[c] \/ c \in full]
        /\ npending' = [c \in Sessions |-> npending[c] + (IF c \in others \ full THEN req.n ELSE 0)]
        /\ wake' = [c \in Sessions |-> wake[c] \/ c \in others]
        /\ UNCHANGED <<regs, sess>>
    BY Zenon, <1>8 DEF Broadcast, Signalled
  <2>2. full \subseteq others /\ others \subseteq regs /\ regs \subseteq Sessions
    BY Zenon DEF TypeOK
  <2> HIDE DEF full, others
  <2>3. ASSUME NEW c \in Sessions, c \notin others
        PROVE overflow'[c] = overflow[c] /\ npending'[c] = npending[c] /\ wake'[c] = wake[c]
    BY SMTT(60), <2>1, <2>2, <2>3 DEF TypeOK
  <2>4. ASSUME NEW c \in Sessions, c \in others PROVE wake'[c]
    BY Zenon, <2>1, <2>4
  <2>5. ASSUME NEW c \in Sessions \ regs PROVE npending'[c] = 0 /\ ~overflow'[c]
    BY Zenon, <2>2, <2>3 DEF WakeInv
  <2>6. NoLostWakeup'
    BY Zenon, <2>1, <2>2, <2>3, <2>4 DEF WakeInv, NoLostWakeup
  <2> QED BY Zenon, <2>1, <2>5, <2>6 DEF WakeInv
<1>9. ASSUME NEW c \in Sessions, Register(c) PROVE WakeInv'
  <2>1. UNCHANGED <<npending, overflow, wake>> /\ regs' = regs \cup {c} /\ sess[c] = "open"
    BY Zenon, <1>9 DEF Register
  <2>2. c \notin regs /\ \A d \in Sessions : d # c => sess'[d] = sess[d]
    BY Zenon, <1>2, <1>9 DEF Register, TypeOK, Actors
  <2>3. npending[c] = 0 /\ ~overflow[c]
    BY Zenon, <2>2 DEF WakeInv
  <2>4. \A d \in regs : d \in Sessions /\ d # c
    BY Zenon, <2>2 DEF TypeOK
  <2>5. ASSUME NEW d \in Sessions, d \notin regs' PROVE npending'[d] = 0 /\ ~overflow'[d]
    BY Zenon, <2>1, <2>5 DEF WakeInv
  <2>z. ~(0 > 0)
    OBVIOUS
  <2>6. NoLostWakeup'
    <3>1. ~(npending'[c] > 0) /\ ~overflow'[c]
      BY Zenon, <2>1, <2>3, <2>z
    <3> QED BY Zenon, <2>1, <2>2, <2>4, <3>1 DEF WakeInv, NoLostWakeup
  <2> QED BY Zenon, <2>1, <2>5, <2>6 DEF WakeInv
<1>10. ASSUME NEW c \in Sessions, UNCHANGED regs \/ regs' = regs \ {c},
              npending' = [npending EXCEPT ![c] = 0], overflow' = [overflow EXCEPT ![c] = FALSE],
              \A d \in Sessions : d # c => sess'[d] = sess[d] /\ wake'[d] = wake[d]
       PROVE WakeInv'
  <2>1. npending'[c] = 0 /\ ~overflow'[c]
    BY Zenon, <1>10 DEF TypeOK
  <2>2. \A d \in Sessions : d # c => npending'[d] = npending[d] /\ overflow'[d] = overflow[d]
    BY Zenon, <1>10 DEF TypeOK
  <2>3. regs \subseteq Sessions
    BY Zenon DEF TypeOK
  <2>4. ASSUME NEW d \in regs', npending'[d] > 0 \/ overflow'[d]
        PROVE wake'[d] \/ sess'[d] \in {"woken", "ending"}
    <3>1. d \in regs /\ d \in Sessions
      BY Zenon, <1>10, <2>3
    <3>2. d # c
      BY <2>1, <2>4
    <3> QED BY Zenon, <1>10, <2>2, <2>4, <3>1, <3>2 DEF WakeInv, NoLostWakeup
  <2>5. ASSUME NEW d \in Sessions \ regs' PROVE npending'[d] = 0 /\ ~overflow'[d]
    BY Zenon, <1>10, <2>1, <2>2 DEF WakeInv
  <2> QED BY Zenon, <2>4, <2>5 DEF WakeInv, NoLostWakeup
<1>11. ASSUME NEW c \in Sessions, Unregister(c) PROVE WakeInv'
  <2>1. /\ regs' = regs \ {c} /\ npending' = [npending EXCEPT ![c] = 0]
        /\ overflow' = [overflow EXCEPT ![c] = FALSE]
        /\ wake' = [wake EXCEPT ![c] = FALSE] /\ sess' = [sess EXCEPT ![c] = "open"]
    BY Zenon, <1>11 DEF Unregister
  <2>2. \A d \in Sessions : d # c => sess'[d] = sess[d] /\ wake'[d] = wake[d]
    BY Zenon, <2>1 DEF TypeOK, Actors
  <2> QED BY Zenon, <1>10, <2>1, <2>2
<1>12. ASSUME NEW c \in Sessions, Get(c) \/ GetFlush(c) \/ GetWebOverflow(c) PROVE WakeInv'
  <2>1. /\ UNCHANGED <<regs, wake>> /\ npending' = [npending EXCEPT ![c] = 0]
        /\ overflow' = [overflow EXCEPT ![c] = FALSE]
    BY Zenon, <1>12 DEF Get, GetFlush, GetWebOverflow, TakeChanges
  <2>2. \A d \in Sessions : d # c => sess'[d] = sess[d]
    BY Zenon, <1>12 DEF Get, GetFlush, GetWebOverflow, TypeOK, Actors
  <2> QED BY Zenon, <1>10, <2>1, <2>2
<1>13. ASSUME NEW c \in Sessions, Wake(c) PROVE WakeInv'
  <2>1. UNCHANGED <<regs, npending, overflow>>
    BY Zenon, <1>13 DEF Wake
  <2>2. /\ sess'[c] = "woken"
        /\ \A d \in Sessions : d # c => sess'[d] = sess[d] /\ wake'[d] = wake[d]
    BY Zenon, <1>13 DEF Wake, TypeOK, Actors
  <2>3. regs \subseteq Sessions
    BY Zenon DEF TypeOK
  <2> QED BY Zenon, <2>1, <2>2, <2>3 DEF WakeInv, NoLostWakeup
<1>14. ASSUME NEW c \in Sessions, WebAbort(c) PROVE WakeInv'
  <2>1. UNCHANGED <<regs, npending, overflow, wake>>
    BY Zenon, <1>14 DEF WebAbort
  <2>2. \A d \in Sessions : sess'[d] = IF d = c THEN "ending" ELSE sess[d]
    BY Zenon, <1>14 DEF WebAbort, TypeOK, Actors
  <2>3. regs \subseteq Sessions
    BY Zenon DEF TypeOK
  <2> QED BY Zenon, <1>1, <2>1, <2>2, <2>3
<1>15. ASSUME NEW c \in Sessions,
              \/ \E ids \in fetched[c] : RemovalSeen(c, ids)
              \/ (\E ms \in SUBSET Msgs : Select(c, ms)) \/ NotifyNone(c) \/ NotifySet(c)
       PROVE WakeInv'
  BY Zenon, <1>1, <1>15 DEF RemovalSeen, Select, NotifyNone, NotifySet
<1>16. CASE Crash
  BY Zenon, <1>16 DEF Crash, WakeInv, NoLostWakeup
<1>17. CASE UNCHANGED vars
  BY Zenon, <1>1, <1>17 DEF vars
<1> QED
  BY ZenonT(60), <1>3, <1>4, <1>5, <1>6, <1>7, <1>8, <1>9, <1>11, <1>12, <1>13, <1>14, <1>15, <1>16, <1>17
  DEF Next, Session
-----------------------------------------------------------------------------
(* What sessions can read. *)

\* Broadcasts reach each session that has the removed messages selected, and they are not
\* erased before it acknowledges that.
LEMMA ViewStep ==
  ASSUME TypeOK, RefInv, AccountInv, ErasableInv, ViewInv, [Next]_vars
  PROVE  ViewInv'
<1> USE DEF disk, account, board, comms, sessions
<1>1. ASSUME UNCHANGED <<regs, req, removals, overflow, fetched, view, stale, flushing>>,
             \A m \in Msgs : msg[m] \in {"live", "expunged"} => msg'[m] = msg[m]
      PROVE ViewInv'
  <2>1. \A c \in Sessions : \A m \in view[c] : Current(c, m) => Current(c, m)'
    BY Zenon, <1>1 DEF Current, Holds, TypeOK
  <2> QED BY Zenon, <1>1, <2>1 DEF ViewInv
<1>2. ASSUME NEW a \in Actors, OpenAccount(a) \/ OpenAccountDB(a) \/ CloseAccount(a) PROVE ViewInv'
  BY Zenon, <1>1, <1>2 DEF OpenAccount, OpenAccountDB, CloseAccount
<1>3. CASE OpenAccountCommit
  <2>1. UNCHANGED <<regs, req, removals, overflow, fetched, view, stale, flushing>>
    BY Zenon, <1>3 DEF OpenAccountCommit
  <2>2. regs = {}
    <3>1. nused = 0
      BY Zenon, <1>3 DEF OpenAccountCommit, AccountInv, OpenInv
    <3>2. \A c \in Sessions : sess[c] = "closed"
      BY Zenon, <3>1, Asleep DEF Actors
    <3> QED BY Zenon, <3>2 DEF RefInv, RegsInv
  <2>3. \A c \in Sessions : view[c] = {}
    BY Zenon, <2>2 DEF ViewInv
  <2> QED BY Zenon, <2>1, <2>3 DEF ViewInv
<1>4. ASSUME UNCHANGED <<regs, removals, overflow, fetched, stale, flushing>>,
             req = NoReq, req' # NoReq,
             \A c \in Sessions : view'[c] # {} => view[c] # {},
             \A c \in Sessions : \A m \in view'[c] :
                \/ m \in view[c] /\ msg'[m] = msg[m]
                \/ msg'[m] = "live"
                \/ msg'[m] = "expunged" /\ m \in req'.rem
      PROVE ViewInv'
  <2>1. \A c \in Sessions : \A m \in view'[c] :
           Current(c, m)' \/ (m \in view[c] /\ (Current(c, m) => Current(c, m)'))
    BY Zenon, <1>4 DEF Current, Holds
  <2>2. ASSUME NEW c \in Sessions
        PROVE /\ view'[c] # {} => c \in regs' \ WebSessions
              /\ flushing'[c] \subseteq fetched'[c]
              /\ flushing'[c] # {} => stale'[c]
    BY Zenon, <1>4 DEF ViewInv
  <2>3. ASSUME NEW c \in Sessions, NEW m \in view'[c]
        PROVE stale'[c] \/ overflow'[c] \/ Current(c, m)'
    <3>1. CASE m \in view[c] /\ (Current(c, m) => Current(c, m)')
      BY Zenon, <1>4, <3>1 DEF ViewInv
    <3> QED BY Zenon, <2>1, <3>1
  <2> QED BY Zenon, <2>2, <2>3 DEF ViewInv
<1>5. CASE Change
  <2>1. req = NoReq /\ UNCHANGED <<regs, removals, overflow, fetched, stale, flushing>>
    BY Zenon, <1>5 DEF Change, Deliver, MessageRemove, MoveMessage, ChangeOther, WLocked
  <2>2. req' # NoReq
    BY Zenon, <1>5, ChangeRequests
  <2>3. ASSUME NEW a \in Broadcasters, NEW m \in Msgs, Deliver(a, m) PROVE ViewInv'
    <3>1. UNCHANGED view /\ \A k \in Msgs : msg'[k] = IF k = m THEN "live" ELSE msg[k]
      BY Zenon, <2>3 DEF Deliver, TypeOK
    <3> QED BY ZenonT(60), <1>4, <2>1, <2>2, <3>1 DEF TypeOK
  <2>4. ASSUME NEW a \in Broadcasters, NEW ids \in SUBSET Msgs, MessageRemove(a, ids) PROVE ViewInv'
    <3>1. /\ UNCHANGED view /\ req'.rem = ids
          /\ \A k \in Msgs : msg'[k] = IF k \in ids THEN "expunged" ELSE msg[k]
      BY Zenon, <2>4 DEF MessageRemove
    <3> QED BY ZenonT(60), <1>4, <2>1, <2>2, <3>1 DEF TypeOK
  <2>5. ASSUME NEW a \in Broadcasters, NEW m \in Msgs, NEW old \in Msgs, MoveMessage(a, m, old)
        PROVE ViewInv'
    <3>1. /\ \A c \in Sessions : view'[c] = IF m \in view[c] THEN (view[c] \ {m}) \cup {old} ELSE view[c]
          /\ req'.rem = {old}
      BY Zenon, <2>5 DEF MoveMessage
    <3>2. \A k \in Msgs : msg'[k] = IF k = old THEN "expunged" ELSE msg[k]
      BY Zenon, <2>5 DEF MoveMessage, TypeOK
    <3>3. \A c \in Sessions : view'[c] # {} => view[c] # {}
      BY Zenon, <3>1
    <3>4. \A c \in Sessions : \A k \in view'[c] :
             (k \in view[c] /\ msg'[k] = msg[k]) \/ (msg'[k] = "expunged" /\ k \in req'.rem)
      <4> SUFFICES ASSUME NEW c \in Sessions, NEW k \in view'[c]
                   PROVE  (k \in view[c] /\ msg'[k] = msg[k]) \/ (msg'[k] = "expunged" /\ k \in req'.rem)
        OBVIOUS
      <4>1. view[c] \subseteq Msgs
        BY Zenon DEF TypeOK
      <4>2. k = old \/ k \in view[c]
        BY Zenon, <3>1
      <4>3. CASE k = old
        BY Zenon, <3>1, <3>2, <4>3
      <4>4. CASE k # old
        BY Zenon, <3>2, <4>1, <4>2, <4>4
      <4> QED BY Zenon, <4>3, <4>4
    <3> QED BY Zenon, <1>4, <2>1, <2>2, <3>3, <3>4
  <2>6. ASSUME NEW a \in Broadcasters, NEW n \in OtherSizes, ChangeOther(a, n) PROVE ViewInv'
    <3>1. UNCHANGED <<view, msg>>
      BY Zenon, <2>6 DEF ChangeOther
    <3> QED BY Zenon, <1>4, <2>1, <2>2, <3>1
  <2> QED BY Zenon, <1>5, <2>3, <2>4, <2>5, <2>6 DEF Change
<1>6. CASE Broadcast
  <2> DEFINE others == regs \ {req.by}
             full == {c \in others : ~HasRoom(c)}
  <2>1. /\ overflow' = [c \in Sessions |-> overflow[c] \/ c \in full]
        /\ removals' = [c \in Sessions |-> removals[c] \cup
                           (IF c \in others \ full /\ req.rem # {} THEN {req.rem} ELSE {})]
        /\ view' = [c \in Sessions |-> IF c = req.by THEN view[c] \ req.rem ELSE view[c]]
        /\ UNCHANGED <<msg, regs, fetched, stale, flushing>> /\ req # NoReq
    BY Zenon, <1>6 DEF Broadcast
  <2> HIDE DEF full
  <2>2. ASSUME NEW c \in Sessions, NEW m \in view'[c], ~stale[c], ~overflow'[c]
        PROVE Current(c, m)'
    <3>1. m \in view[c] /\ (c = req.by => m \notin req.rem)
      BY Zenon, <2>1, <2>2
    <3>2. ~overflow[c] /\ c \notin full
      BY Zenon, <2>1, <2>2
    <3>3. c \in regs /\ Current(c, m)
      BY Zenon, <2>2, <3>1, <3>2 DEF ViewInv
    <3>4. Holds(c, m) => Holds(c, m)'
      BY Zenon, <2>1 DEF Holds
    <3>5. m \in req.rem => Holds(c, m)'
      BY Zenon, <2>1, <3>1, <3>2, <3>3 DEF Holds
    <3> QED BY Zenon, <2>1, <3>3, <3>4, <3>5 DEF Current
  <2>3. \A c \in Sessions : view'[c] \subseteq view[c]
    BY Zenon, <2>1
  <2> QED BY Zenon, <2>1, <2>2, <2>3 DEF ViewInv
<1>7. ASSUME NEW c \in Sessions, Register(c) PROVE ViewInv'
  <2>1. /\ UNCHANGED <<msg, req, removals, overflow, fetched, view, flushing>>
        /\ stale' = [stale EXCEPT ![c] = FALSE] /\ regs' = regs \cup {c} /\ sess[c] = "open"
    BY Zenon, <1>7 DEF Register
  <2>2. c \notin regs
    BY Zenon, <2>1 DEF RefInv, RegsInv
  <2>3. fetched[c] = {}
    BY Zenon, <2>2 DEF RefInv, RegsInv
  <2>4. view[c] = {} /\ flushing[c] = {}
    BY Zenon, <2>2, <2>3 DEF ViewInv
  <2>5. \A d \in Sessions : d # c => stale'[d] = stale[d]
    BY Zenon, <2>1 DEF TypeOK
  <2>6. \A d \in Sessions : \A m \in view[d] : Current(d, m)' <=> Current(d, m)
    BY Zenon, <2>1 DEF Current, Holds
  <2> QED BY Zenon, <2>1, <2>4, <2>5, <2>6 DEF ViewInv
<1>8. ASSUME NEW c \in Sessions, Unregister(c) PROVE ViewInv'
  <2>1. /\ UNCHANGED <<msg, req, stale>> /\ regs' = regs \ {c}
        /\ removals' = [removals EXCEPT ![c] = {}] /\ overflow' = [overflow EXCEPT ![c] = FALSE]
        /\ fetched' = [fetched EXCEPT ![c] = {}] /\ view' = [view EXCEPT ![c] = {}]
        /\ flushing' = [flushing EXCEPT ![c] = {}]
    BY Zenon, <1>8 DEF Unregister
  <2>2. view'[c] = {} /\ flushing'[c] = {} /\ fetched'[c] = {}
    BY Zenon, <2>1 DEF TypeOK
  <2>3. ASSUME NEW d \in Sessions, d # c
        PROVE /\ view'[d] = view[d] /\ flushing'[d] = flushing[d] /\ fetched'[d] = fetched[d]
              /\ overflow'[d] = overflow[d] /\ removals'[d] = removals[d]
              /\ d \in regs => d \in regs'
    BY Zenon, <2>1, <2>3 DEF TypeOK
  <2>4. ASSUME NEW d \in Sessions, d # c, NEW m \in view[d] PROVE Current(d, m)' <=> Current(d, m)
    BY Zenon, <2>1, <2>3, <2>4 DEF Current, Holds
  <2>5. ASSUME NEW d \in Sessions, d # c
        PROVE /\ view'[d] # {} => d \in regs' \ WebSessions
              /\ flushing'[d] \subseteq fetched'[d]
              /\ flushing'[d] # {} => stale'[d]
              /\ \A m \in view'[d] : stale'[d] \/ overflow'[d] \/ Current(d, m)'
    BY Zenon, <2>1, <2>3, <2>4, <2>5 DEF ViewInv
  <2> QED BY Zenon, <2>2, <2>5 DEF ViewInv
<1>9. ASSUME NEW c \in Sessions, NEW ids \in fetched[c], RemovalSeen(c, ids) PROVE ViewInv'
  <2>1. /\ UNCHANGED <<msg, req, regs, removals, overflow>>
        /\ fetched' = [fetched EXCEPT ![c] = @ \ {ids}]
        /\ flushing' = [flushing EXCEPT ![c] = @ \ {ids}]
        /\ view' = [view EXCEPT ![c] = IF notify[c] /\ ids \notin flushing[c] THEN @ \ ids ELSE @]
        /\ stale' = [stale EXCEPT ![c] = @ \/ ~notify[c]]
    BY Zenon, <1>9 DEF RemovalSeen
  <2>2. /\ fetched'[c] = fetched[c] \ {ids} /\ flushing'[c] = flushing[c] \ {ids}
        /\ view'[c] = IF notify[c] /\ ids \notin flushing[c] THEN view[c] \ ids ELSE view[c]
        /\ stale'[c] = (stale[c] \/ ~notify[c])
    BY Zenon, <2>1 DEF TypeOK
  <2>3. ASSUME NEW d \in Sessions, d # c
        PROVE /\ view'[d] = view[d] /\ flushing'[d] = flushing[d] /\ fetched'[d] = fetched[d]
              /\ stale'[d] = stale[d]
    BY Zenon, <2>1, <2>3 DEF TypeOK
  <2>4. ASSUME NEW d \in Sessions, d # c
        PROVE /\ view'[d] # {} => d \in regs' \ WebSessions
              /\ flushing'[d] \subseteq fetched'[d]
              /\ flushing'[d] # {} => stale'[d]
              /\ \A m \in view'[d] : stale'[d] \/ overflow'[d] \/ Current(d, m)'
    <3>1. \A m \in view[d] : Current(d, m)' <=> Current(d, m)
      BY Zenon, <2>1, <2>3, <2>4 DEF Current, Holds
    <3> QED BY Zenon, <2>1, <2>3, <2>4, <3>1 DEF ViewInv
  <2>5. /\ view'[c] # {} => c \in regs' \ WebSessions
        /\ flushing'[c] \subseteq fetched'[c]
        /\ flushing'[c] # {} => stale'[c]
    <3>1. /\ view[c] # {} => c \in regs \ WebSessions
          /\ flushing[c] \subseteq fetched[c]
          /\ flushing[c] # {} => stale[c]
      BY Zenon DEF ViewInv
    <3> QED BY Zenon, <2>1, <2>2, <3>1
  <2>6. ASSUME NEW m \in view'[c], ~stale'[c], ~overflow'[c] PROVE Current(c, m)'
    <3>1. notify[c] /\ ~stale[c] /\ flushing[c] = {}
      BY Zenon, <2>2, <2>6 DEF ViewInv
    <3>2. m \in view[c] /\ m \notin ids
      BY Zenon, <2>2, <2>6, <3>1
    <3>3. Current(c, m)
      BY Zenon, <2>1, <2>6, <3>1, <3>2 DEF ViewInv
    <3>4. Holds(c, m) => Holds(c, m)'
      BY Zenon, <2>1, <2>2, <3>2 DEF Holds
    <3> QED BY Zenon, <2>1, <3>3, <3>4 DEF Current
  <2> QED BY Zenon, <2>4, <2>5, <2>6 DEF ViewInv
<1>10. ASSUME NEW c \in Sessions, Get(c) \/ GetFlush(c) PROVE ViewInv'
  <2>1. /\ UNCHANGED <<msg, req, regs, view>>
        /\ removals' = [removals EXCEPT ![c] = {}] /\ overflow' = [overflow EXCEPT ![c] = FALSE]
        /\ fetched' = [fetched EXCEPT ![c] = @ \cup removals[c]]
    BY Zenon, <1>10 DEF Get, GetFlush, TakeChanges
  <2>2. \A d \in Sessions : \A m \in view[d] : Current(d, m)' <=> Current(d, m)
    <3>1. \A d \in Sessions : removals'[d] \cup fetched'[d] = removals[d] \cup fetched[d]
      BY Zenon, <2>1 DEF TypeOK
    <3> QED BY Zenon, <2>1, <3>1 DEF Current, Holds
  <2>3. /\ flushing'[c] = flushing[c] \/ (flushing'[c] = flushing[c] \cup removals[c] /\ (removals[c] # {} => stale'[c]))
        /\ stale[c] \/ overflow[c] => stale'[c]
    <3>1. CASE Get(c)
      BY Zenon, <3>1 DEF Get, TypeOK
    <3>2. CASE GetFlush(c)
      BY Zenon, <3>2 DEF GetFlush, TypeOK
    <3> QED BY Zenon, <1>10, <3>1, <3>2
  <2>4. fetched'[c] = fetched[c] \cup removals[c]
    BY Zenon, <2>1 DEF TypeOK
  <2>5. ASSUME NEW d \in Sessions, d # c
        PROVE /\ flushing'[d] = flushing[d] /\ fetched'[d] = fetched[d]
              /\ stale'[d] = stale[d] /\ overflow'[d] = overflow[d]
    BY ZenonT(60), <1>10, <2>1, <2>5 DEF Get, GetFlush, TypeOK
  <2>6. ASSUME NEW d \in Sessions, d # c
        PROVE /\ view'[d] # {} => d \in regs' \ WebSessions
              /\ flushing'[d] \subseteq fetched'[d]
              /\ flushing'[d] # {} => stale'[d]
              /\ \A m \in view'[d] : stale'[d] \/ overflow'[d] \/ Current(d, m)'
    BY Zenon, <2>1, <2>2, <2>5, <2>6 DEF ViewInv
  <2>7. /\ view[c] # {} => c \in regs \ WebSessions
        /\ flushing[c] \subseteq fetched[c]
        /\ flushing[c] # {} => stale[c]
        /\ \A m \in view[c] : stale[c] \/ overflow[c] \/ Current(c, m)
    BY Zenon DEF ViewInv
  <2>8. flushing'[c] \subseteq fetched'[c] /\ (flushing'[c] # {} => stale'[c])
    BY Zenon, <2>3, <2>4, <2>7
  <2>9. \A m \in view'[c] : stale'[c] \/ overflow'[c] \/ Current(c, m)'
    BY Zenon, <2>1, <2>2, <2>3, <2>7
  <2> QED BY Zenon, <2>1, <2>6, <2>7, <2>8, <2>9 DEF ViewInv
<1>11. ASSUME NEW c \in Sessions, GetWebOverflow(c) PROVE ViewInv'
  <2>1. /\ UNCHANGED <<msg, req, regs, fetched, view, stale, flushing>> /\ c \in WebSessions
        /\ removals' = [removals EXCEPT ![c] = {}] /\ overflow' = [overflow EXCEPT ![c] = FALSE]
    BY Zenon, <1>11 DEF GetWebOverflow, TakeChanges
  <2>2. view[c] = {}
    BY Zenon, <2>1 DEF ViewInv
  <2>3. \A d \in Sessions : d # c => overflow'[d] = overflow[d] /\ removals'[d] = removals[d]
    BY Zenon, <2>1 DEF TypeOK
  <2>4. \A d \in Sessions : d # c => \A m \in view[d] : Current(d, m)' <=> Current(d, m)
    BY Zenon, <2>1, <2>3 DEF Current, Holds
  <2> QED BY Zenon, <2>1, <2>2, <2>3, <2>4 DEF ViewInv
<1>12. ASSUME NEW c \in Sessions, Wake(c) \/ WebAbort(c) \/ NotifyNone(c) \/ NotifySet(c) PROVE ViewInv'
  BY Zenon, <1>1, <1>12 DEF Wake, WebAbort, NotifyNone, NotifySet
<1>13. ASSUME NEW c \in Sessions, NEW ms \in SUBSET Msgs, Select(c, ms) PROVE ViewInv'
  <2>1. /\ UNCHANGED <<msg, req, regs, removals, overflow, fetched, flushing>>
        /\ view' = [view EXCEPT ![c] = ms] /\ stale' = [stale EXCEPT ![c] = FALSE]
        /\ fetched[c] = {} /\ ms \subseteq Live /\ c \notin WebSessions
    BY Zenon, <1>13 DEF Select
  <2>2. c \in regs
    BY Zenon, <1>13 DEF Select, Ready, RefInv, RegsInv
  <2>3. flushing[c] = {}
    BY Zenon, <2>1 DEF ViewInv
  <2>4. view'[c] = ms /\ \A m \in ms : Current(c, m)'
    BY Zenon, <2>1 DEF TypeOK, Live, Current
  <2>5. \A d \in Sessions : d # c => view'[d] = view[d] /\ stale'[d] = stale[d]
    BY Zenon, <2>1 DEF TypeOK
  <2>6. \A d \in Sessions : \A m \in view[d] : Current(d, m)' <=> Current(d, m)
    BY Zenon, <2>1 DEF Current, Holds
  <2> QED BY Zenon, <2>1, <2>2, <2>3, <2>4, <2>5, <2>6 DEF ViewInv
<1>14. CASE EraseCommit
  <2>1. /\ UNCHANGED <<regs, req, removals, overflow, fetched, view, stale, flushing>>
        /\ req = NoReq /\ eraser = "erasing"
        /\ \A m \in Msgs : msg'[m] = IF m \in batch THEN "erased" ELSE msg[m]
        /\ \A m \in batch : msg[m] = "expunged"
    BY Zenon, <1>14 DEF EraseCommit, EraseRecords
  <2>2. ASSUME NEW c \in Sessions, NEW m \in view[c], Current(c, m) PROVE Current(c, m)'
    <3>1. m \in Msgs
      BY Zenon DEF TypeOK
    <3>2. ASSUME Holds(c, m) PROVE m \notin batch
      <4>1. c \in Holders(m) /\ Holders(m) \in SUBSET Sessions
        BY Zenon, <3>2 DEF Holders
      <4>2. IsFiniteSet(Holders(m)) /\ Cardinality(Holders(m)) \in Nat
        BY Zenon, <4>1, SessionSets
      <4>3. Cardinality(Holders(m)) # 0
        BY Zenon, <4>1, <4>2, FS_EmptySet
      <4>4. eraseRefs[m] # 0
        BY SMTT(60), <3>1, <4>2, <4>3 DEF RefInv, RefsCoverHolders, TypeOK
      <4> QED BY Zenon, <2>1, <4>4 DEF ErasableInv, Erasable
    <3>3. Holds(c, m)' <=> Holds(c, m)
      BY Zenon, <2>1 DEF Holds
    <3> QED BY Zenon, <2>1, <2>2, <3>1, <3>2, <3>3 DEF Current
  <2> QED BY Zenon, <2>1, <2>2 DEF ViewInv
<1>15. CASE SendErase \/ EraseFail \/ EraseFiles \/ EraserClose
  BY Zenon, <1>1, <1>15 DEF SendErase, EraseFail, EraseFiles, EraserClose
<1>16. CASE Crash
  BY Zenon, <1>16 DEF Crash, ViewInv
<1>17. CASE UNCHANGED vars
  BY Zenon, <1>1, <1>17 DEF vars
<1> QED
  BY ZenonT(60), <1>2, <1>3, <1>5, <1>6, <1>7, <1>8, <1>9, <1>10, <1>11, <1>12, <1>13, <1>14, <1>15, <1>16, <1>17
  DEF Next, Session, Eraser
-----------------------------------------------------------------------------
(* The abstract specification of erasing. *)

\* The users of the abstract specification: the sessions that may refer to a message.
Refs == [m \in Msgs |-> References(m)]

\* A message without references, once its removal was broadcast, is held by no session.
LEMMA UnreferencedFree ==
  ASSUME TypeOK, RefInv, NEW m \in Msgs, eraseRefs[m] = 0
  PROVE  Holders(m) = {}
<1>1. Holders(m) \in SUBSET Sessions
  BY Zenon DEF Holders
<1>2. IsFiniteSet(Holders(m)) /\ Cardinality(Holders(m)) \in Nat
  BY Zenon, <1>1, SessionSets
<1>3. Cardinality(Holders(m)) = 0
  BY <1>2 DEF RefInv, RefsCoverHolders, TypeOK
<1> QED BY Zenon, <1>2, <1>3, FS_EmptySet

\* Each step of the switchboard, the eraser and the sessions is one of MessageErasure, or
\* changes nothing of it: sessions only let go of messages, and what EraseCommit and
\* OpenAccountCommit erase has no references.
LEMMA ErasureStep ==
  ASSUME TypeOK, RefInv, AccountInv, RecordsInv, ErasableInv, [Next]_vars
  PROVE  [Erasure!Next]_<<msg, Refs>>
<1> USE DEF disk, account, board, comms, sessions
<1>0. \A m \in Msgs : References(m) \in SUBSET Sessions /\ References(m)' \in SUBSET Sessions
  BY Zenon DEF References, Holders
<1>1. ASSUME UNCHANGED msg, \A m \in Msgs : References(m)' \subseteq References(m)
      PROVE Erasure!Next
  <2>1. Refs' \in [Msgs -> SUBSET Sessions]
    BY Zenon, <1>0 DEF Refs
  <2>2. \A m \in Msgs : Refs'[m] \subseteq Refs[m]
    BY Zenon, <1>1 DEF Refs
  <2> QED BY Zenon, <1>1, <2>1, <2>2 DEF Erasure!Next, Erasure!Release, Refs
<1>2. ASSUME UNCHANGED <<msg, req>>,
             \A c \in Sessions : removals'[c] \cup fetched'[c] \subseteq removals[c] \cup fetched[c]
      PROVE Erasure!Next
  <2>1. \A c \in Sessions, m \in Msgs : Holds(c, m)' => Holds(c, m)
    BY Zenon, <1>2 DEF Holds
  <2>2. \A m \in Msgs : References(m)' \subseteq References(m)
    BY Zenon, <1>2, <2>1 DEF References, Holders
  <2> QED BY Zenon, <1>1, <1>2, <2>2
<1>3. ASSUME UNCHANGED <<msg, req, removals, fetched>> PROVE Erasure!Next
  BY Zenon, <1>2, <1>3
<1>4. ASSUME UNCHANGED <<removals, fetched>>, req = NoReq, req' # NoReq
      PROVE \A m \in Msgs : /\ m \in req'.rem => References(m)' = Sessions
                            /\ m \notin req'.rem => References(m)' = References(m)
  <2>1. \A c \in Sessions, m \in Msgs : Holds(c, m)' <=> Holds(c, m)
    BY Zenon, <1>4 DEF Holds
  <2> QED BY Zenon, <1>4, <2>1 DEF References, Holders
<1>5. ASSUME NEW a \in Actors, OpenAccount(a) \/ OpenAccountDB(a) \/ CloseAccount(a) PROVE Erasure!Next
  BY Zenon, <1>3, <1>5 DEF OpenAccount, OpenAccountDB, CloseAccount
<1>6. ASSUME NEW ids \in SUBSET Msgs, \A m \in ids : msg[m] = "expunged" /\ References(m) = {},
             msg' = [m \in Msgs |-> IF m \in ids THEN "erased" ELSE msg[m]],
             UNCHANGED <<req, removals, fetched>>
      PROVE Erasure!Next
  <2>1. Refs' = Refs
    BY <1>6 DEF Refs, References, Holders, Holds
  <2>2. \A m \in ids : Refs[m] = {}
    BY Zenon, <1>6 DEF Refs
  <2>3. Erasure!Erase(ids)
    BY Zenon, <1>6, <2>1, <2>2 DEF Erasure!Erase, Refs
  <2> QED BY Zenon, <2>3 DEF Erasure!Next
<1>7. CASE OpenAccountCommit
  <2>1. nused = 0
    BY Zenon, <1>7 DEF OpenAccountCommit, AccountInv, OpenInv
  <2>2. req = NoReq /\ \A m \in Msgs : eraseRefs[m] = 0
    BY Zenon, <2>1, Asleep
  <2>3. \A m \in Msgs : References(m) = {}
    BY Zenon, <2>2, UnreferencedFree DEF References
  <2>4. /\ msg' = [m \in Msgs |-> IF m \in erec THEN "erased" ELSE msg[m]]
        /\ UNCHANGED <<req, removals, fetched>> /\ \A m \in erec : msg[m] = "expunged"
    BY Zenon, <1>7 DEF OpenAccountCommit, EraseRecords
  <2>5. erec \in SUBSET Msgs
    BY Zenon DEF TypeOK
  <2> QED BY Zenon, <1>6, <2>3, <2>4, <2>5
<1>8. CASE Change
  <2>1. req = NoReq /\ req' # NoReq /\ UNCHANGED <<removals, fetched>>
    BY Zenon, <1>8, ChangeRequests
    DEF Change, Deliver, MessageRemove, MoveMessage, ChangeOther, WLocked
  <2>2. \A m \in Msgs : /\ m \in req'.rem => References(m)' = Sessions
                        /\ m \notin req'.rem => References(m)' = References(m)
    BY Zenon, <1>4, <2>1
  <2>3. ASSUME NEW a \in Broadcasters, NEW m \in Msgs, Deliver(a, m) PROVE Erasure!Next
    <3>1. msg[m] = "absent" /\ msg' = [msg EXCEPT ![m] = "live"] /\ req'.rem = {}
      BY Zenon, <2>3 DEF Deliver
    <3>2. Refs' = Refs
      BY Zenon, <2>2, <3>1 DEF Refs
    <3>3. Erasure!Add(m)
      BY Zenon, <3>1, <3>2 DEF Erasure!Add, Refs
    <3> QED BY Zenon, <3>3 DEF Erasure!Next
  <2>4. ASSUME NEW ids \in SUBSET Msgs, req'.rem = ids, \A m \in ids : msg[m] \in {"absent", "live"},
               msg' = [m \in Msgs |-> IF m \in ids THEN "expunged" ELSE msg[m]]
        PROVE Erasure!Next
    <3>1. Refs' = [m \in Msgs |-> IF m \in ids THEN Sessions ELSE Refs[m]]
      BY Zenon, <2>2, <2>4 DEF Refs
    <3>2. Erasure!Expunge(ids)
      BY Zenon, <2>4, <3>1 DEF Erasure!Expunge, Refs
    <3> QED BY Zenon, <3>2 DEF Erasure!Next
  <2>5. ASSUME NEW a \in Broadcasters, NEW ids \in SUBSET Msgs, MessageRemove(a, ids) PROVE Erasure!Next
    <3>1. /\ req'.rem = ids /\ \A m \in ids : msg[m] = "live"
          /\ msg' = [m \in Msgs |-> IF m \in ids THEN "expunged" ELSE msg[m]]
      BY Zenon, <2>5 DEF MessageRemove, Live
    <3> QED BY Zenon, <2>4, <3>1
  <2>6. ASSUME NEW a \in Broadcasters, NEW m \in Msgs, NEW old \in Msgs, MoveMessage(a, m, old)
        PROVE Erasure!Next
    <3>1. req'.rem = {old} /\ msg[old] = "absent" /\ msg' = [msg EXCEPT ![old] = "expunged"]
      BY Zenon, <2>6 DEF MoveMessage
    <3>2. msg' = [k \in Msgs |-> IF k \in {old} THEN "expunged" ELSE msg[k]]
      BY Zenon, <3>1 DEF TypeOK
    <3> QED BY ZenonT(60), <2>4, <3>1, <3>2
  <2>7. ASSUME NEW a \in Broadcasters, NEW n \in OtherSizes, ChangeOther(a, n) PROVE Erasure!Next
    <3>1. UNCHANGED msg /\ req'.rem = {}
      BY Zenon, <2>7 DEF ChangeOther
    <3>2. \A m \in Msgs : References(m)' \subseteq References(m)
      BY Zenon, <2>2, <3>1
    <3> QED BY Zenon, <1>1, <3>1, <3>2
  <2> QED BY Zenon, <1>8, <2>3, <2>5, <2>6, <2>7 DEF Change
<1>9. CASE Broadcast
  <2>1. /\ UNCHANGED <<msg, fetched>> /\ req # NoReq /\ req' = NoReq
        /\ \A c \in Sessions : \A ids \in removals'[c] : ids \in removals[c] \/ ids = req.rem
    BY Zenon, <1>9 DEF Broadcast
  <2>2. \A c \in Sessions : \A m \in Msgs \ req.rem : Holds(c, m)' => Holds(c, m)
    BY Zenon, <2>1 DEF Holds
  <2>3. \A m \in Msgs : References(m)' \subseteq References(m)
    BY Zenon, <2>1, <2>2 DEF References, Holders
  <2> QED BY Zenon, <1>1, <2>1, <2>3
<1>10. ASSUME NEW c \in Sessions,
              \/ Register(c) \/ Wake(c) \/ WebAbort(c) \/ NotifyNone(c) \/ NotifySet(c)
              \/ \E ms \in SUBSET Msgs : Select(c, ms)
       PROVE Erasure!Next
  BY Zenon, <1>3, <1>10 DEF Register, Wake, WebAbort, NotifyNone, NotifySet, Select
<1>11. ASSUME NEW c \in Sessions, Unregister(c) PROVE Erasure!Next
  <2>1. /\ UNCHANGED <<msg, req>>
        /\ removals' = [removals EXCEPT ![c] = {}] /\ fetched' = [fetched EXCEPT ![c] = {}]
    BY Zenon, <1>11 DEF Unregister
  <2> QED BY Zenon, <1>2, <2>1 DEF TypeOK
<1>12. ASSUME NEW c \in Sessions, NEW ids \in fetched[c], RemovalSeen(c, ids) PROVE Erasure!Next
  <2>1. UNCHANGED <<msg, req, removals>> /\ fetched' = [fetched EXCEPT ![c] = @ \ {ids}]
    BY Zenon, <1>12 DEF RemovalSeen
  <2> QED BY Zenon, <1>2, <2>1 DEF TypeOK
<1>13. ASSUME NEW c \in Sessions, Get(c) \/ GetFlush(c) PROVE Erasure!Next
  <2>1. /\ UNCHANGED <<msg, req>>
        /\ removals' = [removals EXCEPT ![c] = {}]
        /\ fetched' = [fetched EXCEPT ![c] = @ \cup removals[c]]
    BY Zenon, <1>13 DEF Get, GetFlush, TakeChanges
  <2> QED BY Zenon, <1>2, <2>1 DEF TypeOK
<1>14. ASSUME NEW c \in Sessions, GetWebOverflow(c) PROVE Erasure!Next
  <2>1. UNCHANGED <<msg, req, fetched>> /\ removals' = [removals EXCEPT ![c] = {}]
    BY Zenon, <1>14 DEF GetWebOverflow, TakeChanges
  <2> QED BY Zenon, <1>2, <2>1 DEF TypeOK
<1>15. CASE EraseCommit
  <2>1. /\ req = NoReq /\ eraser = "erasing" /\ \A m \in batch : msg[m] = "expunged"
        /\ msg' = [m \in Msgs |-> IF m \in batch THEN "erased" ELSE msg[m]]
        /\ UNCHANGED <<req, removals, fetched>>
    BY Zenon, <1>15 DEF EraseCommit, EraseRecords
  <2>2. \A m \in batch : eraseRefs[m] = 0
    BY Zenon, <2>1 DEF ErasableInv, Erasable
  <2>3. batch \in SUBSET Msgs
    BY Zenon DEF TypeOK
  <2>4. \A m \in batch : References(m) = {}
    BY Zenon, <2>1, <2>2, <2>3, UnreferencedFree DEF References
  <2> QED BY Zenon, <1>6, <2>1, <2>3, <2>4
<1>16. CASE SendErase \/ EraseFail \/ EraseFiles \/ EraserClose
  BY Zenon, <1>3, <1>16 DEF SendErase, EraseFail, EraseFiles, EraserClose
<1>17. CASE Crash
  <2>1. UNCHANGED msg /\ req' = NoReq /\ \A c \in Sessions : removals'[c] = {} /\ fetched'[c] = {}
    BY Zenon, <1>17 DEF Crash
  <2>2. \A m \in Msgs : References(m)' = {}
    BY Zenon, <2>1 DEF References, Holders, Holds
  <2> QED BY Zenon, <1>1, <2>1, <2>2
<1>18. CASE UNCHANGED vars
  BY Zenon, <1>3, <1>18 DEF vars
<1> QED
  BY ZenonT(60), <1>5, <1>7, <1>8, <1>9, <1>10, <1>11, <1>12, <1>13, <1>14, <1>15, <1>16, <1>17, <1>18
  DEF Next, Session, Eraser
-----------------------------------------------------------------------------
(* The exact count of references, while no webmail stream is open. *)

\* decreaseEraseRefs for messages of which one session lets go keeps counts exact.
LEMMA DecreaseExact ==
  ASSUME TypeOK, RefsExact, NEW c \in Sessions, NEW ids \in SUBSET Msgs, DecreaseEraseRefs(ids),
         \A m \in ids : c \in Holders(m) /\ Holders(m)' = Holders(m) \ {c},
         \A m \in Msgs \ ids : Holders(m)' = Holders(m)
  PROVE  RefsExact'
<1> SUFFICES ASSUME NEW m \in Msgs PROVE eraseRefs'[m] = Cardinality(Holders(m)')
  BY Zenon DEF RefsExact
<1>1. eraseRefs'[m] = IF m \in ids /\ eraseRefs[m] > 0 THEN eraseRefs[m] - 1 ELSE eraseRefs[m]
  BY Zenon DEF DecreaseEraseRefs
<1>2. eraseRefs[m] = Cardinality(Holders(m)) /\ eraseRefs[m] \in Nat
  BY Zenon DEF RefsExact, TypeOK
<1>3. CASE m \in ids
  <2> DEFINE A == Holders(m)
  <2>1. A \in SUBSET Sessions /\ c \in A
    BY Zenon, <1>3 DEF Holders
  <2>2. IsFiniteSet(A) /\ Cardinality(A) \in Nat
    BY Zenon, <2>1, SessionSets
  <2> HIDE DEF A
  <2>3. Cardinality(A \ {c}) = Cardinality(A) - 1
    BY Zenon, <2>1, <2>2, FS_RemoveElement
  <2>4. Cardinality(A \ {c}) \in Nat
    BY Zenon, <2>1, SessionSets, A \ {c} \in SUBSET Sessions
  <2>5. Cardinality(Holders(m)') = Cardinality(A) - 1 /\ eraseRefs[m] = Cardinality(A)
    BY Zenon, <1>2, <1>3, <2>3 DEF A
  <2> QED BY SMTT(60), <1>1, <1>3, <2>2, <2>3, <2>4, <2>5
<1>4. CASE m \notin ids
  BY Zenon, <1>1, <1>2, <1>4
<1> QED BY Zenon, <1>3, <1>4

\* Only the event streams of the webmail end with changes not acknowledged.
EndingWeb == \A c \in Sessions : sess[c] = "ending" => c \in WebSessions

\* Sessions end this way in GetWebOverflow and WebAbort only.
LEMMA EndingStep ==
  ASSUME TypeOK, EndingWeb, [Next]_vars
  PROVE  EndingWeb'
<1> USE DEF sessions, EndingWeb
<1>1. ASSUME UNCHANGED sess PROVE EndingWeb'
  BY Zenon, <1>1
<1>2. ASSUME NEW a \in Actors, NEW v \in {"closed", "open", "registered", "woken"},
             sess' = [sess EXCEPT ![a] = v]
      PROVE EndingWeb'
  BY <1>2 DEF TypeOK
<1>3. ASSUME NEW a \in Actors, OpenAccount(a) \/ OpenAccountDB(a) \/ CloseAccount(a) PROVE EndingWeb'
  BY Zenon, <1>1, <1>2, <1>3 DEF OpenAccount, OpenAccountDB, CloseAccount
<1>4. CASE OpenAccountCommit
  <2>1. opener \in Actors
    BY Zenon, <1>4 DEF OpenAccountCommit, TypeOK
  <2> QED BY Zenon, <1>2, <1>4, <2>1 DEF OpenAccountCommit
<1>5. CASE Change \/ Broadcast \/ Eraser
  <2>1. UNCHANGED sess
    BY Zenon, <1>5
    DEF Change, Deliver, MessageRemove, MoveMessage, ChangeOther, Broadcast, Eraser,
        SendErase, EraseCommit, EraseFail, EraseFiles, EraserClose
  <2> QED BY Zenon, <1>1, <2>1
<1>6. ASSUME NEW c \in Sessions, Register(c) \/ Unregister(c) \/ Wake(c) \/ Get(c) PROVE EndingWeb'
  <2>1. c \in Actors
    BY Zenon DEF Actors
  <2> QED BY Zenon, <1>2, <1>6, <2>1 DEF Register, Unregister, Wake, Get
<1>7. ASSUME NEW c \in Sessions, GetWebOverflow(c) \/ WebAbort(c) PROVE EndingWeb'
  <2>1. c \in WebSessions /\ sess' = [sess EXCEPT ![c] = "ending"]
    BY Zenon, <1>7 DEF GetWebOverflow, WebAbort
  <2> QED BY Zenon, <2>1 DEF TypeOK, Actors
<1>8. ASSUME NEW c \in Sessions,
             \/ GetFlush(c) \/ NotifyNone(c) \/ NotifySet(c)
             \/ \E ids \in fetched[c] : RemovalSeen(c, ids)
             \/ \E ms \in SUBSET Msgs : Select(c, ms)
      PROVE EndingWeb'
  BY Zenon, <1>1, <1>8 DEF GetFlush, NotifyNone, NotifySet, RemovalSeen, Select
<1>9. CASE Crash
  BY Zenon, <1>9 DEF Crash, Actors
<1>10. CASE UNCHANGED vars
  BY Zenon, <1>1, <1>10 DEF vars
<1> QED BY Zenon, <1>3, <1>4, <1>5, <1>6, <1>7, <1>8, <1>9, <1>10 DEF Next, Session

\* Broadcasts, acknowledgements and IMAP connections that go away keep counts exact.
LEMMA ExactStep ==
  ASSUME WebSessions = {}, TypeOK, RefInv, EndingWeb, RefsExact, [Next]_vars
  PROVE  RefsExact'
<1> USE DEF board, comms, sessions
<1>1. ASSUME UNCHANGED eraseRefs,
             \A c \in Sessions : removals'[c] \cup fetched'[c] = removals[c] \cup fetched[c]
      PROVE RefsExact'
  <2>1. \A m \in Msgs : Holders(m)' = Holders(m)
    BY Zenon, <1>1 DEF Holders, Holds
  <2> QED BY Zenon, <1>1, <2>1 DEF RefsExact
<1>2. ASSUME UNCHANGED <<eraseRefs, removals, fetched>> PROVE RefsExact'
  BY Zenon, <1>1, <1>2
<1>3. ASSUME NEW a \in Actors, OpenAccount(a) \/ OpenAccountDB(a) \/ CloseAccount(a) PROVE RefsExact'
  BY Zenon, <1>2, <1>3 DEF OpenAccount, OpenAccountDB, CloseAccount
<1>4. CASE OpenAccountCommit \/ Change \/ Eraser
  <2>1. UNCHANGED <<eraseRefs, removals, fetched>>
    BY ZenonT(60), <1>4
    DEF OpenAccountCommit, Change, Deliver, MessageRemove, MoveMessage, ChangeOther, Eraser,
        SendErase, EraseCommit, EraseFail, EraseFiles, EraserClose
  <2> QED BY Zenon, <1>2, <2>1
<1>5. CASE Broadcast
  BY Zenon, <1>5, BroadcastCovers DEF RefsExact
<1>6. ASSUME NEW c \in Sessions, Unregister(c) PROVE RefsExact'
  <2>1. fetched[c] = {}
    BY Zenon, <1>6 DEF Unregister, EndingWeb
  <2>2. /\ DecreaseEraseRefs(Drained(c))
        /\ removals' = [removals EXCEPT ![c] = {}] /\ fetched' = [fetched EXCEPT ![c] = {}]
    BY Zenon, <1>6 DEF Unregister
  <2>3. /\ removals'[c] = {} /\ fetched'[c] = {}
        /\ \A d \in Sessions : d # c => removals'[d] = removals[d] /\ fetched'[d] = fetched[d]
    BY Zenon, <2>2 DEF TypeOK
  <2>4. Drained(c) \in SUBSET Msgs
    BY Zenon DEF Drained, TypeOK
  <2>5. \A m \in Msgs : Holds(c, m) <=> m \in Drained(c)
    BY Zenon, <2>1 DEF Holds, Drained
  <2>6. \A m \in Msgs : ~Holds(c, m)'
    BY Zenon, <2>3 DEF Holds
  <2>7. \A m \in Msgs, d \in Sessions : d # c => (Holds(d, m)' <=> Holds(d, m))
    BY Zenon, <2>3 DEF Holds
  <2>8. \A m \in Msgs : Holders(m)' = Holders(m) \ {c} /\ (c \in Holders(m) <=> m \in Drained(c))
    BY Zenon, <2>5, <2>6, <2>7 DEF Holders
  <2>9. /\ \A m \in Drained(c) : c \in Holders(m) /\ Holders(m)' = Holders(m) \ {c}
        /\ \A m \in Msgs \ Drained(c) : Holders(m)' = Holders(m)
    <3> HIDE DEF Drained
    <3> QED BY Zenon, <2>4, <2>8
  <2> QED BY Zenon, <2>2, <2>4, <2>9, DecreaseExact
<1>7. ASSUME NEW c \in Sessions, NEW ids \in fetched[c], RemovalSeen(c, ids) PROVE RefsExact'
  <2>1. /\ DecreaseEraseRefs(ids) /\ UNCHANGED removals
        /\ fetched' = [fetched EXCEPT ![c] = @ \ {ids}]
    BY Zenon, <1>7 DEF RemovalSeen
  <2>2. /\ fetched'[c] = fetched[c] \ {ids}
        /\ \A d \in Sessions : d # c => fetched'[d] = fetched[d]
    BY Zenon, <2>1 DEF TypeOK
  <2>3. ids \in SUBSET Msgs
    BY Zenon DEF TypeOK
  <2>4. \A i \in removals[c] \cup fetched[c] : i = ids \/ i \cap ids = {}
    BY Zenon DEF RefInv, HeldOnce
  <2>5. ids \notin removals[c]
    BY Zenon DEF RefInv, HeldOnce
  <2>6. removals'[c] \cup fetched'[c] = (removals[c] \cup fetched[c]) \ {ids}
    BY Zenon, <2>1, <2>2, <2>5
  <2>7. \A m \in ids : Holds(c, m) /\ ~Holds(c, m)'
    BY Zenon, <2>4, <2>6 DEF Holds
  <2>8. \A m \in Msgs \ ids : Holds(c, m)' <=> Holds(c, m)
    BY Zenon, <2>6 DEF Holds
  <2>9. \A m \in Msgs, d \in Sessions : d # c => (Holds(d, m)' <=> Holds(d, m))
    BY Zenon, <2>1, <2>2 DEF Holds
  <2>10. \A m \in ids : c \in Holders(m) /\ Holders(m)' = Holders(m) \ {c}
    BY Zenon, <2>3, <2>7, <2>9 DEF Holders
  <2>11. \A m \in Msgs \ ids : Holders(m)' = Holders(m)
    BY Zenon, <2>8, <2>9 DEF Holders
  <2> QED BY Zenon, <2>1, <2>3, <2>10, <2>11, DecreaseExact
<1>8. ASSUME NEW c \in Sessions, Get(c) \/ GetFlush(c) PROVE RefsExact'
  <2>1. /\ UNCHANGED eraseRefs /\ removals' = [removals EXCEPT ![c] = {}]
        /\ fetched' = [fetched EXCEPT ![c] = @ \cup removals[c]]
    BY Zenon, <1>8 DEF Get, GetFlush, TakeChanges
  <2>2. \A d \in Sessions : removals'[d] \cup fetched'[d] = removals[d] \cup fetched[d]
    BY Zenon, <2>1 DEF TypeOK
  <2> QED BY Zenon, <1>1, <2>1, <2>2
<1>9. ASSUME NEW c \in Sessions, GetWebOverflow(c) \/ WebAbort(c) PROVE FALSE
  BY Zenon, <1>9 DEF GetWebOverflow, WebAbort
<1>10. ASSUME NEW c \in Sessions,
              \/ Register(c) \/ Wake(c) \/ NotifyNone(c) \/ NotifySet(c)
              \/ \E ms \in SUBSET Msgs : Select(c, ms)
       PROVE RefsExact'
  BY Zenon, <1>2, <1>10 DEF Register, Wake, NotifyNone, NotifySet, Select
<1>11. CASE Crash
  <2>1. \A m \in Msgs : eraseRefs'[m] = 0 /\ Holders(m)' = {}
    BY Zenon, <1>11 DEF Crash, Holders, Holds
  <2> QED BY Zenon, <2>1, FS_EmptySet DEF RefsExact
<1>12. CASE UNCHANGED vars
  BY Zenon, <1>2, <1>12 DEF vars
<1> QED BY Zenon, <1>3, <1>4, <1>5, <1>6, <1>7, <1>8, <1>9, <1>10, <1>11, <1>12 DEF Next, Session
-----------------------------------------------------------------------------
(* The theorems. *)

\* All of the inductive invariant besides TypeOK, OpenerInv and RefInv.
SwitchboardInv ==
  /\ AccountInv /\ RecordsInv /\ DiskUsageExact /\ RecordHasFile
  /\ ErasableInv /\ ErasePending /\ WakeInv /\ ViewInv

\* Nothing is open and no message exists at first.
LEMMA InitialState ==
  ASSUME Init
  PROVE  SwitchboardInv
<1>1. AccountInv
  <2>1. {a \in Actors : sess[a] # "closed"} = {}
    BY Zenon DEF Init
  <2>2. Cardinality({a \in Actors : sess[a] # "closed"}) = 0
    BY Zenon, <2>1, FS_EmptySet
  <2>3. ~Referenced(eraseRefs) /\ eraseIDs = {} /\ eraser = "idle" /\ nused = 0
    BY DEF Init, Referenced
  <2>4. AccountRefs
    BY <2>2, <2>3 DEF AccountRefs, One
  <2> QED BY Zenon, <2>4 DEF AccountInv, OpenInv, Init
<1>2. RecordsInv /\ RecordHasFile
  BY Zenon DEF RecordsInv, RecordHasFile, Live, Init
<1>3. DiskUsageExact
  <2>1. {m \in Msgs : msg[m] = "live" \/ (msg[m] = "expunged" /\ m \notin skip)} = {} /\ du = 0
    BY Zenon DEF Init
  <2> QED BY Zenon, <2>1, FS_EmptySet DEF DiskUsageExact
<1>4. ErasableInv /\ ErasePending
  BY Zenon DEF ErasableInv, Erasable, ErasePending, Init
<1>5. WakeInv
  BY Zenon DEF WakeInv, NoLostWakeup, Init
<1>6. ViewInv
  BY Zenon DEF ViewInv, Init
<1> QED BY Zenon, <1>1, <1>2, <1>3, <1>4, <1>5, <1>6 DEF SwitchboardInv

\* The invariants of the account, the records, the eraser, the comms and the views are
\* kept together.
LEMMA SwitchboardInvariance == Spec => [](TypeOK /\ OpenerInv /\ RefInv /\ SwitchboardInv)
<1>1. Init => SwitchboardInv
  BY Zenon, InitialState
<1>2. TypeOK /\ TypeOK' /\ OpenerInv /\ RefInv /\ SwitchboardInv /\ [Next]_vars => SwitchboardInv'
  <2> SUFFICES ASSUME TypeOK, TypeOK', OpenerInv, RefInv, SwitchboardInv, [Next]_vars
               PROVE  SwitchboardInv'
    OBVIOUS
  <2> USE DEF SwitchboardInv
  <2>1. AccountInv' /\ RecordsInv'
    BY Zenon, AccountStep, RecordsStep
  <2>2. DiskUsageExact' /\ RecordHasFile'
    BY Zenon, DiskUsageStep, FilesStep
  <2>3. ErasableInv' /\ ErasePending'
    BY Zenon, ErasableStep, PendingStep
  <2>4. WakeInv' /\ ViewInv'
    BY Zenon, WakeStep, ViewStep
  <2> QED BY Zenon, <2>1, <2>2, <2>3, <2>4
<1> QED BY <1>1, <1>2, Typing, RefInvariance, PTL DEF Spec

\* An account's reference count is exact, so that it is not closed under a user, and it is
\* closed when the last one is done; its disk usage is that of its messages, which have
\* their files (OpenAccount, closeAccount, MessageAdd, EraseMessages).
THEOREM AccountExact == Spec => []AccountSound
<1>1. SwitchboardInv => AccountSound
  BY Zenon DEF SwitchboardInv, AccountInv, AccountSound
<1> QED BY <1>1, SwitchboardInvariance, PTL

\* No session sleeps on pending changes or an overflow: Comm.Broadcast and the
\* switchboard leave a token in its Pending channel, which only its own receive takes.
THEOREM WakeupsKept == Spec => []NoLostWakeup
<1>1. SwitchboardInv => NoLostWakeup
  BY Zenon DEF SwitchboardInv, WakeInv
<1> QED BY <1>1, SwitchboardInvariance, PTL

\* An IMAP session that was told all changes can read each message it has selected, also
\* one that others expunged and it does not know of yet.
THEOREM SelectedReadable == Spec => []ViewReadable
<1>1. TypeOK /\ RefInv /\ SwitchboardInv => ViewReadable
  <2> SUFFICES ASSUME TypeOK, RefInv, SwitchboardInv,
                      NEW c \in Sessions, NEW m \in view[c], ~stale[c], ~overflow[c]
               PROVE  m \in file /\ msg[m] \in {"live", "expunged"}
    BY Zenon DEF ViewReadable
  <2>1. c \in regs /\ Current(c, m)
    BY Zenon DEF SwitchboardInv, ViewInv
  <2>2. sess[c] # "closed" /\ m \in Msgs
    BY Zenon, <2>1 DEF RefInv, RegsInv, TypeOK
  <2>3. nused > 0
    BY <2>2, Asleep, UsedNat DEF SwitchboardInv, Actors
  <2> QED BY Zenon, <2>1, <2>2, <2>3 DEF Current, SwitchboardInv, RecordHasFile, Live
<1> QED BY <1>1, SwitchboardInvariance, PTL

\* When closeAccount drops the last reference, no message is left waiting to be erased,
\* unless an erase failed: "Verify there are no more pending MessageErase records."
THEOREM ClosesClean == Spec => CloseClean
<1>1. /\ TypeOK /\ TypeOK' /\ SwitchboardInv /\ SwitchboardInv' /\ [Next]_vars
      => [nused > 0 /\ nused' = 0 /\ crashes' = crashes /\ ~eraseFailed => erec = {}]_vars
  BY Zenon, CloseStep DEF SwitchboardInv
<1> QED BY <1>1, SwitchboardInvariance, PTL DEF Spec, CloseClean

\* The switchboard and the eraser implement MessageErasure: EraseMessages erases only
\* what no session refers to anymore, whatever the order of broadcasts, removals seen,
\* unregistered sessions, crashes and accounts opened again.
THEOREM ErasureImplemented == Spec => ErasesUnreferenced
<1>1. Init => Erasure!Init
  <2> SUFFICES ASSUME Init PROVE Erasure!Init
    OBVIOUS
  <2>1. \A m \in Msgs : References(m) = {}
    BY Zenon DEF Init, References, Holders, Holds
  <2>2. msg = [m \in Msgs |-> "absent"]
    BY Zenon DEF Init
  <2> QED BY Zenon, <2>1, <2>2 DEF Erasure!Init
<1>2. TypeOK /\ RefInv /\ SwitchboardInv /\ [Next]_vars
      => [Erasure!Next]_<<msg, [m \in Msgs |-> References(m)]>>
  BY Zenon, ErasureStep DEF SwitchboardInv, Refs
<1> QED BY <1>1, <1>2, SwitchboardInvariance, PTL DEF Spec, ErasesUnreferenced, Erasure!Spec

\* While only IMAP connections are registered, eraseRefs is exactly the number of them
\* that still hold a removal of the message: decreaseEraseRefs reaches 0 at the last
\* acknowledgement, and the message is erased then. An event stream of the webmail that
\* overflows or is aborted leaves references behind.
THEOREM ReferencesExact ==
  ASSUME WebSessions = {}
  PROVE  Spec => []RefsExact
<1>1. Init => RefsExact /\ EndingWeb
  <2> SUFFICES ASSUME Init PROVE RefsExact /\ EndingWeb
    OBVIOUS
  <2>1. \A m \in Msgs : eraseRefs[m] = 0 /\ Holders(m) = {}
    BY Zenon DEF Init, Holders, Holds
  <2>2. RefsExact
    BY Zenon, <2>1, FS_EmptySet DEF RefsExact
  <2>3. EndingWeb
    BY Zenon DEF Init, EndingWeb, Actors
  <2> QED BY Zenon, <2>2, <2>3
<1>2. TypeOK /\ RefInv /\ EndingWeb /\ RefsExact /\ [Next]_vars => EndingWeb' /\ RefsExact'
  BY Zenon, EndingStep, ExactStep
<1> QED BY <1>1, <1>2, Typing, RefInvariance, PTL DEF Spec
=============================================================================
