-------------------------- MODULE SwitchboardProofs --------------------------
(***************************************************************************)
(* Proofs about Switchboard, for any sets of sessions, workers and         *)
(* messages and any capacity of the comms.                                 *)
(***************************************************************************)
EXTENDS Switchboard, FiniteSetTheorems, TLAPS

-----------------------------------------------------------------------------
(* Type correctness. *)

\* Every variable of the switchboard, its comms, sessions and eraser keeps its type.
THEOREM Typing == Spec => []TypeOK
<1>1. Init => TypeOK
  <2>1. Init => panicked \in BOOLEAN /\ eraseFailed \in BOOLEAN
    BY Zenon DEF Init
  <2> QED BY <2>1, ConstantsAssumption DEF Init, TypeOK, Actors, NoActor
<1>2. TypeOK /\ [Next]_vars => TypeOK'
  <2> SUFFICES ASSUME TypeOK, [Next]_vars PROVE TypeOK'
    OBVIOUS
  <2> USE ConstantsAssumption DEF TypeOK, disk, account, board, comms, sessions, erasing
  <2>1. ASSUME NEW a \in Actors, OpenAccount(a) PROVE TypeOK'
    BY <2>1 DEF OpenAccount
  <2>2. ASSUME NEW a \in Actors, OpenAccountDB(a) PROVE TypeOK'
    BY Zenon, <2>2 DEF OpenAccountDB
  <2>3. ASSUME NEW a \in Actors, CloseAccount(a) PROVE TypeOK'
    BY <2>3 DEF CloseAccount
  <2>4. CASE OpenAccountCommit
    <3>1. IsFiniteSet(erec \ skip)
      BY ZenonT(60), FS_Subset, erec \ skip \in SUBSET Msgs
    <3>2. Cardinality(erec \ skip) \in Nat
      BY Zenon, <3>1, FS_CardinalityType
    <3>3. eraseFailed' \in BOOLEAN
      BY Zenon, <2>4 DEF OpenAccountCommit
    <3> QED BY <2>4, <3>2, <3>3 DEF OpenAccountCommit, EraseRecords
  <2>5. ASSUME NEW a \in Broadcasters, NEW m \in Msgs, Deliver(a, m) PROVE TypeOK'
    BY <2>5 DEF Deliver, Requests, Broadcasters
  <2>6. ASSUME NEW a \in Broadcasters, NEW ids \in SUBSET Msgs, MessageRemove(a, ids) PROVE TypeOK'
    BY <2>6 DEF MessageRemove, Requests, Broadcasters
  <2>7. ASSUME NEW a \in Broadcasters, NEW m \in Msgs, NEW old \in Msgs, MoveMessage(a, m, old) PROVE TypeOK'
    BY <2>7 DEF MoveMessage, Requests, Broadcasters, LinkOrCopy
  <2>8. ASSUME NEW a \in Broadcasters, NEW n \in OtherSizes, ChangeOther(a, n) PROVE TypeOK'
    BY Zenon, <2>8 DEF ChangeOther, Requests, Broadcasters
  <2>9. CASE Broadcast
    <3> DEFINE others == regs \ {req.by}
               full == {c \in others : ~HasRoom(c)}
               left == RefsFor(req.by) - Cardinality(full)
    <3>1. req \in Requests
      BY Zenon, <2>9 DEF Broadcast
    <3>2. RefsFor(req.by) \in Int /\ Cardinality(full) \in Nat
      <4>1. IsFiniteSet(regs) /\ IsFiniteSet(full)
        BY Zenon, FS_Subset, regs \in SUBSET Sessions, full \in SUBSET Sessions
      <4> QED BY <4>1, FS_CardinalityType DEF RefsFor, One
    <3>3. left \in Int
      BY <3>2
    <3>4. eraseRefs' = [m \in Msgs |-> IF m \in req.rem /\ left > 0 THEN left ELSE eraseRefs[m]]
      BY Zenon, <2>9 DEF Broadcast
    <3>5. eraseRefs' \in [Msgs -> Nat]
      BY <3>3, <3>4
    <3>6. eraseIDs' \subseteq Msgs
      BY Zenon, <2>9, <3>1 DEF Broadcast, Requests
    <3>7. nused' \in Int
      BY <2>9 DEF Broadcast, CountAccount, One
    <3>8. npending' \in [Sessions -> 0..CommPendingChangesMax]
      <4>1. npending' = [c \in Sessions |-> npending[c] + (IF c \in others \ full THEN req.n ELSE 0)]
        BY Zenon, <2>9 DEF Broadcast
      <4>2. ASSUME NEW c \in Sessions
            PROVE npending[c] + (IF c \in others \ full THEN req.n ELSE 0) \in 0..CommPendingChangesMax
        BY <3>1 DEF HasRoom, Requests
      <4> HIDE DEF others, full
      <4> QED BY Zenon, <4>1, <4>2
    <3>9. removals' \in [Sessions -> SUBSET SUBSET Msgs]
      BY <2>9, <3>1 DEF Broadcast, Requests
    <3>10. overflow' \in [Sessions -> BOOLEAN] /\ wake' \in [Sessions -> BOOLEAN]
      BY Zenon, <2>9 DEF Broadcast
    <3>11. view' \in [Sessions -> SUBSET Msgs]
      BY Zenon, <2>9 DEF Broadcast
    <3>12. panicked' \in BOOLEAN /\ req' = NoReq
      BY Zenon, <2>9 DEF Broadcast
    <3>13. UNCHANGED <<disk, opener, regs, sess, fetched, notify, stale, flushing, erasing, crashes>>
      BY Zenon, <2>9 DEF Broadcast
    <3> HIDE DEF others, full, left
    <3> QED BY Zenon, <3>5, <3>6, <3>7, <3>8, <3>9, <3>10, <3>11, <3>12, <3>13
  <2>10. ASSUME NEW ids \in SUBSET Msgs, DecreaseEraseRefs(ids)
         PROVE /\ panicked' \in BOOLEAN
               /\ eraseRefs' \in [Msgs -> Nat]
               /\ eraseIDs' \subseteq Msgs
               /\ nused' \in Int
    <3>1. panicked' \in BOOLEAN
      BY Zenon, <2>10 DEF DecreaseEraseRefs
    <3>2. eraseRefs' \in [Msgs -> Nat] /\ eraseIDs' \subseteq Msgs /\ nused' \in Int
      BY <2>10 DEF DecreaseEraseRefs, CountAccount, One
    <3> QED BY Zenon, <3>1, <3>2
  <2>11. ASSUME NEW c \in Sessions, Register(c) PROVE TypeOK'
    BY Zenon, <2>11 DEF Register
  <2>12. ASSUME NEW c \in Sessions, Unregister(c) PROVE TypeOK'
    <3>1. Drained(c) \in SUBSET Msgs
      BY Zenon DEF Drained
    <3>2. DecreaseEraseRefs(Drained(c))
      BY Zenon, <2>12 DEF Unregister
    <3>3. /\ panicked' \in BOOLEAN
          /\ eraseRefs' \in [Msgs -> Nat]
          /\ eraseIDs' \subseteq Msgs
          /\ nused' \in Int
      BY Zenon, <2>10, <3>1, <3>2
    <3>4. /\ regs' \subseteq Sessions
          /\ sess' \in [Actors -> {"closed", "open", "registered", "woken", "ending"}]
          /\ removals' \in [Sessions -> SUBSET SUBSET Msgs]
          /\ fetched' \in [Sessions -> SUBSET SUBSET Msgs]
          /\ view' \in [Sessions -> SUBSET Msgs]
          /\ flushing' \in [Sessions -> SUBSET SUBSET Msgs]
      BY Zenon, <2>12 DEF Unregister
    <3>5. /\ npending' \in [Sessions -> 0..CommPendingChangesMax]
          /\ overflow' \in [Sessions -> BOOLEAN]
          /\ wake' \in [Sessions -> BOOLEAN]
      BY <2>12 DEF Unregister
    <3>6. UNCHANGED <<disk, opener, req, notify, stale, erasing, crashes>>
      BY Zenon, <2>12 DEF Unregister
    <3> QED BY Zenon, <3>3, <3>4, <3>5, <3>6
  <2>13. ASSUME NEW c \in Sessions, NEW ids \in fetched[c], RemovalSeen(c, ids) PROVE TypeOK'
    <3>1. ids \in SUBSET Msgs /\ DecreaseEraseRefs(ids)
      BY Zenon, <2>13 DEF RemovalSeen
    <3> QED BY Zenon, <2>10, <2>13, <3>1 DEF RemovalSeen
  <2>14. ASSUME NEW c \in Sessions, Wake(c) PROVE TypeOK'
    BY ZenonT(60), <2>14 DEF Wake
  <2>15. ASSUME NEW c \in Sessions, Get(c) \/ GetFlush(c) PROVE TypeOK'
    <3>1. CASE Get(c)
      BY SMTT(60), <3>1 DEF Get, TakeChanges, Actors
    <3>2. CASE GetFlush(c)
      BY SMTT(60), <3>2 DEF GetFlush, TakeChanges
    <3> QED BY Zenon, <2>15, <3>1, <3>2
  <2>16. ASSUME NEW c \in Sessions, GetWebOverflow(c) PROVE TypeOK'
    BY <2>16 DEF GetWebOverflow, TakeChanges, Actors
  <2>17. ASSUME NEW c \in Sessions, WebAbort(c) PROVE TypeOK'
    BY Zenon, <2>17 DEF WebAbort, Actors
  <2>18. ASSUME NEW c \in Sessions, NEW ms \in SUBSET Msgs, Select(c, ms) PROVE TypeOK'
    BY Zenon, <2>18 DEF Select
  <2>19. ASSUME NEW c \in Sessions, NotifyNone(c) PROVE TypeOK'
    BY Zenon, <2>19 DEF NotifyNone
  <2>20. ASSUME NEW c \in Sessions, NotifySet(c) PROVE TypeOK'
    BY Zenon, <2>20 DEF NotifySet
  <2>21. CASE SendErase
    BY Zenon, <2>21 DEF SendErase
  <2>22. CASE EraseCommit
    <3>1. IsFiniteSet(batch \ skip)
      BY Zenon, FS_Subset, batch \ skip \in SUBSET Msgs
    <3>2. Cardinality(batch \ skip) \in Nat
      BY Zenon, <3>1, FS_CardinalityType
    <3> QED BY <2>22, <3>2 DEF EraseCommit, EraseRecords
  <2>23. CASE EraseFail
    BY Zenon, <2>23 DEF EraseFail
  <2>24. CASE EraseFiles
    BY Zenon, <2>24 DEF EraseFiles
  <2>25. CASE EraserClose
    BY <2>25 DEF EraserClose
  <2>26. CASE Crash
    <3>1. eraseFailed' \in BOOLEAN
      BY Zenon, <2>26 DEF Crash
    <3> QED BY <2>26, <3>1 DEF Crash, NoActor
  <2>27. CASE UNCHANGED vars
    BY Zenon, <2>27 DEF vars
  <2> QED
    BY ZenonT(60), <2>1, <2>2, <2>3, <2>4, <2>5, <2>6, <2>7, <2>8, <2>9, <2>11, <2>12, <2>13, <2>14, <2>15,
       <2>16, <2>17, <2>18, <2>19, <2>20, <2>21, <2>22, <2>23, <2>24, <2>25, <2>26, <2>27
    DEF Next, Change, Session, Eraser
<1> QED BY <1>1, <1>2, PTL DEF Spec

-----------------------------------------------------------------------------
(* Reference counting. *)

\* Sets of sessions are finite, and a subset is not larger.
LEMMA SessionSets ==
  ASSUME NEW A \in SUBSET Sessions, NEW B \in SUBSET A
  PROVE  /\ IsFiniteSet(A) /\ Cardinality(A) \in Nat
         /\ IsFiniteSet(B) /\ Cardinality(B) \in Nat
         /\ Cardinality(B) <= Cardinality(A)
<1>1. IsFiniteSet(A)
  BY Zenon, ConstantsAssumption, FS_Subset
<1>2. IsFiniteSet(B) /\ Cardinality(B) <= Cardinality(A)
  BY Zenon, <1>1, FS_Subset
<1> QED BY Zenon, <1>1, <1>2, FS_CardinalityType

\* decreaseEraseRefs for messages of which one session lets go: no count becomes
\* negative, and each still covers the sessions that are left.
LEMMA DecreaseCovers ==
  ASSUME TypeOK, RefsCoverHolders, NoPanic,
         NEW c \in Sessions, NEW ids \in SUBSET Msgs,
         DecreaseEraseRefs(ids),
         \A m \in ids : Holds(c, m) /\ ~Holds(c, m)',
         \A d \in Sessions, m \in Msgs : Holds(d, m)' => Holds(d, m)
  PROVE  /\ RefsCoverHolders' /\ NoPanic'
         /\ \A m \in Msgs : Untracked(m) => Untracked(m)'
<1>1. \A m \in Msgs : /\ Holders(m) \in SUBSET Sessions
                      /\ Holders(m)' \in SUBSET Holders(m)
  BY Zenon DEF Holders
<1>2. \A m \in ids : /\ Holders(m)' \in SUBSET (Holders(m) \ {c})
                     /\ c \in Holders(m)
  BY Zenon DEF Holders
<1>3. \A m \in ids : eraseRefs[m] >= 1 /\ Cardinality(Holders(m)') <= eraseRefs[m] - 1
  <2> SUFFICES ASSUME NEW m \in ids
               PROVE eraseRefs[m] >= 1 /\ Cardinality(Holders(m)') <= eraseRefs[m] - 1
    OBVIOUS
  <2> DEFINE A == Holders(m)
             B == Holders(m)'
  <2>1. IsFiniteSet(A) /\ Cardinality(A) \in Nat
    BY Zenon, <1>1, SessionSets
  <2>2. Cardinality(A \ {c}) = Cardinality(A) - 1
    <3>1. c \in A
      BY Zenon, <1>2
    <3> HIDE DEF A
    <3> QED BY Zenon, <2>1, <3>1, FS_RemoveElement
  <2>3. Cardinality(B) <= Cardinality(A \ {c}) /\ Cardinality(A \ {c}) \in Nat /\ Cardinality(B) \in Nat
    BY Zenon, <1>1, <1>2, SessionSets, A \ {c} \in SUBSET Sessions
  <2>4. eraseRefs[m] >= Cardinality(A) /\ eraseRefs[m] \in Nat
    BY Zenon DEF RefsCoverHolders, TypeOK
  <2> HIDE DEF A, B
  <2>5. eraseRefs[m] >= 1 /\ Cardinality(B) <= eraseRefs[m] - 1
    BY <2>1, <2>2, <2>3, <2>4
  <2> QED BY Zenon, <2>5 DEF B
<1>4. \A m \in Msgs : Cardinality(Holders(m)') <= eraseRefs[m] /\ Cardinality(Holders(m)') \in Nat
  <2> SUFFICES ASSUME NEW m \in Msgs
               PROVE Cardinality(Holders(m)') <= eraseRefs[m] /\ Cardinality(Holders(m)') \in Nat
    OBVIOUS
  <2>1. /\ Cardinality(Holders(m)') <= Cardinality(Holders(m))
        /\ Cardinality(Holders(m)) \in Nat
        /\ Cardinality(Holders(m)') \in Nat
    BY Zenon, <1>1, SessionSets
  <2>2. eraseRefs[m] >= Cardinality(Holders(m)) /\ eraseRefs[m] \in Nat
    BY Zenon DEF RefsCoverHolders, TypeOK
  <2> QED BY <2>1, <2>2
<1>5. eraseRefs' = [m \in Msgs |-> IF m \in ids /\ eraseRefs[m] > 0 THEN eraseRefs[m] - 1 ELSE eraseRefs[m]]
  BY Zenon DEF DecreaseEraseRefs
<1>6. RefsCoverHolders'
  <2> SUFFICES ASSUME NEW m \in Msgs PROVE eraseRefs'[m] >= Cardinality(Holders(m)')
    BY Zenon DEF RefsCoverHolders
  <2>1. eraseRefs[m] \in Nat
    BY Zenon DEF TypeOK
  <2>2. eraseRefs'[m] = IF m \in ids /\ eraseRefs[m] > 0 THEN eraseRefs[m] - 1 ELSE eraseRefs[m]
    BY Zenon, <1>5
  <2> QED BY Zenon, <1>3, <1>4, <2>1, <2>2
<1>7. NoPanic'
  <2>1. ~ \E m \in ids : eraseRefs[m] = 0
    BY <1>3 DEF TypeOK
  <2> QED BY Zenon, <2>1 DEF NoPanic, DecreaseEraseRefs
<1>8. \A m \in Msgs : Untracked(m) => Untracked(m)'
  BY Zenon, <1>5 DEF Untracked, TypeOK
<1> QED BY Zenon, <1>6, <1>7, <1>8

\* The removals a session holds and the counts are left alone.
TrackingUnchanged == UNCHANGED <<eraseRefs, removals, fetched, panicked>>

LEMMA Tracking ==
  ASSUME RefInv, TrackingUnchanged
  PROVE  /\ HeldOnce' /\ RefsCoverHolders' /\ NoPanic'
         /\ \A m \in Msgs : Untracked(m) => Untracked(m)'
<1>1. HeldOnce'
  BY Zenon DEF RefInv, TrackingUnchanged, HeldOnce
<1>2. RefsCoverHolders' /\ NoPanic'
  BY Zenon DEF RefInv, TrackingUnchanged, RefsCoverHolders, Holders, Holds, NoPanic
<1>3. \A m \in Msgs : Untracked(m) => Untracked(m)'
  BY Zenon DEF TrackingUnchanged, Untracked, Holds
<1> QED BY Zenon, <1>1, <1>2, <1>3

\* Counting of the references to the messages of a broadcast: exactly those sessions are
\* counted that get the removal.
LEMMA BroadcastCovers ==
  ASSUME TypeOK, RefInv, Broadcast
  PROVE  /\ RefInv'
         /\ \A m \in Msgs : IF m \in req.rem
                           THEN eraseRefs'[m] = Cardinality(Holders(m)')
                           ELSE eraseRefs'[m] = eraseRefs[m] /\ Holders(m)' = Holders(m)
<1> DEFINE others == regs \ {req.by}
           full == {c \in others : ~HasRoom(c)}
           left == RefsFor(req.by) - Cardinality(full)
<1>1. req \in Requests /\ req' = NoReq
  BY Zenon DEF TypeOK, Broadcast
<1>2. /\ others \in SUBSET Sessions /\ full \in SUBSET others
      /\ others \ full \in SUBSET others
  BY Zenon DEF TypeOK
<1>3. /\ IsFiniteSet(others) /\ Cardinality(others) \in Nat
      /\ IsFiniteSet(full) /\ Cardinality(full) \in Nat
      /\ IsFiniteSet(others \ full) /\ Cardinality(others \ full) \in Nat
      /\ Cardinality(full) <= Cardinality(others)
  BY Zenon, <1>2, SessionSets
<1>4. RefsFor(req.by) = Cardinality(others)
  <2>1. IsFiniteSet(regs) /\ Cardinality(regs) \in Nat
    BY Zenon, SessionSets, regs \in SUBSET Sessions, {} \in SUBSET regs DEF TypeOK
  <2>2. CASE req.by \in Sessions
    <3>1. req.by \in regs
      BY Zenon, <1>1, <2>2, NoReqAssumption DEF RefInv, RegsInv, ReqInv
    <3>2. Cardinality(others) = Cardinality(regs) - 1
      BY Zenon, <2>1, <3>1, FS_RemoveElement
    <3> QED BY Zenon, <2>2, <3>2 DEF RefsFor, One
  <2>3. CASE req.by \notin Sessions
    <3>1. others = regs
      BY Zenon, <2>3 DEF TypeOK
    <3>2. RefsFor(req.by) = Cardinality(regs)
      BY <2>1, <2>3 DEF RefsFor, One
    <3> QED BY Zenon, <3>1, <3>2
  <2> QED BY Zenon, <2>2, <2>3
<1>5. left = Cardinality(others \ full) /\ left \in Nat
  <2>1. Cardinality(others \ full) = Cardinality(others) - Cardinality(others \cap full)
    BY Zenon, <1>3, FS_Difference
  <2>2. others \cap full = full
    BY Zenon, <1>2
  <2> QED BY Zenon, <1>3, <1>4, <2>1, <2>2
<1>6. eraseRefs' = [m \in Msgs |-> IF m \in req.rem /\ left > 0 THEN left ELSE eraseRefs[m]]
  BY Zenon DEF Broadcast
<1>7. /\ removals' = [c \in Sessions |-> removals[c] \cup
                         (IF c \in others \ full /\ req.rem # {} THEN {req.rem} ELSE {})]
      /\ UNCHANGED <<msg, regs, sess, fetched>>
  BY Zenon DEF Broadcast, disk
<1>8. \A m \in req.rem : Untracked(m) /\ msg[m] \notin {"absent", "live"}
  BY Zenon, <1>1, NoReqAssumption DEF RefInv, ReqInv
<1>9. req.rem \subseteq Msgs
  BY Zenon, <1>1 DEF Requests
<1> HIDE DEF full, left
<1>10. \A m \in Msgs : Holders(m)' = IF m \in req.rem THEN others \ full ELSE Holders(m)
  <2> SUFFICES ASSUME NEW m \in Msgs, NEW c \in Sessions
               PROVE  Holds(c, m)' <=> IF m \in req.rem THEN c \in others \ full ELSE Holds(c, m)
    BY Zenon, <1>2 DEF Holders
  <2>1. removals'[c] \cup fetched'[c] =
           removals[c] \cup fetched[c] \cup (IF c \in others \ full /\ req.rem # {} THEN {req.rem} ELSE {})
    BY Zenon, <1>7
  <2>2. m \in req.rem => ~Holds(c, m)
    BY Zenon, <1>8 DEF Untracked
  <2> HIDE DEF others
  <2> QED BY Zenon, <2>1, <2>2 DEF Holds
<1>11. RegsInv'
  <2>1. \A c \in Sessions \ regs : c \notin others
    BY Zenon, <1>2
  <2> QED BY Zenon, <1>7, <2>1 DEF RefInv, RegsInv
<1>12. HeldOnce'
  <2> SUFFICES ASSUME NEW c \in Sessions
               PROVE  /\ removals'[c] \cap fetched'[c] = {}
                      /\ \A i, j \in removals'[c] \cup fetched'[c] : i \cap j # {} => i = j
    BY Zenon DEF HeldOnce
  <2>1. /\ removals[c] \cap fetched[c] = {}
        /\ \A i, j \in removals[c] \cup fetched[c] : i \cap j # {} => i = j
    BY Zenon DEF RefInv, HeldOnce
  <2>2. \A i \in removals[c] \cup fetched[c] : i \cap req.rem = {}
    BY Zenon, <1>8 DEF Untracked, Holds
  <2>3. fetched'[c] = fetched[c] /\ removals'[c] \in {removals[c], removals[c] \cup {req.rem}}
        /\ (req.rem = {} => removals'[c] = removals[c])
    BY Zenon, <1>7
  <2> QED BY <2>1, <2>2, <2>3
<1>13. FreshUntracked'
  <2> SUFFICES ASSUME NEW m \in Msgs, msg[m] \in {"absent", "live"} PROVE Untracked(m)'
    BY Zenon, <1>7 DEF FreshUntracked
  <2>1. m \notin req.rem /\ Untracked(m)
    BY Zenon, <1>8 DEF RefInv, FreshUntracked
  <2> QED BY Zenon, <1>6, <1>10, <2>1 DEF Untracked, Holders
<1>14. \A m \in Msgs : IF m \in req.rem
                     THEN eraseRefs'[m] = Cardinality(Holders(m)')
                     ELSE eraseRefs'[m] = eraseRefs[m] /\ Holders(m)' = Holders(m)
  <2> SUFFICES ASSUME NEW m \in Msgs
               PROVE  IF m \in req.rem
                      THEN eraseRefs'[m] = Cardinality(Holders(m)')
                      ELSE eraseRefs'[m] = eraseRefs[m] /\ Holders(m)' = Holders(m)
    OBVIOUS
  <2>1. CASE m \in req.rem
    <3>1. Cardinality(Holders(m)') = left
      BY Zenon, <1>5, <1>10, <2>1
    <3>2. eraseRefs[m] = 0
      BY Zenon, <1>8, <2>1 DEF Untracked
    <3> QED BY <1>5, <1>6, <2>1, <3>1, <3>2
  <2>2. CASE m \notin req.rem
    BY Zenon, <1>6, <1>10, <2>2
  <2> QED BY Zenon, <2>1, <2>2
<1>15. RefsCoverHolders'
  <2> SUFFICES ASSUME NEW m \in Msgs PROVE eraseRefs'[m] >= Cardinality(Holders(m)')
    BY Zenon DEF RefsCoverHolders
  <2>1. CASE m \in req.rem
    <3>1. Cardinality(Holders(m)') = left
      BY Zenon, <1>5, <1>10, <2>1
    <3> QED BY <1>5, <1>14, <2>1, <3>1
  <2>2. CASE m \notin req.rem
    BY Zenon, <1>14, <2>2 DEF RefInv, RefsCoverHolders
  <2> QED BY Zenon, <2>1, <2>2
<1>16. NoPanic'
  <2>1. ~ \E m \in req.rem : eraseRefs[m] > 0
    BY <1>8 DEF Untracked
  <2>2. RefsFor(req.by) <= 0 => full = {}
    <3>1. RefsFor(req.by) <= 0 => Cardinality(full) = 0
      BY <1>3, <1>4
    <3> QED BY Zenon, <1>3, <3>1, FS_EmptySet
  <2> QED BY Zenon, <2>1, <2>2 DEF full, Broadcast, NoPanic, RefInv
<1>17. ReqInv'
  BY Zenon, <1>1 DEF ReqInv
<1> QED BY Zenon, <1>11, <1>12, <1>13, <1>14, <1>15, <1>16, <1>17 DEF RefInv

Running == {"registered", "woken", "ending"}
Unexpunged == {"absent", "live"}

\* Steps that leave tracking, registrations and the broadcast in flight alone.
LEMMA OtherSteps ==
  ASSUME TypeOK, RefInv, TrackingUnchanged, UNCHANGED <<regs, req>>,
         \A c \in Sessions : sess'[c] \in Running <=> sess[c] \in Running,
         \A c \in Sessions : Waiting(c) => sess'[c] = sess[c],
         \A m \in Msgs : msg'[m] \in Unexpunged <=> msg[m] \in Unexpunged
  PROVE  RefInv'
<1>1. RegsInv'
  BY Zenon DEF RefInv, RegsInv, Running, TrackingUnchanged
<1>2. ReqInv'
  BY Zenon, Tracking DEF RefInv, ReqInv, Waiting, Unexpunged, TypeOK, Requests
<1>3. FreshUntracked'
  BY Zenon, Tracking DEF RefInv, FreshUntracked, Unexpunged
<1> QED BY Zenon, <1>1, <1>2, <1>3, Tracking DEF RefInv

\* Steps that change the database and start a broadcast.
LEMMA ChangeSteps ==
  ASSUME TypeOK, RefInv, TrackingUnchanged, UNCHANGED <<regs, sess>>,
         NEW a \in Actors, Ready(a), NEW ids \in SUBSET Msgs,
         req' # NoReq => req'.by = a /\ req'.rem = ids,
         \A m \in ids : msg[m] \in Unexpunged /\ msg'[m] \notin Unexpunged,
         \A m \in Msgs : msg'[m] \in Unexpunged => msg[m] \in Unexpunged
  PROVE  RefInv'
<1>1. RegsInv'
  BY Zenon DEF RefInv, RegsInv, TrackingUnchanged
<1>2. ReqInv'
  <2>1. a \in Sessions => sess'[a] = "registered"
    BY Zenon DEF Ready
  <2>2. \A m \in ids : Untracked(m)'
    BY Zenon, Tracking DEF RefInv, FreshUntracked, Unexpunged
  <2> QED BY Zenon, <2>1, <2>2 DEF ReqInv, Unexpunged
<1>3. FreshUntracked'
  BY Zenon, Tracking DEF RefInv, FreshUntracked, Unexpunged
<1> QED BY Zenon, <1>1, <1>2, <1>3, Tracking DEF RefInv

\* Steps by which sessions only let go of removals.
LEMMA HoldLess ==
  ASSUME RefInv, \A d \in Sessions : removals'[d] \subseteq removals[d] /\ fetched'[d] \subseteq fetched[d]
  PROVE  /\ HeldOnce'
         /\ \A d \in Sessions, m \in Msgs : Holds(d, m)' => Holds(d, m)
<1>1. HeldOnce'
  BY Zenon DEF RefInv, HeldOnce
<1>2. \A d \in Sessions, m \in Msgs : Holds(d, m)' => Holds(d, m)
  BY Zenon DEF Holds
<1> QED BY Zenon, <1>1, <1>2

\* The actor opening the account stays out until the account is open.
LEMMA OpenerStep ==
  ASSUME TypeOK, OpenerInv, [Next]_vars
  PROVE  OpenerInv'
<1> USE DEF disk, account, board, comms, sessions, erasing
<1>1. ASSUME UNCHANGED <<opener, sess>> PROVE OpenerInv'
  BY Zenon, <1>1 DEF OpenerInv, NoActor
<1>2. ASSUME UNCHANGED opener, NEW c \in Sessions, NEW v, sess[c] # "closed", sess' = [sess EXCEPT ![c] = v]
      PROVE  OpenerInv'
  BY Zenon, <1>2 DEF OpenerInv, NoActor, TypeOK, Actors
<1>3. ASSUME NEW a \in Actors, OpenAccount(a) PROVE OpenerInv'
  BY Zenon, <1>3 DEF OpenAccount, OpenerInv
<1>4. ASSUME NEW a \in Actors, OpenAccountDB(a) PROVE OpenerInv'
  BY Zenon, <1>4 DEF OpenAccountDB, OpenerInv
<1>5. ASSUME NEW a \in Actors, CloseAccount(a) PROVE OpenerInv'
  BY Zenon, <1>5 DEF CloseAccount, OpenerInv, TypeOK, NoActor
<1>6. CASE OpenAccountCommit
  BY Zenon, <1>6 DEF OpenAccountCommit, OpenerInv
<1>7. CASE Change
  <2>1. UNCHANGED <<opener, sess>>
    BY Zenon, <1>7 DEF Change, Deliver, MessageRemove, MoveMessage, ChangeOther
  <2> QED BY Zenon, <1>1, <2>1
<1>8. CASE Broadcast
  BY Zenon, <1>1, <1>8 DEF Broadcast
<1>9. ASSUME NEW c \in Sessions, Register(c) PROVE OpenerInv'
  BY Zenon, <1>2, <1>9 DEF Register
<1>10. ASSUME NEW c \in Sessions, Unregister(c) PROVE OpenerInv'
  <2>1. sess[c] # "closed"
    BY Zenon, <1>10 DEF Unregister, Ready
  <2> QED BY Zenon, <1>2, <1>10, <2>1 DEF Unregister
<1>11. ASSUME NEW c \in Sessions, Wake(c) PROVE OpenerInv'
  BY Zenon, <1>2, <1>11 DEF Wake, Ready
<1>12. ASSUME NEW c \in Sessions, Get(c) PROVE OpenerInv'
  <2>1. sess[c] # "closed"
    BY Zenon, <1>12 DEF Get, Ready
  <2> QED BY Zenon, <1>2, <1>12, <2>1 DEF Get
<1>13. ASSUME NEW c \in Sessions, GetWebOverflow(c) PROVE OpenerInv'
  BY Zenon, <1>2, <1>13 DEF GetWebOverflow
<1>14. ASSUME NEW c \in Sessions, WebAbort(c) PROVE OpenerInv'
  BY Zenon, <1>2, <1>14 DEF WebAbort, Ready
<1>15. ASSUME NEW c \in Sessions,
              \/ GetFlush(c)
              \/ \E ids \in fetched[c] : RemovalSeen(c, ids)
              \/ \E ms \in SUBSET Msgs : Select(c, ms)
              \/ NotifyNone(c)
              \/ NotifySet(c)
       PROVE OpenerInv'
  <2>1. UNCHANGED <<opener, sess>>
    BY Zenon, <1>15 DEF GetFlush, RemovalSeen, Select, NotifyNone, NotifySet
  <2> QED BY Zenon, <1>1, <2>1
<1>16. CASE Eraser
  <2>1. UNCHANGED <<opener, sess>>
    BY Zenon, <1>16 DEF Eraser, SendErase, EraseCommit, EraseFail, EraseFiles, EraserClose
  <2> QED BY Zenon, <1>1, <2>1
<1>17. CASE Crash
  BY Zenon, <1>17 DEF Crash, OpenerInv
<1>18. CASE UNCHANGED vars
  BY Zenon, <1>1, <1>18 DEF vars
<1> QED
  BY Zenon, <1>3, <1>4, <1>5, <1>6, <1>7, <1>8, <1>9, <1>10, <1>11, <1>12, <1>13, <1>14, <1>15, <1>16, <1>17, <1>18
  DEF Next, Session

\* Every step preserves the inductive invariant.
LEMMA RefInvStep ==
  ASSUME TypeOK, OpenerInv, RefInv, [Next]_vars
  PROVE  RefInv'
<1> USE ConstantsAssumption DEF disk, account, board, comms, sessions, erasing
<1>0. ASSUME NEW a \in Actors, NEW v \in {"closed", "open"},
             sess[a] \in {"closed", "open"}, sess' = [sess EXCEPT ![a] = v],
             TrackingUnchanged, UNCHANGED <<regs, req>>,
             \A m \in Msgs : msg'[m] \in Unexpunged <=> msg[m] \in Unexpunged
      PROVE  RefInv'
  <2>1. \A c \in Sessions : sess'[c] = IF c = a THEN v ELSE sess[c]
    BY Zenon, <1>0 DEF TypeOK, Actors
  <2>2. \A c \in Sessions : sess'[c] \in Running <=> sess[c] \in Running
    BY Zenon, <1>0, <2>1 DEF Running
  <2>3. \A c \in Sessions : Waiting(c) => sess'[c] = sess[c]
    BY Zenon, <1>0, <2>1 DEF RefInv, ReqInv, Waiting
  <2> QED BY Zenon, <1>0, <2>2, <2>3, OtherSteps
<1>1. ASSUME NEW a \in Actors, OpenAccount(a) PROVE RefInv'
  BY Zenon, <1>0, <1>1 DEF OpenAccount, TrackingUnchanged
<1>2. ASSUME NEW a \in Actors, OpenAccountDB(a) PROVE RefInv'
  BY Zenon, <1>2, OtherSteps DEF OpenAccountDB, TrackingUnchanged
<1>3. CASE OpenAccountCommit
  <2>1. /\ TrackingUnchanged /\ UNCHANGED <<regs, req>>
        /\ sess' = [sess EXCEPT ![opener] = "open"] /\ opener \in Actors
    BY Zenon, <1>3 DEF OpenAccountCommit, TrackingUnchanged, TypeOK
  <2>2. \A m \in Msgs : msg'[m] \in Unexpunged <=> msg[m] \in Unexpunged
    BY Zenon, <1>3 DEF OpenAccountCommit, EraseRecords, Unexpunged, TypeOK
  <2>3. sess[opener] \in {"closed", "open"}
    BY Zenon, <1>3 DEF OpenerInv, OpenAccountCommit
  <2> QED BY Zenon, <1>0, <2>1, <2>2, <2>3
<1>4. ASSUME NEW a \in Actors, CloseAccount(a) PROVE RefInv'
  BY Zenon, <1>0, <1>4 DEF CloseAccount, TrackingUnchanged
<1>5. ASSUME NEW a \in Broadcasters, NEW m \in Msgs, Deliver(a, m) PROVE RefInv'
  <2>1. /\ TrackingUnchanged /\ UNCHANGED <<regs, sess>> /\ Ready(a) /\ a \in Actors
        /\ req'.by = a /\ req'.rem = {}
    BY Zenon, <1>5 DEF Deliver, TrackingUnchanged, Broadcasters
  <2>2. \A k \in Msgs : msg'[k] \in Unexpunged => msg[k] \in Unexpunged
    BY Zenon, <1>5 DEF Deliver, Unexpunged, TypeOK
  <2> QED BY Zenon, <2>1, <2>2, ChangeSteps, {} \in SUBSET Msgs
<1>6. ASSUME NEW a \in Broadcasters, NEW ids \in SUBSET Msgs, MessageRemove(a, ids) PROVE RefInv'
  <2>1. /\ TrackingUnchanged /\ UNCHANGED <<regs, sess>> /\ Ready(a) /\ a \in Actors
        /\ req'.by = a /\ req'.rem = ids
    BY Zenon, <1>6 DEF MessageRemove, TrackingUnchanged, Broadcasters
  <2>2. /\ \A m \in ids : msg[m] \in Unexpunged /\ msg'[m] \notin Unexpunged
        /\ \A m \in Msgs : msg'[m] \in Unexpunged => msg[m] \in Unexpunged
    BY Zenon, <1>6 DEF MessageRemove, Unexpunged, TypeOK, Live
  <2> QED BY Zenon, <2>1, <2>2, ChangeSteps
<1>7. ASSUME NEW a \in Broadcasters, NEW m \in Msgs, NEW old \in Msgs, MoveMessage(a, m, old) PROVE RefInv'
  <2>1. /\ TrackingUnchanged /\ UNCHANGED <<regs, sess>> /\ Ready(a) /\ a \in Actors
        /\ req'.by = a /\ req'.rem = {old}
    BY Zenon, <1>7 DEF MoveMessage, TrackingUnchanged, Broadcasters
  <2>2. /\ \A k \in {old} : msg[k] \in Unexpunged /\ msg'[k] \notin Unexpunged
        /\ \A k \in Msgs : msg'[k] \in Unexpunged => msg[k] \in Unexpunged
    <3>1. msg' = [msg EXCEPT ![old] = "expunged"] /\ msg[old] = "absent"
      BY Zenon, <1>7 DEF MoveMessage
    <3>2. \A k \in Msgs : msg'[k] = IF k = old THEN "expunged" ELSE msg[k]
      BY Zenon, <3>1 DEF TypeOK
    <3> QED BY SMTT(30), <3>1, <3>2 DEF Unexpunged
  <2> QED BY Zenon, <2>1, <2>2, ChangeSteps, {old} \in SUBSET Msgs
<1>8. ASSUME NEW a \in Broadcasters, NEW n \in OtherSizes, ChangeOther(a, n) PROVE RefInv'
  <2>1. /\ TrackingUnchanged /\ UNCHANGED <<regs, sess, msg>> /\ Ready(a) /\ a \in Actors
        /\ req'.by = a /\ req'.rem = {}
    BY Zenon, <1>8 DEF ChangeOther, TrackingUnchanged, Broadcasters
  <2> QED BY Zenon, <2>1, ChangeSteps, {} \in SUBSET Msgs
<1>9. CASE Broadcast
  BY Zenon, <1>9, BroadcastCovers
<1>10. ASSUME NEW c \in Sessions, Register(c) PROVE RefInv'
  <2>1. \A d \in Sessions : sess'[d] = IF d = c THEN "registered" ELSE sess[d]
    BY Zenon, <1>10 DEF Register, TypeOK, Actors
  <2>2. TrackingUnchanged /\ UNCHANGED <<msg, req>> /\ regs' = regs \cup {c} /\ sess[c] = "open"
    BY Zenon, <1>10 DEF Register, TrackingUnchanged
  <2>3. RegsInv'
    BY Zenon, <2>1, <2>2 DEF RefInv, RegsInv, TrackingUnchanged
  <2>4. ReqInv'
    BY Zenon, <2>1, <2>2, Tracking DEF RefInv, ReqInv, TypeOK, Requests
  <2>5. FreshUntracked'
    BY Zenon, <2>2, Tracking DEF RefInv, FreshUntracked
  <2> QED BY Zenon, <2>2, <2>3, <2>4, <2>5, Tracking DEF RefInv
<1>11. ASSUME NEW c \in Sessions, Unregister(c) PROVE RefInv'
  <2>1. /\ removals' = [removals EXCEPT ![c] = {}] /\ fetched' = [fetched EXCEPT ![c] = {}]
        /\ UNCHANGED <<req, msg>> /\ regs' = regs \ {c} /\ sess' = [sess EXCEPT ![c] = "open"]
        /\ DecreaseEraseRefs(Drained(c))
    BY Zenon, <1>11 DEF Unregister
  <2>2. sess[c] = "ending" \/ ~Waiting(c)
    BY Zenon, <1>11 DEF Unregister, Ready
  <2>3. \A d \in Sessions : /\ removals'[d] = IF d = c THEN {} ELSE removals[d]
                            /\ fetched'[d] = IF d = c THEN {} ELSE fetched[d]
                            /\ sess'[d] = IF d = c THEN "open" ELSE sess[d]
    BY Zenon, <2>1 DEF TypeOK, Actors
  <2>4. HeldOnce' /\ \A d \in Sessions, m \in Msgs : Holds(d, m)' => Holds(d, m)
    <3>1. \A d \in Sessions : removals'[d] \subseteq removals[d] /\ fetched'[d] \subseteq fetched[d]
      BY Zenon, <2>3
    <3> QED BY Zenon, <3>1, HoldLess
  <2>5. /\ Drained(c) \in SUBSET Msgs
        /\ \A m \in Drained(c) : Holds(c, m) /\ ~Holds(c, m)'
    BY Zenon, <2>3 DEF TypeOK, Drained, Holds
  <2>6. RefsCoverHolders' /\ NoPanic' /\ \A m \in Msgs : Untracked(m) => Untracked(m)'
    BY Zenon, <2>1, <2>4, <2>5, DecreaseCovers DEF RefInv
  <2>7. RegsInv'
    BY SMTT(30), <2>1, <2>3 DEF RefInv, RegsInv
  <2>8. ReqInv'
    BY Zenon, <2>1, <2>2, <2>3, <2>6 DEF RefInv, ReqInv, TypeOK, Requests, Waiting
  <2>9. FreshUntracked'
    BY Zenon, <2>1, <2>6 DEF RefInv, FreshUntracked
  <2> QED BY Zenon, <2>4, <2>6, <2>7, <2>8, <2>9 DEF RefInv
<1>12. ASSUME NEW c \in Sessions, NEW ids \in fetched[c], RemovalSeen(c, ids) PROVE RefInv'
  <2>1. /\ fetched' = [fetched EXCEPT ![c] = @ \ {ids}]
        /\ UNCHANGED <<req, msg, regs, sess, removals>>
        /\ DecreaseEraseRefs(ids)
    BY Zenon, <1>12 DEF RemovalSeen
  <2>2. \A d \in Sessions : fetched'[d] = IF d = c THEN fetched[d] \ {ids} ELSE fetched[d]
    BY Zenon, <2>1 DEF TypeOK
  <2>3. HeldOnce' /\ \A d \in Sessions, m \in Msgs : Holds(d, m)' => Holds(d, m)
    <3>1. removals' = removals
      BY Zenon, <2>1
    <3>2. \A d \in Sessions : removals'[d] \subseteq removals[d] /\ fetched'[d] \subseteq fetched[d]
      BY Zenon, <2>2, <3>1
    <3> QED BY Zenon, <3>2, HoldLess
  <2>4. /\ ids \in SUBSET Msgs
        /\ \A m \in ids : Holds(c, m) /\ ~Holds(c, m)'
    <3>1. \A i \in removals[c] \cup fetched[c] : i \cap ids # {} => i = ids
      BY Zenon, <1>12 DEF RefInv, HeldOnce
    <3>2. ids \notin removals[c]
      BY Zenon, <1>12 DEF RefInv, HeldOnce
    <3>3. ids \in SUBSET Msgs
      BY Zenon, <1>12 DEF TypeOK
    <3>4. removals' = removals /\ fetched'[c] = fetched[c] \ {ids}
      BY Zenon, <2>1, <2>2
    <3>5. \A m \in ids : Holds(c, m)
      BY Zenon, <1>12 DEF Holds
    <3>6. \A m \in ids : ~Holds(c, m)'
      BY Zenon, <3>1, <3>2, <3>4 DEF Holds
    <3> QED BY Zenon, <3>3, <3>5, <3>6
  <2>5. RefsCoverHolders' /\ NoPanic' /\ \A m \in Msgs : Untracked(m) => Untracked(m)'
    BY Zenon, <2>1, <2>3, <2>4, DecreaseCovers DEF RefInv
  <2>6. RegsInv'
    BY Zenon, <2>1, <2>2 DEF RefInv, RegsInv
  <2>7. ReqInv'
    BY Zenon, <2>1, <2>5 DEF RefInv, ReqInv, TypeOK, Requests
  <2>8. FreshUntracked'
    BY Zenon, <2>1, <2>5 DEF RefInv, FreshUntracked
  <2> QED BY Zenon, <2>3, <2>5, <2>6, <2>7, <2>8 DEF RefInv
<1>13. ASSUME NEW c \in Sessions, Wake(c) \/ WebAbort(c) PROVE RefInv'
  <2>1. /\ TrackingUnchanged /\ UNCHANGED <<regs, req, msg>> /\ Ready(c)
        /\ \E v \in {"woken", "ending"} : sess' = [sess EXCEPT ![c] = v]
    BY Zenon, <1>13 DEF Wake, WebAbort, TrackingUnchanged
  <2>2. \A d \in Sessions : sess'[d] = sess[d] \/ (d = c /\ sess'[d] \in {"woken", "ending"})
    BY Zenon, <2>1 DEF TypeOK, Actors
  <2>3. \A d \in Sessions : sess'[d] \in Running <=> sess[d] \in Running
    BY Zenon, <2>1, <2>2 DEF Running, Ready
  <2>4. \A d \in Sessions : Waiting(d) => sess'[d] = sess[d]
    BY Zenon, <2>1, <2>2 DEF Ready
  <2> QED BY Zenon, <2>1, <2>3, <2>4, OtherSteps
<1>14. ASSUME NEW c \in Sessions, Get(c) \/ GetFlush(c) PROVE RefInv'
  <2>1. /\ removals' = [removals EXCEPT ![c] = {}] /\ fetched' = [fetched EXCEPT ![c] = @ \cup removals[c]]
        /\ UNCHANGED <<eraseRefs, regs, req, msg, panicked>>
        /\ sess[c] \in {"woken", "registered"}
    BY Zenon, <1>14 DEF Get, GetFlush, TakeChanges, Ready
  <2>2. \A d \in Sessions : /\ removals'[d] \cup fetched'[d] = removals[d] \cup fetched[d]
                            /\ removals'[d] = IF d = c THEN {} ELSE removals[d]
                            /\ d # c => fetched'[d] = fetched[d]
                            /\ sess'[d] = IF d = c THEN "registered" ELSE sess[d]
    BY Zenon, <1>14, <2>1 DEF Get, GetFlush, Ready, TypeOK, Actors
  <2>3. \A d \in Sessions, m \in Msgs : Holds(d, m)' <=> Holds(d, m)
    BY Zenon, <2>2 DEF Holds
  <2>4. \A m \in Msgs : Holders(m)' = Holders(m) /\ (Untracked(m)' <=> Untracked(m))
    BY Zenon, <2>1, <2>3 DEF Holders, Untracked
  <2>5. RegsInv'
    BY ZenonT(60), <2>1, <2>2 DEF RefInv, RegsInv
  <2>6. ReqInv'
    BY Zenon, <2>1, <2>2, <2>4 DEF RefInv, ReqInv, TypeOK, Requests
  <2>7. HeldOnce'
    BY Zenon, <2>2 DEF RefInv, HeldOnce
  <2>8. FreshUntracked' /\ RefsCoverHolders' /\ NoPanic'
    BY Zenon, <2>1, <2>4 DEF RefInv, FreshUntracked, RefsCoverHolders, NoPanic
  <2> QED BY Zenon, <2>5, <2>6, <2>7, <2>8 DEF RefInv
<1>15. ASSUME NEW c \in Sessions, GetWebOverflow(c) PROVE RefInv'
  <2>1. /\ removals' = [removals EXCEPT ![c] = {}] /\ UNCHANGED <<fetched, eraseRefs, regs, req, msg, panicked>>
        /\ sess' = [sess EXCEPT ![c] = "ending"] /\ sess[c] = "woken"
    BY Zenon, <1>15 DEF GetWebOverflow, TakeChanges
  <2>2. \A d \in Sessions : /\ removals'[d] \subseteq removals[d] /\ fetched'[d] = fetched[d]
                            /\ sess'[d] = IF d = c THEN "ending" ELSE sess[d]
    BY Zenon, <2>1 DEF TypeOK, Actors
  <2>3. HeldOnce' /\ \A d \in Sessions, m \in Msgs : Holds(d, m)' => Holds(d, m)
    BY Zenon, <2>2, HoldLess
  <2>4. \A m \in Msgs : Untracked(m) => Untracked(m)'
    BY Zenon, <2>1, <2>3 DEF Untracked
  <2>5. RefsCoverHolders'
    <3> SUFFICES ASSUME NEW m \in Msgs PROVE eraseRefs[m] >= Cardinality(Holders(m)')
      BY Zenon, <2>1 DEF RefsCoverHolders
    <3>1. Holders(m) \in SUBSET Sessions /\ Holders(m)' \in SUBSET Holders(m)
      BY Zenon, <2>3 DEF Holders
    <3>2. /\ Cardinality(Holders(m)') <= Cardinality(Holders(m))
          /\ Cardinality(Holders(m)) \in Nat /\ Cardinality(Holders(m)') \in Nat
      BY Zenon, <3>1, SessionSets
    <3>3. eraseRefs[m] \in Nat /\ eraseRefs[m] >= Cardinality(Holders(m))
      BY Zenon DEF TypeOK, RefInv, RefsCoverHolders
    <3> QED BY <3>2, <3>3
  <2>6. RegsInv'
    <3>1. regs' = regs /\ sess[c] = "woken"
      BY Zenon, <2>1
    <3>2. regs' = {d \in Sessions : sess'[d] \in {"registered", "woken", "ending"}}
      BY Zenon, <3>1, <2>2 DEF RefInv, RegsInv
    <3>3. \A d \in Sessions \ regs' : removals'[d] = {} /\ fetched'[d] = {}
      BY Zenon, <3>1, <2>2 DEF RefInv, RegsInv
    <3> QED BY Zenon, <3>2, <3>3 DEF RegsInv
  <2>7. ReqInv'
    BY Zenon, <2>1, <2>2, <2>4 DEF RefInv, ReqInv, TypeOK, Requests
  <2>8. FreshUntracked' /\ NoPanic'
    BY Zenon, <2>1, <2>4 DEF RefInv, FreshUntracked, NoPanic
  <2> QED BY Zenon, <2>3, <2>5, <2>6, <2>7, <2>8 DEF RefInv
<1>16. ASSUME NEW c \in Sessions,
              \/ \E ms \in SUBSET Msgs : Select(c, ms)
              \/ NotifyNone(c)
              \/ NotifySet(c)
       PROVE RefInv'
  BY Zenon, <1>16, OtherSteps DEF Select, NotifyNone, NotifySet, TrackingUnchanged
<1>17. CASE SendErase \/ EraseFail \/ EraseFiles \/ EraserClose
  BY Zenon, <1>17, OtherSteps DEF SendErase, EraseFail, EraseFiles, EraserClose, TrackingUnchanged
<1>18. CASE EraseCommit
  <2>1. TrackingUnchanged /\ UNCHANGED <<regs, req, sess>>
    BY Zenon, <1>18 DEF EraseCommit, TrackingUnchanged
  <2>2. \A m \in Msgs : msg'[m] \in Unexpunged <=> msg[m] \in Unexpunged
    BY Zenon, <1>18 DEF EraseCommit, EraseRecords, Unexpunged, TypeOK
  <2> QED BY Zenon, <2>1, <2>2, OtherSteps
<1>19. CASE Crash
  <2>1. /\ \A c \in Sessions : /\ removals'[c] = {} /\ fetched'[c] = {}
                               /\ sess'[c] = "closed"
        /\ regs' = {} /\ req' = NoReq /\ UNCHANGED panicked
        /\ \A m \in Msgs : eraseRefs'[m] = 0
    BY Zenon, <1>19 DEF Crash, Actors
  <2>2. \A m \in Msgs : Untracked(m)' /\ Holders(m)' = {}
    BY Zenon, <2>1 DEF Untracked, Holds, Holders
  <2>3. RefsCoverHolders'
    <3>1. \A m \in Msgs : Cardinality(Holders(m)') = 0
      BY Zenon, <2>2, FS_EmptySet
    <3> QED BY <2>1, <3>1 DEF RefsCoverHolders
  <2>4. NoPanic'
    BY Zenon, <2>1 DEF RefInv, NoPanic
  <2> QED BY Zenon, <2>1, <2>2, <2>3, <2>4 DEF RefInv, RegsInv, ReqInv, HeldOnce, FreshUntracked
<1>20. CASE UNCHANGED vars
  BY Zenon, <1>20, OtherSteps DEF vars, TrackingUnchanged
<1> QED
  BY ZenonT(60), <1>1, <1>2, <1>3, <1>4, <1>5, <1>6, <1>7, <1>8, <1>9, <1>10, <1>11, <1>12, <1>13, <1>14,
     <1>15, <1>16, <1>17, <1>18, <1>19, <1>20
  DEF Next, Change, Session, Eraser

\* The counting of references is sound in every state that can be reached.
LEMMA RefInvariance == Spec => [](OpenerInv /\ RefInv)
<1>1. Init => OpenerInv /\ RefInv
  <2> SUFFICES ASSUME Init PROVE OpenerInv /\ RefInv
    OBVIOUS
  <2>1. \A m \in Msgs : Untracked(m) /\ Holders(m) = {}
    BY Zenon DEF Init, Untracked, Holds, Holders
  <2>2. RefsCoverHolders
    <3>1. \A m \in Msgs : Cardinality(Holders(m)) = 0
      BY Zenon, <2>1, FS_EmptySet
    <3>2. \A m \in Msgs : eraseRefs[m] = 0
      BY Zenon DEF Init
    <3> QED BY <3>1, <3>2 DEF RefsCoverHolders
  <2>3. NoPanic
    BY Zenon DEF Init, NoPanic
  <2>4. RegsInv /\ ReqInv /\ HeldOnce /\ OpenerInv
    BY Zenon DEF Init, RegsInv, ReqInv, HeldOnce, OpenerInv, Actors
  <2> QED BY Zenon, <2>1, <2>2, <2>3, <2>4 DEF RefInv, FreshUntracked
<1>2. TypeOK /\ OpenerInv /\ RefInv /\ [Next]_vars => OpenerInv' /\ RefInv'
  BY Zenon, OpenerStep, RefInvStep
<1> QED BY <1>1, <1>2, Typing, PTL DEF Spec

\* For any number of sessions and any capacity: the switchboard never panics, and never
\* counts fewer references to an expunged message than there are sessions that have
\* not acknowledged its removal.
THEOREM ReferenceCounting == Spec => []ReferencesSafe
<1>1. RefInv => ReferencesSafe
  BY Zenon DEF RefInv, ReferencesSafe
<1> QED BY <1>1, RefInvariance, PTL

-----------------------------------------------------------------------------
(* The reference count of the account. *)

\* The users that have the account open.
Opened == {a \in Actors : sess[a] # "closed"}

\* Sets of users are finite.
LEMMA OpenedFinite ==
  ASSUME NEW A \in SUBSET Actors
  PROVE  IsFiniteSet(A) /\ Cardinality(A) \in Nat
<1>1. IsFiniteSet(Actors)
  BY Zenon, ConstantsAssumption, FS_Union DEF Actors
<1>2. IsFiniteSet(A)
  BY Zenon, <1>1, FS_Subset
<1> QED BY Zenon, <1>2, FS_CardinalityType

\* An account that is not open is not used by anybody.
LEMMA Asleep ==
  TypeOK /\ AccountInv /\ nused = 0 =>
     /\ \A a \in Actors : sess[a] = "closed"
     /\ \A m \in Msgs : eraseRefs[m] = 0
     /\ eraseIDs = {} /\ eraser = "idle" /\ req = NoReq
<1> SUFFICES ASSUME TypeOK, AccountInv, nused = 0
             PROVE  /\ \A a \in Actors : sess[a] = "closed"
                    /\ \A m \in Msgs : eraseRefs[m] = 0
                    /\ eraseIDs = {} /\ eraser = "idle" /\ req = NoReq
  OBVIOUS
<1>1. Opened \in SUBSET Actors
  BY Zenon DEF Opened
<1>2. IsFiniteSet(Opened) /\ Cardinality(Opened) \in Nat
  BY Zenon, <1>1, OpenedFinite
<1>3. 0 = Cardinality(Opened) + One(Referenced(eraseRefs)) + One(eraseIDs # {}) + One(eraser # "idle")
  BY Zenon DEF AccountInv, AccountRefs, Opened
<1>4. Cardinality(Opened) = 0 /\ ~Referenced(eraseRefs) /\ eraseIDs = {} /\ eraser = "idle"
  BY <1>2, <1>3 DEF One
<1>5. Opened = {}
  BY Zenon, <1>2, <1>4, FS_EmptySet
<1>6. \A a \in Actors : sess[a] = "closed"
  BY Zenon, <1>5 DEF Opened
<1>7. \A m \in Msgs : eraseRefs[m] = 0
  BY <1>4 DEF Referenced, TypeOK
<1>8. req = NoReq
  BY Zenon, <1>6 DEF AccountInv, OpenInv, TypeOK, Requests
<1> QED BY Zenon, <1>4, <1>6, <1>7, <1>8

\* The same after a step.
LEMMA AsleepNext ==
  (TypeOK /\ AccountInv /\ nused = 0 =>
     /\ \A a \in Actors : sess[a] = "closed"
     /\ \A m \in Msgs : eraseRefs[m] = 0
     /\ eraseIDs = {} /\ eraser = "idle" /\ req = NoReq)'
BY Asleep, PTL

\* Only opening it does something to such an account.
LEMMA AsleepSteps ==
  ASSUME TypeOK, AccountInv, nused = 0, Next
  PROVE  (\E a \in Actors : OpenAccountDB(a)) \/ OpenAccountCommit \/ Crash
<1>1. /\ \A a \in Actors : sess[a] = "closed"
      /\ eraseIDs = {} /\ eraser = "idle" /\ req = NoReq
  BY Zenon, Asleep
<1>2. \A a \in Actors : ~Ready(a) /\ ~OpenAccount(a) /\ ~CloseAccount(a)
  BY <1>1 DEF Ready, OpenAccount, CloseAccount
<1>3. ~Change
  BY Zenon, <1>2 DEF Change, Broadcasters, Deliver, MessageRemove, MoveMessage, ChangeOther
<1>4. ~Broadcast /\ ~Eraser
  BY Zenon, <1>1 DEF Broadcast, Eraser, SendErase, EraseCommit, EraseFail, EraseFiles, EraserClose
<1>5. ASSUME NEW c \in Sessions PROVE ~Session(c)
  <2>1. sess[c] = "closed" /\ ~Ready(c)
    BY Zenon, <1>1, <1>2 DEF Actors
  <2> QED BY Zenon, <2>1
          DEF Session, Register, Unregister, Wake, Get, GetFlush, GetWebOverflow, WebAbort,
              RemovalSeen, Select, NotifyNone, NotifySet
<1> QED BY Zenon, <1>2, <1>3, <1>4, <1>5 DEF Next

\* The references taken and given up by the switchboard and the eraser.
Counted ==
  nused' = nused + (One(Referenced(eraseRefs')) - One(Referenced(eraseRefs)))
                 + (One(eraseIDs' # {}) - One(eraseIDs # {}))
                 + (One(eraser' # "idle") - One(eraser # "idle"))

\* Nobody opens or closes the account, and whoever waits for a broadcast has it open.
OpenersKept ==
  /\ \A a \in Actors : sess'[a] = "closed" <=> sess[a] = "closed"
  /\ opener' = opener
  /\ req' # NoReq => req' = req \/ (req'.by \in Actors /\ sess[req'.by] # "closed")

\* Steps that take and give up references as counted, and open or close nothing.
LEMMA CountKept ==
  ASSUME TypeOK, TypeOK', AccountInv, nused # 0, Counted, OpenersKept
  PROVE  AccountInv'
<1>1. Opened' = Opened
  BY Zenon DEF OpenersKept, Opened
<1>2. Cardinality(Opened) \in Nat
  BY Zenon, OpenedFinite, Opened \in SUBSET Actors DEF Opened
<1>3. nused = Cardinality(Opened) + One(Referenced(eraseRefs)) + One(eraseIDs # {}) + One(eraser # "idle")
  BY Zenon DEF AccountInv, AccountRefs, Opened
<1>4. nused' = Cardinality(Opened') + One(Referenced(eraseRefs)') + One(eraseIDs' # {}) + One(eraser' # "idle")
  BY <1>1, <1>2, <1>3 DEF Counted, One, Referenced
<1>5. AccountRefs'
  BY Zenon, <1>4 DEF AccountRefs, Opened
<1>6. OpenInv'
  BY Zenon DEF AccountInv, OpenInv, OpenersKept, TypeOK, Requests, NoActor
<1> QED BY Zenon, <1>5, <1>6 DEF AccountInv

\* Steps that have nothing to do with references.
LEMMA Uncounted ==
  ASSUME UNCHANGED <<nused, eraseRefs, eraseIDs, eraser>>, TypeOK
  PROVE  Counted
BY DEF Counted, One, TypeOK
\* OpenAccount and closeAccount of an account that is open: one user more or less.
LEMMA SomeOpened ==
  ASSUME TypeOK, TypeOK', AccountInv, nused # 0, NEW a \in Actors,
         OpenAccount(a) \/ CloseAccount(a)
  PROVE  AccountInv'
<1> USE DEF board, erasing
<1>1. IsFiniteSet(Opened) /\ Cardinality(Opened) \in Nat /\ Opened' \subseteq Actors
  BY Zenon, OpenedFinite, Opened \in SUBSET Actors DEF Opened
<1>2. nused = Cardinality(Opened) + One(Referenced(eraseRefs)) + One(eraseIDs # {}) + One(eraser # "idle")
  BY Zenon DEF AccountInv, AccountRefs, Opened
<1>3. UNCHANGED <<eraseRefs, eraseIDs, eraser, req, opener>>
  BY Zenon DEF OpenAccount, CloseAccount
<1>4. CASE OpenAccount(a)
  <2>1. Opened' = Opened \cup {a} /\ a \notin Opened
    BY ZenonT(60), <1>4 DEF OpenAccount, Opened, TypeOK
  <2>2. Cardinality(Opened') = Cardinality(Opened) + 1
    BY Zenon, <1>1, <2>1, FS_AddElement
  <2>3. AccountRefs'
    <3>1. nused' = nused + 1
      BY Zenon, <1>4 DEF OpenAccount
    <3>2. nused' = Cardinality(Opened') + One(Referenced(eraseRefs')) + One(eraseIDs' # {}) + One(eraser' # "idle")
      BY SMTT(60), <1>1, <1>2, <1>3, <2>2, <3>1 DEF One
    <3> QED BY Zenon, <3>2 DEF AccountRefs, Opened
  <2>4. OpenInv'
    BY Zenon, <1>3, <1>4 DEF OpenAccount, AccountInv, OpenInv, TypeOK, Requests
  <2> QED BY Zenon, <2>3, <2>4 DEF AccountInv
<1>5. CASE CloseAccount(a)
  <2>1. Opened' = Opened \ {a} /\ a \in Opened
    BY Zenon, <1>5 DEF CloseAccount, Opened, TypeOK
  <2>2. Cardinality(Opened') = Cardinality(Opened) - 1
    BY Zenon, <1>1, <2>1, FS_RemoveElement
  <2>3. AccountRefs'
    <3>1. nused' = nused - 1
      BY Zenon, <1>5 DEF CloseAccount
    <3>2. nused' = Cardinality(Opened') + One(Referenced(eraseRefs')) + One(eraseIDs' # {}) + One(eraser' # "idle")
      BY <1>1, <1>2, <1>3, <2>2, <3>1 DEF One
    <3> QED BY Zenon, <3>2 DEF AccountRefs, Opened
  <2>4. OpenInv'
    <3>1. \A b \in Actors : b # a => sess'[b] = sess[b]
      BY Zenon, <1>5 DEF CloseAccount, TypeOK
    <3>2. req # NoReq => req.by # a /\ req.by \in Actors
      BY Zenon, <1>5 DEF CloseAccount, Waiting, TypeOK, Requests
    <3> QED BY Zenon, <1>3, <3>1, <3>2 DEF AccountInv, OpenInv
  <2> QED BY Zenon, <2>3, <2>4 DEF AccountInv
<1> QED BY Zenon, <1>4, <1>5

\* Opening an account that is not open, and a crash.
LEMMA AsleepAccount ==
  ASSUME TypeOK, AccountInv,
         (nused = 0 /\ ((\E a \in Actors : OpenAccountDB(a)) \/ OpenAccountCommit)) \/ Crash
  PROVE  AccountInv'
<1> USE DEF disk, board, sessions, erasing
<1>1. CASE nused = 0 /\ \E a \in Actors : OpenAccountDB(a)
  <2>1. UNCHANGED <<nused, sess, eraseRefs, eraseIDs, eraser, req>>
    BY Zenon, <1>1 DEF OpenAccountDB
  <2>2. AccountRefs'
    BY Zenon, <2>1 DEF AccountInv, AccountRefs
  <2> QED BY Zenon, <1>1, <2>1, <2>2, Asleep DEF AccountInv, OpenInv
<1>2. CASE nused = 0 /\ OpenAccountCommit
  <2>1. /\ UNCHANGED <<eraseRefs, eraseIDs, eraser, req>> /\ nused' = 1
        /\ sess' = [sess EXCEPT ![opener] = "open"] /\ opener \in Actors /\ opener' = NoActor
    BY Zenon, <1>2 DEF OpenAccountCommit, TypeOK
  <2>2. /\ \A a \in Actors : sess[a] = "closed"
        /\ ~Referenced(eraseRefs) /\ eraseIDs = {} /\ eraser = "idle" /\ req = NoReq
    BY SMTT(60), <1>2, Asleep DEF Referenced
  <2>3. Opened' = {opener}
    BY <2>1, <2>2 DEF Opened, TypeOK
  <2>4. Cardinality(Opened') = 1
    BY Zenon, <2>3, FS_Singleton
  <2>5. AccountRefs'
    <3>1. nused' = Cardinality(Opened') + One(Referenced(eraseRefs')) + One(eraseIDs' # {}) + One(eraser' # "idle")
      BY <2>1, <2>2, <2>4 DEF One
    <3> QED BY Zenon, <3>1 DEF AccountRefs, Opened
  <2> QED BY Zenon, <2>1, <2>2, <2>5 DEF AccountInv, OpenInv
<1>3. CASE Crash
  <2>1. /\ nused' = 0 /\ opener' = NoActor /\ req' = NoReq /\ eraseIDs' = {} /\ eraser' = "idle"
        /\ \A m \in Msgs : eraseRefs'[m] = 0
        /\ \A a \in Actors : sess'[a] = "closed"
    BY Zenon, <1>3 DEF Crash
  <2>2. Opened' = {} /\ ~Referenced(eraseRefs')
    BY <2>1 DEF Opened, Referenced
  <2>3. Cardinality(Opened') = 0
    BY Zenon, <2>2, FS_EmptySet
  <2>4. AccountRefs'
    <3>1. nused' = Cardinality(Opened') + One(Referenced(eraseRefs')) + One(eraseIDs' # {}) + One(eraser' # "idle")
      BY <2>1, <2>2, <2>3 DEF One
    <3> QED BY Zenon, <3>1 DEF AccountRefs, Opened
  <2> QED BY Zenon, <2>1, <2>4 DEF AccountInv, OpenInv
<1> QED BY Zenon, <1>1, <1>2, <1>3

\* Steps of the switchboard, the eraser and sessions.
LEMMA CountedSteps ==
  ASSUME TypeOK, TypeOK', AccountInv,
         Change \/ Broadcast \/ (\E c \in Sessions : Session(c)) \/ Eraser
  PROVE  Counted /\ OpenersKept
<1> USE DEF disk, account, board, comms, sessions, erasing
<1>1. ASSUME UNCHANGED <<nused, eraseRefs, eraseIDs, eraser, opener, sess, req>>
      PROVE  Counted /\ OpenersKept
  BY Zenon, <1>1, Uncounted DEF OpenersKept
<1>2. ASSUME UNCHANGED <<nused, eraseRefs, eraseIDs, eraser, opener, req>>,
             NEW c \in Sessions, NEW v \in {"open", "registered", "woken", "ending"},
             sess[c] # "closed", sess' = [sess EXCEPT ![c] = v]
      PROVE  Counted /\ OpenersKept
  <2>1. \A a \in Actors : sess'[a] = "closed" <=> sess[a] = "closed"
    BY Zenon, <1>2 DEF TypeOK, Actors
  <2> QED BY Zenon, <1>2, <2>1, Uncounted DEF OpenersKept
<1>3. CASE Change
  <2>1. UNCHANGED <<nused, eraseRefs, eraseIDs, eraser, opener, sess>>
    BY ZenonT(60), <1>3 DEF Change, Deliver, MessageRemove, MoveMessage, ChangeOther
  <2>2. PICK a \in Broadcasters : Ready(a) /\ req'.by = a
    <3>1. ASSUME NEW a \in Broadcasters, NEW m \in Msgs, Deliver(a, m) PROVE Ready(a) /\ req'.by = a
      BY Zenon, <3>1 DEF Deliver
    <3>2. ASSUME NEW a \in Broadcasters, NEW ids \in SUBSET Msgs, MessageRemove(a, ids) PROVE Ready(a) /\ req'.by = a
      BY Zenon, <3>2 DEF MessageRemove
    <3>3. ASSUME NEW a \in Broadcasters, NEW m \in Msgs, NEW old \in Msgs, MoveMessage(a, m, old)
          PROVE  Ready(a) /\ req'.by = a
      BY Zenon, <3>3 DEF MoveMessage
    <3>4. ASSUME NEW a \in Broadcasters, NEW n \in OtherSizes, ChangeOther(a, n) PROVE Ready(a) /\ req'.by = a
      BY Zenon, <3>4 DEF ChangeOther
    <3> QED BY Zenon, <1>3, <3>1, <3>2, <3>3, <3>4 DEF Change
  <2>3. a \in Actors /\ sess[a] # "closed"
    BY Zenon, <2>2 DEF Broadcasters, Ready
  <2> QED BY Zenon, <2>1, <2>2, <2>3, Uncounted DEF OpenersKept
<1>4. CASE Broadcast
  <2>1. UNCHANGED <<opener, sess, eraser>> /\ req' = NoReq /\ CountAccount(eraseRefs', eraseIDs')
    BY Zenon, <1>4 DEF Broadcast
  <2>2. Counted
    BY <2>1 DEF Counted, CountAccount, One, TypeOK
  <2> QED BY Zenon, <2>1, <2>2 DEF OpenersKept
<1>5. ASSUME NEW c \in Sessions, Register(c) PROVE Counted /\ OpenersKept
  <2>1. UNCHANGED <<nused, eraseRefs, eraseIDs, eraser, opener, req>>
        /\ sess[c] = "open" /\ sess' = [sess EXCEPT ![c] = "registered"]
    BY Zenon, <1>5 DEF Register
  <2> QED BY Zenon, <1>2, <2>1
<1>6. ASSUME NEW c \in Sessions, Wake(c) \/ Get(c) \/ GetWebOverflow(c) \/ WebAbort(c)
      PROVE Counted /\ OpenersKept
  <2>1. UNCHANGED <<nused, eraseRefs, eraseIDs, eraser, opener, req>>
    BY Zenon, <1>6 DEF Wake, Get, GetWebOverflow, WebAbort
  <2>2. sess[c] # "closed"
    BY Zenon, <1>6 DEF Wake, Get, GetWebOverflow, WebAbort, Ready
  <2>3. PICK v \in {"registered", "woken", "ending"} : sess' = [sess EXCEPT ![c] = v]
    BY Zenon, <1>6 DEF Wake, Get, GetWebOverflow, WebAbort
  <2> QED BY Zenon, <1>2, <2>1, <2>2, <2>3
<1>7. ASSUME NEW c \in Sessions, Unregister(c) PROVE Counted /\ OpenersKept
  <2>1. /\ CountAccount(eraseRefs', eraseIDs') /\ UNCHANGED <<eraser, opener, req>>
        /\ sess' = [sess EXCEPT ![c] = "open"]
    BY Zenon, <1>7 DEF Unregister, DecreaseEraseRefs
  <2>2. sess[c] # "closed"
    BY Zenon, <1>7 DEF Unregister, Ready
  <2>3. Counted
    BY <2>1 DEF Counted, CountAccount, One, TypeOK
  <2>4. \A a \in Actors : sess'[a] = "closed" <=> sess[a] = "closed"
    BY Zenon, <2>1, <2>2 DEF TypeOK, Actors
  <2> QED BY Zenon, <2>1, <2>3, <2>4 DEF OpenersKept
<1>8. ASSUME NEW c \in Sessions, NEW ids \in fetched[c], RemovalSeen(c, ids)
      PROVE Counted /\ OpenersKept
  <2>1. CountAccount(eraseRefs', eraseIDs') /\ UNCHANGED <<eraser, opener, req, sess>>
    BY Zenon, <1>8 DEF RemovalSeen, DecreaseEraseRefs
  <2>2. Counted
    BY <2>1 DEF Counted, CountAccount, One, TypeOK
  <2> QED BY Zenon, <2>1, <2>2 DEF OpenersKept
<1>9. ASSUME NEW c \in Sessions,
             GetFlush(c) \/ (\E ms \in SUBSET Msgs : Select(c, ms)) \/ NotifyNone(c) \/ NotifySet(c)
      PROVE Counted /\ OpenersKept
  BY Zenon, <1>1, <1>9 DEF GetFlush, Select, NotifyNone, NotifySet
<1>10. CASE Eraser
  <2>1. UNCHANGED <<opener, sess, req, eraseRefs>>
    BY Zenon, <1>10 DEF Eraser, SendErase, EraseCommit, EraseFail, EraseFiles, EraserClose
  <2>0. One(Referenced(eraseRefs')) - One(Referenced(eraseRefs)) = 0
    BY SMTT(60), <2>1 DEF One
  <2>2. ASSUME SendErase PROVE Counted
    <3>1. /\ UNCHANGED nused /\ eraser = "idle" /\ eraser' = "erasing"
          /\ eraseIDs # {} /\ eraseIDs' = {}
      BY Zenon, <2>2 DEF SendErase, account
    <3>2. /\ One(eraseIDs' # {}) - One(eraseIDs # {}) = -1
          /\ One(eraser' # "idle") - One(eraser # "idle") = 1
      BY SMTT(60), <3>1 DEF One
    <3> QED BY <2>0, <3>1, <3>2 DEF Counted, TypeOK
  <2>3. ASSUME EraseCommit \/ EraseFail \/ EraseFiles PROVE Counted
    <3>1. UNCHANGED <<nused, eraseIDs>> /\ eraser # "idle" /\ eraser' # "idle"
      BY Zenon, <2>3 DEF EraseCommit, EraseFail, EraseFiles, account, board
    <3>2. /\ One(eraseIDs' # {}) - One(eraseIDs # {}) = 0
          /\ One(eraser' # "idle") - One(eraser # "idle") = 0
      BY SMTT(60), <3>1 DEF One
    <3> QED BY <2>0, <3>1, <3>2 DEF Counted, TypeOK
  <2>4. ASSUME EraserClose PROVE Counted
    <3>1. /\ nused' = nused - 1 /\ eraser = "closing" /\ eraser' = "idle" /\ UNCHANGED eraseIDs
      BY Zenon, <2>4 DEF EraserClose, board
    <3>2. /\ One(eraseIDs' # {}) - One(eraseIDs # {}) = 0
          /\ One(eraser' # "idle") - One(eraser # "idle") = -1
      BY <3>1 DEF One
    <3> QED BY <2>0, <3>1, <3>2 DEF Counted, TypeOK
  <2>5. Counted
    BY Zenon, <1>10, <2>2, <2>3, <2>4 DEF Eraser
  <2> QED BY Zenon, <2>1, <2>5 DEF OpenersKept
<1>11. ASSUME NEW c \in Sessions, Session(c) PROVE Counted /\ OpenersKept
  BY Zenon, <1>5, <1>6, <1>7, <1>8, <1>9, <1>11 DEF Session
<1> QED BY Zenon, <1>3, <1>4, <1>10, <1>11

\* nused counts the users of the account, and it is 0 while the account is being opened.
LEMMA AccountStep ==
  ASSUME TypeOK, TypeOK', AccountInv, [Next]_vars
  PROVE  AccountInv'
<1>1. CASE nused = 0 /\ Next
  BY Zenon, <1>1, AsleepSteps, AsleepAccount
<1>2. CASE nused # 0 /\ Next
  <2>1. opener = NoActor
    BY Zenon, <1>2 DEF AccountInv, OpenInv
  <2>2. ~OpenAccountCommit /\ \A a \in Actors : ~OpenAccountDB(a)
    BY Zenon, <1>2, <2>1 DEF OpenAccountCommit, OpenAccountDB
  <2>3. CASE Change \/ Broadcast \/ (\E c \in Sessions : Session(c)) \/ Eraser
    BY Zenon, <1>2, <2>3, CountedSteps, CountKept
  <2>4. CASE \E a \in Actors : OpenAccount(a) \/ CloseAccount(a)
    BY Zenon, <1>2, <2>4, SomeOpened
  <2>5. CASE Crash
    BY Zenon, <2>5, AsleepAccount
  <2> QED BY Zenon, <1>2, <2>2, <2>3, <2>4, <2>5 DEF Next
<1>3. CASE UNCHANGED vars
  <2>1. UNCHANGED <<nused, opener, sess, eraseRefs, eraseIDs, eraser, req>>
    BY Zenon, <1>3 DEF vars, account, board, sessions, erasing
  <2> QED BY Zenon, <2>1 DEF AccountInv, AccountRefs, OpenInv
<1> QED BY Zenon, <1>1, <1>2, <1>3
-----------------------------------------------------------------------------
(* Records, files and disk usage. *)

\* The steps that change the database or the files.
LEMMA DiskSteps ==
  ASSUME [Next]_vars
  PROVE  \/ UNCHANGED disk
         \/ \E a \in Actors : OpenAccountDB(a)
         \/ OpenAccountCommit
         \/ \E a \in Broadcasters, m \in Msgs : Deliver(a, m)
         \/ \E a \in Broadcasters, ids \in SUBSET Msgs : MessageRemove(a, ids)
         \/ \E a \in Broadcasters, m \in Msgs, old \in Msgs : MoveMessage(a, m, old)
         \/ EraseCommit
         \/ EraseFiles
<1>1. ASSUME NEW a \in Actors, OpenAccount(a) \/ CloseAccount(a) PROVE UNCHANGED disk
  BY Zenon, <1>1 DEF OpenAccount, CloseAccount
<1>2. ASSUME NEW a \in Broadcasters, NEW n \in OtherSizes, ChangeOther(a, n) PROVE UNCHANGED disk
  BY Zenon, <1>2 DEF ChangeOther
<1>3. CASE Broadcast \/ SendErase \/ EraseFail \/ EraserClose \/ Crash
  BY Zenon, <1>3 DEF Broadcast, SendErase, EraseFail, EraserClose, Crash
<1>4. ASSUME NEW c \in Sessions, Session(c) PROVE UNCHANGED disk
  BY Zenon, <1>4
  DEF Session, Register, Unregister, Wake, Get, GetFlush, GetWebOverflow, WebAbort,
      RemovalSeen, Select, NotifyNone, NotifySet
<1>5. CASE UNCHANGED vars
  BY Zenon, <1>5 DEF vars
<1> QED BY Zenon, <1>1, <1>2, <1>3, <1>4, <1>5 DEF Next, Change, Eraser

\* The steps of the eraser.
LEMMA EraserSteps ==
  ASSUME [Next]_vars
  PROVE  UNCHANGED <<eraser, batch>> \/ Eraser \/ Crash
<1> USE DEF erasing
<1>1. ASSUME NEW a \in Actors, OpenAccount(a) \/ OpenAccountDB(a) \/ CloseAccount(a)
      PROVE UNCHANGED <<eraser, batch>>
  BY Zenon, <1>1 DEF OpenAccount, OpenAccountDB, CloseAccount
<1>2. CASE OpenAccountCommit \/ Broadcast
  BY Zenon, <1>2 DEF OpenAccountCommit, Broadcast
<1>3. CASE Change
  BY ZenonT(60), <1>3 DEF Change, Deliver, MessageRemove, MoveMessage, ChangeOther
<1>4. ASSUME NEW c \in Sessions, Session(c) PROVE UNCHANGED <<eraser, batch>>
  BY Zenon, <1>4
  DEF Session, Register, Unregister, Wake, Get, GetFlush, GetWebOverflow, WebAbort,
      RemovalSeen, Select, NotifyNone, NotifySet
<1>5. CASE UNCHANGED vars
  BY Zenon, <1>5 DEF vars
<1> QED BY Zenon, <1>1, <1>2, <1>3, <1>4, <1>5 DEF Next

\* What a step that changes the database does to a message record.
LEMMA RecordsStep ==
  ASSUME TypeOK, RecordsInv, [Next]_vars
  PROVE  RecordsInv'
<1> DEFINE Exact == erec = {m \in Msgs : msg[m] = "expunged"}
<1>1. Exact
  BY Zenon DEF RecordsInv
<1>2. Exact' /\ \A m \in Msgs : msg[m] = "erased" => msg'[m] = "erased"
  <2>1. CASE UNCHANGED disk \/ (\E a \in Actors : OpenAccountDB(a)) \/ EraseFiles
    <3>1. UNCHANGED <<msg, erec>>
      BY Zenon, <2>1 DEF disk, OpenAccountDB, EraseFiles
    <3> QED BY Zenon, <1>1, <3>1
  <2>2. CASE OpenAccountCommit \/ EraseCommit
    <3>1. PICK ids \in SUBSET Msgs : EraseRecords(ids)
      BY Zenon, <2>2 DEF OpenAccountCommit, EraseCommit, TypeOK
    <3> QED BY Zenon, <1>1, <3>1 DEF EraseRecords, TypeOK
  <2>3. ASSUME NEW a \in Broadcasters, NEW m \in Msgs, Deliver(a, m)
        PROVE Exact' /\ \A k \in Msgs : msg[k] = "erased" => msg'[k] = "erased"
    BY Zenon, <1>1, <2>3 DEF Deliver, TypeOK
  <2>4. ASSUME NEW a \in Broadcasters, NEW ids \in SUBSET Msgs, MessageRemove(a, ids)
        PROVE Exact' /\ \A k \in Msgs : msg[k] = "erased" => msg'[k] = "erased"
    BY Zenon, <1>1, <2>4 DEF MessageRemove, Live, TypeOK
  <2>5. ASSUME NEW a \in Broadcasters, NEW m \in Msgs, NEW old \in Msgs, MoveMessage(a, m, old)
        PROVE Exact' /\ \A k \in Msgs : msg[k] = "erased" => msg'[k] = "erased"
    BY <1>1, <2>5 DEF MoveMessage, TypeOK
  <2> HIDE DEF Exact
  <2> QED BY Zenon, <2>1, <2>2, <2>3, <2>4, <2>5, DiskSteps
<1>3. eraser' = "committed" => \A m \in batch' : msg'[m] = "erased"
  <2>1. CASE EraseCommit
    BY Zenon, <2>1 DEF EraseCommit, EraseRecords, TypeOK, erasing
  <2>2. CASE UNCHANGED <<eraser, batch>>
    BY Zenon, <1>2, <2>2 DEF RecordsInv, TypeOK
  <2>3. CASE SendErase \/ EraseFail \/ EraseFiles \/ EraserClose \/ Crash
    BY Zenon, <2>3 DEF SendErase, EraseFail, EraseFiles, EraserClose, Crash
  <2> QED BY Zenon, <2>1, <2>2, <2>3, EraserSteps DEF Eraser
<1> QED BY Zenon, <1>2, <1>3 DEF RecordsInv

\* The messages that count for the disk usage.
Counting == {m \in Msgs : msg[m] = "live" \/ (msg[m] = "expunged" /\ m \notin skip)}

\* Sets of messages are finite.
LEMMA CountingFinite ==
  ASSUME NEW A \in SUBSET Msgs
  PROVE  IsFiniteSet(A) /\ Cardinality(A) \in Nat
<1>1. IsFiniteSet(A)
  BY Zenon, ConstantsAssumption, FS_Subset
<1> QED BY Zenon, <1>1, FS_CardinalityType

\* MessageAdd counts a message, and only erasing it (not the duplicate left by a move)
\* takes it off.
LEMMA DiskUsageStep ==
  ASSUME TypeOK, RecordsInv, DiskUsageExact, [Next]_vars
  PROVE  DiskUsageExact'
<1>1. IsFiniteSet(Counting) /\ Cardinality(Counting) \in Nat /\ du = Cardinality(Counting)
  BY Zenon, CountingFinite, Counting \in SUBSET Msgs DEF Counting, DiskUsageExact
<1>2. ASSUME du' = Cardinality(Counting') PROVE DiskUsageExact'
  BY Zenon, <1>2 DEF Counting, DiskUsageExact
<1>3. ASSUME Counting' = Counting, du' = du PROVE DiskUsageExact'
  BY Zenon, <1>1, <1>2, <1>3
<1>4. CASE UNCHANGED disk \/ (\E a \in Actors : OpenAccountDB(a)) \/ EraseFiles
  <2>1. UNCHANGED <<msg, skip, du>>
    BY Zenon, <1>4 DEF disk, OpenAccountDB, EraseFiles
  <2> QED BY Zenon, <1>3, <2>1 DEF Counting
<1>5. ASSUME NEW ids \in SUBSET Msgs, \A m \in ids : msg[m] = "expunged", EraseRecords(ids)
      PROVE DiskUsageExact'
  <2> DEFINE T == ids \ skip
  <2>1. Counting' = Counting \ T /\ Counting \cap T = T
    BY Zenon, <1>5 DEF EraseRecords, Counting, TypeOK
  <2>2. Cardinality(Counting \ T) = Cardinality(Counting) - Cardinality(Counting \cap T)
    BY Zenon, <1>1, FS_Difference
  <2>3. du' = du - Cardinality(T)
    BY Zenon, <1>5 DEF EraseRecords
  <2> HIDE DEF T
  <2> QED BY Zenon, <1>1, <1>2, <2>1, <2>2, <2>3
<1>6. CASE OpenAccountCommit
  BY Zenon, <1>5, <1>6, erec \in SUBSET Msgs DEF OpenAccountCommit, TypeOK
<1>7. CASE EraseCommit
  BY Zenon, <1>5, <1>7, batch \in SUBSET Msgs DEF EraseCommit, TypeOK
<1>8. ASSUME NEW a \in Broadcasters, NEW m \in Msgs, Deliver(a, m) PROVE DiskUsageExact'
  <2>1. Counting' = Counting \cup {m} /\ m \notin Counting /\ du' = du + 1
    BY <1>8 DEF Deliver, Counting, TypeOK
  <2>2. Cardinality(Counting \cup {m}) = Cardinality(Counting) + 1
    BY Zenon, <1>1, <2>1, FS_AddElement
  <2> QED BY Zenon, <1>1, <1>2, <2>1, <2>2
<1>9. ASSUME NEW a \in Broadcasters, NEW ids \in SUBSET Msgs, MessageRemove(a, ids) PROVE DiskUsageExact'
  <2>1. \A m \in ids : msg[m] = "live" /\ m \notin skip
    BY Zenon, <1>9 DEF MessageRemove, Live, RecordsInv, TypeOK
  <2>2. Counting' = Counting /\ du' = du
    BY Zenon, <1>9, <2>1 DEF MessageRemove, Counting, TypeOK
  <2> QED BY Zenon, <1>3, <2>2
<1>10. ASSUME NEW a \in Broadcasters, NEW m \in Msgs, NEW old \in Msgs, MoveMessage(a, m, old)
       PROVE DiskUsageExact'
  <2>1. Counting' = Counting /\ du' = du
    BY Zenon, <1>10 DEF MoveMessage, Counting, TypeOK
  <2> QED BY Zenon, <1>3, <2>1
<1> QED BY Zenon, <1>4, <1>6, <1>7, <1>8, <1>9, <1>10, DiskSteps

\* An account is opened by the transaction of OpenAccountDB only.
LEMMA OpenedByCommit ==
  ASSUME TypeOK, AccountInv, [Next]_vars, nused = 0
  PROVE  nused' = 0 \/ OpenAccountCommit
<1>1. CASE Next
  BY Zenon, <1>1, AsleepSteps DEF OpenAccountDB, Crash
<1>2. CASE UNCHANGED vars
  BY Zenon, <1>2 DEF vars, account
<1> QED BY Zenon, <1>1, <1>2

\* nused is never negative.
LEMMA UsedNat ==
  ASSUME TypeOK, AccountInv
  PROVE  nused \in Nat
<1>1. Cardinality({a \in Actors : sess[a] # "closed"}) \in Nat
  BY Zenon, OpenedFinite, {a \in Actors : sess[a] # "closed"} \in SUBSET Actors
<1> QED BY <1>1 DEF AccountInv, AccountRefs, One

\* Files are removed of erased messages only.
LEMMA FilesStep ==
  ASSUME TypeOK, TypeOK', AccountInv, RecordsInv, RecordHasFile, [Next]_vars
  PROVE  RecordHasFile'
<1>1. ASSUME \A m \in Msgs : m \in file => m \in file',
             \A m \in Msgs : msg'[m] \in {"live", "expunged"} => msg[m] \in {"live", "expunged"} \/ m \in file',
             \A m \in Msgs : msg'[m] = "live" => msg[m] = "live" \/ m \in file',
             nused' = nused
      PROVE RecordHasFile'
  BY Zenon, <1>1 DEF RecordHasFile, Live, TypeOK
<1>2. CASE UNCHANGED disk /\ ~OpenAccountCommit
  <2>1. UNCHANGED <<msg, file>>
    BY Zenon, <1>2 DEF disk
  <2>2. CASE nused = 0
    <3>1. nused' = 0
      BY Zenon, <1>2, <2>2, OpenedByCommit
    <3> QED BY <2>1, <3>1 DEF RecordHasFile, Live
  <2>3. CASE nused # 0
    <3>1. nused > 0
      BY <2>3, UsedNat
    <3> QED BY Zenon, <2>1, <3>1 DEF RecordHasFile, Live
  <2> QED BY Zenon, <2>2, <2>3
<1>3. ASSUME NEW a \in Actors, OpenAccountDB(a) PROVE RecordHasFile'
  <2>1. UNCHANGED msg /\ nused' = 0 /\ file' = file \ erec
    BY Zenon, <1>3 DEF OpenAccountDB
  <2> QED BY <2>1 DEF RecordHasFile, RecordsInv, Live
<1>4. CASE OpenAccountCommit
  <2>1. \A m \in Msgs : /\ msg'[m] # "expunged"
                        /\ msg'[m] = "live" => msg[m] = "live"
    BY Zenon, <1>4 DEF OpenAccountCommit, EraseRecords, RecordsInv, TypeOK
  <2>2. UNCHANGED file
    BY Zenon, <1>4 DEF OpenAccountCommit
  <2> QED BY Zenon, <2>1, <2>2 DEF RecordHasFile, Live
<1>5. ASSUME NEW a \in Broadcasters, NEW m \in Msgs, Deliver(a, m) PROVE RecordHasFile'
  <2>1. /\ file' = file \cup {m} /\ nused' = nused
        /\ \A k \in Msgs : msg'[k] = IF k = m THEN "live" ELSE msg[k]
    BY Zenon, <1>5 DEF Deliver, account, TypeOK
  <2> QED BY Zenon, <1>1, <2>1
<1>6. ASSUME NEW a \in Broadcasters, NEW ids \in SUBSET Msgs, MessageRemove(a, ids) PROVE RecordHasFile'
  <2>1. /\ UNCHANGED file /\ nused' = nused /\ \A m \in ids : msg[m] = "live"
        /\ \A k \in Msgs : msg'[k] = IF k \in ids THEN "expunged" ELSE msg[k]
    BY Zenon, <1>6 DEF MessageRemove, account, Live
  <2> QED BY Zenon, <1>1, <2>1
<1>7. ASSUME NEW a \in Broadcasters, NEW m \in Msgs, NEW old \in Msgs, MoveMessage(a, m, old)
      PROVE RecordHasFile'
  <2>1. /\ file' = file \cup {old} /\ nused' = nused
        /\ \A k \in Msgs : msg'[k] = IF k = old THEN "expunged" ELSE msg[k]
    BY Zenon, <1>7 DEF MoveMessage, LinkOrCopy, account, TypeOK
  <2> QED BY Zenon, <1>1, <2>1
<1>8. CASE EraseCommit
  <2>1. /\ UNCHANGED <<file, nused>>
        /\ \A m \in Msgs : msg'[m] = IF m \in batch THEN "erased" ELSE msg[m]
    BY Zenon, <1>8 DEF EraseCommit, EraseRecords, account
  <2> QED BY Zenon, <1>1, <2>1
<1>9. CASE EraseFiles
  <2>1. UNCHANGED <<msg, nused>> /\ file' = file \ batch /\ \A m \in batch : msg[m] = "erased"
    BY Zenon, <1>9 DEF EraseFiles, RecordsInv, account
  <2> QED BY Zenon, <2>1 DEF RecordHasFile, Live
<1> QED BY Zenon, <1>2, <1>3, <1>4, <1>5, <1>6, <1>7, <1>8, <1>9, DiskSteps

=============================================================================
