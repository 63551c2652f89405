--------------------------- MODULE NatsStoreProofs ---------------------------
(***************************************************************************)
(* Proofs about NatsStore, for any deliveries, accounts, IDs and times.    *)
(***************************************************************************)
EXTENDS NatsStore, TLAPS

\* Every variable of the deliveries, the store, the queue directory and the loop keeps
\* its type.
THEOREM NatsTyping == Spec => []TypeOK
<1> USE NatsAssumption, NoneAssumption
<1>1. Init => TypeOK
  BY DEF Init, TypeOK, IDs
<1>2. TypeOK /\ [Next]_vars => TypeOK'
  <2> SUFFICES ASSUME TypeOK, [Next]_vars PROVE TypeOK'
    OBVIOUS
  <2> USE DEF TypeOK, local, loop, InProgress
  <2>1. ASSUME NEW d \in Deliveries, NEW connected \in BOOLEAN, MessageAdd(d, connected) PROVE TypeOK'
    <3>1. seq[Account[d]] \in IDs
      BY <2>1 DEF MessageAdd, IDs
    <3> QED BY Zenon, <2>1, <3>1 DEF MessageAdd
  <2>2. ASSUME NEW d \in Deliveries, Forwarded(d) PROVE TypeOK'
    BY Zenon, <2>2 DEF Forwarded
  <2>3. ASSUME NEW d \in Deliveries, Commit(d) PROVE TypeOK'
    BY <2>3 DEF Commit
  <2>4. ASSUME NEW d \in Deliveries, Fail(d) PROVE TypeOK'
    BY Zenon, <2>4 DEF Fail
  <2>5. ASSUME NEW by \in Deliveries \cup {Loop}, NEW d \in Deliveries, NEW full \in BOOLEAN, PutBegin(by, d, full)
        PROVE put' \in Puts
    <3>1. ObjectName(d) \in Names
      BY Zenon DEF ObjectName, Names
    <3>2. [of |-> d, full |-> full] \in Contents
      BY Zenon DEF Contents
    <3> QED BY Zenon, <2>5, <3>1, <3>2 DEF PutBegin, Puts
  <2>6. ASSUME NEW d \in Deliveries, StoreBegin(d) PROVE TypeOK'
    <3>1. put' \in Puts
      BY Zenon, <2>5, <2>6 DEF StoreBegin
    <3> QED BY Zenon, <2>6, <3>1 DEF StoreBegin
  <2>7. ASSUME NEW d \in Deliveries, QueueCreate(d) PROVE TypeOK'
    BY Zenon, <2>7 DEF QueueCreate
  <2>8. ASSUME NEW d \in Deliveries, QueueCopied(d) PROVE TypeOK'
    BY Zenon, <2>8 DEF QueueCopied
  <2>9. ASSUME NEW d \in Deliveries, LoopPut(d) PROVE TypeOK'
    <3>1. put' \in Puts
      BY Zenon, <2>5, <2>9 DEF LoopPut
    <3> QED BY Zenon, <2>9, <3>1 DEF LoopPut
  <2>10. ASSUME NEW ok \in BOOLEAN, put # None, PutResult(ok)
         PROVE /\ put' = None
               /\ store' \in [Deliveries -> {"none", "wait", "put", "ok", "failed", "copy", "error", "gone"}]
               /\ stored' \in Contents \cup {None}
    BY Zenon, <2>10 DEF PutResult, Puts
  <2>11. ASSUME NEW ok \in BOOLEAN, PutStored(ok) PROVE TypeOK'
    <3>1. put \in Puts /\ PutResult(ok)
      BY Zenon, <2>11 DEF PutStored
    <3>2. object' \in [Names -> Contents \cup {None}] /\ clash' \subseteq Deliveries
      BY <2>11, <3>1 DEF PutStored, Puts, Contents
    <3> QED BY Zenon, <2>10, <2>11, <3>1, <3>2 DEF PutStored
  <2>12. CASE PutFails
    BY Zenon, <2>10, <2>12 DEF PutFails
  <2>13. CASE LoopList
    BY Zenon, <2>13 DEF LoopList
  <2>14. CASE LoopBreak
    BY Zenon, <2>14 DEF LoopBreak
  <2>15. CASE LoopRemove
    BY Zenon, <2>15 DEF LoopRemove, Contents
  <2>16. CASE Tick
    BY <2>16 DEF Tick
  <2>17. CASE Crash
    BY <2>17 DEF Crash
  <2>18. CASE UNCHANGED vars
    BY Zenon, <2>18 DEF vars
  <2> HIDE DEF TypeOK, local, loop, InProgress
  <2> QED
    BY Zenon, <2>1, <2>2, <2>3, <2>4, <2>6, <2>7, <2>8, <2>9, <2>11, <2>12, <2>13, <2>14, <2>15, <2>16, <2>17, <2>18 DEF Next
<1> QED BY <1>1, <1>2, PTL DEF Spec

-----------------------------------------------------------------------------
(* What was stored. *)

\* Objects are only replaced by a Put, and then their message is in clash.
LEMMA StoredStays ==
  ASSUME TypeOK, [Next]_vars, NEW d \in Deliveries, WasStored(d)
  PROVE  WasStored(d)'
<1>1. CASE UNCHANGED <<object, clash>>
  BY Zenon, <1>1 DEF WasStored, Archived
<1>2. ASSUME NEW ok \in BOOLEAN, PutStored(ok) PROVE WasStored(d)'
  <2>1. CASE d \in clash
    BY Zenon, <1>2, <2>1 DEF PutStored, WasStored
  <2>2. CASE Archived(d)
    <3>1. PICK n \in Names : object[n] = [of |-> d, full |-> TRUE]
      BY Zenon, <2>2 DEF Archived
    <3>2. object[n] # None
      <4>1. [of |-> d, full |-> TRUE] \in Contents
        BY Zenon DEF Contents
      <4> QED BY Zenon, <3>1, <4>1, NoneAssumption
    <3>3. CASE n = put.name /\ object[n] # put.content
      BY <1>2, <3>1, <3>2, <3>3 DEF PutStored, WasStored
    <3>4. CASE n # put.name \/ object[n] = put.content
      BY Zenon, <1>2, <3>1, <3>4 DEF PutStored, WasStored, Archived, TypeOK
    <3> QED BY Zenon, <3>3, <3>4
  <2> QED BY Zenon, <2>1, <2>2 DEF WasStored
<1> QED
  BY Zenon, <1>1, <1>2 DEF Next, vars, MessageAdd, Forwarded, Commit, Fail, StoreBegin, QueueCreate, QueueCopied,
     LoopPut, PutFails, LoopList, LoopBreak, LoopRemove, Tick, Crash

\* A Put of all of a message stores it.
LEMMA PutStores ==
  ASSUME TypeOK, NEW ok \in BOOLEAN, PutStored(ok), NEW d \in Deliveries,
         put.content = [of |-> d, full |-> TRUE]
  PROVE  WasStored(d)'
<1>1. put \in Puts
  BY Zenon DEF PutStored, TypeOK
<1>2. put.name \in Names /\ object'[put.name] = [of |-> d, full |-> TRUE]
  BY Zenon, <1>1 DEF PutStored, TypeOK, Puts
<1> QED BY Zenon, <1>2 DEF WasStored, Archived

\* StoreInv and the content of Puts are preserved.
LEMMA StoreStep == TypeOK /\ StoreInv /\ PutInv /\ [Next]_vars => StoreInv' /\ PutInv'
<1> SUFFICES ASSUME TypeOK, StoreInv, PutInv, [Next]_vars PROVE StoreInv' /\ PutInv'
  OBVIOUS
<1> USE NatsAssumption, NoneAssumption DEF local, loop
<1>0. \A d \in Deliveries : WasStored(d) => WasStored(d)'
  BY Zenon, StoredStays
<1>s. stored # None => stored.of \in Deliveries
  BY Zenon DEF TypeOK, Contents
<1>1. ASSUME NEW d \in Deliveries, NEW connected \in BOOLEAN, MessageAdd(d, connected) PROVE StoreInv' /\ PutInv'
  <2>1. store' = store \/ store' = [store EXCEPT ![d] = "wait"]
    BY Zenon, <1>1 DEF MessageAdd
  <2>2. delivery[d] = "new" /\ store[d] = "none" /\ UNCHANGED <<stored, put, queue, cut>>
    BY Zenon, <1>1 DEF MessageAdd, StoreInv
  <2>3. \E v \in {"forwarding", "adding"} : delivery' = [delivery EXCEPT ![d] = v]
    BY Zenon, <1>1 DEF MessageAdd
  <2>4. \A e \in Deliveries \ {d} : store'[e] = store[e] /\ delivery'[e] = delivery[e]
    BY <2>1, <2>3 DEF TypeOK
  <2>5. store'[d] \in {"none", "wait"} /\ delivery'[d] \in {"forwarding", "adding"}
    BY ZenonT(60), <2>1, <2>2, <2>3 DEF TypeOK
  <2>6. StoreInv'
    BY Zenon, <1>0, <1>s, <2>2, <2>4, <2>5 DEF StoreInv
  <2>7. put # None /\ put.by # Loop => put.by \in Deliveries \ {d}
    BY Zenon, <2>2 DEF PutInv, TypeOK, Puts
  <2>8. PutInv'
    BY Zenon, <2>2, <2>4, <2>7 DEF PutInv
  <2> QED BY Zenon, <2>6, <2>8
<1>2. ASSUME NEW d \in Deliveries, Forwarded(d) PROVE StoreInv' /\ PutInv'
  BY Zenon, <1>0, <1>s, <1>2 DEF Forwarded, StoreInv, PutInv, TypeOK
<1>3. ASSUME NEW d \in Deliveries, Commit(d) PROVE StoreInv' /\ PutInv'
  BY Zenon, <1>0, <1>s, <1>3 DEF Commit, StoreInv, PutInv, TypeOK
<1>4. ASSUME NEW d \in Deliveries, Fail(d) PROVE StoreInv' /\ PutInv'
  BY Zenon, <1>0, <1>s, <1>4 DEF Fail, StoreInv, PutInv, TypeOK
<1>5. ASSUME NEW d \in Deliveries, StoreBegin(d) PROVE StoreInv' /\ PutInv'
  BY Zenon, <1>0, <1>s, <1>5 DEF StoreBegin, PutBegin, StoreInv, PutInv, TypeOK
<1>6. ASSUME NEW d \in Deliveries, QueueCreate(d) PROVE StoreInv' /\ PutInv'
  BY <1>0, <1>s, <1>6 DEF QueueCreate, StoreInv, PutInv, TypeOK
<1>7. ASSUME NEW d \in Deliveries, QueueCopied(d) PROVE StoreInv' /\ PutInv'
  BY <1>0, <1>s, <1>7 DEF QueueCopied, StoreInv, PutInv, TypeOK
<1>8. ASSUME NEW d \in Deliveries, LoopPut(d) PROVE StoreInv' /\ PutInv'
  BY Zenon, <1>0, <1>s, <1>8 DEF LoopPut, PutBegin, StoreInv, PutInv, TypeOK
<1>9. ASSUME NEW ok \in BOOLEAN, PutStored(ok) PROVE StoreInv' /\ PutInv'
  <2>1. put \in Puts /\ PutResult(ok)
    BY Zenon, <1>9 DEF PutStored, TypeOK
  <2>2. put.content.full => put.content = [of |-> put.content.of, full |-> TRUE]
    BY Zenon, <2>1 DEF Puts, Contents
  <2>3. put.content.of \in Deliveries
    BY Zenon, <2>1 DEF Puts, Contents
  <2>4. CASE put.by = Loop
    <3>1. stored' = (IF ok THEN put.content ELSE None) /\ UNCHANGED <<store, delivery, queue, cut>> /\ put' = None
      BY Zenon, <1>9, <2>1, <2>4 DEF PutStored, PutResult
    <3>2. stored' # None /\ stored'.full => WasStored(stored.of)'
      <4>1. ASSUME NEW d \in Deliveries, put.content = [of |-> d, full |-> TRUE] PROVE WasStored(d)'
        BY Zenon, <1>9, <4>1, PutStores
      <4> QED BY Zenon, <2>2, <2>3, <3>1, <4>1
    <3> QED BY Zenon, <1>0, <3>1, <3>2 DEF StoreInv, PutInv
  <2>5. CASE put.by # Loop
    <3>1. put.by \in Deliveries /\ put.content = [of |-> put.by, full |-> TRUE] /\ store[put.by] = "put"
      BY Zenon, <1>9, <2>1, <2>5 DEF Puts, PutInv, PutStored
    <3>2. ASSUME NEW d \in Deliveries, d = put.by PROVE WasStored(d)'
      BY Zenon, <1>9, <3>1, <3>2, PutStores
    <3>3. /\ store' = [store EXCEPT ![put.by] = IF ok THEN "ok" ELSE "failed"]
          /\ UNCHANGED <<stored, delivery, queue, cut>> /\ put' = None
      BY Zenon, <1>9, <2>1, <2>5 DEF PutStored, PutResult
    <3> QED BY ZenonT(60), <1>0, <1>s, <3>1, <3>2, <3>3 DEF StoreInv, PutInv, TypeOK
  <2> QED BY Zenon, <2>4, <2>5
<1>10. CASE PutFails
  <2>1. put \in Puts
    BY Zenon, <1>10 DEF PutFails, TypeOK
  <2> QED BY <1>0, <1>s, <1>10, <2>1 DEF PutFails, PutResult, StoreInv, PutInv, TypeOK, Puts
<1>11. CASE LoopList
  BY Zenon, <1>0, <1>s, <1>11 DEF LoopList, StoreInv, PutInv
<1>12. CASE LoopBreak
  BY Zenon, <1>0, <1>s, <1>12 DEF LoopBreak, StoreInv, PutInv
<1>13. CASE LoopRemove
  BY Zenon, <1>0, <1>s, <1>13 DEF LoopRemove, StoreInv, PutInv, TypeOK
<1>14. CASE Tick
  BY Zenon, <1>0, <1>s, <1>14 DEF Tick, StoreInv, PutInv
<1>15. CASE Crash
  BY Zenon, <1>0, <1>s, <1>15 DEF Crash, StoreInv, PutInv, TypeOK, InProgress
<1>16. CASE UNCHANGED vars
  BY Zenon, <1>0, <1>s, <1>16 DEF vars, StoreInv, PutInv
<1> QED
  BY Zenon, <1>1, <1>2, <1>3, <1>4, <1>5, <1>6, <1>7, <1>8, <1>9, <1>10, <1>11, <1>12, <1>13, <1>14, <1>15, <1>16 DEF Next

LEMMA StoreInvariance == Spec => []StoreInv
<1>1. Init => StoreInv /\ PutInv
  BY Zenon DEF Init, StoreInv, PutInv
<1> QED BY <1>1, StoreStep, NatsTyping, PTL DEF Spec

\* In forward-only mode no message is deleted from its mailbox (deleteMessageFromMailbox)
\* before the bucket has it: it can only be lost to an object of the same name.
THEOREM StoredBeforeDeleted == Spec => []KeptUnlessClash
<1>1. StoreInv => KeptUnlessClash
  BY Zenon DEF StoreInv, WasStored, KeptUnlessClash
<1> QED BY <1>1, StoreInvariance, PTL

\* A message that StoreMessageWithQueue could not store stays in the queue directory until
\* the loop has stored it, whatever Puts fail and wherever the process is restarted.
THEOREM QueueForgetsNothing == Spec => []QueuedUntilStored
<1>1. StoreInv => QueuedUntilStored
  BY Zenon DEF StoreInv, WasStored, QueuedUntilStored
<1> QED BY <1>1, StoreInvariance, PTL
=============================================================================
