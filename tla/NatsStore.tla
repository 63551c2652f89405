------------------------------ MODULE NatsStore ------------------------------
(***************************************************************************)
(* Storing messages in a NATS object store (store/nats.go, and the end of  *)
(* MessageAdd in store/account.go).                                        *)
(*                                                                         *)
(* MessageAdd runs in the transaction of a delivery, under the write lock  *)
(* of the account.  With DeleteAfterStore ("forward") it stores the        *)
(* message itself and marks it expunged; else a goroutine stores a copy.   *)
(* A message that could not be stored is written to a queue directory,     *)
(* which processPendingNATSLoop tries to empty.  One mutex keeps Puts      *)
(* apart.                                                                  *)
(*                                                                         *)
(* The object store, and the connection to it, are external: the client is *)
(* connected or not each time it is asked, and a Put may store, fail, or   *)
(* store and still return an error.  Time is in seconds, as in the names   *)
(* of objects.  Errors of the local disk are left out.                     *)
(***************************************************************************)
EXTENDS Naturals

CONSTANTS
    Deliveries,    \* deliveries, each of a message of its own
    Accounts,
    Account,       \* account of each delivery
    Loop,          \* processPendingNATSLoop
    None,
    MaxID,         \* bound: message IDs explored
    MaxTime,       \* bound: seconds explored
    MaxCrashes     \* bound: crashes explored

ASSUME NatsAssumption ==
    /\ Account \in [Deliveries -> Accounts]
    /\ Loop \notin Deliveries /\ None \notin Deliveries
    /\ MaxID \in Nat \ {0} /\ MaxTime \in Nat /\ MaxCrashes \in Nat

VARIABLES
    forward,    \* config DeleteAfterStore
    client,     \* GetNATSClient is not nil
    now,        \* time.Now().Unix()
    seq,        \* next message ID of each account
    delivery,   \* progress of each delivery
    id,         \* message ID of each delivery
    store,      \* progress of StoreMessageWithQueue for each delivery
    put,        \* the Put in progress, by the holder of the mutex
    object,     \* the bucket: content by object name
    queue,      \* the file in the queue directory of each delivery
    todo,       \* files the loop still has to handle, of those it listed
    stored,     \* what the loop stored, and is about to remove the file of
    clash,      \* deliveries of which an object was overwritten by other content
    cut,        \* deliveries of which the file was stored while it was being written
    crashes

local == <<seq, delivery, id>>
loop == <<todo, stored>>
vars == <<forward, client, now, local, store, put, object, queue, loop, clash, cut, crashes>>

IDs == 1..MaxID
Names == IDs \X (0..MaxTime)

\* Content of an object: of which delivery, and whether all of it.
Contents == [of : Deliveries, full : BOOLEAN]

ASSUME NoneAssumption == None \notin Contents

\* A Put, by StoreMessageWithQueue for a delivery or by the loop.
Puts == [by : Deliveries \cup {Loop}, name : Names, content : Contents]

Init ==
    /\ forward \in BOOLEAN
    /\ client = TRUE /\ now = 0
    /\ seq = [a \in Accounts |-> 1]
    /\ delivery = [d \in Deliveries |-> "new"]
    /\ id = [d \in Deliveries |-> 1]
    /\ store = [d \in Deliveries |-> "none"]
    /\ put = None
    /\ object = [n \in Names |-> None]
    /\ queue = [d \in Deliveries |-> "none"]
    /\ todo = {} /\ stored = None
    /\ clash = {} /\ cut = {} /\ crashes = 0

-----------------------------------------------------------------------------
(* Deliveries. *)

InProgress == {"forwarding", "adding", "deleting"}

Busy(a) == \E d \in Deliveries : Account[d] = a /\ delivery[d] \in InProgress

\* MessageAdd: the record gets its ID.  When connected, the message is stored now, or
\* handed to a goroutine (StoreMessageAsync).
MessageAdd(d, connected) ==
    /\ delivery[d] = "new" /\ ~Busy(Account[d])
    /\ seq[Account[d]] <= MaxID
    /\ id' = [id EXCEPT ![d] = seq[Account[d]]]
    /\ IF client /\ connected
       THEN /\ store' = [store EXCEPT ![d] = "wait"]
            /\ delivery' = [delivery EXCEPT ![d] = IF forward THEN "forwarding" ELSE "adding"]
       ELSE /\ delivery' = [delivery EXCEPT ![d] = "adding"]
            /\ UNCHANGED store
    /\ UNCHANGED <<forward, client, now, seq, put, object, queue, loop, clash, cut, crashes>>

\* As Forwarded, but an error of the store is only logged.
ForwardedAnyway(d) ==
    /\ delivery[d] = "forwarding" /\ store[d] \in {"ok", "error"}
    /\ delivery' = [delivery EXCEPT ![d] = "deleting"]
    /\ UNCHANGED <<forward, client, now, seq, id, store, put, object, queue, loop, clash, cut, crashes>>

\* As Forwarded, but the delivery waits until the message is stored.
ForwardedWaits(d) ==
    /\ delivery[d] = "forwarding" /\ store[d] = "ok"
    /\ delivery' = [delivery EXCEPT ![d] = "deleting"]
    /\ UNCHANGED <<forward, client, now, seq, id, store, put, object, queue, loop, clash, cut, crashes>>

\* The message was stored, and deleteMessageFromMailbox marks it expunged; or MessageAdd
\* returns the error, and the delivery fails.
Forwarded(d) ==
    /\ delivery[d] = "forwarding" /\ store[d] \in {"ok", "error"}
    /\ delivery' = [delivery EXCEPT ![d] = IF store[d] = "ok" THEN "deleting" ELSE "refused"]
    /\ UNCHANGED <<forward, client, now, seq, id, store, put, object, queue, loop, clash, cut, crashes>>

\* The transaction commits: the message is in the mailbox, or only in the bucket.
Commit(d) ==
    /\ delivery[d] \in {"adding", "deleting"}
    /\ delivery' = [delivery EXCEPT ![d] = IF @ = "adding" THEN "accepted" ELSE "forwarded"]
    /\ seq' = [seq EXCEPT ![Account[d]] = @ + 1]
    /\ UNCHANGED <<forward, client, now, id, store, put, object, queue, loop, clash, cut, crashes>>

\* The transaction fails after MessageAdd; its ID is given out again.
Fail(d) ==
    /\ delivery[d] \in {"adding", "deleting"}
    /\ delivery' = [delivery EXCEPT ![d] = "refused"]
    /\ UNCHANGED <<forward, client, now, seq, id, store, put, object, queue, loop, clash, cut, crashes>>

-----------------------------------------------------------------------------
(* StoreMessage. *)

ObjectName(d) == <<id[d], now>>

\* The mutex is free: it is taken, the object gets its name, and the file is read.
PutBegin(by, d, full) ==
    /\ put = None
    /\ put' = [by |-> by, name |-> ObjectName(d), content |-> [of |-> d, full |-> full]]

\* As PutResult, but the loop does not look at the error.
PutResultIgnored(ok) ==
    /\ put' = None
    /\ IF put.by = Loop
       THEN /\ stored' = put.content
            /\ UNCHANGED store
       ELSE /\ store' = [store EXCEPT ![put.by] = IF ok THEN "ok" ELSE "failed"]
            /\ UNCHANGED stored

\* What the end of a Put means to its caller.
PutResult(ok) ==
    /\ put' = None
    /\ IF put.by = Loop
       THEN /\ stored' = IF ok THEN put.content ELSE None
            /\ UNCHANGED store
       ELSE /\ store' = [store EXCEPT ![put.by] = IF ok THEN "ok" ELSE "failed"]
            /\ UNCHANGED stored

\* The object is stored, replacing one of the same name.  The answer may get lost.
PutStored(ok) ==
    /\ put # None
    /\ object' = [object EXCEPT ![put.name] = put.content]
    /\ clash' = IF object[put.name] \in {None, put.content} THEN clash ELSE clash \cup {object[put.name].of}
    /\ PutResult(ok)
    /\ UNCHANGED <<forward, client, now, local, queue, todo, cut, crashes>>

\* An error, at the latest after the timeout of the context.
PutFails ==
    /\ put # None
    /\ PutResult(FALSE)
    /\ UNCHANGED <<forward, client, now, local, object, queue, todo, clash, cut, crashes>>

-----------------------------------------------------------------------------
(* StoreMessageWithQueue, by the delivery or by the goroutine it started. *)

StoreBegin(d) ==
    /\ store[d] = "wait"
    /\ PutBegin(d, d, TRUE)
    /\ store' = [store EXCEPT ![d] = "put"]
    /\ UNCHANGED <<forward, client, now, local, object, queue, loop, clash, cut, crashes>>

\* The file is created, after the mutex is released ...
QueueCreate(d) ==
    /\ store[d] = "failed"
    /\ store' = [store EXCEPT ![d] = "copy"]
    /\ queue' = [queue EXCEPT ![d] = "partial"]
    /\ UNCHANGED <<forward, client, now, local, put, object, loop, clash, cut, crashes>>

\* ... and then written.  The loop may have removed it by then.
QueueCopied(d) ==
    /\ store[d] = "copy"
    /\ store' = [store EXCEPT ![d] = "error"]
    /\ queue' = [queue EXCEPT ![d] = IF @ = "partial" THEN "full" ELSE @]
    /\ UNCHANGED <<forward, client, now, local, put, object, loop, clash, cut, crashes>>

-----------------------------------------------------------------------------
(* processPendingNATSLoop. *)

LoopIdle == stored = None /\ (put # None => put.by # Loop)

\* As LoopList, but not after a restart.
LoopListFirst ==
    /\ LoopIdle /\ todo = {} /\ crashes = 0
    /\ todo' = {d \in Deliveries : queue[d] # "none"}
    /\ UNCHANGED <<forward, client, now, local, store, put, object, queue, stored, clash, cut, crashes>>

\* The files in the queue directory.
LoopList ==
    /\ LoopIdle /\ todo = {}
    /\ todo' = {d \in Deliveries : queue[d] # "none"}
    /\ UNCHANGED <<forward, client, now, local, store, put, object, queue, stored, clash, cut, crashes>>

\* The next file is opened and stored.
LoopPut(d) ==
    /\ LoopIdle /\ d \in todo
    /\ client
    /\ PutBegin(Loop, d, queue[d] = "full")
    /\ todo' = todo \ {d}
    /\ UNCHANGED <<forward, client, now, local, store, object, queue, stored, clash, cut, crashes>>

\* No client, or it is not connected: the loop waits and lists again.
LoopBreak ==
    /\ LoopIdle /\ todo # {}
    /\ todo' = {}
    /\ UNCHANGED <<forward, client, now, local, store, put, object, queue, stored, clash, cut, crashes>>

\* The file is removed.
LoopRemove ==
    /\ stored # None
    /\ queue' = [queue EXCEPT ![stored.of] = "none"]
    /\ cut' = IF stored.full THEN cut ELSE cut \cup {stored.of}
    /\ stored' = None
    /\ UNCHANGED <<forward, client, now, local, store, put, object, todo, clash, crashes>>

-----------------------------------------------------------------------------
(* Surroundings. *)

Tick ==
    /\ now < MaxTime
    /\ now' = now + 1
    /\ UNCHANGED <<forward, client, local, store, put, object, queue, loop, clash, cut, crashes>>

\* The process ends and starts again.  Messages in memory, and open transactions, are
\* gone.  If NATS cannot be reached at the start, there is no client.
Crash ==
    /\ crashes < MaxCrashes
    /\ crashes' = crashes + 1
    /\ client' \in BOOLEAN
    /\ delivery' = [d \in Deliveries |-> IF delivery[d] \in InProgress THEN "refused" ELSE delivery[d]]
    /\ store' = [d \in Deliveries |-> IF store[d] \in {"wait", "put", "failed", "copy"} THEN "gone" ELSE store[d]]
    /\ put' = None /\ todo' = {} /\ stored' = None
    /\ UNCHANGED <<forward, now, seq, id, object, queue, clash, cut>>

Next ==
    \/ \E d \in Deliveries :
        \/ \E connected \in BOOLEAN : MessageAdd(d, connected)
        \/ Forwarded(d) \/ Commit(d) \/ Fail(d)
        \/ StoreBegin(d) \/ QueueCreate(d) \/ QueueCopied(d)
        \/ LoopPut(d)
    \/ \E ok \in BOOLEAN : PutStored(ok)
    \/ PutFails
    \/ LoopList \/ LoopBreak \/ LoopRemove
    \/ Tick \/ Crash

Spec == Init /\ [][Next]_vars

\* Goroutines run, the mutex is fair, and a Put ends, if only by its timeout.  The loop
\* again and again finds the client connected, and has a Put that succeeds.
Fairness ==
    /\ WF_vars(\E d \in Deliveries : Forwarded(d) \/ Commit(d) \/ Fail(d) \/ QueueCreate(d) \/ QueueCopied(d))
    /\ WF_vars(PutFails \/ \E ok \in BOOLEAN : PutStored(ok))
    /\ SF_vars(\E d \in Deliveries : StoreBegin(d))
    /\ WF_vars(LoopList \/ LoopBreak \/ LoopRemove)
    /\ SF_vars(\E d \in Deliveries : LoopPut(d))
    /\ SF_vars(put # None /\ put.by = Loop /\ PutStored(TRUE))

FairSpec == Spec /\ Fairness

-----------------------------------------------------------------------------
(* Properties. *)

TypeOK ==
    /\ forward \in BOOLEAN /\ client \in BOOLEAN
    /\ now \in 0..MaxTime
    /\ seq \in [Accounts -> Nat \ {0}]
    /\ delivery \in [Deliveries -> InProgress \cup {"new", "accepted", "forwarded", "refused"}]
    /\ id \in [Deliveries -> IDs]
    /\ store \in [Deliveries -> {"none", "wait", "put", "ok", "failed", "copy", "error", "gone"}]
    /\ put \in Puts \cup {None}
    /\ object \in [Names -> Contents \cup {None}]
    /\ queue \in [Deliveries -> {"none", "partial", "full"}]
    /\ todo \subseteq Deliveries /\ stored \in Contents \cup {None}
    /\ clash \subseteq Deliveries /\ cut \subseteq Deliveries
    /\ crashes \in 0..MaxCrashes

\* The message is in the bucket.
Archived(d) == \E n \in Names : object[n] = [of |-> d, full |-> TRUE]

\* "Each email is stored with a unique object name": a message that was accepted and is not
\* in a mailbox is in the bucket.
Kept == \A d \in Deliveries : delivery[d] = "forwarded" => Archived(d)

\* As Kept, except for messages of which the object was overwritten by a message with the
\* same ID in the same second: no message is deleted locally before it is stored.
KeptUnlessClash == \A d \in Deliveries : delivery[d] = "forwarded" => Archived(d) \/ d \in clash

\* A message that could not be stored stays in the queue directory until it is, except when
\* the loop came across its file before it was complete.
QueuedUntilStored ==
    \A d \in Deliveries : store[d] = "error" => queue[d] = "full" \/ Archived(d) \/ d \in clash \cup cut

\* In the end every message handed to NATS is stored, whatever failed on the way; unless it
\* was still in memory at a crash, or NATS could not be reached after one.
EventuallyArchived ==
    <>[](\A d \in Deliveries :
            store[d] = "none" \/ Archived(d) \/ d \in clash \cup cut \/ store[d] = "gone" \/ ~client)

\* NATS does not block deliveries: each ends, and releases its account, also while NATS
\* does not answer and others wait for it.
DeliveriesEnd ==
    <>[](\A d \in Deliveries : delivery[d] \notin InProgress)

\* Whatever NATS does, deliveries come to an end and messages end up stored:
\* EventuallyArchived and DeliveriesEnd.
NatsSettles == EventuallyArchived /\ DeliveriesEnd

-----------------------------------------------------------------------------
(* The inductive invariant behind KeptUnlessClash and QueuedUntilStored. *)

\* The message was stored at some time.
WasStored(d) == Archived(d) \/ d \in clash

StoreInv ==
    /\ \A d \in Deliveries :
        /\ delivery[d] = "new" => store[d] = "none"
        /\ delivery[d] \in {"deleting", "forwarded"} => store[d] = "ok"
        /\ store[d] = "ok" => WasStored(d)
        /\ store[d] = "copy" => queue[d] = "partial" \/ WasStored(d) \/ d \in cut
        /\ store[d] = "error" => queue[d] = "full" \/ WasStored(d) \/ d \in cut
    /\ stored # None /\ stored.full => WasStored(stored.of)

\* The Put of a delivery is of all of its message.
PutInv ==
    put # None /\ put.by # Loop => put.content = [of |-> put.by, full |-> TRUE] /\ store[put.by] = "put"
=============================================================================
