---------------------------- MODULE MessageErasure ----------------------------
(***************************************************************************)
(* What the switchboard and the eraser promise together: an expunged       *)
(* message stays available to the sessions that may still refer to it, and *)
(* is erased only after the last of them let go of it.                     *)
(* The comments in store/state.go on eraseRefs state this promise.         *)
(***************************************************************************)
CONSTANTS Users, Items

VARIABLES
    state,  \* absent, live, expunged or erased
    users   \* the users that may still refer to an expunged item

Init ==
    /\ state = [m \in Items |-> "absent"]
    /\ users = [m \in Items |-> {}]

\* Every user may refer to an item at the time it is expunged.
Expunge(ids) ==
    /\ \A m \in ids : state[m] \in {"absent", "live"}
    /\ state' = [m \in Items |-> IF m \in ids THEN "expunged" ELSE state[m]]
    /\ users' = [m \in Items |-> IF m \in ids THEN Users ELSE users[m]]

Add(m) ==
    /\ state[m] = "absent"
    /\ state' = [state EXCEPT ![m] = "live"]
    /\ UNCHANGED users

\* Users let go, none comes back.
Release ==
    /\ users' \in [Items -> SUBSET Users]
    /\ \A m \in Items : users'[m] \subseteq users[m]
    /\ UNCHANGED state

Erase(ids) ==
    /\ \A m \in ids : state[m] = "expunged" /\ users[m] = {}
    /\ state' = [m \in Items |-> IF m \in ids THEN "erased" ELSE state[m]]
    /\ UNCHANGED users

Next ==
    \/ \E m \in Items : Add(m)
    \/ \E ids \in SUBSET Items : Expunge(ids) \/ Erase(ids)
    \/ Release

Spec == Init /\ [][Next]_<<state, users>>
=============================================================================
