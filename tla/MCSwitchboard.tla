---------------------------- MODULE MCSwitchboard ----------------------------
(* Instances of Switchboard for TLC. *)
EXTENDS Switchboard, TLC

\* Sessions of a kind, workers and messages are interchangeable.
Symmetric ==
    Permutations(Sessions \ (WebSessions \cup NotifySessions)) \cup Permutations(WebSessions)
    \cup Permutations(NotifySessions)
    \cup Permutations(Workers) \cup Permutations(Msgs)
=============================================================================
