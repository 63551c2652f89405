------------------------------ MODULE MCQueue ------------------------------
(***************************************************************************)
(* Instances of Queue for TLC.                                             *)
(***************************************************************************)
EXTENDS Queue, TLC

CONSTANTS m1, m2, m3, d1, d2

\* One submission of two recipients at one domain.
OneDomain == [m \in Msgs |-> d1]
Together == {Msgs}

\* Messages of their own, the third at another domain.
TwoDomains == [m \in Msgs |-> IF m = m3 THEN d2 ELSE d1]
Apart == {{m} : m \in Msgs}

-----------------------------------------------------------------------------
\* Behaviours in which the operator drops and holds no message, and the process is not
\* shut down.
NextAlone == Next /\ UNCHANGED <<hold, rule, trash, stopping>>

SpecAlone == Init /\ [][NextAlone]_vars /\ Fairness
=============================================================================
