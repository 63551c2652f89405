----------------------------- MODULE MCNatsStore -----------------------------
(* NatsStore with deliveries to one account, or to two.                    *)
EXTENDS NatsStore

CONSTANTS d1, d2, a1, a2

OneAccount == [d \in Deliveries |-> a1]
=============================================================================
