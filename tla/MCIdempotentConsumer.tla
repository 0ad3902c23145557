------------------------ MODULE MCIdempotentConsumer ------------------------
(***************************************************************************)
(* Four deliveries of one event, the last with another payload.            *)
(***************************************************************************)
EXTENDS IdempotentConsumer, TLC

CONSTANTS d1, d2, d3, d4

All      == {d1, d2, d3, d4}
OneOther == [d \in All |-> IF d = d4 THEN 2 ELSE 1]
=============================================================================
