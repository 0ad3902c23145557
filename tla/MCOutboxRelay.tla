--------------------------- MODULE MCOutboxRelay ---------------------------
(***************************************************************************)
(* Two orchestrator processes, with and without the lease, and a fault of  *)
(* every kind.                                                             *)
(***************************************************************************)
EXTENDS OutboxRelay, TLC

CONSTANTS o1, o2

TwoRelays    == {o1, o2}
OneOfEach    == [k \in FaultKinds |-> 1]
=============================================================================
