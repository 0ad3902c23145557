------------------------- MODULE MCExecutionLedger -------------------------
(***************************************************************************)
(* One run: two handlers of the instance that was asked for it, and one of *)
(* another instance and principal, which AcceptRun refuses once the run is *)
(* there but which may still ask for the lease, as a resume does.          *)
(***************************************************************************)
EXTENDS ExecutionLedger, TLC

CONSTANTS r1, q1, p1, p2, i1, i2

Handler(n, p, i) ==
  [id |-> n, run |-> r1, request |-> q1, principal |-> p, instance |-> i]

OneRunHandlers == {Handler("a", p1, i1), Handler("b", p1, i1), Handler("c", p2, i2)}
=============================================================================
