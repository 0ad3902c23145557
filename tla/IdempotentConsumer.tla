------------------------- MODULE IdempotentConsumer -------------------------
(***************************************************************************)
(* The SQL idempotency guard of an event consumer (eventbus/sqlidem):      *)
(* Process runs the business handler in a transaction that owns the row of *)
(* the event.  The deliveries of one event are modelled: consumers of the  *)
(* group may process them at the same time, one after the other or after a *)
(* crash.                                                                  *)
(*                                                                         *)
(* A transaction claims the row (INSERT ... ON DUPLICATE KEY UPDATE, SELECT *)
(* ... FOR UPDATE) and holds its lock to the end; what it writes becomes   *)
(* visible when it commits.                                                *)
(***************************************************************************)
EXTENDS Integers, Sequences, FiniteSets

CONSTANTS
  Deliveries,  \* deliveries of the event, redeliveries included
  NoDelivery,  \* nobody holds the row lock
  Hash,        \* the event hash each delivery presents
  NoHash,
  MaxCrashes   \* bound: deliveries cut off by a crash

VARIABLES
  row,      \* committed row: [status, hash, attempts]
  lock,     \* the delivery whose transaction holds the row
  pc,       \* where Process is, or what it returned
  effects,  \* committed business effects, by delivery
  crashes

vars == <<row, lock, pc, effects, crashes>>

NoRow    == [status |-> "none", hash |-> NoHash, attempts |-> 0]
InFlight == {"claim", "handler", "failed"}
Returned == {"ok", "duplicate", "conflict", "error", "lost"}

Init ==
  /\ row = NoRow
  /\ lock = NoDelivery
  /\ pc = [d \in Deliveries |-> "new"]
  /\ effects = <<>>
  /\ crashes = 0

Deliver(d) ==
  /\ pc[d] = "new"
  /\ pc' = [pc EXCEPT ![d] = "claim"]
  /\ UNCHANGED <<row, lock, effects, crashes>>

\* The claim waits for the lock.
MayClaim(d) == pc[d] = "claim" /\ lock = NoDelivery

(* A completed event is a duplicate, or a conflict when the hash differs.    *)
(* The duplicate commits its incremented attempts, the conflict rolls back.  *)
Settled == row.status = "done"

SeeDone(d) ==
  /\ MayClaim(d) /\ Settled
  /\ IF row.hash = Hash[d]
       THEN /\ row' = [row EXCEPT !.attempts = @ + 1]
            /\ pc' = [pc EXCEPT ![d] = "duplicate"]
       ELSE pc' = [pc EXCEPT ![d] = "conflict"] /\ UNCHANGED row
  /\ UNCHANGED <<lock, effects, crashes>>

EnterHandler(d) ==
  /\ MayClaim(d) /\ ~ Settled
  /\ lock' = d
  /\ pc' = [pc EXCEPT ![d] = "handler"]
  /\ UNCHANGED <<row, effects, crashes>>

\* The business write, the status and the hash commit together; a first claim
\* inserted the row with its hash.
HandlerCommits(d) ==
  /\ pc[d] = "handler"
  /\ row' = [status |-> "done", hash |-> Hash[d], attempts |-> row.attempts + 1]
  /\ effects' = Append(effects, d)
  /\ lock' = NoDelivery
  /\ pc' = [pc EXCEPT ![d] = "ok"]
  /\ UNCHANGED crashes

(* The handler fails: the transaction is rolled back and its lock released,  *)
(* then recordFailure writes the row in a transaction of its own.            *)
HandlerFails(d) ==
  /\ pc[d] = "handler"
  /\ lock' = NoDelivery
  /\ pc' = [pc EXCEPT ![d] = "failed"]
  /\ UNCHANGED <<row, effects, crashes>>

RecordFailure(d) ==
  /\ pc[d] = "failed" /\ lock = NoDelivery
  /\ row' = [status |-> "failed", hash |-> Hash[d], attempts |-> row.attempts + 1]
  /\ pc' = [pc EXCEPT ![d] = "error"]
  /\ UNCHANGED <<lock, effects, crashes>>

LockAfter(d) == IF lock = d THEN NoDelivery ELSE lock

\* The process or its connection dies: MySQL rolls the transaction back.
Crash(d) ==
  /\ crashes < MaxCrashes
  /\ pc[d] \in InFlight
  /\ crashes' = crashes + 1
  /\ pc' = [pc EXCEPT ![d] = "lost"]
  /\ lock' = LockAfter(d)
  /\ UNCHANGED <<row, effects>>

Next ==
  \E d \in Deliveries :
    \/ Deliver(d) \/ SeeDone(d) \/ EnterHandler(d) \/ HandlerCommits(d)
    \/ HandlerFails(d) \/ RecordFailure(d) \/ Crash(d)

Spec == Init /\ [][Next]_vars

-----------------------------------------------------------------------------
(* Type invariant: at most one transaction is inside the handler.            *)
TypeOK ==
  /\ row \in [status : {"none", "failed", "done"},
              hash : {Hash[d] : d \in Deliveries} \union {NoHash}, attempts : Nat]
  /\ lock \in Deliveries \union {NoDelivery}
  /\ pc \in [Deliveries -> InFlight \union Returned \union {"new"}]
  /\ \A d \in Deliveries : pc[d] = "handler" <=> lock = d
  /\ effects \in Seq(Deliveries)
  /\ crashes \in 0..MaxCrashes

(* EB-IDM-03: however the deliveries overlap, fail or crash, the business    *)
(* effect of the event is committed once.                                    *)
OneEffect == Len(effects) <= 1

(* EB-IDM-04: a delivery that is acknowledged has an effect of its own or    *)
(* relies on the committed effect of the same payload.                       *)
AckedMeansEffect ==
  \A d \in Deliveries :
    /\ pc[d] = "ok" => \E k \in DOMAIN effects : effects[k] = d
    /\ pc[d] = "duplicate" => \E k \in DOMAIN effects : Hash[effects[k]] = Hash[d]

-----------------------------------------------------------------------------
(* The guard implements one atomic choice per recorded failure: the first    *)
(* delivery to commit has the effect and the others change nothing, unless   *)
(* the failure of a delivery is recorded, which may forget that effect.      *)
Effect == INSTANCE SingleEffect WITH
            winners <- effects,
            refused <- {d \in Deliveries : pc[d] = "error"}
ImplementsSingleEffect == Effect!Spec
=============================================================================
