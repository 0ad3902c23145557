----------------------------- MODULE SingleEffect -----------------------------
(***************************************************************************)
(* What the idempotency guard keeps of its promise for one event: a        *)
(* delivery has the effect or is refused, no effect is taken back, and a   *)
(* further effect needs a further refusal.                                 *)
(***************************************************************************)
EXTENDS Integers, Sequences, FiniteSets

CONSTANT Deliveries

VARIABLES
  winners,  \* deliveries whose effect was committed, in order
  refused   \* deliveries that reported an error

Init == winners = <<>> /\ refused = {}

Undecided(d) == d \notin refused /\ \A k \in DOMAIN winners : winners[k] # d

Win(d) ==
  /\ Undecided(d)
  /\ Len(winners) <= Cardinality(refused)
  /\ winners' = Append(winners, d)
  /\ UNCHANGED refused

Refuse(d) ==
  /\ Undecided(d)
  /\ refused' = refused \union {d}
  /\ UNCHANGED winners

Next == \E d \in Deliveries : Win(d) \/ Refuse(d)

Spec == Init /\ [][Next]_<<winners, refused>>
=============================================================================
