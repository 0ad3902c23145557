------------------------- MODULE StreamConsumerState -------------------------
(***************************************************************************)
(* What Redis, the consumer processes of a group and their handlers know   *)
(* of the entries of a stream, and what the group promises of them.        *)
(* StreamConsumer has the steps.                                           *)
(***************************************************************************)
EXTENDS Integers, Sequences, FiniteSets

CONSTANTS
  Consumers,    \* processes of the group
  RunOf,        \* stream entries in id order: the run of each
  Garbled,      \* entries whose frame may not decode
  Count,        \* page size of XPENDING and XAUTOCLAIM
  MaxAttempts,
  MaxFaults     \* bound: how often a process crashes, a Redis call fails

Entries == DOMAIN RunOf

ASSUME RunAssumption == Len(RunOf) \in Nat /\ Entries = 1..Len(RunOf) /\ Garbled \subseteq Entries
ASSUME LimitAssumption == Count \in Nat \ {0} /\ MaxAttempts \in Nat \ {0}
ASSUME FaultAssumption == MaxFaults \in [{"crash", "call"} -> Nat]

VARIABLES
  malformed,  \* entries whose frame does not decode
  last,     \* last id the group delivered
  pel,      \* pending entries list: id -> [count, idle]
  todo,     \* entries a loop has fetched and not yet dispatched: [id, attempt]
  dead,     \* whether a loop wrote the head of todo to the DLQ and must ack it
  scanned,  \* the claim pass is between XPENDING and XAUTOCLAIM
  snap,     \* delivery counts that XPENDING listed
  queue,    \* mailbox of a run's worker, its head being served
  phase,    \* what the worker does with the head
  seen,     \* event ids processed by this process
  calls,    \* handler calls per entry
  effects,  \* committed business effects, in order
  dlq,      \* dead letters: [id, attempt]
  faults

NotPending == [count |-> 0, idle |-> FALSE]
IsPending(e) == pel[e].count > 0

Done(e)       == \E k \in DOMAIN effects : effects[k] = e
DeadLetter(e) == \E d \in dlq : d.id = e

(* EB-DEL-01/02/04: an entry leaves the pending list only when its business  *)
(* effect is committed or it is in the dead letter queue, whatever crashes,  *)
(* fails or is claimed twice in between.                                     *)
NoEntryLost ==
  \A e \in 1..last : IsPending(e) \/ Done(e) \/ DeadLetter(e)

(* EB-DEL-04: the handler is called at most MaxAttempts times for an entry.  *)
(* It holds for one consumer whose page shows the whole pending list; an     *)
(* entry that XPENDING did not list is taken as its second attempt.          *)
CallsWithinBudget == \A e \in Entries : calls[e] <= MaxAttempts

(* EB-IDM-03 within one process: the duplicate guard and the per-run worker  *)
(* together commit an entry once, although a slow entry is claimed again     *)
(* while its first delivery is still handled and although XACKs fail.  Only  *)
(* a restart, which loses the guard, has a second effect.                    *)
EffectOnceUnlessCrash ==
  faults["crash"] = 0 =>
    \A j, k \in DOMAIN effects : effects[j] = effects[k] => j = k
=============================================================================
