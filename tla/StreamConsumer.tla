--------------------------- MODULE StreamConsumer ---------------------------
(***************************************************************************)
(* The Redis Streams consumers of one group (pkg/runtime/eventbus): each   *)
(* process runs a read loop (XREADGROUP), a claim loop (XPENDING, then     *)
(* XAUTOCLAIM) and one worker per run that calls the handler and           *)
(* acknowledges, retries or dead-letters the entry.                        *)
(*                                                                         *)
(* Redis is external: the group's last delivered id and its pending list   *)
(* are what the calls of redis.go make of them.  Every Redis call is one   *)
(* step.  RunDispatcher models the worker's hand-over in detail.           *)
(***************************************************************************)
EXTENDS StreamConsumerState

Runs    == {RunOf[e] : e \in Entries}
Loops   == {"read", "claim"}

redisVars == <<malformed, last, pel, dlq>>
loopVars  == <<todo, dead, scanned, snap>>
workVars  == <<queue, phase, seen, calls, effects>>
vars == <<malformed, last, pel, todo, dead, scanned, snap, queue, phase, seen, calls,
          effects, dlq, faults>>

NotListed == 0

Init ==
  /\ malformed \in SUBSET Garbled
  /\ last = 0
  /\ pel = [e \in Entries |-> NotPending]
  /\ todo = [c \in Consumers |-> [l \in Loops |-> <<>>]]
  /\ dead = [c \in Consumers |-> [l \in Loops |-> FALSE]]
  /\ scanned = [c \in Consumers |-> FALSE]
  /\ snap = [c \in Consumers |-> [e \in Entries |-> NotListed]]
  /\ queue = [c \in Consumers |-> [r \in Runs |-> <<>>]]
  /\ phase = [c \in Consumers |-> [r \in Runs |-> "none"]]
  /\ seen = [c \in Consumers |-> {}]
  /\ calls = [e \in Entries |-> 0]
  /\ effects = <<>>
  /\ dlq = {}
  /\ faults = [k \in {"crash", "call"} |-> 0]

Fault(k) == faults[k] < MaxFaults[k] /\ faults' = [faults EXCEPT ![k] = @ + 1]

\* The first Count entries of a set, in id order.
Page(S) == {e \in S : Cardinality({f \in S : f < e}) < Count}
\* The listing of a set in id order.
Listings(S) == {s \in [1..Cardinality(S) -> S] : \A j, k \in DOMAIN s : j < k => s[j] < s[k]}

Acked(e) == [pel EXCEPT ![e] = NotPending]

-----------------------------------------------------------------------------
(* readLoop: one XREADGROUP, then the entry is dispatched.                   *)
Read(c) ==
  /\ todo[c]["read"] = <<>>
  /\ last < Len(RunOf)
  /\ last' = last + 1
  /\ pel' = [pel EXCEPT ![last + 1] = [count |-> 1, idle |-> FALSE]]
  /\ todo' = [todo EXCEPT ![c]["read"] = <<[id |-> last + 1, attempt |-> 1]>>]
  /\ UNCHANGED <<malformed, dead, scanned, snap, workVars, dlq, faults>>

(* ClaimOnce, first call: XPENDING lists the first Count pending entries.    *)
Scan(c) ==
  /\ todo[c]["claim"] = <<>> /\ ~ scanned[c]
  /\ scanned' = [scanned EXCEPT ![c] = TRUE]
  /\ snap' = [snap EXCEPT ![c] = [e \in Entries |->
                IF e \in Page({f \in Entries : IsPending(f)}) THEN pel[e].count ELSE NotListed]]
  /\ UNCHANGED <<redisVars, todo, dead, workVars, faults>>

(* Second call: XAUTOCLAIM takes the first Count idle entries.  The attempt  *)
(* is the listed count plus one, and 2 for an entry that was not listed.     *)
\* Mutant: the attempt of a claimed entry is always its second.
AttemptTwo(c, e) == 2

Attempt(c, e) == IF snap[c][e] + 1 < 2 THEN 2 ELSE snap[c][e] + 1

Claimable(e) == IsPending(e) /\ pel[e].idle

Claim(c) ==
  LET claimed == Page({e \in Entries : Claimable(e)}) IN
  /\ scanned[c]
  /\ scanned' = [scanned EXCEPT ![c] = FALSE]
  /\ pel' = [e \in Entries |-> IF e \in claimed
                                 THEN [count |-> pel[e].count + 1, idle |-> FALSE] ELSE pel[e]]
  /\ \E s \in Listings(claimed) :
       todo' = [todo EXCEPT ![c]["claim"] =
                  [k \in DOMAIN s |-> [id |-> s[k], attempt |-> Attempt(c, s[k])]]]
  /\ snap' = [snap EXCEPT ![c] = [e \in Entries |-> NotListed]]
  /\ UNCHANGED <<malformed, last, dead, workVars, dlq, faults>>

\* A malformed entry, and on the claim path one whose budget is spent, goes
\* to the DLQ and is acknowledged by the loop itself.
Undeliverable(t) == t.id \in malformed \/ t.attempt > MaxAttempts

Dispatch(c, l) ==
  LET t == Head(todo[c][l]) IN
  /\ todo[c][l] # <<>> /\ ~ Undeliverable(t)
  /\ queue' = [queue EXCEPT ![c][RunOf[t.id]] = Append(@, t)]
  /\ todo' = [todo EXCEPT ![c][l] = Tail(@)]
  /\ UNCHANGED <<redisVars, dead, scanned, snap, phase, seen, calls, effects, faults>>

LoopWritesDlq(c, l) ==
  LET t == Head(todo[c][l]) IN
  /\ todo[c][l] # <<>> /\ Undeliverable(t) /\ ~ dead[c][l]
  /\ dlq' = dlq \union {[id |-> t.id, attempt |-> t.attempt]}
  /\ dead' = [dead EXCEPT ![c][l] = TRUE]
  /\ UNCHANGED <<malformed, last, pel, todo, scanned, snap, workVars, faults>>

LoopAcks(c, l) ==
  /\ dead[c][l]
  /\ pel' = Acked(Head(todo[c][l]).id)
  /\ todo' = [todo EXCEPT ![c][l] = Tail(@)]
  /\ dead' = [dead EXCEPT ![c][l] = FALSE]
  /\ UNCHANGED <<malformed, last, scanned, snap, workVars, dlq, faults>>

\* The DLQ write or the XACK fails: the entry stays pending.  A malformed
\* entry is skipped; a spent one ends the claim pass.
LoopCallFails(c, l) ==
  LET t == Head(todo[c][l]) IN
  /\ todo[c][l] # <<>> /\ Undeliverable(t)
  /\ Fault("call")
  /\ todo' = [todo EXCEPT ![c][l] = IF t.attempt > MaxAttempts THEN <<>> ELSE Tail(@)]
  /\ dead' = [dead EXCEPT ![c][l] = FALSE]
  /\ UNCHANGED <<redisVars, scanned, snap, workVars>>

-----------------------------------------------------------------------------
(* deliver, by the worker of a run: the duplicate guard, the handler, then   *)
(* Ack or Nack.                                                              *)
Task(c, r) == Head(queue[c][r])

\* Mutant: no duplicate guard.
DuplicateNever(c, r) == FALSE

\* Mutant: an event is marked before its handler has returned.
DuplicateOnceCalled(c, r) == calls[Task(c, r).id] > 0

Duplicate(c, r) == Task(c, r).id \in seen[c]

Begin(c, r) ==
  /\ queue[c][r] # <<>> /\ phase[c][r] = "none"
  /\ IF Duplicate(c, r)
       THEN phase' = [phase EXCEPT ![c][r] = "ack"] /\ UNCHANGED calls
       ELSE /\ phase' = [phase EXCEPT ![c][r] = "handling"]
            /\ calls' = [calls EXCEPT ![Task(c, r).id] = @ + 1]
  /\ UNCHANGED <<redisVars, loopVars, queue, seen, effects, faults>>

HandlerCommits(c, r) ==
  /\ phase[c][r] = "handling"
  /\ effects' = Append(effects, Task(c, r).id)
  /\ seen' = [seen EXCEPT ![c] = @ \union {Task(c, r).id}]
  /\ phase' = [phase EXCEPT ![c][r] = "ack"]
  /\ UNCHANGED <<redisVars, loopVars, queue, calls, faults>>

Finished(c, r) ==
  /\ queue' = [queue EXCEPT ![c][r] = Tail(@)]
  /\ phase' = [phase EXCEPT ![c][r] = "none"]

\* Nack: nothing is acknowledged while budget remains.
Spent(t) == t.attempt >= MaxAttempts

HandlerFails(c, r) ==
  /\ phase[c][r] = "handling"
  /\ IF Spent(Task(c, r))
       THEN phase' = [phase EXCEPT ![c][r] = "dlq"] /\ UNCHANGED queue
       ELSE Finished(c, r)
  /\ UNCHANGED <<redisVars, loopVars, seen, calls, effects, faults>>

WriteDlq(c, r) ==
  /\ phase[c][r] = "dlq"
  /\ dlq' = dlq \union {Task(c, r)}
  /\ phase' = [phase EXCEPT ![c][r] = "ack"]
  /\ UNCHANGED <<malformed, last, pel, loopVars, queue, seen, calls, effects, faults>>

Ack(c, r) ==
  /\ phase[c][r] = "ack"
  /\ pel' = Acked(Task(c, r).id)
  /\ Finished(c, r)
  /\ UNCHANGED <<malformed, last, loopVars, seen, calls, effects, dlq, faults>>

\* The XACK or the DLQ write fails: the entry stays pending.
WorkerCallFails(c, r) ==
  /\ phase[c][r] \in {"ack", "dlq"}
  /\ Fault("call")
  /\ Finished(c, r)
  /\ UNCHANGED <<redisVars, loopVars, seen, calls, effects>>

-----------------------------------------------------------------------------
\* ClaimMinIdle passes without a delivery of the entry.
GoesIdle(e) ==
  /\ IsPending(e) /\ ~ pel[e].idle
  /\ pel' = [pel EXCEPT ![e].idle = TRUE]
  /\ UNCHANGED <<malformed, last, dlq, loopVars, workVars, faults>>

\* The process stops or dies and comes back empty.
Crash(c) ==
  /\ Fault("crash")
  /\ todo' = [todo EXCEPT ![c] = [l \in Loops |-> <<>>]]
  /\ dead' = [dead EXCEPT ![c] = [l \in Loops |-> FALSE]]
  /\ scanned' = [scanned EXCEPT ![c] = FALSE]
  /\ snap' = [snap EXCEPT ![c] = [e \in Entries |-> NotListed]]
  /\ queue' = [queue EXCEPT ![c] = [r \in Runs |-> <<>>]]
  /\ phase' = [phase EXCEPT ![c] = [r \in Runs |-> "none"]]
  /\ seen' = [seen EXCEPT ![c] = {}]
  /\ UNCHANGED <<redisVars, calls, effects>>

LoopStep(c, l)   == Dispatch(c, l) \/ LoopWritesDlq(c, l) \/ LoopAcks(c, l)
WorkerStep(c, r) == \/ Begin(c, r) \/ HandlerCommits(c, r) \/ HandlerFails(c, r)
                    \/ WriteDlq(c, r) \/ Ack(c, r)

Next ==
  \/ \E c \in Consumers :
       \/ Read(c) \/ Scan(c) \/ Claim(c) \/ Crash(c)
       \/ \E l \in Loops : LoopStep(c, l) \/ LoopCallFails(c, l)
       \/ \E r \in Runs : WorkerStep(c, r) \/ WorkerCallFails(c, r)
  \/ \E e \in Entries : GoesIdle(e)

(* Fairness: both loops and the workers run, handlers return, time passes.   *)
Fairness ==
  /\ \A c \in Consumers :
       /\ WF_vars(Read(c)) /\ WF_vars(Scan(c)) /\ WF_vars(Claim(c))
       /\ \A l \in Loops : WF_vars(LoopStep(c, l))
       /\ \A r \in Runs : WF_vars(WorkerStep(c, r))
  /\ \A e \in Entries : WF_vars(GoesIdle(e))

Spec == Init /\ [][Next]_vars /\ Fairness
-----------------------------------------------------------------------------
Tasks  == [id : Entries, attempt : Nat]
Phases == {"none", "handling", "dlq", "ack"}

(* Type invariant: Redis, the loops and the workers; a worker is busy only   *)
(* with the head of its mailbox.                                             *)
TypeOK ==
  /\ malformed \subseteq Garbled
  /\ last \in 0..Len(RunOf)
  /\ pel \in [Entries -> [count : Nat, idle : BOOLEAN]]
  /\ todo \in [Consumers -> [Loops -> Seq(Tasks)]]
  /\ dead \in [Consumers -> [Loops -> BOOLEAN]]
  /\ scanned \in [Consumers -> BOOLEAN]
  /\ snap \in [Consumers -> [Entries -> Nat]]
  /\ queue \in [Consumers -> [Runs -> Seq(Tasks)]]
  /\ phase \in [Consumers -> [Runs -> Phases]]
  /\ \A c \in Consumers, r \in Runs : phase[c][r] # "none" => queue[c][r] # <<>>
  /\ seen \in [Consumers -> SUBSET Entries]
  /\ calls \in [Entries -> Nat]
  /\ effects \in Seq(Entries)
  /\ dlq \subseteq Tasks
  /\ faults \in [{"crash", "call"} -> Nat]
  /\ \A k \in {"crash", "call"} : faults[k] \in 0..MaxFaults[k]

(* EB-DEL-03/04: every entry is settled: it takes effect or is a dead letter *)
(* in the end, and the pending list never keeps one for ever, not even one   *)
(* whose handler always fails.                                               *)
EveryEntrySettled ==
  \A e \in Entries : <>[](e <= last /\ ~ IsPending(e) /\ (Done(e) \/ DeadLetter(e)))
=============================================================================
