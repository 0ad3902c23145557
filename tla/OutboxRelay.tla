---------------------------- MODULE OutboxRelay ----------------------------
(***************************************************************************)
(* The outbox relays of the orchestrator instances: each polls the pending *)
(* outbox rows in id order, publishes them to a Redis stream and marks     *)
(* them published.  With OUTBOX_RELAY_LEASE the instance that got the      *)
(* MySQL named lock at start-up is the only one to run a relay.            *)
(*                                                                         *)
(* Rows come from ExecutionLedger!AppendStateChange: in seq order per run  *)
(* (OutboxInSeqOrder there).  Every store or Redis call is one step.       *)
(***************************************************************************)
EXTENDS Integers, Sequences, FiniteSets

CONSTANTS
  Relays,       \* orchestrator processes
  NoRelay,      \* nobody holds the named lock
  AnyRelay,     \* OUTBOX_RELAY_LEASE is off: nobody asks for the lock
  Runs,
  BatchLimit,   \* rows per RunOnce
  MaxRows,      \* bound: rows committed
  MaxFaults     \* bound: how often a fault of each kind happens

FaultKinds == {"crash", "publish", "mark", "lock"}

ASSUME RelayAssumption == {NoRelay, AnyRelay} \intersect Relays = {} /\ NoRelay # AnyRelay
ASSUME LimitAssumption == BatchLimit \in Nat \ {0} /\ MaxRows \in Nat
ASSUME FaultAssumption == MaxFaults \in [FaultKinds -> Nat]

VARIABLES
  outbox,   \* rows in id order: [run, seq, published, due]
  stream,   \* entries of the Redis stream in XADD order: [run, seq]
  pc,       \* where a relay is
  batch,    \* ids of the loaded rows a relay has still to publish
  holder,   \* the connection that owns the named lock
  faults    \* how many faults of each kind happened

vars == <<outbox, stream, pc, batch, holder, faults>>

Init ==
  /\ outbox = <<>>
  /\ stream = <<>>
  /\ pc = [p \in Relays |-> "down"]
  /\ batch = [p \in Relays |-> {}]
  /\ holder \in {NoRelay, AnyRelay}
  /\ faults = [k \in FaultKinds |-> 0]

Fault(k) ==
  /\ faults[k] < MaxFaults[k]
  /\ faults' = [faults EXCEPT ![k] = @ + 1]

SeqsOf(r) == {outbox[i].seq : i \in {j \in DOMAIN outbox : outbox[j].run = r}}

\* The transaction of AppendStateChange.
Commit(r) ==
  /\ Len(outbox) < MaxRows
  /\ outbox' = Append(outbox, [run |-> r, seq |-> Cardinality(SeqsOf(r)) + 1,
                               published |-> FALSE, due |-> TRUE])
  /\ UNCHANGED <<stream, pc, batch, holder, faults>>

-----------------------------------------------------------------------------
\* main: the lock is tried once; without it the process never runs a relay.
\* Mutant: GET_LOCK is not asked for its answer.
MayWriteAlways(p) == TRUE

MayWrite(p) == holder \in {NoRelay, AnyRelay}

Start(p) ==
  /\ pc[p] = "down"
  /\ IF MayWrite(p)
       THEN /\ pc' = [pc EXCEPT ![p] = "idle"]
            /\ holder' = IF holder = AnyRelay THEN holder ELSE p
       ELSE pc' = [pc EXCEPT ![p] = "standby"] /\ UNCHANGED holder
  /\ UNCHANGED <<outbox, stream, batch, faults>>

\* RunOnce: the lease is checked once, before the rows are loaded; a relay
\* that lost it leaves Run for good.
Valid(p) == holder \in {p, AnyRelay}

CheckLease(p) ==
  /\ pc[p] = "idle"
  /\ pc' = [pc EXCEPT ![p] = IF Valid(p) THEN "checked" ELSE "stopped"]
  /\ UNCHANGED <<outbox, stream, batch, holder, faults>>

\* PendingOutbox: pending and available, ORDER BY id, LIMIT.
Pending == {i \in DOMAIN outbox : ~ outbox[i].published /\ outbox[i].due}

Page(rows) == {i \in rows : Cardinality({j \in rows : j < i}) < BatchLimit}

HasWork == Pending # {}

Load(p) ==
  /\ pc[p] = "checked"
  /\ batch' = [batch EXCEPT ![p] = Page(Pending)]
  /\ pc' = [pc EXCEPT ![p] = IF HasWork THEN "batch" ELSE "idle"]
  /\ UNCHANGED <<outbox, stream, holder, faults>>

\* Mutant: the newest row first.
NewestOf(p) == CHOOSE i \in batch[p] : \A j \in batch[p] : j <= i

Current(p) == CHOOSE i \in batch[p] : \A j \in batch[p] : i <= j
Entry(i) == [run |-> outbox[i].run, seq |-> outbox[i].seq]

Publish(p) ==
  /\ pc[p] = "batch"
  /\ stream' = Append(stream, Entry(Current(p)))
  /\ pc' = [pc EXCEPT ![p] = "mark"]
  /\ UNCHANGED <<outbox, batch, holder, faults>>

\* The event cannot be loaded, the XADD fails, or it succeeds and the answer is
\* lost: the row backs off (unless that update fails too, which is ignored) and
\* the batch is dropped.
PublishFails(p) ==
  /\ pc[p] = "batch"
  /\ Fault("publish")
  /\ stream' \in {stream, Append(stream, Entry(Current(p)))}
  /\ \E d \in BOOLEAN :
       outbox' = [outbox EXCEPT ![Current(p)].due = d /\ @]
  /\ pc' = [pc EXCEPT ![p] = "idle"]
  /\ batch' = [batch EXCEPT ![p] = {}]
  /\ UNCHANGED holder

\* Mutant: the loaded page is marked at once.
MarkedPage(p) == batch[p]

Marked(p) == {Current(p)}

MarkPublished(p) ==
  /\ pc[p] = "mark"
  /\ outbox' = [i \in DOMAIN outbox |->
                  IF i \in Marked(p) THEN [outbox[i] EXCEPT !.published = TRUE] ELSE outbox[i]]
  /\ batch' = [batch EXCEPT ![p] = @ \ {Current(p)}]
  /\ pc' = [pc EXCEPT ![p] = IF batch'[p] = {} THEN "idle" ELSE "batch"]
  /\ UNCHANGED <<stream, holder, faults>>

\* The update fails: the batch is dropped, the row stays pending and due.
MarkFails(p) ==
  /\ pc[p] = "mark"
  /\ Fault("mark")
  /\ pc' = [pc EXCEPT ![p] = "idle"]
  /\ batch' = [batch EXCEPT ![p] = {}]
  /\ UNCHANGED <<outbox, stream, holder>>

\* available_at passes.
BackoffEnds(i) ==
  /\ i \in DOMAIN outbox /\ ~ outbox[i].due
  /\ outbox' = [outbox EXCEPT ![i].due = TRUE]
  /\ UNCHANGED <<stream, pc, batch, holder, faults>>

-----------------------------------------------------------------------------
LockAfter(p) == IF holder = p THEN NoRelay ELSE holder

\* The process dies; MySQL drops the lock of its connection.
Crash(p) ==
  /\ pc[p] # "down"
  /\ Fault("crash")
  /\ pc' = [pc EXCEPT ![p] = "down"]
  /\ batch' = [batch EXCEPT ![p] = {}]
  /\ holder' = LockAfter(p)
  /\ UNCHANGED <<outbox, stream>>

\* Only the dedicated connection dies: the relay does not notice before its
\* next RunOnce.
LoseLock(p) ==
  /\ holder = p
  /\ Fault("lock")
  /\ holder' = NoRelay
  /\ UNCHANGED <<outbox, stream, pc, batch>>

RelayStep(p) ==
  \/ Start(p) \/ CheckLease(p) \/ Load(p) \/ Publish(p) \/ MarkPublished(p)

Next ==
  \/ \E r \in Runs : Commit(r)
  \/ \E p \in Relays : RelayStep(p) \/ PublishFails(p) \/ MarkFails(p) \/ Crash(p) \/ LoseLock(p)
  \/ \E i \in 1..MaxRows : BackoffEnds(i)

(* Fairness: a relay's ticker keeps running, a crashed process is restarted  *)
(* (restart: unless-stopped in docker-compose.yml) and a backoff ends.       *)
Fairness ==
  /\ \A p \in Relays : WF_vars(RelayStep(p))
  /\ \A i \in 1..MaxRows : WF_vars(BackoffEnds(i))

Spec == Init /\ [][Next]_vars /\ Fairness

-----------------------------------------------------------------------------
(* Type invariant: the rows of repository.go:690-713 and the relay's place   *)
(* in RunOnce.                                                               *)
TypeOK ==
  /\ outbox \in Seq([run : Runs, seq : 1..MaxRows, published : BOOLEAN, due : BOOLEAN])
  /\ Len(outbox) <= MaxRows
  /\ stream \in Seq([run : Runs, seq : 1..MaxRows])
  /\ pc \in [Relays -> {"down", "standby", "idle", "checked", "batch", "mark", "stopped"}]
  /\ batch \in [Relays -> SUBSET (1..MaxRows)]
  /\ \A p \in Relays : pc[p] \in {"batch", "mark"} <=> batch[p] # {}
  /\ holder \in Relays \union {NoRelay, AnyRelay}
  /\ faults \in [FaultKinds -> Nat]
  /\ \A k \in FaultKinds : faults[k] <= MaxFaults[k]

InStream(e) == \E k \in DOMAIN stream : stream[k] = e

(* At least once: a row is marked published only after its event is in the   *)
(* stream, whatever crashes or fails in between (relay.go:117-121).          *)
PublishedMeansInStream ==
  \A i \in DOMAIN outbox : outbox[i].published => InStream(Entry(i))

(* A consumer that drops duplicates by (runId, seq) sees a run in seq order: *)
(* whenever an event is in the stream, the earlier ones of its run precede   *)
(* its first occurrence.  relay.go:88-89 says so of every failure.           *)
FirstDeliveryInOrder ==
  \A k \in DOMAIN stream : \A n \in 1..(stream[k].seq - 1) :
    \E j \in 1..k : stream[j].run = stream[k].run /\ stream[j].seq = n

(* It holds through crashes, failed marks and a lock that moves, and even    *)
(* with several relays at once, until a row backs off after a failed XADD.   *)
InOrderWithoutBackoff == faults["publish"] = 0 => FirstDeliveryInOrder

(* What the lease is for: with a single writer a repeated event is repeated  *)
(* at once, the stream of a run never goes back behind a later seq.  It      *)
(* holds through crashes of the holder and failed marks; a lock lost in the  *)
(* middle of a batch breaks it, for the lease is checked once per batch.     *)
StreamNeverGoesBack ==
  holder # AnyRelay /\ faults["publish"] = 0 /\ faults["lock"] = 0 =>
    \A j, k \in DOMAIN stream :
      j < k /\ stream[j].run = stream[k].run => stream[j].seq <= stream[k].seq

(* No event is lost: every committed row is marked in the end and its event  *)
(* is in the stream, through crashes of the leader, failed XADDs and failed  *)
(* marks.  A lock lost with its connection is not taken again while both     *)
(* processes live.                                                           *)
EveryRowPublished ==
  \A i \in 1..MaxRows :
    (i \in DOMAIN outbox)
      ~> (\/ faults["lock"] > 0
          \/ i \in DOMAIN outbox /\ outbox[i].published /\ InStream(Entry(i)))
=============================================================================
