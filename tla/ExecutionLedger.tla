-------------------------- MODULE ExecutionLedger --------------------------
(***************************************************************************)
(* The durable execution ledger of the orchestrator: the MySQL rows of one *)
(* run (executions, execution_events, outbox, checkpoints) and the         *)
(* repository operations on them, called by any number of HTTP handlers of *)
(* any number of orchestrator instances in any order.                      *)
(*                                                                         *)
(* Every operation is one SQL transaction that locks the row of the run    *)
(* (SELECT ... FOR UPDATE), so one operation is one step.  The module is a *)
(* most general client: a handler may call any operation at any time with  *)
(* the fencing version it was last granted.  RunLifecycle restricts it to  *)
(* the order the handlers really use.                                      *)
(***************************************************************************)
EXTENDS Integers, FiniteSets, Sequences

CONSTANTS
  Runs,         \* run ids
  Requests,     \* request ids (the client's idempotency key for a run)
  Principals,   \* who asks
  Instances,    \* orchestrator processes (Server.instanceID)
  Handlers,     \* HTTP requests being served: records, see HandlersAssumption
  NoInstance,   \* NULL lease_owner
  NoRequest,    \* request_id of a run that has no row
  WorkStatuses, \* the non-terminal statuses callers write; the ledger only
                \* tells terminal from non-terminal ones
  MaxSeq,       \* bound: events per run
  MaxFencing    \* bound: leases granted per run

ASSUME HandlersAssumption ==
  Handlers \subseteq [id : STRING, run : Runs, request : Requests,
                      principal : Principals, instance : Instances]
ASSUME NullAssumption == NoInstance \notin Instances /\ NoRequest \notin Requests
ASSUME BoundAssumption == MaxSeq \in Nat /\ MaxFencing \in Nat

TerminalStatuses == {"completed", "failed", "cancelled"}
Statuses         == {"accepted"} \union WorkStatuses \union TerminalStatuses

ASSUME StatusAssumption == /\ WorkStatuses \subseteq STRING
                           /\ WorkStatuses \intersect TerminalStatuses = {}
                           /\ "absent" \notin WorkStatuses

VARIABLES
  row,          \* executions: one row per run
  events,       \* execution_events, UNIQUE(run_id, seq)
  outbox,       \* outbox rows in AUTO_INCREMENT order
  checkpoints,  \* checkpoints, UNIQUE(run_id, version)
  admitted,     \* handlers whose AcceptRun returned without an error
  token         \* the fencing version a handler holds, 0 when it holds none

vars == <<row, events, outbox, checkpoints, admitted, token>>

AbsentRow == [status |-> "absent", seq |-> 0, fencing |-> 0, owner |-> NoInstance,
              live |-> FALSE, request |-> NoRequest, principal |-> NoRequest]

Exists(r)     == row[r].status # "absent"
IsTerminal(s) == s \in TerminalStatuses

-----------------------------------------------------------------------------
Init ==
  /\ row = [r \in Runs |-> AbsentRow]
  /\ events = {}
  /\ outbox = <<>>
  /\ checkpoints = {}
  /\ admitted = {}
  /\ token = [h \in Handlers |-> 0]

RowOfRequest(q) == {r \in Runs : Exists(r) /\ row[r].request = q}

NewRow(h) == [AbsentRow EXCEPT !.status = "accepted",
                !.request = h.request, !.principal = h.principal]

\* The INSERT succeeds unless the run id or the request id is taken.  On a
\* duplicate key the row of the request decides: the same run, asked by the
\* same principal, is admitted again, anything else is ErrRequestConflict
\* (or ErrNotFound when another request created the run).
IsNew(h) == ~ Exists(h.run) /\ RowOfRequest(h.request) = {}

\* Mutant: whoever knows the request id is admitted.
IsReplayByAnyone(h) == Exists(h.run) /\ h.run \in RowOfRequest(h.request)

IsReplay(h) == /\ Exists(h.run)
               /\ h.run \in RowOfRequest(h.request)
               /\ row[h.run].principal = h.principal

AcceptRun(h) ==
  /\ h \notin admitted
  /\ IsNew(h) \/ IsReplay(h)
  /\ row' = IF IsReplay(h) THEN row ELSE [row EXCEPT ![h.run] = NewRow(h)]
  /\ admitted' = admitted \union {h}
  /\ UNCHANGED <<events, outbox, checkpoints, token>>

\* ErrLeaseHeld only for a live lease of another instance: the instance that
\* holds the lease may take it again.
HeldByOther(h) ==
  /\ row[h.run].owner # NoInstance
  /\ row[h.run].owner # h.instance
  /\ row[h.run].live

\* Mutant: an instance that holds the lease already keeps its fencing version.
GrantedAgain(h) ==
  IF row[h.run].owner = h.instance THEN row[h.run].fencing ELSE row[h.run].fencing + 1

Granted(h) == row[h.run].fencing + 1

AcquireLease(h) ==
  /\ Exists(h.run)
  /\ ~ IsTerminal(row[h.run].status)
  /\ ~ HeldByOther(h)
  /\ row[h.run].fencing < MaxFencing
  /\ row' = [row EXCEPT ![h.run].owner = h.instance, ![h.run].live = TRUE,
                        ![h.run].fencing = Granted(h)]
  /\ token' = [token EXCEPT ![h] = Granted(h)]
  /\ UNCHANGED <<events, outbox, checkpoints, admitted>>

\* The renewal that succeeds; its failure leaves the row as it is.
RenewLease(h) ==
  /\ token[h] > 0
  /\ row[h.run].owner = h.instance
  /\ row[h.run].fencing = token[h]
  /\ ~ IsTerminal(row[h.run].status)
  /\ row' = [row EXCEPT ![h.run].live = TRUE]
  /\ UNCHANGED <<events, outbox, checkpoints, admitted, token>>

\* ReleaseLease when the handler returns: the UPDATE touches the row only while
\* owner and fencing version are still the caller's.
ReleaseLease(h) ==
  /\ token[h] > 0
  /\ row' = IF row[h.run].owner = h.instance /\ row[h.run].fencing = token[h]
              THEN [row EXCEPT ![h.run].owner = NoInstance, ![h.run].live = FALSE]
              ELSE row
  /\ token' = [token EXCEPT ![h] = 0]
  /\ admitted' = admitted \ {h}
  /\ UNCHANGED <<events, outbox, checkpoints>>

\* Mutant: the fencing version is not compared.
MayAppendUnfenced(h) == token[h] > 0 /\ Exists(h.run) /\ ~ IsTerminal(row[h.run].status)

\* Mutant: the status is not looked at.
MayAppendAfterTerminal(h) == token[h] > 0 /\ Exists(h.run) /\ row[h.run].fencing = token[h]

MayAppend(h) ==
  /\ token[h] > 0
  /\ Exists(h.run)
  /\ ~ IsTerminal(row[h.run].status)
  /\ row[h.run].fencing = token[h]

\* Mutant: the seq is taken before the counter of the row moves on.
NextSeqStale(r) == row[r].seq

NextSeq(r) == row[r].seq + 1

\* Row, event and outbox row in one transaction.
AppendStateChange(h, s) ==
  LET next == NextSeq(h.run) IN
  /\ MayAppend(h)
  /\ next <= MaxSeq
  /\ row' = [row EXCEPT ![h.run].seq = @ + 1, ![h.run].status = s]
  /\ events' = events \union {[run |-> h.run, seq |-> next, status |-> s, fencing |-> token[h]]}
  /\ outbox' = Append(outbox, [run |-> h.run, seq |-> next])
  /\ UNCHANGED <<checkpoints, admitted, token>>

\* SaveCheckpoint checks the fencing version but not the status.
Versions(r) == {c.version : c \in {d \in checkpoints : d.run = r}}

\* Mutant: any handler that was ever granted a lease may write one.
MayCheckpointUnfenced(h) == token[h] > 0

MayCheckpoint(h) == token[h] > 0 /\ row[h.run].fencing = token[h]

SaveCheckpoint(h) ==
  \E v \in 1..MaxSeq :
    /\ MayCheckpoint(h)
    /\ v \notin Versions(h.run)
    /\ \A w \in 1..MaxSeq : w < v => w \in Versions(h.run)
    /\ checkpoints' = checkpoints \union
         {[run |-> h.run, version |-> v, fencing |-> token[h]]}
    /\ UNCHANGED <<row, events, outbox, admitted, token>>

\* lease_expires_at passes.
LeaseExpires(r) ==
  /\ row[r].live
  /\ row' = [row EXCEPT ![r].live = FALSE]
  /\ UNCHANGED <<events, outbox, checkpoints, admitted, token>>

\* The process dies: its handlers are gone, its leases stay until they expire.
Crash(i) ==
  /\ \E h \in Handlers : h.instance = i /\ (token[h] > 0 \/ h \in admitted)
  /\ token' = [h \in Handlers |-> IF h.instance = i THEN 0 ELSE token[h]]
  /\ admitted' = {h \in admitted : h.instance # i}
  /\ UNCHANGED <<row, events, outbox, checkpoints>>

Next ==
  \/ \E h \in Handlers :
       \/ AcceptRun(h)
       \/ AcquireLease(h)
       \/ RenewLease(h)
       \/ ReleaseLease(h)
       \/ \E s \in WorkStatuses \union TerminalStatuses : AppendStateChange(h, s)
       \/ SaveCheckpoint(h)
  \/ \E r \in Runs : LeaseExpires(r)
  \/ \E i \in Instances : Crash(i)

Spec == Init /\ [][Next]_vars

-----------------------------------------------------------------------------
(* Type invariant: rows, events, outbox and checkpoints of the ledger keep   *)
(* the columns and the enumerations of the schema (repository.go:39-80).     *)
RowType ==
  [status : Statuses \union {"absent"}, seq : Nat, fencing : Nat,
   owner : Instances \union {NoInstance}, live : BOOLEAN,
   request : Requests \union {NoRequest}, principal : Principals \union {NoRequest}]

EventType == [run : Runs, seq : Nat, status : WorkStatuses \union TerminalStatuses,
              fencing : Nat]

TypeOK ==
  /\ row \in [Runs -> RowType]
  /\ events \subseteq EventType
  /\ outbox \in Seq([run : Runs, seq : Nat])
  /\ checkpoints \subseteq [run : Runs, version : Nat, fencing : Nat]
  /\ admitted \subseteq Handlers
  /\ token \in [Handlers -> Nat]

(* The events of a run carry the seqs 1..current_seq, each exactly once:     *)
(* AppendStateChange allocates the next seq under the row lock, so replay by *)
(* seq never meets a gap or two events of one number.                        *)
GapFreeSeq ==
  /\ \A e \in events : 1 <= e.seq /\ e.seq <= row[e.run].seq
  /\ \A r \in Runs : \A n \in 1..row[r].seq : \E e \in events : e.run = r /\ e.seq = n
  /\ \A e, f \in events : e.run = f.run /\ e.seq = f.seq => e = f

(* Terminal states are irreversible: a terminal event is the last event of   *)
(* its run and is what the row says (IsTerminal check of AppendStateChange). *)
TerminalIsLast ==
  \A e \in events : IsTerminal(e.status) =>
    e.seq = row[e.run].seq /\ row[e.run].status = e.status

(* An owner that lost its lease never writes after its successor: along the  *)
(* seqs of a run the fencing versions of the writers never go down.          *)
FencedOrder ==
  \A e, f \in events : e.run = f.run /\ e.seq < f.seq => e.fencing <= f.fencing

(* Two handlers never hold the same fencing version of a run, so at most one *)
(* handler can pass the fencing check of a write at any time.                *)
OneHolderPerToken ==
  \A g, h \in Handlers :
    g.run = h.run /\ token[g] = token[h] /\ token[g] > 0 => g = h

(* The checkpoint a resume loads (the highest version) was written under the *)
(* newest fencing version that wrote one: no fenced handler slips one in.    *)
CheckpointsFenced ==
  \A c, d \in checkpoints : c.run = d.run /\ c.version < d.version => c.fencing <= d.fencing

(* The relay publishes in id order, so id order must be seq order per run.   *)
OutboxInSeqOrder ==
  \A i, j \in DOMAIN outbox :
    i < j /\ outbox[i].run = outbox[j].run => outbox[i].seq < outbox[j].seq

(* A request id names one run, and whoever is admitted to a run asked with   *)
(* the request and the principal that created it (ErrRequestConflict).       *)
RequestIdempotent ==
  /\ \A r, s \in Runs : Exists(r) /\ Exists(s) /\ row[r].request = row[s].request => r = s
  /\ \A h \in admitted : row[h.run].request = h.request /\ row[h.run].principal = h.principal

(* A live lease never passes from one instance to another: the only way out  *)
(* is its expiry or its release by the holder (ErrLeaseHeld).                *)
LiveLeaseNotStolen ==
  [][\A r \in Runs : row[r].live /\ row[r].owner # row'[r].owner
                       => row'[r].owner = NoInstance /\ ~ row'[r].live]_vars

(* A terminal run is frozen: no later step changes its status, its seq or    *)
(* its fencing version, whoever still holds a token.                         *)
TerminalFrozen ==
  [][\A r \in Runs : IsTerminal(row[r].status) =>
       /\ row'[r].status = row[r].status
       /\ row'[r].seq = row[r].seq
       /\ row'[r].fencing = row[r].fencing]_vars

-----------------------------------------------------------------------------
(* The ledger implements one append-only log per run that is closed by its   *)
(* terminal entry: what the relay, replay and the projection rely on.        *)
StatusAt(r, n) == (CHOOSE e \in events : e.run = r /\ e.seq = n).status

Log == INSTANCE EventLog WITH
         log <- [r \in Runs |-> [n \in 1..row[r].seq |-> StatusAt(r, n)]]

ImplementsEventLog == Log!Spec
=============================================================================
