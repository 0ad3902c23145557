---------------------------- MODULE RunLifecycle ----------------------------
(***************************************************************************)
(* The HTTP handlers of the orchestrator that own a run, over the ledger:  *)
(* handleRunStream (a new run) and handleResumeRun (a paused or crashed    *)
(* one), each with its lease renewal goroutine and its cancel watcher, the *)
(* cancel endpoint and the in-process RunTaskRegistry.                     *)
(*                                                                         *)
(* A handler is a program counter; every ledger call it makes is one step. *)
(* Planning, validation, emission of SSE events and the executor are       *)
(* abstracted to their outcome.                                            *)
(***************************************************************************)
EXTENDS Integers, Sequences, FiniteSets

CONSTANTS
  Runs, Requests, Principals, Instances, Handlers, NoInstance, NoRequest,
  WorkStatuses, MaxSeq, MaxFencing,     \* see ExecutionLedger
  Resumers,      \* the handlers that serve POST .../resume; the others stream
  ClientsLeave,  \* bound: whether clients may disconnect
  MaxRevisions   \* bound: checkpoints of revised plans

\* Those of ExecutionLedger, and the statuses that the handlers write.
ASSUME HandlersAssumption ==
  Handlers \subseteq [id : STRING, run : Runs, request : Requests,
                      principal : Principals, instance : Instances]
ASSUME NullAssumption == NoInstance \notin Instances /\ NoRequest \notin Requests
ASSUME BoundAssumption == MaxSeq \in Nat /\ MaxFencing \in Nat
ASSUME StatusAssumption ==
  /\ WorkStatuses \subseteq STRING
  /\ WorkStatuses \intersect {"absent", "completed", "failed", "cancelled"} = {}
  /\ {"planning", "awaiting_approval", "executing", "paused"} \subseteq WorkStatuses
ASSUME ResumersAssumption == Resumers \subseteq Handlers
ASSUME ClientsAssumption == ClientsLeave \in BOOLEAN /\ MaxRevisions \in Nat

VARIABLES
  row, events, outbox, checkpoints, admitted, token,   \* the ledger
  pc,              \* where a handler is
  ctx,             \* its execution context is not cancelled
  outcome,         \* how it ended, for its final ledger write
  cancelRequested, \* run_cancels
  registry,        \* RunTaskRegistry of every instance
  cancelling       \* cancel requests between their SQL write and their local part

ledgerVars == <<row, events, outbox, checkpoints, admitted, token>>
localVars  == <<pc, ctx, outcome, cancelRequested, registry, cancelling>>
vars       == <<row, events, outbox, checkpoints, admitted, token,
                pc, ctx, outcome, cancelRequested, registry, cancelling>>

Ledger == INSTANCE ExecutionLedger

Streams == Handlers \ Resumers

\* pc: "new"       request received        "planned"   state planning written
\*     "admitted"  AcceptRun returned      "planSaved" its checkpoint written
\*     "leased"    AcquireLease returned   "asked"     state awaiting_approval
\*     "loaded"    resume read the run     "waiting"   confirm loop
\*     "approved"  may execute             "executing" state executing written
\*     "running"   executor active         "record"    its outcome to be written
\*     "finish"    a failure before the executor started, to be written
\*     "retire", "release"  deferred calls ahead, with and without RemoveRun
\*     "done", "dead" (process crashed)
Active   == {"admitted", "leased", "loaded", "planned", "planSaved", "asked", "waiting",
             "approved", "executing", "running", "record", "retire", "finish", "release"}

Outcome == Ledger!TerminalStatuses \union {"disconnected"}

\* One entry of a RunTaskRegistry: present, cancelled, and the handler whose
\* cancel function it stores (a set of at most one).
NoEntry == [present |-> FALSE, cancelled |-> FALSE, fn |-> {}]
Key(h)  == <<h.instance, h.run>>

Init ==
  /\ Ledger!Init
  /\ pc = [h \in Handlers |-> "new"]
  /\ ctx = [h \in Handlers |-> TRUE]
  /\ outcome = [h \in Handlers |-> "failed"]
  /\ cancelRequested = {}
  /\ registry = [k \in Instances \X Runs |-> NoEntry]
  /\ cancelling = {}

Goto(h, l) == pc' = [pc EXCEPT ![h] = l]

EndWith(h, s, l) ==
  /\ Goto(h, l)
  /\ outcome' = [outcome EXCEPT ![h] = s]

-----------------------------------------------------------------------------
(* newRunLedger: AcceptRun, then AcquireLease as this instance.              *)
Accept(h) ==
  /\ pc[h] = "new" /\ h \in Streams
  /\ Ledger!AcceptRun(h)
  /\ Goto(h, "admitted")
  /\ UNCHANGED <<ctx, outcome, cancelRequested, registry, cancelling>>

Rejected(h) ==
  /\ pc[h] = "new" /\ h \in Streams
  /\ ~ (Ledger!IsNew(h) \/ Ledger!IsReplay(h))
  /\ Goto(h, "done")
  /\ UNCHANGED <<ledgerVars, ctx, outcome, cancelRequested, registry, cancelling>>

Acquire(h) ==
  /\ pc[h] \in {"admitted", "loaded"}
  /\ Ledger!AcquireLease(h)
  /\ Goto(h, IF h \in Resumers THEN "approved" ELSE "leased")
  /\ UNCHANGED <<ctx, outcome, cancelRequested, registry, cancelling>>

LeaseRefused(h) == Ledger!IsTerminal(row[h.run].status) \/ Ledger!HeldByOther(h)

AcquireFails(h) ==
  /\ pc[h] \in {"admitted", "loaded"}
  /\ LeaseRefused(h)
  /\ Goto(h, "done")
  /\ UNCHANGED <<ledgerVars, ctx, outcome, cancelRequested, registry, cancelling>>

(* LoadResume: a run with a plan and a checkpoint, paused or executing.      *)
LoadResume(h) ==
  /\ pc[h] = "new" /\ h \in Resumers
  /\ row[h.run].status \in {"paused", "executing"}
  /\ Goto(h, "loaded")
  /\ UNCHANGED <<ledgerVars, ctx, outcome, cancelRequested, registry, cancelling>>

(* A state or checkpoint write under the request context.  It fails when the *)
(* client has gone or the ledger refuses; a stream then records the run as   *)
(* failed (abortRunWithLedger), a resume only releases its lease.            *)
AbortWrite(h) ==
  /\ IF h \in Resumers
       THEN Goto(h, "release") /\ UNCHANGED outcome
       ELSE EndWith(h, "failed", "finish")
  /\ UNCHANGED ledgerVars

WriteState(h, s, next) ==
  /\ \/ ctx[h] /\ Ledger!AppendStateChange(h, s) /\ Goto(h, next) /\ UNCHANGED outcome
     \/ ~ (ctx[h] /\ Ledger!MayAppend(h)) /\ AbortWrite(h)
  /\ UNCHANGED <<ctx, cancelRequested, registry, cancelling>>

WriteCheckpoint(h, next) ==
  \/ ctx[h] /\ Ledger!SaveCheckpoint(h) /\ Goto(h, next) /\ UNCHANGED outcome
  \/ ~ (ctx[h] /\ Ledger!MayCheckpoint(h)) /\ AbortWrite(h)

(* The planner, the validators and the boundary check, then state planning   *)
(* and its checkpoint.                                                       *)
PlanRejected(h) ==
  /\ pc[h] = "leased"
  /\ EndWith(h, "failed", "finish")
  /\ UNCHANGED <<ledgerVars, ctx, cancelRequested, registry, cancelling>>

PlanAccepted(h) == pc[h] = "leased" /\ WriteState(h, "planning", "planned")

SavePlanning(h) ==
  /\ pc[h] = "planned"
  /\ WriteCheckpoint(h, "planSaved")
  /\ UNCHANGED <<ctx, cancelRequested, registry, cancelling>>

SkipConfirmation(h) ==
  /\ pc[h] = "planSaved"
  /\ Goto(h, "approved")
  /\ UNCHANGED <<ledgerVars, ctx, outcome, cancelRequested, registry, cancelling>>

AskConfirmation(h) == pc[h] = "planSaved" /\ WriteState(h, "awaiting_approval", "asked")

\* The checkpoint of the plan shown to the user, and of each revision of it.
SaveAsked(h) ==
  /\ pc[h] \in {"asked", "waiting"}
  /\ pc[h] = "waiting" => Cardinality(Ledger!Versions(h.run)) < 2 + MaxRevisions
  /\ WriteCheckpoint(h, "waiting")
  /\ UNCHANGED <<ctx, cancelRequested, registry, cancelling>>

(* The confirm loop ends: approved, cancelled by the user or by a recorded   *)
(* cancel request, or its deadline passes.  A lost client, or a revision     *)
(* that cannot be planned, returns without any ledger write.                 *)
Approve(h) ==
  /\ pc[h] = "waiting"
  /\ Goto(h, "approved")
  /\ UNCHANGED <<ledgerVars, ctx, outcome, cancelRequested, registry, cancelling>>

RefuseOrExpire(h) ==
  /\ pc[h] = "waiting"
  /\ \E s \in {"cancelled", "failed"} : EndWith(h, s, "finish")
  /\ UNCHANGED <<ledgerVars, ctx, cancelRequested, registry, cancelling>>

AbandonWaiting(h) ==
  /\ pc[h] = "waiting"
  /\ Goto(h, "release")
  /\ UNCHANGED <<ledgerVars, ctx, outcome, cancelRequested, registry, cancelling>>

(* A resume validates the loaded plan again before it writes.                *)
ResumeInvalid(h) ==
  /\ pc[h] = "approved" /\ h \in Resumers
  /\ EndWith(h, "failed", "finish")
  /\ UNCHANGED <<ledgerVars, ctx, cancelRequested, registry, cancelling>>

BeginExecution(h) == pc[h] = "approved" /\ WriteState(h, "executing", "executing")

(* The checkpoint, then RegisterRun, the renewal and the watcher start.  A   *)
(* resume ignores a failed checkpoint.  RegisterRun keeps the cancelled flag *)
(* of an entry that is already there and replaces its cancel function.       *)
Registered(h) == [registry EXCEPT ![Key(h)] = [@ EXCEPT !.present = TRUE, !.fn = {h}]]

StartExecutor(h) ==
  /\ pc[h] = "executing"
  /\ \/ WriteCheckpoint(h, "running") /\ h \in Streams
     \/ /\ h \in Resumers
        /\ \/ ctx[h] /\ Ledger!SaveCheckpoint(h)
           \/ ~ (ctx[h] /\ Ledger!MayCheckpoint(h)) /\ UNCHANGED ledgerVars
        /\ Goto(h, "running")
        /\ UNCHANGED outcome
  /\ registry' = IF pc'[h] = "running" THEN Registered(h) ELSE registry
  /\ UNCHANGED <<ctx, cancelRequested, cancelling>>

-----------------------------------------------------------------------------
(* While the executor runs.                                                  *)
Renew(h) ==
  /\ pc[h] = "running" /\ ctx[h]
  /\ Ledger!RenewLease(h)
  /\ UNCHANGED localVars

\* Mutant: only the end of the run stops the renewal.
LeaseLostAtTheEnd(h) == Ledger!IsTerminal(row[h.run].status)

LeaseLost(h) ==
  \/ row[h.run].owner # h.instance
  \/ row[h.run].fencing # token[h]
  \/ Ledger!IsTerminal(row[h.run].status)

RenewalLost(h) ==
  /\ pc[h] = "running" /\ ctx[h]
  /\ LeaseLost(h)
  /\ ctx' = [ctx EXCEPT ![h] = FALSE]
  /\ UNCHANGED <<ledgerVars, pc, outcome, cancelRequested, registry, cancelling>>

\* Mutant: only the registry of this instance is watched.
SeesLocalCancel(h) == registry[Key(h)].cancelled

SeesCancel(h) == h.run \in cancelRequested

WatchCancel(h) ==
  /\ pc[h] = "running" /\ ctx[h]
  /\ SeesCancel(h)
  /\ ctx' = [ctx EXCEPT ![h] = FALSE]
  /\ UNCHANGED <<ledgerVars, pc, outcome, cancelRequested, registry, cancelling>>

(* executeViaStreamingExecutor returns: cancelled when this instance's       *)
(* registry says so; after another cancellation of the context disconnected, *)
(* unless no event was left to emit; else what the executor reports.         *)
Outcomes(h) ==
  IF registry[Key(h)].cancelled THEN {"cancelled"}
  ELSE IF ctx[h] THEN {"completed", "failed"}
  ELSE {"disconnected", "completed"}

ExecutorReturns(h) ==
  /\ pc[h] = "running"
  /\ \E o \in Outcomes(h) : EndWith(h, o, "record")
  /\ UNCHANGED <<ledgerVars, ctx, cancelRequested, registry, cancelling>>

\* The status each outcome is recorded as.  The stream handler knows
\* "disconnected"; the resume handler only tells failed and cancelled apart.
Recorded(h) ==
  IF outcome[h] # "disconnected" THEN outcome[h]
  ELSE IF h \in Resumers THEN "completed" ELSE "paused"

\* Mutant: the row is updated without an event.
FinalWriteOfRow(h) ==
  /\ row' = [row EXCEPT ![h.run].status = Recorded(h)]
  /\ UNCHANGED <<events, outbox, checkpoints, admitted, token>>

FinalWrite(h) ==
  \/ Ledger!AppendStateChange(h, Recorded(h))
  \/ ~ Ledger!MayAppend(h) /\ UNCHANGED ledgerVars

AfterFinish(h) == IF pc[h] = "record" THEN "retire" ELSE "release"

(* The last state write uses context.Background(): best effort, a refusal is *)
(* only logged.                                                              *)
FinishRun(h) ==
  /\ pc[h] \in {"finish", "record"}
  /\ FinalWrite(h)
  /\ Goto(h, AfterFinish(h))
  /\ UNCHANGED <<ctx, outcome, cancelRequested, registry, cancelling>>

(* Deferred: RemoveRun (only after RegisterRun), stop the renewal, release.  *)
Return(h) ==
  /\ pc[h] \in {"release", "retire"}
  /\ Ledger!ReleaseLease(h)
  /\ registry' = IF pc[h] = "retire" THEN [registry EXCEPT ![Key(h)] = NoEntry] ELSE registry
  /\ Goto(h, "done")
  /\ UNCHANGED <<ctx, outcome, cancelRequested, cancelling>>

-----------------------------------------------------------------------------
(* The environment: clients, the cancel endpoint, time and crashes.          *)
Disconnect(h) ==
  /\ ClientsLeave
  /\ pc[h] \in Active /\ ctx[h]
  /\ ctx' = [ctx EXCEPT ![h] = FALSE]
  /\ UNCHANGED <<ledgerVars, pc, outcome, cancelRequested, registry, cancelling>>

(* handleRunCancel at instance i: RequestRunCancel, later the local part:    *)
(* CancelRun marks the registry entry and calls its cancel function.         *)
RequestCancel(i, r) ==
  /\ Ledger!Exists(r) /\ r \notin cancelRequested
  /\ cancelRequested' = cancelRequested \union {r}
  /\ cancelling' = cancelling \union {<<i, r>>}
  /\ UNCHANGED <<ledgerVars, pc, ctx, outcome, registry>>

CancelLocally(k) ==
  /\ k \in cancelling
  /\ cancelling' = cancelling \ {k}
  /\ registry' = IF registry[k].present
                   THEN [registry EXCEPT ![k] = [@ EXCEPT !.cancelled = TRUE, !.fn = {}]]
                   ELSE registry
  /\ ctx' = [h \in Handlers |-> ctx[h] /\ h \notin registry[k].fn]
  /\ UNCHANGED <<ledgerVars, pc, outcome, cancelRequested>>

LeaseExpires(r) == Ledger!LeaseExpires(r) /\ UNCHANGED localVars

Crash(i) ==
  /\ Ledger!Crash(i)
  /\ pc' = [h \in Handlers |-> IF h.instance = i /\ pc[h] \in Active THEN "dead" ELSE pc[h]]
  /\ registry' = [k \in Instances \X Runs |-> IF k[1] = i THEN NoEntry ELSE registry[k]]
  /\ cancelling' = {k \in cancelling : k[1] # i}
  /\ UNCHANGED <<ctx, outcome, cancelRequested>>

HandlerStep(h) ==
  \/ Accept(h) \/ Rejected(h) \/ Acquire(h) \/ AcquireFails(h)
  \/ PlanRejected(h) \/ PlanAccepted(h) \/ SavePlanning(h)
  \/ SkipConfirmation(h) \/ AskConfirmation(h) \/ SaveAsked(h)
  \/ Approve(h) \/ RefuseOrExpire(h)
  \/ ResumeInvalid(h) \/ BeginExecution(h) \/ StartExecutor(h)
  \/ ExecutorReturns(h) \/ FinishRun(h) \/ Return(h)

Next ==
  \/ \E h \in Handlers :
       \/ HandlerStep(h) \/ LoadResume(h) \/ AbandonWaiting(h)
       \/ Renew(h) \/ RenewalLost(h) \/ WatchCancel(h) \/ Disconnect(h)
  \/ \E i \in Instances, r \in Runs : RequestCancel(i, r)
  \/ \E k \in Instances \X Runs : CancelLocally(k)
  \/ \E r \in Runs : LeaseExpires(r)
  \/ \E i \in Instances : Crash(i)

(* Fairness: a handler's goroutine, its renewal ticker and its cancel        *)
(* watcher keep running while the process lives.  The confirm deadline ends  *)
(* the wait.  An executor need not return by itself, only once its context   *)
(* is cancelled.                                                             *)
Fairness ==
  /\ \A h \in Handlers :
       /\ WF_vars(pc[h] # "running" /\ HandlerStep(h))
       /\ WF_vars(~ ctx[h] /\ ExecutorReturns(h))
       /\ WF_vars(RenewalLost(h))
       /\ WF_vars(WatchCancel(h))
  /\ \A k \in Instances \X Runs : WF_vars(CancelLocally(k))

Spec == Init /\ [][Next]_vars /\ Fairness

-----------------------------------------------------------------------------
(* Type invariant: the ledger's, and the places of the handlers in it.       *)
TypeOK ==
  /\ Ledger!TypeOK
  /\ pc \in [Handlers -> Active \union {"new", "done", "dead"}]
  /\ ctx \in [Handlers -> BOOLEAN]
  /\ outcome \in [Handlers -> Outcome]
  /\ cancelRequested \subseteq Runs
  /\ registry \in [Instances \X Runs ->
                     [present : BOOLEAN, cancelled : BOOLEAN, fn : SUBSET Handlers]]
  /\ cancelling \subseteq Instances \X Runs

(* The handlers use the ledger as its most general client: what is proved of *)
(* ExecutionLedger for any order of calls holds of the program.              *)
UsesLedger == Ledger!Spec

(* A handler whose executor runs and that was not fenced sees the run as     *)
(* executing in the ledger: nobody moved the status under it.                *)
LedgerSaysExecuting ==
  \A h \in Handlers :
    pc[h] = "running" /\ token[h] = row[h.run].fencing => row[h.run].status = "executing"

(* SaveCheckpoint has no terminal check; the order of the handlers' calls    *)
(* alone keeps a finished run from getting another checkpoint, which resume  *)
(* and the budget restore would read.                                        *)
NoCheckpointAfterTerminal ==
  [][\A r \in Runs : Ledger!IsTerminal(row[r].status)
       => \A c \in checkpoints' \ checkpoints : c.run # r]_vars

(* A handler fenced out by another owner stops executing: its next renewal   *)
(* fails and cancels the execution.                                          *)
FencedHandlerStops ==
  \A h \in Handlers :
    (pc[h] = "running" /\ token[h] < row[h.run].fencing) ~> (pc[h] # "running")

(* A recorded cancel request stops the execution on whichever instance runs  *)
(* it: its watcher polls run_cancels.                                        *)
CancelStopsExecution ==
  \A h \in Handlers :
    (pc[h] = "running" /\ h.run \in cancelRequested) ~> (pc[h] # "running")

-----------------------------------------------------------------------------
(* resume.go:46-48: AcquireLease "fails while a live holder's lease is       *)
(* valid, so allowing executing here cannot start a second concurrent        *)
(* execution".                                                               *)
ResumeNeverJoinsLiveExecution ==
  [][\A g, h \in Handlers :
       g.run = h.run /\ pc[g] = "running" /\ token[g] = row[g.run].fencing /\ row[g.run].live
         => ~ (pc[h] = "loaded" /\ pc'[h] = "approved")]_vars
=============================================================================
