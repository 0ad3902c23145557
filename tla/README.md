# AgentHub: models, checks and proofs

This directory is a verification project for the AgentHub back end: TLA+ modules
translated from the Go source, TLC configurations that check them on small
instances, and TLAPS proofs. `PROJECT.json` lists the components, the runs, the
mutants, the source lines of every definition, the hazards, the findings and the
theorems. Paths below are relative to the repository.

## 1. The system

AgentHub answers a chat message with one or several child agents. A browser talks
to the **Gateway** (`services/gateway`), which keeps conversations and messages and
streams events to the browser. It calls the **Orchestrator** (`services/orchestrator`),
which plans a run, asks the user to confirm the plan, executes its tasks on child
agents over A2A, and writes a durable ledger. Both services run in several instances
over one MySQL database and one Redis.

| Part | State | Operations | Talks to |
|---|---|---|---|
| Execution ledger (`services/orchestrator/internal/persistence/mysql`) | `executions` row (status, `current_seq`, owner, `fencing_version`, lease), `execution_events`, `outbox`, `checkpoints`, approvals, signals, cancels | AcceptRun, AcquireLease, RenewLease, ReleaseLease, AppendStateChange, SaveCheckpoint, ... each one transaction | called by the handlers and the relay |
| Run handlers (`services/orchestrator/httpapi`) | a goroutine per request, its context, its lease token | stream, resume, cancel; renewal ticker; cancel watcher | ledger, registry, executors |
| Run task registry (`services/orchestrator/registry`) | per process: run -> cancel function, cancelled flag, remote tasks | RegisterRun, CancelRun, RemoveRun | handlers, cancel endpoint |
| Plan confirmation (`handler_hitl.go`, the confirm loop of `handler_run_stream.go`) | pending plans, a channel per run, durable approvals and signals | approve, revise, cancel, expire | handlers of any instance through SQL |
| Outbox relay (`services/orchestrator/relay`) | its batch; an advisory lock | poll, publish, mark, back off | ledger -> Redis Stream |
| Event bus consumer (`pkg/runtime/eventbus/redis.go`) | Redis pending list, tasks read and claimed, duplicate guard | read, claim, deliver, ack, nack, dead-letter | Redis -> dispatcher -> handler |
| Per-run dispatcher (`pkg/runtime/eventbus/dispatch.go`) | mailbox and worker per run | dispatch, serve, stop | consumer |
| SQL idempotency (`pkg/runtime/eventbus/sqlidem`) | a row per (consumer, event) | Process, recordFailure, Wrap | event handlers |
| Gateway projection (`services/gateway/httpapi`, `projection`, `store`) | public journal, projection offset, messages, open turns of a stream | journal, project a turn, recover | Orchestrator stream, MySQL |
| Gateway replay, admission, run service | SQL cursor of a subscriber, chat requests | replay after a cursor, admit a request | browser |
| Run transport (`orchestratorclient`, `grpc.go`) | an SSE response, or stored events and a subscription | Run, SubscribeRun | Gateway <-> Orchestrator |
| Planner, validators | none | plan, check | model |
| Executors, agent dispatcher (`services/orchestrator/executor`, `dispatcher`) | task states, parallel places, failed tasks | run a DAG in rounds, skip, stop | child agents |
| Budget harness (`pkg/runtime/harness`) | counters of a run | reserve, release, restore | executors, resume |
| Tool broker (`services/orchestrator/internal/toolruntime`, `pkg/runtime/tools`) | approvals, tool calls, the budget in the run's row | authorize, dispatch, record, recover | agents over HTTP, ledger |
| Front end stream reader (`frontend/src/agui/client.ts`) | cursor, attempts | read, poll, give up | Gateway |
| Agent runtime (`pkg/adk`, `pkg/adk/a2a`, `pkg/runtime/session`) | task store of an agent, its sessions, a request's context | run a turn (model and tool loop), stream it, cancel a task | Orchestrator over A2A, tools |
| Memory controller, agents, legacy server | | | |

**What is hard.** A run is shared by request goroutines of several processes, and only
MySQL orders them: the lease and its fencing version decide who may write. Clients
disconnect, processes die, leases expire under slow holders, cancels arrive at another
instance. The log is carried to consumers by a relay that may repeat, over a stream
that redelivers, to consumers that crash between an effect and its acknowledgement.
The Gateway writes the same turn from a live stream and from a recovery worker. Each
of these places is in `PROJECT.json` under `hazards`, at its line, with the properties
that would catch it going wrong or the reason none does yet.

**What makes each part correct.** *Ledger:* one gap-free log per run that ends with its
terminal event, no writer behind its successor, requests that stay with their run.
*Handlers:* they use the ledger only as it specifies; a fenced or cancelled execution
stops; a finished run stays finished. *Relay:* every committed event is published, first
deliveries in order. *Consumer:* nothing leaves the pending list unhandled, the budget
is exact, everything is settled in the end. *Dispatcher:* one worker per run, no task
without one. *Idempotency:* one effect. *Projection:* each finished turn is one whole
message, once, in order, even after a crash. *Plan confirmation:* the approvals and the
run tell one story, a decision is acted on once, the wait ends. *Executors:* no task is
forgotten, none starts before its dependencies, the stream tells what the row records,
the run ends. *Event delivery:* no reader skips or repeats an event or misses one behind
the end, completed means whole, every reader is let go. *Tool broker:* a consent is spent
with its own call, a write of unknown outcome is not repeated, a displaced execution
dispatches nothing. *Remote tasks:* an answered cancel stops the run and each of its tasks,
a broken response is not an answer. *Agent sessions:* a finished turn is in the session
whole, and the model sees of it what the session keeps.

## 2. Modules

| Module | Models | Correspondence |
|---|---|---|
| `EventLog` | what the ledger promises: per run an append-only log of statuses, closed by a terminal one | abstract specification |
| `ExecutionLedger` | the transactions on `executions`, `execution_events`, `outbox`, `checkpoints` | one action per repository method; a row lock makes each atomic. A handler is a record (run, request, principal, instance); `token[h]` is the fencing version its AcquireLease returned. `principal` stands for workspace and principal |
| `RunLifecycle` | stream and resume handlers, renewal, watcher, cancel endpoint, registry | `INSTANCE ExecutionLedger`; `pc[h]` is the place in the handler, each ledger call one step, `ctx[h]` its context, `registry` one map per instance |
| `OutboxRelay` | relay, advisory lock, back-off | `outbox` with published and due flags, `stream`, `pc`/`batch` of each relay, `holder` of the lock |
| `StreamConsumer`, `StreamConsumerState` | a Redis consumer group | `pel` (count, idle), each consumer's two loops, its run queues and duplicate guard, `effects`, `dlq` |
| `RunDispatcher` | mailboxes and workers inside one consumer | the lock regions of `dispatch.go` are the steps, the unlocked read of the length is one of its own |
| `SingleEffect`, `IdempotentConsumer` | one effect, and one more per recorded failure; the SQL store that implements it | row, row lock, `pc[d]` of a delivery |
| `GatewayProjection`, `GatewayProjectionState` | one run: live handler and recovery workers | `script` is the public event stream, `journal`, `offset`, `messages` are the tables, `open`/`finished` the accumulator; `listed` tells whether the run is among those that a ticker's pass takes, which other runs decide |
| `RecoveryBacklog` | a recovery pass over all runs | the runs ahead of their offsets, that with the oldest event beyond it first, cut at `runLimit`; `written` is the order in which events were stored |
| `PlanConfirmation` | the confirm loop on the owner, the confirm endpoint on it and elsewhere, idempotency keys | `pc` is the place in the loop, `channel` its one place, `req[r]` a confirm handler; approvals, signals and confirmations are the SQL rows |
| `PlanExecution` | validator, participant filter, executors, emit callback, cancel paths | `task[t]` is the goroutine or turn of a task, `wave` the round, `result`/`failed` what the stores recorded, `live` the context; `Removed` is Kahn's algorithm |
| `EventDelivery` | a run's events over HTTP or gRPC, the chat handler, the browser and the event tail | an event is its place in the script; `stored` and `journal` are the two tables, a reader has what it saw, its place and its polls without a result |
| `ToolDispatch` | the broker, the agents' guards, tool calls and approvals in SQL | `pc[a]` is the place of an attempt between two reads or transactions; `call`, `approval`, `toolCalls`, `fencing` are columns; the run's handlers are the four actions that move `status` and `fencing` |
| `RemoteTasks`, `RemoteTasksState` | streaming dispatch, A2A client and server, task store, cancel endpoint, remote references | `call[t]` is streamOneTask, `wire[t]` the unread frames of its response, `agent[t]`/`ctx[t]`/`store[t]` the agent's handler, context and task, `cancel[c]` a cancel request with its instance; `refs` and `rows` are the references in the registry and in `run_task_refs` |
| `AgentSession` | the Runner's turns of one conversation over a session service | `pc[t]` is the place in Run, `history` the session, `prompt[t]` the contents of the next model call; `Service` picks the in-memory or the SQL service |
| `ExecutionLedgerProofs`, `RunLifecycleProofs`, `ToolDispatchProofs`, `PlanExecutionProofs`, `EventDeliveryProofs` | theorems about the module each is named for | section 5 |
| `OutboxAndProjectionProofs` | theorems about `OutboxRelay` and, as the instance `G`, `GatewayProjection` | section 5 |
| `EventBusProofs` | theorems about `RunDispatcher` and, as the instance `B`, `StreamConsumer` | section 5 |
| `RunControlProofs` | theorems about `PlanConfirmation` and, as the instance `R`, `RemoteTasks` | section 5 |

A module `...State` has the variables of the module it is named for and what is promised of
them, so that the theorems about two components can share a module.

`MC*` modules give the constants their small values. `RunLifecycle` composes with the
ledger; `PlanConfirmation` and `PlanExecution` are what its waiting and running phases
abstract, `RemoteTasks` has a task's dispatch and its agent, `AgentSession` the turns there,
`ToolDispatch` their tool calls, and `EventDelivery` what follows the
handler's response; `RunDispatcher` refines the mailbox that `StreamConsumer` has as an unbounded
queue per run. An operator under a comment `Mutant:` is not part of a specification: it
is the form a plausible bug would give to the definition below it, and shows that the
property named for it in `PROJECT.json` depends on that definition.

## 3. Runs

Bounds are constants or guards: `MaxSeq`, `MaxFencing` (log length and lease
acquisitions), `MaxRows`, `MaxFaults` and `MaxFailures` (how often each kind of failure happens, or how many
kinds do), `MaxAttempts`, `Count`, `QueueSize`, `BatchLimit`, `MaxCrashes`, `MaxDeaths`,
`MaxRevision`, `MaxRevisions` (checkpoints of revised plans in `RunLifecycle`), `MaxPolls`, the handlers, instances, requests and attempts. `MaxTasks`,
`MaxParallel` and `Limit` are parameters of the program. `CHECK_DEADLOCK FALSE` is set
where a system of finitely many requests really comes to an end.

| Run | Question and bound |
|---|---|
| `MCLedger` | three handlers on one run, two of one instance and one of another instance and principal; two seqs and three lease acquisitions: enough for a takeover, a return and a stale writer after each. The safety properties and the refinement of `EventLog` |
| `MCLifecycle` | a stream, a resume on another instance and a stranger's request; client loss, cancel, expiry, crash; seven seqs let a run be paused, resumed and finished. Safety, use of the ledger, and that a fenced or cancelled execution stops |
| `MCConfirmation` | two confirms with keys of their own, each on the owner or elsewhere, sent again after one death; two revisions, so that a decision can be late by one; the cancel endpoint, the deadline, a lost client |
| `MCExecution` | all dependency graphs of three tasks (but for one arc), two places for them, and plans with unfit or unselected tasks, too few or too many tasks, and turns one after the other; any task fails, the reader leaves, a cancel comes to this instance or another |
| `MCDelivery` | an answer, and a failure behind which another branch still emits; HTTP and gRPC; two browsers that send one request, a tail; two of six kinds of faults in a behaviour; two polls without a result before a reader gives up |
| `MCTool` | two attempts of a write (one local), another write, a read; two consents for one call; a budget of one call, so that it runs out; one takeover |
| `MCRelay` | two relays, with the lock and without it, three rows of a run in batches of two, one crash, failed XADD, failed mark and lost lock |
| `MCConsumerProcess` | one process, two entries of a run (the second perhaps malformed), two attempts, one crash and one failing XACK or DLQ write; a page shows the whole pending list |
| `MCDispatcher` | two producers, three and two tasks of two runs, mailboxes of two, a caller that gives up before its task is accepted, stop at any point or never |
| `MCRemote` | two tasks of a round, one cancel here or at another instance, a lost reader, one agent that dies, one failing SQL or cancel call: a task may be running, unregistered or finished when the cancel comes. Refused and answered streams, error frames, and that an answered cancel stops everything |
| `MCProjection` | five event streams (turns one after the other, an empty turn, an answer without turns, RUN_ERROR), two recovery passes, that of a ticker and that of an event-bus hint, one fault of each of five kinds; the run comes to and leaves the list of a pass at any time |

Larger instances repeat the pattern: the ledger's rows are independent of each other,
a run's events meet at most in pairs (a row and its successor), two actors of a kind are
what every race of this code needs, and a chain of three tasks has a task between two.
`MCLifecycle`, `MCProjection`, `MCTool` and `MCRemote` take two to three minutes, the others less.

Several properties are stated up to the failure that the code does not survive:
`InOrderWithoutBackoff`, `StreamNeverGoesBack`, `EffectOnceUnlessCrash`,
`OneDecisionPerKey` (a result that was not stored), `LoopEnds` (a loop blocked on its own
channel), `AnsweredCancelStops` (a cancel at another instance whose row was not stored), `EveryReaderLetGo` (a lost outcome over gRPC) and the properties of `MCProjection`
(`LiveWritesSucceed`). `FinishedTurnRecovered` has one more condition: that the run is listed for good from
some moment on. `RecoverOnce` takes the fifty runs with the oldest unprojected events (`worker.go:46,90`,
`mysql.go:770-781`), a run with a tail that no turn closes never leaves that list, and fifty of them keep every
other run out; `MCBacklog` with `AllTails` shows it. The failure stays part of the run, so the other properties are
checked with it.

### A run that shows a disagreement

`MCLifecycleSecondExecution` checks one statement of a comment that the code does not
keep; `findings` in `PROJECT.json` quotes it. AcquireLease refuses only other owners, so
a resume on the executing instance starts a second execution.

### Configurations to run by hand

`tlc -config X.cfg M`. The first four have no error (`MCConsumerGroup`, `MCBacklog`, `MCIdempotent`,
`MCSession`); each of the others, or of these as the table changes them, ends with a counterexample to one statement of a document, comment or test.

| Configuration (module) | What it shows |
|---|---|
| `MCConsumerGroup` (`MCStreamConsumer`) | two processes and one entry with the failures of `MCConsumerProcess` (symmetry): the claims of one race the handler of the other, and `NoEntryLost` holds |
| `MCBacklog` (`MCRecoveryBacklog`) | three runs, a pass of two, one dying handler, one run with an event ahead of its offset for ever: every turn is recovered |
| `MCIdempotent` (`MCIdempotentConsumer`) | four deliveries, the last of another payload, each may fail, two crashes: an acknowledged delivery has an effect or relies on one (`AckedMeansEffect`), and the store implements `SingleEffect`. Nothing calls this store yet |
| `MCSession` (`AgentSession`) | two turns that overlap, perhaps the first two, over the SQL service: `NothingForgotten`, and the prompt of a turn keeps what its session has of it (`PromptKeepsTurn`) |
| `MCBacklog` (`MCRecoveryBacklog`) with `Script <- AllTails` | finished runs never leave the recovery list and fill it. `services/gateway/projection/worker.go:88`: "RecoverOnce processes every run that has unprojected journal events." |
| `MCIdempotent` (`MCIdempotentConsumer`) with `MaxCrashes = 0` and `OneEffect` in place of its properties | recordFailure overwrites a done row; a second effect follows. `docs/contracts/event-bus.md:233` (EB-IDM-03) forbids it |
| `MCConfirmation` (`MCPlanConfirmation`) with `ApprovedRevisionExecutes` in place of its properties | a durable approve of revision 1 executes revision 2. `docs/contracts/plan-approval.md:220`: "`revision` MUST match the current PendingPlan revision" |
| `MCExecutionSkip` (`MCPlanExecution`) | a task behind a skipped one runs: skipping does not mark a task as failed. `docs/contracts/orchestration-plan.md:62`: "dependent downstream tasks are skipped". With `CompletedRanEveryTask` in its place: a context cut between two rounds ends the executor without an outcome, and the run is recorded as completed. `docs/contracts/gateway-orchestrator.md:53` and `scripts/run-multi-replica-smoke.sh:474-480` want it left recoverable |
| `MCDeliveryTail` (`MCEventDelivery`) | SubscribeRun lists events before it reads the status, so the end of the run is dropped from the live stream and the request is completed without it. `docs/contracts/event-replay.md:55` asks for the missing tail; `chat_idempotency_test.go` has completed mean a received end |
| `MCDelivery` (`MCEventDelivery`) with `RecoveredSawTheEnd` in place of its properties | a recovering browser reads a page, then the status, and stops without the end. `frontend/src/agui/client.ts:262`: "Replays missing public events after a disconnect" |
| `MCDelivery` (`MCEventDelivery`) with `Scripts <- CancelledLate` | a cancel that lands between an executor's RUN_FINISHED and the handler's check of it (`handler_run_stream.go:1025-1031`) appends a STATE_UPDATE and a second RUN_FINISHED, which the event tail and a recovering browser, stopping at the first, do not get (`NothingBehindTheEnd`). `handler_run_stream.go:120`: "RUN_STARTED → (STATE_UPDATE \| RUN_ERROR) → RUN_FINISHED" |
| `MCTool` (`MCToolDispatch`) with `Limit = 2` and `WriteRunsOnce` in place of its properties | RemoteGuard takes the answer to a replay for leave to run the tool, so a finished write runs again. `docs/contracts/tool-broker.md:114` and `:121`: a replay returns the stored result. With `ToolBudgetKept` in its place: the budget is an absolute value read before the transaction, and every state write puts back the handler's own. `docs/contracts/runtime-harness.md:54-55` and `docs/contracts/tool-broker.md:111,122`: parallel calls and resumes do not multiply it |
| `MCProjection` (`MCGatewayProjection`) with `Scripts <- CancelledLate` | behind the second RUN_FINISHED of a late cancel the handler projects an open turn with the last publicSeq (`server.go:1190`), a recovery pass with that of the first: the offset does not stop the later one, and the text is stored twice (`TextOnce`). `docs/contracts/event-replay.md:56`: a repetition must not append text again |
| `MCRemote` (`MCRemoteTasks`) with `FailedTaskIsReported` in place of its properties | the client skips the frame that tells of an agent's failure, and the task counts as done. `docs/contracts/gateway-orchestrator.md:94` makes it an error of the run. With `CancelledRunNotCompleted` in its place: a cancel stops the tasks at their agents before the instance learns of it, they pass for answered and the run is completed, `gateway-orchestrator.md:95` notwithstanding |
| `MCSession` with `Service = "memory"` (`AgentSession`) | `NothingForgotten` fails: in memory, two first turns of a conversation both find no session, and the later one replaces the other's. `pkg/adk/session_memory.go:25`: "thread-safe"; the SQL service has a branch for this race. With `AnnouncedIsStored` in its place: the Runner yields before it appends, where `docs/contracts/adk-runtime.md:62` wants the opposite order |

Properties that no run spends time on may be added to a configuration: `TypeOK` of every
module (`MCBacklog` has it), `TerminalIsLast`, `PublishedMeansInStream`,
`NoCheckpointAfterTerminal`, `CancelAnswerStands` and `NoEntryLost` (the five are proved), `InTurnOrder`.

### Other disagreements

Met while modelling and visible in the definitions, without a run of their own:

* A repeated request that reaches the executing instance is leased again and executed
  beside the first (`run_ledger.go:76`); `docs/architecture/v3/03-link-failure-and-recovery.md:40`
  says it is not executed again.
* A resumed execution that its client cuts off is recorded as completed
  (`resume.go:181`, `Recorded` in `RunLifecycle`); the state machine of the same document
  takes it to paused.
* A cancel that the executing instance learns only from the database ends as
  disconnected and is recorded as paused (`handler_run_stream.go:1008`, `Outcomes`);
  `docs/contracts/gateway-orchestrator.md:95` says cancelled.
* A row that backs off is skipped by the next poll and overtaken by later rows of its run;
  `relay.go:88-89` says it cannot be (`InOrderWithoutBackoff` has the condition).
* A relay that loses the lock in the middle of a batch finishes the batch;
  `docs/contracts/event-bus.md:200` forbids that (`StreamNeverGoesBack`).
* An entry behind the first page of XPENDING is taken as its second attempt whatever its
  count (`redis.go:606`, `Attempt` in `StreamConsumer`), so with more pending entries than
  a page the handler is called more than `maxAttempts` times.
* A failed entry is handled after its successors, and two processes of a group may
  handle consecutive entries of a run at once; `docs/contracts/event-bus.md:198` wants
  one serial consumer per run.
* `Wrap` hashes the frame with its attempt number (`sqlidem.go:130`), so a redelivery of a
  done event is a conflict, not the duplicate that `sqlidem.go:41` promises.
* Plain text answers that are open together at the end of a stream are projected under
  one seq (`server.go:1190`), and all but the first are skipped.
* When the live projection of the only turn fails and a recovery pass makes up for it, the
  end of the stream merges and stores the text again (`server.go:1194`).

Plan confirmation:

* The loop pushes a claimed signal into its own channel of one place
  (`handler_run_stream.go:441`). If a local confirm filled it in between, the loop waits
  for itself: no deadline, heartbeat or poll runs.
* `CompleteConfirm` stores every answer, so a 409 or a "please wait" is replayed under its
  key for ever, though the comments tell the client to retry. Its own error is ignored: the
  key may then be decided a second time (`lost` in `OneDecisionPerKey`).
* A durable approve drops the selected participants of the request. Plan-only runs have no
  row in the ledger, so their confirm elsewhere is answered 404.
* A revision mismatch, a failed planning, an invalid plan or a lost client in the loop
  leaves the run awaiting_approval with no handler.
* The deadline may fire while an acknowledged decision is in the channel; a cancel may be
  acknowledged into a channel whose loop has just taken a durable approve; the end of a
  revision reopens a plan that was cancelled meanwhile.

Execution:

* A run whose only agent failed, or that told `partial_failure`, is recorded as completed
  (`docs/refactor/conversation-run-message-model-design.md:89,259` has states of their own).
* A pending plan is marked completed whenever the executor returns without an error, also
  after a lost client.
* A task list that is empty after the participants' filter answers run_error, and the run is
  recorded as completed.
* The Gateway's client stops at the first run_error (`orchestratorclient/client.go`), so the
  other branches of a DAG are cut off; `docs/contracts/orchestration-plan.md:63` lets them go on.
* The streaming dispatch has neither the retries nor the breaker of
  `docs/contracts/dispatcher-resilience.md`.

Event delivery:

* Run over gRPC leaves its pipe writer waiting after RUN_ERROR (`services/gateway/orchestratorclient/grpc.go:168-187`).
* A run whose final state write was lost keeps SubscribeRun, and the chat handler behind it,
  polling for ever; the check for a RUN_FINISHED type never matches, as stored types are
  internal ones.
* The events of a resumed run are not journaled in the Gateway, and its request stays failed.
  A Gateway that dies leaves its request accepted for ever.
* The synthetic event of a broken stream is neither journaled nor numbered.

Tools:

* `ConsumeApprovalAndDispatch` looks at the fencing version, not at the status: a finished run may dispatch. The
  path that recovers a dispatched call looks at neither.
* A retry marks a call unknown whose first attempt is still running. The report of that
  attempt is still taken; the report of a call that was replayed as finished is answered 500.
* No run gives an approval to its agents (`RunIdentity.ApprovalID` is never set), so an
  agent's write is refused before it reaches the broker.

Agents:

* A cancel is answered "cancelled" although its row was not stored and the run executes
  elsewhere, or although the run was over (`server.go:905-979`).
* An agent that was restarted answers the cancel of its old task with 404. One that completes a
  task after its cancel still sends `[DONE]`.
* Turns of one conversation that overlap at an agent interleave their calls and results in its
  session, and each later prompt has them in that order.

## 4. Fairness

Safety runs need none. Liveness assumes weak fairness of what the code schedules:
goroutines of a live process go on and their calls return; tickers (renewal, cancel
watcher, relay poll, claim loop, recovery of `Tickers`) keep firing; time passes (back-off, idle
time, confirm deadline). The confirm loop, each confirm handler that has started, the
executor and its goroutines, the pipeline, the transport and each polling reader go on
(`Owner`, `Confirm(r)`, `Run`, `Turn(t)`, `Pipeline`, `Handler`, `Recovers(b)`, `Call(t)`,
`Answering(c)`, ...). An agent's server learns of a closed connection, and a Runner stops when its
context is cut (`Stops(t)`). A crashed relay process is started again
(`restart: unless-stopped` in `docker-compose.yml`). Never assumed: that a client stays
or decides, that a request is sent, that an executor or an agent whose context is alive returns, that a lease expires, that a fault
happens or stops happening before its bound. A relay that has lost the lock, or found
it taken, does not start again while its process lives; `EveryRowPublished` therefore
promises nothing after a lock was lost without a crash. Of the Gateway's recovery only the
ticker is fair. A pass for an event-bus hint may never come: it has no ticker and is off unless
`EVENTBUS_PROJECTION=1`. Nor is anything assumed of `ListingChanges`: a ticker's pass begins only while
the run is `listed`, and `FinishedTurnRecovered` says what follows from `<>[]listed`. `RecoveryBacklog`
has the listing itself: there a run is recovered while fewer than `RunLimit` runs keep a tail.

## 5. Proofs

`ExecutionLedgerProofs` proves, for any sets of runs, requests, principals, instances
and handlers and any bounds (from the assumptions `ExecutionLedger` names), that every
behaviour of the ledger satisfies `TypeOK`, `GapFreeSeq`, `TerminalIsLast`,
`FencedOrder`, `OneHolderPerToken`, `CheckpointsFenced`, `OutboxInSeqOrder`,
`RequestIdempotent`, the action properties `TerminalFrozen` and `LiveLeaseNotStolen`,
and that it implements `EventLog`.

The argument is one inductive invariant, `IInv`. The properties alone are not
inductive; what they need is that the counters of a row bound everything written with
them:

* `TokenBound`, `EventBound`, `CheckpointBound`: no token, event or checkpoint carries a
  fencing version above the row's. So the version AcquireLease hands out is new
  (`OneHolderPerToken`), and a write that passes the fencing test carries the highest
  one (`FencedOrder`, `CheckpointsFenced`).
* `OutboxBound`: no outbox row has a seq above `current_seq`, so the next one is larger
  (`OutboxInSeqOrder`).
* `AbsentIsFresh`, `AdmittedExists`: AcceptRun starts from nothing, and a handler holds
  a run only if it has a row (`RequestIdempotent`).
* `CheckpointsDense`: versions have no holes, so the next version is the newest.
* `LiveHasOwner`: a live lease has an owner (`LiveLeaseNotStolen`).

The proof goes from what each action does to the row it touches (`AcceptEffect`, ...)
to the fact that a step either keeps the log or appends to it (`LogStep`), then part by
part, one step per action that can disturb the part. For the refinement, the log of
`EventLog` is the statuses of a run's events in order: a step that keeps the log maps
to a stutter, an append to `Grow`.

`RunLifecycleProofs` proves, for any runs, handlers, resumers, instances and bounds (from
the assumptions of `RunLifecycle`), `UsesLedger`, `TypeOK`, `LedgerSaysExecuting` and
`NoCheckpointAfterTerminal`. The handlers' steps are calls of the ledger's most general
client or leave the ledger alone (`LedgerStep`), so every theorem about `ExecutionLedger`
holds of the handlers as well, and its invariant `IInv` is part of theirs. They add

* `HoldsToken`: from its lease to its return a handler holds a fencing version, never the
  0 that a new row has.
* `StatusKnown`: while a working handler holds the newest version the run is not over, and
  once it has written executing the status is executing. Whoever writes the status passes
  the fencing test, and by `OneHolderPerToken` no second handler can; whoever acquires the
  lease makes the version newer (`WriteKeeps`, `AcquireKeeps`). `LedgerSaysExecuting` alone
  is not inductive: it says nothing of the handler between its state write and its executor.

That a checkpoint is never late follows: SaveCheckpoint does not look at the status, but it
does test the version, and a handler that still works and holds it knows the run not over.

`ToolDispatchProofs` proves, for any attempts, calls, approvals and bounds (from
`ToolAssumption`), that every behaviour of the broker satisfies `TypeOK`,
`ConsentSpentWithItsCall`, `NoBlindRepeat` and `DispatchFollowsLease`. Its inductive
invariant adds to them:

* `ConsentGiven`: an attempt at a write carries an approval, so Dispatch consumes one.
* `TokenBound`, `DispatchedCalls`: no attempt and no call has a fencing version above the
  run's, and the history holds calls of the table only. A dispatch that passes the fencing
  test has the highest version and overwrites no earlier one (`DispatchFollowsLease`).
* `RunsAlone`: while a write has no final result, at most one attempt has leave to run it,
  and only before its first run. `NoBlindRepeat` alone does not follow from itself: two
  attempts with that leave would satisfy it until both ran.

The proof goes from what a step does to each table (`CallEffect`, `ApprovalEffect`,
`FencingEffect`, `LeaveEffect`, `RunsEffect`) to the parts one by one. What RemoteGuard
does with a replay is part of it: the theorems stop where the result is final.

`EventBusProofs` has the two halves of a consumer. About `RunDispatcher` it proves, for any producers, work, mailbox size and number of
goroutines (from `WorkAssumption` and `SizeAssumption`), `TypeOK`, `OneWorkerPerRun` and
`HandledInOrder`. Its invariant adds

* `BusyIsActive`: a run with a worker is active, so dispatch spawns none beside it, and
  the flag that a retiring worker clears is that of no other worker.
* `Mailbox`: the accepted tasks of a run begin with those handled, then those in the
  mailbox, and before stop there are no others. It needs the second look of releaseIfEmpty:
  a worker that leaves a task behind breaks it.

About `StreamConsumer`, as its instance `B`, it proves, for any entries, runs, attempts, page
size and numbers of failures (from `RunAssumption`, `LimitAssumption` and `FaultAssumption`),
`NoEntryLost` for any number of processes. Its invariant `KeptInv` says of each place from which
an entry is acknowledged that the entry is settled by then: a loop that is about to ack wrote the
dead letter (`DeadIsWritten`), a worker committed the effect or wrote it (`AckedIsSettled`),
and what the duplicate guard skips is done (`SeenIsDone`).

`EffectOnceUnlessCrash` has the hypothesis that the group has one process (`OneConsumer`): each
process has a guard of its own, and with two the property is false. The invariant adds

* `TasksOfRun`: all deliveries of an entry go to the worker of its run, one after the other.
* `GuardKnows`, `HandledIsNew`: without a crash the guard knows every effect, and the handler is
  called only for an entry that has none. The worker of the run marks the event right after its
  handler (`redis.go:690-692`), so a second delivery of a slow entry is judged after both.

`CallsWithinBudget` has in addition the hypothesis that a page shows the whole pending list
(`PageShowsAll`). Without it an entry that XPENDING did not list is taken as its second attempt,
however often it was delivered, and the property is false (section 3). Both hypotheses hold in
`MCConsumerProcess`. The property counts calls and says nothing of the deliveries that may still
become calls; the invariant counts them together:

* `Budget`: the calls there were and the attempts on their way to the handler (`Due`) are no more
  than `MaxAttempts`, nor, of a pending entry, than the deliveries that Redis has counted.
* `Known`, `Listed`: no task on its way has an attempt above the count of its entry, and between its
  two calls a pass of the claim loop has the current counts. So the claim that follows makes an
  attempt that no task has (`AttemptIsNext`).
* `NoneTwice`, `MailInBudget`: no delivery is in two places, and an attempt above the limit never
  reaches a mailbox.

`RunControlProofs` has what users do to a run, before and while it executes. About
`PlanConfirmation` it proves, for any confirms, revisions and deaths (from `BoundAssumption`
and `RequestAssumption`, which keeps two names out of the requests), `TypeOK`,
`ApprovalTellsOutcome` and `OneDecisionPerKey`. The invariant adds

* `Window`: the owner's place tells which revision is open and what the run's row says, which
  makes `ApprovalTellsOutcome` inductive.
* `Conserved`: a decision goes to the channel (`Routed`) or into a signal (`Recorded`), once
  each (`OneSignal`), and is in one place at a time until the owner takes it. It is taken twice
  only if it went both ways.
* `OneRoute`: while the owner waits it does not go both ways, unless a completion was lost. A
  handler that has routed answers and completes (`RoutedAnswers`). One with a signal is sent
  again only after its claim was given up, and then the owner has left the revision it is
  about (`RepeatIsLate`), while what is open to a decision is the owner's revision (`Shown`).
  So the two minutes of a claim and the length of a confirm window are not independent:
  `Abandoned` relates them, and the theorem needs it.

About `RemoteTasks`, as its instance `R`, it proves, for any tasks, cancel requests and bounds
on failures, `BrokenStreamReported` and `CancelAnswerStands`. The first needs `DoneIsLast` (an
agent sends `[DONE]` when it is over, and stays over) and that an outcome never goes back to
completed; the second `KnownTasks` (a task is in its agent's store from its start, and
nobody is told of one that was not started).

`PlanExecutionProofs` proves, for any finite set of tasks, any plans and bounds (from
`PlanAssumption` and `BoundAssumption`), `TypeOK`, `NoTaskForgotten`,
`StartsAfterItsDependencies` and `StreamTellsTheRecord`, and that the validator's algorithm is
right: `KahnIsCorrect` says that Kahn's rounds leave a task over exactly when some tasks each
wait for one of them. `Removed` is a recursive function; what the theorem needs of it is
shown of the least round at which it would fail (`LeastNatural`). The invariant adds

* `WaveNumbers`, `UnderWay`: rounds are numbered from 1, the one that runs has tasks, and only
  its tasks are under way.
* `RoundsInTurn`: the tasks of earlier rounds are over and later ones have not begun. So the
  dependencies of a task are over when it starts, and an executor that finds no further round
  has been through all of `Removed`, which is the plan because the validator refused cycles.
* `Stream`, `Executed`: what was told and what outcome is meant while the executor runs, at
  every place between a cut of the context and the end; `StreamTellsTheRecord` is about the
  last state only.

`OutboxAndProjectionProofs` proves, for any runs, relays, batch limit and numbers of rows and failures,
`TypeOK`, `PublishedMeansInStream`, `InOrderWithoutBackoff` and `StreamNeverGoesBack`. Its
invariant adds

* `SeqsDense`, `SeqsRise`, `StreamOfRows`, `BatchOfRows`: a run's rows are numbered 1, 2, 3, ...
  in the order of their ids, stream and batches hold rows of the outbox, and a row about to be
  marked is in the stream.
* `AllDue`, `OldestFirst`: until an XADD fails no row backs off, and a relay with a row to
  publish has the earlier ones that are not published in the same batch. That is why first
  deliveries are in order with any number of relays and without the lock.
* `SingleWriter`, `NotAhead`: with a lock that was not lost, whoever polls owns it and its batch
  is unpublished; the stream of a run is then not ahead of what is still to publish. What
  follows a crash may repeat the last event, and nothing before it.

Of `GatewayProjection` it proves `TypeOK`, for any streams, and for any recovery passes and
failures `TextOnce`, `WholeTurns` and `EveryTurnKept`, for the streams its hypotheses name:

* `FinishedIsLast` (nothing behind RUN_FINISHED) and `TextUnbroken` (no turn ends between two
  texts of one turn) for `TextOnce` and `WholeTurns`.
* `TurnByTurn` (a turn ends before the next one has text) and `FinishedOrFailed` (RUN_ERROR and
  a last RUN_FINISHED exclude each other) besides them for `EveryTurnKept`.

A stream is what the handler reads of it: an executor goes on behind a failed task up to its own
RUN_FINISHED (`serial_executor.go:84-86,111-118`), but the handler stops at RUN_ERROR
(`server.go:1163`). The scripts of `MCProjection` satisfy all four, and so does an executor that
wraps the answers of one agent after the other in turns and is not cancelled late. They are
hypotheses and no assumptions of the specification. A late cancel makes a stream without
`FinishedIsLast`, and `TextOnce` is then false. Only the executors that run one task after the
other tell turns (`agent_turn.go`), so no stream breaks `TextUnbroken`. The answers of the DAG
executor, and of a plan without turns, are plain messages: two of them break `TurnByTurn`, and all but
the first are lost (both in section 3). The three properties are up to
`LiveWritesSucceed`. The argument:

* `EndOf` gives a turn the one place where it ends: where it is first closed behind a text, else
  the last event. `EndCutsNone`: at no such end is another turn received in part.
* `Ends`, `PassText`, `MessageText`: an offset is such an end, and every text that is projected
  or stored is all of a turn, with its end as its seq. A pass may read the journal from an old
  offset, while it is written and while others move the offset: by `EndCutsNone` a turn whose
  end it finds is there as a whole (`JournaledIsWhole`).
* `MessagesRise`: messages have rising seqs, by the check against the locked offset. So two of them
  belong to two turns, which share no text.
* `CaughtUp`, `PassLeavesNone`, `Stored` for `EveryTurnKept`: a turn that has ended is stored or is the
  handler's next; of a turn in a pass's list, the turns that end before it are before it in the
  list or not above the offset; so no insert moves the offset past the end of a turn that is
  not stored (`NoneBetween`).
* `Written`, `OpenText`, `FinishedText`, `Counted`: the journal has every event but perhaps the
  last received, the accumulator what was received and not closed, and the merged text of the
  whole run is projected only where there is nothing else.

`EventDeliveryProofs` proves, for any event streams, browsers, transports and numbers of polls
and faults, `TypeOK`, `NothingSkippedNorRepeated` and `CompletedIsWhole`, and
`NothingBehindTheEnd` under `FinishedIsLast`: no stream of the run has an event behind
run_finished (behind run_error it may have any). That is a hypothesis of the theorem, which the
scripts of `MCDelivery` satisfy, and no assumption of the specification: a late cancel makes a
stream without it, and then the property is false (section 3). The invariant adds

* `Copies`: what the Gateway received is a beginning of what its source has, and a subscription
  was sent the stored events up to its cursor.
* `Fresh`, `Live`: no reader knows the event that is about to be journaled, and the browser that is
  served has exactly the events written to it. When it loses its stream, or is cut off by a
  dying Gateway, it goes on from there without a gap.
* `ReadersFollow`: a reader has, in order, all that the journal has up to its highest event. It
  is preserved only because the journal grows at its end, which `Copies` and `Fresh` give.
* `ErrorStops`, `EndIsLast`, `Whole`: nothing is received behind RUN_ERROR, nor behind the end
  under `FinishedIsLast`, and a request completed over HTTP received the whole stream.

A page is the rows behind a cursor in order: `InOrder` takes the row of each rank, and
`RankTaken` is the counting argument that each rank has one. From it `PageContinues` and
`UpToEndContinues` show that a page, or a page cut at the end of the run, keeps a reader in
`ReadersFollow`.

Model-checked only: liveness under fairness (the provers have no ENABLED); the safety of
`RecoveryBacklog`, `IdempotentConsumer` and `AgentSession`; the refinement of `SingleEffect`; and what
`RemoteTasks` says of a cancel that was answered, which is a liveness property.

## 6. What is abstracted and what is left out

* Planning, validation, SSE events and the executor are their outcome in `RunLifecycle`;
  so is the confirm loop. Conversational plans, runs without a store (the ledger is
  optional) and transient failures of ledger writes are left out; refusals by the ledger
  are modelled.
  A write that fails for a moment and is only logged is not: `resolveApproval`
  (`run_ledger.go:225-232`), the cancel row of `RunLifecycle` (`RemoteTasks` has its failure), release of a lease.
* A lease expires for every instance at once: instances judge it by their own clocks (`repository.go:280`),
  and no property depends on their difference.
* Payloads, budgets and plans of the ledger are dropped; a checkpoint is its version and
  fencing version. Approvals, signals and confirmations are in `PlanConfirmation`, tool calls
  and the tool budget in `ToolDispatch`, each as far as its own actors use them. Task rows and
  memories are not modelled.
* `PlanConfirmation` starts with the first awaiting_approval row and ends with the execution.
  The loop of plan-only runs (`handler_run_stream.go:1301-1860`) and the confirm path without
  an idempotency key (`handler_hitl.go:182-236,526-580`) are left out.
* `PlanExecution` has a plan's structure, not its text; agents answer, fail or hang as they
  like. The blocking dispatcher with its retries and breaker, which no run uses, and the
  planner's counters of model calls and repairs, and the recall of memories, are left out. The error
  that ExecuteStream returns before it emits anything (`handler_run_stream.go:1003-1025`) does not occur for a validated plan.
* `EventDelivery` makes one public event of an internal one; events without a public form and
  the size of a page are left out. It starts from a run that executes, so the status that makes a browser
  stop at a waiting run (`client.ts:306-309`) does not occur. A request's end may fail to be stored, and is then lost, as in the code.
* `OutboxRelay`: `PublishFails` stands for a failed read of the event too (`relay.go:103-107`). A lock is lost or ends
  with its process; its release in an orderly shutdown is left out.
* `StreamConsumer` reads one new entry at a time where the code reads up to `Count`: a batch is dispatched in the
  same order, entry by entry.
* `ToolDispatch` has budgets as counts of tool calls, and arguments, their hash and the tool's
  identity as one check that passes; policy and envelope checks refuse before any state.
* `RemoteTasks` gives each task an agent of its own and takes task ids as unique (they hold the
  nanosecond they were made in). Partial texts are one frame. The buffered JSON answer, reading a task and
  follow-up messages to it, and an agent that accepts a request whose client has left already, are left out. The deadline of a dispatch is `CallFails`.
* `AgentSession` has events as their turn and kind; session state, plugins and the text of prompts
  are dropped. The SQL service is not wired to an agent today.
* Redis trims its streams (`MAXLEN`, TTL): the models keep every entry. Redis and MySQL
  themselves do not fail; calls to them may where `MaxFaults` says so.
* `GatewayProjection` keeps authors, SSE writing and the SQLite mirror out; events are
  their type and turn. A failed live projection followed by a successful later one loses
  a turn, and a failed journal write hides an event from recovery: both are hazards with
  no property (the contract limits recovery to journaled turns).
* The planner's prompts, memory, the agents' own prompts and tools, the legacy server, the in-memory bus and the rest of
  the front end are not modelled: model calls, I/O, tests or presentation.

## 7. Plan

Modelled so far: the ledger and its readers and writers, the run from its plan over the
confirmation to its end, its tasks at the agents, tools, and the way of events to the browser. What is left, in
this order:

1. Plan-only runs and the old confirm path, as further clients of `PlanConfirmation`.
2. The rest of the budget harness: the planner's counters, their checkpoint and restore.
3. The memory controller: recall, extraction after a run and purge, and their races.
4. `MemoryBus`: the in-memory transport over `RunDispatcher`.

Abstract specifications worth stating: a queue per run for `StreamConsumer` over
`RunDispatcher`; a set of messages per turn for `GatewayProjection`; a decision per
revision for `PlanConfirmation`; `PlanExecution` as the running phase of `RunLifecycle`.

Theorems left: `RecoveryBacklog`, `IdempotentConsumer` and `AgentSession`. Theorems are kept in few modules: the next ones
share a module with those of a neighbouring component, as `RunControlProofs` does.

The runs are kept few: a new module takes the place of a run that asks less.
