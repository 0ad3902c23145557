--------------------------- MODULE PlanExecution ---------------------------
(***************************************************************************)
(* A plan from the validator to the end of its run: PlanValidator,         *)
(* the filter of confirmed participants, the three streaming executors,    *)
(* executeViaStreamingExecutor with its emit callback, and what cuts it:   *)
(* the cancel endpoint (here or on another instance), watchRunCancel and a *)
(* reader that goes.  The confirm loop between the validator and the       *)
(* execution is PlanConfirmation; the ledger below is ExecutionLedger.     *)
(***************************************************************************)
EXTENDS Integers, FiniteSets

CONSTANTS
  Tasks,        \* tasks as numbers, in the order of plan.Tasks
  Plans,        \* plans the planner may hand over (see PlanAssumption)
  MaxTasks,     \* ORCHESTRATOR_MAX_TASKS
  MaxParallel   \* budgetLimits.ParallelTasks

Strategies == {"single", "sequential", "ordered_parallel", "conversational"}

\* dependsOn may name a task outside the plan; unfit holds the tasks whose agent
\* the registry does not know, is unhealthy or lies outside the allowed agents;
\* selected holds the tasks of the participants the user confirms.
ASSUME PlanAssumption ==
  Plans \subseteq [strategy : Strategies, tasks : SUBSET Tasks, dependsOn : [Tasks -> SUBSET Tasks],
                   unfit : SUBSET Tasks, selected : SUBSET Tasks]

ASSUME BoundAssumption == Tasks \subseteq Nat /\ IsFiniteSet(Tasks) /\ MaxTasks \in Nat /\ MaxParallel \in Nat \ {0}

VARIABLES
  plan, pc, wave,
  task,            \* the goroutine (or turn) of each task
  result,          \* how it went, as waveOutcome and upstreamStore record it
  failed,          \* upstreamStore.failed
  live,            \* the run's context has not been cancelled
  outcome, told,   \* of executeViaStreamingExecutor; the last run_finished sent
  planStatus,      \* PendingPlan.Status
  status,          \* the run's row
  registered, marked,          \* RunTaskRegistry: the run, and its cancelled flag
  cancelRequested, canceller   \* run_cancel_requests; the cancel endpoint

planVars     == <<plan>>
taskVars     == <<task, result, failed>>
streamVars   == <<outcome, told>>
recordVars   == <<planStatus, status>>
registryVars == <<registered, marked>>
cancelVars   == <<cancelRequested, canceller>>
vars == <<plan, pc, wave, task, result, failed, live, outcome, told, planStatus, status,
          registered, marked, cancelRequested, canceller>>

Init ==
  /\ plan \in Plans
  /\ pc = "planned" /\ wave = 0
  /\ task = [t \in Tasks |-> "idle"] /\ result = [t \in Tasks |-> "none"] /\ failed = {}
  /\ live = TRUE
  /\ outcome = "completed" /\ told = "nothing"
  /\ planStatus = "none" /\ status = "planning"
  /\ registered = FALSE /\ marked = FALSE
  /\ cancelRequested = FALSE /\ canceller = "none"

-----------------------------------------------------------------------------
(* Kahn's algorithm, which checkDAGCycle and topologicalSort share: round n  *)
(* removes the tasks whose dependencies are gone.  A dependency on a task    *)
(* that is not there is no edge.                                             *)

\* Mutant: a task is ready as soon as one of its dependencies is gone.
RemovedByOne(tasks, deps) ==
  LET after[n \in 0 .. Cardinality(tasks)] ==
        IF n = 0 THEN {}
        ELSE after[n - 1] \cup {t \in tasks : \/ deps[t] \cap tasks = {}
                                              \/ deps[t] \cap after[n - 1] # {}}
  IN  after

Removed(tasks, deps) ==
  LET after[n \in 0 .. Cardinality(tasks)] ==
        IF n = 0 THEN {}
        ELSE after[n - 1] \cup {t \in tasks : deps[t] \cap tasks \subseteq after[n - 1]}
  IN  after

\* Mutant: only two tasks that wait for each other count as a cycle.
CircularInPairs(tasks, deps) == \E t, u \in tasks : t \in deps[u] /\ u \in deps[t]

Circular(tasks, deps) == Removed(tasks, deps)[Cardinality(tasks)] # tasks

\* PlanValidator.Validate and PathAwareValidator.Validate, the rules the executors rely on.
Valid(p) ==
  /\ p.strategy # "conversational" => p.tasks # {} /\ Cardinality(p.tasks) <= MaxTasks
  /\ p.strategy = "single" => Cardinality(p.tasks) = 1
  /\ p.strategy = "ordered_parallel" =>
       Cardinality(p.tasks) >= 2 /\ \A t \in p.tasks : p.dependsOn[t] = {}
  /\ \A t \in p.tasks : p.dependsOn[t] \subseteq p.tasks \ {t}
  /\ p.tasks \cap p.unfit = {}
  /\ ~ Circular(p.tasks, p.dependsOn)

Validate ==
  /\ pc = "planned"
  /\ IF Valid(plan) THEN pc' = "confirmed" /\ status' = "executing"
                    ELSE pc' = "ended" /\ status' = "failed"
  /\ UNCHANGED <<planVars, wave, taskVars, live, streamVars, planStatus, registryVars, cancelVars>>

\* filterPlanByConfirmedParticipants, with the registration of the run.
Begin ==
  /\ pc = "confirmed"
  /\ plan' = [plan EXCEPT !.tasks = plan.tasks \cap plan.selected]
  /\ registered' = TRUE
  /\ planStatus' = "executing"
  /\ pc' = IF plan.strategy = "conversational" THEN "answer" ELSE "wave"
  /\ wave' = 1
  /\ UNCHANGED <<taskVars, live, streamVars, status, marked, cancelVars>>

Deps(t) == plan.dependsOn[t] \cap plan.tasks

Concurrent == plan.strategy = "sequential"

\* The tasks of the n-th round: a layer of the graph, or the n-th task of the plan.
Wave(n) ==
  IF Concurrent
    THEN LET removed == Removed(plan.tasks, plan.dependsOn) IN removed[n] \ removed[n - 1]
    ELSE {t \in plan.tasks : Cardinality({u \in plan.tasks : u <= t}) = n}

Waves == {n \in 1 .. Cardinality(plan.tasks) : Wave(n) # {}}

-----------------------------------------------------------------------------
(* emit: what the executor sends, through the request's context.             *)

\* A send is refused, and the outcome of the run set, once the context is cut; an
\* error of a cancelled run is replaced by the end of a cancelled run.
Refused(event) == ~ live \/ (event = "run_error" /\ marked)

\* Mutant: the event is written before the context is looked at.
EmitFirst(event, last) ==
  IF Refused(event)
    THEN IF marked THEN outcome' = "cancelled" /\ told' = "cancelled"
                   ELSE outcome' = "disconnected" /\ told' = last
    ELSE told' = last /\ UNCHANGED outcome

Emit(event, last) ==
  IF Refused(event)
    THEN IF marked THEN outcome' = "cancelled" /\ told' = "cancelled"
                   ELSE outcome' = "disconnected" /\ UNCHANGED told
    ELSE told' = last /\ UNCHANGED outcome

-----------------------------------------------------------------------------
(* The executors: rounds of tasks.                                           *)

\* The context is looked at before a round (SingleExecutor does not look).  A
\* return here emits nothing.
StartWave ==
  /\ pc = "wave" /\ wave \in Waves
  /\ IF live \/ plan.strategy = "single"
       THEN /\ task' = [t \in Tasks |-> IF t \notin Wave(wave) THEN task[t]
                                        ELSE IF Concurrent THEN "spawned" ELSE "admitted"]
            /\ pc' = "running"
       ELSE pc' = "returned" /\ UNCHANGED task
  /\ UNCHANGED <<planVars, wave, result, failed, live, streamVars, recordVars, registryVars, cancelVars>>

\* Mutant: a task gives its slot back only when the wave is over.
HoldingToTheEnd == {t \in Tasks : task[t] \in {"holding", "admitted", "streaming", "over"}}

Holding == {t \in Tasks : task[t] \in {"holding", "admitted", "streaming"}}

\* The select on the semaphore and on the context.
Acquire(t) ==
  /\ task[t] = "spawned"
  /\ Cardinality(Holding) < MaxParallel
  /\ task' = [task EXCEPT ![t] = "holding"]
  /\ UNCHANGED <<planVars, pc, wave, result, failed, live, streamVars, recordVars, registryVars, cancelVars>>

\* A task is over; only a task that was dispatched is marked in upstreamStore.
Over(t, how) ==
  /\ task' = [task EXCEPT ![t] = "over"]
  /\ result' = [result EXCEPT ![t] = how]
  /\ failed' = IF how = "failed" THEN failed \cup {t} ELSE failed
  /\ UNCHANGED <<planVars, pc, wave, live, recordVars, registryVars, cancelVars>>

CutBeforeStart(t) ==
  /\ task[t] \in {"spawned", "holding"}
  /\ ~ live
  /\ Over(t, "cut")
  /\ UNCHANGED streamVars

\* The context is read once more when the semaphore is held, and again by every emit.
Admit(t) ==
  /\ task[t] = "holding" /\ live
  /\ task' = [task EXCEPT ![t] = "admitted"]
  /\ UNCHANGED <<planVars, pc, wave, result, failed, live, streamVars, recordVars, registryVars, cancelVars>>

Blocked(t) == Concurrent /\ Deps(t) \cap failed # {}

Skip(t) ==
  /\ task[t] = "admitted"
  /\ Blocked(t)
  /\ Emit("run_error", told)
  /\ Over(t, "skipped")

MayDispatch(t) == task[t] = "admitted" /\ ~ Blocked(t)

\* streamOneTask: the agent cannot be resolved, or its dispatch reports an error.
TaskFails(t) ==
  /\ MayDispatch(t) \/ task[t] = "streaming"
  /\ Emit("run_error", told)
  /\ Over(t, "failed")

StartTask(t) ==
  /\ MayDispatch(t)
  /\ Emit("message_start", told)
  /\ IF Refused("message_start")
       THEN Over(t, "failed")
       ELSE /\ task' = [task EXCEPT ![t] = "streaming"]
            /\ UNCHANGED <<planVars, pc, wave, result, failed, live, recordVars, registryVars, cancelVars>>

\* The agent's stream is through, or the first refused chunk ends it; neither
\* is a dispatch error.
TaskEnds(t) ==
  /\ task[t] = "streaming"
  /\ Emit("message_end", told)
  /\ Over(t, "ok")

\* wg.Wait, or the end of the turn.  SingleExecutor returns after a failure.
EndWave ==
  /\ pc = "running"
  /\ \A t \in Wave(wave) : task[t] = "over"
  /\ pc' = IF plan.strategy = "single" /\ \E t \in Wave(wave) : result[t] = "failed" THEN "returned" ELSE "wave"
  /\ wave' = wave + 1
  /\ UNCHANGED <<planVars, taskVars, live, streamVars, recordVars, registryVars, cancelVars>>

AllSucceeded == \A t \in plan.tasks : result[t] = "ok"

NoTasks ==
  /\ pc = "wave" /\ plan.tasks = {}
  /\ Emit("run_error", told)
  /\ pc' = "returned"
  /\ UNCHANGED <<planVars, wave, taskVars, live, recordVars, registryVars, cancelVars>>

\* synthesizeIfNeeded or the static summary; a refused one ends the execution
\* (DAGExecutor, SerialExecutor).
Summarise ==
  /\ pc = "wave" /\ plan.tasks # {} /\ wave \notin Waves
  /\ IF AllSucceeded THEN Emit("message_start", told) ELSE UNCHANGED streamVars
  /\ pc' = IF AllSucceeded /\ Refused("message_start") /\ plan.strategy # "single"
             THEN "returned" ELSE "finish"
  /\ UNCHANGED <<planVars, wave, taskVars, live, recordVars, registryVars, cancelVars>>

FinishRun ==
  /\ pc = "finish"
  /\ Emit("run_finished", IF AllSucceeded THEN "completed" ELSE "partial_failure")
  /\ pc' = "returned"
  /\ UNCHANGED <<planVars, wave, taskVars, live, recordVars, registryVars, cancelVars>>

-----------------------------------------------------------------------------
(* The handler after the executor.                                           *)

\* handleConversational: no context is looked at; an empty answer is an error.
Answer ==
  /\ pc = "answer"
  /\ \/ outcome' = "completed" /\ told' = "completed"
     \/ outcome' = "failed" /\ UNCHANGED told
  /\ pc' = "record"
  /\ UNCHANGED <<planVars, wave, taskVars, live, recordVars, registryVars, cancelVars>>

Return ==
  /\ pc = "returned"
  /\ IF marked THEN outcome' = "cancelled" /\ told' = "cancelled" ELSE UNCHANGED streamVars
  /\ planStatus' = IF marked THEN "cancelled" ELSE "completed"
  /\ pc' = "record"
  /\ UNCHANGED <<planVars, wave, taskVars, live, status, registryVars, cancelVars>>

\* The outcome as the run's row states it.
Recorded(o) == IF o = "disconnected" THEN "paused" ELSE o

\* The deferred RemoveRun follows the write.
Record ==
  /\ pc = "record"
  /\ status' = Recorded(outcome)
  /\ live' = FALSE /\ registered' = FALSE /\ marked' = FALSE
  /\ pc' = "ended"
  /\ UNCHANGED <<planVars, wave, taskVars, streamVars, planStatus, cancelVars>>

-----------------------------------------------------------------------------
(* What cuts the context.                                                    *)

Executing == pc \in {"wave", "running", "finish", "returned", "answer", "record"}

\* handleRunCancel: the durable request first, then the registry of this process.
RequestCancel ==
  /\ canceller = "none" /\ pc # "planned"
  /\ cancelRequested' = TRUE
  /\ canceller' \in {"here", "elsewhere"}
  /\ UNCHANGED <<planVars, pc, wave, taskVars, live, streamVars, recordVars, registryVars>>

CancelRun ==
  /\ canceller = "here"
  /\ canceller' = "answered"
  /\ IF registered THEN marked' = TRUE /\ live' = FALSE ELSE UNCHANGED <<marked, live>>
  /\ UNCHANGED <<planVars, pc, wave, taskVars, streamVars, recordVars, registered, cancelRequested>>

WatchRunCancel ==
  /\ Executing /\ live
  /\ cancelRequested
  /\ live' = FALSE
  /\ UNCHANGED <<planVars, pc, wave, taskVars, streamVars, recordVars, registryVars, cancelVars>>

ReaderLeaves ==
  /\ Executing /\ live
  /\ live' = FALSE
  /\ UNCHANGED <<planVars, pc, wave, taskVars, streamVars, recordVars, registryVars, cancelVars>>

-----------------------------------------------------------------------------
Turn(t) ==
  \/ Acquire(t) \/ CutBeforeStart(t) \/ Admit(t) \/ Skip(t) \/ StartTask(t) \/ TaskFails(t) \/ TaskEnds(t)

Run ==
  \/ Validate \/ Begin \/ StartWave \/ EndWave \/ NoTasks \/ Summarise \/ FinishRun
  \/ Answer \/ Return \/ Record

Environment == RequestCancel \/ CancelRun \/ WatchRunCancel \/ ReaderLeaves

Next == Run \/ (\E t \in Tasks : Turn(t)) \/ Environment

\* The handler and its goroutines run; a dispatch ends by itself, by its timeout or
\* by the context; the watcher ticks.
Fairness ==
  /\ WF_vars(Run)
  /\ \A t \in Tasks : WF_vars(Turn(t))
  /\ WF_vars(WatchRunCancel)

Spec == Init /\ [][Next]_vars /\ Fairness

-----------------------------------------------------------------------------
TypeOK ==
  /\ plan \in [strategy : Strategies, tasks : SUBSET Tasks, dependsOn : [Tasks -> SUBSET Tasks],
               unfit : SUBSET Tasks, selected : SUBSET Tasks]
  /\ pc \in {"planned", "confirmed", "answer", "wave", "running", "finish", "returned", "record", "ended"}
  /\ wave \in 0 .. Cardinality(Tasks) + 1
  /\ task \in [Tasks -> {"idle", "spawned", "holding", "admitted", "streaming", "over"}]
  /\ result \in [Tasks -> {"none", "ok", "failed", "skipped", "cut"}]
  /\ failed \subseteq Tasks
  /\ outcome \in {"completed", "failed", "cancelled", "disconnected"}
  /\ told \in {"nothing", "completed", "partial_failure", "cancelled"}
  /\ planStatus \in {"none", "executing", "completed", "cancelled"}
  /\ status \in {"planning", "executing", "completed", "failed", "cancelled", "paused"}
  /\ live \in BOOLEAN /\ registered \in BOOLEAN /\ marked \in BOOLEAN /\ cancelRequested \in BOOLEAN
  /\ canceller \in {"none", "here", "elsewhere", "answered"}

\* What a cycle is, without an algorithm: tasks that each wait for one of them.
WaitForEachOther(p) == \E s \in (SUBSET p.tasks) \ {{}} : \A t \in s : p.dependsOn[t] \cap s # {}

\* Kahn's rounds reject exactly the circular plans, and an executor that comes to
\* the end of its rounds has given every task of the plan its turn.
NoTaskForgotten ==
  /\ pc # "planned" /\ status # "failed" => ~ WaitForEachOther(plan)
  /\ pc = "finish" => \A t \in plan.tasks : task[t] = "over"

\* dag_executor.go:71: a task is dispatched only when every task it depends on is
\* over and none of them failed at its agent.
StartsAfterItsDependencies ==
  \A t \in plan.tasks : Concurrent /\ (task[t] = "streaming" \/ result[t] \in {"ok", "failed"}) =>
    \A u \in Deps(t) : task[u] = "over" /\ u \notin failed

\* What the stream of an execution told as its end is what the run's row says: a
\* run told to be finished is not parked for a resume, nor a cancelled one completed.
StreamTellsTheRecord ==
  pc = "ended" =>
    /\ told = "cancelled" <=> status = "cancelled"
    /\ told \in {"completed", "partial_failure"} => status = "completed"

\* Whatever fails, leaves or cancels, the handler writes an end for its run.
RunEnds == <>(pc = "ended")

\* docs/contracts/orchestration-plan.md:62: a task downstream of a failed one is
\* not dispatched.  Violated: a skipped task is not marked, and its own dependent runs.
DownstreamOfFailureSkipped ==
  \A t \in plan.tasks : Concurrent /\ result[t] = "ok" =>
    \A u \in Deps(t) : result[u] # "skipped"

\* scripts/run-multi-replica-smoke.sh:480: losing the subscriber leaves a recoverable
\* run.  Violated: a context cut between two rounds returns without an outcome.
CompletedRanEveryTask == status = "completed" => \A t \in plan.tasks : task[t] = "over"
=============================================================================
