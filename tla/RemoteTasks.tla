----------------------------- MODULE RemoteTasks -----------------------------
(***************************************************************************)
(* The tasks a run has dispatched to child agents over A2A, and what stops *)
(* them: streamOneTask and the streaming client on the executing instance, *)
(* the agent's request handler with its task store, and the cancel         *)
(* endpoint of any instance, which finds the tasks in the registry of its  *)
(* process or in run_task_refs.                                            *)
(*                                                                         *)
(* Each task goes to an agent of its own; a child agent keeps its tasks in *)
(* memory.  Which task may start when is PlanExecution.                    *)
(***************************************************************************)
EXTENDS RemoteTasksState

CONSTANTS
  MaxCrashes,  \* bound: agents that die while they work
  MaxFaults    \* bound: SQL calls and cancel calls that fail

ASSUME BoundAssumption == IsFiniteSet(Tasks) /\ MaxCrashes \in Nat /\ MaxFaults \in Nat

runVars      == <<run, outcome>>
registryVars == <<marked, refs>>
sqlVars      == <<rows, requested>>
callVars     == <<call, result>>
agentVars    == <<agent, ctx, store>>
cancelVars   == <<cancel, todo, told>>
boundVars    == <<crashes, faults>>
vars == <<run, outcome, live, marked, refs, rows, requested, call, result, wire,
          agent, ctx, store, cancel, todo, told, crashes, faults>>

Terminal == {"completed", "failed", "cancelled"}

Init ==
  /\ run = "executing" /\ outcome = "completed" /\ live = TRUE
  /\ marked = FALSE /\ refs = {} /\ rows = {} /\ requested = FALSE
  /\ call = [t \in Tasks |-> "idle"] /\ result = [t \in Tasks |-> "none"]
  /\ wire = [t \in Tasks |-> <<>>]
  /\ agent = [t \in Tasks |-> "none"] /\ ctx = [t \in Tasks |-> TRUE]
  /\ store = [t \in Tasks |-> "none"]
  /\ cancel \in [Cancels -> [pc : {"new"}, place : {"here", "elsewhere"}]]
  /\ todo = [c \in Cancels |-> {}] /\ told = [c \in Cancels |-> [t \in Tasks |-> "none"]]
  /\ crashes = 0 /\ faults = 0

-----------------------------------------------------------------------------
(* The executing instance.                                                   *)

\* emit is refused once the context is cut, and sets the outcome; the error of a
\* cancelled run is replaced by its end.
Emit(event) ==
  outcome' = IF ~ live \/ (event = "run_error" /\ marked)
               THEN IF marked THEN "cancelled" ELSE "disconnected"
               ELSE outcome

\* streamOneTask returns: its response is closed.
Over(t, event, how) ==
  /\ Emit(event)
  /\ call' = [call EXCEPT ![t] = "over"]
  /\ result' = [result EXCEPT ![t] = how]
  /\ UNCHANGED <<run, live, registryVars, sqlVars, agentVars, cancelVars, boundVars>>

Send(t) ==
  /\ call[t] = "idle" /\ live
  /\ call' = [call EXCEPT ![t] = "sent"]
  /\ UNCHANGED <<runVars, live, registryVars, sqlVars, result, wire, agentVars, cancelVars, boundVars>>

NotSent(t) ==
  /\ call[t] = "idle" /\ ~ live
  /\ Over(t, "message_start", "failed")
  /\ UNCHANGED wire

\* The header with the task's id comes before any frame, and the id is recorded
\* before one is read: in the registry, then in MySQL, whose error is ignored.
ReadHeader(t) ==
  /\ call[t] = "sent" /\ wire[t] # <<>>
  /\ wire' = [wire EXCEPT ![t] = Tail(@)]
  /\ refs' = refs \cup {t}
  /\ call' = [call EXCEPT ![t] = "noting"]
  /\ UNCHANGED <<runVars, live, marked, sqlVars, result, agentVars, cancelVars, boundVars>>

RegisterRunTask(t) ==
  /\ call[t] = "noting"
  /\ call' = [call EXCEPT ![t] = "reading"]
  /\ \/ rows' = rows \cup {t} /\ UNCHANGED faults
     \/ faults < MaxFaults /\ faults' = faults + 1 /\ UNCHANGED rows
  /\ UNCHANGED <<runVars, live, registryVars, requested, result, wire, agentVars, cancelVars, crashes>>

\* streamSSE.  An error frame decodes as an event without parts: it is skipped.  A
\* refused text ends the stream, and so does [DONE]; neither is an error.
ReadFrame(t) ==
  /\ call[t] = "reading" /\ wire[t] # <<>>
  /\ wire' = [wire EXCEPT ![t] = Tail(@)]
  /\ IF Head(wire[t]) = "done" \/ (Head(wire[t]) = "text" /\ ~ live)
       THEN Over(t, "message_end", "ok")
       ELSE UNCHANGED <<runVars, live, registryVars, sqlVars, callVars, agentVars, cancelVars, boundVars>>

\* Mutant: what the scanner met is not asked for.
AtEndOrBroken(t) == wire[t] = <<>> /\ agent[t] \in {"over", "dead"}

AtEnd(t) == wire[t] = <<>> /\ agent[t] = "over"

\* The end of the response is the end of the stream.
ReadEnd(t) ==
  /\ call[t] = "reading" /\ AtEnd(t)
  /\ Over(t, "message_end", "ok")
  /\ UNCHANGED wire

Waiting(t) == call[t] \in {"sent", "reading"}

\* The request or its response breaks with the agent or with the run's context.
CallBreaks(t) ==
  /\ Waiting(t) /\ (~ live \/ agent[t] = "dead")
  /\ Over(t, "run_error", "failed")
  /\ UNCHANGED wire

\* The agent is not reached, or the deadline of the dispatch passes.
CallFails(t) ==
  /\ Waiting(t) /\ live
  /\ Over(t, "run_error", "failed")
  /\ UNCHANGED wire

\* The executor returns: its run_finished, the final row, RemoveRun.
Recorded(o) == IF o = "disconnected" THEN "paused" ELSE o

EndRun ==
  /\ run = "executing" /\ \A t \in Tasks : call[t] = "over"
  /\ outcome' = IF marked THEN "cancelled" ELSE IF live THEN outcome ELSE "disconnected"
  /\ run' = Recorded(outcome')
  /\ live' = FALSE /\ marked' = FALSE /\ refs' = {}
  /\ UNCHANGED <<sqlVars, callVars, wire, agentVars, cancelVars, boundVars>>

ReaderLeaves ==
  /\ run = "executing" /\ live
  /\ live' = FALSE
  /\ UNCHANGED <<runVars, registryVars, sqlVars, callVars, wire, agentVars, cancelVars, boundVars>>

WatchRunCancel ==
  /\ run = "executing" /\ live /\ requested
  /\ live' = FALSE
  /\ UNCHANGED <<runVars, registryVars, sqlVars, callVars, wire, agentVars, cancelVars, boundVars>>

-----------------------------------------------------------------------------
(* The child agent: Server.handleRun and handleRunSSE.                       *)

\* A final status stays.
Settled(t, status) == [store EXCEPT ![t] = IF @ \in Terminal THEN @ ELSE status]

Accept(t) ==
  /\ call[t] = "sent" /\ agent[t] = "none"
  /\ agent' = [agent EXCEPT ![t] = "generating"]
  /\ store' = [store EXCEPT ![t] = "running"]
  /\ wire' = [wire EXCEPT ![t] = <<"header">>]
  /\ UNCHANGED <<runVars, live, registryVars, sqlVars, callVars, ctx, cancelVars, boundVars>>

\* The Runner passes its last look at the context and yields its answer.
Generate(t) ==
  /\ agent[t] = "generating" /\ ctx[t]
  /\ agent' = [agent EXCEPT ![t] = "answered"]
  /\ wire' = [wire EXCEPT ![t] = Append(@, "text")]
  /\ UNCHANGED <<runVars, live, registryVars, sqlVars, callVars, ctx, store, cancelVars, boundVars>>

\* [DONE] is sent whatever the store says.
Complete(t) ==
  /\ agent[t] = "answered"
  /\ store' = Settled(t, "completed")
  /\ wire' = [wire EXCEPT ![t] = Append(@, "done")]
  /\ agent' = [agent EXCEPT ![t] = "over"]
  /\ UNCHANGED <<runVars, live, registryVars, sqlVars, callVars, ctx, cancelVars, boundVars>>

RunnerFails(t) ==
  /\ agent[t] = "generating"
  /\ store' = Settled(t, "failed")
  /\ wire' = [wire EXCEPT ![t] = Append(@, "error")]
  /\ agent' = [agent EXCEPT ![t] = "over"]
  /\ UNCHANGED <<runVars, live, registryVars, sqlVars, callVars, ctx, cancelVars, boundVars>>

\* Mutant: the handler's context does not descend from its request.
DisconnectedNever(t) == FALSE

Disconnected(t) == call[t] = "over" \/ ~ live

\* The server meets the closed connection.
NoticeDisconnect(t) ==
  /\ agent[t] \in {"generating", "answered"} /\ ctx[t]
  /\ Disconnected(t)
  /\ ctx' = [ctx EXCEPT ![t] = FALSE]
  /\ UNCHANGED <<runVars, live, registryVars, sqlVars, callVars, wire, agent, store, cancelVars, boundVars>>

\* The store goes with the process.
AgentDies(t) ==
  /\ crashes < MaxCrashes /\ crashes' = crashes + 1
  /\ agent[t] \in {"generating", "answered"}
  /\ agent' = [agent EXCEPT ![t] = "dead"]
  /\ store' = [store EXCEPT ![t] = "none"]
  /\ UNCHANGED <<runVars, live, registryVars, sqlVars, callVars, wire, ctx, cancelVars, faults>>

-----------------------------------------------------------------------------
(* handleRunCancel.                                                          *)

Goes(c, pc) == cancel' = [cancel EXCEPT ![c].pc = pc]

\* An error of the durable request is logged.
RequestRunCancel(c) ==
  /\ cancel[c].pc = "new"
  /\ Goes(c, "local")
  /\ \/ requested' = TRUE /\ UNCHANGED faults
     \/ faults < MaxFaults /\ faults' = faults + 1 /\ UNCHANGED requested
  /\ UNCHANGED <<runVars, live, registryVars, rows, callVars, wire, agentVars, todo, told, crashes>>

CancelRun(c) ==
  /\ cancel[c].pc = "local"
  /\ Goes(c, "list")
  /\ IF cancel[c].place = "here" /\ run = "executing"
       THEN marked' = TRUE /\ live' = FALSE /\ todo' = [todo EXCEPT ![c] = refs]
       ELSE UNCHANGED <<marked, live, todo>>
  /\ UNCHANGED <<runVars, refs, sqlVars, callVars, wire, agentVars, told, boundVars>>

ListRunTasks(c) ==
  /\ cancel[c].pc = "list"
  /\ Goes(c, "calling")
  /\ \/ todo' = [todo EXCEPT ![c] = @ \cup rows] /\ UNCHANGED faults
     \/ faults < MaxFaults /\ faults' = faults + 1 /\ UNCHANGED todo
  /\ UNCHANGED <<runVars, live, registryVars, sqlVars, callVars, wire, agentVars, told, crashes>>

\* TaskStore.Cancel: it calls the cancel function of a running task, and answers
\* with the status of another.  An agent that was restarted knows no task.
CancelTask(c, t) ==
  /\ cancel[c].pc = "calling" /\ t \in todo[c]
  /\ todo' = [todo EXCEPT ![c] = @ \ {t}]
  /\ store' = IF store[t] = "none" THEN store ELSE Settled(t, "cancelled")
  /\ ctx' = [ctx EXCEPT ![t] = @ /\ store[t] # "running"]
  /\ told' = [told EXCEPT ![c][t] = store'[t]]
  /\ UNCHANGED <<runVars, live, registryVars, sqlVars, callVars, wire, agent, cancel, boundVars>>

CancelTaskFails(c, t) ==
  /\ cancel[c].pc = "calling" /\ t \in todo[c]
  /\ faults < MaxFaults /\ faults' = faults + 1
  /\ todo' = [todo EXCEPT ![c] = @ \ {t}]
  /\ UNCHANGED <<runVars, live, registryVars, sqlVars, callVars, wire, agentVars, cancel, told, crashes>>

\* The answer is "cancelled", with the status of each task.
AnswerCancel(c) ==
  /\ cancel[c].pc = "calling" /\ todo[c] = {}
  /\ Goes(c, "answered")
  /\ UNCHANGED <<runVars, live, registryVars, sqlVars, callVars, wire, agentVars, todo, told, boundVars>>

-----------------------------------------------------------------------------
Call(t) ==
  Send(t) \/ NotSent(t) \/ ReadHeader(t) \/ RegisterRunTask(t) \/ ReadFrame(t) \/ ReadEnd(t) \/ CallBreaks(t)

\* A Runner whose context is cut comes back with an error.
Stops(t) == NoticeDisconnect(t) \/ Complete(t) \/ (~ ctx[t] /\ RunnerFails(t))

Answering(c) ==
  \/ CancelRun(c) \/ ListRunTasks(c) \/ AnswerCancel(c)
  \/ \E t \in Tasks : CancelTask(c, t) \/ CancelTaskFails(c, t)

Next ==
  \/ \E t \in Tasks :
       \/ Call(t) \/ CallFails(t)
       \/ Accept(t) \/ Generate(t) \/ Complete(t) \/ RunnerFails(t) \/ NoticeDisconnect(t) \/ AgentDies(t)
  \/ EndRun \/ ReaderLeaves \/ WatchRunCancel
  \/ \E c \in Cancels : RequestRunCancel(c) \/ Answering(c)

\* The goroutines of the executor and of the endpoint run, the watcher ticks, a server
\* learns of a closed connection and a Runner of its context.
Fairness ==
  /\ \A t \in Tasks : WF_vars(Call(t)) /\ WF_vars(Stops(t))
  /\ WF_vars(EndRun) /\ WF_vars(WatchRunCancel)
  /\ \A c \in Cancels : WF_vars(Answering(c))

Spec == Init /\ [][Next]_vars /\ Fairness

-----------------------------------------------------------------------------
(* Type invariant: a frame is read only after the task is in the registry.   *)
TypeOK ==
  /\ run \in {"executing", "completed", "cancelled", "paused"}
  /\ outcome \in {"completed", "cancelled", "disconnected"}
  /\ {live, marked, requested} \subseteq BOOLEAN
  /\ refs \subseteq Tasks /\ rows \subseteq Tasks
  /\ call \in [Tasks -> {"idle", "sent", "noting", "reading", "over"}]
  /\ result \in [Tasks -> {"none", "ok", "failed"}]
  /\ \A t \in Tasks : wire[t] \in Seq({"header", "text", "done", "error"}) /\ Len(wire[t]) <= 3
  /\ agent \in [Tasks -> {"none", "generating", "answered", "over", "dead"}]
  /\ ctx \in [Tasks -> BOOLEAN]
  /\ store \in [Tasks -> Terminal \cup {"none", "running"}]
  /\ cancel \in [Cancels -> [pc : {"new", "local", "list", "calling", "answered"},
                             place : {"here", "elsewhere"}]]
  /\ todo \in [Cancels -> SUBSET Tasks]
  /\ told \in [Cancels -> [Tasks -> Terminal \cup {"none"}]]
  /\ run = "executing" => \A t \in Tasks : call[t] \in {"noting", "reading"} => t \in refs

\* server.go:905: a cancel that was answered, and that reached MySQL or the executing
\* instance, ends the run and every task at its agent, also one that no reference leads to.
AnsweredCancelStops ==
  \A c \in Cancels :
    cancel[c].pc = "answered" /\ (requested \/ cancel[c].place = "here")
      ~> run # "executing" /\ \A t \in Tasks : agent[t] \notin {"generating", "answered"}

\* docs/contracts/gateway-orchestrator.md:94: the failure of a child agent becomes an
\* error of the run.  Violated: the client skips the error frame.
FailedTaskIsReported ==
  \A t \in Tasks : result[t] = "ok" => store[t] # "failed"

\* docs/contracts/gateway-orchestrator.md:95: a run cancelled by its user ends as cancelled.
\* Violated: the tasks end first, by the cancel, and pass for answered.
CancelledRunNotCompleted ==
  \A c \in Cancels, t \in Tasks : run = "completed" /\ result[t] = "ok" => told[c][t] # "cancelled"
=============================================================================
