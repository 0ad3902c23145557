-------------------------- MODULE RemoteTasksState --------------------------
(***************************************************************************)
(* What a run, its child agents and the cancel endpoint know of the tasks  *)
(* that the run has dispatched, and what is promised of it.  RemoteTasks   *)
(* has the steps.                                                          *)
(***************************************************************************)
EXTENDS Integers, Sequences, FiniteSets

CONSTANTS
  Tasks,
  Cancels      \* requests to the cancel endpoint

VARIABLES
  run, outcome,     \* the run's row; of executeViaStreamingExecutor
  live,             \* the run's context has not been cancelled
  marked, refs,     \* RunTaskRegistry of the executing instance
  rows, requested,  \* run_task_refs; run_cancels
  call, result,     \* streamOneTask of a task, and how it went
  wire,             \* frames of a response the client has not read
  agent, ctx,       \* the agent's handler; its context has not been cancelled
  store,            \* TaskStore: the status of a task
  cancel,           \* where a request is, and its instance
  todo, told,       \* its tasks left to cancel; the status it was told of each
  crashes, faults

\* task_store.go:122: what the cancel endpoint was told of a task stays true for as long
\* as its agent lives, also when the Runner's answer was under way.
CancelAnswerStands ==
  \A c \in Cancels, t \in Tasks : told[c][t] # "none" => store[t] \in {told[c][t], "none"}

\* client.go:411: in an execution that nothing has cut, a task that counts as done was
\* answered by its agent to the end, be it an error frame: one that dies half-way is noticed.
BrokenStreamReported ==
  \A t \in Tasks : result[t] = "ok" => agent[t] = "over" \/ outcome # "completed"
=============================================================================
