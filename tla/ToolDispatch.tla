------------------------------ MODULE ToolDispatch ------------------------------
(***************************************************************************)
(* The tool calls of one run at the Orchestrator's broker: consent, tool   *)
(* budget, dispatch intent and result of each call, beside handlers that   *)
(* end, pause and resume the run.                                          *)
(*                                                                         *)
(* An attempt is one request for one call, sent by an agent's guard        *)
(* ("remote", RemoteGuard over HTTP) or made in process ("local",          *)
(* Broker.Execute).  It carries the fencing version of the execution that  *)
(* sent it.  Attempts of one call are retries of it; "final" is a recorded  *)
(* success or failure.                                                     *)
(***************************************************************************)
EXTENDS Integers, Sequences, FiniteSets, FiniteSetsExt

CONSTANTS
  Attempts,
  CallOf,      \* the tool call of an attempt
  Via,         \* "remote" or "local"
  Approvals,
  ConsentTo,   \* the call an approval was given for
  ReadOnly,    \* calls of tools that only read
  Limit,       \* DefaultLimits().ToolCalls
  MaxFencing   \* bound: lease acquisitions

Calls == {CallOf[a] : a \in Attempts}
Writes == Calls \ ReadOnly
NoApproval == "none"

ASSUME ToolAssumption ==
  /\ CallOf \in [Attempts -> Calls] /\ Via \in [Attempts -> {"remote", "local"}]
  /\ ConsentTo \in [Approvals -> Writes] /\ NoApproval \notin Approvals
  /\ Limit \in Nat \ {0} /\ MaxFencing \in Nat \ {0}

VARIABLES
  approval,   \* approvals.status
  call,       \* tool_calls: status, approval and fencing version of a call
  toolCalls,  \* executions.budget_json: tool calls used
  status,     \* executions.status
  fencing,    \* executions.fencing_version
  pc, token, consent, budget,  \* of an attempt: place, fencing version, approval, budget read
  dispatched, \* history: the writes in the order of their dispatch
  runs        \* history: how often the tool of a call was run

ledgerVars == <<approval, call, toolCalls, status, fencing>>
attemptVars == <<pc, token, consent, budget>>
vars == <<ledgerVars, attemptVars, dispatched, runs>>

Init ==
  /\ approval = [p \in Approvals |-> "none"]
  /\ call = [c \in Writes |-> [status |-> "none", approval |-> NoApproval, fencing |-> 0]]
  /\ toolCalls = 0 /\ status = "executing" /\ fencing = 1
  /\ pc = [a \in Attempts |-> "idle"] /\ token = [a \in Attempts |-> 0]
  /\ consent = [a \in Attempts |-> NoApproval] /\ budget = [a \in Attempts |-> 0]
  /\ dispatched = <<>> /\ runs = [c \in Calls |-> 0]

Goto(a, l) == pc' = [pc EXCEPT ![a] = l]

\* The attempt leaves the broker; what it knew is forgotten.
Leave(a, l) ==
  /\ Goto(a, l)
  /\ token' = [token EXCEPT ![a] = 0]
  /\ consent' = [consent EXCEPT ![a] = NoApproval]
  /\ budget' = [budget EXCEPT ![a] = 0]

-----------------------------------------------------------------------------
(* The user's consent to one call, by approval endpoint and clock.           *)
CreateApproval(p) ==
  /\ approval[p] = "none"
  /\ approval' = [approval EXCEPT ![p] = "pending"]
  /\ UNCHANGED <<call, toolCalls, status, fencing, attemptVars, dispatched, runs>>

Expires(p) ==
  /\ approval[p] = "pending"
  /\ approval' = [approval EXCEPT ![p] = "expired"]
  /\ UNCHANGED <<call, toolCalls, status, fencing, attemptVars, dispatched, runs>>

-----------------------------------------------------------------------------
(* The handlers of the run (RunLifecycle).  Their state writes carry their   *)
(* own budget, which counts no tool calls.                                   *)
WriteState(s) ==
  /\ status = "executing"
  /\ status' = s /\ toolCalls' = 0
  /\ UNCHANGED <<approval, call, fencing, attemptVars, dispatched, runs>>

\* AcquireLease of a resume, after a pause or from an expired lease.
AcquireLease ==
  /\ status \in {"executing", "paused"} /\ fencing < MaxFencing
  /\ fencing' = fencing + 1 /\ status' = "resuming"
  /\ UNCHANGED <<approval, call, toolCalls, attemptVars, dispatched, runs>>

\* Its first state write has the budget of the checkpoint, which no tool call writes.
Resume ==
  /\ status = "resuming"
  /\ status' = "executing" /\ toolCalls' = 0
  /\ UNCHANGED <<approval, call, fencing, attemptVars, dispatched, runs>>

-----------------------------------------------------------------------------
(* One attempt at the broker.                                                *)
Write(a) == CallOf[a] \in Writes

\* CurrentBudget, a read of its own.  A write without an approval is not sent.
Request(a, p) ==
  /\ pc[a] = "idle" /\ status = "executing"
  /\ IF Write(a) THEN p \in Approvals /\ approval[p] # "none" ELSE p = NoApproval
  /\ token' = [token EXCEPT ![a] = fencing]
  /\ consent' = [consent EXCEPT ![a] = p]
  /\ budget' = [budget EXCEPT ![a] = toolCalls]
  /\ Goto(a, "authorize")
  /\ UNCHANGED <<ledgerVars, dispatched, runs>>

HasBudget(a) == budget[a] + 1 <= Limit

Refuse(a) == Leave(a, "over")

Exhausted(a) ==
  /\ pc[a] = "authorize" /\ ~ HasBudget(a)
  /\ Refuse(a)
  /\ UNCHANGED <<ledgerVars, dispatched, runs>>

InForce(a) == token[a] = fencing

SetBudget(a) ==
  /\ pc[a] = "authorize" /\ HasBudget(a) /\ ~ Write(a)
  /\ IF InForce(a) /\ status \notin {"completed", "failed", "cancelled"}
     THEN toolCalls' = budget[a] + 1 /\ Leave(a, "run")
     ELSE UNCHANGED toolCalls /\ Refuse(a)
  /\ UNCHANGED <<approval, call, status, fencing, dispatched, runs>>

\* What ConsumeApprovalAndDispatch finds, in the order it looks.
Consumed(a) == approval[consent[a]] = "consumed"
Consents(a) == approval[consent[a]] = "pending" /\ ConsentTo[consent[a]] = CallOf[a]

\* Mutant: only a call with a result counts as dispatched before.
DuplicateOnceFinal(a) == call[CallOf[a]].status = "final"

Duplicate(a) == call[CallOf[a]].status # "none"

\* Mutant: a displaced execution's writes are let through.
MayDispatchUnfenced(a) == Consents(a)

MayDispatch(a) == Consents(a) /\ InForce(a)

\* One transaction: consent, budget and intent.
Dispatch(a) ==
  LET c == CallOf[a] IN
  /\ pc[a] = "authorize" /\ HasBudget(a) /\ Write(a) /\ MayDispatch(a) /\ ~ Duplicate(a)
  /\ approval' = [approval EXCEPT ![consent[a]] = "consumed"]
  /\ toolCalls' = budget[a] + 1
  /\ call' = [call EXCEPT ![c] = [status |-> "dispatched", approval |-> consent[a],
                                  fencing |-> token[a]]]
  /\ dispatched' = Append(dispatched, c)
  /\ Leave(a, "run")
  /\ UNCHANGED <<status, fencing, runs>>

\* Mutant: the consent is spent before the rest is looked at, without a rollback.
RefuseDispatchSpent(a) ==
  /\ pc[a] = "authorize" /\ HasBudget(a) /\ Write(a) /\ ~ Consumed(a) /\ ~ MayDispatch(a)
  /\ approval' = [approval EXCEPT ![consent[a]] = IF Consents(a) THEN "consumed" ELSE @]
  /\ Refuse(a)
  /\ UNCHANGED <<call, toolCalls, status, fencing, dispatched, runs>>

\* The transaction is rolled back, with what it did to the approval.
RefuseDispatch(a) ==
  /\ pc[a] = "authorize" /\ HasBudget(a) /\ Write(a) /\ ~ Consumed(a) /\ ~ MayDispatch(a)
  /\ Refuse(a)
  /\ UNCHANGED <<ledgerVars, dispatched, runs>>

\* The consent is spent, or the call is in the table: recoverDispatch.
AlreadyDispatched(a) ==
  /\ pc[a] = "authorize" /\ HasBudget(a) /\ Write(a)
  /\ Consumed(a) \/ (MayDispatch(a) /\ Duplicate(a))
  /\ Leave(a, "recover")
  /\ UNCHANGED <<ledgerVars, dispatched, runs>>

\* GetToolCall found no row: the approval was spent on another call.
Unknown(a) ==
  /\ pc[a] = "recover" /\ call[CallOf[a]].status \in {"none", "unknown"}
  /\ Refuse(a)
  /\ UNCHANGED <<ledgerVars, dispatched, runs>>

FindOpen(a) ==
  /\ pc[a] = "recover" /\ call[CallOf[a]].status = "dispatched"
  /\ Leave(a, "mark")
  /\ UNCHANGED <<ledgerVars, dispatched, runs>>

\* RecordToolResult: only a call without a final result takes one.
Record(c, s) ==
  call' = IF call[c].status \in {"dispatched", "unknown"} THEN [call EXCEPT ![c].status = s] ELSE call

MarkUnknown(a) ==
  /\ pc[a] = "mark"
  /\ Record(CallOf[a], "unknown")
  /\ Refuse(a)
  /\ UNCHANGED <<approval, toolCalls, status, fencing, dispatched, runs>>

\* Broker.Execute returns the stored result; RemoteGuard takes any 200 for leave to
\* run the tool.
Replay(a) ==
  /\ pc[a] = "recover" /\ call[CallOf[a]].status = "final"
  /\ Goto(a, IF Via[a] = "local" THEN "over" ELSE "run")
  /\ UNCHANGED <<ledgerVars, token, consent, budget, dispatched, runs>>

-----------------------------------------------------------------------------
(* The agent with leave to run the tool.                                     *)
RunTool(a) ==
  /\ pc[a] = "run"
  /\ runs' = [runs EXCEPT ![CallOf[a]] = @ + 1]
  /\ Goto(a, IF Write(a) THEN "report" ELSE "over")
  /\ UNCHANGED <<ledgerVars, token, consent, budget, dispatched>>

Report(a) ==
  /\ pc[a] = "report"
  /\ Record(CallOf[a], "final")
  /\ Goto(a, "over")
  /\ UNCHANGED <<approval, toolCalls, status, fencing, token, consent, budget, dispatched, runs>>

\* The agent ends, or its report is lost.
Dies(a) ==
  /\ pc[a] \in {"run", "report"}
  /\ Goto(a, "over")
  /\ UNCHANGED <<ledgerVars, token, consent, budget, dispatched, runs>>

Broker(a) ==
  \/ Exhausted(a) \/ SetBudget(a) \/ Dispatch(a) \/ RefuseDispatch(a) \/ AlreadyDispatched(a)
  \/ Unknown(a) \/ FindOpen(a) \/ MarkUnknown(a) \/ Replay(a)

Agent(a) == RunTool(a) \/ Report(a) \/ Dies(a)

Next ==
  \/ \E p \in Approvals : CreateApproval(p) \/ Expires(p)
  \/ \E s \in {"paused", "completed"} : WriteState(s)
  \/ AcquireLease \/ Resume
  \/ \E a \in Attempts :
       (\E p \in Approvals \union {NoApproval} : Request(a, p)) \/ Broker(a) \/ Agent(a)

Spec == Init /\ [][Next]_vars

-----------------------------------------------------------------------------
TypeOK ==
  /\ approval \in [Approvals -> {"none", "pending", "expired", "consumed"}]
  /\ call \in [Writes -> [status : {"none", "dispatched", "unknown", "final"},
                          approval : Approvals \union {NoApproval}, fencing : 0 .. MaxFencing]]
  /\ toolCalls \in 0 .. Limit /\ fencing \in 1 .. MaxFencing
  /\ status \in {"executing", "paused", "resuming", "completed"}
  /\ pc \in [Attempts -> {"idle", "authorize", "recover", "mark", "run", "report", "over"}]
  /\ token \in [Attempts -> 0 .. MaxFencing] /\ budget \in [Attempts -> 0 .. Limit]
  /\ consent \in [Attempts -> Approvals \union {NoApproval}]
  /\ dispatched \in Seq(Writes) /\ runs \in [Calls -> Nat]

(* A consent is spent exactly with the dispatch of the call it was given     *)
(* for: an attempt refused for its budget, a stale execution or a duplicate  *)
(* leaves it to be used, and no write is dispatched without one of its own.  *)
ConsentSpentWithItsCall ==
  /\ \A p \in Approvals : approval[p] = "consumed" <=> call[ConsentTo[p]].approval = p
  /\ \A c \in Writes : call[c].status # "none" <=> call[c].approval # NoApproval

(* docs/contracts/runtime-harness.md, an unknown outcome is not repeated     *)
(* blindly: whatever agents die and whatever retries race the first attempt, *)
(* a write runs again only once a final result of it is recorded.            *)
NoBlindRepeat == \A c \in Writes : runs[c] > 1 => call[c].status = "final"

(* Writes are dispatched under rising fencing versions: an execution that    *)
(* was displaced dispatches nothing behind a write of its successor.         *)
DispatchFollowsLease ==
  \A i, j \in DOMAIN dispatched : i < j =>
    call[dispatched[i]].fencing <= call[dispatched[j]].fencing

(* docs/contracts/tool-broker.md, a replay of a write returns its result: a  *)
(* write runs once.  Violated by RemoteGuard, which ignores the replay.      *)
WriteRunsOnce == \A c \in Writes : runs[c] <= 1

(* docs/contracts/runtime-harness.md, parallel calls and resumes do not      *)
(* multiply the budget of tool calls.  Violated: writes of an absolute count *)
(* read before, and of the handlers' own budget.                             *)
ToolBudgetKept ==
  Len(dispatched) + MapThenSumSet(LAMBDA c : runs[c], ReadOnly) <= Limit
=============================================================================
