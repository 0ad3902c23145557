-------------------------- MODULE PlanConfirmation --------------------------
(***************************************************************************)
(* The confirmation of a plan: the confirm loop of handleRunStream on the  *)
(* instance that owns the run, the confirm endpoint (handleHITLConfirm) on *)
(* every instance, and the cancel endpoint.                                *)
(*                                                                         *)
(* A confirm that reaches the owner goes into a channel of one place; one  *)
(* that reaches another instance becomes a row of run_signals, which the   *)
(* owner polls and feeds into the same channel.  One run; the module       *)
(* starts when its state awaiting_approval has been written.               *)
(***************************************************************************)
EXTENDS Integers, Sequences, FiniteSets

CONSTANTS
  Requests,     \* confirms, each with an idempotency key of its own
  MaxRevision,  \* bound: revisions of the plan
  MaxDeaths     \* bound: confirms cut short, and sent again

ASSUME RequestAssumption == {"stop", "nobody"} \intersect Requests = {}
ASSUME BoundAssumption == MaxRevision \in Nat \ {0} /\ MaxDeaths \in Nat

VARIABLES
  status, planRev, approval, signals, cancelRequested, confirmation, \* SQL
  pc, revision, approvalRev, inHand, connected,                      \* the owner
  channel, registered, pending, hitlState, idempotency,              \* its process
  req, deaths,                                                       \* the confirm handlers
  taken                                                              \* history: decisions acted on, by key

sqlVars     == <<status, planRev, approval, signals, cancelRequested, confirmation>>
ownerVars   == <<pc, revision, approvalRev, inHand, connected>>
processVars == <<channel, registered, pending, hitlState, idempotency>>
requestVars == <<req, deaths, taken>>
vars == <<status, planRev, approval, signals, cancelRequested, confirmation,
          pc, revision, approvalRev, inHand, connected,
          channel, registered, pending, hitlState, idempotency, req, deaths, taken>>

Revisions == 1 .. MaxRevision
Actions   == {"approve", "revise", "cancel"}
NoResult  == [action |-> "none", rev |-> 0, by |-> "nobody"]
NoRecord  == [state |-> "none", payload |-> NoResult]
NoPlan    == [state |-> "none", rev |-> 0]

Result(a, n, by) == [action |-> a, rev |-> n, by |-> by]

\* What a confirm asks for, as both request hashes see it (the plan id, a part
\* of them, is new with every revision).
Payload(r) == Result(req[r].action, req[r].rev, r)

Init ==
  /\ status = "awaiting_approval" /\ planRev = 1
  /\ approval = [n \in Revisions |-> "none"]
  /\ signals = <<>> /\ cancelRequested = FALSE
  /\ confirmation = [r \in Requests |-> NoRecord]
  /\ pc = "asked" /\ revision = 1 /\ approvalRev = 0 /\ inHand = NoResult
  /\ connected = TRUE
  /\ channel = <<>> /\ registered = FALSE /\ pending = NoPlan /\ hitlState = "none"
  /\ idempotency = [r \in Requests |-> NoRecord]
  /\ req = [r \in Requests |-> [pc |-> "unsent", action |-> "none", rev |-> 0,
                                open |-> FALSE, ok |-> FALSE, lost |-> FALSE]]
  /\ deaths = 0
  /\ taken = [r \in Requests |-> 0]

Goto(l) == pc' = l

-----------------------------------------------------------------------------
(* SQL: ResolveApproval closes a pending approval once; AppendRunSignal and  *)
(* ClaimRunSignal; AppendStateChange refuses a finished run.                 *)

ResolveApproval(s) ==
  approval' = IF approvalRev # 0 /\ approval[approvalRev] = "pending"
                THEN [approval EXCEPT ![approvalRev] = s] ELSE approval

Finished == status \in {"failed", "cancelled"}

Terminal(s) == status' = IF Finished THEN status ELSE s

PendingSignals == {i \in DOMAIN signals : ~ signals[i].consumed}

OldestSignal == CHOOSE i \in PendingSignals : \A j \in PendingSignals : i <= j

-----------------------------------------------------------------------------
(* The owner up to the confirm loop: CreatePlanApproval, registerPendingPlan. *)

\* A ledger write under the request's context: it fails when the client has gone,
\* and abortRunWithLedger ends the run without touching the registration.
OwnerWrites(next, effect) ==
  \/ connected /\ effect /\ Goto(next) /\ UNCHANGED status
  \/ ~ connected /\ Terminal("failed") /\ Goto("ended") /\ UNCHANGED <<planRev, approval, approvalRev>>

RequestApproval ==
  /\ pc = "asked"
  /\ OwnerWrites("register", /\ approval' = [approval EXCEPT ![revision] = "pending"]
                             /\ approvalRev' = revision
                             /\ UNCHANGED planRev)
  /\ UNCHANGED <<signals, cancelRequested, confirmation, revision, inHand, connected,
                 processVars, requestVars>>

Register ==
  /\ pc = "register"
  /\ registered' = TRUE
  /\ pending' = [state |-> "awaiting", rev |-> revision]
  /\ hitlState' = "pending"
  /\ Goto("loop")
  /\ UNCHANGED <<sqlVars, revision, approvalRev, inHand, connected, channel, idempotency,
                 requestVars>>

-----------------------------------------------------------------------------
(* One round of the confirm loop.  Go's select takes any ready case.         *)

PollSignal ==
  /\ pc = "loop" /\ connected
  /\ PendingSignals # {}
  /\ signals' = [signals EXCEPT ![OldestSignal].consumed = TRUE]
  /\ inHand' = signals[OldestSignal].result
  /\ Goto("push")
  /\ UNCHANGED <<status, planRev, approval, cancelRequested, confirmation, revision,
                 approvalRev, connected, processVars, requestVars>>

\* The loop is the only reader of the channel it sends to here.
PushSignal ==
  /\ pc = "push"
  /\ channel = <<>>
  /\ channel' = <<inHand>> /\ inHand' = NoResult
  /\ Goto("loop")
  /\ UNCHANGED <<sqlVars, revision, approvalRev, connected, registered, pending, hitlState,
                 idempotency, requestVars>>

GiveUpPush ==
  /\ pc = "push" /\ ~ connected
  /\ Goto("ended")
  /\ UNCHANGED <<sqlVars, revision, approvalRev, inHand, connected, processVars, requestVars>>

\* cancelPendingPlan, by the loop's poll and by the cancel endpoint.
MayCancelPending ==
  pending # NoPlan /\ registered /\ hitlState \in {"pending", "revising"} /\ channel = <<>>

CancelPendingPlan ==
  /\ MayCancelPending
  /\ channel' = <<Result("cancel", 0, "stop")>>
  /\ pending' = [pending EXCEPT !.state = "cancelled"]
  /\ hitlState' = "cancelled"
  /\ UNCHANGED <<registered, idempotency>>

PollCancel ==
  /\ pc = "loop" /\ cancelRequested
  /\ CancelPendingPlan
  /\ UNCHANGED <<sqlVars, ownerVars, requestVars>>

TakeResult ==
  /\ pc = "loop" /\ channel # <<>>
  /\ inHand' = Head(channel) /\ channel' = <<>>
  /\ Goto(Head(channel).action)
  /\ taken' = [r \in Requests |-> IF Head(channel).by = r THEN taken[r] + 1 ELSE taken[r]]
  /\ UNCHANGED <<sqlVars, revision, approvalRev, connected, registered, pending, hitlState,
                 idempotency, req, deaths>>

\* Two exits close the run: its approval and its status (nobody reads the one
\* between the other), then, under the lock, the tombstone and the registration.
CloseRun(resolution, terminal) ==
  /\ ResolveApproval(resolution)
  /\ Terminal(terminal)
  /\ Goto(resolution)
  /\ UNCHANGED <<planRev, signals, cancelRequested, confirmation, revision, approvalRev,
                 inHand, connected, processVars, requestVars>>

\* Mutant: the deadline is not set again when a revised plan is shown.
DeadlineOnce == pc = "loop" /\ revision = 1 /\ CloseRun("expired", "failed")

Deadline == pc = "loop" /\ CloseRun("expired", "failed")

TakenCancel == pc = "cancel" /\ CloseRun("cancelled", "cancelled")

\* The plan of a run that ends here stays registered as a tombstone.
Bury(state) ==
  /\ pending' = [pending EXCEPT !.state = state]
  /\ registered' = FALSE
  /\ Goto("ended")
  /\ UNCHANGED <<sqlVars, revision, approvalRev, inHand, connected, channel, hitlState,
                 idempotency, requestVars>>

Tombstone == pc \in {"expired", "cancelled"} /\ Bury(pc)

LeaveLoop ==
  /\ pc = "loop" /\ ~ connected
  /\ registered' = FALSE
  /\ Goto("ended")
  /\ UNCHANGED <<sqlVars, revision, approvalRev, inHand, connected, channel, pending,
                 hitlState, idempotency, requestVars>>

-----------------------------------------------------------------------------
(* A revise: the old approval is superseded, the plan is made again and its  *)
(* next revision saved, approved for and shown.                              *)

\* Mutant: the old revision stays open for approval.
ReviseKeepsApproval ==
  /\ pc = "revise"
  /\ pending' = [pending EXCEPT !.state = "revising"]
  /\ Goto(IF inHand.rev # revision THEN "unplanned" ELSE "planning")
  /\ UNCHANGED <<status, planRev, approval, signals, cancelRequested, confirmation, revision,
                 approvalRev, inHand, connected, channel, registered, hitlState,
                 idempotency, requestVars>>

StartRevise ==
  /\ pc = "revise"
  /\ ResolveApproval("superseded")
  /\ pending' = [pending EXCEPT !.state = "revising"]
  /\ Goto(IF inHand.rev # revision THEN "unplanned" ELSE "planning")
  /\ UNCHANGED <<status, planRev, signals, cancelRequested, confirmation, revision,
                 approvalRev, inHand, connected, channel, registered, hitlState,
                 idempotency, requestVars>>

\* The planner or a validator of the new plan fails; the run stays as it is.
PlannerFails ==
  /\ pc = "planning"
  /\ Goto("unplanned")
  /\ UNCHANGED <<sqlVars, revision, approvalRev, inHand, connected, processVars, requestVars>>

Unplanned == pc = "unplanned" /\ Bury("failed")

Replan ==
  /\ pc = "planning" /\ connected
  /\ revision < MaxRevision
  /\ revision' = revision + 1
  /\ Goto("save")
  /\ UNCHANGED <<sqlVars, approvalRev, inHand, connected, processVars, requestVars>>

SavePlan ==
  /\ pc = "save"
  /\ OwnerWrites("reapprove", planRev' = revision /\ UNCHANGED <<approval, approvalRev>>)
  /\ UNCHANGED <<signals, cancelRequested, confirmation, revision, inHand, connected,
                 processVars, requestVars>>

RequestReapproval ==
  /\ pc = "reapprove"
  /\ OwnerWrites("checkpoint", /\ approval' = [approval EXCEPT ![revision] = "pending"]
                               /\ approvalRev' = revision
                               /\ UNCHANGED planRev)
  /\ UNCHANGED <<signals, cancelRequested, confirmation, revision, inHand, connected,
                 processVars, requestVars>>

SaveCheckpoint ==
  /\ pc = "checkpoint"
  /\ OwnerWrites("finish", UNCHANGED <<planRev, approval, approvalRev>>)
  /\ UNCHANGED <<signals, cancelRequested, confirmation, revision, inHand, connected,
                 processVars, requestVars>>

\* The user sees the new revision from here on.
FinishRevise ==
  /\ pc = "finish"
  /\ pending' = [state |-> "awaiting", rev |-> revision]
  /\ inHand' = NoResult
  /\ Goto("loop")
  /\ UNCHANGED <<sqlVars, revision, approvalRev, connected, channel, registered, hitlState,
                 idempotency, requestVars>>

-----------------------------------------------------------------------------
(* An approve: the channel is taken down, the approval closed and the state  *)
(* executing written.                                                        *)

TakenApprove ==
  /\ pc = "approve"
  /\ registered' = FALSE
  /\ Goto("approved")
  /\ UNCHANGED <<sqlVars, revision, approvalRev, inHand, connected, channel, pending,
                 hitlState, idempotency, requestVars>>

Execute ==
  /\ pc = "approved"
  /\ ResolveApproval("approved")
  /\ IF connected /\ ~ Finished
       THEN status' = "executing" /\ Goto("executing")
       ELSE Terminal("failed") /\ Goto("ended")
  /\ UNCHANGED <<planRev, signals, cancelRequested, confirmation, revision, approvalRev,
                 inHand, connected, processVars, requestVars>>

ClientLeaves ==
  /\ connected
  /\ pc \notin {"executing", "ended"}
  /\ connected' = FALSE
  /\ UNCHANGED <<sqlVars, pc, revision, approvalRev, inHand, processVars, requestVars>>

-----------------------------------------------------------------------------
(* handleHITLConfirm.  A request carries a revision its sender has seen, and  *)
(* the same when it is sent again.                                           *)

Step(r, l)    == req' = [req EXCEPT ![r].pc = l]
Answer(r, ok) == req' = [req EXCEPT ![r].pc = "answered", ![r].ok = ok]

LatestShown == IF pending = NoPlan THEN 1 ELSE pending.rev

\* A row in processing is given up after two minutes, the length of a window: the
\* owner has then left the window of the claim, for the planner or for good.
Abandoned(r) ==
  /\ confirmation[r].state = "processing"
  /\ pc \in {"planning", "ended", "executing"} \/ confirmation[r].payload.rev < revision

Claim(r, a, n) ==
  /\ confirmation' = [confirmation EXCEPT ![r] = [state |-> "processing",
                                                   payload |-> Result(a, n, r)]]
  /\ \E l \in {"claimed", "durable"} :
       req' = [req EXCEPT ![r].pc = l, ![r].action = a, ![r].rev = n, ![r].open = FALSE]
  /\ UNCHANGED <<status, planRev, approval, signals, cancelRequested, ownerVars,
                 processVars, deaths, taken>>

\* BeginConfirm, on the owner's instance or on another, whose maps are empty.
BeginConfirm(r) ==
  /\ req[r].pc = "unsent"
  /\ \E a \in Actions, n \in 1 .. LatestShown : Claim(r, a, n)

\* The same confirm is sent again: until its row is given up or completed the answer
\* is 409 and, once it is completed, the stored one.
Repeat(r) ==
  /\ req[r].pc \in {"dead", "lost"}
  /\ Abandoned(r)
  /\ Claim(r, req[r].action, req[r].rev)

\* The maps are read under the lock and used after it.
Lookup(r) ==
  /\ req[r].pc = "claimed"
  /\ LET local == pending # NoPlan IN
     req' = [req EXCEPT ![r].pc = IF local THEN "local" ELSE "durable",
                        ![r].open = local /\ registered]
  /\ UNCHANGED <<sqlVars, ownerVars, processVars, deaths, taken>>

\* CheckIdempotency and the validation of the request, under the lock.  (A key used
\* for another request is refused by the hashes, here and in SQL, and left out.)
InForce(r) == pending.state = "awaiting" /\ pending.rev = req[r].rev

Record(r, st) ==
  idempotency' = [idempotency EXCEPT ![r] = [state |-> st, payload |-> Payload(r)]]

\* Answered from the record of an earlier attempt: 409 in progress, or its 200.
FromRecord(r) ==
  /\ req[r].pc = "local"
  /\ idempotency[r].state \in {"processing", "completed"}
  /\ Answer(r, idempotency[r].state = "completed")
  /\ UNCHANGED <<sqlVars, ownerVars, processVars, deaths, taken>>

MayDecide(r) == req[r].pc = "local" /\ idempotency[r].state \in {"none", "failed"}

\* The record is left in processing; it is marked failed after the lock is given back.
Invalid(r) ==
  /\ MayDecide(r) /\ ~ InForce(r)
  /\ Record(r, "processing")
  /\ Step(r, "invalid")
  /\ UNCHANGED <<sqlVars, ownerVars, channel, registered, pending, hitlState, deaths, taken>>

\* The mark goes through a pointer into a slice, which may have grown since.
MarkFailed(r) ==
  /\ req[r].pc = "invalid"
  /\ \/ Record(r, "failed")
     \/ \E q \in Requests \ {r} : idempotency[q].state # "none" /\ UNCHANGED idempotency
  /\ Answer(r, FALSE)
  /\ UNCHANGED <<sqlVars, ownerVars, channel, registered, pending, hitlState, deaths, taken>>

NotRouted(r) ==
  /\ MayDecide(r) /\ InForce(r)
  /\ ~ req[r].open \/ channel # <<>>
  /\ Record(r, "failed")
  /\ Answer(r, FALSE)
  /\ UNCHANGED <<sqlVars, ownerVars, channel, registered, pending, hitlState, deaths, taken>>

PlanState(a) == CASE a = "approve" -> "executing"
                  [] a = "revise"  -> "revising"
                  [] a = "cancel"  -> "cancelled"

RouteLocal(r) ==
  /\ MayDecide(r) /\ InForce(r)
  /\ req[r].open /\ channel = <<>>
  /\ channel' = <<Payload(r)>>
  /\ pending' = [pending EXCEPT !.state = PlanState(req[r].action)]
  /\ hitlState' = PlanState(req[r].action)
  /\ Record(r, "completed")
  /\ Answer(r, TRUE)
  /\ UNCHANGED <<sqlVars, ownerVars, registered, deaths, taken>>

\* handleDurableHITLConfirm: the run is read, then the signal is appended.
DurableCheck(r) ==
  /\ req[r].pc = "durable"
  /\ IF status = "awaiting_approval" /\ planRev = req[r].rev
       THEN Step(r, "append") ELSE Answer(r, FALSE)
  /\ UNCHANGED <<sqlVars, ownerVars, processVars, deaths, taken>>

Recorded(r) == \E i \in DOMAIN signals : signals[i].result.by = r

\* Mutant: no unique key on the signals of a run.
AppendAlways(r) ==
  /\ req[r].pc = "append"
  /\ signals' = Append(signals, [result |-> Payload(r), consumed |-> FALSE])
  /\ Answer(r, TRUE)
  /\ UNCHANGED <<status, planRev, approval, cancelRequested, confirmation, ownerVars,
                 processVars, deaths, taken>>

AppendSignal(r) ==
  /\ req[r].pc = "append"
  /\ signals' = IF Recorded(r) THEN signals
                  ELSE Append(signals, [result |-> Payload(r), consumed |-> FALSE])
  /\ Answer(r, TRUE)
  /\ UNCHANGED <<status, planRev, approval, cancelRequested, confirmation, ownerVars,
                 processVars, deaths, taken>>

ClosesChannel(r) == req[r].open /\ req[r].action = "cancel" /\ req[r].ok

\* The rest of the handler: a routed cancel takes the channel down; CompleteConfirm
\* keeps the answer, whatever it is.
CompleteConfirm(r) ==
  /\ req[r].pc = "answered"
  /\ confirmation' = [confirmation EXCEPT ![r].state = "completed"]
  /\ registered' = (registered /\ ~ ClosesChannel(r))
  /\ req' = [req EXCEPT ![r].pc = "done", ![r].open = FALSE, ![r].ok = FALSE]
  /\ UNCHANGED <<status, planRev, approval, signals, cancelRequested, ownerVars,
                 channel, pending, hitlState, idempotency, deaths, taken>>

\* A handler is cut short: its process dies, if that is another than the owner's, or
\* the error of CompleteConfirm, which is not looked at.
Dies(r) ==
  /\ deaths < MaxDeaths
  /\ req[r].pc \in {"durable", "append"} \/ (req[r].pc = "answered" /\ ~ req[r].open)
  /\ deaths' = deaths + 1
  /\ req' = [req EXCEPT ![r].pc = "dead", ![r].ok = FALSE]
  /\ UNCHANGED <<sqlVars, ownerVars, processVars, taken>>

LoseCompletion(r) ==
  /\ deaths < MaxDeaths
  /\ req[r].pc = "answered" /\ req[r].open
  /\ deaths' = deaths + 1
  /\ registered' = (registered /\ ~ ClosesChannel(r))
  /\ req' = [req EXCEPT ![r].pc = "lost", ![r].open = FALSE, ![r].ok = FALSE,
                       ![r].lost = TRUE]
  /\ UNCHANGED <<sqlVars, ownerVars, channel, pending, hitlState, idempotency, taken>>

-----------------------------------------------------------------------------
(* The cancel endpoint before the run executes: the request is recorded, and *)
(* on the owner's instance the waiting run is told at once.                  *)

StopRun ==
  /\ ~ cancelRequested
  /\ cancelRequested' = TRUE
  /\ UNCHANGED <<status, planRev, approval, signals, confirmation, ownerVars, processVars,
                 requestVars>>

StopHere ==
  /\ cancelRequested
  /\ CancelPendingPlan
  /\ UNCHANGED <<sqlVars, ownerVars, requestVars>>

-----------------------------------------------------------------------------
Confirm(r) ==
  \/ Lookup(r) \/ FromRecord(r) \/ Invalid(r) \/ MarkFailed(r)
  \/ NotRouted(r) \/ RouteLocal(r) \/ DurableCheck(r) \/ AppendSignal(r) \/ CompleteConfirm(r)

Owner ==
  \/ RequestApproval \/ Register
  \/ PollSignal \/ PushSignal \/ GiveUpPush \/ PollCancel \/ TakeResult
  \/ Deadline \/ TakenCancel \/ Tombstone \/ LeaveLoop
  \/ StartRevise \/ PlannerFails \/ Unplanned \/ Replan \/ SavePlan \/ RequestReapproval
  \/ SaveCheckpoint \/ FinishRevise \/ TakenApprove \/ Execute

Next ==
  \/ Owner
  \/ \E r \in Requests : BeginConfirm(r) \/ Repeat(r) \/ Confirm(r) \/ Dies(r) \/ LoseCompletion(r)
  \/ ClientLeaves \/ StopRun \/ StopHere

\* The owner's goroutine goes on: the deadline comes even if nothing else does.
Fairness == WF_vars(Owner) /\ \A r \in Requests : WF_vars(Confirm(r))

Spec == Init /\ [][Next]_vars /\ Fairness

-----------------------------------------------------------------------------
Decisions == [action : Actions, rev : 0 .. MaxRevision, by : Requests \union {"stop"}]
Records(states) == [state : states, payload : Decisions \union {NoResult}]

\* Where the owner is; a decision taken from the channel is a place of its own.
Places ==
  Actions \union {"asked", "register", "loop", "push", "planning", "unplanned", "save", "reapprove",
                  "checkpoint", "finish", "approved", "expired", "cancelled", "executing", "ended"}

\* A confirm as its handler has it.
Handler ==
  [pc : {"unsent", "claimed", "local", "invalid", "durable", "append", "answered", "done", "dead", "lost"},
   action : Actions \union {"none"}, rev : 0 .. MaxRevision,
   open : BOOLEAN, ok : BOOLEAN, lost : BOOLEAN]

(* Types of the tables, the owner, its process and the confirm handlers.     *)
TypeOK ==
  /\ status \in {"awaiting_approval", "executing", "failed", "cancelled"}
  /\ planRev \in Revisions /\ revision \in Revisions /\ approvalRev \in 0 .. revision
  /\ approval \in [Revisions -> {"none", "pending", "approved", "cancelled", "expired",
                                 "superseded"}]
  /\ signals \in Seq([result : Decisions, consumed : BOOLEAN]) /\ cancelRequested \in BOOLEAN
  /\ confirmation \in [Requests -> Records({"none", "processing", "completed"})]
  /\ pc \in Places /\ inHand \in Decisions \union {NoResult} /\ connected \in BOOLEAN
  /\ channel \in Seq(Decisions) /\ Len(channel) <= 1 /\ registered \in BOOLEAN
  /\ pending \in [state : {"none", "awaiting", "revising", "executing", "cancelled", "expired",
                           "failed"}, rev : 0 .. revision]
  /\ hitlState \in {"none", "pending", "revising", "executing", "cancelled"}
  /\ idempotency \in [Requests -> Records({"none", "processing", "failed", "completed"})]
  /\ req \in [Requests -> Handler]
  /\ deaths \in 0 .. MaxDeaths /\ taken \in [Requests -> Nat]

\* The approvals of the revisions and the status of the run tell the same story
\* through revises, stops, deadlines and lost clients: one revision at most is open
\* for approval, none behind it is anything but superseded, and the run executes or
\* is cancelled with exactly its current revision closed that way.
ApprovalTellsOutcome ==
  /\ \A n \in Revisions : approval[n] = "pending" => n = approvalRev
  /\ \A n \in 1 .. approvalRev - 1 : approval[n] = "superseded"
  /\ status = "executing" => approval[revision] = "approved"
  /\ status = "cancelled" => approval[revision] = "cancelled"

\* A decision is acted on once, however often and wherever it is sent again under its
\* key: repeats on the owner's instance and on another one, a handler that died
\* half-way, a window that ended and the next revision's.
OneDecisionPerKey == \A r \in Requests : taken[r] > 1 => req[r].lost

\* The plan that executes is the revision the approving user saw
\* (docs/contracts/plan-approval.md: "revision MUST match the current PendingPlan
\* revision").  The code violates it.
ApprovedRevisionExecutes == status = "executing" => inHand.rev = revision

\* The owner waits at its own full channel: no deadline, heartbeat or poll runs.
Blocked == pc = "push" /\ channel # <<>>

\* The wait for a decision comes to an end, by a decision, the deadline or a lost
\* client, unless the owner stays blocked on its own channel.
LoopEnds == <>(pc \in {"ended", "executing"}) \/ <>[]Blocked
=============================================================================
