-------------------------- MODULE RunControlProofs --------------------------
(***************************************************************************)
(* Proofs about what users do to a run: their decisions on its plan before *)
(* it executes (PlanConfirmation, for any confirms, revisions and deaths)  *)
(* and their cancel requests while its tasks are at the agents             *)
(* (RemoteTasks, for any tasks, requests and failures).                    *)
(*                                                                         *)
(* A decision reaches the owner by its channel (Routed) or as a signal     *)
(* (Recorded), and is in one place at a time until it is taken             *)
(* (Conserved), so it can be taken twice only if it went both ways.  A     *)
(* handler that has routed answers and completes, unless its completion is *)
(* lost (RoutedAnswers); one with a signal is sent again only when the     *)
(* owner has left the revision it is about (RepeatIsLate), and what is     *)
(* shown for a decision is the owner's revision (Shown): it is not routed  *)
(* again (OneRoute).                                                       *)
(*                                                                         *)
(* An agent sends [DONE] when its handler is over (DoneIsLast), and it     *)
(* stays over, so a response read to [DONE] or to its end was answered;    *)
(* one that is left earlier has its outcome set, and no step sets it back  *)
(* to completed.  A task has a status in its agent's store from its start  *)
(* (KnownTasks), a final one is never replaced, and only a task that was   *)
(* started is answered about.                                              *)
(***************************************************************************)
EXTENDS PlanConfirmation, RemoteTasksState, SequenceTheorems, WellFoundedInduction, TLAPS

-----------------------------------------------------------------------------
(* The inductive invariant *)

Over == pc \in {"ended", "executing"}

\* Where the owner is tells which revision is open and what the run's row says.
Window ==
  /\ pc = "asked" => approvalRev = 0 /\ revision = 1
  /\ pc \in {"register", "loop", "push", "approve", "revise", "cancel", "approved", "checkpoint",
             "finish"} =>
       approvalRev = revision /\ approval[revision] = "pending"
  /\ pc \in {"planning", "unplanned"} => approvalRev = revision /\ approval[revision] = "superseded"
  /\ pc \in {"save", "reapprove"} => approvalRev = revision - 1 /\ approvalRev # 0
                                    /\ approval[approvalRev] = "superseded"
  /\ pc \notin {"expired", "cancelled", "executing", "ended"} => status = "awaiting_approval"
  /\ pc \in {"expired", "cancelled", "executing"} => approvalRev = revision
  /\ pc = "expired" => status = "failed" /\ approval[revision] = "expired"
  /\ pc = "cancelled" => status = "cancelled" /\ approval[revision] = "cancelled"
  /\ pc = "executing" => status = "executing" /\ approval[revision] = "approved"
  /\ pc = "ended" => status # "executing"
  /\ approvalRev > 0 => approval[approvalRev] # "none"

\* What is shown to the users is the owner's revision, or not open to a decision.
Shown ==
  ~ Over /\ pending.state = "awaiting" =>
    pending.rev = revision /\ pc \notin {"planning", "unplanned", "save", "reapprove", "checkpoint", "finish"}

\* A request keeps the revision it was first sent with, and its row in SQL has it.
Claims ==
  \A r \in Requests :
    /\ req[r].pc = "unsent" => ~ Recorded(r) /\ ~ req[r].lost /\ idempotency[r].state = "none"
    /\ req[r].pc # "unsent" => req[r].action \in Actions /\ confirmation[r].payload.rev = req[r].rev
    /\ req[r].rev <= revision
    /\ req[r].pc = "invalid" => idempotency[r].state = "processing"
    /\ req[r].pc = "lost" => req[r].lost

\* What the owner is about to push is a signal's decision.
InHandDecided == pc = "push" => inHand \in Decisions

\* The unique key of run_signals.
OneSignal ==
  \A i, j \in DOMAIN signals : signals[i].result.by = signals[j].result.by => i = j

Routed(r) == idempotency[r].state = "completed"

\* A handler that routed its decision answers and completes, or loses its completion.
RoutedAnswers ==
  \A r \in Requests : Routed(r) /\ ~ req[r].lost =>
    req[r].pc = "done" \/ (req[r].pc = "answered" /\ req[r].open)

\* The owner is past the revision that a request is about.
Passed(r) == req[r].rev < revision \/ pc \in {"planning", "unplanned"}

\* A request with a signal that is sent again comes too late for the owner's channel.
RepeatIsLate ==
  \A r \in Requests : ~ Over /\ Recorded(r) /\ ~ req[r].lost /\ req[r].pc \in {"claimed", "local"} =>
    Passed(r)

OneRoute == \A r \in Requests : ~ Over /\ Routed(r) /\ Recorded(r) => req[r].lost

One(b) == IF b THEN 1 ELSE 0
InChannel(r) == channel # <<>> /\ channel[1].by = r
InPush(r)    == pc = "push" /\ inHand.by = r
Waiting(r)   == \E i \in DOMAIN signals : ~ signals[i].consumed /\ signals[i].result.by = r

\* A decision comes from a route, and is in one place at a time until it is taken.
Conserved ==
  \A r \in Requests :
    taken[r] + One(InChannel(r)) + One(InPush(r)) + One(Waiting(r)) <= One(Routed(r)) + One(Recorded(r))

IInv ==
  /\ TypeOK /\ Window /\ Shown /\ Claims /\ InHandDecided /\ OneSignal /\ RoutedAnswers /\ RepeatIsLate /\ OneRoute
  /\ Conserved /\ ApprovalTellsOutcome /\ OneDecisionPerKey

-----------------------------------------------------------------------------
(* What the steps do *)

LEMMA LeastNatural ==
  ASSUME NEW S, S \subseteq Nat, S # {}
  PROVE  \E m \in S : \A n \in S : m <= n
<1> DEFINE R == {p \in Nat \X Nat : p[1] < p[2]}
<1>1. IsWellFoundedOn(R, Nat)
  BY NatLessThanWellFounded DEF OpToRel
<1> HIDE DEF R
<1>2. PICK m \in S : \A n \in S : <<n, m>> \notin R
  BY <1>1, WFMin
<1>3. \A n \in S : ~ (n < m)
  BY <1>2 DEF R
<1> QED BY <1>3

\* ORDER BY created_at LIMIT 1 finds a signal that is not consumed.
LEMMA OldestIsPending ==
  ASSUME TypeOK, PendingSignals # {}
  PROVE  OldestSignal \in DOMAIN signals /\ ~ signals[OldestSignal].consumed
<1>1. PendingSignals \subseteq Nat
  BY DEF PendingSignals, TypeOK
<1>2. \E i \in PendingSignals : \A j \in PendingSignals : i <= j
  BY <1>1, LeastNatural
<1>3. OldestSignal \in PendingSignals
  BY <1>2 DEF OldestSignal
<1> QED BY <1>3 DEF PendingSignals

LEMMA HeadOfChannel ==
  ASSUME TypeOK, channel # <<>>
  PROVE  Head(channel) \in Decisions /\ Head(channel) = channel[1]
<1>1. channel \in Seq(Decisions)
  BY DEF TypeOK
<1> QED BY <1>1, HeadTailProperties

LEMMA NotByARequest == \A r \in Requests : r # "stop" /\ r # "nobody"
BY RequestAssumption

\* Steps of the owner that handle no decision.
Quiet ==
  \/ RequestApproval \/ Register \/ GiveUpPush \/ Deadline \/ TakenCancel \/ Tombstone \/ LeaveLoop
  \/ StartRevise \/ PlannerFails \/ Unplanned \/ Replan \/ SavePlan \/ RequestReapproval
  \/ SaveCheckpoint \/ FinishRevise \/ TakenApprove \/ Execute

LEMMA OwnerIsQuiet == Owner => Quiet \/ PollSignal \/ PushSignal \/ PollCancel \/ TakeResult
BY DEF Owner, Quiet

LEMMA QuietEffect ==
  ASSUME TypeOK, Quiet
  PROVE  /\ UNCHANGED <<signals, confirmation, cancelRequested, channel, idempotency, requestVars>>
         /\ pc' # "push" /\ ~ Over
BY DEF Quiet, RequestApproval, Register, GiveUpPush, Deadline, TakenCancel, Tombstone, LeaveLoop,
       StartRevise, PlannerFails, Unplanned, Replan, SavePlan, RequestReapproval, SaveCheckpoint, FinishRevise,
       TakenApprove, Execute, OwnerWrites, CloseRun, Bury, Goto, Over, processVars, sqlVars, requestVars

-----------------------------------------------------------------------------
(* The owner, its approvals and the run's row *)

LEMMA WindowStep ==
  ASSUME TypeOK, Window, ApprovalTellsOutcome, Owner
  PROVE  /\ Window' /\ ApprovalTellsOutcome'
         /\ revision' \in Revisions /\ approvalRev' \in 0 .. revision' /\ pc' \in Places
         /\ planRev' \in Revisions
         /\ status' \in {"awaiting_approval", "executing", "failed", "cancelled"}
         /\ approval' \in [Revisions -> {"none", "pending", "approved", "cancelled", "expired", "superseded"}]
         /\ revision' >= revision
<1> USE BoundAssumption DEF Revisions, Window, ApprovalTellsOutcome, Goto, Places, Actions
<1>t. /\ revision \in Revisions /\ approvalRev \in 0 .. revision /\ planRev \in Revisions /\ pc \in Places
      /\ status \in {"awaiting_approval", "executing", "failed", "cancelled"}
      /\ approval \in [Revisions -> {"none", "pending", "approved", "cancelled", "expired", "superseded"}]
  BY DEF TypeOK
<1>1. CASE RequestApproval
  BY <1>1, <1>t DEF RequestApproval, OwnerWrites, Terminal, Finished
<1>2. CASE Register \/ PollSignal \/ PushSignal \/ PollCancel \/ LeaveLoop \/ FinishRevise \/ TakenApprove
  BY <1>2, <1>t DEF Register, PollSignal, PushSignal, PollCancel, LeaveLoop, FinishRevise, TakenApprove,
                    sqlVars, ownerVars
<1>3. CASE GiveUpPush \/ PlannerFails \/ Replan
  BY <1>3, <1>t DEF GiveUpPush, PlannerFails, Replan, sqlVars
<1>4. CASE TakeResult
  <2>1. Head(channel).action \in Actions
    BY <1>4, HeadOfChannel DEF TakeResult, Decisions
  <2> QED BY <1>4, <1>t, <2>1 DEF TakeResult, sqlVars
<1>5. CASE Deadline
  BY <1>5, <1>t DEF Deadline, CloseRun, ResolveApproval, Terminal, Finished
<1>6. CASE TakenCancel
  BY <1>6, <1>t DEF TakenCancel, CloseRun, ResolveApproval, Terminal, Finished
<1>7. CASE Tombstone \/ Unplanned
  BY <1>7, <1>t DEF Tombstone, Unplanned, Bury, sqlVars
<1>8. CASE StartRevise
  BY <1>8, <1>t DEF StartRevise, ResolveApproval
<1>9. CASE SavePlan
  BY <1>9, <1>t DEF SavePlan, OwnerWrites, Terminal, Finished
<1>10. CASE RequestReapproval \/ SaveCheckpoint
  BY <1>10, <1>t DEF RequestReapproval, SaveCheckpoint, OwnerWrites, Terminal, Finished
<1>11. CASE Execute
  BY <1>11, <1>t DEF Execute, ResolveApproval, Terminal, Finished
<1> QED BY <1>1, <1>2, <1>3, <1>4, <1>5, <1>6, <1>7, <1>8, <1>9, <1>10, <1>11 DEF Owner

ConfirmStep(r) == BeginConfirm(r) \/ Repeat(r) \/ Confirm(r) \/ Dies(r) \/ LoseCompletion(r)

LEMMA HandlerEffect ==
  ASSUME NEW r \in Requests, ConfirmStep(r)
  PROVE  /\ UNCHANGED <<status, planRev, approval, pc, revision, approvalRev, inHand, connected, taken>>
         /\ ~ RouteLocal(r) => UNCHANGED <<channel, pending>>
         /\ ~ AppendSignal(r) => UNCHANGED signals
<1> USE DEF sqlVars, ownerVars
<1>1. CASE BeginConfirm(r) \/ Repeat(r)
  BY <1>1 DEF BeginConfirm, Repeat, Claim, processVars
<1>2. CASE Lookup(r) \/ FromRecord(r) \/ DurableCheck(r)
  BY <1>2 DEF Lookup, FromRecord, DurableCheck, processVars
<1>3. CASE Invalid(r) \/ MarkFailed(r) \/ NotRouted(r)
  BY <1>3 DEF Invalid, MarkFailed, NotRouted
<1>4. CASE RouteLocal(r)
  BY <1>4 DEF RouteLocal
<1>5. CASE AppendSignal(r) \/ CompleteConfirm(r)
  BY <1>5 DEF AppendSignal, CompleteConfirm, processVars
<1>6. CASE Dies(r) \/ LoseCompletion(r)
  BY <1>6 DEF Dies, LoseCompletion, processVars
<1> QED BY <1>1, <1>2, <1>3, <1>4, <1>5, <1>6 DEF ConfirmStep, Confirm

LEMMA StopEffect ==
  ASSUME ClientLeaves \/ StopRun \/ StopHere \/ UNCHANGED vars
  PROVE  /\ UNCHANGED <<status, planRev, approval, pc, revision, approvalRev, inHand, taken, signals>>
         /\ ~ StopHere => UNCHANGED <<channel, pending>>
         /\ connected' = connected \/ connected' = FALSE
BY DEF ClientLeaves, StopRun, StopHere, sqlVars, ownerVars, processVars, requestVars, vars

LEMMA NextParts == [Next]_vars => Owner \/ (\E r \in Requests : ConfirmStep(r)) \/ ClientLeaves \/ StopRun
                                       \/ StopHere \/ UNCHANGED vars
BY DEF Next, ConfirmStep

\* Only the owner writes approvals, states and revisions.
LEMMA OthersEffect ==
  ASSUME \/ \E r \in Requests : BeginConfirm(r) \/ Repeat(r) \/ Confirm(r) \/ Dies(r) \/ LoseCompletion(r)
         \/ ClientLeaves \/ StopRun \/ StopHere \/ UNCHANGED vars
  PROVE  /\ UNCHANGED <<status, planRev, approval, pc, revision, approvalRev, inHand, taken>>
         /\ connected' = connected \/ connected' = FALSE
<1>1. CASE ClientLeaves \/ StopRun \/ StopHere \/ UNCHANGED vars
  BY <1>1, StopEffect
<1>2. CASE \E r \in Requests : ConfirmStep(r)
  BY <1>2, HandlerEffect
<1> QED BY <1>1, <1>2 DEF ConfirmStep

LEMMA ApprovalsStep == IInv /\ [Next]_vars => Window' /\ ApprovalTellsOutcome'
<1> SUFFICES ASSUME IInv, [Next]_vars PROVE Window' /\ ApprovalTellsOutcome'
  OBVIOUS
<1>1. CASE Owner
  BY <1>1, WindowStep DEF IInv
<1>2. CASE UNCHANGED <<status, planRev, approval, pc, revision, approvalRev, inHand>>
  BY <1>2 DEF IInv, Window, ApprovalTellsOutcome
<1> QED BY <1>1, <1>2, OthersEffect DEF Next

-----------------------------------------------------------------------------
(* Types *)

LEMMA QuietTypes ==
  ASSUME IInv, Quiet
  PROVE  TypeOK'
<1>1. Owner
  BY DEF Quiet, Owner
<1>2. /\ revision' \in Revisions /\ approvalRev' \in 0 .. revision' /\ pc' \in Places
      /\ planRev' \in Revisions
      /\ status' \in {"awaiting_approval", "executing", "failed", "cancelled"}
      /\ approval' \in [Revisions -> {"none", "pending", "approved", "cancelled", "expired", "superseded"}]
      /\ revision' >= revision
  BY <1>1, WindowStep DEF IInv
<1>3. /\ UNCHANGED <<signals, confirmation, cancelRequested, channel, idempotency, requestVars>>
  BY QuietEffect DEF IInv
<1>4. inHand' \in {inHand, NoResult} /\ UNCHANGED connected
  BY DEF Quiet, RequestApproval, Register, GiveUpPush, Deadline, TakenCancel, Tombstone, LeaveLoop,
       StartRevise, PlannerFails, Unplanned, Replan, SavePlan, RequestReapproval, SaveCheckpoint, FinishRevise,
       TakenApprove, Execute, CloseRun, Bury
<1>5. /\ registered' \in {registered, TRUE, FALSE} /\ hitlState' \in {hitlState, "pending"}
  BY DEF Quiet, RequestApproval, Register, GiveUpPush, Deadline, TakenCancel, Tombstone, LeaveLoop,
       StartRevise, PlannerFails, Unplanned, Replan, SavePlan, RequestReapproval, SaveCheckpoint, FinishRevise,
       TakenApprove, Execute, CloseRun, Bury, processVars
<1>6. \/ pending' = pending \/ pending' = [state |-> "awaiting", rev |-> revision]
      \/ \E st \in {"expired", "cancelled", "revising", "failed"} : pending' = [pending EXCEPT !.state = st]
  BY DEF Quiet, RequestApproval, Register, GiveUpPush, Deadline, TakenCancel, Tombstone, LeaveLoop,
       StartRevise, PlannerFails, Unplanned, Replan, SavePlan, RequestReapproval, SaveCheckpoint, FinishRevise,
       TakenApprove, Execute, CloseRun, Bury, processVars
<1>7. pending' \in [state : {"none", "awaiting", "revising", "executing", "cancelled", "expired", "failed"},
                    rev : 0 .. revision']
  <2>1. pending \in [state : {"none", "awaiting", "revising", "executing", "cancelled", "expired", "failed"},
                     rev : 0 .. revision] /\ revision \in Nat
    BY BoundAssumption DEF IInv, TypeOK, Revisions
  <2>2. 0 .. revision \subseteq 0 .. revision' /\ revision \in 0 .. revision'
    BY <1>2, <2>1, BoundAssumption DEF Revisions
  <2> QED BY <1>6, <2>1, <2>2
<1> QED BY <1>2, <1>3, <1>4, <1>5, <1>7 DEF IInv, TypeOK, requestVars

LEMMA OneDecision ==
  ASSUME NEW d \in Decisions
  PROVE  <<d>> \in Seq(Decisions) /\ Len(<<d>>) = 1 /\ <<d>>[1] = d /\ <<d>> # <<>>
OBVIOUS

LEMMA SeqReplace ==
  ASSUME NEW S, NEW s \in Seq(S), NEW i \in DOMAIN s
  PROVE  s[i] \in S /\ \A e \in S : [s EXCEPT ![i] = e] \in Seq(S)
OBVIOUS

LEMMA LoopTypes ==
  ASSUME IInv, PollSignal \/ PushSignal \/ PollCancel \/ StopHere \/ TakeResult
  PROVE  TypeOK'
<1>0. TypeOK
  BY DEF IInv
<1>1. CASE PollSignal
  <2>1. OldestSignal \in DOMAIN signals
    BY <1>0, <1>1, OldestIsPending DEF PollSignal
  <2>2. signals \in Seq([result : Decisions, consumed : BOOLEAN])
    BY <1>0 DEF TypeOK
  <2>3. signals[OldestSignal] \in [result : Decisions, consumed : BOOLEAN]
    BY <2>1, <2>2, SeqReplace
  <2>4. signals' = [signals EXCEPT ![OldestSignal] = [@ EXCEPT !.consumed = TRUE]]
    BY <1>1 DEF PollSignal
  <2>5. [signals[OldestSignal] EXCEPT !.consumed = TRUE] \in [result : Decisions, consumed : BOOLEAN]
    BY <2>3
  <2>6. signals' \in Seq([result : Decisions, consumed : BOOLEAN])
    BY <2>1, <2>2, <2>4, <2>5, SeqReplace
  <2>7. inHand' \in Decisions
    BY <1>1, <2>3 DEF PollSignal
  <2> QED BY <1>0, <1>1, <2>6, <2>7 DEF PollSignal, TypeOK, Goto, Places, processVars, requestVars
<1>2. CASE PushSignal
  <2>1. pc = "push" => inHand \in Decisions
    BY DEF IInv, InHandDecided
  <2>2. channel' \in Seq(Decisions) /\ Len(channel') = 1
    BY <1>2, <2>1, OneDecision DEF PushSignal
  <2> QED BY <1>0, <1>2, <2>2 DEF PushSignal, TypeOK, Goto, Places, sqlVars, requestVars
<1>3. CASE PollCancel \/ StopHere
  <2>1. Result("cancel", 0, "stop") \in Decisions
    BY BoundAssumption DEF Result, Decisions, Actions
  <2>2. channel' \in Seq(Decisions) /\ Len(channel') = 1
    BY <1>3, <2>1, OneDecision DEF PollCancel, StopHere, CancelPendingPlan
  <2>3. pending' \in [state : {"none", "awaiting", "revising", "executing", "cancelled", "expired", "failed"},
                      rev : 0 .. revision]
    BY <1>0, <1>3 DEF PollCancel, StopHere, CancelPendingPlan, TypeOK
  <2>4. UNCHANGED <<sqlVars, ownerVars, registered, idempotency, requestVars>> /\ hitlState' = "cancelled"
    BY <1>3 DEF PollCancel, StopHere, CancelPendingPlan
  <2> QED BY <1>0, <2>2, <2>3, <2>4 DEF TypeOK, sqlVars, ownerVars, requestVars
<1>4. CASE TakeResult
  <2>1. Head(channel) \in Decisions /\ Head(channel).action \in Actions
    BY <1>0, <1>4, HeadOfChannel DEF TakeResult, Decisions
  <2>2. <<>> \in Seq(Decisions) /\ Len(<<>>) <= 1
    OBVIOUS
  <2>3. taken' \in [Requests -> Nat]
    BY <1>0, <1>4 DEF TakeResult, TypeOK
  <2> QED BY <1>0, <1>4, <2>1, <2>2, <2>3 DEF TakeResult, TypeOK, Goto, Places, sqlVars
<1> QED BY <1>1, <1>2, <1>3, <1>4

\* What the handlers do to a request's record.
At == {"claimed", "local", "invalid", "durable", "append", "answered", "done", "dead", "lost"}

LEMMA HandlerUpdates ==
  ASSUME NEW h \in Handler, NEW p \in At
  PROVE  /\ [h EXCEPT !.pc = p] \in Handler
         /\ \A b \in BOOLEAN : [h EXCEPT !.pc = p, !.ok = b] \in Handler
         /\ \A b \in BOOLEAN : [h EXCEPT !.pc = p, !.open = b] \in Handler
         /\ [h EXCEPT !.pc = p, !.open = FALSE, !.ok = FALSE] \in Handler
         /\ [h EXCEPT !.pc = p, !.open = FALSE, !.ok = FALSE, !.lost = TRUE] \in Handler
         /\ \A a \in Actions, n \in 0 .. MaxRevision :
              [h EXCEPT !.pc = p, !.action = a, !.rev = n, !.open = FALSE] \in Handler
BY DEF Handler, At

\* A handler changes its own request's record only.
LEMMA ReqUpdates ==
  ASSUME TypeOK, Claims, NEW r \in Requests,
         BeginConfirm(r) \/ Repeat(r) \/ Confirm(r) \/ Dies(r) \/ LoseCompletion(r)
  PROVE  req' \in [Requests -> Handler] /\ \A q \in Requests \ {r} : req'[q] = req[q]
<1>1. req \in [Requests -> Handler] /\ req[r] \in Handler
  BY DEF TypeOK
<1>2. ASSUME NEW h \in Handler, req' = [req EXCEPT ![r] = h]
      PROVE  req' \in [Requests -> Handler] /\ \A q \in Requests \ {r} : req'[q] = req[q]
  BY <1>1, <1>2
<1>3. CASE BeginConfirm(r) \/ Repeat(r)
  <2>1. PICK a, n : Claim(r, a, n) /\ a \in Actions /\ n \in 0 .. MaxRevision
    <3>1. CASE BeginConfirm(r)
      <4>1. PICK a \in Actions, n \in 1 .. LatestShown : Claim(r, a, n)
        BY <3>1 DEF BeginConfirm
      <4>2. LatestShown \in 0 .. MaxRevision
        BY BoundAssumption DEF LatestShown, TypeOK, Revisions
      <4>3. n \in 0 .. MaxRevision
        BY <4>1, <4>2, BoundAssumption
      <4> QED BY <4>1, <4>3
    <3>2. CASE Repeat(r)
      <4>1. Claim(r, req[r].action, req[r].rev) /\ req[r].pc # "unsent"
        BY <3>2 DEF Repeat
      <4>2. req[r].action \in Actions /\ req[r].rev \in 0 .. MaxRevision
        BY <1>1, <4>1 DEF Claims, Handler
      <4> QED BY <4>1, <4>2
    <3> QED BY <1>3, <3>1, <3>2
  <2>2. PICK l \in {"claimed", "durable"} :
          req' = [req EXCEPT ![r] = [@ EXCEPT !.pc = l, !.action = a, !.rev = n, !.open = FALSE]]
    BY <2>1, ZenonT(30) DEF Claim
  <2>3. l \in At
    BY DEF At
  <2>4. [req[r] EXCEPT !.pc = l, !.action = a, !.rev = n, !.open = FALSE] \in Handler
    BY <1>1, <2>1, <2>3, HandlerUpdates
  <2> QED BY <1>2, <2>2, <2>4
<1>4. CASE Lookup(r)
  <2>1. PICK p \in At, b \in BOOLEAN : req' = [req EXCEPT ![r] = [@ EXCEPT !.pc = p, !.open = b]]
    <3>1. registered \in BOOLEAN
      BY DEF TypeOK
    <3>2. (pending # NoPlan /\ registered) \in BOOLEAN
          /\ (IF pending # NoPlan THEN "local" ELSE "durable") \in At
      BY <3>1 DEF At
    <3>3. req' = [req EXCEPT ![r] = [@ EXCEPT !.pc = IF pending # NoPlan THEN "local" ELSE "durable",
                                               !.open = pending # NoPlan /\ registered]]
      BY <1>4 DEF Lookup
    <3> QED BY <3>2, <3>3
  <2> QED BY <1>1, <1>2, <2>1, HandlerUpdates
<1>5. CASE FromRecord(r) \/ NotRouted(r) \/ RouteLocal(r) \/ DurableCheck(r) \/ AppendSignal(r)
           \/ MarkFailed(r) \/ Invalid(r)
  <2>1. \/ \E b \in BOOLEAN : req' = [req EXCEPT ![r] = [@ EXCEPT !.pc = "answered", !.ok = b]]
        \/ \E p \in {"append", "invalid"} : req' = [req EXCEPT ![r] = [@ EXCEPT !.pc = p]]
    BY <1>5 DEF FromRecord, NotRouted, RouteLocal, DurableCheck, AppendSignal, MarkFailed, Invalid, Step, Answer
  <2>2. {"answered", "append", "invalid"} \subseteq At
    BY DEF At
  <2> QED BY <1>1, <1>2, <2>1, <2>2, HandlerUpdates
<1>6. CASE CompleteConfirm(r) \/ Dies(r) \/ LoseCompletion(r)
  <2>1. \/ req' = [req EXCEPT ![r] = [@ EXCEPT !.pc = "done", !.open = FALSE, !.ok = FALSE]]
        \/ req' = [req EXCEPT ![r] = [@ EXCEPT !.pc = "dead", !.ok = FALSE]]
        \/ req' = [req EXCEPT ![r] = [@ EXCEPT !.pc = "lost", !.open = FALSE, !.ok = FALSE, !.lost = TRUE]]
    BY <1>6 DEF CompleteConfirm, Dies, LoseCompletion
  <2>2. {"done", "dead", "lost"} \subseteq At
    BY DEF At
  <2> QED BY <1>1, <1>2, <2>1, <2>2, HandlerUpdates
<1> QED BY <1>3, <1>4, <1>5, <1>6 DEF Confirm

LEMMA ConfirmTypes ==
  ASSUME IInv, NEW r \in Requests,
         BeginConfirm(r) \/ Repeat(r) \/ Confirm(r) \/ Dies(r) \/ LoseCompletion(r)
  PROVE  TypeOK'
<1>0. TypeOK
  BY DEF IInv
<1>a. req \in [Requests -> Handler] /\ confirmation \in [Requests -> Records({"none", "processing", "completed"})]
      /\ idempotency \in [Requests -> Records({"none", "processing", "failed", "completed"})]
  BY <1>0 DEF TypeOK
<1>c. req' \in [Requests -> Handler]
  BY <1>0, ReqUpdates DEF IInv
<1>b. ASSUME req[r].pc # "unsent" PROVE Payload(r) \in Decisions
  <2>1. req[r].action \in Actions /\ req[r].rev \in 0 .. MaxRevision
    BY <1>a, <1>b DEF IInv, Claims, Handler
  <2> QED BY <2>1 DEF Payload, Result, Decisions
<1>1. CASE BeginConfirm(r) \/ Repeat(r)
  <2>1. PICK a \in Actions, n \in 0 .. MaxRevision : Claim(r, a, n)
    <3>1. CASE BeginConfirm(r)
      <4>1. PICK a \in Actions, n \in 1 .. LatestShown : Claim(r, a, n)
        BY <3>1 DEF BeginConfirm
      <4>2. LatestShown \in 0 .. MaxRevision
        BY <1>0, BoundAssumption DEF LatestShown, TypeOK, Revisions
      <4>3. n \in 0 .. MaxRevision
        BY <4>1, <4>2, BoundAssumption
      <4> QED BY <4>1, <4>3
    <3>2. CASE Repeat(r)
      BY <1>a, <3>2 DEF Repeat, IInv, Claims, Handler
    <3> QED BY <1>1, <3>1, <3>2
  <2>2. Result(a, n, r) \in Decisions
    BY DEF Result, Decisions
  <2>3. confirmation' \in [Requests -> Records({"none", "processing", "completed"})]
    BY <1>a, <2>1, <2>2 DEF Claim, Records
  <2> QED BY <1>0, <1>c, <2>1, <2>3 DEF Claim, TypeOK, ownerVars, processVars
<1>2. CASE Lookup(r) \/ DurableCheck(r)
  <2> QED BY <1>0, <1>c, <1>2 DEF Lookup, DurableCheck, TypeOK, sqlVars, ownerVars, processVars
<1>3. CASE FromRecord(r)
  <2> QED BY <1>0, <1>c, <1>3 DEF FromRecord, TypeOK, sqlVars, ownerVars, processVars
<1>4. CASE Invalid(r) \/ MarkFailed(r) \/ NotRouted(r)
  <2>2. Payload(r) \in Decisions
    BY <1>4, <1>b DEF Invalid, MarkFailed, NotRouted, MayDecide
  <2>1. [state |-> "processing", payload |-> Payload(r)] \in Records({"none", "processing", "failed", "completed"})
        /\ [state |-> "failed", payload |-> Payload(r)] \in Records({"none", "processing", "failed", "completed"})
    BY <2>2 DEF Records
  <2>3. idempotency' \in [Requests -> Records({"none", "processing", "failed", "completed"})]
    BY <1>a, <1>4, <2>1 DEF Invalid, MarkFailed, NotRouted, Record
  <2> QED BY <1>0, <1>c, <1>4, <2>3 DEF Invalid, MarkFailed, NotRouted, TypeOK, sqlVars, ownerVars
<1>5. CASE RouteLocal(r)
  <2>2. Payload(r) \in Decisions /\ req[r].action \in Actions
    BY <1>5, <1>b DEF RouteLocal, MayDecide, IInv, Claims
  <2>3. idempotency' \in [Requests -> Records({"none", "processing", "failed", "completed"})]
    BY <1>a, <1>5, <2>2 DEF RouteLocal, Record, Records
  <2>4. channel' \in Seq(Decisions) /\ Len(channel') = 1
    BY <1>5, <2>2, OneDecision DEF RouteLocal
  <2>5. PlanState(req[r].action) \in {"executing", "revising", "cancelled"}
    BY <2>2 DEF PlanState, Actions
  <2> QED BY <1>0, <1>c, <1>5, <2>3, <2>4, <2>5 DEF RouteLocal, TypeOK, sqlVars, ownerVars
<1>6. CASE AppendSignal(r)
  <2>2. Payload(r) \in Decisions
    BY <1>6, <1>b DEF AppendSignal
  <2>3. [result |-> Payload(r), consumed |-> FALSE] \in [result : Decisions, consumed : BOOLEAN]
    BY <2>2
  <2>4. signals' \in Seq([result : Decisions, consumed : BOOLEAN])
    BY <1>0, <1>6, <2>3, AppendProperties DEF AppendSignal, TypeOK
  <2> QED BY <1>0, <1>c, <1>6, <2>4 DEF AppendSignal, TypeOK, ownerVars, processVars
<1>7. CASE CompleteConfirm(r)
  <2>2. confirmation' \in [Requests -> Records({"none", "processing", "completed"})]
    BY <1>a, <1>7 DEF CompleteConfirm, Records
  <2>3. registered' \in BOOLEAN
    BY <1>0, <1>7 DEF CompleteConfirm, TypeOK, ClosesChannel
  <2> QED BY <1>0, <1>c, <1>7, <2>2, <2>3 DEF CompleteConfirm, TypeOK, ownerVars
<1>8. CASE Dies(r) \/ LoseCompletion(r)
  <2>2. registered' \in BOOLEAN
    BY <1>0, <1>8 DEF Dies, LoseCompletion, TypeOK, ClosesChannel, processVars
  <2>3. deaths' \in 0 .. MaxDeaths
    BY <1>0, <1>8, BoundAssumption DEF Dies, LoseCompletion, TypeOK
  <2> QED BY <1>0, <1>c, <1>8, <2>2, <2>3 DEF Dies, LoseCompletion, TypeOK, sqlVars, ownerVars, processVars
<1> QED BY <1>1, <1>2, <1>3, <1>4, <1>5, <1>6, <1>7, <1>8 DEF Confirm

LEMMA TypeStep == IInv /\ [Next]_vars => TypeOK'
<1> SUFFICES ASSUME IInv, [Next]_vars PROVE TypeOK'
  OBVIOUS
<1>1. CASE Owner
  BY <1>1, OwnerIsQuiet, QuietTypes, LoopTypes
<1>2. CASE ClientLeaves \/ StopRun \/ UNCHANGED vars
  BY <1>2 DEF ClientLeaves, StopRun, vars, IInv, TypeOK, sqlVars, ownerVars, processVars, requestVars
<1> QED BY <1>1, <1>2, LoopTypes, ConfirmTypes DEF Next

-----------------------------------------------------------------------------
(* What is shown, and what is in the owner's hand *)

LEMMA ShownStep == IInv /\ [Next]_vars => Shown'
<1> SUFFICES ASSUME IInv, [Next]_vars, ~ Over', pending'.state = "awaiting"
             PROVE  /\ pending'.rev = revision'
                    /\ pc' \notin {"planning", "unplanned", "save", "reapprove", "checkpoint", "finish"}
  BY DEF Shown
<1>0. TypeOK /\ Shown /\ Window
  BY DEF IInv
<1> DEFINE Hidden == {"planning", "unplanned", "save", "reapprove", "checkpoint", "finish"}
<1>1. CASE Register \/ FinishRevise
  BY <1>1 DEF Register, FinishRevise, Goto, sqlVars
<1>2. CASE StartRevise \/ Tombstone \/ Unplanned
  BY <1>0, <1>2 DEF StartRevise, Tombstone, Unplanned, Bury, TypeOK, Goto, Over
<1>3. CASE PollCancel \/ StopHere
  BY <1>0, <1>3 DEF PollCancel, StopHere, CancelPendingPlan, TypeOK
<1>4. CASE \E r \in Requests : RouteLocal(r)
  <2> PICK r \in Requests : RouteLocal(r)
    BY <1>4
  <2>1. req[r].action \in Actions
    BY DEF IInv, Claims, RouteLocal, MayDecide
  <2>2. PlanState(req[r].action) # "awaiting"
    BY <2>1 DEF PlanState, Actions
  <2> QED BY <1>0, <2>2 DEF RouteLocal, TypeOK
<1>5. CASE Owner /\ ~ (Register \/ FinishRevise \/ StartRevise \/ Tombstone \/ Unplanned \/ PollCancel)
  <2>1. UNCHANGED pending
    BY <1>5 DEF Owner, RequestApproval, PollSignal, PushSignal, GiveUpPush, TakeResult, Deadline, TakenCancel,
                LeaveLoop, PlannerFails, Replan, SavePlan, RequestReapproval, SaveCheckpoint, TakenApprove, Execute,
                CloseRun,
                processVars
  <2>2. \/ pc \in Hidden
        \/ revision' = revision /\ ~ Over /\ pc' \notin Hidden
    <3>1. CASE TakeResult
      <4>1. Head(channel).action \in Actions
        BY <1>0, <3>1, HeadOfChannel DEF TakeResult, Decisions
      <4> QED BY <3>1, <4>1 DEF TakeResult, Goto, Over, Actions
    <3>2. CASE ~ TakeResult
      BY <1>5, <3>2 DEF Owner, RequestApproval, PollSignal, PushSignal, GiveUpPush, Deadline, TakenCancel,
                LeaveLoop, PlannerFails, Replan, SavePlan, RequestReapproval, SaveCheckpoint, TakenApprove, Execute,
                CloseRun,
                OwnerWrites, Goto, Over
    <3> QED BY <3>1, <3>2
  <2> QED BY <1>0, <2>1, <2>2 DEF Shown, Over
<1>6. CASE \/ \E r \in Requests : ConfirmStep(r) /\ ~ RouteLocal(r)
           \/ (ClientLeaves \/ StopRun \/ UNCHANGED vars) /\ ~ StopHere
  <2>1. UNCHANGED <<pending, pc, revision>>
    BY <1>6, HandlerEffect, StopEffect
  <2> QED BY <1>0, <2>1 DEF Shown, Over
<1> QED BY <1>1, <1>2, <1>3, <1>4, <1>5, <1>6, NextParts

LEMMA InHandStep == IInv /\ [Next]_vars => InHandDecided'
<1> SUFFICES ASSUME IInv, [Next]_vars, pc' = "push" PROVE inHand' \in Decisions
  BY DEF InHandDecided
<1>0. TypeOK
  BY DEF IInv
<1>1. CASE PollSignal
  <2>1. OldestSignal \in DOMAIN signals /\ signals \in Seq([result : Decisions, consumed : BOOLEAN])
    BY <1>0, <1>1, OldestIsPending DEF PollSignal, TypeOK
  <2>2. signals[OldestSignal] \in [result : Decisions, consumed : BOOLEAN]
    BY <2>1, SeqReplace
  <2> QED BY <1>1, <2>2 DEF PollSignal
<1>2. CASE Quiet \/ PushSignal \/ PollCancel
  BY <1>0, <1>2, QuietEffect DEF PushSignal, PollCancel, Goto, ownerVars
<1>3. CASE TakeResult
  BY <1>0, <1>3, HeadOfChannel DEF TakeResult, Decisions, Actions, Goto
<1>4. CASE UNCHANGED <<status, planRev, approval, pc, revision, approvalRev, inHand>>
  BY <1>4 DEF IInv, InHandDecided
<1> QED BY <1>1, <1>2, <1>3, <1>4, OwnerIsQuiet, OthersEffect DEF Next

-----------------------------------------------------------------------------
(* Signals *)

LEMMA AppendToSignals ==
  ASSUME TypeOK, NEW r \in Requests, AppendSignal(r), ~ Recorded(r), req[r].pc # "unsent", Claims
  PROVE  /\ Len(signals') = Len(signals) + 1
         /\ \A i \in DOMAIN signals : signals'[i] = signals[i]
         /\ DOMAIN signals' = DOMAIN signals \union {Len(signals) + 1}
         /\ signals'[Len(signals) + 1].result.by = r
         /\ ~ signals'[Len(signals) + 1].consumed
         /\ Len(signals) + 1 \notin DOMAIN signals
<1> DEFINE e == [result |-> Payload(r), consumed |-> FALSE]
           T == [result : Decisions, consumed : BOOLEAN]
<1>1. signals \in Seq(T) /\ signals' = Append(signals, e)
  BY DEF TypeOK, AppendSignal
<1>2. e \in T /\ e.result.by = r /\ ~ e.consumed
  <2>1. req[r].action \in Actions /\ req[r].rev \in 0 .. MaxRevision
    BY DEF Claims, TypeOK, Handler
  <2> QED BY <2>1 DEF Payload, Result, Decisions
<1> HIDE DEF e, T
<1>3. /\ Len(signals') = Len(signals) + 1
      /\ \A i \in 1 .. Len(signals) : signals'[i] = signals[i]
      /\ signals'[Len(signals) + 1] = e
      /\ DOMAIN signals = 1 .. Len(signals) /\ Len(signals) \in Nat /\ DOMAIN signals' = 1 .. Len(signals')
  BY <1>1, <1>2, AppendProperties
<1>4. 1 .. (Len(signals) + 1) = (1 .. Len(signals)) \union {Len(signals) + 1}
  BY <1>3
<1>5. Len(signals) + 1 \notin 1 .. Len(signals)
  BY <1>3
<1> QED BY <1>2, <1>3, <1>4, <1>5

\* How the signals change: one is consumed, one is added, or none.
LEMMA SignalsChange ==
  ASSUME IInv, [Next]_vars
  PROVE  \/ UNCHANGED signals
         \/ /\ PollSignal /\ OldestSignal \in DOMAIN signals /\ ~ signals[OldestSignal].consumed
            /\ DOMAIN signals' = DOMAIN signals
            /\ \A i \in DOMAIN signals : signals'[i].result = signals[i].result
            /\ signals'[OldestSignal].consumed
            /\ \A i \in DOMAIN signals : i # OldestSignal => signals'[i].consumed = signals[i].consumed
         \/ \E r \in Requests :
              /\ AppendSignal(r) /\ ~ Recorded(r) /\ req[r].pc = "append"
              /\ \E n \in DOMAIN signals' :
                   /\ n \notin DOMAIN signals /\ DOMAIN signals' = DOMAIN signals \union {n}
                   /\ \A i \in DOMAIN signals : signals'[i] = signals[i]
                   /\ signals'[n].result.by = r /\ ~ signals'[n].consumed
<1>0. TypeOK /\ Claims
  BY DEF IInv
<1>1. CASE PollSignal
  <2>1. OldestSignal \in DOMAIN signals /\ ~ signals[OldestSignal].consumed
    BY <1>0, <1>1, OldestIsPending DEF PollSignal
  <2>2. signals \in Seq([result : Decisions, consumed : BOOLEAN])
    BY <1>0 DEF TypeOK
  <2>3. signals' = [signals EXCEPT ![OldestSignal] = [@ EXCEPT !.consumed = TRUE]]
    BY <1>1 DEF PollSignal
  <2>4. signals[OldestSignal] \in [result : Decisions, consumed : BOOLEAN]
    BY <2>1, <2>2, SeqReplace
  <2> QED BY <1>1, <2>1, <2>2, <2>3, <2>4
<1>2. CASE \E r \in Requests : AppendSignal(r)
  <2> PICK r \in Requests : AppendSignal(r)
    BY <1>2
  <2>1. req[r].pc = "append"
    BY DEF AppendSignal
  <2>2. CASE Recorded(r)
    BY <2>2 DEF AppendSignal
  <2>3. CASE ~ Recorded(r)
    BY <1>0, <2>1, <2>3, AppendToSignals
  <2> QED BY <2>2, <2>3
<1>3. CASE Quiet \/ PushSignal \/ PollCancel \/ TakeResult
  BY <1>0, <1>3, QuietEffect DEF PushSignal, PollCancel, TakeResult, sqlVars
<1>4. CASE \/ \E r \in Requests : ConfirmStep(r) /\ ~ AppendSignal(r)
           \/ ClientLeaves \/ StopRun \/ StopHere \/ UNCHANGED vars
  BY <1>4, HandlerEffect, StopEffect
<1> QED BY <1>1, <1>2, <1>3, <1>4, OwnerIsQuiet, NextParts

LEMMA OneSignalStep == IInv /\ [Next]_vars => OneSignal'
<1> SUFFICES ASSUME IInv, [Next]_vars PROVE OneSignal'
  OBVIOUS
<1>0. OneSignal
  BY DEF IInv
<1>1. CASE UNCHANGED signals
  BY <1>0, <1>1 DEF OneSignal
<1>2. CASE /\ DOMAIN signals' = DOMAIN signals
           /\ \A i \in DOMAIN signals : signals'[i].result = signals[i].result
  BY <1>0, <1>2 DEF OneSignal
<1>3. CASE \E r \in Requests :
             /\ ~ Recorded(r)
             /\ \E n \in DOMAIN signals' :
                  /\ n \notin DOMAIN signals /\ DOMAIN signals' = DOMAIN signals \union {n}
                  /\ \A i \in DOMAIN signals : signals'[i] = signals[i]
                  /\ signals'[n].result.by = r /\ ~ signals'[n].consumed
  BY <1>0, <1>3 DEF OneSignal, Recorded
<1> QED BY <1>1, <1>2, <1>3, SignalsChange

\* Only an append adds the signal of a request.
LEMMA RecordedChange ==
  ASSUME IInv, [Next]_vars, NEW r \in Requests
  PROVE  /\ Recorded(r) => Recorded(r)'
         /\ Recorded(r)' => Recorded(r) \/ AppendSignal(r)
<1>1. CASE UNCHANGED signals
  BY <1>1 DEF Recorded
<1>2. CASE /\ DOMAIN signals' = DOMAIN signals
           /\ \A i \in DOMAIN signals : signals'[i].result = signals[i].result
  BY <1>2 DEF Recorded
<1>3. CASE \E q \in Requests :
             /\ AppendSignal(q)
             /\ \E n \in DOMAIN signals' :
                  /\ n \notin DOMAIN signals /\ DOMAIN signals' = DOMAIN signals \union {n}
                  /\ \A i \in DOMAIN signals : signals'[i] = signals[i]
                  /\ signals'[n].result.by = q /\ ~ signals'[n].consumed
  BY <1>3 DEF Recorded
<1> QED BY <1>1, <1>2, <1>3, SignalsChange

-----------------------------------------------------------------------------
(* Requests *)

\* Only a request's own handler touches what is kept of it.
LEMMA OthersRequests ==
  ASSUME IInv, [Next]_vars, NEW q \in Requests, ~ ConfirmStep(q)
  PROVE  /\ req'[q] = req[q] /\ idempotency'[q] = idempotency[q] /\ confirmation'[q] = confirmation[q]
         /\ Recorded(q)' <=> Recorded(q)
<1>0. TypeOK
  BY DEF IInv
<1>1. Recorded(q)' <=> Recorded(q)
  BY RecordedChange DEF ConfirmStep, Confirm
<1>2. ASSUME NEW r \in Requests, r # q, ConfirmStep(r)
      PROVE  req'[q] = req[q] /\ idempotency'[q] = idempotency[q] /\ confirmation'[q] = confirmation[q]
  <2>1. req'[q] = req[q]
    BY <1>0, <1>2, ReqUpdates DEF IInv, ConfirmStep
  <2>2. confirmation'[q] = confirmation[q]
    BY <1>0, <1>2 DEF ConfirmStep, BeginConfirm, Repeat, Claim, Confirm, Lookup, FromRecord, Invalid, MarkFailed, NotRouted, RouteLocal,
       DurableCheck, AppendSignal, CompleteConfirm, Dies, LoseCompletion, sqlVars, TypeOK
  <2>3. idempotency'[q] = idempotency[q]
    BY <1>0, <1>2 DEF ConfirmStep, BeginConfirm, Repeat, Claim, Confirm, Lookup, FromRecord, Invalid, MarkFailed, NotRouted, RouteLocal,
       Record, DurableCheck, AppendSignal, CompleteConfirm, Dies, LoseCompletion, processVars, TypeOK
  <2> QED BY <2>1, <2>2, <2>3
<1>3. CASE Owner
  BY <1>0, <1>1, <1>3, OwnerIsQuiet, QuietEffect
     DEF PollSignal, PushSignal, PollCancel, CancelPendingPlan, TakeResult, sqlVars, processVars, requestVars
<1>4. CASE ClientLeaves \/ StopRun \/ StopHere \/ UNCHANGED vars
  BY <1>1, <1>4 DEF ClientLeaves, StopRun, StopHere, CancelPendingPlan, sqlVars, processVars, requestVars, vars
<1>5. CASE \E r \in Requests : ConfirmStep(r)
  BY <1>1, <1>2, <1>5
<1> QED BY <1>3, <1>4, <1>5 DEF Next, ConfirmStep

\* The places of a request's record: a claim, the handler's way to an answer, its end.
LEMMA ClaimMoves ==
  ASSUME IInv, NEW r \in Requests, BeginConfirm(r) \/ Repeat(r)
  PROVE  /\ req[r].pc \in {"unsent", "dead", "lost"} /\ req'[r].pc \in {"claimed", "durable"}
         /\ req'[r].action \in Actions /\ req'[r].rev <= revision
         /\ confirmation'[r].payload.rev = req'[r].rev
         /\ idempotency' = idempotency /\ req'[r].lost = req[r].lost
         /\ Repeat(r) => req[r].pc # "unsent" /\ req'[r].rev = req[r].rev
<1>0. TypeOK /\ Claims /\ req \in [Requests -> Handler] /\ req[r] \in Handler
  BY DEF IInv, TypeOK
<1>c. confirmation \in [Requests -> Records({"none", "processing", "completed"})]
  BY <1>0 DEF TypeOK
<1>1. ASSUME NEW a, NEW n, Claim(r, a, n)
      PROVE  /\ req'[r].pc \in {"claimed", "durable"} /\ req'[r].action = a /\ req'[r].rev = n
             /\ confirmation'[r].payload.rev = n
             /\ idempotency' = idempotency /\ req'[r].lost = req[r].lost
  <2>1. PICK l \in {"claimed", "durable"} :
          req' = [req EXCEPT ![r] = [@ EXCEPT !.pc = l, !.action = a, !.rev = n, !.open = FALSE]]
    BY <1>1, ZenonT(30) DEF Claim
  <2>2. req'[r] = [req[r] EXCEPT !.pc = l, !.action = a, !.rev = n, !.open = FALSE]
    BY <1>0, <2>1
  <2>3. req'[r].pc = l /\ req'[r].action = a /\ req'[r].rev = n /\ req'[r].lost = req[r].lost
    BY <1>0, <2>2 DEF Handler
  <2>4. confirmation'[r] = [state |-> "processing", payload |-> Result(a, n, r)]
    BY <1>c, <1>1 DEF Claim
  <2>5. confirmation'[r].payload.rev = n
    BY <2>4 DEF Result
  <2> QED BY <1>1, <2>1, <2>3, <2>5 DEF Claim, processVars
<1>2. CASE BeginConfirm(r)
  <2>1. PICK a \in Actions, n \in 1 .. LatestShown : Claim(r, a, n)
    BY <1>2 DEF BeginConfirm
  <2>2. n <= revision
    BY <1>0, BoundAssumption DEF LatestShown, TypeOK, Revisions
  <2>3. req[r].pc = "unsent"
    BY <1>2 DEF BeginConfirm
  <2>4. ~ Repeat(r)
    BY <2>3 DEF Repeat
  <2> QED BY <1>1, <2>1, <2>2, <2>3, <2>4
<1>3. CASE Repeat(r)
  <2>1. Claim(r, req[r].action, req[r].rev) /\ req[r].pc \in {"dead", "lost"}
    BY <1>3 DEF Repeat
  <2>2. req[r].action \in Actions /\ req[r].rev <= revision
    BY <1>0, <2>1 DEF Claims
  <2> QED BY <1>1, <2>1, <2>2
<1> QED BY <1>2, <1>3

Keeps(f, g, r) == g[r].action = f[r].action /\ g[r].rev = f[r].rev /\ g[r].lost = f[r].lost

LEMMA AnswerFields ==
  ASSUME IInv, NEW r \in Requests, NEW b, Answer(r, b)
  PROVE  Keeps(req, req', r) /\ req'[r].pc = "answered" /\ req'[r].open = req[r].open
<1>1. req \in [Requests -> Handler] /\ req[r] \in Handler
  BY DEF IInv, TypeOK
<1>2. req' = [req EXCEPT ![r] = [@ EXCEPT !.pc = "answered", !.ok = b]]
  BY DEF Answer
<1>3. req'[r] = [req[r] EXCEPT !.pc = "answered", !.ok = b]
  BY <1>1, <1>2
<1> QED BY <1>1, <1>3 DEF Handler, Keeps

LEMMA StepFields ==
  ASSUME IInv, NEW r \in Requests, NEW p, Step(r, p)
  PROVE  Keeps(req, req', r) /\ req'[r].pc = p
<1>1. req \in [Requests -> Handler] /\ req[r] \in Handler
  BY DEF IInv, TypeOK
<1>2. req' = [req EXCEPT ![r] = [@ EXCEPT !.pc = p]]
  BY DEF Step
<1>3. req'[r] = [req[r] EXCEPT !.pc = p]
  BY <1>1, <1>2
<1> QED BY <1>1, <1>3 DEF Handler, Keeps

LEMMA ConfirmMoves ==
  ASSUME IInv, NEW r \in Requests, Confirm(r)
  PROVE  /\ req[r].pc \in {"claimed", "local", "invalid", "durable", "append", "answered"}
         /\ req'[r].pc \in {"local", "durable", "invalid", "append", "answered", "done"}
         /\ Keeps(req, req', r)
         /\ confirmation'[r].payload = confirmation[r].payload
         /\ req'[r].pc = "local" => req[r].pc = "claimed"
         /\ req'[r].pc = "invalid" <=> Invalid(r)
         /\ req'[r].pc = "done" <=> req[r].pc = "answered"
         /\ RouteLocal(r) => req'[r].pc = "answered" /\ req'[r].open
<1>0. req \in [Requests -> Handler] /\ req[r] \in Handler
  BY DEF IInv, TypeOK
<1>4. confirmation'[r].payload = confirmation[r].payload
  <2>1. confirmation[r] \in Records({"none", "processing", "completed"})
        /\ confirmation \in [Requests -> Records({"none", "processing", "completed"})]
    BY DEF IInv, TypeOK
  <2> QED BY <2>1 DEF Records, Confirm, Lookup, FromRecord, Invalid, MarkFailed, NotRouted, RouteLocal,
                      DurableCheck, AppendSignal, CompleteConfirm, sqlVars
<1>5. CASE Lookup(r)
  <2>0. (pending # NoPlan /\ registered) \in BOOLEAN
    BY DEF IInv, TypeOK
  <2>1. PICK p \in {"local", "durable"}, b \in BOOLEAN : req' = [req EXCEPT ![r] = [@ EXCEPT !.pc = p, !.open = b]]
    <3>1. (IF pending # NoPlan THEN "local" ELSE "durable") \in {"local", "durable"}
      OBVIOUS
    <3>2. req' = [req EXCEPT ![r] = [@ EXCEPT !.pc = IF pending # NoPlan THEN "local" ELSE "durable",
                                               !.open = pending # NoPlan /\ registered]]
      BY <1>5 DEF Lookup
    <3> QED BY <2>0, <3>1, <3>2
  <2>2. req'[r] = [req[r] EXCEPT !.pc = p, !.open = b]
    BY <1>0, <2>1
  <2>3. req'[r].pc = p /\ Keeps(req, req', r)
    BY <1>0, <2>2 DEF Handler, Keeps
  <2>4. req[r].pc = "claimed"
    BY <1>5 DEF Lookup
  <2> QED BY <1>4, <2>3, <2>4 DEF Invalid, MayDecide, RouteLocal
<1>6. CASE FromRecord(r)
  <2>1. PICK b : Answer(r, b)
    BY <1>6 DEF FromRecord
  <2>2. req[r].pc = "local"
    BY <1>6 DEF FromRecord
  <2>3. Keeps(req, req', r) /\ req'[r].pc = "answered"
    BY <2>1, AnswerFields
  <2>4. ~ Invalid(r) /\ ~ RouteLocal(r)
    BY <1>6 DEF FromRecord, Invalid, RouteLocal, MayDecide
  <2> QED BY <1>4, <2>2, <2>3, <2>4
<1>7. CASE Invalid(r)
  <2>1. req[r].pc = "local" /\ Step(r, "invalid") /\ ~ RouteLocal(r)
    BY <1>7 DEF Invalid, MayDecide, RouteLocal
  <2>2. Keeps(req, req', r) /\ req'[r].pc = "invalid"
    BY <2>1, StepFields
  <2> QED BY <1>4, <1>7, <2>1, <2>2
<1>8. CASE MarkFailed(r)
  BY <1>4, <1>8, AnswerFields DEF MarkFailed, Invalid, MayDecide, RouteLocal
<1>9. CASE NotRouted(r)
  BY <1>4, <1>9, AnswerFields DEF NotRouted, Invalid, MayDecide, RouteLocal
<1>10. CASE RouteLocal(r)
  BY <1>4, <1>10, AnswerFields DEF Invalid, MayDecide, RouteLocal
<1>11. CASE DurableCheck(r)
  <2>1. Keeps(req, req', r) /\ req'[r].pc \in {"append", "answered"}
    <3>1. CASE Step(r, "append")
      BY <3>1, StepFields
    <3>2. CASE Answer(r, FALSE)
      BY <3>2, AnswerFields
    <3> QED BY <1>11, <3>1, <3>2 DEF DurableCheck
  <2>2. req[r].pc = "durable"
    BY <1>11 DEF DurableCheck
  <2>3. ~ Invalid(r) /\ ~ RouteLocal(r)
    BY <2>2 DEF Invalid, RouteLocal, MayDecide
  <2> QED BY <1>4, <2>1, <2>2, <2>3
<1>12. CASE AppendSignal(r)
  BY <1>4, <1>12, AnswerFields DEF AppendSignal, Invalid, MayDecide, RouteLocal
<1>13. CASE CompleteConfirm(r)
  <2>1. req'[r] = [req[r] EXCEPT !.pc = "done", !.open = FALSE, !.ok = FALSE]
    BY <1>0, <1>13 DEF CompleteConfirm
  <2>2. req'[r].pc = "done" /\ Keeps(req, req', r)
    BY <1>0, <2>1 DEF Handler, Keeps
  <2>3. req[r].pc = "answered"
    BY <1>13 DEF CompleteConfirm
  <2> QED BY <1>4, <2>2, <2>3 DEF Invalid, MayDecide, RouteLocal
<1> QED BY <1>5, <1>6, <1>7, <1>8, <1>9, <1>10, <1>11, <1>12, <1>13 DEF Confirm

LEMMA EndMoves ==
  ASSUME IInv, NEW r \in Requests, Dies(r) \/ LoseCompletion(r)
  PROVE  /\ req[r].pc \in {"durable", "append", "answered"} /\ (Dies(r) /\ req[r].pc = "answered" => ~ req[r].open)
         /\ req'[r].action = req[r].action /\ req'[r].rev = req[r].rev
         /\ confirmation' = confirmation /\ idempotency' = idempotency
         /\ LoseCompletion(r) => req'[r].pc = "lost" /\ req'[r].lost
         /\ ~ LoseCompletion(r) => req'[r].pc = "dead" /\ req'[r].lost = req[r].lost
<1>0. req \in [Requests -> Handler] /\ req[r] \in Handler
  BY DEF IInv, TypeOK
<1>1. CASE LoseCompletion(r)
  <2>1. req' = [req EXCEPT ![r] = [@ EXCEPT !.pc = "lost", !.open = FALSE, !.ok = FALSE, !.lost = TRUE]]
    BY <1>1 DEF LoseCompletion
  <2>2. req'[r] = [req[r] EXCEPT !.pc = "lost", !.open = FALSE, !.ok = FALSE, !.lost = TRUE]
    BY <1>0, <2>1
  <2>3. req'[r].pc = "lost" /\ req'[r].lost /\ req'[r].action = req[r].action /\ req'[r].rev = req[r].rev
    BY <1>0, <2>2 DEF Handler
  <2>4. req[r].pc = "answered" /\ req[r].open
    BY <1>1 DEF LoseCompletion
  <2> QED BY <1>1, <2>3, <2>4 DEF LoseCompletion, Dies, sqlVars
<1>2. CASE Dies(r) /\ ~ LoseCompletion(r)
  <2>1. req' = [req EXCEPT ![r] = [@ EXCEPT !.pc = "dead", !.ok = FALSE]]
    BY <1>2 DEF Dies
  <2>2. req'[r] = [req[r] EXCEPT !.pc = "dead", !.ok = FALSE]
    BY <1>0, <2>1
  <2>3. req'[r].pc = "dead" /\ req'[r].lost = req[r].lost
        /\ req'[r].action = req[r].action /\ req'[r].rev = req[r].rev
    BY <1>0, <2>2 DEF Handler
  <2> QED BY <1>2, <2>3 DEF Dies, sqlVars, processVars
<1> QED BY <1>1, <1>2

LEMMA RevisionGrows == IInv /\ [Next]_vars => revision' >= revision /\ revision \in Nat /\ revision' \in Nat
<1> SUFFICES ASSUME IInv, [Next]_vars
             PROVE  revision' >= revision /\ revision \in Nat /\ revision' \in Nat
  OBVIOUS
<1>1. revision \in Nat
  BY DEF IInv, TypeOK, Revisions
<1>2. CASE Owner
  BY <1>1, <1>2, WindowStep DEF IInv, Revisions
<1>3. CASE revision' = revision
  BY <1>1, <1>3
<1> QED BY <1>2, <1>3, OthersEffect DEF Next

LEMMA ClaimsStep == IInv /\ [Next]_vars => Claims'
<1> SUFFICES ASSUME IInv, [Next]_vars, NEW r \in Requests
             PROVE
    /\ req'[r].pc = "unsent" => ~ Recorded(r)' /\ ~ req'[r].lost /\ idempotency'[r].state = "none"
    /\ req'[r].pc # "unsent" => req'[r].action \in Actions /\ confirmation'[r].payload.rev = req'[r].rev
    /\ req'[r].rev <= revision'
    /\ req'[r].pc = "invalid" => idempotency'[r].state = "processing"
    /\ req'[r].pc = "lost" => req'[r].lost
  BY DEF Claims
<1>0. /\ req[r].pc = "unsent" => ~ Recorded(r) /\ ~ req[r].lost /\ idempotency[r].state = "none"
      /\ req[r].pc # "unsent" => req[r].action \in Actions /\ confirmation[r].payload.rev = req[r].rev
      /\ req[r].rev <= revision
      /\ req[r].pc = "invalid" => idempotency[r].state = "processing"
      /\ req[r].pc = "lost" => req[r].lost
  BY DEF IInv, Claims
<1>1. revision' >= revision /\ revision \in Nat /\ revision' \in Nat
  BY RevisionGrows
<1>2. req[r].rev \in Nat
  BY DEF IInv, TypeOK, Handler
<1>3. CASE ~ ConfirmStep(r)
  <2>1. /\ req'[r] = req[r] /\ idempotency'[r] = idempotency[r] /\ confirmation'[r] = confirmation[r]
        /\ Recorded(r)' <=> Recorded(r)
    BY <1>3, OthersRequests
  <2> QED BY <1>0, <1>1, <1>2, <2>1
<1>4. CASE BeginConfirm(r) \/ Repeat(r)
  <2>1. UNCHANGED revision
    BY <1>4 DEF BeginConfirm, Repeat, Claim, ownerVars
  <2> QED BY <1>4, <2>1, ClaimMoves
<1>5. CASE Confirm(r)
  <2>1. Invalid(r) => idempotency'[r].state = "processing"
    BY DEF IInv, TypeOK, Invalid, Record
  <2>2. /\ req[r].pc \in {"claimed", "local", "invalid", "durable", "append", "answered"}
        /\ req'[r].pc \in {"local", "durable", "invalid", "append", "answered", "done"}
        /\ Keeps(req, req', r)
        /\ confirmation'[r].payload = confirmation[r].payload
        /\ req'[r].pc = "invalid" <=> Invalid(r)
    BY <1>5, ConfirmMoves
  <2> QED BY <1>0, <1>1, <1>2, <2>1, <2>2 DEF Keeps
<1>6. CASE Dies(r) \/ LoseCompletion(r)
  <2>1. UNCHANGED revision
    BY <1>6 DEF Dies, LoseCompletion, ownerVars
  <2>2. /\ req[r].pc \in {"durable", "append", "answered"}
        /\ req'[r].action = req[r].action /\ req'[r].rev = req[r].rev
        /\ confirmation' = confirmation
        /\ LoseCompletion(r) => req'[r].pc = "lost" /\ req'[r].lost
        /\ ~ LoseCompletion(r) => req'[r].pc = "dead" /\ req'[r].lost = req[r].lost
    BY <1>6, EndMoves
  <2> QED BY <1>0, <2>1, <2>2
<1> QED BY <1>3, <1>4, <1>5, <1>6 DEF ConfirmStep

-----------------------------------------------------------------------------
(* Routes *)

LEMMA RoutedChange ==
  ASSUME IInv, [Next]_vars, NEW r \in Requests
  PROVE  /\ Routed(r)' => Routed(r) \/ RouteLocal(r)
         /\ Routed(r) => Routed(r)'
<1>0. idempotency \in [Requests -> Records({"none", "processing", "failed", "completed"})]
  BY DEF IInv, TypeOK
<1>1. CASE ~ ConfirmStep(r)
  BY <1>1, OthersRequests DEF Routed
<1>2. CASE BeginConfirm(r) \/ Repeat(r) \/ Dies(r) \/ LoseCompletion(r)
  BY <1>2, ClaimMoves, EndMoves DEF Routed
<1>3. CASE Lookup(r) \/ FromRecord(r) \/ DurableCheck(r) \/ AppendSignal(r) \/ CompleteConfirm(r)
  BY <1>3 DEF Lookup, FromRecord, DurableCheck, AppendSignal, CompleteConfirm, processVars, Routed
<1>4. CASE Invalid(r) \/ NotRouted(r)
  <2>1. idempotency[r].state \in {"none", "failed"} /\ (Record(r, "processing") \/ Record(r, "failed"))
    BY <1>4 DEF Invalid, NotRouted, MayDecide
  <2>2. idempotency'[r].state \in {"processing", "failed"}
    BY <1>0, <2>1 DEF Record
  <2> QED BY <2>1, <2>2 DEF Routed
<1>5. CASE MarkFailed(r)
  <2>1. idempotency[r].state = "processing"
    BY <1>5 DEF MarkFailed, IInv, Claims
  <2> QED BY <1>0, <1>5, <2>1 DEF MarkFailed, Record, Routed
<1>6. CASE RouteLocal(r)
  BY <1>0, <1>6 DEF RouteLocal, Record, Routed
<1> QED BY <1>1, <1>2, <1>3, <1>4, <1>5, <1>6 DEF ConfirmStep, Confirm

LEMMA RoutedAnswersStep == IInv /\ [Next]_vars => RoutedAnswers'
<1> SUFFICES ASSUME IInv, [Next]_vars, NEW r \in Requests, Routed(r)', ~ req'[r].lost
             PROVE  req'[r].pc = "done" \/ (req'[r].pc = "answered" /\ req'[r].open)
  BY DEF RoutedAnswers
<1>0. Routed(r) /\ ~ req[r].lost => req[r].pc = "done" \/ (req[r].pc = "answered" /\ req[r].open)
  BY DEF IInv, RoutedAnswers
<1>1. Routed(r) \/ RouteLocal(r)
  BY RoutedChange
<1>2. CASE RouteLocal(r)
  BY <1>2, ConfirmMoves DEF Confirm
<1>3. CASE Routed(r)
  <2>1. CASE ~ ConfirmStep(r)
    BY <1>0, <1>3, <2>1, OthersRequests
  <2>2. CASE BeginConfirm(r) \/ Repeat(r)
    BY <1>0, <1>3, <2>2, ClaimMoves
  <2>3. CASE Confirm(r)
    BY <1>0, <1>3, <2>3, ConfirmMoves DEF Keeps
  <2>4. CASE Dies(r) \/ LoseCompletion(r)
    BY <1>0, <1>3, <2>4, EndMoves
  <2> QED BY <2>1, <2>2, <2>3, <2>4 DEF ConfirmStep
<1> QED BY <1>1, <1>2, <1>3

\* A completion that is lost stays lost.
LEMMA LostStays ==
  ASSUME IInv, [Next]_vars, NEW r \in Requests, req[r].lost
  PROVE  req'[r].lost
<1>1. CASE ~ ConfirmStep(r)
  BY <1>1, OthersRequests
<1>2. CASE BeginConfirm(r) \/ Repeat(r)
  BY <1>2, ClaimMoves
<1>3. CASE Confirm(r)
  BY <1>3, ConfirmMoves DEF Keeps
<1>4. CASE Dies(r) \/ LoseCompletion(r)
  BY <1>4, EndMoves
<1> QED BY <1>1, <1>2, <1>3, <1>4 DEF ConfirmStep

LEMMA OverStays == IInv /\ [Next]_vars /\ Over => Over'
<1> SUFFICES ASSUME IInv, [Next]_vars, Over PROVE Over'
  OBVIOUS
<1>1. TypeOK
  BY DEF IInv
<1>2. ~ Owner
  BY <1>1, OwnerIsQuiet, QuietEffect DEF PollSignal, PushSignal, PollCancel, TakeResult, Over
<1>3. pc' = pc
  BY <1>2, OthersEffect DEF Next
<1> QED BY <1>3 DEF Over

LEMMA PassedStays ==
  ASSUME IInv, [Next]_vars, ~ Over', NEW r \in Requests, Passed(r), req'[r].rev = req[r].rev
  PROVE  Passed(r)'
<1>0. TypeOK /\ req[r].rev \in Nat /\ req[r].rev <= revision
  BY DEF IInv, TypeOK, Handler, Claims
<1>1. revision' >= revision /\ revision \in Nat /\ revision' \in Nat
  BY RevisionGrows
<1>2. CASE req[r].rev < revision
  BY <1>0, <1>1, <1>2 DEF Passed
<1>3. CASE pc \in {"planning", "unplanned"}
  <2>1. CASE Owner
    <3>1. Owner => PlannerFails \/ Replan \/ Unplanned
      BY <1>0, <1>3 DEF Owner, RequestApproval, Register, PollSignal, PushSignal, GiveUpPush, PollCancel,
           TakeResult, Deadline, TakenCancel, Tombstone, LeaveLoop, StartRevise, SavePlan,
           RequestReapproval, SaveCheckpoint, FinishRevise, TakenApprove, Execute
    <3>2. CASE PlannerFails
      BY <3>2 DEF PlannerFails, Goto, Passed
    <3>3. CASE Replan
      BY <1>0, <1>1, <3>3 DEF Replan, Passed
    <3>4. CASE Unplanned
      BY <3>4 DEF Unplanned, Bury, Goto, Over
    <3> QED BY <2>1, <3>1, <3>2, <3>3, <3>4
  <2>2. CASE pc' = pc
    BY <1>3, <2>2 DEF Passed
  <2> QED BY <2>1, <2>2, OthersEffect DEF Next
<1> QED BY <1>2, <1>3 DEF Passed

LEMMA RepeatIsLateStep == IInv /\ [Next]_vars => RepeatIsLate'
<1> SUFFICES ASSUME IInv, [Next]_vars, NEW r \in Requests,
                    ~ Over', Recorded(r)', ~ req'[r].lost, req'[r].pc \in {"claimed", "local"}
             PROVE  Passed(r)'
  BY DEF RepeatIsLate
<1>1. ~ Over /\ ~ req[r].lost
  BY OverStays, LostStays
<1>2. Recorded(r) \/ AppendSignal(r)
  BY RecordedChange
<1>3. Recorded(r) /\ req[r].pc \in {"claimed", "local"} => Passed(r)
  BY <1>1 DEF IInv, RepeatIsLate
<1>4. CASE ~ ConfirmStep(r)
  <2>1. req'[r] = req[r] /\ Recorded(r)
    BY <1>4, OthersRequests
  <2> QED BY <1>3, <2>1, PassedStays
<1>5. CASE BeginConfirm(r)
  <2>1. req[r].pc = "unsent"
    BY <1>5 DEF BeginConfirm
  <2>2. ~ AppendSignal(r) /\ ~ Recorded(r)
    BY <2>1 DEF AppendSignal, IInv, Claims
  <2> QED BY <1>2, <2>2
<1>6. CASE Repeat(r)
  <2>1. req[r].pc # "unsent" /\ req'[r].rev = req[r].rev
    BY <1>6, ClaimMoves
  <2>2. confirmation[r].payload.rev = req[r].rev
    BY <2>1 DEF IInv, Claims
  <2>3. Passed(r)
    BY <1>1, <1>6, <2>2 DEF Repeat, Abandoned, Passed, Over
  <2> QED BY <2>1, <2>3, PassedStays
<1>7. CASE Confirm(r)
  <2>1. req[r].pc = "claimed" /\ req'[r].rev = req[r].rev
    BY <1>7, ConfirmMoves DEF Keeps
  <2>2. Recorded(r)
    BY <1>2, <2>1 DEF AppendSignal
  <2> QED BY <1>3, <2>1, <2>2, PassedStays
<1>8. CASE Dies(r) \/ LoseCompletion(r)
  BY <1>8, EndMoves
<1> QED BY <1>4, <1>5, <1>6, <1>7, <1>8 DEF ConfirmStep

\* What is open to a decision is the owner's revision, so a late repeat is not routed.
LEMMA LateIsNotRouted ==
  ASSUME IInv, NEW r \in Requests, RouteLocal(r), ~ Over
  PROVE  ~ Passed(r)
<1>1. pending.rev = req[r].rev /\ pending.state = "awaiting"
  BY DEF RouteLocal, InForce
<1>2. pending.rev = revision /\ pc \notin {"planning", "unplanned"}
  BY <1>1 DEF IInv, Shown
<1>3. revision \in Nat
  BY DEF IInv, TypeOK, Revisions
<1> QED BY <1>1, <1>2, <1>3 DEF Passed

LEMMA OneRouteStep == IInv /\ [Next]_vars => OneRoute'
<1> SUFFICES ASSUME IInv, [Next]_vars, NEW r \in Requests, ~ Over', Routed(r)', Recorded(r)'
             PROVE  req'[r].lost
  BY DEF OneRoute
<1>1. SUFFICES req[r].lost
  BY LostStays
<1>2. ~ Over
  BY OverStays
<1>3. CASE RouteLocal(r)
  <2>1. req[r].pc = "local"
    BY <1>3 DEF RouteLocal, MayDecide
  <2>2. Recorded(r)
    BY <2>1, RecordedChange DEF AppendSignal
  <2> QED BY <1>2, <1>3, <2>1, <2>2, LateIsNotRouted DEF IInv, RepeatIsLate
<1>4. CASE AppendSignal(r)
  <2>1. req[r].pc = "append"
    BY <1>4 DEF AppendSignal
  <2>2. Routed(r)
    BY <2>1, RoutedChange DEF RouteLocal, MayDecide
  <2> QED BY <2>1, <2>2 DEF IInv, RoutedAnswers
<1>5. CASE Routed(r) /\ Recorded(r)
  BY <1>2, <1>5 DEF IInv, OneRoute
<1> QED BY <1>3, <1>4, <1>5, RoutedChange, RecordedChange

-----------------------------------------------------------------------------
(* Where a decision is *)

\* A step keeps the balance of r when the places of its decision do not gain.
LEMMA Balance ==
  ASSUME NEW r \in Requests, taken[r] \in Nat, taken'[r] \in Nat,
         taken[r] + One(InChannel(r)) + One(InPush(r)) + One(Waiting(r)) <= One(Routed(r)) + One(Recorded(r)),
         taken'[r] + One(InChannel(r)') + One(InPush(r)') + One(Waiting(r)') + One(Routed(r)) + One(Recorded(r))
           <= taken[r] + One(InChannel(r)) + One(InPush(r)) + One(Waiting(r)) + One(Routed(r)') + One(Recorded(r)')
  PROVE  taken'[r] + One(InChannel(r)') + One(InPush(r)') + One(Waiting(r)') <= One(Routed(r)') + One(Recorded(r)')
<1>1. One(InChannel(r)) \in Nat /\ One(InPush(r)) \in Nat /\ One(Waiting(r)) \in Nat
      /\ One(Routed(r)) \in Nat /\ One(Recorded(r)) \in Nat
  BY DEF One
<1>2. One(InChannel(r)') \in Nat /\ One(InPush(r)') \in Nat /\ One(Waiting(r)') \in Nat
      /\ One(Routed(r)') \in Nat /\ One(Recorded(r)') \in Nat
  BY DEF One
<1> QED BY <1>1, <1>2

\* The places of the decision of r when it moves from none of them to another.
LEMMA StillBalance ==
  ASSUME IInv, [Next]_vars, NEW r \in Requests, taken'[r] = taken[r],
         InChannel(r)' => InChannel(r), InPush(r)' => InPush(r), Waiting(r)' => Waiting(r)
  PROVE  taken'[r] + One(InChannel(r)') + One(InPush(r)') + One(Waiting(r)') + One(Routed(r)) + One(Recorded(r))
           <= taken[r] + One(InChannel(r)) + One(InPush(r)) + One(Waiting(r)) + One(Routed(r)') + One(Recorded(r)')
<1>1. One(InChannel(r)') <= One(InChannel(r)) /\ One(InPush(r)') <= One(InPush(r))
      /\ One(Waiting(r)') <= One(Waiting(r))
  BY DEF One
<1>2. One(Routed(r)) <= One(Routed(r)') /\ One(Recorded(r)) <= One(Recorded(r)')
  BY RoutedChange, RecordedChange DEF One
<1>3. One(InChannel(r)) \in Nat /\ One(InPush(r)) \in Nat /\ One(Waiting(r)) \in Nat
      /\ One(Routed(r)) \in Nat /\ One(Recorded(r)) \in Nat
  BY DEF One
<1>4. One(InChannel(r)') \in Nat /\ One(InPush(r)') \in Nat /\ One(Waiting(r)') \in Nat
      /\ One(Routed(r)') \in Nat /\ One(Recorded(r)') \in Nat
  BY DEF One
<1>5. taken[r] \in Nat
  BY DEF IInv, TypeOK
<1> QED BY <1>1, <1>2, <1>3, <1>4, <1>5

LEMMA ConservedStep == IInv /\ [Next]_vars => Conserved'
<1> SUFFICES ASSUME IInv, [Next]_vars, NEW r \in Requests
             PROVE  taken'[r] + One(InChannel(r)') + One(InPush(r)') + One(Waiting(r)')
                      <= One(Routed(r)') + One(Recorded(r)')
  BY DEF Conserved
<1>0. /\ TypeOK /\ OneSignal /\ taken[r] \in Nat
      /\ taken[r] + One(InChannel(r)) + One(InPush(r)) + One(Waiting(r)) <= One(Routed(r)) + One(Recorded(r))
  BY DEF IInv, Conserved, TypeOK
<1>t. taken'[r] \in Nat
  BY TypeStep DEF TypeOK
<1> SUFFICES taken'[r] + One(InChannel(r)') + One(InPush(r)') + One(Waiting(r)') + One(Routed(r)) + One(Recorded(r))
               <= taken[r] + One(InChannel(r)) + One(InPush(r)) + One(Waiting(r)) + One(Routed(r)') + One(Recorded(r)')
  BY <1>0, <1>t, Balance
<1>m. /\ One(Routed(r)) <= One(Routed(r)') /\ One(Recorded(r)) <= One(Recorded(r)')
      /\ One(Routed(r)) \in Nat /\ One(Recorded(r)) \in Nat /\ One(Routed(r)') \in Nat /\ One(Recorded(r)') \in Nat
  BY RoutedChange, RecordedChange DEF One
<1>n. taken[r] \in Nat
  BY <1>0
<1>r. r # "stop" /\ r # "nobody"
  BY NotByARequest
<1>1. CASE Quiet
  <2>1. UNCHANGED <<signals, channel, taken>> /\ pc' # "push"
    BY <1>0, <1>1, QuietEffect DEF requestVars
  <2>2. InChannel(r)' = InChannel(r) /\ Waiting(r)' = Waiting(r) /\ ~ InPush(r)'
    BY <2>1 DEF InChannel, Waiting, InPush
  <2> QED BY <2>1, <2>2, StillBalance
<1>2. CASE PollSignal
  <2>1. /\ OldestSignal \in DOMAIN signals /\ ~ signals[OldestSignal].consumed
        /\ DOMAIN signals' = DOMAIN signals
        /\ \A i \in DOMAIN signals : signals'[i].result = signals[i].result
        /\ signals'[OldestSignal].consumed
        /\ \A i \in DOMAIN signals : i # OldestSignal => signals'[i].consumed = signals[i].consumed
    <3>1. signals' # signals
      <4>1. OldestSignal \in DOMAIN signals /\ ~ signals[OldestSignal].consumed
        BY <1>0, <1>2, OldestIsPending DEF PollSignal
      <4>2. signals \in Seq([result : Decisions, consumed : BOOLEAN])
        BY <1>0 DEF TypeOK
      <4>3. signals' = [signals EXCEPT ![OldestSignal] = [@ EXCEPT !.consumed = TRUE]]
        BY <1>2 DEF PollSignal
      <4>4. signals[OldestSignal] \in [result : Decisions, consumed : BOOLEAN]
        BY <4>1, <4>2, SeqReplace
      <4>5. signals'[OldestSignal].consumed
        BY <4>1, <4>2, <4>3, <4>4
      <4> QED BY <4>1, <4>5
    <3>2. ~ \E q \in Requests : AppendSignal(q)
      BY <1>2 DEF PollSignal, AppendSignal, ownerVars, Goto
    <3> QED BY <3>1, <3>2, SignalsChange
  <2>2. pc = "loop" /\ pc' = "push" /\ inHand' = signals[OldestSignal].result
        /\ UNCHANGED <<channel, taken>>
    BY <1>2 DEF PollSignal, Goto, processVars, requestVars
  <2>3. InChannel(r)' = InChannel(r) /\ ~ InPush(r)
    BY <2>2 DEF InChannel, InPush
  <2>4. Waiting(r)' => Waiting(r)
    BY <2>1 DEF Waiting
  <2>5. CASE signals[OldestSignal].result.by # r
    <3>1. ~ InPush(r)'
      BY <2>2, <2>5 DEF InPush
    <3> QED BY <2>2, <2>3, <2>4, <3>1, StillBalance
  <2>6. CASE signals[OldestSignal].result.by = r
    <3>1. Waiting(r)
      BY <2>1, <2>6 DEF Waiting
    <3>2. ~ Waiting(r)'
      BY <1>0, <2>1, <2>6 DEF Waiting, OneSignal
    <3>3. One(Waiting(r)) = 1 /\ One(Waiting(r)') = 0 /\ One(InPush(r)) = 0 /\ One(InPush(r)') \in {0, 1}
          /\ One(InChannel(r)') = One(InChannel(r)) /\ One(InChannel(r)) \in Nat
      BY <2>3, <3>1, <3>2 DEF One
    <3> QED BY <1>n, <1>m, <2>2, <3>3
  <2> QED BY <2>5, <2>6
<1>3. CASE PushSignal
  <2>1. pc = "push" /\ pc' = "loop" /\ channel = <<>> /\ channel' = <<inHand>>
        /\ UNCHANGED <<signals, taken>>
    BY <1>3 DEF PushSignal, Goto, sqlVars, requestVars
  <2>2. ~ InChannel(r) /\ ~ InPush(r)' /\ Waiting(r)' = Waiting(r)
    BY <2>1 DEF InChannel, InPush, Waiting
  <2>3. InChannel(r)' => InPush(r)
    BY <2>1 DEF InChannel, InPush
  <2>4. One(InChannel(r)) = 0 /\ One(InPush(r)') = 0 /\ One(Waiting(r)') = One(Waiting(r)) /\ One(Waiting(r)) \in Nat
    BY <2>2 DEF One
  <2>5. One(InChannel(r)') <= One(InPush(r)) /\ One(InChannel(r)') \in Nat /\ One(InPush(r)) \in Nat
    BY <2>3 DEF One
  <2> QED BY <1>n, <1>m, <2>1, <2>4, <2>5
<1>4. CASE PollCancel \/ StopHere
  <2>1. channel' = <<Result("cancel", 0, "stop")>> /\ UNCHANGED <<signals, pc, inHand, taken>>
    BY <1>4 DEF PollCancel, StopHere, CancelPendingPlan, sqlVars, ownerVars, requestVars
  <2>2. channel'[1].by = "stop"
    BY <2>1 DEF Result
  <2>3. ~ InChannel(r)' /\ InPush(r)' = InPush(r) /\ Waiting(r)' = Waiting(r)
    BY <1>r, <2>1, <2>2 DEF InChannel, InPush, Waiting
  <2> QED BY <2>1, <2>3, StillBalance
<1>5. CASE TakeResult
  <2>1. channel # <<>> /\ channel' = <<>> /\ pc = "loop" /\ pc' = channel[1].action
        /\ channel[1] \in Decisions /\ UNCHANGED signals
        /\ taken'[r] = IF channel[1].by = r THEN taken[r] + 1 ELSE taken[r]
    BY <1>0, <1>5, HeadOfChannel DEF TakeResult, Goto, sqlVars
  <2>2. pc' # "push"
    BY <2>1 DEF Decisions, Actions
  <2>3. ~ InChannel(r)' /\ ~ InPush(r)' /\ ~ InPush(r) /\ Waiting(r)' = Waiting(r)
    BY <2>1, <2>2 DEF InChannel, InPush, Waiting
  <2>4. InChannel(r) <=> channel[1].by = r
    BY <2>1 DEF InChannel
  <2>5. taken'[r] = taken[r] + One(InChannel(r))
    BY <1>0, <2>1, <2>4 DEF One
  <2>6. One(InChannel(r)') = 0 /\ One(InPush(r)') = 0 /\ One(InPush(r)) = 0 /\ One(Waiting(r)') = One(Waiting(r))
        /\ One(Waiting(r)) \in Nat /\ One(InChannel(r)) \in Nat
    BY <2>3 DEF One
  <2> QED BY <1>n, <1>m, <2>5, <2>6
<1>6. ASSUME NEW q \in Requests, RouteLocal(q)
      PROVE  taken'[r] + One(InChannel(r)') + One(InPush(r)') + One(Waiting(r)') + One(Routed(r)) + One(Recorded(r))
               <= taken[r] + One(InChannel(r)) + One(InPush(r)) + One(Waiting(r)) + One(Routed(r)') + One(Recorded(r)')
  <2>1. channel = <<>> /\ channel' = <<Payload(q)>> /\ UNCHANGED <<signals, pc, inHand, taken>>
    BY <1>6 DEF RouteLocal, sqlVars, ownerVars
  <2>2. channel'[1].by = q
    BY <2>1 DEF Payload, Result
  <2>3. InPush(r)' = InPush(r) /\ Waiting(r)' = Waiting(r) /\ ~ InChannel(r)
    BY <2>1 DEF InChannel, InPush, Waiting
  <2>4. CASE q # r
    <3>1. ~ InChannel(r)'
      BY <2>2, <2>4 DEF InChannel
    <3> QED BY <2>1, <2>3, <3>1, StillBalance
  <2>5. CASE q = r
    <3>1. idempotency[r].state \in {"none", "failed"}
      BY <1>6, <2>5 DEF RouteLocal, MayDecide
    <3>2. idempotency' = [idempotency EXCEPT ![r] = [state |-> "completed", payload |-> Payload(r)]]
      BY <1>6, <2>5 DEF RouteLocal, Record
    <3>3. idempotency'[r].state = "completed"
      BY <1>0, <3>2 DEF TypeOK
    <3>4. ~ Routed(r) /\ Routed(r)'
      BY <3>1, <3>3 DEF Routed
    <3>5. One(Routed(r)) = 0 /\ One(Routed(r)') = 1 /\ One(InChannel(r)) = 0 /\ One(InChannel(r)') \in {0, 1}
          /\ One(InPush(r)') = One(InPush(r)) /\ One(InPush(r)) \in Nat
          /\ One(Waiting(r)') = One(Waiting(r)) /\ One(Waiting(r)) \in Nat
      BY <2>3, <3>4 DEF One
    <3> QED BY <1>n, <1>m, <2>1, <3>5
  <2> QED BY <2>4, <2>5
<1>7. ASSUME NEW q \in Requests, AppendSignal(q)
      PROVE  taken'[r] + One(InChannel(r)') + One(InPush(r)') + One(Waiting(r)') + One(Routed(r)) + One(Recorded(r))
               <= taken[r] + One(InChannel(r)) + One(InPush(r)) + One(Waiting(r)) + One(Routed(r)') + One(Recorded(r)')
  <2>1. UNCHANGED <<channel, pc, inHand, taken>>
    BY <1>7 DEF AppendSignal, ownerVars, processVars
  <2>2. InPush(r)' = InPush(r) /\ InChannel(r)' = InChannel(r)
    BY <2>1 DEF InChannel, InPush
  <2>3. CASE UNCHANGED signals
    <3>1. Waiting(r)' = Waiting(r)
      BY <2>3 DEF Waiting
    <3> QED BY <2>1, <2>2, <3>1, StillBalance
  <2>4. CASE signals' # signals
    <3>0. ~ PollSignal
      BY <1>7 DEF PollSignal, AppendSignal, ownerVars, Goto
    <3>1. PICK p \in Requests :
            /\ ~ Recorded(p)
            /\ \E n \in DOMAIN signals' :
                   /\ n \notin DOMAIN signals /\ DOMAIN signals' = DOMAIN signals \union {n}
                   /\ \A i \in DOMAIN signals : signals'[i] = signals[i]
                   /\ signals'[n].result.by = p /\ ~ signals'[n].consumed
      BY <2>4, <3>0, SignalsChange
    <3>2. CASE p # r
      <4>1. Waiting(r)' => Waiting(r)
        BY <3>1, <3>2 DEF Waiting
      <4> QED BY <2>1, <2>2, <4>1, StillBalance
    <3>3. CASE p = r
      <4>1. ~ Waiting(r) /\ ~ Recorded(r) /\ Recorded(r)'
        BY <3>1, <3>3 DEF Waiting, Recorded
      <4>2. One(Waiting(r)) = 0 /\ One(Waiting(r)') \in {0, 1} /\ One(Recorded(r)) = 0 /\ One(Recorded(r)') = 1
            /\ One(InPush(r)') = One(InPush(r)) /\ One(InPush(r)) \in Nat
            /\ One(InChannel(r)') = One(InChannel(r)) /\ One(InChannel(r)) \in Nat
        BY <2>2, <4>1 DEF One
      <4> QED BY <1>n, <1>m, <2>1, <4>2
    <3> QED BY <3>2, <3>3
  <2> QED BY <2>3, <2>4
<1>8. CASE \/ \E q \in Requests : ConfirmStep(q) /\ ~ AppendSignal(q) /\ ~ RouteLocal(q)
           \/ (ClientLeaves \/ StopRun \/ UNCHANGED vars) /\ ~ StopHere
  <2>1. UNCHANGED <<signals, channel, pc, inHand, taken>>
    BY <1>8, HandlerEffect, StopEffect
  <2>2. InPush(r)' = InPush(r) /\ InChannel(r)' = InChannel(r) /\ Waiting(r)' = Waiting(r)
    BY <2>1 DEF InChannel, InPush, Waiting
  <2> QED BY <2>1, <2>2, StillBalance
<1> QED BY <1>1, <1>2, <1>3, <1>4, <1>5, <1>6, <1>7, <1>8, OwnerIsQuiet, NextParts

LEMMA OneDecisionStep == IInv /\ [Next]_vars /\ Conserved' => OneDecisionPerKey'
<1> SUFFICES ASSUME IInv, [Next]_vars, Conserved', NEW r \in Requests, taken'[r] > 1
             PROVE  req'[r].lost
  BY DEF OneDecisionPerKey
<1>1. CASE taken'[r] = taken[r]
  BY <1>1, LostStays DEF IInv, OneDecisionPerKey
<1>2. CASE TakeResult
  <2>1. ~ Over /\ UNCHANGED <<idempotency, signals, req>>
    BY <1>2 DEF TakeResult, Over, sqlVars
  <2>2. taken'[r] + One(InChannel(r)') + One(InPush(r)') + One(Waiting(r)') <= One(Routed(r)') + One(Recorded(r)')
    BY DEF Conserved
  <2>3. taken'[r] \in Nat
    BY TypeStep DEF TypeOK
  <2>4. One(InChannel(r)') \in Nat /\ One(InPush(r)') \in Nat /\ One(Waiting(r)') \in Nat
    BY DEF One
  <2>5. One(Routed(r)') \in {0, 1} /\ One(Recorded(r)') \in {0, 1}
    BY DEF One
  <2>6. One(Routed(r)') = 1 /\ One(Recorded(r)') = 1
    BY <2>2, <2>3, <2>4, <2>5
  <2>7. Routed(r)' /\ Recorded(r)'
    BY <2>6 DEF One
  <2>8. Routed(r) /\ Recorded(r)
    BY <2>1, <2>7 DEF Routed, Recorded
  <2> QED BY <2>1, <2>8 DEF IInv, OneRoute
<1>3. CASE ~ TakeResult
  <2>1. UNCHANGED taken
    <3>1. CASE Owner
      BY <1>3, <3>1, OwnerIsQuiet, QuietEffect DEF IInv, PollSignal, PushSignal, PollCancel, requestVars
    <3>2. CASE ~ Owner
      BY <3>2, NextParts, HandlerEffect, StopEffect
    <3> QED BY <3>1, <3>2
  <2> QED BY <1>1, <2>1
<1> QED BY <1>2, <1>3

-----------------------------------------------------------------------------
(* The theorems *)

LEMMA Start == Init => IInv
<1> SUFFICES ASSUME Init PROVE IInv
  OBVIOUS
<1> USE BoundAssumption DEF Init
<1>1. 1 \in Revisions /\ 1 <= MaxRevision
  BY DEF Revisions
<1>2. \A r \in Requests : req[r] = [pc |-> "unsent", action |-> "none", rev |-> 0,
                                    open |-> FALSE, ok |-> FALSE, lost |-> FALSE]
  OBVIOUS
<1>3. \A r \in Requests : idempotency[r].state = "none" /\ ~ Recorded(r) /\ taken[r] = 0
  BY DEF NoRecord, Recorded
<1>4. TypeOK
  <2>1. req \in [Requests -> Handler]
    BY DEF Handler
  <2>2. NoRecord \in Records({"none", "processing", "completed"})
        /\ NoRecord \in Records({"none", "processing", "failed", "completed"})
    BY DEF NoRecord, Records
  <2>3. <<>> \in Seq(Decisions) /\ Len(<<>>) <= 1 /\ <<>> \in Seq([result : Decisions, consumed : BOOLEAN])
    OBVIOUS
  <2>4. pending \in [state : {"none", "awaiting", "revising", "executing", "cancelled", "expired", "failed"},
                     rev : 0 .. revision]
    BY DEF NoPlan
  <2>5. approval \in [Revisions -> {"none", "pending", "approved", "cancelled", "expired", "superseded"}]
    OBVIOUS
  <2>6. confirmation \in [Requests -> Records({"none", "processing", "completed"})]
        /\ idempotency \in [Requests -> Records({"none", "processing", "failed", "completed"})]
    BY <2>2
  <2>7. taken \in [Requests -> Nat] /\ deaths \in 0 .. MaxDeaths
    OBVIOUS
  <2>8. pc \in Places /\ approvalRev \in 0 .. revision
    BY DEF Places
  <2> HIDE DEF Init
  <2>9. /\ status = "awaiting_approval" /\ planRev = 1 /\ revision = 1 /\ signals = <<>> /\ channel = <<>>
        /\ inHand = NoResult /\ hitlState = "none"
        /\ cancelRequested = FALSE /\ connected = TRUE /\ registered = FALSE
    BY DEF Init
  <2> QED BY <1>1, <2>1, <2>3, <2>4, <2>5, <2>6, <2>7, <2>8, <2>9 DEF TypeOK
<1>5. Window /\ ApprovalTellsOutcome
  BY DEF Window, ApprovalTellsOutcome, Revisions
<1>6. Shown
  BY DEF Shown, NoPlan
<1>7. Claims
  BY <1>2, <1>3 DEF Claims
<1>8. InHandDecided /\ OneSignal
  BY DEF InHandDecided, OneSignal
<1>9. RoutedAnswers /\ RepeatIsLate /\ OneRoute /\ OneDecisionPerKey
  BY <1>2, <1>3 DEF RoutedAnswers, RepeatIsLate, OneRoute, OneDecisionPerKey, Routed
<1>10. Conserved
  <2>1. \A r \in Requests : ~ InChannel(r) /\ ~ InPush(r) /\ ~ Waiting(r) /\ ~ Routed(r) /\ ~ Recorded(r)
    BY <1>3 DEF InChannel, InPush, Waiting, Routed
  <2> QED BY <1>3, <2>1 DEF Conserved, One
<1> QED BY <1>4, <1>5, <1>6, <1>7, <1>8, <1>9, <1>10 DEF IInv

LEMMA Inductive == IInv /\ [Next]_vars => IInv'
<1> SUFFICES ASSUME IInv, [Next]_vars PROVE IInv'
  OBVIOUS
<1>1. TypeOK' /\ Window' /\ ApprovalTellsOutcome' /\ Shown' /\ Claims' /\ InHandDecided' /\ OneSignal'
  BY TypeStep, ApprovalsStep, ShownStep, ClaimsStep, InHandStep, OneSignalStep
<1>2. RoutedAnswers' /\ RepeatIsLate' /\ OneRoute' /\ Conserved'
  BY RoutedAnswersStep, RepeatIsLateStep, OneRouteStep, ConservedStep
<1> QED BY <1>1, <1>2, OneDecisionStep DEF IInv

\* What holds of the owner, the rows and the confirm handlers between any two steps of
\* handleRunStream's confirm loop and handleHITLConfirm.
THEOREM Invariant == Spec => []IInv
BY Start, Inductive, PTL DEF Spec

\* The tables, the owner and the handlers keep their types; the revision open for
\* approval is never past the owner's.
THEOREM TypeCorrect == Spec => []TypeOK
<1>1. IInv => TypeOK
  BY DEF IInv
<1> QED BY <1>1, Invariant, PTL

\* plan_approvals and the run's row tell the same story through every revise, stop,
\* deadline and lost client: one revision open at most, none behind it anything but
\* superseded, and the run executes or is cancelled with its current revision closed so.
THEOREM ApprovalsAgree == Spec => []ApprovalTellsOutcome
<1>1. IInv => ApprovalTellsOutcome
  BY DEF IInv
<1> QED BY <1>1, Invariant, PTL

\* A confirm is acted on once under its idempotency key, through both of its ways to the
\* owner, repeats and deaths, unless the write that completes its record was lost.
THEOREM DecidedOnce == Spec => []OneDecisionPerKey
<1>1. IInv => OneDecisionPerKey
  BY DEF IInv
<1> QED BY <1>1, Invariant, PTL

-----------------------------------------------------------------------------
(* The tasks of a run at the agents *)

CONSTANTS MaxCrashes, MaxFaults

R == INSTANCE RemoteTasks

-----------------------------------------------------------------------------
(* A broken stream is reported *)

Frames == {"header", "text", "done", "error"}

StreamTypes ==
  /\ outcome \in {"completed", "cancelled", "disconnected"}
  /\ result \in [Tasks -> {"none", "ok", "failed"}]
  /\ wire \in [Tasks -> Seq(Frames)]
  /\ agent \in [Tasks -> {"none", "generating", "answered", "over", "dead"}]

\* A response with [DONE] in it, in a form that a prefix keeps.
HasDone(w) == \E i \in 1 .. Len(w) : w[i] = "done"

DoneIsLast == \A t \in Tasks : HasDone(wire[t]) => agent[t] = "over"

StreamInv == StreamTypes /\ DoneIsLast /\ BrokenStreamReported

LEMMA TailDone ==
  ASSUME NEW w \in Seq(Frames), w # <<>>
  PROVE  /\ Tail(w) \in Seq(Frames)
         /\ HasDone(Tail(w)) => HasDone(w)
         /\ Head(w) = "done" => HasDone(w)
<1> DEFINE v == Tail(w)
<1>1. /\ v \in Seq(Frames) /\ Len(v) = Len(w) - 1
      /\ \A i \in 1 .. Len(v) : v[i] = w[i + 1]
  BY HeadTailProperties
<1>2. Len(w) \in Nat \ {0} /\ Head(w) = w[1]
  OBVIOUS
<1> HIDE DEF v
<1>3. \A i \in 1 .. Len(v) : i + 1 \in 1 .. Len(w)
  BY <1>1, <1>2
<1>4. HasDone(v) => HasDone(w)
  BY <1>1, <1>3 DEF HasDone
<1>5. 1 \in 1 .. Len(w)
  BY <1>2
<1>6. Head(w) = "done" => HasDone(w)
  BY <1>2, <1>5 DEF HasDone
<1> QED BY <1>1, <1>4, <1>6 DEF v

LEMMA AppendDone ==
  ASSUME NEW w \in Seq(Frames), NEW f \in Frames
  PROVE  /\ Append(w, f) \in Seq(Frames)
         /\ f # "done" /\ HasDone(Append(w, f)) => HasDone(w)
<1> DEFINE v == Append(w, f)
<1>1. /\ v \in Seq(Frames) /\ Len(v) = Len(w) + 1
      /\ \A i \in 1 .. Len(w) : v[i] = w[i]
      /\ v[Len(w) + 1] = f
  BY AppendProperties
<1>2. Len(w) \in Nat
  OBVIOUS
<1> HIDE DEF v
<1>3. ASSUME f # "done", NEW i \in 1 .. Len(v), v[i] = "done"
      PROVE  HasDone(w)
  <2>1. i \in 1 .. Len(w)
    BY <1>1, <1>2, <1>3
  <2> QED BY <1>1, <1>3, <2>1 DEF HasDone
<1>4. f # "done" /\ HasDone(v) => HasDone(w)
  BY <1>3 DEF HasDone
<1> QED BY <1>1, <1>4 DEF v

\* An outcome other than completed stays other than completed.
LEMMA EmitStays ==
  ASSUME StreamTypes, NEW e, R!Emit(e)
  PROVE  /\ outcome' \in {"completed", "cancelled", "disconnected"}
         /\ outcome # "completed" => outcome' # "completed"
         /\ ~ live => outcome' # "completed"
BY DEF R!Emit, StreamTypes

LEMMA ClientSteps ==
  ASSUME StreamInv, NEW t \in Tasks,
         \/ R!NotSent(t) \/ R!CallBreaks(t) \/ R!CallFails(t)
         \/ R!ReadHeader(t) \/ R!ReadFrame(t) \/ R!ReadEnd(t)
  PROVE  StreamInv'
<1> USE DEF StreamInv
<1>1. CASE R!NotSent(t) \/ R!CallBreaks(t) \/ R!CallFails(t)
  <2>1. PICK e : R!Over(t, e, "failed") /\ UNCHANGED wire
    BY <1>1 DEF R!NotSent, R!CallBreaks, R!CallFails
  <2>2. R!Emit(e) /\ result' = [result EXCEPT ![t] = "failed"] /\ UNCHANGED <<wire, agent>>
    BY <2>1 DEF R!Over, R!agentVars
  <2> QED BY <2>2, EmitStays DEF StreamTypes, DoneIsLast, HasDone, BrokenStreamReported
<1>2. CASE R!ReadHeader(t)
  <2>1. /\ wire[t] # <<>> /\ wire' = [wire EXCEPT ![t] = Tail(@)]
        /\ UNCHANGED <<outcome, result, agent>>
    BY <1>2 DEF R!ReadHeader, R!runVars, R!agentVars
  <2>2. Tail(wire[t]) \in Seq(Frames) /\ (HasDone(Tail(wire[t])) => HasDone(wire[t]))
    BY <2>1, TailDone DEF StreamTypes
  <2>3. wire' \in [Tasks -> Seq(Frames)] /\ \A u \in Tasks : HasDone(wire'[u]) => HasDone(wire[u])
    BY <2>1, <2>2 DEF StreamTypes
  <2>4. DoneIsLast'
    BY <2>1, <2>3 DEF DoneIsLast, HasDone
  <2> QED BY <2>1, <2>3, <2>4 DEF StreamTypes, BrokenStreamReported
<1>3. CASE R!ReadFrame(t)
  <2>1. wire[t] # <<>> /\ wire' = [wire EXCEPT ![t] = Tail(@)]
    BY <1>3 DEF R!ReadFrame
  <2>2. /\ Tail(wire[t]) \in Seq(Frames) /\ (HasDone(Tail(wire[t])) => HasDone(wire[t]))
        /\ Head(wire[t]) = "done" => HasDone(wire[t])
    BY <2>1, TailDone DEF StreamTypes
  <2>3. wire' \in [Tasks -> Seq(Frames)] /\ \A u \in Tasks : HasDone(wire'[u]) => HasDone(wire[u])
    BY <2>1, <2>2 DEF StreamTypes
  <2>4. UNCHANGED agent
    BY <1>3 DEF R!ReadFrame, R!Over, R!agentVars
  <2>5. DoneIsLast'
    BY <2>3, <2>4 DEF DoneIsLast, HasDone
  <2>6. CASE UNCHANGED <<outcome, result>>
    BY <2>3, <2>4, <2>5, <2>6 DEF StreamTypes, BrokenStreamReported
  <2>7. CASE R!Over(t, "message_end", "ok") /\ (Head(wire[t]) = "done" \/ ~ live)
    <3>1. R!Emit("message_end") /\ result' = [result EXCEPT ![t] = "ok"]
      BY <2>7 DEF R!Over
    <3>2. agent[t] = "over" \/ outcome' # "completed"
      BY <2>2, <2>7, <3>1, EmitStays DEF DoneIsLast
    <3> QED BY <2>3, <2>4, <2>5, <3>1, <3>2, EmitStays DEF StreamTypes, BrokenStreamReported
  <2> QED BY <1>3, <2>6, <2>7 DEF R!ReadFrame, R!runVars, R!callVars
<1>4. CASE R!ReadEnd(t)
  <2>1. /\ agent[t] = "over" /\ R!Emit("message_end") /\ result' = [result EXCEPT ![t] = "ok"]
        /\ UNCHANGED <<wire, agent>>
    BY <1>4 DEF R!ReadEnd, R!AtEnd, R!Over, R!agentVars
  <2> QED BY <2>1, EmitStays DEF StreamTypes, DoneIsLast, HasDone, BrokenStreamReported
<1> QED BY <1>1, <1>2, <1>3, <1>4

LEMMA AgentSteps ==
  ASSUME StreamInv, NEW t \in Tasks,
         R!Accept(t) \/ R!Generate(t) \/ R!Complete(t) \/ R!RunnerFails(t) \/ R!AgentDies(t)
  PROVE  StreamInv'
<1> USE DEF StreamInv
<1>0. UNCHANGED <<outcome, result>>
  BY DEF R!Accept, R!Generate, R!Complete, R!RunnerFails, R!AgentDies, R!runVars, R!callVars
<1>1. CASE R!Accept(t)
  <2>1. /\ agent[t] = "none" /\ agent' = [agent EXCEPT ![t] = "generating"]
        /\ wire' = [wire EXCEPT ![t] = <<"header">>]
    BY <1>1 DEF R!Accept
  <2>2. <<"header">> \in Seq(Frames) /\ ~ HasDone(<<"header">>)
    BY DEF Frames, HasDone
  <2>3. wire' \in [Tasks -> Seq(Frames)] /\ \A u \in Tasks : HasDone(wire'[u]) => u # t /\ HasDone(wire[u])
    BY <2>1, <2>2 DEF StreamTypes
  <2> QED BY <1>0, <2>1, <2>3 DEF StreamTypes, DoneIsLast, BrokenStreamReported, HasDone
<1>2. CASE R!Generate(t)
  <2>1. /\ agent[t] = "generating" /\ agent' = [agent EXCEPT ![t] = "answered"]
        /\ wire' = [wire EXCEPT ![t] = Append(@, "text")]
    BY <1>2 DEF R!Generate
  <2>2. Append(wire[t], "text") \in Seq(Frames) /\ (HasDone(Append(wire[t], "text")) => HasDone(wire[t]))
    BY AppendDone DEF StreamTypes, Frames
  <2>3. wire' \in [Tasks -> Seq(Frames)] /\ \A u \in Tasks : HasDone(wire'[u]) => HasDone(wire[u])
    BY <2>1, <2>2 DEF StreamTypes
  <2>4. agent[t] # "over"
    BY <2>1
  <2> QED BY <1>0, <2>1, <2>3, <2>4 DEF StreamTypes, DoneIsLast, BrokenStreamReported, HasDone
<1>3. CASE R!Complete(t) \/ R!RunnerFails(t)
  <2>1. PICK f \in Frames : wire' = [wire EXCEPT ![t] = Append(@, f)]
    BY <1>3 DEF R!Complete, R!RunnerFails, Frames
  <2>2. agent' = [agent EXCEPT ![t] = "over"]
    BY <1>3 DEF R!Complete, R!RunnerFails
  <2>3. Append(wire[t], f) \in Seq(Frames)
    BY AppendDone DEF StreamTypes
  <2>4. wire' \in [Tasks -> Seq(Frames)] /\ \A u \in Tasks : u # t /\ HasDone(wire'[u]) => HasDone(wire[u])
    BY <2>1, <2>3 DEF StreamTypes
  <2> QED BY <1>0, <2>2, <2>4 DEF StreamTypes, DoneIsLast, BrokenStreamReported, HasDone
<1>4. CASE R!AgentDies(t)
  <2>1. /\ agent[t] # "over" /\ agent' = [agent EXCEPT ![t] = "dead"] /\ UNCHANGED wire
    BY <1>4 DEF R!AgentDies
  <2> QED BY <1>0, <2>1 DEF StreamTypes, DoneIsLast, BrokenStreamReported, HasDone
<1> QED BY <1>1, <1>2, <1>3, <1>4

LEMMA StreamStep == StreamInv /\ [R!Next]_(R!vars) => StreamInv'
<1> SUFFICES ASSUME StreamInv, [R!Next]_(R!vars) PROVE StreamInv'
  OBVIOUS
<1>1. CASE \E t \in Tasks : \/ R!NotSent(t) \/ R!CallBreaks(t) \/ R!CallFails(t)
                            \/ R!ReadHeader(t) \/ R!ReadFrame(t) \/ R!ReadEnd(t)
  BY <1>1, ClientSteps
<1>2. CASE \E t \in Tasks :
             R!Accept(t) \/ R!Generate(t) \/ R!Complete(t) \/ R!RunnerFails(t) \/ R!AgentDies(t)
  BY <1>2, AgentSteps
<1>3. CASE R!EndRun
  <2>1. UNCHANGED <<result, wire, agent>>
    BY <1>3 DEF R!EndRun, R!callVars, R!agentVars
  <2>2. outcome' = IF marked THEN "cancelled" ELSE IF live THEN outcome ELSE "disconnected"
    BY <1>3 DEF R!EndRun
  <2> QED BY <2>1, <2>2 DEF StreamInv, StreamTypes, DoneIsLast, BrokenStreamReported, HasDone
<1>4. CASE \/ \E t \in Tasks : R!Send(t) \/ R!RegisterRunTask(t) \/ R!NoticeDisconnect(t)
           \/ R!ReaderLeaves \/ R!WatchRunCancel
           \/ \E c \in Cancels : R!RequestRunCancel(c) \/ R!Answering(c)
           \/ UNCHANGED R!vars
  <2>1. UNCHANGED <<outcome, result, wire, agent>>
    BY <1>4 DEF R!Send, R!RegisterRunTask, R!NoticeDisconnect, R!ReaderLeaves, R!WatchRunCancel,
                R!RequestRunCancel, R!Answering, R!CancelRun, R!ListRunTasks, R!AnswerCancel, R!CancelTask,
                R!CancelTaskFails, R!vars, R!runVars, R!callVars, R!agentVars
  <2> QED BY <2>1 DEF StreamInv, StreamTypes, DoneIsLast, BrokenStreamReported, HasDone
<1> QED BY <1>1, <1>2, <1>3, <1>4 DEF R!Next, R!Call

LEMMA StreamInit == R!Init => StreamInv
<1> SUFFICES ASSUME R!Init PROVE StreamInv
  OBVIOUS
<1>1. wire \in [Tasks -> Seq(Frames)] /\ \A t \in Tasks : ~ HasDone(wire[t])
  BY DEF R!Init, HasDone
<1> QED BY <1>1 DEF R!Init, StreamInv, StreamTypes, DoneIsLast, BrokenStreamReported

\* client.go:411: in a run that nothing has cut, a task that the executor counts as
\* done was answered to the end by its agent, whatever breaks, dies or is cancelled.
THEOREM BrokenStream == R!Spec => []BrokenStreamReported
<1>1. StreamInv => BrokenStreamReported
  BY DEF StreamInv
<1> QED BY <1>1, StreamInit, StreamStep, PTL DEF R!Spec

-----------------------------------------------------------------------------
(* What a cancel request was told stands *)

StoreTypes ==
  /\ agent \in [Tasks -> {"none", "generating", "answered", "over", "dead"}]
  /\ store \in [Tasks -> R!Terminal \cup {"none", "running"}]
  /\ told \in [Cancels -> [Tasks -> R!Terminal \cup {"none"}]]

KnownTasks ==
  \A t \in Tasks :
    /\ agent[t] = "none" => store[t] = "none" /\ \A c \in Cancels : told[c][t] = "none"
    /\ agent[t] \in {"generating", "answered"} => store[t] # "none"

StoreInv == StoreTypes /\ KnownTasks /\ CancelAnswerStands

LEMMA StoreStep == StoreInv /\ [R!Next]_(R!vars) => StoreInv'
<1> SUFFICES ASSUME StoreInv, [R!Next]_(R!vars) PROVE StoreInv'
  OBVIOUS
<1> USE DEF StoreInv, StoreTypes, KnownTasks, CancelAnswerStands, R!Terminal
<1>1. CASE \E t \in Tasks : R!Accept(t)
  BY <1>1 DEF R!Accept, R!cancelVars
<1>2. CASE \E t \in Tasks : R!Generate(t)
  BY <1>2 DEF R!Generate, R!cancelVars
<1>3. CASE \E t \in Tasks : R!Complete(t)
  BY <1>3 DEF R!Complete, R!Settled, R!cancelVars
<1>4. CASE \E t \in Tasks : R!RunnerFails(t)
  BY <1>4 DEF R!RunnerFails, R!Settled, R!cancelVars
<1>5. CASE \E t \in Tasks : R!AgentDies(t)
  BY <1>5 DEF R!AgentDies, R!cancelVars
<1>6. CASE \E c \in Cancels, t \in Tasks : R!CancelTask(c, t)
  <2> PICK c \in Cancels, t \in Tasks : R!CancelTask(c, t)
    BY <1>6
  <2>1. /\ store' = IF store[t] = "none" THEN store ELSE R!Settled(t, "cancelled")
        /\ told' = [told EXCEPT ![c][t] = store'[t]]
        /\ UNCHANGED agent
    BY DEF R!CancelTask
  <2>2. /\ store' \in [Tasks -> R!Terminal \cup {"none", "running"}]
        /\ \A u \in Tasks : store[u] \in R!Terminal \cup {"none"} => store'[u] = store[u]
        /\ store'[t] \in R!Terminal \cup {"none"}
        /\ store'[t] = "none" <=> store[t] = "none"
        /\ \A u \in Tasks \ {t} : store'[u] = store[u]
    BY <2>1 DEF R!Settled
  <2>3. /\ told' \in [Cancels -> [Tasks -> R!Terminal \cup {"none"}]]
        /\ told'[c][t] = store'[t]
        /\ \A d \in Cancels, u \in Tasks : d # c \/ u # t => told'[d][u] = told[d][u]
    BY <2>1, <2>2
  <2>4. StoreTypes'
    BY <2>1, <2>2, <2>3
  <2>5. KnownTasks'
    BY <2>1, <2>2, <2>3
  <2>6. CancelAnswerStands'
    <3> SUFFICES ASSUME NEW d \in Cancels, NEW u \in Tasks, told'[d][u] # "none"
                 PROVE  store'[u] \in {told'[d][u], "none"}
      OBVIOUS
    <3>1. CASE d = c /\ u = t
      BY <2>3, <3>1
    <3>2. CASE d # c \/ u # t
      <4>1. told'[d][u] = told[d][u]
        BY <2>3, <3>2
      <4>2. store[u] \in {told[d][u], "none"} /\ told[d][u] \in R!Terminal
        BY <4>1
      <4> QED BY <2>2, <4>1, <4>2
    <3> QED BY <3>1, <3>2
  <2> QED BY <2>4, <2>5, <2>6
<1>7. CASE \/ \E t \in Tasks : R!Call(t) \/ R!CallFails(t) \/ R!NoticeDisconnect(t)
           \/ R!EndRun \/ R!ReaderLeaves \/ R!WatchRunCancel
           \/ \E c \in Cancels : \/ R!RequestRunCancel(c) \/ R!CancelRun(c) \/ R!ListRunTasks(c) \/ R!AnswerCancel(c)
                                 \/ \E t \in Tasks : R!CancelTaskFails(c, t)
           \/ UNCHANGED R!vars
  <2>1. UNCHANGED <<agent, store, told>>
    BY <1>7 DEF R!Call, R!Send, R!NotSent, R!ReadHeader, R!RegisterRunTask, R!ReadFrame, R!ReadEnd, R!CallBreaks,
                R!CallFails, R!Over, R!NoticeDisconnect, R!EndRun, R!ReaderLeaves, R!WatchRunCancel,
                R!RequestRunCancel, R!CancelRun, R!ListRunTasks, R!AnswerCancel, R!CancelTaskFails,
                R!vars, R!agentVars, R!cancelVars
  <2> QED BY <2>1
<1> QED BY <1>1, <1>2, <1>3, <1>4, <1>5, <1>6, <1>7 DEF R!Next, R!Answering

LEMMA StoreInit == R!Init => StoreInv
BY DEF R!Init, StoreInv, StoreTypes, KnownTasks, CancelAnswerStands, R!Terminal

\* task_store.go:122: what a cancel request was told of a task stays true while the
\* task's agent lives, for any number of requests and answers under way.
THEOREM CancelAnswer == R!Spec => []CancelAnswerStands
<1>1. StoreInv => CancelAnswerStands
  BY DEF StoreInv
<1> QED BY <1>1, StoreInit, StoreStep, PTL DEF R!Spec
=============================================================================
