------------------------- MODULE ToolDispatchProofs -------------------------
(***************************************************************************)
(* Proofs about the tool broker, for any attempts, calls, approvals and    *)
(* bounds.                                                                 *)
(*                                                                         *)
(* Two parts of the inductive invariant carry the argument.  TokenBound:   *)
(* no attempt and no dispatched call has a fencing version above the run's,*)
(* so a write that passes the fencing test has the highest one.  RunsAlone:*)
(* while a write has no final result, at most one attempt has leave to run *)
(* it, and only before its first run; Dispatch alone gives that leave, and *)
(* only to a call that no attempt had before.                              *)
(***************************************************************************)
EXTENDS ToolDispatch, SequenceTheorems, TLAPS

-----------------------------------------------------------------------------
(* The inductive invariant *)

\* A write is authorized with an approval.
ConsentGiven == \A a \in Attempts : pc[a] = "authorize" /\ Write(a) => consent[a] \in Approvals

TokenBound ==
  /\ \A a \in Attempts : token[a] <= fencing
  /\ \A c \in Writes : call[c].fencing <= fencing

\* The history holds calls that are in the table.
DispatchedCalls == \A i \in DOMAIN dispatched : call[dispatched[i]].status # "none"

\* Attempts with leave to run the tool of a call.
MayRun(a, c) == pc[a] = "run" /\ CallOf[a] = c

RunsAlone ==
  \A c \in Writes : call[c].status # "final" =>
    /\ \A a, b \in Attempts : MayRun(a, c) /\ MayRun(b, c) => a = b
    /\ \A a \in Attempts : MayRun(a, c) => call[c].status # "none" /\ runs[c] = 0
    /\ call[c].status = "none" => runs[c] = 0

IInv ==
  /\ TypeOK
  /\ ConsentGiven
  /\ ConsentSpentWithItsCall
  /\ TokenBound
  /\ DispatchedCalls
  /\ DispatchFollowsLease
  /\ RunsAlone
  /\ NoBlindRepeat

-----------------------------------------------------------------------------
(* What a step does to each table *)

LEMMA CallFacts ==
  ASSUME NEW a \in Attempts
  PROVE  CallOf[a] \in Calls /\ (Write(a) <=> CallOf[a] \in Writes)
BY DEF Calls, Write

LEMMA WriteFacts ==
  ASSUME TypeOK, NEW c \in Writes
  PROVE  /\ c \in Calls
         /\ call[c].status \in {"none", "dispatched", "unknown", "final"}
         /\ call[c].approval \in Approvals \union {NoApproval}
         /\ call[c].fencing \in 0 .. MaxFencing
         /\ runs[c] \in Nat
BY DEF TypeOK, Writes

LEMMA CallEffect ==
  ASSUME [Next]_vars
  PROVE  \/ UNCHANGED <<call, dispatched>>
         \/ \E a \in Attempts : Dispatch(a)
         \/ \E a \in Attempts : UNCHANGED dispatched /\ \E s \in {"unknown", "final"} : Record(CallOf[a], s)
<1>1. CASE UNCHANGED vars
  BY <1>1 DEF vars, ledgerVars
<1>2. ASSUME NEW p \in Approvals, CreateApproval(p) \/ Expires(p) PROVE UNCHANGED <<call, dispatched>>
  BY <1>2 DEF CreateApproval, Expires
<1>3. ASSUME NEW s \in {"paused", "completed"}, WriteState(s) PROVE UNCHANGED <<call, dispatched>>
  BY <1>3 DEF WriteState
<1>4. ASSUME AcquireLease \/ Resume PROVE UNCHANGED <<call, dispatched>>
  BY <1>4 DEF AcquireLease, Resume
<1>5. ASSUME NEW a \in Attempts, NEW p \in Approvals \union {NoApproval}, Request(a, p)
      PROVE  UNCHANGED <<call, dispatched>>
  BY <1>5 DEF Request, ledgerVars
<1>6. ASSUME NEW a \in Attempts, Broker(a), ~ Dispatch(a), ~ MarkUnknown(a)
      PROVE  UNCHANGED <<call, dispatched>>
  BY <1>6 DEF Broker, Exhausted, SetBudget, RefuseDispatch, AlreadyDispatched, Unknown, FindOpen,
              Replay, ledgerVars
<1>7. ASSUME NEW a \in Attempts, MarkUnknown(a) \/ Report(a)
      PROVE  UNCHANGED dispatched /\ \E s \in {"unknown", "final"} : Record(CallOf[a], s)
  BY <1>7 DEF MarkUnknown, Report
<1>8. ASSUME NEW a \in Attempts, RunTool(a) \/ Dies(a) PROVE UNCHANGED <<call, dispatched>>
  BY <1>8 DEF RunTool, Dies, ledgerVars
<1> QED BY <1>1, <1>2, <1>3, <1>4, <1>5, <1>6, <1>7, <1>8 DEF Next, Agent

LEMMA ApprovalEffect ==
  ASSUME [Next]_vars
  PROVE  \/ UNCHANGED approval
         \/ \E p \in Approvals : CreateApproval(p) \/ Expires(p)
         \/ \E a \in Attempts : Dispatch(a)
<1>1. CASE UNCHANGED vars
  BY <1>1 DEF vars, ledgerVars
<1>2. ASSUME NEW s \in {"paused", "completed"}, WriteState(s) PROVE UNCHANGED approval
  BY <1>2 DEF WriteState
<1>3. ASSUME AcquireLease \/ Resume PROVE UNCHANGED approval
  BY <1>3 DEF AcquireLease, Resume
<1>4. ASSUME NEW a \in Attempts, NEW p \in Approvals \union {NoApproval}, Request(a, p)
      PROVE  UNCHANGED approval
  BY <1>4 DEF Request, ledgerVars
<1>5. ASSUME NEW a \in Attempts, Broker(a), ~ Dispatch(a) PROVE UNCHANGED approval
  BY <1>5 DEF Broker, Exhausted, SetBudget, RefuseDispatch, AlreadyDispatched, Unknown, FindOpen,
              MarkUnknown, Replay, ledgerVars
<1>6. ASSUME NEW a \in Attempts, Agent(a) PROVE UNCHANGED approval
  BY <1>6 DEF Agent, RunTool, Report, Dies, ledgerVars
<1> QED BY <1>1, <1>2, <1>3, <1>4, <1>5, <1>6 DEF Next

\* The fencing version never falls, and an attempt gets the current one.
LEMMA FencingEffect ==
  ASSUME TypeOK, [Next]_vars
  PROVE  /\ fencing' \in Nat /\ fencing <= fencing'
         /\ \A a \in Attempts : token'[a] \in {token[a], 0, fencing'}
<1> USE DEF TypeOK
<1>1. CASE UNCHANGED vars
  BY <1>1 DEF vars, ledgerVars, attemptVars
<1>2. ASSUME NEW p \in Approvals, CreateApproval(p) \/ Expires(p)
      PROVE  UNCHANGED fencing /\ UNCHANGED token
  BY <1>2 DEF CreateApproval, Expires, attemptVars
<1>3. ASSUME NEW s \in {"paused", "completed"}, WriteState(s)
      PROVE  UNCHANGED fencing /\ UNCHANGED token
  BY <1>3 DEF WriteState, attemptVars
<1>4. CASE AcquireLease
  BY <1>4 DEF AcquireLease, attemptVars
<1>5. CASE Resume
  BY <1>5 DEF Resume, attemptVars
<1>6. ASSUME NEW a \in Attempts, NEW p \in Approvals \union {NoApproval}, Request(a, p)
      PROVE  UNCHANGED fencing /\ \A b \in Attempts : token'[b] \in {token[b], fencing'}
  BY <1>6 DEF Request, ledgerVars
<1>7. ASSUME NEW a \in Attempts, Broker(a)
      PROVE  UNCHANGED fencing /\ \A b \in Attempts : token'[b] \in {token[b], 0}
  BY <1>7 DEF Broker, Exhausted, SetBudget, Dispatch, RefuseDispatch, AlreadyDispatched, Unknown,
              FindOpen, MarkUnknown, Replay, Refuse, Leave, ledgerVars
<1>8. ASSUME NEW a \in Attempts, Agent(a) PROVE UNCHANGED fencing /\ UNCHANGED token
  BY <1>8 DEF Agent, RunTool, Report, Dies, ledgerVars
<1> QED BY <1>1, <1>2, <1>3, <1>4, <1>5, <1>6, <1>7, <1>8 DEF Next

\* Only Dispatch gives leave to run a write that has no final result.
LEMMA LeaveEffect ==
  ASSUME TypeOK, [Next]_vars, NEW a \in Attempts, Write(a), pc'[a] = "run", pc[a] # "run"
  PROVE  Dispatch(a) \/ (call[CallOf[a]].status = "final" /\ UNCHANGED call)
<1> USE DEF TypeOK
<1>1. CASE UNCHANGED vars
  BY <1>1 DEF vars, attemptVars
<1>2. ASSUME NEW p \in Approvals, CreateApproval(p) \/ Expires(p) PROVE UNCHANGED pc
  BY <1>2 DEF CreateApproval, Expires, attemptVars
<1>3. ASSUME NEW s \in {"paused", "completed"}, WriteState(s) PROVE UNCHANGED pc
  BY <1>3 DEF WriteState, attemptVars
<1>4. ASSUME AcquireLease \/ Resume PROVE UNCHANGED pc
  BY <1>4 DEF AcquireLease, Resume, attemptVars
<1>5. ASSUME NEW b \in Attempts, NEW p \in Approvals \union {NoApproval}, Request(b, p)
      PROVE  pc'[a] \in {pc[a], "authorize"}
  BY <1>5 DEF Request, Goto
<1>6. ASSUME NEW b \in Attempts, Exhausted(b) \/ RefuseDispatch(b) \/ AlreadyDispatched(b)
                \/ Unknown(b) \/ FindOpen(b) \/ MarkUnknown(b)
      PROVE  pc'[a] \in {pc[a], "over", "recover", "mark"}
  BY <1>6 DEF Exhausted, RefuseDispatch, AlreadyDispatched, Unknown, FindOpen, MarkUnknown, Refuse,
              Leave, Goto
<1>7. ASSUME NEW b \in Attempts, SetBudget(b) PROVE pc'[a] \in {pc[a], "over"}
  BY <1>7 DEF SetBudget, Refuse, Leave, Goto
<1>8. ASSUME NEW b \in Attempts, Dispatch(b) PROVE pc'[a] = pc[a] \/ a = b
  BY <1>8 DEF Dispatch, Leave, Goto
<1>9. ASSUME NEW b \in Attempts, Replay(b)
      PROVE  pc'[a] = pc[a] \/ (call[CallOf[a]].status = "final" /\ UNCHANGED call)
  BY <1>9 DEF Replay, Goto, ledgerVars
<1>10. ASSUME NEW b \in Attempts, Agent(b) PROVE pc'[a] \in {pc[a], "over", "report"}
  BY <1>10 DEF Agent, RunTool, Report, Dies, Goto
<1> QED BY <1>1, <1>2, <1>3, <1>4, <1>5, <1>6, <1>7, <1>8, <1>9, <1>10 DEF Next, Broker

LEMMA RunsEffect ==
  ASSUME [Next]_vars
  PROVE  UNCHANGED runs \/ \E a \in Attempts : RunTool(a)
<1>1. CASE UNCHANGED vars
  BY <1>1 DEF vars
<1>2. ASSUME NEW p \in Approvals, CreateApproval(p) \/ Expires(p) PROVE UNCHANGED runs
  BY <1>2 DEF CreateApproval, Expires
<1>3. ASSUME NEW s \in {"paused", "completed"}, WriteState(s) PROVE UNCHANGED runs
  BY <1>3 DEF WriteState
<1>4. ASSUME AcquireLease \/ Resume PROVE UNCHANGED runs
  BY <1>4 DEF AcquireLease, Resume
<1>5. ASSUME NEW a \in Attempts, NEW p \in Approvals \union {NoApproval}, Request(a, p)
      PROVE  UNCHANGED runs
  BY <1>5 DEF Request
<1>6. ASSUME NEW a \in Attempts, Broker(a) PROVE UNCHANGED runs
  BY <1>6 DEF Broker, Exhausted, SetBudget, Dispatch, RefuseDispatch, AlreadyDispatched, Unknown,
              FindOpen, MarkUnknown, Replay
<1>7. ASSUME NEW a \in Attempts, Report(a) \/ Dies(a) PROVE UNCHANGED runs
  BY <1>7 DEF Report, Dies
<1> QED BY <1>1, <1>2, <1>3, <1>4, <1>5, <1>6, <1>7 DEF Next, Agent

-----------------------------------------------------------------------------
(* The tables hold values of their types *)

LEMMA InitIInv == Init => IInv
<1> SUFFICES ASSUME Init PROVE IInv
  OBVIOUS
<1> USE DEF Init
<1>1. TypeOK
  <2>1. toolCalls \in 0 .. Limit /\ fencing \in 1 .. MaxFencing
    BY ToolAssumption
  <2>2. /\ token \in [Attempts -> 0 .. MaxFencing] /\ budget \in [Attempts -> 0 .. Limit]
        /\ call \in [Writes -> [status : {"none", "dispatched", "unknown", "final"},
                              approval : Approvals \union {NoApproval}, fencing : 0 .. MaxFencing]]
    BY ToolAssumption
  <2>3. dispatched \in Seq(Writes) /\ runs \in [Calls -> Nat]
    OBVIOUS
  <2> QED BY <2>1, <2>2, <2>3 DEF TypeOK
<1>2. ConsentGiven /\ DispatchedCalls /\ DispatchFollowsLease
  BY DEF ConsentGiven, DispatchedCalls, DispatchFollowsLease
<1>3. ConsentSpentWithItsCall
  BY ToolAssumption DEF ConsentSpentWithItsCall
<1>4. TokenBound
  BY DEF TokenBound
<1>5. RunsAlone /\ NoBlindRepeat
  BY DEF RunsAlone, NoBlindRepeat, MayRun, Writes
<1> QED BY <1>1, <1>2, <1>3, <1>4, <1>5 DEF IInv

\* What Leave makes of the state of an attempt.
LEMMA LeaveType ==
  ASSUME TypeOK, NEW a \in Attempts, NEW l \in {"recover", "mark", "run", "over"}, Leave(a, l)
  PROVE  /\ pc' \in [Attempts -> {"idle", "authorize", "recover", "mark", "run", "report", "over"}]
         /\ token' \in [Attempts -> 0 .. MaxFencing] /\ budget' \in [Attempts -> 0 .. Limit]
         /\ consent' \in [Attempts -> Approvals \union {NoApproval}]
BY ToolAssumption DEF TypeOK, Leave, Goto

LEMMA RecordType ==
  ASSUME TypeOK, NEW c \in Writes, NEW s \in {"unknown", "final"}, Record(c, s)
  PROVE  call' \in [Writes -> [status : {"none", "dispatched", "unknown", "final"},
                               approval : Approvals \union {NoApproval}, fencing : 0 .. MaxFencing]]
BY DEF TypeOK, Record

LEMMA TypeStep ==
  ASSUME IInv, [Next]_vars
  PROVE  TypeOK'
<1> USE DEF IInv
<1>1. CASE UNCHANGED vars
  BY <1>1 DEF TypeOK, vars, ledgerVars, attemptVars
<1>2. ASSUME NEW p \in Approvals, CreateApproval(p) \/ Expires(p) PROVE TypeOK'
  BY <1>2 DEF TypeOK, CreateApproval, Expires, attemptVars
<1>3. ASSUME NEW s \in {"paused", "completed"}, WriteState(s) PROVE TypeOK'
  BY <1>3, ToolAssumption DEF TypeOK, WriteState, attemptVars
<1>4. CASE AcquireLease
  BY <1>4, ToolAssumption DEF TypeOK, AcquireLease, attemptVars
<1>5. CASE Resume
  BY <1>5, ToolAssumption DEF TypeOK, Resume, attemptVars
<1>6. ASSUME NEW a \in Attempts, NEW p \in Approvals \union {NoApproval}, Request(a, p)
      PROVE  TypeOK'
  BY <1>6, ToolAssumption DEF TypeOK, Request, Goto, ledgerVars
<1>7. ASSUME NEW a \in Attempts, Broker(a) PROVE TypeOK'
  <2>1. CASE Exhausted(a) \/ Unknown(a) \/ RefuseDispatch(a)
    <3>1. Leave(a, "over")
      BY <2>1 DEF Exhausted, Unknown, RefuseDispatch, Refuse
    <3>2. UNCHANGED <<ledgerVars, dispatched, runs>>
      BY <2>1 DEF Exhausted, Unknown, RefuseDispatch
    <3> QED BY <3>1, <3>2, LeaveType DEF TypeOK, ledgerVars
  <2>2. CASE AlreadyDispatched(a)
    <3>1. Leave(a, "recover") /\ UNCHANGED <<ledgerVars, dispatched, runs>>
      BY <2>2 DEF AlreadyDispatched
    <3> QED BY <3>1, LeaveType DEF TypeOK, ledgerVars
  <2>3. CASE FindOpen(a)
    <3>1. Leave(a, "mark") /\ UNCHANGED <<ledgerVars, dispatched, runs>>
      BY <2>3 DEF FindOpen
    <3> QED BY <3>1, LeaveType DEF TypeOK, ledgerVars
  <2>4. CASE SetBudget(a)
    <3>1. \E l \in {"run", "over"} : Leave(a, l)
      BY <2>4 DEF SetBudget, Refuse
    <3>2. budget[a] \in 0 .. Limit /\ budget[a] + 1 <= Limit /\ Limit \in Nat
      BY <2>4, ToolAssumption DEF SetBudget, HasBudget, TypeOK
    <3>3. toolCalls' \in 0 .. Limit
      BY <2>4, <3>2 DEF SetBudget, TypeOK
    <3>4. UNCHANGED <<approval, call, status, fencing, dispatched, runs>>
      BY <2>4 DEF SetBudget
    <3> QED BY <3>1, <3>3, <3>4, LeaveType DEF TypeOK
  <2>5. CASE Dispatch(a)
    <3> DEFINE c == CallOf[a]
    <3>1. c \in Writes /\ Leave(a, "run") /\ dispatched' = Append(dispatched, c)
      BY <2>5 DEF Dispatch, Write
    <3>2. budget[a] \in 0 .. Limit /\ budget[a] + 1 <= Limit /\ Limit \in Nat
      BY <2>5, ToolAssumption DEF Dispatch, HasBudget, TypeOK
    <3>3. toolCalls' \in 0 .. Limit
      BY <2>5, <3>2 DEF Dispatch
    <3>4. consent[a] \in Approvals
      BY <2>5, <3>1 DEF Dispatch, ConsentGiven, Write
    <3>5. approval' \in [Approvals -> {"none", "pending", "expired", "consumed"}]
      BY <2>5, <3>4 DEF Dispatch, TypeOK
    <3>6. call' = [call EXCEPT ![c] = [status |-> "dispatched", approval |-> consent[a],
                                       fencing |-> token[a]]]
      BY <2>5 DEF Dispatch
    <3>7. call' \in [Writes -> [status : {"none", "dispatched", "unknown", "final"},
                                approval : Approvals \union {NoApproval}, fencing : 0 .. MaxFencing]]
      BY <3>4, <3>6 DEF TypeOK
    <3>8. dispatched' \in Seq(Writes)
      BY <3>1 DEF TypeOK
    <3>9. UNCHANGED <<status, fencing, runs>>
      BY <2>5 DEF Dispatch
    <3> QED BY <3>1, <3>3, <3>5, <3>7, <3>8, <3>9, LeaveType DEF TypeOK
  <2>6. CASE MarkUnknown(a)
    <3>1. Leave(a, "over") /\ Record(CallOf[a], "unknown")
      BY <2>6 DEF MarkUnknown, Refuse
    <3>2. CASE CallOf[a] \in Writes
      BY <2>6, <3>1, <3>2, LeaveType, RecordType DEF TypeOK, MarkUnknown
    <3>3. CASE CallOf[a] \notin Writes
      <4>1. call' \in [Writes -> [status : {"none", "dispatched", "unknown", "final"},
                                  approval : Approvals \union {NoApproval}, fencing : 0 .. MaxFencing]]
        BY <3>1, <3>3 DEF Record, TypeOK
      <4> QED BY <2>6, <3>1, <4>1, LeaveType DEF TypeOK, MarkUnknown
    <3> QED BY <3>2, <3>3
  <2>7. CASE Replay(a)
    BY <2>7 DEF TypeOK, Replay, Goto, ledgerVars
  <2> QED BY <1>7, <2>1, <2>2, <2>3, <2>4, <2>5, <2>6, <2>7 DEF Broker
<1>8. ASSUME NEW a \in Attempts, Agent(a) PROVE TypeOK'
  <2>1. CASE RunTool(a)
    <3>0. CallOf[a] \in Calls /\ runs[CallOf[a]] \in Nat
      BY CallFacts DEF TypeOK
    <3>1. runs' \in [Calls -> Nat]
      BY <2>1, <3>0 DEF RunTool, TypeOK
    <3>2. \E l \in {"report", "over"} : pc' = [pc EXCEPT ![a] = l]
      BY <2>1 DEF RunTool, Goto
    <3>3. UNCHANGED <<approval, call, toolCalls, status, fencing, token, consent, budget, dispatched>>
      BY <2>1 DEF RunTool, ledgerVars
    <3> QED BY <3>1, <3>2, <3>3 DEF TypeOK
  <2>2. CASE Report(a)
    <3>1. call' \in [Writes -> [status : {"none", "dispatched", "unknown", "final"},
                                approval : Approvals \union {NoApproval}, fencing : 0 .. MaxFencing]]
      BY <2>2 DEF Report, Record, TypeOK
    <3> QED BY <2>2, <3>1 DEF TypeOK, Report, Goto
  <2>3. CASE Dies(a)
    BY <2>3 DEF TypeOK, Dies, Goto, ledgerVars
  <2> QED BY <1>8, <2>1, <2>2, <2>3 DEF Agent
<1> QED BY <1>1, <1>2, <1>3, <1>4, <1>5, <1>6, <1>7, <1>8 DEF Next

-----------------------------------------------------------------------------
(* Every step preserves the other parts *)

LEMMA ConsentGivenStep ==
  ASSUME IInv, [Next]_vars
  PROVE  ConsentGiven'
<1> USE DEF IInv, ConsentGiven, TypeOK, Write
<1>1. CASE UNCHANGED vars
  BY <1>1 DEF vars, attemptVars
<1>2. ASSUME NEW p \in Approvals, CreateApproval(p) \/ Expires(p) PROVE ConsentGiven'
  BY <1>2 DEF CreateApproval, Expires, attemptVars
<1>3. ASSUME NEW s \in {"paused", "completed"}, WriteState(s) PROVE ConsentGiven'
  BY <1>3 DEF WriteState, attemptVars
<1>4. ASSUME AcquireLease \/ Resume PROVE ConsentGiven'
  BY <1>4 DEF AcquireLease, Resume, attemptVars
<1>5. ASSUME NEW a \in Attempts, NEW p \in Approvals \union {NoApproval}, Request(a, p)
      PROVE  ConsentGiven'
  BY <1>5 DEF Request, Goto
<1>6. ASSUME NEW a \in Attempts, Broker(a) PROVE ConsentGiven'
  <2>1. CASE Replay(a)
    BY <2>1 DEF Replay, Goto
  <2>2. CASE ~ Replay(a)
    <3>1. \E l \in {"recover", "mark", "run", "over"} : Leave(a, l)
      BY <1>6, <2>2 DEF Broker, Exhausted, SetBudget, Dispatch, RefuseDispatch, AlreadyDispatched,
                        Unknown, FindOpen, MarkUnknown, Refuse
    <3> QED BY <3>1 DEF Leave, Goto
  <2> QED BY <2>1, <2>2
<1>7. ASSUME NEW a \in Attempts, Agent(a) PROVE ConsentGiven'
  <2>1. \E l \in {"report", "over"} : Goto(a, l) /\ UNCHANGED consent
    BY <1>7 DEF Agent, RunTool, Report, Dies
  <2> QED BY <2>1 DEF Goto
<1> QED BY <1>1, <1>2, <1>3, <1>4, <1>5, <1>6, <1>7 DEF Next

\* What Dispatch finds and leaves in the table of calls.
LEMMA DispatchFacts ==
  ASSUME IInv, NEW a \in Attempts, Dispatch(a)
  PROVE  /\ CallOf[a] \in Writes /\ consent[a] \in Approvals /\ token[a] = fencing
         /\ approval[consent[a]] = "pending" /\ ConsentTo[consent[a]] = CallOf[a]
         /\ call[CallOf[a]].status = "none" /\ call[CallOf[a]].approval = NoApproval
         /\ \A c \in Writes : c # CallOf[a] => call'[c] = call[c]
         /\ call'[CallOf[a]].status = "dispatched" /\ call'[CallOf[a]].approval = consent[a]
         /\ call'[CallOf[a]].fencing = token[a]
<1>1. CallOf[a] \in Writes /\ consent[a] \in Approvals
  BY DEF IInv, ConsentGiven, Dispatch, Write
<1>2. /\ token[a] = fencing /\ approval[consent[a]] = "pending"
      /\ ConsentTo[consent[a]] = CallOf[a] /\ call[CallOf[a]].status = "none"
  BY DEF Dispatch, MayDispatch, Consents, InForce, Duplicate
<1>3. call[CallOf[a]].approval = NoApproval
  BY <1>1, <1>2 DEF IInv, ConsentSpentWithItsCall
<1>4. /\ \A c \in Writes : c # CallOf[a] => call'[c] = call[c]
      /\ call'[CallOf[a]].status = "dispatched" /\ call'[CallOf[a]].approval = consent[a]
      /\ call'[CallOf[a]].fencing = token[a]
  BY <1>1 DEF Dispatch, IInv, TypeOK
<1> QED BY <1>1, <1>2, <1>3, <1>4

\* A result is recorded in the status of a call that has none.
LEMMA RecordFacts ==
  ASSUME TypeOK, NEW a \in Attempts, NEW s \in {"unknown", "final"}, Record(CallOf[a], s),
         NEW c \in Writes
  PROVE  /\ call'[c].approval = call[c].approval /\ call'[c].fencing = call[c].fencing
         /\ \/ call'[c].status = call[c].status
            \/ call[c].status \in {"dispatched", "unknown"} /\ call'[c].status = s
BY DEF TypeOK, Record

LEMMA ConsentSpentStep ==
  ASSUME IInv, [Next]_vars
  PROVE  ConsentSpentWithItsCall'
<1> USE DEF IInv, ConsentSpentWithItsCall
<1>0. \A p \in Approvals : ConsentTo[p] \in Writes /\ p # NoApproval
  BY ToolAssumption
<1>1. ASSUME NEW a \in Attempts, Dispatch(a) PROVE ConsentSpentWithItsCall'
  <2>1. \A p \in Approvals : approval'[p] = IF p = consent[a] THEN "consumed" ELSE approval[p]
    BY <1>1, DispatchFacts DEF Dispatch, TypeOK
  <2>2. /\ CallOf[a] \in Writes /\ consent[a] \in Approvals
        /\ ConsentTo[consent[a]] = CallOf[a] /\ call[CallOf[a]].approval = NoApproval
        /\ \A c \in Writes : c # CallOf[a] => call'[c] = call[c]
        /\ call'[CallOf[a]].approval = consent[a] /\ call'[CallOf[a]].status = "dispatched"
    BY <1>1, DispatchFacts
  <2>3. ASSUME NEW p \in Approvals
        PROVE  approval'[p] = "consumed" <=> call'[ConsentTo[p]].approval = p
    BY <1>0, <2>1, <2>2, <2>3
  <2>4. ASSUME NEW c \in Writes
        PROVE  call'[c].status # "none" <=> call'[c].approval # NoApproval
    BY <1>0, <2>2, <2>4
  <2> QED BY <2>3, <2>4
<1>2. CASE \A a \in Attempts : ~ Dispatch(a)
  <2>1. \A p \in Approvals : approval'[p] = "consumed" <=> approval[p] = "consumed"
    BY <1>2, ApprovalEffect DEF CreateApproval, Expires, TypeOK
  <2>2. \A c \in Writes : /\ call'[c].approval = call[c].approval
                          /\ call'[c].status = "none" <=> call[c].status = "none"
    <3>1. CASE UNCHANGED call
      BY <3>1
    <3>2. ASSUME NEW a \in Attempts, NEW s \in {"unknown", "final"}, Record(CallOf[a], s)
          PROVE  \A c \in Writes : /\ call'[c].approval = call[c].approval
                                   /\ call'[c].status = "none" <=> call[c].status = "none"
      BY <3>2, RecordFacts
    <3> QED BY <1>2, <3>1, <3>2, CallEffect
  <2> QED BY <1>0, <2>1, <2>2
<1> QED BY <1>1, <1>2

LEMMA TokenBoundStep ==
  ASSUME IInv, [Next]_vars
  PROVE  TokenBound'
<1> USE DEF IInv
<1>0. fencing \in Nat
  BY ToolAssumption DEF TypeOK
<1>1. fencing' \in Nat /\ fencing <= fencing' /\ \A a \in Attempts : token'[a] \in {token[a], 0, fencing'}
  BY FencingEffect
<1>2. ASSUME NEW a \in Attempts PROVE token'[a] <= fencing'
  <2>1. token[a] <= fencing /\ token[a] \in Nat
    BY ToolAssumption DEF TokenBound, TypeOK
  <2> QED BY <1>0, <1>1, <2>1
<1>3. ASSUME NEW c \in Writes PROVE call'[c].fencing <= fencing'
  <2>1. call[c].fencing <= fencing /\ call[c].fencing \in Nat
    BY ToolAssumption, WriteFacts DEF TokenBound
  <2>2. CASE UNCHANGED call
    BY <1>0, <1>1, <2>1, <2>2
  <2>3. ASSUME NEW a \in Attempts, Dispatch(a) PROVE call'[c].fencing <= fencing'
    <3>0. /\ c # CallOf[a] => call'[c] = call[c]
          /\ token[a] = fencing /\ call'[CallOf[a]].fencing = token[a]
      BY <2>3, DispatchFacts
    <3>1. call'[c].fencing \in {call[c].fencing, fencing}
      BY <3>0
    <3> QED BY <1>0, <1>1, <2>1, <3>1
  <2>4. ASSUME NEW a \in Attempts, NEW s \in {"unknown", "final"}, Record(CallOf[a], s)
        PROVE  call'[c].fencing <= fencing'
    <3>1. call'[c].fencing = call[c].fencing
      BY <2>4, RecordFacts
    <3> QED BY <1>0, <1>1, <2>1, <3>1
  <2> QED BY <2>2, <2>3, <2>4, CallEffect
<1> QED BY <1>2, <1>3 DEF TokenBound

LEMMA DispatchedCallsStep ==
  ASSUME IInv, [Next]_vars
  PROVE  DispatchedCalls'
<1>0. TypeOK /\ DispatchedCalls /\ dispatched \in Seq(Writes)
  BY DEF IInv, TypeOK
<1>1. CASE UNCHANGED <<call, dispatched>>
  BY <1>0, <1>1 DEF DispatchedCalls
<1>2. ASSUME NEW a \in Attempts, Dispatch(a) PROVE DispatchedCalls'
  <2>1. CallOf[a] \in Writes /\ dispatched' = Append(dispatched, CallOf[a])
    BY <1>2, DispatchFacts DEF Dispatch
  <2>2. \A c \in Writes : call[c].status # "none" \/ c = CallOf[a] => call'[c].status # "none"
    BY <1>2, DispatchFacts
  <2>3. ASSUME NEW i \in DOMAIN dispatched' PROVE call'[dispatched'[i]].status # "none"
    <3>1. CASE i \in DOMAIN dispatched
      <4>1. dispatched'[i] = dispatched[i] /\ dispatched[i] \in Writes
        BY <1>0, <2>1, <3>1
      <4> QED BY <1>0, <2>2, <3>1, <4>1 DEF DispatchedCalls
    <3>2. CASE i \notin DOMAIN dispatched
      <4>1. dispatched'[i] = CallOf[a]
        BY <1>0, <2>1, <2>3, <3>2
      <4> QED BY <2>1, <2>2, <4>1
    <3> QED BY <3>1, <3>2
  <2> QED BY <2>3 DEF DispatchedCalls
<1>3. ASSUME NEW a \in Attempts, NEW s \in {"unknown", "final"}, Record(CallOf[a], s),
             UNCHANGED dispatched
      PROVE  DispatchedCalls'
  <2>1. \A c \in Writes : call[c].status # "none" => call'[c].status # "none"
    BY <1>0, <1>3, RecordFacts
  <2> QED BY <1>0, <1>3, <2>1 DEF DispatchedCalls
<1> QED BY <1>1, <1>2, <1>3, CallEffect

LEMMA DispatchOrderStep ==
  ASSUME IInv, [Next]_vars
  PROVE  DispatchFollowsLease'
<1>0. TypeOK /\ DispatchedCalls /\ DispatchFollowsLease /\ TokenBound /\ dispatched \in Seq(Writes)
  BY DEF IInv, TypeOK
<1>1. CASE UNCHANGED <<call, dispatched>>
  BY <1>0, <1>1 DEF DispatchFollowsLease
<1>2. ASSUME NEW a \in Attempts, Dispatch(a) PROVE DispatchFollowsLease'
  <2>1. CallOf[a] \in Writes /\ dispatched' = Append(dispatched, CallOf[a])
    BY <1>2, DispatchFacts DEF Dispatch
  <2>2. \A c \in Writes : call[c].status # "none" => call'[c] = call[c]
    BY <1>2, DispatchFacts
  <2>3. call'[CallOf[a]].fencing = fencing
    BY <1>2, DispatchFacts
  <2>4. ASSUME NEW i \in DOMAIN dispatched
        PROVE  /\ dispatched'[i] = dispatched[i] /\ call'[dispatched[i]] = call[dispatched[i]]
               /\ call[dispatched[i]].fencing <= fencing
    <3>1. dispatched'[i] = dispatched[i] /\ dispatched[i] \in Writes
      BY <1>0, <2>1
    <3> QED BY <1>0, <2>2, <3>1 DEF DispatchedCalls, TokenBound
  <2>5. ASSUME NEW i \in DOMAIN dispatched', NEW j \in DOMAIN dispatched', i < j
        PROVE  call'[dispatched'[i]].fencing <= call'[dispatched'[j]].fencing
    <3>1. i \in DOMAIN dispatched
      BY <1>0, <2>1, <2>5
    <3>2. CASE j \in DOMAIN dispatched
      BY <1>0, <2>4, <2>5, <3>1, <3>2 DEF DispatchFollowsLease
    <3>3. CASE j \notin DOMAIN dispatched
      <4>1. dispatched'[j] = CallOf[a]
        BY <1>0, <2>1, <2>5, <3>3
      <4> QED BY <2>3, <2>4, <3>1, <4>1
    <3> QED BY <3>2, <3>3
  <2> QED BY <2>5 DEF DispatchFollowsLease
<1>3. ASSUME NEW a \in Attempts, NEW s \in {"unknown", "final"}, Record(CallOf[a], s),
             UNCHANGED dispatched
      PROVE  DispatchFollowsLease'
  <2>1. \A c \in Writes : call'[c].fencing = call[c].fencing
    BY <1>0, <1>3, RecordFacts
  <2>2. \A i \in DOMAIN dispatched : dispatched[i] \in Writes
    BY <1>0
  <2> QED BY <1>0, <1>3, <2>1, <2>2 DEF DispatchFollowsLease
<1> QED BY <1>1, <1>2, <1>3, CallEffect

\* A final result stays, and a call in the table stays there.
LEMMA StatusEffect ==
  ASSUME IInv, [Next]_vars, NEW c \in Writes
  PROVE  \/ call'[c].status = call[c].status
         \/ \E a \in Attempts : Dispatch(a) /\ CallOf[a] = c
         \/ call[c].status \in {"dispatched", "unknown"} /\ call'[c].status \in {"unknown", "final"}
<1>0. TypeOK
  BY DEF IInv
<1>1. CASE UNCHANGED call
  BY <1>1
<1>2. ASSUME NEW a \in Attempts, Dispatch(a)
      PROVE  call'[c].status = call[c].status \/ CallOf[a] = c
  BY <1>2, DispatchFacts
<1>3. ASSUME NEW a \in Attempts, NEW s \in {"unknown", "final"}, Record(CallOf[a], s)
      PROVE  \/ call'[c].status = call[c].status
             \/ call[c].status \in {"dispatched", "unknown"} /\ call'[c].status = s
  BY <1>0, <1>3, RecordFacts
<1> QED BY <1>1, <1>2, <1>3, CallEffect

LEMMA RunsAloneStep ==
  ASSUME IInv, [Next]_vars
  PROVE  RunsAlone'
<1>0. TypeOK /\ RunsAlone
  BY DEF IInv
<1> SUFFICES ASSUME NEW c \in Writes, call'[c].status # "final"
             PROVE  /\ \A a, b \in Attempts : MayRun(a, c)' /\ MayRun(b, c)' => a = b
                    /\ \A a \in Attempts : MayRun(a, c)' => call'[c].status # "none" /\ runs'[c] = 0
                    /\ call'[c].status = "none" => runs'[c] = 0
  BY DEF RunsAlone
<1>1. call[c].status # "final"
  BY StatusEffect, DispatchFacts
<1>2. /\ \A a, b \in Attempts : MayRun(a, c) /\ MayRun(b, c) => a = b
      /\ \A a \in Attempts : MayRun(a, c) => call[c].status # "none" /\ runs[c] = 0
      /\ call[c].status = "none" => runs[c] = 0
  BY <1>0, <1>1 DEF RunsAlone
<1>3. ASSUME NEW b \in Attempts, Dispatch(b), CallOf[b] = c PROVE
        /\ call[c].status = "none" /\ call'[c].status # "none" /\ UNCHANGED runs
        /\ \A a \in Attempts : MayRun(a, c)' => a = b
  <2>1. call[c].status = "none" /\ call'[c].status # "none"
    BY <1>3, DispatchFacts
  <2>2. UNCHANGED runs
    BY <1>3 DEF Dispatch
  <2>3. ASSUME NEW a \in Attempts, MayRun(a, c)' PROVE a = b
    BY <1>0, <1>2, <1>3, <2>1, <2>3 DEF MayRun, Dispatch, Leave, Goto, TypeOK
  <2> QED BY <2>1, <2>2, <2>3
<1>4. CASE \E b \in Attempts : Dispatch(b) /\ CallOf[b] = c
  BY <1>2, <1>3, <1>4
<1>5. CASE ~ \E b \in Attempts : Dispatch(b) /\ CallOf[b] = c
  <2>1. ASSUME NEW a \in Attempts, MayRun(a, c)' PROVE MayRun(a, c)
    <3>1. Write(a)
      BY <2>1 DEF MayRun, Write
    <3>2. CASE pc[a] # "run"
      BY <1>0, <1>1, <1>5, <2>1, <3>1, <3>2, LeaveEffect DEF MayRun
    <3> QED BY <2>1, <3>2 DEF MayRun
  <2>2. call'[c].status = "none" <=> call[c].status = "none"
    BY <1>5, StatusEffect
  <2>3. CASE UNCHANGED runs
    BY <1>2, <2>1, <2>2, <2>3
  <2>4. ASSUME NEW b \in Attempts, RunTool(b), CallOf[b] # c
        PROVE  runs'[c] = runs[c]
    BY <1>0, <2>4, WriteFacts DEF RunTool, TypeOK
  <2>5. ASSUME NEW b \in Attempts, RunTool(b), CallOf[b] = c
        PROVE  MayRun(b, c) /\ ~ MayRun(b, c)'
    BY <1>0, <2>5 DEF RunTool, Goto, MayRun, TypeOK
  <2>6. CASE \E b \in Attempts : RunTool(b) /\ CallOf[b] = c
    BY <1>2, <2>1, <2>2, <2>5, <2>6
  <2>7. CASE \E b \in Attempts : RunTool(b) /\ CallOf[b] # c
    BY <1>2, <2>1, <2>2, <2>4, <2>7
  <2> QED BY <2>3, <2>6, <2>7, RunsEffect
<1> QED BY <1>4, <1>5

LEMMA NoBlindRepeatStep ==
  ASSUME IInv, [Next]_vars
  PROVE  NoBlindRepeat'
<1>0. TypeOK /\ RunsAlone /\ NoBlindRepeat
  BY DEF IInv
<1> SUFFICES ASSUME NEW c \in Writes, runs'[c] > 1 PROVE call'[c].status = "final"
  BY DEF NoBlindRepeat
<1>1. runs[c] \in Nat
  BY <1>0, WriteFacts
<1>2. call[c].status = "final" => call'[c].status = "final"
  BY StatusEffect, DispatchFacts
<1>3. CASE UNCHANGED runs
  BY <1>0, <1>2, <1>3 DEF NoBlindRepeat
<1>4. ASSUME NEW a \in Attempts, RunTool(a) PROVE call'[c].status = "final"
  <2>1. CASE CallOf[a] = c
    <3>1. MayRun(a, c) /\ runs'[c] = runs[c] + 1
      BY <1>0, <1>4, <2>1, WriteFacts DEF RunTool, MayRun, TypeOK
    <3>2. runs[c] # 0
      BY <1>1, <3>1
    <3> QED BY <1>0, <1>2, <3>1, <3>2 DEF RunsAlone
  <2>2. CASE CallOf[a] # c
    <3>1. runs'[c] = runs[c]
      BY <1>0, <1>4, <2>2, WriteFacts DEF RunTool, TypeOK
    <3> QED BY <1>0, <1>2, <3>1 DEF NoBlindRepeat
  <2> QED BY <2>1, <2>2
<1> QED BY <1>3, <1>4, RunsEffect

-----------------------------------------------------------------------------
(* The theorems of the specification *)

(* Every state of the broker and the ledger beside it satisfies IInv.        *)
THEOREM Inductive == Spec => []IInv
<1>1. IInv /\ [Next]_vars => IInv'
  BY TypeStep, ConsentGivenStep, ConsentSpentStep, TokenBoundStep, DispatchedCallsStep,
     DispatchOrderStep, RunsAloneStep, NoBlindRepeatStep DEF IInv
<1> QED BY InitIInv, <1>1, PTL DEF Spec

(* Approvals, calls, budgets and versions keep their types, and no count of  *)
(* tool calls written is above the limit, for any number of attempts.        *)
THEOREM TypeCorrect == Spec => []TypeOK
<1>1. IInv => TypeOK
  BY DEF IInv
<1> QED BY Inductive, <1>1, PTL

(* An approval is consumed exactly by the dispatch of its own call           *)
(* (ConsumeApprovalAndDispatch), whatever is refused or rolled back beside.  *)
THEOREM ConsentSpent == Spec => []ConsentSpentWithItsCall
<1>1. IInv => ConsentSpentWithItsCall
  BY DEF IInv
<1> QED BY Inductive, <1>1, PTL

(* A write without a recorded result has run at most once, for any retries,  *)
(* lost reports and results marked unknown (recoverDispatch).                *)
THEOREM WritesNotRepeatedBlindly == Spec => []NoBlindRepeat
<1>1. IInv => NoBlindRepeat
  BY DEF IInv
<1> QED BY Inductive, <1>1, PTL

(* Writes are dispatched under rising fencing versions, for any number of    *)
(* executions that displace each other.                                      *)
THEOREM DispatchesOrdered == Spec => []DispatchFollowsLease
<1>1. IInv => DispatchFollowsLease
  BY DEF IInv
<1> QED BY Inductive, <1>1, PTL
=============================================================================
