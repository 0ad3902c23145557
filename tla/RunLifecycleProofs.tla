------------------------- MODULE RunLifecycleProofs -------------------------
(***************************************************************************)
(* Proofs about the handlers of a run, for any runs, handlers, instances   *)
(* and bounds.                                                             *)
(*                                                                         *)
(* The handlers use the ledger as ExecutionLedger allows (LedgerStep), so  *)
(* what is proved there holds here (LedgerNext).  A handler that holds the *)
(* newest fencing version knows the status of its run (StatusKnown): it    *)
(* wrote it last, since whoever else had passed the fencing check would    *)
(* hold the same version, and whoever else acquired the lease a newer one. *)
(***************************************************************************)
EXTENDS RunLifecycle, TLAPS

LedgerProofs == INSTANCE ExecutionLedgerProofs

-----------------------------------------------------------------------------
(* Types *)

LocalTypes ==
  /\ pc \in [Handlers -> Active \union {"new", "done", "dead"}]
  /\ ctx \in [Handlers -> BOOLEAN]
  /\ outcome \in [Handlers -> Outcome]
  /\ cancelRequested \subseteq Runs
  /\ registry \in [Instances \X Runs ->
                     [present : BOOLEAN, cancelled : BOOLEAN, fn : SUBSET Handlers]]
  /\ cancelling \subseteq Instances \X Runs

LEMMA HandlerFacts ==
  ASSUME NEW h \in Handlers
  PROVE  h.run \in Runs /\ h.instance \in Instances /\ Key(h) \in Instances \X Runs
BY HandlersAssumption DEF Key

LEMMA GotoFacts ==
  ASSUME LocalTypes, NEW h \in Handlers, NEW l, Goto(h, l)
  PROVE  pc'[h] = l /\ \A g \in Handlers : g # h => pc'[g] = pc[g]
BY DEF LocalTypes, Goto

LEMMA GotoType ==
  ASSUME LocalTypes, NEW h \in Handlers, NEW l \in Active \union {"new", "done", "dead"}, Goto(h, l)
  PROVE  pc' \in [Handlers -> Active \union {"new", "done", "dead"}]
BY DEF LocalTypes, Goto

-----------------------------------------------------------------------------
(* The handlers are a client of the ledger *)

LEMMA LedgerStep ==
  ASSUME LocalTypes, [Next]_vars
  PROVE  [Ledger!Next]_(Ledger!vars)
<1> SUFFICES Ledger!Next \/ UNCHANGED ledgerVars
  BY DEF ledgerVars, Ledger!vars
<1>1. CASE \E h \in Handlers : Accept(h)
  BY <1>1 DEF Accept, Ledger!Next
<1>2. CASE \E h \in Handlers : Acquire(h)
  BY <1>2 DEF Acquire, Ledger!Next
<1>3. CASE \E h \in Handlers : PlanAccepted(h) \/ AskConfirmation(h) \/ BeginExecution(h)
  <2>1. PICK h \in Handlers : \E s \in {"planning", "awaiting_approval", "executing"} :
                                \/ Ledger!AppendStateChange(h, s)
                                \/ UNCHANGED ledgerVars
    BY <1>3 DEF PlanAccepted, AskConfirmation, BeginExecution, WriteState, AbortWrite
  <2> QED BY <2>1, StatusAssumption DEF Ledger!Next
<1>4. CASE \E h \in Handlers : SavePlanning(h) \/ SaveAsked(h) \/ StartExecutor(h)
  <2>1. PICK h \in Handlers : Ledger!SaveCheckpoint(h) \/ UNCHANGED ledgerVars
    BY <1>4 DEF SavePlanning, SaveAsked, StartExecutor, WriteCheckpoint, AbortWrite
  <2> QED BY <2>1 DEF Ledger!Next
<1>5. CASE \E h \in Handlers : FinishRun(h)
  <2>1. PICK h \in Handlers : FinishRun(h)
    BY <1>5
  <2>2. Recorded(h) \in WorkStatuses \union Ledger!TerminalStatuses
    BY StatusAssumption DEF LocalTypes, Outcome, Recorded, Ledger!TerminalStatuses
  <2> QED BY <2>1, <2>2 DEF FinishRun, FinalWrite, Ledger!Next
<1>6. CASE \E h \in Handlers : Return(h) \/ Renew(h)
  BY <1>6 DEF Return, Renew, Ledger!Next
<1>7. CASE \E r \in Runs : LeaseExpires(r)
  BY <1>7 DEF LeaseExpires, Ledger!Next
<1>8. CASE \E i \in Instances : Crash(i)
  BY <1>8 DEF Crash, Ledger!Next
<1>9. CASE \/ \E h \in Handlers :
                \/ Rejected(h) \/ AcquireFails(h) \/ LoadResume(h) \/ PlanRejected(h)
                \/ SkipConfirmation(h) \/ Approve(h) \/ RefuseOrExpire(h) \/ AbandonWaiting(h)
                \/ ResumeInvalid(h) \/ ExecutorReturns(h)
                \/ RenewalLost(h) \/ WatchCancel(h) \/ Disconnect(h)
           \/ \E i \in Instances, r \in Runs : RequestCancel(i, r)
           \/ \E k \in Instances \X Runs : CancelLocally(k)
           \/ UNCHANGED vars
  BY <1>9 DEF Rejected, AcquireFails, LoadResume, PlanRejected, SkipConfirmation, Approve,
              RefuseOrExpire, AbandonWaiting, ResumeInvalid, ExecutorReturns, RenewalLost,
              WatchCancel, Disconnect, RequestCancel, CancelLocally, vars, ledgerVars
<1> QED BY <1>1, <1>2, <1>3, <1>4, <1>5, <1>6, <1>7, <1>8, <1>9 DEF Next, HandlerStep

\* What a handler does besides its ledger calls keeps the types.
LEMMA MoveType ==
  ASSUME LocalTypes, NEW h \in Handlers, NEW l \in Active \union {"new", "done", "dead"}, Goto(h, l),
         UNCHANGED outcome \/ \E s \in Outcome : outcome' = [outcome EXCEPT ![h] = s],
         UNCHANGED <<ctx, cancelRequested, registry, cancelling>>
  PROVE  LocalTypes'
<1>1. pc' \in [Handlers -> Active \union {"new", "done", "dead"}]
  BY GotoType
<1>2. outcome' \in [Handlers -> Outcome]
  BY DEF LocalTypes
<1> QED BY <1>1, <1>2 DEF LocalTypes

LEMMA LocalTypesStep ==
  ASSUME LocalTypes, [Next]_vars
  PROVE  LocalTypes'
<1>0. {"failed", "cancelled", "completed", "disconnected"} \subseteq Outcome
  BY DEF Outcome, Ledger!TerminalStatuses
<1>1. CASE \E h \in Handlers :
             \/ Accept(h) \/ Rejected(h) \/ AcquireFails(h) \/ LoadResume(h)
             \/ SkipConfirmation(h) \/ Approve(h) \/ AbandonWaiting(h)
  <2>1. PICK h \in Handlers, l \in Active \union {"new", "done", "dead"} :
          Goto(h, l) /\ UNCHANGED <<outcome, ctx, cancelRequested, registry, cancelling>>
    BY <1>1 DEF Accept, Rejected, AcquireFails, LoadResume, SkipConfirmation, Approve,
                AbandonWaiting, Active
  <2> QED BY <2>1, MoveType
<1>2. CASE \E h \in Handlers : Acquire(h)
  <2>1. PICK h \in Handlers : Goto(h, "approved") \/ Goto(h, "leased")
    BY <1>2 DEF Acquire
  <2>2. UNCHANGED <<outcome, ctx, cancelRequested, registry, cancelling>>
    BY <1>2 DEF Acquire
  <2>3. {"approved", "leased"} \subseteq Active
    BY DEF Active
  <2> QED BY <2>1, <2>2, <2>3, MoveType
<1>3. CASE \E h \in Handlers : \/ PlanRejected(h) \/ RefuseOrExpire(h) \/ ResumeInvalid(h)
                               \/ ExecutorReturns(h)
  <2>1. PICK h \in Handlers : \E s \in Outcome, l \in {"finish", "record"} : EndWith(h, s, l)
    BY <1>0, <1>3 DEF PlanRejected, RefuseOrExpire, ResumeInvalid, ExecutorReturns, Outcomes
  <2>2. PICK s \in Outcome, l \in {"finish", "record"} :
          Goto(h, l) /\ outcome' = [outcome EXCEPT ![h] = s]
    BY <2>1 DEF EndWith
  <2>3. l \in Active
    BY DEF Active
  <2>4. UNCHANGED <<ctx, cancelRequested, registry, cancelling>>
    BY <1>3 DEF PlanRejected, RefuseOrExpire, ResumeInvalid, ExecutorReturns
  <2> QED BY <2>2, <2>3, <2>4, MoveType
<1>4. CASE \E h \in Handlers : \/ PlanAccepted(h) \/ AskConfirmation(h) \/ BeginExecution(h)
                               \/ SavePlanning(h) \/ SaveAsked(h)
  <2>1. PICK h \in Handlers : \E l \in Active :
          /\ Goto(h, l)
          /\ UNCHANGED outcome \/ outcome' = [outcome EXCEPT ![h] = "failed"]
    BY <1>4 DEF PlanAccepted, AskConfirmation, BeginExecution, SavePlanning, SaveAsked,
                WriteState, WriteCheckpoint, AbortWrite, EndWith, Active
  <2>2. UNCHANGED <<ctx, cancelRequested, registry, cancelling>>
    BY <1>4 DEF PlanAccepted, AskConfirmation, BeginExecution, SavePlanning, SaveAsked, WriteState
  <2> QED BY <1>0, <2>1, <2>2, MoveType
<1>5. CASE \E h \in Handlers : StartExecutor(h)
  <2> PICK h \in Handlers : StartExecutor(h)
    BY <1>5
  <2>1. PICK l \in Active :
          /\ Goto(h, l)
          /\ UNCHANGED outcome \/ outcome' = [outcome EXCEPT ![h] = "failed"]
    BY DEF StartExecutor, WriteCheckpoint, AbortWrite, EndWith, Active
  <2>2. registry' \in {registry, Registered(h)} /\ UNCHANGED <<ctx, cancelRequested, cancelling>>
    BY DEF StartExecutor
  <2>3. pc' \in [Handlers -> Active \union {"new", "done", "dead"}]
    BY <2>1, GotoType
  <2>4. outcome' \in [Handlers -> Outcome]
    BY <1>0, <2>1 DEF LocalTypes
  <2>5. Registered(h) \in [Instances \X Runs ->
                             [present : BOOLEAN, cancelled : BOOLEAN, fn : SUBSET Handlers]]
    BY HandlerFacts DEF LocalTypes, Registered
  <2> QED BY <2>2, <2>3, <2>4, <2>5 DEF LocalTypes
<1>6. CASE \E h \in Handlers : FinishRun(h)
  <2>1. PICK h \in Handlers : Goto(h, "retire") \/ Goto(h, "release")
    BY <1>6 DEF FinishRun, AfterFinish
  <2>2. UNCHANGED <<outcome, ctx, cancelRequested, registry, cancelling>>
    BY <1>6 DEF FinishRun
  <2>3. {"retire", "release"} \subseteq Active
    BY DEF Active
  <2> QED BY <2>1, <2>2, <2>3, MoveType
<1>7. CASE \E h \in Handlers : Return(h)
  <2> PICK h \in Handlers : Return(h)
    BY <1>7
  <2>1. Goto(h, "done") /\ UNCHANGED <<ctx, outcome, cancelRequested, cancelling>>
    BY DEF Return
  <2>2. pc' \in [Handlers -> Active \union {"new", "done", "dead"}]
    BY <2>1, GotoType
  <2>3. registry' \in [Instances \X Runs ->
                         [present : BOOLEAN, cancelled : BOOLEAN, fn : SUBSET Handlers]]
    BY DEF Return, LocalTypes, NoEntry
  <2> QED BY <2>1, <2>2, <2>3 DEF LocalTypes
<1>8. CASE \E h \in Handlers : RenewalLost(h) \/ WatchCancel(h) \/ Disconnect(h)
  <2>1. PICK h \in Handlers : ctx' = [ctx EXCEPT ![h] = FALSE]
    BY <1>8 DEF RenewalLost, WatchCancel, Disconnect
  <2>2. UNCHANGED <<pc, outcome, cancelRequested, registry, cancelling>>
    BY <1>8 DEF RenewalLost, WatchCancel, Disconnect
  <2> QED BY <2>1, <2>2 DEF LocalTypes
<1>9. CASE \E i \in Instances, r \in Runs : RequestCancel(i, r)
  BY <1>9 DEF RequestCancel, LocalTypes
<1>10. CASE \E k \in Instances \X Runs : CancelLocally(k)
  <2> PICK k \in Instances \X Runs : CancelLocally(k)
    BY <1>10
  <2>1. registry' \in [Instances \X Runs ->
                         [present : BOOLEAN, cancelled : BOOLEAN, fn : SUBSET Handlers]]
    <3> DEFINE Entry == [present : BOOLEAN, cancelled : BOOLEAN, fn : SUBSET Handlers]
               e == [registry[k] EXCEPT !.cancelled = TRUE, !.fn = {}]
    <3>1. registry' = registry \/ registry' = [registry EXCEPT ![k] = e]
      BY DEF CancelLocally
    <3>2. registry[k] \in Entry
      BY DEF LocalTypes
    <3>3. e \in Entry
      BY <3>2
    <3> HIDE DEF e
    <3> QED BY <3>1, <3>3 DEF LocalTypes
  <2>2. ctx' \in [Handlers -> BOOLEAN]
    BY DEF CancelLocally
  <2> QED BY <2>1, <2>2 DEF CancelLocally, LocalTypes
<1>11. CASE \E i \in Instances : Crash(i)
  <2> PICK i \in Instances : Crash(i)
    BY <1>11
  <2>1. pc' \in [Handlers -> Active \union {"new", "done", "dead"}]
    BY DEF Crash, LocalTypes
  <2>2. registry' \in [Instances \X Runs ->
                         [present : BOOLEAN, cancelled : BOOLEAN, fn : SUBSET Handlers]]
    BY DEF Crash, LocalTypes, NoEntry
  <2> QED BY <2>1, <2>2 DEF Crash, LocalTypes
<1>12. CASE \/ \E h \in Handlers : Renew(h)
            \/ \E r \in Runs : LeaseExpires(r)
            \/ UNCHANGED vars
  <2>1. UNCHANGED localVars
    BY <1>12 DEF Renew, LeaseExpires, vars, localVars
  <2> QED BY <2>1 DEF localVars, LocalTypes
<1> QED BY <1>1, <1>2, <1>3, <1>4, <1>5, <1>6, <1>7, <1>8, <1>9, <1>10, <1>11, <1>12
        DEF Next, HandlerStep

-----------------------------------------------------------------------------
(* What the ledger guarantees *)

LedgerInv == LedgerProofs!IInv

LEMMA LedgerInit == Init => LedgerInv
<1> SUFFICES ASSUME Init PROVE LedgerInv
  OBVIOUS
<1>1. LedgerProofs!Init
  BY DEF Init, Ledger!Init, LedgerProofs!Init, Ledger!AbsentRow, LedgerProofs!AbsentRow
<1> QED BY <1>1, LedgerProofs!InvariantInit, HandlersAssumption, NullAssumption, BoundAssumption,
           StatusAssumption DEF LedgerInv, LedgerProofs!TerminalStatuses

\* The two instances of ExecutionLedger are one.
LEMMA SameNext == Ledger!Next => LedgerProofs!Next
<1> SUFFICES ASSUME Ledger!Next PROVE LedgerProofs!Next
  OBVIOUS
<1>1. ASSUME NEW h \in Handlers, Ledger!AcceptRun(h) PROVE LedgerProofs!AcceptRun(h)
  BY <1>1 DEF Ledger!AcceptRun, LedgerProofs!AcceptRun, Ledger!IsNew, LedgerProofs!IsNew,
              Ledger!IsReplay, LedgerProofs!IsReplay, Ledger!RowOfRequest, LedgerProofs!RowOfRequest,
              Ledger!NewRow, LedgerProofs!NewRow, Ledger!AbsentRow, LedgerProofs!AbsentRow,
              Ledger!Exists, LedgerProofs!Exists
<1>2. ASSUME NEW h \in Handlers, Ledger!AcquireLease(h) PROVE LedgerProofs!AcquireLease(h)
  BY <1>2 DEF Ledger!AcquireLease, LedgerProofs!AcquireLease, Ledger!Exists, LedgerProofs!Exists,
              Ledger!IsTerminal, LedgerProofs!IsTerminal, Ledger!TerminalStatuses,
              LedgerProofs!TerminalStatuses, Ledger!HeldByOther, LedgerProofs!HeldByOther,
              Ledger!Granted, LedgerProofs!Granted
<1>3. ASSUME NEW h \in Handlers, Ledger!RenewLease(h) PROVE LedgerProofs!RenewLease(h)
  BY <1>3 DEF Ledger!RenewLease, LedgerProofs!RenewLease, Ledger!IsTerminal,
              LedgerProofs!IsTerminal, Ledger!TerminalStatuses, LedgerProofs!TerminalStatuses
<1>4. ASSUME NEW h \in Handlers, Ledger!ReleaseLease(h) PROVE LedgerProofs!ReleaseLease(h)
  BY <1>4 DEF Ledger!ReleaseLease, LedgerProofs!ReleaseLease
<1>5. ASSUME NEW h \in Handlers, NEW s, Ledger!AppendStateChange(h, s)
      PROVE  LedgerProofs!AppendStateChange(h, s)
  BY <1>5 DEF Ledger!AppendStateChange, LedgerProofs!AppendStateChange, Ledger!MayAppend,
              LedgerProofs!MayAppend, Ledger!NextSeq, LedgerProofs!NextSeq, Ledger!Exists,
              LedgerProofs!Exists, Ledger!IsTerminal, LedgerProofs!IsTerminal,
              Ledger!TerminalStatuses, LedgerProofs!TerminalStatuses
<1>6. ASSUME NEW h \in Handlers, Ledger!SaveCheckpoint(h) PROVE LedgerProofs!SaveCheckpoint(h)
  BY <1>6 DEF Ledger!SaveCheckpoint, LedgerProofs!SaveCheckpoint, Ledger!MayCheckpoint,
              LedgerProofs!MayCheckpoint, Ledger!Versions, LedgerProofs!Versions
<1>7. ASSUME NEW r \in Runs, Ledger!LeaseExpires(r) PROVE LedgerProofs!LeaseExpires(r)
  BY <1>7 DEF Ledger!LeaseExpires, LedgerProofs!LeaseExpires
<1>8. ASSUME NEW i \in Instances, Ledger!Crash(i) PROVE LedgerProofs!Crash(i)
  BY <1>8 DEF Ledger!Crash, LedgerProofs!Crash
<1>9. Ledger!TerminalStatuses = LedgerProofs!TerminalStatuses
  BY DEF Ledger!TerminalStatuses, LedgerProofs!TerminalStatuses
<1> QED BY <1>1, <1>2, <1>3, <1>4, <1>5, <1>6, <1>7, <1>8, <1>9 DEF Ledger!Next, LedgerProofs!Next

LEMMA LedgerNext == LocalTypes /\ LedgerInv /\ [Next]_vars => LedgerInv'
<1> SUFFICES ASSUME LocalTypes, LedgerInv, [Next]_vars PROVE LedgerInv'
  OBVIOUS
<1>1. [Ledger!Next]_(Ledger!vars)
  BY LedgerStep
<1>2. [LedgerProofs!Next]_(LedgerProofs!vars)
  BY <1>1, SameNext DEF Ledger!vars, LedgerProofs!vars
<1> QED BY <1>2, LedgerProofs!InvariantNext, HandlersAssumption, NullAssumption, BoundAssumption,
           StatusAssumption DEF LedgerInv, LedgerProofs!TerminalStatuses

LEMMA LedgerFacts ==
  ASSUME LedgerInv
  PROVE  /\ Ledger!TypeOK
         /\ \A h \in Handlers : token[h] <= row[h.run].fencing
         /\ Ledger!OneHolderPerToken
<1>1. LedgerProofs!TypeOK /\ LedgerProofs!TokenBound /\ LedgerProofs!OneHolderPerToken
  BY DEF LedgerInv, LedgerProofs!IInv
<1>2. Ledger!TypeOK
  BY <1>1 DEF LedgerProofs!TypeOK, Ledger!TypeOK, LedgerProofs!RowType, Ledger!RowType,
              LedgerProofs!EventType, Ledger!EventType, LedgerProofs!Statuses, Ledger!Statuses,
              LedgerProofs!TerminalStatuses, Ledger!TerminalStatuses
<1>3. Ledger!OneHolderPerToken
  BY <1>1 DEF Ledger!OneHolderPerToken, LedgerProofs!OneHolderPerToken
<1> QED BY <1>1, <1>2, <1>3 DEF LedgerProofs!TokenBound

-----------------------------------------------------------------------------
(* Who holds the newest fencing version knows the status *)

Started == {"executing", "running"}
Working == {"leased", "planned", "planSaved", "asked", "waiting", "approved"} \union Started
Holding == Working \union {"record", "retire", "finish", "release"}

HoldsToken == \A h \in Handlers : pc[h] \in Holding => token[h] > 0

StatusKnown ==
  \A h \in Handlers :
    pc[h] \in Working /\ token[h] = row[h.run].fencing =>
      /\ ~ Ledger!IsTerminal(row[h.run].status)
      /\ pc[h] \in Started => row[h.run].status = "executing"

HandlerInv == HoldsToken /\ StatusKnown

\* A handler goes on without a word to the status.
LEMMA MoveKeeps ==
  ASSUME LocalTypes, HandlerInv, NEW g \in Handlers, NEW l, Goto(g, l), UNCHANGED <<row, token>>,
         l \in Holding => pc[g] \in Holding,
         l \in Working => pc[g] \in Working,
         l \in Started => pc[g] \in Started
  PROVE  HandlerInv'
<1>1. pc'[g] = l /\ \A h \in Handlers : h # g => pc'[h] = pc[h]
  BY GotoFacts
<1> QED BY <1>1 DEF HandlerInv, HoldsToken, StatusKnown

\* No handler moves, and the row keeps its status and its fencing version.
LEMMA StayKeeps ==
  ASSUME HandlerInv, UNCHANGED <<pc, token>>,
         \A r \in Runs : row'[r].status = row[r].status /\ row'[r].fencing = row[r].fencing
  PROVE  HandlerInv'
BY HandlerFacts DEF HandlerInv, HoldsToken, StatusKnown

LEMMA WriteKeeps ==
  ASSUME LocalTypes, LedgerInv, HandlerInv, NEW g \in Handlers, NEW s, NEW l,
         Ledger!AppendStateChange(g, s), Goto(g, l), pc[g] \in Holding,
         l \in Working => ~ Ledger!IsTerminal(s),
         l \in Started => s = "executing"
  PROVE  HandlerInv'
<1>1. pc'[g] = l /\ \A h \in Handlers : h # g => pc'[h] = pc[h]
  BY GotoFacts
<1>2. /\ token' = token /\ token[g] > 0 /\ row[g.run].fencing = token[g]
      /\ row' = [row EXCEPT ![g.run].seq = @ + 1, ![g.run].status = s]
  BY DEF Ledger!AppendStateChange, Ledger!MayAppend
<1>3. g.run \in Runs /\ row \in [Runs -> Ledger!RowType]
  BY HandlerFacts, LedgerFacts DEF Ledger!TypeOK
<1>4. /\ row'[g.run].status = s
      /\ \A r \in Runs : row'[r].fencing = row[r].fencing
      /\ \A r \in Runs : r # g.run => row'[r] = row[r]
  BY <1>2, <1>3 DEF Ledger!RowType
<1>5. \A h \in Handlers : h.run = g.run /\ token[h] = row[h.run].fencing => h = g
  BY <1>2, LedgerFacts DEF Ledger!OneHolderPerToken
<1>6. HoldsToken'
  BY <1>1, <1>2 DEF HandlerInv, HoldsToken
<1>7. ASSUME NEW h \in Handlers, pc'[h] \in Working, token'[h] = row'[h.run].fencing
      PROVE  /\ ~ Ledger!IsTerminal(row'[h.run].status)
             /\ pc'[h] \in Started => row'[h.run].status = "executing"
  <2>1. h.run \in Runs /\ token[h] = row[h.run].fencing
    BY <1>2, <1>4, <1>7, HandlerFacts
  <2>2. CASE h = g
    BY <1>1, <1>4, <1>7, <2>2
  <2>3. CASE h # g
    <3>1. h.run # g.run
      BY <1>5, <2>1, <2>3
    <3> QED BY <1>1, <1>4, <1>7, <2>1, <2>3, <3>1 DEF HandlerInv, StatusKnown
  <2> QED BY <2>2, <2>3
<1>8. StatusKnown'
  BY <1>7 DEF StatusKnown, Ledger!IsTerminal, Ledger!TerminalStatuses
<1> QED BY <1>6, <1>8 DEF HandlerInv

LEMMA AcquireKeeps ==
  ASSUME LocalTypes, LedgerInv, HandlerInv, NEW g \in Handlers, Acquire(g)
  PROVE  HandlerInv'
<1> DEFINE l == IF g \in Resumers THEN "approved" ELSE "leased"
<1>1. Goto(g, l)
  BY DEF Acquire
<1>2. l \in {"approved", "leased"}
  OBVIOUS
<1> HIDE DEF l
<1>3. pc'[g] = l /\ \A h \in Handlers : h # g => pc'[h] = pc[h]
  BY <1>1, GotoFacts
<1>4. l \notin Started
  BY <1>2 DEF Started
<1>5. /\ ~ Ledger!IsTerminal(row[g.run].status)
      /\ row' = [row EXCEPT ![g.run].owner = g.instance, ![g.run].live = TRUE,
                            ![g.run].fencing = row[g.run].fencing + 1]
      /\ token' = [token EXCEPT ![g] = row[g.run].fencing + 1]
  BY DEF Acquire, Ledger!AcquireLease, Ledger!Granted
<1>6. g.run \in Runs /\ row \in [Runs -> Ledger!RowType] /\ token \in [Handlers -> Nat]
  BY HandlerFacts, LedgerFacts DEF Ledger!TypeOK
<1>7. row[g.run].fencing \in Nat
  BY <1>6 DEF Ledger!RowType
<1>8. /\ row'[g.run].fencing = row[g.run].fencing + 1
      /\ \A r \in Runs : row'[r].status = row[r].status
      /\ \A r \in Runs : r # g.run => row'[r] = row[r]
  BY <1>5, <1>6 DEF Ledger!RowType
<1>9. token'[g] = row[g.run].fencing + 1 /\ \A h \in Handlers : h # g => token'[h] = token[h]
  BY <1>5, <1>6
<1>10. HoldsToken'
  BY <1>3, <1>7, <1>9 DEF HandlerInv, HoldsToken
<1>11. ASSUME NEW h \in Handlers, pc'[h] \in Working, token'[h] = row'[h.run].fencing
       PROVE  /\ ~ Ledger!IsTerminal(row'[h.run].status)
              /\ pc'[h] \in Started => row'[h.run].status = "executing"
  <2>1. h.run \in Runs
    BY HandlerFacts
  <2>2. CASE h = g
    BY <1>3, <1>4, <1>5, <1>8, <2>1, <2>2 DEF Ledger!IsTerminal
  <2>3. CASE h # g
    <3>1. token[h] \in Nat /\ token[h] <= row[h.run].fencing
      BY <1>6, LedgerFacts
    <3>2. h.run # g.run
      BY <1>7, <1>8, <1>9, <1>11, <2>3, <3>1
    <3> QED BY <1>3, <1>8, <1>9, <1>11, <2>1, <2>3, <3>2 DEF HandlerInv, StatusKnown, Ledger!IsTerminal
  <2> QED BY <2>2, <2>3
<1>12. StatusKnown'
  BY <1>11 DEF StatusKnown, Ledger!IsTerminal, Ledger!TerminalStatuses
<1> QED BY <1>10, <1>12 DEF HandlerInv

\* A new row has no fencing version yet, so nobody holds its newest one.
LEMMA AcceptKeeps ==
  ASSUME LocalTypes, LedgerInv, HandlerInv, NEW g \in Handlers, Accept(g)
  PROVE  HandlerInv'
<1>1. Goto(g, "admitted") /\ token' = token
  BY DEF Accept, Ledger!AcceptRun
<1>2. pc'[g] = "admitted" /\ \A h \in Handlers : h # g => pc'[h] = pc[h]
  BY <1>1, GotoFacts
<1>3. "admitted" \notin Holding /\ Working \subseteq Holding
  BY DEF Holding, Working, Started
<1>4. HoldsToken'
  BY <1>1, <1>2, <1>3 DEF HandlerInv, HoldsToken
<1>5. g.run \in Runs /\ row \in [Runs -> Ledger!RowType] /\ token \in [Handlers -> Nat]
  BY HandlerFacts, LedgerFacts DEF Ledger!TypeOK
<1>6. row' = row \/ row' = [row EXCEPT ![g.run] = Ledger!NewRow(g)]
  BY DEF Accept, Ledger!AcceptRun
<1>7. Ledger!NewRow(g).fencing = 0
  BY DEF Ledger!NewRow, Ledger!AbsentRow
<1>8. ASSUME NEW h \in Handlers, pc'[h] \in Working, token'[h] = row'[h.run].fencing
      PROVE  row'[h.run] = row[h.run]
  <2>1. h # g /\ token[h] > 0 /\ h.run \in Runs
    BY <1>2, <1>3, <1>8, HandlerFacts DEF HandlerInv, HoldsToken
  <2> QED BY <1>1, <1>5, <1>6, <1>7, <1>8, <2>1
<1>9. StatusKnown'
  BY <1>1, <1>2, <1>3, <1>8 DEF HandlerInv, StatusKnown, Ledger!IsTerminal, Ledger!TerminalStatuses
<1> QED BY <1>4, <1>9 DEF HandlerInv

LEMMA ReturnKeeps ==
  ASSUME LocalTypes, LedgerInv, HandlerInv, NEW g \in Handlers, Return(g)
  PROVE  HandlerInv'
<1>1. Goto(g, "done")
  BY DEF Return
<1>2. pc'[g] = "done" /\ \A h \in Handlers : h # g => pc'[h] = pc[h]
  BY <1>1, GotoFacts
<1>3. "done" \notin Holding /\ Working \subseteq Holding
  BY DEF Holding, Working, Started
<1>4. g.run \in Runs /\ row \in [Runs -> Ledger!RowType] /\ token \in [Handlers -> Nat]
  BY HandlerFacts, LedgerFacts DEF Ledger!TypeOK
<1>5. /\ row' = row \/ row' = [row EXCEPT ![g.run].owner = NoInstance, ![g.run].live = FALSE]
      /\ token' = [token EXCEPT ![g] = 0]
  BY DEF Return, Ledger!ReleaseLease
<1>6. \A r \in Runs : row'[r].status = row[r].status /\ row'[r].fencing = row[r].fencing
  BY <1>4, <1>5 DEF Ledger!RowType
<1>7. \A h \in Handlers : h # g => token'[h] = token[h]
  BY <1>4, <1>5
<1> QED BY <1>2, <1>3, <1>6, <1>7, HandlerFacts
        DEF HandlerInv, HoldsToken, StatusKnown, Ledger!IsTerminal, Ledger!TerminalStatuses

LEMMA CrashKeeps ==
  ASSUME LocalTypes, LedgerInv, HandlerInv, NEW i \in Instances, Crash(i)
  PROVE  HandlerInv'
<1>1. /\ row' = row
      /\ token' = [h \in Handlers |-> IF h.instance = i THEN 0 ELSE token[h]]
      /\ pc' = [h \in Handlers |-> IF h.instance = i /\ pc[h] \in Active THEN "dead" ELSE pc[h]]
  BY DEF Crash, Ledger!Crash
<1>2. Holding \subseteq Active /\ Working \subseteq Holding /\ "dead" \notin Holding
  BY DEF Holding, Working, Started, Active
<1>3. \A h \in Handlers : pc'[h] \in Holding => pc'[h] = pc[h] /\ token'[h] = token[h]
  BY <1>1, <1>2
<1> QED BY <1>1, <1>2, <1>3 DEF HandlerInv, HoldsToken, StatusKnown

\* A state write succeeds, or the handler gives up.
LEMMA WriteStateKeeps ==
  ASSUME LocalTypes, LedgerInv, HandlerInv, NEW g \in Handlers, NEW s, NEW l,
         WriteState(g, s, l), pc[g] \in Working, ~ Ledger!IsTerminal(s), l \in Working,
         l \in Started => s = "executing"
  PROVE  HandlerInv'
<1>1. pc[g] \in Holding
  BY DEF Holding
<1>2. CASE Ledger!AppendStateChange(g, s) /\ Goto(g, l)
  BY <1>1, <1>2, WriteKeeps
<1>3. CASE AbortWrite(g)
  <2>1. PICK m \in {"release", "finish"} : Goto(g, m)
    BY <1>3 DEF AbortWrite, EndWith
  <2>2. m \in Holding /\ m \notin Working /\ m \notin Started
    BY <2>1 DEF Holding, Working, Started
  <2>3. UNCHANGED <<row, token>>
    BY <1>3 DEF AbortWrite, ledgerVars
  <2> QED BY <1>1, <2>1, <2>2, <2>3, MoveKeeps
<1> QED BY <1>2, <1>3 DEF WriteState

LEMMA HandlerNext ==
  ASSUME LocalTypes, LedgerInv, HandlerInv, [Next]_vars
  PROVE  HandlerInv'
<1>1. CASE \E h \in Handlers : Accept(h)
  BY <1>1, AcceptKeeps
<1>2. CASE \E h \in Handlers : Acquire(h)
  BY <1>2, AcquireKeeps
<1>3. CASE \E h \in Handlers : PlanAccepted(h)
  <2> PICK h \in Handlers : PlanAccepted(h)
    BY <1>3
  <2>1. WriteState(h, "planning", "planned") /\ pc[h] \in Working
    BY DEF PlanAccepted, Working
  <2>2. ~ Ledger!IsTerminal("planning") /\ "planned" \in Working /\ "planned" \notin Started
    BY DEF Ledger!IsTerminal, Ledger!TerminalStatuses, Working, Started
  <2> QED BY <2>1, <2>2, WriteStateKeeps
<1>4. CASE \E h \in Handlers : AskConfirmation(h)
  <2> PICK h \in Handlers : AskConfirmation(h)
    BY <1>4
  <2>1. WriteState(h, "awaiting_approval", "asked") /\ pc[h] \in Working
    BY DEF AskConfirmation, Working
  <2>2. ~ Ledger!IsTerminal("awaiting_approval") /\ "asked" \in Working /\ "asked" \notin Started
    BY DEF Ledger!IsTerminal, Ledger!TerminalStatuses, Working, Started
  <2> QED BY <2>1, <2>2, WriteStateKeeps
<1>5. CASE \E h \in Handlers : BeginExecution(h)
  <2> PICK h \in Handlers : BeginExecution(h)
    BY <1>5
  <2>1. WriteState(h, "executing", "executing") /\ pc[h] \in Working
    BY DEF BeginExecution, Working
  <2>2. ~ Ledger!IsTerminal("executing") /\ "executing" \in Working
    BY DEF Ledger!IsTerminal, Ledger!TerminalStatuses, Working, Started
  <2> QED BY <2>1, <2>2, WriteStateKeeps
<1>6. CASE \E h \in Handlers :
             SavePlanning(h) \/ SaveAsked(h) \/ StartExecutor(h)
  <2> PICK h \in Handlers : SavePlanning(h) \/ SaveAsked(h) \/ StartExecutor(h)
    BY <1>6
  <2>1. UNCHANGED <<row, token>>
    BY DEF SavePlanning, SaveAsked, StartExecutor, WriteCheckpoint, AbortWrite, ledgerVars,
           Ledger!SaveCheckpoint
  <2>2. PICK l \in {"planSaved", "waiting", "running", "release", "finish"} :
          Goto(h, l) /\ (l = "running" => pc[h] = "executing")
    BY DEF SavePlanning, SaveAsked, StartExecutor, WriteCheckpoint, AbortWrite, EndWith
  <2>3. pc[h] \in Holding /\ pc[h] \in Working
    BY DEF SavePlanning, SaveAsked, StartExecutor, Holding, Working, Started
  <2>4. l \in Started => pc[h] \in Started
    BY <2>2 DEF Started
  <2> QED BY <2>1, <2>2, <2>3, <2>4, MoveKeeps
<1>7. CASE \E h \in Handlers : PlanRejected(h) \/ RefuseOrExpire(h) \/ AbandonWaiting(h)
                               \/ ResumeInvalid(h) \/ ExecutorReturns(h)
  <2> PICK h \in Handlers : PlanRejected(h) \/ RefuseOrExpire(h) \/ AbandonWaiting(h)
                            \/ ResumeInvalid(h) \/ ExecutorReturns(h)
    BY <1>7
  <2>1. UNCHANGED <<row, token>>
    BY DEF PlanRejected, RefuseOrExpire, AbandonWaiting, ResumeInvalid, ExecutorReturns, ledgerVars
  <2>2. PICK l \in {"finish", "release", "record"} : Goto(h, l)
    BY DEF PlanRejected, RefuseOrExpire, AbandonWaiting, ResumeInvalid, ExecutorReturns, EndWith
  <2>3. pc[h] \in Holding
    BY DEF PlanRejected, RefuseOrExpire, AbandonWaiting, ResumeInvalid, ExecutorReturns,
           Holding, Working, Started
  <2>4. l \notin Working /\ l \notin Started
    BY <2>2 DEF Working, Started
  <2> QED BY <2>1, <2>2, <2>3, <2>4, MoveKeeps
<1>8. CASE \E h \in Handlers : SkipConfirmation(h) \/ Approve(h)
  <2> PICK h \in Handlers : SkipConfirmation(h) \/ Approve(h)
    BY <1>8
  <2>1. UNCHANGED <<row, token>> /\ Goto(h, "approved")
    BY DEF SkipConfirmation, Approve, ledgerVars
  <2>2. pc[h] \in Holding /\ pc[h] \in Working
    BY DEF SkipConfirmation, Approve, Holding, Working, Started
  <2>3. "approved" \notin Started
    BY DEF Started
  <2> QED BY <2>1, <2>2, <2>3, MoveKeeps
<1>9. CASE \E h \in Handlers : Rejected(h) \/ AcquireFails(h) \/ LoadResume(h)
  <2> PICK h \in Handlers, l \in {"done", "loaded"} : Goto(h, l) /\ UNCHANGED <<row, token>>
    BY <1>9 DEF Rejected, AcquireFails, LoadResume, ledgerVars
  <2>1. l \notin Holding /\ l \notin Working /\ l \notin Started
    BY DEF Holding, Working, Started
  <2> QED BY <2>1, MoveKeeps
<1>10. CASE \E h \in Handlers : FinishRun(h)
  <2> PICK h \in Handlers : FinishRun(h)
    BY <1>10
  <2>1. pc[h] \in Holding
    BY DEF FinishRun, Holding
  <2>2. PICK l \in {"retire", "release"} : Goto(h, l)
    BY DEF FinishRun, AfterFinish
  <2>3. l \notin Working /\ l \notin Started
    BY <2>2 DEF Working, Started
  <2>4. CASE Ledger!AppendStateChange(h, Recorded(h))
    BY <2>1, <2>2, <2>3, <2>4, WriteKeeps
  <2>5. CASE UNCHANGED ledgerVars
    <3>1. UNCHANGED <<row, token>>
      BY <2>5 DEF ledgerVars
    <3> QED BY <2>1, <2>2, <2>3, <3>1, MoveKeeps
  <2> QED BY <2>4, <2>5 DEF FinishRun, FinalWrite
<1>11. CASE \E h \in Handlers : Return(h)
  BY <1>11, ReturnKeeps
<1>12. CASE \E i \in Instances : Crash(i)
  BY <1>12, CrashKeeps
<1>13. CASE (\E h \in Handlers : Renew(h)) \/ \E r \in Runs : LeaseExpires(r)
  <2>1. PICK r \in Runs : row' = [row EXCEPT ![r].live = TRUE] \/ row' = [row EXCEPT ![r].live = FALSE]
    BY <1>13, HandlerFacts DEF Renew, LeaseExpires, Ledger!RenewLease, Ledger!LeaseExpires
  <2>2. row \in [Runs -> Ledger!RowType]
    BY LedgerFacts DEF Ledger!TypeOK
  <2>3. \A q \in Runs : row'[q].status = row[q].status /\ row'[q].fencing = row[q].fencing
    BY <2>1, <2>2 DEF Ledger!RowType
  <2>4. UNCHANGED <<pc, token>>
    BY <1>13 DEF Renew, LeaseExpires, localVars, Ledger!RenewLease, Ledger!LeaseExpires
  <2> QED BY <2>3, <2>4, StayKeeps
<1>14. CASE \/ \E h \in Handlers : RenewalLost(h) \/ WatchCancel(h) \/ Disconnect(h)
            \/ \E i \in Instances, r \in Runs : RequestCancel(i, r)
            \/ \E k \in Instances \X Runs : CancelLocally(k)
            \/ UNCHANGED vars
  <2>1. UNCHANGED <<row, pc, token>>
    BY <1>14 DEF RenewalLost, WatchCancel, Disconnect, RequestCancel, CancelLocally, ledgerVars, vars
  <2> QED BY <2>1, StayKeeps
<1> QED BY <1>1, <1>2, <1>3, <1>4, <1>5, <1>6, <1>7, <1>8, <1>9, <1>10, <1>11, <1>12, <1>13,
           <1>14 DEF Next, HandlerStep

-----------------------------------------------------------------------------
(* The inductive invariant and what follows from it *)

LInv == LocalTypes /\ LedgerInv /\ HandlerInv

LEMMA LInvInit == Init => LInv
<1> SUFFICES ASSUME Init PROVE LInv
  OBVIOUS
<1>1. LedgerInv
  BY LedgerInit
<1>2. LocalTypes
  BY DEF Init, LocalTypes, Outcome, Ledger!TerminalStatuses, NoEntry
<1>3. HandlerInv
  BY DEF Init, HandlerInv, HoldsToken, StatusKnown, Holding, Working, Started
<1> QED BY <1>1, <1>2, <1>3 DEF LInv

LEMMA LInvNext == LInv /\ [Next]_vars => LInv'
BY LocalTypesStep, LedgerNext, HandlerNext DEF LInv

LEMMA Inductive == Spec => []LInv
BY LInvInit, LInvNext, PTL DEF Spec

(* Every behaviour of the handlers is a behaviour of the ledger: they call   *)
(* it as its most general client does, so the guarantees proved of           *)
(* ExecutionLedger are those of the program.                                 *)
THEOREM ImplementsLedger == Spec => UsesLedger
<1>1. Init => Ledger!Init
  BY DEF Init
<1>2. LInv /\ [Next]_vars => [Ledger!Next]_(Ledger!vars)
  BY LedgerStep DEF LInv
<1> QED BY <1>1, <1>2, Inductive, PTL DEF Spec, UsesLedger, Ledger!Spec

(* Every variable keeps its type, whatever handlers, clients, crashes and    *)
(* cancel requests do.                                                       *)
THEOREM TypeCorrect == Spec => []TypeOK
<1>1. LInv => TypeOK
  BY LedgerFacts DEF LInv, LocalTypes, TypeOK
<1> QED BY <1>1, Inductive, PTL

(* A handler whose executor runs and that was not fenced sees the run as     *)
(* executing in the ledger: nobody moved the status under it.                *)
THEOREM RunningIsExecuting == Spec => []LedgerSaysExecuting
<1>1. LInv => LedgerSaysExecuting
  BY DEF LInv, HandlerInv, StatusKnown, LedgerSaysExecuting, Working, Started
<1> QED BY <1>1, Inductive, PTL

\* A checkpoint is written by a handler that holds the newest version.
LEMMA CheckpointBeforeTerminal ==
  ASSUME LInv, [Next]_vars, NEW c \in checkpoints' \ checkpoints
  PROVE  ~ Ledger!IsTerminal(row[c.run].status)
<1>1. CASE \E h \in Handlers : SavePlanning(h) \/ SaveAsked(h) \/ StartExecutor(h)
  <2> PICK h \in Handlers : SavePlanning(h) \/ SaveAsked(h) \/ StartExecutor(h)
    BY <1>1
  <2>1. pc[h] \in Working
    BY DEF SavePlanning, SaveAsked, StartExecutor, Working, Started
  <2>2. Ledger!SaveCheckpoint(h)
    BY DEF SavePlanning, SaveAsked, StartExecutor, WriteCheckpoint, AbortWrite, ledgerVars
  <2>3. c.run = h.run /\ token[h] = row[h.run].fencing
    BY <2>2 DEF Ledger!SaveCheckpoint, Ledger!MayCheckpoint
  <2> QED BY <2>1, <2>3 DEF LInv, HandlerInv, StatusKnown
<1>2. CASE ~ \E h \in Handlers : SavePlanning(h) \/ SaveAsked(h) \/ StartExecutor(h)
  <2>1. checkpoints' = checkpoints
    <3>1. CASE \E h \in Handlers :
                 \/ Accept(h) \/ Acquire(h) \/ Renew(h) \/ Return(h) \/ FinishRun(h)
                 \/ PlanAccepted(h) \/ AskConfirmation(h) \/ BeginExecution(h)
      BY <3>1 DEF Accept, Acquire, Renew, Return, FinishRun, FinalWrite, PlanAccepted,
                  AskConfirmation, BeginExecution, WriteState, AbortWrite, ledgerVars,
                  Ledger!AcceptRun, Ledger!AcquireLease, Ledger!RenewLease, Ledger!ReleaseLease,
                  Ledger!AppendStateChange
    <3>2. CASE \/ \E r \in Runs : LeaseExpires(r)
               \/ \E i \in Instances : Crash(i)
      BY <3>2 DEF LeaseExpires, Crash, Ledger!LeaseExpires, Ledger!Crash
    <3>3. CASE \/ \E h \in Handlers :
                    \/ Rejected(h) \/ AcquireFails(h) \/ LoadResume(h) \/ PlanRejected(h)
                    \/ SkipConfirmation(h) \/ Approve(h) \/ RefuseOrExpire(h) \/ AbandonWaiting(h)
                    \/ ResumeInvalid(h) \/ ExecutorReturns(h)
                    \/ RenewalLost(h) \/ WatchCancel(h) \/ Disconnect(h)
               \/ \E i \in Instances, r \in Runs : RequestCancel(i, r)
               \/ \E k \in Instances \X Runs : CancelLocally(k)
               \/ UNCHANGED vars
      BY <3>3 DEF Rejected, AcquireFails, LoadResume, PlanRejected, SkipConfirmation, Approve,
                  RefuseOrExpire, AbandonWaiting, ResumeInvalid, ExecutorReturns, RenewalLost,
                  WatchCancel, Disconnect, RequestCancel, CancelLocally, vars, ledgerVars
    <3> QED BY <1>2, <3>1, <3>2, <3>3 DEF Next, HandlerStep
  <2> QED BY <2>1
<1> QED BY <1>1, <1>2

(* A finished run gets no further checkpoint, although SaveCheckpoint does   *)
(* not look at the status: only a handler that still works on the run writes *)
(* one, and only while no other handler could have finished it.              *)
THEOREM NoLateCheckpoint == Spec => NoCheckpointAfterTerminal
<1> DEFINE Step == \A r \in Runs : Ledger!IsTerminal(row[r].status)
                                     => \A c \in checkpoints' \ checkpoints : c.run # r
<1>1. LInv /\ [Next]_vars => Step
  BY CheckpointBeforeTerminal
<1>2. [][Step]_vars <=> NoCheckpointAfterTerminal
  BY DEF NoCheckpointAfterTerminal
<1> HIDE DEF Step
<1> QED BY <1>1, <1>2, Inductive, PTL DEF Spec

=============================================================================
