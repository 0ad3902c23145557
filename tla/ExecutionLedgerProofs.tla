----------------------- MODULE ExecutionLedgerProofs -----------------------
(***************************************************************************)
(* Proofs about the execution ledger, for any number of runs, handlers and *)
(* instances and any bounds.                                               *)
(*                                                                         *)
(* The inductive invariant says how the counters of a row bound what was   *)
(* written with them: nobody holds, and no event or checkpoint carries, a  *)
(* fencing version above the row's, and no seq is above current_seq.  The  *)
(* proofs go from the effect of an action on the row it touches, to the    *)
(* actions that leave the counters alone, to the two that move them:       *)
(* AcquireLease (the fencing version) and AppendStateChange (the seq).     *)
(***************************************************************************)
EXTENDS ExecutionLedger, SequenceTheorems, TLAPS

-----------------------------------------------------------------------------
(* The inductive invariant *)

\* A run without a row has no counters yet: what AcceptRun inserts.
AbsentIsFresh ==
  \A r \in Runs : ~ Exists(r) => row[r].seq = 0 /\ row[r].fencing = 0 /\ ~ row[r].live

\* The row's fencing version is the highest one handed out or written with.
TokenBound      == \A h \in Handlers : token[h] <= row[h.run].fencing
EventBound      == \A e \in events : e.fencing <= row[e.run].fencing
CheckpointBound == \A c \in checkpoints : c.fencing <= row[c.run].fencing

\* The versions of a run's checkpoints have no hole below a saved one.
CheckpointsDense ==
  \A c \in checkpoints : \A w \in 1..MaxSeq : w < c.version => w \in Versions(c.run)

\* Only seqs that the row has handed out reach the outbox.
OutboxBound == \A i \in DOMAIN outbox : outbox[i].seq <= row[outbox[i].run].seq

\* The owner column is set for as long as the lease is live.
LiveHasOwner == \A r \in Runs : row[r].live => row[r].owner # NoInstance

\* A handler is only admitted to a run that has a row.
AdmittedExists == \A h \in admitted : Exists(h.run)

IInv ==
  /\ TypeOK
  /\ AbsentIsFresh
  /\ TokenBound
  /\ EventBound
  /\ GapFreeSeq
  /\ TerminalIsLast
  /\ FencedOrder
  /\ OneHolderPerToken
  /\ CheckpointBound
  /\ CheckpointsDense
  /\ CheckpointsFenced
  /\ OutboxBound
  /\ OutboxInSeqOrder
  /\ LiveHasOwner
  /\ AdmittedExists
  /\ RequestIdempotent

-----------------------------------------------------------------------------
(* What an action does to the row it touches *)

\* What the actions use of the type invariant.
LEMMA HandlerFacts ==
  ASSUME TypeOK, NEW h \in Handlers
  PROVE  /\ h.run \in Runs /\ h.request \in Requests /\ h.principal \in Principals
         /\ h.instance \in Instances
         /\ row[h.run] \in RowType /\ token[h] \in Nat
<1>1. /\ h.run \in Runs /\ h.request \in Requests /\ h.principal \in Principals
      /\ h.instance \in Instances
  BY HandlersAssumption
<1>2. QED BY <1>1 DEF TypeOK

LEMMA RowFacts ==
  ASSUME TypeOK, NEW r \in Runs
  PROVE  /\ row[r].seq \in Nat /\ row[r].fencing \in Nat
         /\ row[r].status \in Statuses \union {"absent"}
         /\ row[r].owner \in Instances \union {NoInstance}
BY DEF TypeOK, RowType

SameElsewhere(r) == \A q \in Runs \ {r} : row'[q] = row[q]

\* The columns only AcceptRun, AcquireLease and AppendStateChange write.
SameRecord(r) ==
  /\ row'[r].status = row[r].status
  /\ row'[r].seq = row[r].seq
  /\ row'[r].request = row[r].request
  /\ row'[r].principal = row[r].principal

LEMMA AcceptEffect ==
  ASSUME TypeOK, NEW h \in Handlers, AcceptRun(h), ~ IsReplay(h)
  PROVE  /\ row' \in [Runs -> RowType]
         /\ IsNew(h)
         /\ row'[h.run] = NewRow(h)
         /\ SameElsewhere(h.run)
<1>1. NewRow(h) \in RowType
  BY HandlerFacts DEF NewRow, AbsentRow, RowType, Statuses
<1>2. row' = [row EXCEPT ![h.run] = NewRow(h)] /\ IsNew(h)
  BY DEF AcceptRun
<1>3. QED BY <1>1, <1>2, HandlerFacts DEF TypeOK, SameElsewhere

LEMMA NewRowFields ==
  ASSUME TypeOK, NEW h \in Handlers
  PROVE  /\ NewRow(h).status = "accepted" /\ NewRow(h).seq = 0 /\ NewRow(h).fencing = 0
         /\ NewRow(h).owner = NoInstance /\ NewRow(h).live = FALSE
         /\ NewRow(h).request = h.request /\ NewRow(h).principal = h.principal
BY DEF NewRow, AbsentRow

LEMMA AcquireEffect ==
  ASSUME TypeOK, NEW h \in Handlers, AcquireLease(h)
  PROVE  /\ row' \in [Runs -> RowType]
         /\ SameElsewhere(h.run)
         /\ SameRecord(h.run)
         /\ row'[h.run].fencing = row[h.run].fencing + 1
         /\ row'[h.run].owner = h.instance
         /\ row'[h.run].live = TRUE
<1> DEFINE n   == row[h.run].fencing + 1
           new == [row[h.run] EXCEPT !.owner = h.instance, !.live = TRUE, !.fencing = n]
<1>1. n \in Nat
  BY HandlerFacts, RowFacts
<1>2. new \in RowType
  BY <1>1, HandlerFacts DEF RowType
<1>3. row' = [row EXCEPT ![h.run] = new]
  BY HandlerFacts DEF AcquireLease, Granted, TypeOK
<1>4. QED BY <1>2, <1>3, HandlerFacts DEF TypeOK, RowType, SameElsewhere, SameRecord

LEMMA AppendEffect ==
  ASSUME TypeOK, NEW h \in Handlers, NEW s \in WorkStatuses \union TerminalStatuses,
         AppendStateChange(h, s)
  PROVE  /\ row' \in [Runs -> RowType]
         /\ SameElsewhere(h.run)
         /\ row'[h.run].seq = row[h.run].seq + 1
         /\ row'[h.run].status = s
         /\ row'[h.run].fencing = row[h.run].fencing
         /\ row'[h.run].owner = row[h.run].owner
         /\ row'[h.run].live = row[h.run].live
         /\ row'[h.run].request = row[h.run].request
         /\ row'[h.run].principal = row[h.run].principal
<1> DEFINE n   == row[h.run].seq + 1
           new == [row[h.run] EXCEPT !.seq = n, !.status = s]
<1>1. n \in Nat
  BY HandlerFacts, RowFacts
<1>2. new \in RowType
  BY <1>1, HandlerFacts DEF RowType, Statuses
<1>3. row' = [row EXCEPT ![h.run] = new]
  BY HandlerFacts DEF AppendStateChange, TypeOK
<1>4. QED BY <1>2, <1>3, HandlerFacts DEF TypeOK, RowType, SameElsewhere

\* Renewal, release and expiry only move owner and expiry of the lease.
LEMMA RenewEffect ==
  ASSUME TypeOK, NEW h \in Handlers, RenewLease(h)
  PROVE  /\ row' \in [Runs -> RowType]
         /\ SameElsewhere(h.run) /\ SameRecord(h.run)
         /\ row'[h.run].fencing = row[h.run].fencing
         /\ row'[h.run].owner = row[h.run].owner
<1>1. row' = [row EXCEPT ![h.run] = [row[h.run] EXCEPT !.live = TRUE]]
  BY DEF RenewLease
<1>2. [row[h.run] EXCEPT !.live = TRUE] \in RowType
  BY HandlerFacts DEF RowType
<1>3. QED BY <1>1, <1>2, HandlerFacts DEF TypeOK, RowType, SameElsewhere, SameRecord

LEMMA ReleaseEffect ==
  ASSUME TypeOK, NEW h \in Handlers, ReleaseLease(h)
  PROVE  /\ row' \in [Runs -> RowType]
         /\ SameElsewhere(h.run) /\ SameRecord(h.run)
         /\ row'[h.run].fencing = row[h.run].fencing
         /\ \/ row'[h.run] = row[h.run]
            \/ row'[h.run].owner = NoInstance /\ row'[h.run].live = FALSE
<1> DEFINE new == [row[h.run] EXCEPT !.owner = NoInstance, !.live = FALSE]
<1>1. new \in RowType
  BY HandlerFacts DEF RowType
<1>2. CASE row' = row
  BY <1>2, HandlerFacts DEF TypeOK, SameElsewhere, SameRecord
<1>3. CASE row' = [row EXCEPT ![h.run].owner = NoInstance, ![h.run].live = FALSE]
  <2>1. row' = [row EXCEPT ![h.run] = new]
    BY <1>3, HandlerFacts DEF TypeOK
  <2>2. QED BY <1>1, <2>1, HandlerFacts DEF TypeOK, RowType, SameElsewhere, SameRecord
<1>4. QED BY <1>2, <1>3 DEF ReleaseLease

LEMMA ExpireEffect ==
  ASSUME TypeOK, NEW r \in Runs, LeaseExpires(r)
  PROVE  /\ row' \in [Runs -> RowType]
         /\ SameElsewhere(r) /\ SameRecord(r)
         /\ row'[r].fencing = row[r].fencing
         /\ row'[r].owner = row[r].owner
         /\ row'[r].live = FALSE
<1>1. row' = [row EXCEPT ![r] = [row[r] EXCEPT !.live = FALSE]]
  BY DEF LeaseExpires
<1>2. row[r] \in RowType
  BY DEF TypeOK
<1>3. [row[r] EXCEPT !.live = FALSE] \in RowType
  BY <1>2 DEF RowType
<1>4. QED BY <1>1, <1>2, <1>3 DEF TypeOK, RowType, SameElsewhere, SameRecord

-----------------------------------------------------------------------------
(* Type correctness *)

LEMMA TypeInit == Init => TypeOK
BY DEF Init, TypeOK, AbsentRow, RowType, EventType, Statuses

LEMMA TypeNext ==
  ASSUME TypeOK, [Next]_vars
  PROVE  TypeOK'
<1>1. ASSUME NEW h \in Handlers, AcceptRun(h) PROVE TypeOK'
  <2>1. row' \in [Runs -> RowType]
    BY <1>1, AcceptEffect DEF AcceptRun, TypeOK
  <2>2. QED BY <1>1, <2>1 DEF AcceptRun, TypeOK
<1>2. ASSUME NEW h \in Handlers, AcquireLease(h) PROVE TypeOK'
  <2>1. Granted(h) \in Nat
    BY HandlerFacts, RowFacts DEF Granted
  <2>2. QED BY <1>2, <2>1, AcquireEffect DEF AcquireLease, TypeOK
<1>3. ASSUME NEW h \in Handlers, RenewLease(h) PROVE TypeOK'
  BY <1>3, RenewEffect DEF RenewLease, TypeOK
<1>4. ASSUME NEW h \in Handlers, ReleaseLease(h) PROVE TypeOK'
  BY <1>4, ReleaseEffect DEF ReleaseLease, TypeOK
<1>5. ASSUME NEW h \in Handlers, NEW s \in WorkStatuses \union TerminalStatuses,
             AppendStateChange(h, s)
      PROVE  TypeOK'
  <2>1. NextSeq(h.run) \in Nat /\ token[h] \in Nat /\ h.run \in Runs
    BY HandlerFacts, RowFacts DEF NextSeq
  <2>2. events' \subseteq EventType
    BY <1>5, <2>1 DEF AppendStateChange, EventType, TypeOK
  <2>3. [run |-> h.run, seq |-> NextSeq(h.run)] \in [run : Runs, seq : Nat]
    BY <2>1
  <2>4. outbox' \in Seq([run : Runs, seq : Nat])
    BY <1>5, <2>3 DEF AppendStateChange, TypeOK
  <2>5. QED BY <1>5, <2>2, <2>4, AppendEffect DEF AppendStateChange, TypeOK
<1>6. ASSUME NEW h \in Handlers, SaveCheckpoint(h) PROVE TypeOK'
  <2>1. PICK v \in 1..MaxSeq : checkpoints' = checkpoints \union
                {[run |-> h.run, version |-> v, fencing |-> token[h]]}
    BY <1>6 DEF SaveCheckpoint
  <2>2. v \in Nat /\ token[h] \in Nat /\ h.run \in Runs
    BY BoundAssumption, HandlerFacts
  <2>3. checkpoints' \subseteq [run : Runs, version : Nat, fencing : Nat]
    BY <2>1, <2>2 DEF TypeOK
  <2>4. QED BY <1>6, <2>3 DEF SaveCheckpoint, TypeOK
<1>7. ASSUME NEW r \in Runs, LeaseExpires(r) PROVE TypeOK'
  BY <1>7, ExpireEffect DEF LeaseExpires, TypeOK
<1>8. ASSUME NEW i \in Instances, Crash(i) PROVE TypeOK'
  BY <1>8 DEF Crash, TypeOK
<1>9. CASE UNCHANGED vars
  BY <1>9 DEF vars, TypeOK
<1>10. QED
  BY <1>1, <1>2, <1>3, <1>4, <1>5, <1>6, <1>7, <1>8, <1>9 DEF Next

(* Every reachable state is well typed: the columns of repository.go:39-80   *)
(* keep their domains under every operation of the repository.               *)
THEOREM TypeCorrect == Spec => []TypeOK
BY TypeInit, TypeNext, PTL DEF Spec

-----------------------------------------------------------------------------
(* The steps that leave the log alone, and the one that does not *)

\* No seq is handed out, nothing is written with a fencing version, and the
\* fencing versions of the rows only grow.
LogKept ==
  /\ events' = events
  /\ outbox' = outbox
  /\ \A r \in Runs : /\ row'[r].seq = row[r].seq
                     /\ row[r].fencing <= row'[r].fencing
                     /\ Exists(r) => SameRecord(r)

LEMMA LogStep ==
  ASSUME TypeOK, TypeOK', AbsentIsFresh, [Next]_vars
  PROVE  \/ LogKept
         \/ \E h \in Handlers : \E s \in WorkStatuses \union TerminalStatuses :
              AppendStateChange(h, s)
<1>0. \A r \in Runs : row[r].seq \in Nat /\ row[r].fencing \in Nat
  BY RowFacts
<1>1. ASSUME NEW h \in Handlers, AcceptRun(h) PROVE LogKept
  <2>1. CASE IsReplay(h)
    BY <1>0, <1>1, <2>1 DEF AcceptRun, LogKept, SameRecord
  <2>2. CASE ~ IsReplay(h)
    <3>1. ~ Exists(h.run) /\ row'[h.run] = NewRow(h) /\ SameElsewhere(h.run)
      BY <1>0, <1>1, <2>2, AcceptEffect DEF IsNew
    <3>2. /\ row[h.run].seq = 0 /\ row[h.run].fencing = 0
          /\ NewRow(h).seq = 0 /\ NewRow(h).fencing = 0
      BY <3>1, HandlerFacts, NewRowFields DEF AbsentIsFresh
    <3>3. ASSUME NEW r \in Runs
          PROVE  /\ row'[r].seq = row[r].seq
                 /\ row[r].fencing <= row'[r].fencing
                 /\ Exists(r) => SameRecord(r)
      <4>1. CASE r = h.run
        BY <3>1, <3>2, <4>1 DEF Exists
      <4>2. CASE r # h.run
        BY <1>0, <3>1, <4>2 DEF SameElsewhere, SameRecord
      <4>3. QED BY <4>1, <4>2
    <3>4. QED BY <1>1, <3>3 DEF AcceptRun, LogKept
  <2>3. QED BY <2>1, <2>2
<1>2. ASSUME NEW h \in Handlers, AcquireLease(h) PROVE LogKept
  <2>1. /\ SameElsewhere(h.run) /\ SameRecord(h.run)
        /\ row'[h.run].fencing = row[h.run].fencing + 1
    BY <1>2, AcquireEffect
  <2>2. \A r \in Runs : SameRecord(r) /\ row[r].fencing <= row'[r].fencing
    BY <1>0, <2>1 DEF SameElsewhere, SameRecord
  <2>3. QED BY <1>0, <1>2, <2>2 DEF AcquireLease, LogKept, SameRecord
<1>3. ASSUME NEW h \in Handlers, RenewLease(h) PROVE LogKept
  BY <1>0, <1>3, RenewEffect DEF RenewLease, LogKept, SameElsewhere, SameRecord
<1>4. ASSUME NEW h \in Handlers, ReleaseLease(h) PROVE LogKept
  <2>1. /\ SameElsewhere(h.run) /\ SameRecord(h.run)
        /\ row'[h.run].fencing = row[h.run].fencing
    BY <1>4, ReleaseEffect
  <2>2. \A r \in Runs : SameRecord(r) /\ row[r].fencing <= row'[r].fencing
    BY <1>0, <2>1 DEF SameElsewhere, SameRecord
  <2>3. QED BY <1>0, <1>4, <2>2 DEF ReleaseLease, LogKept, SameRecord
<1>5. ASSUME NEW h \in Handlers, SaveCheckpoint(h) PROVE LogKept
  BY <1>0, <1>5 DEF SaveCheckpoint, LogKept, SameRecord
<1>6. ASSUME NEW r \in Runs, LeaseExpires(r) PROVE LogKept
  BY <1>0, <1>6, ExpireEffect DEF LeaseExpires, LogKept, SameElsewhere, SameRecord
<1>7. ASSUME NEW i \in Instances, Crash(i) PROVE LogKept
  BY <1>0, <1>7 DEF Crash, LogKept, SameRecord
<1>8. CASE UNCHANGED vars
  BY <1>0, <1>8 DEF vars, LogKept, SameRecord
<1>9. QED
  BY <1>1, <1>2, <1>3, <1>4, <1>5, <1>6, <1>7, <1>8 DEF Next

\* The event an append writes, in terms of the row before and after it.
NewEvent(h, s) == [run |-> h.run, seq |-> row[h.run].seq + 1, status |-> s,
                   fencing |-> row[h.run].fencing]

LEMMA AppendFacts ==
  ASSUME TypeOK, NEW h \in Handlers, NEW s \in WorkStatuses \union TerminalStatuses,
         AppendStateChange(h, s)
  PROVE  /\ Exists(h.run) /\ ~ IsTerminal(row[h.run].status)
         /\ row[h.run].fencing = token[h] /\ token[h] > 0
         /\ events' = events \union {NewEvent(h, s)}
         /\ outbox' = Append(outbox, [run |-> h.run, seq |-> row[h.run].seq + 1])
         /\ UNCHANGED <<checkpoints, admitted, token>>
BY DEF AppendStateChange, MayAppend, NextSeq, NewEvent

LEMMA EventFacts ==
  ASSUME TypeOK, NEW e \in events
  PROVE  e.run \in Runs /\ e.seq \in Nat /\ e.fencing \in Nat
BY DEF TypeOK, EventType

-----------------------------------------------------------------------------
(* The events of a run *)

LEMMA EventsInit == Init => EventBound /\ GapFreeSeq /\ TerminalIsLast /\ FencedOrder
BY DEF Init, EventBound, GapFreeSeq, TerminalIsLast, FencedOrder, AbsentRow

\* A step that keeps the log keeps what the log says.
LEMMA EventsKept ==
  ASSUME TypeOK, TypeOK', AbsentIsFresh, EventBound, GapFreeSeq, TerminalIsLast, FencedOrder,
         LogKept
  PROVE  EventBound' /\ GapFreeSeq' /\ TerminalIsLast' /\ FencedOrder'
<1>1. /\ events' = events
      /\ \A r \in Runs : /\ row'[r].seq = row[r].seq
                         /\ row[r].fencing <= row'[r].fencing
                         /\ Exists(r) => row'[r].status = row[r].status
  BY DEF LogKept, SameRecord
<1>2. \A r \in Runs : /\ row[r].seq \in Nat /\ row'[r].seq \in Nat
                      /\ row[r].fencing \in Nat /\ row'[r].fencing \in Nat
  BY RowFacts DEF TypeOK, RowType
<1>3. \A e \in events : e.run \in Runs /\ e.seq \in Nat /\ e.fencing \in Nat
  BY EventFacts
<1>4. EventBound'
  BY <1>1, <1>2, <1>3 DEF EventBound
<1>5. GapFreeSeq'
  BY <1>1, <1>3 DEF GapFreeSeq
<1>6. \A e \in events : Exists(e.run)
  BY <1>2, <1>3 DEF GapFreeSeq, AbsentIsFresh
<1>7. TerminalIsLast'
  BY <1>1, <1>3, <1>6 DEF TerminalIsLast, IsTerminal
<1>8. FencedOrder'
  BY <1>1 DEF FencedOrder
<1>9. QED BY <1>4, <1>5, <1>7, <1>8

\* The new event has the next seq and the fencing version of the row, which
\* bound everything written before it.
LEMMA EventsAppend ==
  ASSUME TypeOK, TypeOK', EventBound, GapFreeSeq, TerminalIsLast, FencedOrder,
         NEW h \in Handlers, NEW s \in WorkStatuses \union TerminalStatuses,
         AppendStateChange(h, s)
  PROVE  EventBound' /\ GapFreeSeq' /\ TerminalIsLast' /\ FencedOrder'
<1> DEFINE n == NewEvent(h, s)
<1>1. /\ ~ IsTerminal(row[h.run].status)
      /\ events' = events \union {n}
  BY AppendFacts
<1>2. /\ row'[h.run].seq = row[h.run].seq + 1
      /\ row'[h.run].status = s
      /\ row'[h.run].fencing = row[h.run].fencing
      /\ \A q \in Runs \ {h.run} : row'[q] = row[q]
  BY AppendEffect DEF SameElsewhere
<1>3. /\ n.run = h.run /\ n.seq = row[h.run].seq + 1 /\ n.status = s
      /\ n.fencing = row[h.run].fencing
  BY DEF NewEvent
<1>4. h.run \in Runs /\ \A r \in Runs : row[r].seq \in Nat /\ row[r].fencing \in Nat
  BY HandlerFacts, RowFacts
<1>5. \A e \in events : e.run \in Runs /\ e.seq \in Nat /\ e.fencing \in Nat
  BY EventFacts
<1>6. \A e \in events : e.run = h.run =>
        e.seq < n.seq /\ e.fencing <= n.fencing /\ ~ IsTerminal(e.status)
  BY <1>1, <1>3, <1>4, <1>5 DEF EventBound, GapFreeSeq, TerminalIsLast
<1> HIDE DEF n
<1>7. EventBound'
  BY <1>1, <1>2, <1>3, <1>4, <1>5 DEF EventBound
<1>8. GapFreeSeq'
  <2>1. \A e \in events' : 1 <= e.seq /\ e.seq <= row'[e.run].seq
    BY <1>1, <1>2, <1>3, <1>4, <1>5 DEF GapFreeSeq
  <2>2. ASSUME NEW r \in Runs, NEW m \in 1..row'[r].seq
        PROVE  \E e \in events' : e.run = r /\ e.seq = m
    <3>1. CASE r = h.run /\ m = n.seq
      BY <1>1, <1>3, <3>1
    <3>2. CASE ~ (r = h.run /\ m = n.seq)
      <4>1. m \in 1..row[r].seq
        BY <1>2, <1>3, <1>4, <3>2
      <4>2. QED BY <1>1, <4>1 DEF GapFreeSeq
    <3>3. QED BY <3>1, <3>2
  <2>3. \A e, f \in events' : e.run = f.run /\ e.seq = f.seq => e = f
    BY <1>1, <1>3, <1>4, <1>5, <1>6 DEF GapFreeSeq
  <2>4. QED BY <2>1, <2>2, <2>3 DEF GapFreeSeq
<1>9. TerminalIsLast'
  <2>1. ASSUME NEW e \in events', IsTerminal(e.status)
        PROVE  e.seq = row'[e.run].seq /\ row'[e.run].status = e.status
    <3>1. CASE e = n
      BY <1>2, <1>3, <3>1
    <3>2. CASE e # n
      <4>1. e \in events /\ e.run # h.run /\ e.run \in Runs
        BY <1>1, <1>5, <1>6, <2>1, <3>2
      <4>2. QED BY <1>2, <2>1, <4>1 DEF TerminalIsLast
    <3>3. QED BY <3>1, <3>2
  <2>2. QED BY <2>1 DEF TerminalIsLast, IsTerminal
<1>10. FencedOrder'
  <2>1. ASSUME NEW e \in events', NEW f \in events', e.run = f.run, e.seq < f.seq
        PROVE  e.fencing <= f.fencing
    <3>1. CASE e \in events /\ f \in events
      BY <2>1, <3>1 DEF FencedOrder
    <3>2. CASE f = n
      BY <1>1, <1>3, <1>4, <1>6, <2>1, <3>2
    <3>3. CASE e = n /\ f \in events
      BY <1>3, <1>4, <1>5, <1>6, <2>1, <3>3
    <3>4. QED BY <1>1, <3>1, <3>2, <3>3
  <2>2. QED BY <2>1 DEF FencedOrder
<1>11. QED BY <1>7, <1>8, <1>9, <1>10

LEMMA EventsNext ==
  ASSUME TypeOK, TypeOK', AbsentIsFresh, EventBound, GapFreeSeq, TerminalIsLast, FencedOrder,
         [Next]_vars
  PROVE  EventBound' /\ GapFreeSeq' /\ TerminalIsLast' /\ FencedOrder'
BY LogStep, EventsKept, EventsAppend

-----------------------------------------------------------------------------
(* Rows and leases *)

LEMMA RowsInit == Init => AbsentIsFresh /\ LiveHasOwner
BY DEF Init, AbsentIsFresh, LiveHasOwner, AbsentRow, Exists

LEMMA RowsNext ==
  ASSUME TypeOK, TokenBound, AbsentIsFresh, LiveHasOwner, [Next]_vars
  PROVE  AbsentIsFresh' /\ LiveHasOwner'
<1> USE DEF AbsentIsFresh, LiveHasOwner, Exists, SameElsewhere, SameRecord
<1>1. ASSUME NEW h \in Handlers, AcceptRun(h) PROVE AbsentIsFresh' /\ LiveHasOwner'
  <2>1. CASE IsReplay(h)
    BY <1>1, <2>1 DEF AcceptRun
  <2>2. CASE ~ IsReplay(h)
    <3>1. /\ row'[h.run].live = FALSE /\ row'[h.run].status # "absent"
          /\ SameElsewhere(h.run)
      BY <1>1, <2>2, AcceptEffect, NewRowFields
    <3>2. QED BY <3>1
  <2>3. QED BY <2>1, <2>2
<1>2. ASSUME NEW h \in Handlers, AcquireLease(h) PROVE AbsentIsFresh' /\ LiveHasOwner'
  <2>1. /\ SameElsewhere(h.run) /\ SameRecord(h.run)
        /\ row'[h.run].owner = h.instance
    BY <1>2, AcquireEffect
  <2>2. Exists(h.run) /\ h.instance # NoInstance
    BY <1>2, HandlerFacts, NullAssumption DEF AcquireLease
  <2>3. QED BY <2>1, <2>2
<1>3. ASSUME NEW h \in Handlers, RenewLease(h) PROVE AbsentIsFresh' /\ LiveHasOwner'
  <2>1. /\ SameElsewhere(h.run) /\ SameRecord(h.run)
        /\ row'[h.run].owner = row[h.run].owner
    BY <1>3, RenewEffect
  <2>2. /\ h.run \in Runs /\ h.instance # NoInstance
        /\ row[h.run].owner = h.instance /\ row[h.run].fencing # 0
    BY <1>3, HandlerFacts, NullAssumption DEF RenewLease
  <2>3. Exists(h.run)
    BY <2>2
  <2>4. QED BY <2>1, <2>2, <2>3
<1>4. ASSUME NEW h \in Handlers, ReleaseLease(h) PROVE AbsentIsFresh' /\ LiveHasOwner'
  <2>1. /\ SameElsewhere(h.run) /\ SameRecord(h.run)
        /\ row'[h.run].fencing = row[h.run].fencing
        /\ \/ row'[h.run] = row[h.run]
           \/ row'[h.run].owner = NoInstance /\ row'[h.run].live = FALSE
    BY <1>4, ReleaseEffect
  <2>2. QED BY <2>1
<1>5. ASSUME NEW h \in Handlers, NEW s \in WorkStatuses \union TerminalStatuses,
             AppendStateChange(h, s)
      PROVE  AbsentIsFresh' /\ LiveHasOwner'
  <2>1. /\ SameElsewhere(h.run)
        /\ row'[h.run].status = s
        /\ row'[h.run].owner = row[h.run].owner
        /\ row'[h.run].live = row[h.run].live
    BY <1>5, AppendEffect
  <2>2. s # "absent"
    BY StatusAssumption DEF TerminalStatuses
  <2>3. QED BY <2>1, <2>2
<1>6. ASSUME NEW h \in Handlers, SaveCheckpoint(h) PROVE AbsentIsFresh' /\ LiveHasOwner'
  BY <1>6 DEF SaveCheckpoint
<1>7. ASSUME NEW r \in Runs, LeaseExpires(r) PROVE AbsentIsFresh' /\ LiveHasOwner'
  <2>1. /\ SameElsewhere(r) /\ SameRecord(r)
        /\ row'[r].fencing = row[r].fencing
        /\ row'[r].live = FALSE
    BY <1>7, ExpireEffect
  <2>2. QED BY <2>1
<1>8. ASSUME NEW i \in Instances, Crash(i) PROVE AbsentIsFresh' /\ LiveHasOwner'
  BY <1>8 DEF Crash
<1>9. CASE UNCHANGED vars
  BY <1>9 DEF vars
<1>10. QED
  BY <1>1, <1>2, <1>3, <1>4, <1>5, <1>6, <1>7, <1>8, <1>9 DEF Next

-----------------------------------------------------------------------------
(* Fencing versions *)

\* Fencing versions never go down: by LogStep and, for an append, AppendEffect.
LEMMA FencingGrows ==
  ASSUME TypeOK, TypeOK', AbsentIsFresh, [Next]_vars
  PROVE  \A r \in Runs : row[r].fencing <= row'[r].fencing
<1>1. ASSUME LogKept PROVE \A r \in Runs : row[r].fencing <= row'[r].fencing
  BY <1>1 DEF LogKept
<1>2. ASSUME NEW h \in Handlers, NEW s \in WorkStatuses \union TerminalStatuses,
             AppendStateChange(h, s)
      PROVE  \A r \in Runs : row[r].fencing <= row'[r].fencing
  <2>1. /\ \A q \in Runs \ {h.run} : row'[q] = row[q]
        /\ row'[h.run].fencing = row[h.run].fencing
    BY <1>2, AppendEffect DEF SameElsewhere
  <2>2. \A r \in Runs : row[r].fencing \in Nat
    BY RowFacts
  <2>3. QED BY <2>1, <2>2
<1>3. QED BY <1>1, <1>2, LogStep

LEMMA TokensInit == Init => TokenBound /\ OneHolderPerToken
BY HandlersAssumption DEF Init, TokenBound, OneHolderPerToken, AbsentRow

\* AcquireLease grants a version above every one that is held; every other
\* step only drops some.
LEMMA TokensNext ==
  ASSUME TypeOK, TypeOK', AbsentIsFresh, TokenBound, OneHolderPerToken, [Next]_vars
  PROVE  TokenBound' /\ OneHolderPerToken'
<1>1. \A h \in Handlers : /\ h.run \in Runs
                          /\ token[h] \in Nat /\ token'[h] \in Nat
                          /\ row[h.run].fencing \in Nat /\ row'[h.run].fencing \in Nat
  BY HandlerFacts, RowFacts DEF TypeOK, RowType
<1>2. ASSUME NEW h \in Handlers, AcquireLease(h) PROVE TokenBound' /\ OneHolderPerToken'
  <2>1. /\ \A q \in Runs \ {h.run} : row'[q] = row[q]
        /\ row'[h.run].fencing = row[h.run].fencing + 1
    BY <1>2, AcquireEffect DEF SameElsewhere
  <2>2. /\ token'[h] = row[h.run].fencing + 1
        /\ \A g \in Handlers \ {h} : token'[g] = token[g]
    BY <1>2 DEF AcquireLease, Granted, TypeOK
  <2>3. TokenBound'
    BY <1>1, <2>1, <2>2 DEF TokenBound
  <2>4. \A g \in Handlers : g.run = h.run => token[g] < token'[h]
    BY <1>1, <2>2 DEF TokenBound
  <2>5. ASSUME NEW f \in Handlers, NEW g \in Handlers, f.run = g.run,
               token'[f] = token'[g], token'[f] > 0
        PROVE  f = g
    <3>1. CASE f = h \/ g = h
      BY <1>1, <2>2, <2>4, <2>5, <3>1
    <3>2. CASE f # h /\ g # h
      BY <2>2, <2>5, <3>2 DEF OneHolderPerToken
    <3>3. QED BY <3>1, <3>2
  <2>6. QED BY <2>3, <2>5 DEF OneHolderPerToken
<1>3. ASSUME \A h \in Handlers : token'[h] = token[h] \/ token'[h] = 0,
             \A r \in Runs : row[r].fencing <= row'[r].fencing
      PROVE  TokenBound' /\ OneHolderPerToken'
  <2>1. TokenBound'
    BY <1>1, <1>3 DEF TokenBound
  <2>2. OneHolderPerToken'
    BY <1>1, <1>3 DEF OneHolderPerToken
  <2>3. QED BY <2>1, <2>2
<1>4. ASSUME ~ \E h \in Handlers : AcquireLease(h)
      PROVE  \A h \in Handlers : token'[h] = token[h] \/ token'[h] = 0
  <2>1. ASSUME NEW g \in Handlers, ReleaseLease(g)
        PROVE  \A h \in Handlers : token'[h] = token[h] \/ token'[h] = 0
    BY <2>1 DEF ReleaseLease, TypeOK
  <2>2. ASSUME NEW i \in Instances, Crash(i)
        PROVE  \A h \in Handlers : token'[h] = token[h] \/ token'[h] = 0
    BY <2>2 DEF Crash, TypeOK
  <2>3. CASE token' = token
    BY <2>3
  <2>4. QED
    BY <1>4, <2>1, <2>2, <2>3 DEF Next, vars, AcceptRun, RenewLease, AppendStateChange,
       SaveCheckpoint, LeaseExpires
<1>5. \A r \in Runs : row[r].fencing <= row'[r].fencing
  BY FencingGrows
<1>6. QED BY <1>2, <1>3, <1>4, <1>5

-----------------------------------------------------------------------------
(* Checkpoints *)

LEMMA CheckpointsInit == Init => CheckpointBound /\ CheckpointsDense /\ CheckpointsFenced
BY DEF Init, CheckpointBound, CheckpointsDense, CheckpointsFenced

\* The version that is saved is the lowest free one, so it is the highest of
\* its run, and it carries the highest fencing version of its run.
LEMMA CheckpointsNext ==
  ASSUME TypeOK, TypeOK', AbsentIsFresh, CheckpointBound, CheckpointsDense, CheckpointsFenced,
         [Next]_vars
  PROVE  CheckpointBound' /\ CheckpointsDense' /\ CheckpointsFenced'
<1>1. \A r \in Runs : /\ row[r].fencing \in Nat /\ row'[r].fencing \in Nat
                      /\ row[r].fencing <= row'[r].fencing
  BY RowFacts, FencingGrows DEF TypeOK, RowType
<1>2. \A c \in checkpoints : c.run \in Runs /\ c.version \in Nat /\ c.fencing \in Nat
  BY DEF TypeOK
<1>3. ASSUME checkpoints' = checkpoints
      PROVE  CheckpointBound' /\ CheckpointsDense' /\ CheckpointsFenced'
  <2>1. CheckpointBound'
    BY <1>1, <1>2, <1>3 DEF CheckpointBound
  <2>2. QED BY <1>3, <2>1 DEF CheckpointsDense, CheckpointsFenced, Versions
<1>4. ASSUME NEW h \in Handlers, SaveCheckpoint(h)
      PROVE  CheckpointBound' /\ CheckpointsDense' /\ CheckpointsFenced'
  <2>1. PICK v \in 1..MaxSeq :
          /\ v \notin Versions(h.run)
          /\ \A w \in 1..MaxSeq : w < v => w \in Versions(h.run)
          /\ checkpoints' = checkpoints \union
               {[run |-> h.run, version |-> v, fencing |-> token[h]]}
    BY <1>4 DEF SaveCheckpoint
  <2> DEFINE n == [run |-> h.run, version |-> v, fencing |-> token[h]]
  <2>2. row' = row /\ row[h.run].fencing = token[h] /\ h.run \in Runs /\ v \in Nat
    BY <1>4, BoundAssumption, HandlerFacts DEF SaveCheckpoint, MayCheckpoint
  <2>3. /\ n.run = h.run /\ n.version = v /\ n.fencing = row[h.run].fencing
        /\ checkpoints' = checkpoints \union {n}
    BY <2>1, <2>2
  <2>4. \A c \in checkpoints : c.run = h.run => c.version < v /\ c.fencing <= n.fencing
    <3>1. ASSUME NEW c \in checkpoints, c.run = h.run
          PROVE  c.version < v
      <4>1. c.version # v
        BY <2>1, <3>1 DEF Versions
      <4>2. ~ v < c.version
        BY <2>1, <3>1 DEF CheckpointsDense
      <4>3. QED BY <1>2, <2>2, <4>1, <4>2
    <3>2. QED BY <2>3, <3>1 DEF CheckpointBound
  <2> HIDE DEF n
  <2>5. CheckpointBound'
    BY <1>1, <2>2, <2>3 DEF CheckpointBound
  <2>6. CheckpointsDense'
    <3>1. ASSUME NEW c \in checkpoints', NEW w \in 1..MaxSeq, w < c.version
          PROVE  \E d \in checkpoints' : d.run = c.run /\ d.version = w
      <4>1. CASE c = n
        BY <2>1, <2>3, <3>1, <4>1 DEF Versions
      <4>2. CASE c \in checkpoints
        BY <2>3, <3>1, <4>2 DEF CheckpointsDense, Versions
      <4>3. QED BY <2>3, <4>1, <4>2
    <3>2. QED BY <3>1 DEF CheckpointsDense, Versions
  <2>7. CheckpointsFenced'
    <3>1. ASSUME NEW c \in checkpoints', NEW d \in checkpoints', c.run = d.run,
                 c.version < d.version
          PROVE  c.fencing <= d.fencing
      <4>1. CASE c \in checkpoints /\ d \in checkpoints
        BY <3>1, <4>1 DEF CheckpointsFenced
      <4>2. CASE d = n
        BY <1>1, <2>2, <2>3, <2>4, <3>1, <4>2
      <4>3. CASE c = n /\ d \in checkpoints
        BY <1>2, <2>2, <2>3, <2>4, <3>1, <4>3
      <4>4. QED BY <2>3, <4>1, <4>2, <4>3
    <3>2. QED BY <3>1 DEF CheckpointsFenced
  <2>8. QED BY <2>5, <2>6, <2>7
<1>5. ASSUME ~ \E h \in Handlers : SaveCheckpoint(h) PROVE checkpoints' = checkpoints
  BY <1>5 DEF Next, vars, AcceptRun, AcquireLease, RenewLease, ReleaseLease, AppendStateChange,
     LeaseExpires, Crash
<1>6. QED BY <1>3, <1>4, <1>5

-----------------------------------------------------------------------------
(* The outbox *)

LEMMA OutboxInit == Init => OutboxBound /\ OutboxInSeqOrder
BY DEF Init, OutboxBound, OutboxInSeqOrder

LEMMA OutboxNext ==
  ASSUME TypeOK, TypeOK', AbsentIsFresh, OutboxBound, OutboxInSeqOrder, [Next]_vars
  PROVE  OutboxBound' /\ OutboxInSeqOrder'
<1>1. \A r \in Runs : row[r].seq \in Nat
  BY RowFacts
<1>2. \A i \in DOMAIN outbox : outbox[i].run \in Runs /\ outbox[i].seq \in Nat
  <2>1. outbox \in Seq([run : Runs, seq : Nat])
    BY DEF TypeOK
  <2>2. \A i \in 1..Len(outbox) : outbox[i] \in [run : Runs, seq : Nat]
    BY <2>1, ElementOfSeq
  <2>3. DOMAIN outbox = 1..Len(outbox)
    BY <2>1, LenProperties
  <2>4. QED BY <2>2, <2>3
<1>3. ASSUME LogKept PROVE OutboxBound' /\ OutboxInSeqOrder'
  <2>1. outbox' = outbox /\ \A r \in Runs : row'[r].seq = row[r].seq
    BY <1>3 DEF LogKept
  <2>2. QED BY <1>2, <2>1 DEF OutboxBound, OutboxInSeqOrder
<1>4. ASSUME NEW h \in Handlers, NEW s \in WorkStatuses \union TerminalStatuses,
             AppendStateChange(h, s)
      PROVE  OutboxBound' /\ OutboxInSeqOrder'
  <2> DEFINE n == [run |-> h.run, seq |-> row[h.run].seq + 1]
  <2>1. /\ \A q \in Runs \ {h.run} : row'[q] = row[q]
        /\ row'[h.run].seq = row[h.run].seq + 1
    BY <1>4, AppendEffect DEF SameElsewhere
  <2>2. outbox' = Append(outbox, n)
    BY <1>4, AppendFacts
  <2>3. h.run \in Runs /\ row[h.run].seq \in Nat
    BY <1>1, HandlerFacts
  <2>4. n \in [run : Runs, seq : Nat] /\ outbox \in Seq([run : Runs, seq : Nat])
    BY <2>3 DEF TypeOK
  <2>5. n.run = h.run /\ n.seq = row[h.run].seq + 1
    OBVIOUS
  <2> HIDE DEF n
  <2>6. /\ Len(outbox) \in Nat
        /\ DOMAIN outbox = 1..Len(outbox)
        /\ DOMAIN outbox' = 1..(Len(outbox) + 1)
        /\ outbox'[Len(outbox) + 1] = n
        /\ \A i \in DOMAIN outbox : outbox'[i] = outbox[i]
    BY <2>2, <2>4
  <2>7. \A i \in DOMAIN outbox : outbox[i].run = h.run => outbox[i].seq < n.seq
    BY <1>2, <2>3, <2>5 DEF OutboxBound
  <2>8. \A i \in DOMAIN outbox' : i \in DOMAIN outbox \/ i = Len(outbox) + 1
    BY <2>6
  <2>9. OutboxBound'
    <3>1. ASSUME NEW i \in DOMAIN outbox' PROVE outbox'[i].seq <= row'[outbox'[i].run].seq
      <4>1. CASE i \in DOMAIN outbox
        <5>1. outbox'[i] = outbox[i] /\ outbox[i].seq <= row[outbox[i].run].seq
          BY <2>6, <4>1 DEF OutboxBound
        <5>2. QED BY <1>1, <1>2, <2>1, <4>1, <5>1
      <4>2. CASE i = Len(outbox) + 1
        BY <2>1, <2>3, <2>5, <2>6, <4>2
      <4>3. QED BY <2>8, <4>1, <4>2
    <3>2. QED BY <3>1 DEF OutboxBound
  <2>10. OutboxInSeqOrder'
    <3>1. ASSUME NEW i \in DOMAIN outbox', NEW j \in DOMAIN outbox',
                 i < j, outbox'[i].run = outbox'[j].run
          PROVE  outbox'[i].seq < outbox'[j].seq
      <4>1. i \in DOMAIN outbox
        BY <2>6, <3>1
      <4>2. CASE j \in DOMAIN outbox
        BY <2>6, <3>1, <4>1, <4>2 DEF OutboxInSeqOrder
      <4>3. CASE j = Len(outbox) + 1
        BY <2>5, <2>6, <2>7, <3>1, <4>1, <4>3
      <4>4. QED BY <2>8, <4>2, <4>3
    <3>2. QED BY <3>1 DEF OutboxInSeqOrder
  <2>11. QED BY <2>9, <2>10
<1>5. QED BY <1>3, <1>4, LogStep

-----------------------------------------------------------------------------
(* Requests *)

LEMMA RequestsInit == Init => AdmittedExists /\ RequestIdempotent
BY DEF Init, AdmittedExists, RequestIdempotent, AbsentRow, Exists

LEMMA RequestsNext ==
  ASSUME TypeOK, TypeOK', AbsentIsFresh, AdmittedExists, RequestIdempotent, [Next]_vars
  PROVE  AdmittedExists' /\ RequestIdempotent'
<1>1. \A h \in Handlers : h.run \in Runs
  BY HandlersAssumption
<1>2. admitted \subseteq Handlers
  BY DEF TypeOK
\* No step but an insertion touches the identity of a row.
<1>3. ASSUME admitted' \subseteq admitted,
             \A r \in Runs : /\ row'[r].request = row[r].request
                             /\ row'[r].principal = row[r].principal
                             /\ row'[r].status = "absent" <=> row[r].status = "absent"
      PROVE  AdmittedExists' /\ RequestIdempotent'
  <2>1. AdmittedExists'
    BY <1>1, <1>2, <1>3 DEF AdmittedExists, Exists
  <2>2. ASSUME NEW r \in Runs, NEW q \in Runs, row'[r].status # "absent",
               row'[q].status # "absent", row'[r].request = row'[q].request
        PROVE  r = q
    <3>1. row[r].status # "absent" /\ row[q].status # "absent"
      BY <1>3, <2>2
    <3>2. row[r].request = row[q].request
      BY <1>3, <2>2
    <3>3. QED BY <3>1, <3>2 DEF RequestIdempotent, Exists
  <2>3. \A g \in admitted' : row'[g.run].request = g.request
                           /\ row'[g.run].principal = g.principal
    BY <1>1, <1>2, <1>3 DEF RequestIdempotent
  <2>4. QED BY <2>1, <2>2, <2>3 DEF RequestIdempotent, Exists
<1>4. ASSUME NEW h \in Handlers, AcceptRun(h) PROVE AdmittedExists' /\ RequestIdempotent'
  <2>1. CASE IsReplay(h)
    <3>1. row' = row /\ admitted' = admitted \union {h}
      BY <1>4, <2>1 DEF AcceptRun
    <3>2. /\ Exists(h.run) /\ row[h.run].request = h.request
          /\ row[h.run].principal = h.principal
      BY <2>1 DEF IsReplay, RowOfRequest
    <3>3. QED BY <1>1, <1>2, <3>1, <3>2 DEF AdmittedExists, RequestIdempotent, Exists
  <2>2. CASE ~ IsReplay(h)
    <3>1. /\ row'[h.run].status = "accepted"
          /\ row'[h.run].request = h.request /\ row'[h.run].principal = h.principal
          /\ \A q \in Runs \ {h.run} : row'[q] = row[q]
          /\ IsNew(h)
      BY <1>4, <2>2, AcceptEffect, NewRowFields DEF SameElsewhere
    <3>2. admitted' = admitted \union {h}
      BY <1>4 DEF AcceptRun
    <3>3. /\ ~ Exists(h.run)
          /\ \A r \in Runs : Exists(r) => row[r].request # h.request
      BY <3>1 DEF IsNew, RowOfRequest
    <3>4. \A g \in admitted : g.run # h.run
      BY <3>3 DEF AdmittedExists
    <3>5. AdmittedExists'
      BY <1>1, <1>2, <3>1, <3>2, <3>4 DEF AdmittedExists, Exists
    <3>6. \A r, q \in Runs : row'[r].status # "absent" /\ row'[q].status # "absent"
                            /\ row'[r].request = row'[q].request => r = q
      BY <3>1, <3>3 DEF RequestIdempotent, Exists
    <3>7. \A g \in admitted' : row'[g.run].request = g.request
                             /\ row'[g.run].principal = g.principal
      BY <1>1, <1>2, <3>1, <3>2, <3>4 DEF RequestIdempotent
    <3>8. QED BY <3>5, <3>6, <3>7 DEF RequestIdempotent, Exists
  <2>3. QED BY <2>1, <2>2
<1>5. ASSUME NEW h \in Handlers, AcquireLease(h) PROVE AdmittedExists' /\ RequestIdempotent'
  <2>1. SameElsewhere(h.run) /\ SameRecord(h.run)
    BY <1>5, AcquireEffect
  <2>2. QED BY <1>3, <1>5, <2>1 DEF AcquireLease, SameElsewhere, SameRecord, Exists
<1>6. ASSUME NEW h \in Handlers, RenewLease(h) PROVE AdmittedExists' /\ RequestIdempotent'
  <2>1. SameElsewhere(h.run) /\ SameRecord(h.run)
    BY <1>6, RenewEffect
  <2>2. QED BY <1>3, <1>6, <2>1 DEF RenewLease, SameElsewhere, SameRecord, Exists
<1>7. ASSUME NEW h \in Handlers, ReleaseLease(h) PROVE AdmittedExists' /\ RequestIdempotent'
  <2>1. SameElsewhere(h.run) /\ SameRecord(h.run)
    BY <1>7, ReleaseEffect
  <2>2. QED BY <1>3, <1>7, <2>1 DEF ReleaseLease, SameElsewhere, SameRecord, Exists
<1>8. ASSUME NEW h \in Handlers, NEW s \in WorkStatuses \union TerminalStatuses,
             AppendStateChange(h, s)
      PROVE  AdmittedExists' /\ RequestIdempotent'
  <2>1. /\ SameElsewhere(h.run)
        /\ row'[h.run].status = s
        /\ row'[h.run].request = row[h.run].request
        /\ row'[h.run].principal = row[h.run].principal
    BY <1>8, AppendEffect
  <2>2. Exists(h.run) /\ admitted' = admitted
    BY <1>8, AppendFacts
  <2>3. s # "absent"
    BY StatusAssumption DEF TerminalStatuses
  <2>4. QED BY <1>3, <2>1, <2>2, <2>3 DEF SameElsewhere, Exists
<1>9. ASSUME NEW h \in Handlers, SaveCheckpoint(h) PROVE AdmittedExists' /\ RequestIdempotent'
  BY <1>3, <1>9 DEF SaveCheckpoint, Exists
<1>10. ASSUME NEW r \in Runs, LeaseExpires(r) PROVE AdmittedExists' /\ RequestIdempotent'
  <2>1. SameElsewhere(r) /\ SameRecord(r)
    BY <1>10, ExpireEffect
  <2>2. QED BY <1>3, <1>10, <2>1 DEF LeaseExpires, SameElsewhere, SameRecord, Exists
<1>11. ASSUME NEW i \in Instances, Crash(i) PROVE AdmittedExists' /\ RequestIdempotent'
  BY <1>3, <1>11 DEF Crash, Exists
<1>12. CASE UNCHANGED vars
  BY <1>12 DEF vars, AdmittedExists, RequestIdempotent, Exists
<1>13. QED
  BY <1>4, <1>5, <1>6, <1>7, <1>8, <1>9, <1>10, <1>11, <1>12 DEF Next

-----------------------------------------------------------------------------
LEMMA InvariantInit == Init => IInv
BY TypeInit, EventsInit, RowsInit, TokensInit, CheckpointsInit, OutboxInit, RequestsInit DEF IInv

LEMMA InvariantNext == IInv /\ [Next]_vars => IInv'
BY TypeNext, EventsNext, RowsNext, TokensNext, CheckpointsNext, OutboxNext, RequestsNext DEF IInv

(* The invariant holds in every reachable state, and with it its parts.      *)
THEOREM Invariant == Spec => []IInv
BY InvariantInit, InvariantNext, PTL DEF Spec

(* The events of a run are numbered 1..current_seq without a gap or a double *)
(* (AppendStateChange under the row lock).                                   *)
THEOREM SeqsAreGapFree == Spec => []GapFreeSeq
<1>1. IInv => GapFreeSeq
  BY DEF IInv
<1>2. QED BY <1>1, Invariant, PTL

(* A terminal event is the last one of its run (IsTerminal check).           *)
THEOREM TerminalEndsTheLog == Spec => []TerminalIsLast
<1>1. IInv => TerminalIsLast
  BY DEF IInv
<1>2. QED BY <1>1, Invariant, PTL

(* However many orchestrators take a run over from each other, the events of *)
(* a fenced owner never follow those of its successor.                       *)
THEOREM WritersAreFenced == Spec => []FencedOrder
<1>1. IInv => FencedOrder
  BY DEF IInv
<1>2. QED BY <1>1, Invariant, PTL

(* A fencing version is held by one handler at most.                         *)
THEOREM TokensAreExclusive == Spec => []OneHolderPerToken
<1>1. IInv => OneHolderPerToken
  BY DEF IInv
<1>2. QED BY <1>1, Invariant, PTL

(* The latest checkpoint, the one a resume loads, is from the newest writer. *)
THEOREM LatestCheckpointIsNewest == Spec => []CheckpointsFenced
<1>1. IInv => CheckpointsFenced
  BY DEF IInv
<1>2. QED BY <1>1, Invariant, PTL

(* Insertion order of the outbox is seq order of every run in it.            *)
THEOREM OutboxOrdered == Spec => []OutboxInSeqOrder
<1>1. IInv => OutboxInSeqOrder
  BY DEF IInv
<1>2. QED BY <1>1, Invariant, PTL

(* A request id belongs to one run, and to the principal that started it.    *)
THEOREM RequestsAreIdempotent == Spec => []RequestIdempotent
<1>1. IInv => RequestIdempotent
  BY DEF IInv
<1>2. QED BY <1>1, Invariant, PTL

-----------------------------------------------------------------------------
(* Action properties *)

LEMMA FrozenStep ==
  ASSUME IInv, [Next]_vars, NEW r \in Runs, IsTerminal(row[r].status)
  PROVE  /\ row'[r].status = row[r].status
         /\ row'[r].seq = row[r].seq
         /\ row'[r].fencing = row[r].fencing
<1> USE DEF SameElsewhere, SameRecord
<1>1. TypeOK /\ TypeOK' /\ Exists(r)
  BY TypeNext DEF IInv, IsTerminal, TerminalStatuses, Exists
<1>2. ASSUME NEW h \in Handlers, AcceptRun(h)
      PROVE  row'[r] = row[r]
  <2>1. CASE IsReplay(h)
    BY <1>2, <2>1 DEF AcceptRun
  <2>2. CASE ~ IsReplay(h)
    <3>1. SameElsewhere(h.run) /\ ~ Exists(h.run)
      BY <1>1, <1>2, <2>2, AcceptEffect DEF IsNew
    <3>2. QED BY <1>1, <3>1 DEF Exists
  <2>3. QED BY <2>1, <2>2
<1>3. ASSUME NEW h \in Handlers, AcquireLease(h)
      PROVE  row'[r] = row[r]
  <2>1. SameElsewhere(h.run) /\ ~ IsTerminal(row[h.run].status)
    BY <1>1, <1>3, AcquireEffect DEF AcquireLease
  <2>2. QED BY <2>1 DEF IsTerminal
<1>4. ASSUME NEW h \in Handlers, RenewLease(h)
      PROVE  row'[r] = row[r]
  <2>1. SameElsewhere(h.run) /\ ~ IsTerminal(row[h.run].status)
    BY <1>1, <1>4, RenewEffect DEF RenewLease
  <2>2. QED BY <2>1 DEF IsTerminal
<1>5. ASSUME NEW h \in Handlers, ReleaseLease(h)
      PROVE  SameRecord(r) /\ row'[r].fencing = row[r].fencing
  <2>1. /\ SameElsewhere(h.run) /\ SameRecord(h.run)
        /\ row'[h.run].fencing = row[h.run].fencing
    BY <1>1, <1>5, ReleaseEffect
  <2>2. QED BY <2>1
<1>6. ASSUME NEW h \in Handlers, NEW s \in WorkStatuses \union TerminalStatuses,
             AppendStateChange(h, s)
      PROVE  row'[r] = row[r]
  <2>1. SameElsewhere(h.run) /\ ~ IsTerminal(row[h.run].status)
    BY <1>1, <1>6, AppendEffect, AppendFacts
  <2>2. QED BY <2>1 DEF IsTerminal
<1>7. ASSUME NEW h \in Handlers, SaveCheckpoint(h)
      PROVE  row' = row
  BY <1>7 DEF SaveCheckpoint
<1>8. ASSUME NEW q \in Runs, LeaseExpires(q)
      PROVE  SameRecord(r) /\ row'[r].fencing = row[r].fencing
  <2>1. /\ SameElsewhere(q) /\ SameRecord(q)
        /\ row'[q].fencing = row[q].fencing
    BY <1>1, <1>8, ExpireEffect
  <2>2. QED BY <2>1
<1>9. ASSUME NEW i \in Instances, Crash(i)
      PROVE  row' = row
  BY <1>9 DEF Crash
<1>10. QED
  BY <1>2, <1>3, <1>4, <1>5, <1>6, <1>7, <1>8, <1>9 DEF Next, vars

(* Nobody changes a run that has reached a terminal status, whatever token   *)
(* it still holds.                                                           *)
THEOREM TerminalRunsAreFrozen == Spec => TerminalFrozen
<1>1. IInv /\ [Next]_vars =>
        [\A r \in Runs : IsTerminal(row[r].status) =>
           /\ row'[r].status = row[r].status
           /\ row'[r].seq = row[r].seq
           /\ row'[r].fencing = row[r].fencing]_vars
  BY FrozenStep
<1>2. QED BY <1>1, Invariant, PTL DEF Spec, TerminalFrozen

LEMMA LeaseStep ==
  ASSUME IInv, [Next]_vars, NEW r \in Runs, row[r].live, row[r].owner # row'[r].owner
  PROVE  row'[r].owner = NoInstance /\ ~ row'[r].live
<1> USE DEF SameElsewhere, SameRecord
<1>1. TypeOK /\ row[r].owner # NoInstance
  BY DEF IInv, LiveHasOwner
<1>2. ASSUME NEW h \in Handlers, AcceptRun(h)
      PROVE  row'[r] = row[r]
  <2>1. CASE IsReplay(h)
    BY <1>2, <2>1 DEF AcceptRun
  <2>2. CASE ~ IsReplay(h)
    <3>1. SameElsewhere(h.run) /\ ~ Exists(h.run)
      BY <1>1, <1>2, <2>2, AcceptEffect DEF IsNew
    <3>2. Exists(r)
      BY DEF IInv, AbsentIsFresh
    <3>3. QED BY <3>1, <3>2 DEF Exists
  <2>3. QED BY <2>1, <2>2
<1>3. ASSUME NEW h \in Handlers, AcquireLease(h)
      PROVE  row'[r].owner = row[r].owner
  <2>1. /\ SameElsewhere(h.run) /\ row'[h.run].owner = h.instance
        /\ ~ HeldByOther(h)
    BY <1>1, <1>3, AcquireEffect DEF AcquireLease
  <2>2. QED BY <1>1, <2>1 DEF HeldByOther
<1>4. ASSUME NEW h \in Handlers, RenewLease(h)
      PROVE  row'[r].owner = row[r].owner
  <2>1. SameElsewhere(h.run) /\ row'[h.run].owner = row[h.run].owner
    BY <1>1, <1>4, RenewEffect
  <2>2. QED BY <2>1
<1>5. ASSUME NEW h \in Handlers, ReleaseLease(h)
      PROVE  row'[r].owner = NoInstance /\ ~ row'[r].live
  <2>1. /\ SameElsewhere(h.run)
        /\ \/ row'[h.run] = row[h.run]
           \/ row'[h.run].owner = NoInstance /\ row'[h.run].live = FALSE
    BY <1>1, <1>5, ReleaseEffect
  <2>2. QED BY <2>1
<1>6. ASSUME NEW h \in Handlers, NEW s \in WorkStatuses \union TerminalStatuses,
             AppendStateChange(h, s)
      PROVE  row'[r].owner = row[r].owner
  <2>1. SameElsewhere(h.run) /\ row'[h.run].owner = row[h.run].owner
    BY <1>1, <1>6, AppendEffect
  <2>2. QED BY <2>1
<1>7. ASSUME NEW h \in Handlers, SaveCheckpoint(h)
      PROVE  row' = row
  BY <1>7 DEF SaveCheckpoint
<1>8. ASSUME NEW q \in Runs, LeaseExpires(q)
      PROVE  row'[r].owner = row[r].owner
  <2>1. SameElsewhere(q) /\ row'[q].owner = row[q].owner
    BY <1>1, <1>8, ExpireEffect
  <2>2. QED BY <2>1
<1>9. ASSUME NEW i \in Instances, Crash(i)
      PROVE  row' = row
  BY <1>9 DEF Crash
<1>10. QED
  BY <1>2, <1>3, <1>4, <1>5, <1>6, <1>7, <1>8, <1>9 DEF Next, vars

(* A live lease leaves its owner by release or expiry only: no other         *)
(* instance takes it (ErrLeaseHeld).                                         *)
THEOREM LeasesAreNotStolen == Spec => LiveLeaseNotStolen
<1>1. IInv /\ [Next]_vars =>
        [\A r \in Runs : row[r].live /\ row[r].owner # row'[r].owner
                        => row'[r].owner = NoInstance /\ ~ row'[r].live]_vars
  BY LeaseStep
<1>2. QED BY <1>1, Invariant, PTL DEF Spec, LiveLeaseNotStolen

-----------------------------------------------------------------------------
(* The ledger implements the event log *)

\* The refinement mapping of ExecutionLedger, by its name there.
LogOf(r) == [n \in 1..row[r].seq |-> StatusAt(r, n)]
LogBar   == [r \in Runs |-> LogOf(r)]

\* The event a seq stands for is unique: the log reads its status.
LEMMA StatusOfEvent ==
  ASSUME NEW E, NEW e \in E, NEW r, NEW n, e.run = r, e.seq = n,
         \A f, g \in E : f.run = g.run /\ f.seq = g.seq => f = g
  PROVE  (CHOOSE f \in E : f.run = r /\ f.seq = n) = e
OBVIOUS

\* Entries that are in the log stay what they are.
LEMMA EntriesStay ==
  ASSUME GapFreeSeq, GapFreeSeq', events \subseteq events',
         NEW r \in Runs, NEW n \in 1..row[r].seq
  PROVE  StatusAt(r, n)' = StatusAt(r, n)
<1>1. PICK e \in events : e.run = r /\ e.seq = n
  BY DEF GapFreeSeq
<1>2. /\ \A f, g \in events : f.run = g.run /\ f.seq = g.seq => f = g
      /\ \A f, g \in events' : f.run = g.run /\ f.seq = g.seq => f = g
  BY DEF GapFreeSeq
<1>3. (CHOOSE f \in events : f.run = r /\ f.seq = n) = e
  BY <1>1, <1>2, StatusOfEvent
<1>4. e \in events'
  OBVIOUS
<1>5. (CHOOSE f \in events' : f.run = r /\ f.seq = n) = e
  BY <1>1, <1>2, <1>4, StatusOfEvent
<1>6. QED BY <1>3, <1>5 DEF StatusAt

LEMMA KeptIsStutter ==
  ASSUME TypeOK, TypeOK', GapFreeSeq, GapFreeSeq', LogKept
  PROVE  LogBar' = LogBar
<1>1. \A r \in Runs : row'[r].seq = row[r].seq
  BY DEF LogKept
<1>2. events' = events
  BY DEF LogKept
<1>3. ASSUME NEW r \in Runs PROVE LogOf(r)' = LogOf(r)
  BY <1>1, <1>2 DEF LogOf, StatusAt
<1>4. QED BY <1>3 DEF LogBar

LEMMA AppendIsGrow ==
  ASSUME IInv, IInv',
         NEW h \in Handlers, NEW s \in WorkStatuses \union TerminalStatuses,
         AppendStateChange(h, s)
  PROVE  Log!Grow(h.run, s)
<1> DEFINE r == h.run
           k == row[h.run].seq
<1>1. /\ TypeOK /\ GapFreeSeq /\ GapFreeSeq' /\ TerminalIsLast
      /\ r \in Runs /\ k \in Nat
  BY HandlerFacts, RowFacts DEF IInv
<1>2. /\ ~ IsTerminal(row[r].status)
      /\ events' = events \union {NewEvent(h, s)}
      /\ row'[r].seq = k + 1
      /\ \A q \in Runs \ {r} : row'[q] = row[q]
  BY <1>1, AppendFacts, AppendEffect DEF SameElsewhere
<1>3. \A q \in Runs : LogBar[q] = LogOf(q) /\ LogBar'[q] = LogOf(q)'
  BY DEF LogBar
<1>4. LogOf(r) \in Seq(Statuses)
  <2>1. ASSUME NEW n \in 1..k PROVE StatusAt(r, n) \in Statuses
    <3>1. \E e \in events : e.run = r /\ e.seq = n
      BY <1>1 DEF GapFreeSeq
    <3>2. (CHOOSE e \in events : e.run = r /\ e.seq = n) \in events
      BY <3>1
    <3>3. QED BY <1>1, <3>2 DEF StatusAt, TypeOK, EventType, Statuses
  <2>2. QED BY <1>1, <2>1 DEF LogOf
<1>5. ASSUME NEW n, n = k + 1 PROVE StatusAt(r, n)' = s
  <2>1. NewEvent(h, s) \in events' /\ NewEvent(h, s).run = r /\ NewEvent(h, s).seq = k + 1
    BY <1>2 DEF NewEvent
  <2>2. \A f, g \in events' : f.run = g.run /\ f.seq = g.seq => f = g
    BY <1>1 DEF GapFreeSeq
  <2>3. (CHOOSE f \in events' : f.run = r /\ f.seq = n) = NewEvent(h, s)
    BY <1>5, <2>1, <2>2, StatusOfEvent
  <2>4. NewEvent(h, s).status = s
    BY DEF NewEvent
  <2>5. StatusAt(r, n)' = (CHOOSE f \in events' : f.run = r /\ f.seq = n).status
    BY DEF StatusAt
  <2>6. QED BY <2>3, <2>4, <2>5
<1>6. \A q \in Runs : \A n \in 1..row[q].seq : StatusAt(q, n)' = StatusAt(q, n)
  BY <1>1, <1>2, EntriesStay
<1>7. LogOf(r)' = Append(LogOf(r), s)
  <2>1. /\ LogOf(r) = [n \in 1..k |-> StatusAt(r, n)]
        /\ LogOf(r)' = [n \in 1..(k + 1) |-> StatusAt(r, n)']
    BY <1>2 DEF LogOf
  <2>2. Len(LogOf(r)) = k
    BY <1>1, <1>4, <2>1, LenProperties
  <2>3. s \in Statuses
    BY DEF Statuses
  <2>4. /\ Append(LogOf(r), s) \in Seq(Statuses)
        /\ Len(Append(LogOf(r), s)) = k + 1
        /\ \A n \in 1..k : Append(LogOf(r), s)[n] = LogOf(r)[n]
        /\ Append(LogOf(r), s)[k + 1] = s
    BY <1>4, <2>2, <2>3, AppendProperties
  <2>5. ASSUME NEW n \in 1..(k + 1)
        PROVE  StatusAt(r, n)' = Append(LogOf(r), s)[n]
    <3>1. CASE n = k + 1
      <4>1. StatusAt(r, n)' = s
        BY <1>5, <3>1
      <4>2. QED BY <2>4, <3>1, <4>1
    <3>2. CASE n \in 1..k
      BY <1>1, <1>6, <2>1, <2>4, <3>2
    <3>3. n = k + 1 \/ n \in 1..k
      BY <1>1
    <3>4. QED BY <3>1, <3>2, <3>3
  <2>6. Append(LogOf(r), s) = [n \in 1..(k + 1) |-> Append(LogOf(r), s)[n]]
    BY <1>1, <2>4, LenProperties
  <2>7. QED BY <2>1, <2>5, <2>6
<1>8. ASSUME NEW q \in Runs, q # r PROVE LogOf(q)' = LogOf(q)
  BY <1>2, <1>6, <1>8 DEF LogOf
<1>9. ~ (LogOf(r) # <<>> /\ LogOf(r)[Len(LogOf(r))] \in TerminalStatuses)
  <2>1. SUFFICES ASSUME LogOf(r) # <<>> PROVE LogOf(r)[Len(LogOf(r))] \notin TerminalStatuses
    OBVIOUS
  <2>2. /\ Len(LogOf(r)) = k /\ k # 0
        /\ LogOf(r)[k] = StatusAt(r, k)
    BY <1>1, <1>4, <2>1, LenProperties, EmptySeq DEF LogOf
  <2>3. PICK e \in events : e.run = r /\ e.seq = k
    BY <1>1, <2>2 DEF GapFreeSeq
  <2>4. \A f, g \in events : f.run = g.run /\ f.seq = g.seq => f = g
    BY <1>1 DEF GapFreeSeq
  <2>5. StatusAt(r, k) = e.status
    <3>1. (CHOOSE f \in events : f.run = r /\ f.seq = k) = e
      BY <2>3, <2>4, StatusOfEvent
    <3>2. QED BY <3>1 DEF StatusAt
  <2>6. e.status \notin TerminalStatuses
    BY <1>1, <1>2, <2>3 DEF TerminalIsLast, IsTerminal
  <2>7. QED BY <2>2, <2>5, <2>6
<1>10. LogBar' = [LogBar EXCEPT ![r] = Append(@, s)]
  BY <1>1, <1>7, <1>8 DEF LogBar
<1>11. QED
  BY <1>1, <1>3, <1>9, <1>10 DEF Log!Grow, Log!Closed, LogBar, LogOf

(* The rows and events implement one log per run that only grows at its end  *)
(* and is closed by its terminal entry: what the relay, replay and the       *)
(* projection read.                                                          *)
THEOREM LedgerImplementsEventLog == Spec => ImplementsEventLog
<1>1. Init => Log!Init
  <2>1. SUFFICES ASSUME Init PROVE LogBar = [r \in Runs |-> <<>>]
    BY DEF Log!Init, LogBar, LogOf
  <2>2. ASSUME NEW r \in Runs PROVE LogOf(r) = <<>>
    BY <2>1 DEF Init, AbsentRow, LogOf
  <2>3. QED BY <2>2 DEF LogBar
<1>2. IInv /\ IInv' /\ [Next]_vars => [Log!Next]_LogBar
  <2>1. SUFFICES ASSUME IInv, IInv', [Next]_vars PROVE Log!Next \/ LogBar' = LogBar
    OBVIOUS
  <2>2. ASSUME LogKept PROVE LogBar' = LogBar
    BY <2>1, <2>2, KeptIsStutter DEF IInv
  <2>3. ASSUME NEW h \in Handlers, NEW s \in WorkStatuses \union TerminalStatuses,
               AppendStateChange(h, s)
        PROVE  Log!Next
    <3>1. Log!Grow(h.run, s)
      BY <2>1, <2>3, AppendIsGrow
    <3>2. h.run \in Runs /\ s \in Statuses
      BY <2>1, HandlerFacts DEF IInv, Statuses
    <3>3. QED BY <3>1, <3>2 DEF Log!Next
  <2>4. QED BY <2>1, <2>2, <2>3, LogStep DEF IInv
<1>3. QED
  BY <1>1, <1>2, Invariant, PTL DEF Spec, ImplementsEventLog, Log!Spec, LogBar, LogOf
=============================================================================
