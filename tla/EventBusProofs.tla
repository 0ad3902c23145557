--------------------------- MODULE EventBusProofs ---------------------------
(***************************************************************************)
(* Proofs about the event bus.                                             *)
(*                                                                         *)
(* The per-run dispatcher, for any producers, work, mailbox size and       *)
(* number of goroutines.  A run with a worker is active (BusyIsActive), so *)
(* dispatch spawns none beside it, and the one that retires is the only    *)
(* one.  The tasks of a run that were accepted are those handled, then     *)
(* those in its mailbox (Mailbox); only stop drops some behind them.       *)
(*                                                                         *)
(* The Redis consumers of a group, as the instance B, for any entries,     *)
(* processes, attempts and failures.  What a loop or a worker acknowledges *)
(* was settled before (DeadIsWritten, AckedIsSettled), so no entry is lost *)
(* (KeptInv).  With one process the duplicate guard knows all that is done *)
(* (GuardKnows), and with a page that shows the whole pending list the     *)
(* attempts at an entry that may still be calls (Due) and the calls there  *)
(* were stay within its deliveries (Budget).                               *)
(***************************************************************************)
EXTENDS RunDispatcher, StreamConsumerState, SequenceTheorems, FiniteSetTheorems, TLAPS

-----------------------------------------------------------------------------
(* The inductive invariant *)

Busy(w) == worker[w] # Idle

BusyIsActive == \A w \in Workers : Busy(w) => active[worker[w].run]

\* h, then m, is the beginning of p; and they are all of it.
Begins(h, m, p) ==
  /\ Len(h) + Len(m) <= Len(p)
  /\ \A i \in 1 .. Len(h) : h[i] = p[i]
  /\ \A i \in 1 .. Len(m) : m[i] = p[Len(h) + i]

IsAll(h, m, p) == Len(h) + Len(m) = Len(p)

Mailbox ==
  \A r \in Runs :
    /\ Begins(handled[r], tasks[r], pushed[r])
    /\ stop = "no" => IsAll(handled[r], tasks[r], pushed[r])

IInv == TypeOK /\ BusyIsActive /\ OneWorkerPerRun /\ Mailbox

-----------------------------------------------------------------------------
(* The types *)

\* What a producer dispatches next is a task of a run.
LEMMA NextTaskType ==
  ASSUME TypeOK, NEW p \in Producers, Pending(p)
  PROVE  NextTask(p) \in Tasks /\ Work[p][sent[p] + 1] \in Runs
<1>1. sent[p] + 1 \in 1 .. Len(Work[p])
  BY WorkAssumption DEF TypeOK, Pending
<1>2. <<p, sent[p] + 1>> \in {p} \X (1 .. Len(Work[p]))
  BY <1>1
<1>3. sent[p] + 1 \in DOMAIN Work[p]
  BY <1>1, WorkAssumption
<1> QED BY <1>2, <1>3 DEF NextTask, Tasks, Runs

\* A worker that is somewhere in serve has a run.
LEMMA BusyFacts ==
  ASSUME TypeOK, NEW w \in Workers, worker[w].pc # "none"
  PROVE  Busy(w) /\ worker[w].run \in Runs
BY DEF TypeOK, Busy, Idle

LEMMA InitType == Init => TypeOK
<1> SUFFICES ASSUME Init PROVE TypeOK
  OBVIOUS
<1>1. /\ tasks \in [Runs -> Seq(Tasks)] /\ handled \in [Runs -> Seq(Tasks)]
      /\ pushed \in [Runs -> Seq(Tasks)]
  BY DEF Init
<1>2. \A r \in Runs : Len(tasks[r]) <= QueueSize
  BY SizeAssumption DEF Init
<1>3. worker \in [Workers -> [pc   : {"none", "select", "handling", "length", "release"},
                             run  : Runs \union {NoTask},
                             task : Tasks \union {NoTask}]]
  BY DEF Init, Idle
<1>4. \A w \in Workers : worker[w] = Idle
  BY DEF Init
<1> QED BY <1>1, <1>2, <1>3, <1>4 DEF Init, TypeOK

\* A retiring worker leaves a well typed state, and so does a spawn.
LEMMA RetireType ==
  ASSUME TypeOK, NEW w \in Workers, worker[w].pc # "none", Retire(w)
  PROVE  TypeOK'
<1>1. worker[w].run \in Runs
  BY BusyFacts
<1>2. /\ worker' = [worker EXCEPT ![w] = Idle]
      /\ queues' = queues \ {worker[w].run}
      /\ tasks' = [tasks EXCEPT ![worker[w].run] = <<>>]
      /\ active' = [active EXCEPT ![worker[w].run] = FALSE]
      /\ UNCHANGED <<sent, refused, handled, pushed, stop>>
  BY DEF Retire, QueuesWithout
<1>3. /\ worker' \in [Workers -> [pc   : {"none", "select", "handling", "length", "release"},
                                 run  : Runs \union {NoTask},
                                 task : Tasks \union {NoTask}]]
      /\ \A v \in Workers : worker'[v] # Idle => worker'[v].pc # "none" /\ worker'[v].run \in Runs
  BY <1>2 DEF TypeOK, Idle
<1>4. /\ tasks' \in [Runs -> Seq(Tasks)]
      /\ \A r \in Runs : Len(tasks'[r]) <= QueueSize
  BY <1>1, <1>2, SizeAssumption DEF TypeOK
<1> QED BY <1>1, <1>2, <1>3, <1>4 DEF TypeOK, Idle

LEMMA SpawnType ==
  ASSUME TypeOK, NEW r \in Runs, Spawn(r)
  PROVE  /\ worker' \in [Workers -> [pc   : {"none", "select", "handling", "length", "release"},
                                    run  : Runs \union {NoTask},
                                    task : Tasks \union {NoTask}]]
         /\ \A w \in Workers : worker'[w] # Idle => worker'[w].pc # "none" /\ worker'[w].run \in Runs
<1>1. CASE UNCHANGED worker
  BY <1>1 DEF TypeOK, Idle
<1>2. CASE \E w \in Workers : worker' = [worker EXCEPT ![w] = [pc |-> "select", run |-> r, task |-> NoTask]]
  <2> DEFINE new == [pc |-> "select", run |-> r, task |-> NoTask]
  <2>1. PICK w \in Workers : worker' = [worker EXCEPT ![w] = new]
    BY <1>2
  <2>2. /\ new \in [pc   : {"none", "select", "handling", "length", "release"},
                    run  : Runs \union {NoTask},
                    task : Tasks \union {NoTask}]
        /\ new.pc # "none" /\ new.run \in Runs
    OBVIOUS
  <2> HIDE DEF new
  <2>3. \A v \in Workers : worker'[v] = IF v = w THEN new ELSE worker[v]
    BY <2>1 DEF TypeOK
  <2>4. worker' \in [Workers -> [pc   : {"none", "select", "handling", "length", "release"},
                                run  : Runs \union {NoTask},
                                task : Tasks \union {NoTask}]]
    BY <2>1, <2>2 DEF TypeOK
  <2> QED BY <2>2, <2>3, <2>4 DEF TypeOK
<1> QED BY <1>1, <1>2 DEF Spawn, NewWorker

LEMMA DispatchType ==
  ASSUME TypeOK, NEW p \in Producers, Dispatch(p)
  PROVE  TypeOK'
<1> DEFINE r == Work[p][sent[p] + 1]
<1>1. NextTask(p) \in Tasks /\ r \in Runs
  BY NextTaskType DEF Dispatch
<1>2. Spawn(r)
  BY DEF Dispatch
<1>3. /\ tasks' = [tasks EXCEPT ![r] = Append(@, NextTask(p))]
      /\ pushed' = [pushed EXCEPT ![r] = Append(@, NextTask(p))]
      /\ Len(tasks[r]) < QueueSize
      /\ sent' = [sent EXCEPT ![p] = @ + 1]
      /\ queues' = queues \union {r}
      /\ active' = [active EXCEPT ![r] = TRUE]
      /\ UNCHANGED <<refused, handled, stop>>
  BY DEF Dispatch, HasRoom
<1>4. tasks[r] \in Seq(Tasks) /\ pushed[r] \in Seq(Tasks)
  BY <1>1 DEF TypeOK
<1>5. Append(tasks[r], NextTask(p)) \in Seq(Tasks) /\ Append(pushed[r], NextTask(p)) \in Seq(Tasks)
  BY <1>1, <1>4
<1>6. Len(Append(tasks[r], NextTask(p))) <= QueueSize
  BY <1>3, <1>4, SizeAssumption
<1>7. /\ tasks' \in [Runs -> Seq(Tasks)] /\ pushed' \in [Runs -> Seq(Tasks)]
      /\ \A q \in Runs : Len(tasks'[q]) <= QueueSize
  BY <1>1, <1>3, <1>5, <1>6 DEF TypeOK
<1> HIDE DEF r
<1>8. sent' \in [Producers -> Nat] /\ queues' \subseteq Runs /\ active' \in [Runs -> BOOLEAN]
      /\ refused' \subseteq Producers /\ handled' \in [Runs -> Seq(Tasks)]
      /\ stop' \in {"no", "stopped", "closed", "returned"}
  BY <1>1, <1>3 DEF TypeOK
<1> QED BY <1>1, <1>2, <1>7, <1>8, SpawnType DEF TypeOK, Idle

\* A worker that goes to another place in serve stays well typed.
LEMMA GoesType ==
  ASSUME TypeOK, NEW w \in Workers, worker[w].pc # "none",
         NEW l \in {"select", "handling", "length", "release"}, NEW t \in Tasks \union {NoTask},
         Goes(w, l, t)
  PROVE  /\ worker' \in [Workers -> [pc   : {"none", "select", "handling", "length", "release"},
                                    run  : Runs \union {NoTask},
                                    task : Tasks \union {NoTask}]]
         /\ \A v \in Workers : worker'[v] # Idle => worker'[v].pc # "none" /\ worker'[v].run \in Runs
<1> DEFINE new == [pc |-> l, run |-> worker[w].run, task |-> t]
<1>1. worker' = [worker EXCEPT ![w] = new]
  BY DEF Goes
<1>2. worker[w].run \in Runs
  BY BusyFacts
<1>3. /\ new \in [pc   : {"none", "select", "handling", "length", "release"},
                  run  : Runs \union {NoTask},
                  task : Tasks \union {NoTask}]
      /\ new.pc # "none" /\ new.run \in Runs
  BY <1>2
<1> HIDE DEF new
<1>4. \A v \in Workers : worker'[v] = IF v = w THEN new ELSE worker[v]
  BY <1>1 DEF TypeOK
<1>5. worker' \in [Workers -> [pc   : {"none", "select", "handling", "length", "release"},
                              run  : Runs \union {NoTask},
                              task : Tasks \union {NoTask}]]
  BY <1>1, <1>3 DEF TypeOK
<1> QED BY <1>3, <1>4, <1>5 DEF TypeOK

LEMMA TakeType ==
  ASSUME TypeOK, NEW w \in Workers, Take(w)
  PROVE  TypeOK'
<1> DEFINE r == worker[w].run
<1>1. r \in Runs /\ tasks[r] # <<>>
  BY BusyFacts DEF Take, At
<1>2. tasks[r] \in Seq(Tasks) /\ handled[r] \in Seq(Tasks) /\ Len(tasks[r]) <= QueueSize
  BY <1>1 DEF TypeOK
<1>3. /\ Head(tasks[r]) \in Tasks /\ Tail(tasks[r]) \in Seq(Tasks)
      /\ Len(Tail(tasks[r])) <= QueueSize
      /\ Append(handled[r], Head(tasks[r])) \in Seq(Tasks)
  BY <1>1, <1>2, SizeAssumption
<1>4. /\ tasks' = [tasks EXCEPT ![r] = Tail(@)]
      /\ Goes(w, "handling", Head(tasks[r])) /\ worker[w].pc # "none"
      /\ handled' = [handled EXCEPT ![r] = Append(@, Head(tasks[r]))]
      /\ UNCHANGED <<sent, refused, queues, active, pushed, stop>>
  BY DEF Take, At
<1>5. /\ tasks' \in [Runs -> Seq(Tasks)] /\ handled' \in [Runs -> Seq(Tasks)]
      /\ \A q \in Runs : Len(tasks'[q]) <= QueueSize
  BY <1>1, <1>3, <1>4 DEF TypeOK
<1>6. /\ worker' \in [Workers -> [pc   : {"none", "select", "handling", "length", "release"},
                                 run  : Runs \union {NoTask},
                                 task : Tasks \union {NoTask}]]
      /\ \A v \in Workers : worker'[v] # Idle => worker'[v].pc # "none" /\ worker'[v].run \in Runs
  BY <1>3, <1>4, GoesType
<1> QED BY <1>4, <1>5, <1>6 DEF TypeOK, Idle

LEMMA MoveType ==
  ASSUME TypeOK, NEW w \in Workers, worker[w].pc # "none",
         NEW l \in {"select", "length", "release"}, Goes(w, l, NoTask),
         UNCHANGED <<sent, refused, queues, tasks, active, handled, pushed, stop>>
  PROVE  TypeOK'
<1>1. /\ worker' \in [Workers -> [pc   : {"none", "select", "handling", "length", "release"},
                                 run  : Runs \union {NoTask},
                                 task : Tasks \union {NoTask}]]
      /\ \A v \in Workers : worker'[v] # Idle => worker'[v].pc # "none" /\ worker'[v].run \in Runs
  BY GoesType
<1> QED BY <1>1 DEF TypeOK, Idle

LEMMA TypeStep == TypeOK /\ [Next]_vars => TypeOK'
<1> SUFFICES ASSUME TypeOK, [Next]_vars PROVE TypeOK'
  OBVIOUS
<1>1. CASE \E p \in Producers : Dispatch(p)
  BY <1>1, DispatchType
<1>2. CASE \E p \in Producers : Refuse(p) \/ GiveUp(p)
  BY <1>2 DEF Refuse, GiveUp, TypeOK, Idle
<1>3. CASE \E w \in Workers : Take(w)
  BY <1>3, TakeType
<1>4. CASE \E w \in Workers : HandlerReturns(w)
  <2> PICK w \in Workers : HandlerReturns(w)
    BY <1>4
  <2>1. /\ Goes(w, "length", NoTask)
        /\ worker[w].pc # "none"
        /\ UNCHANGED <<sent, refused, queues, tasks, active, handled, pushed, stop>>
    BY DEF HandlerReturns, At
  <2> QED BY <2>1, MoveType
<1>5. CASE \E w \in Workers : ReadLength(w)
  <2> PICK w \in Workers : ReadLength(w)
    BY <1>5
  <2> DEFINE l == IF tasks[worker[w].run] = <<>> THEN "release" ELSE "select"
  <2>1. /\ Goes(w, l, NoTask)
        /\ worker[w].pc # "none"
        /\ UNCHANGED <<sent, refused, queues, tasks, active, handled, pushed, stop>>
    BY DEF ReadLength, At
  <2>2. l \in {"select", "length", "release"}
    OBVIOUS
  <2> HIDE DEF l
  <2> QED BY <2>1, <2>2, MoveType
<1>6. CASE \E w \in Workers : ReleaseIfEmpty(w)
  <2> PICK w \in Workers : ReleaseIfEmpty(w)
    BY <1>6
  <2>0. worker[w].pc # "none"
    BY DEF ReleaseIfEmpty, At
  <2>1. CASE Retire(w)
    BY <2>0, <2>1, RetireType
  <2>2. CASE /\ Goes(w, "select", NoTask)
             /\ UNCHANGED <<sent, refused, queues, tasks, active, handled, pushed, stop>>
    BY <2>0, <2>2, MoveType
  <2> QED BY <2>1, <2>2 DEF ReleaseIfEmpty
<1>7. CASE \E w \in Workers : Release(w)
  BY <1>7, RetireType DEF Release, At
<1>8. CASE SetStopped \/ CloseDone \/ StopReturns
  BY <1>8 DEF SetStopped, CloseDone, StopReturns, TypeOK, Idle
<1>9. CASE UNCHANGED vars
  BY <1>9 DEF vars, TypeOK, Idle
<1> QED BY <1>1, <1>2, <1>3, <1>4, <1>5, <1>6, <1>7, <1>8, <1>9 DEF Next, ServeStep

-----------------------------------------------------------------------------
(* One worker per run *)

\* A worker that moves on stays the worker of its run.
LEMMA MoveKeepsRun ==
  ASSUME TypeOK, BusyIsActive, OneWorkerPerRun, NEW w \in Workers, worker[w].pc # "none",
         NEW l \in {"select", "handling", "length", "release"}, NEW t,
         Goes(w, l, t), UNCHANGED active
  PROVE  BusyIsActive' /\ OneWorkerPerRun'
<1>1. \A v \in Workers : worker'[v].run = worker[v].run /\ (Busy(v)' => Busy(v))
  <2>1. \A v \in Workers : worker'[v].run = worker[v].run
    BY DEF TypeOK, Goes
  <2>2. Busy(w)
    BY BusyFacts
  <2>3. \A v \in Workers \ {w} : worker'[v] = worker[v]
    BY DEF TypeOK, Goes
  <2> QED BY <2>1, <2>2, <2>3 DEF Busy, Idle
<1>2. BusyIsActive'
  BY <1>1 DEF BusyIsActive
<1>3. OneWorkerPerRun'
  BY <1>1 DEF OneWorkerPerRun, Busy, Idle
<1> QED BY <1>2, <1>3

\* The worker that retires is the only one of its run.
LEMMA RetireKeepsOthers ==
  ASSUME TypeOK, BusyIsActive, OneWorkerPerRun, NEW w \in Workers, worker[w].pc # "none", Retire(w)
  PROVE  BusyIsActive' /\ OneWorkerPerRun'
<1>1. Busy(w) /\ worker[w].run \in Runs
  BY BusyFacts
<1>2. worker' = [worker EXCEPT ![w] = Idle] /\ active' = [active EXCEPT ![worker[w].run] = FALSE]
  BY DEF Retire
<1>3. \A v \in Workers : Busy(v)' => v # w /\ Busy(v) /\ worker'[v] = worker[v]
  BY <1>2 DEF Busy, TypeOK, Idle
<1>4. ASSUME NEW v \in Workers, Busy(v)' PROVE active'[worker'[v].run]
  <2>1. worker[v].run # worker[w].run
    BY <1>1, <1>3, <1>4 DEF OneWorkerPerRun, Busy
  <2>2. worker[v].run \in Runs /\ active[worker[v].run]
    BY <1>3, <1>4 DEF TypeOK, BusyIsActive, Busy
  <2> QED BY <1>2, <1>3, <1>4, <2>1, <2>2 DEF TypeOK
<1>5. OneWorkerPerRun'
  BY <1>3 DEF OneWorkerPerRun, Busy, Idle
<1> QED BY <1>4, <1>5 DEF BusyIsActive

\* dispatch spawns a worker only for a run that is not active, which has none.
LEMMA DispatchKeepsOne ==
  ASSUME TypeOK, BusyIsActive, OneWorkerPerRun, NEW p \in Producers, Dispatch(p)
  PROVE  BusyIsActive' /\ OneWorkerPerRun'
<1> DEFINE r == Work[p][sent[p] + 1]
<1>1. r \in Runs
  BY NextTaskType DEF Dispatch
<1>2. Spawn(r) /\ active' = [active EXCEPT ![r] = TRUE]
  BY DEF Dispatch
<1>3. \A q \in Runs : active[q] => active'[q]
  BY <1>1, <1>2 DEF TypeOK
<1>4. active'[r]
  BY <1>1, <1>2 DEF TypeOK
<1> HIDE DEF r
<1>5. CASE active[r]
  <2>1. UNCHANGED worker
    BY <1>2, <1>5 DEF Spawn
  <2> QED BY <2>1, <1>3 DEF BusyIsActive, OneWorkerPerRun, TypeOK, Busy, Idle
<1>6. CASE ~ active[r]
  <2>1. PICK w \in Workers : /\ worker[w] = Idle
                             /\ worker' = [worker EXCEPT ![w] = [pc |-> "select", run |-> r, task |-> NoTask]]
    BY <1>2, <1>6 DEF Spawn, NewWorker
  <2>2. worker'[w].run = r
    BY <2>1 DEF TypeOK, Idle
  <2>3. \A v \in Workers \ {w} : worker'[v] = worker[v]
    BY <2>1 DEF TypeOK
  <2>4. \A v \in Workers : Busy(v) => worker[v].run # r
    BY <1>6 DEF BusyIsActive
  <2>5. \A v \in Workers : Busy(v) => worker[v].run \in Runs
    BY DEF Busy, TypeOK
  <2>6. BusyIsActive'
    BY <1>3, <1>4, <2>2, <2>3, <2>5 DEF BusyIsActive, Busy, Idle
  <2>7. OneWorkerPerRun'
    BY <2>2, <2>3, <2>4 DEF OneWorkerPerRun, Busy, Idle
  <2> QED BY <2>6, <2>7
<1> QED BY <1>5, <1>6

LEMMA WorkersStep ==
  TypeOK /\ BusyIsActive /\ OneWorkerPerRun /\ [Next]_vars => BusyIsActive' /\ OneWorkerPerRun'
<1> SUFFICES ASSUME TypeOK, BusyIsActive, OneWorkerPerRun, [Next]_vars
             PROVE  BusyIsActive' /\ OneWorkerPerRun'
  OBVIOUS
<1>1. CASE \E p \in Producers : Dispatch(p)
  BY <1>1, DispatchKeepsOne
<1>2. CASE \E w \in Workers : Take(w)
  <2> PICK w \in Workers : Take(w)
    BY <1>2
  <2>1. /\ Goes(w, "handling", Head(tasks[worker[w].run]))
        /\ worker[w].pc # "none" /\ UNCHANGED active
    BY DEF Take, At
  <2> QED BY <2>1, MoveKeepsRun
<1>3. CASE \E w \in Workers : HandlerReturns(w)
  <2> PICK w \in Workers : HandlerReturns(w)
    BY <1>3
  <2>1. /\ Goes(w, "length", NoTask)
        /\ worker[w].pc # "none" /\ UNCHANGED active
    BY DEF HandlerReturns, At
  <2> QED BY <2>1, MoveKeepsRun
<1>4. CASE \E w \in Workers : ReadLength(w)
  <2> PICK w \in Workers : ReadLength(w)
    BY <1>4
  <2> DEFINE l == IF tasks[worker[w].run] = <<>> THEN "release" ELSE "select"
  <2>1. Goes(w, l, NoTask) /\ worker[w].pc # "none" /\ UNCHANGED active
    BY DEF ReadLength, At
  <2>2. l \in {"select", "handling", "length", "release"}
    OBVIOUS
  <2> HIDE DEF l
  <2> QED BY <2>1, <2>2, MoveKeepsRun
<1>5. CASE \E w \in Workers : ReleaseIfEmpty(w)
  <2> PICK w \in Workers : ReleaseIfEmpty(w)
    BY <1>5
  <2>0. worker[w].pc # "none"
    BY DEF ReleaseIfEmpty, At
  <2>1. CASE Retire(w)
    BY <2>0, <2>1, RetireKeepsOthers
  <2>2. CASE Goes(w, "select", NoTask) /\ UNCHANGED active
    BY <2>0, <2>2, MoveKeepsRun
  <2> QED BY <2>1, <2>2 DEF ReleaseIfEmpty
<1>6. CASE \E w \in Workers : Release(w)
  BY <1>6, RetireKeepsOthers DEF Release, At
<1>7. CASE \/ \E p \in Producers : Refuse(p) \/ GiveUp(p)
           \/ SetStopped \/ CloseDone \/ StopReturns
           \/ UNCHANGED vars
  <2>1. UNCHANGED <<worker, active>>
    BY <1>7 DEF Refuse, GiveUp, SetStopped, CloseDone, StopReturns, vars
  <2> QED BY <2>1 DEF BusyIsActive, OneWorkerPerRun, Busy, Idle
<1> QED BY <1>1, <1>2, <1>3, <1>4, <1>5, <1>6, <1>7 DEF Next, ServeStep

-----------------------------------------------------------------------------
(* The mailbox *)

LEMMA BeginsAppend ==
  ASSUME NEW S, NEW h \in Seq(S), NEW m \in Seq(S), NEW p \in Seq(S), NEW t \in S,
         Begins(h, m, p), IsAll(h, m, p)
  PROVE  Begins(h, Append(m, t), Append(p, t)) /\ IsAll(h, Append(m, t), Append(p, t))
<1> DEFINE n == Append(m, t)
           q == Append(p, t)
<1>1. /\ Len(n) = Len(m) + 1 /\ Len(q) = Len(p) + 1
      /\ \A i \in 1 .. Len(m) : n[i] = m[i]
      /\ \A i \in 1 .. Len(p) : q[i] = p[i]
      /\ n[Len(m) + 1] = t /\ q[Len(p) + 1] = t
  BY AppendProperties
<1>2. Len(h) \in Nat /\ Len(m) \in Nat /\ Len(p) \in Nat /\ Len(h) + Len(m) = Len(p)
  BY DEF IsAll
<1> HIDE DEF n, q
<1>3. \A i \in 1 .. Len(h) : h[i] = q[i]
  BY <1>1, <1>2 DEF Begins
<1>4. ASSUME NEW i \in 1 .. Len(m) + 1
      PROVE  n[i] = q[Len(h) + i]
  <2>1. CASE i \in 1 .. Len(m)
    <3>1. Len(h) + i \in 1 .. Len(p)
      BY <1>2, <2>1
    <3> QED BY <1>1, <2>1, <3>1 DEF Begins
  <2>2. CASE i = Len(m) + 1
    <3>1. Len(h) + i = Len(p) + 1
      BY <1>2, <2>2
    <3> QED BY <1>1, <2>2, <3>1
  <2> QED BY <1>2, <2>1, <2>2
<1>5. Len(h) + Len(n) = Len(q)
  BY <1>1, <1>2
<1>6. \A i \in 1 .. Len(n) : n[i] = q[Len(h) + i]
  BY <1>1, <1>4
<1>7. Len(h) + Len(n) <= Len(q)
  BY <1>1, <1>2
<1>8. Begins(h, n, q) /\ IsAll(h, n, q)
  BY <1>3, <1>5, <1>6, <1>7 DEF Begins, IsAll
<1> QED BY <1>8 DEF n, q

LEMMA BeginsMove ==
  ASSUME NEW S, NEW h \in Seq(S), NEW m \in Seq(S), NEW p \in Seq(S), m # <<>>,
         Begins(h, m, p)
  PROVE  /\ Begins(Append(h, Head(m)), Tail(m), p)
         /\ IsAll(h, m, p) => IsAll(Append(h, Head(m)), Tail(m), p)
<1> DEFINE g == Append(h, Head(m))
           n == Tail(m)
<1>1. /\ Len(n) = Len(m) - 1 /\ Head(m) \in S /\ Head(m) = m[1]
      /\ \A i \in 1 .. Len(n) : n[i] = m[i + 1]
  BY HeadTailProperties
<1>2. /\ Len(g) = Len(h) + 1
      /\ \A i \in 1 .. Len(h) : g[i] = h[i]
      /\ g[Len(h) + 1] = m[1]
  BY <1>1, AppendProperties
<1>3. Len(h) \in Nat /\ Len(m) \in Nat \ {0} /\ Len(p) \in Nat
  OBVIOUS
<1> HIDE DEF g, n
<1>4. Len(h) + Len(m) <= Len(p)
  BY DEF Begins
<1>5. \A i \in 1 .. Len(g) : g[i] = p[i]
  <2> SUFFICES ASSUME NEW i \in 1 .. Len(h) + 1 PROVE g[i] = p[i]
    BY <1>2
  <2>1. CASE i \in 1 .. Len(h)
    BY <1>2, <2>1 DEF Begins
  <2>2. CASE i = Len(h) + 1
    <3>1. 1 \in 1 .. Len(m)
      BY <1>3
    <3> QED BY <1>2, <2>2, <3>1 DEF Begins
  <2> QED BY <1>3, <2>1, <2>2
<1>6. ASSUME NEW i \in 1 .. Len(n) PROVE n[i] = p[Len(g) + i]
  <2>1. i + 1 \in 1 .. Len(m) /\ Len(h) + (i + 1) = Len(g) + i
    BY <1>1, <1>2, <1>3
  <2>2. m[i + 1] = p[Len(h) + (i + 1)]
    BY <2>1 DEF Begins
  <2> QED BY <1>1, <2>1, <2>2
<1>7. Len(g) + Len(n) = Len(h) + Len(m)
  BY <1>1, <1>2, <1>3
<1>8. Begins(g, n, p)
  BY <1>4, <1>5, <1>6, <1>7 DEF Begins
<1>9. IsAll(h, m, p) => IsAll(g, n, p)
  BY <1>7 DEF IsAll
<1> QED BY <1>8, <1>9 DEF g, n

LEMMA BeginsDrop ==
  ASSUME NEW S, NEW h \in Seq(S), NEW m \in Seq(S), NEW p \in Seq(S), Begins(h, m, p)
  PROVE  Begins(h, <<>>, p)
BY DEF Begins

\* What was handled is the beginning of what was accepted.
LEMMA BeginsPrefix ==
  ASSUME NEW S, NEW h \in Seq(S), NEW m \in Seq(S), NEW p \in Seq(S), Begins(h, m, p)
  PROVE  Len(h) <= Len(p) /\ h = SubSeq(p, 1, Len(h))
<1> DEFINE s == SubSeq(p, 1, Len(h))
<1>1. Len(h) \in Nat /\ Len(p) \in Nat /\ Len(h) <= Len(p)
  BY DEF Begins
<1>2. \A i \in 1 .. Len(h) : p[i] \in S
  BY <1>1
<1>3. /\ s \in Seq(S)
      /\ Len(s) = IF 1 <= Len(h) THEN Len(h) - 1 + 1 ELSE 0
      /\ \A i \in 1 .. Len(h) - 1 + 1 : s[i] = p[1 + i - 1]
  BY <1>1, <1>2, SubSeqProperties
<1> HIDE DEF s
<1>4. Len(s) = Len(h) /\ \A i \in 1 .. Len(h) : s[i] = p[i]
  BY <1>1, <1>3
<1>5. \A i \in 1 .. Len(h) : h[i] = s[i]
  BY <1>4 DEF Begins
<1>6. h = s
  BY <1>3, <1>4, <1>5, SeqEqual
<1> QED BY <1>1, <1>6 DEF s

\* An accepted task goes behind the mailbox.
LEMMA DispatchKeepsMailbox ==
  ASSUME TypeOK, Mailbox, NEW p \in Producers, Dispatch(p)
  PROVE  Mailbox'
<1> DEFINE r == Work[p][sent[p] + 1]
           t == NextTask(p)
<1>1. r \in Runs /\ t \in Tasks
  BY NextTaskType DEF Dispatch
<1>2. /\ stop = "no" /\ stop' = stop /\ handled' = handled
      /\ tasks' = [tasks EXCEPT ![r] = Append(@, t)]
      /\ pushed' = [pushed EXCEPT ![r] = Append(@, t)]
  BY DEF Dispatch, Accepting
<1> HIDE DEF r, t
<1>3. /\ tasks'[r] = Append(tasks[r], t) /\ pushed'[r] = Append(pushed[r], t)
      /\ \A q \in Runs \ {r} : tasks'[q] = tasks[q] /\ pushed'[q] = pushed[q]
  BY <1>1, <1>2 DEF TypeOK
<1>4. tasks[r] \in Seq(Tasks) /\ pushed[r] \in Seq(Tasks) /\ handled[r] \in Seq(Tasks)
  BY <1>1 DEF TypeOK
<1>5. Begins(handled[r], tasks[r], pushed[r]) /\ IsAll(handled[r], tasks[r], pushed[r])
  BY <1>1, <1>2 DEF Mailbox
<1>6. Begins(handled'[r], tasks'[r], pushed'[r]) /\ IsAll(handled'[r], tasks'[r], pushed'[r])
  BY <1>1, <1>2, <1>3, <1>4, <1>5, BeginsAppend
<1> QED BY <1>2, <1>3, <1>6 DEF Mailbox

\* The task that is taken is the oldest one not handled yet.
LEMMA TakeKeepsMailbox ==
  ASSUME TypeOK, Mailbox, NEW w \in Workers, Take(w)
  PROVE  Mailbox'
<1> DEFINE r == worker[w].run
<1>1. r \in Runs /\ tasks[r] # <<>>
  BY BusyFacts DEF Take, At
<1>2. /\ UNCHANGED <<stop, pushed>>
      /\ tasks' = [tasks EXCEPT ![r] = Tail(@)]
      /\ handled' = [handled EXCEPT ![r] = Append(@, Head(tasks[r]))]
  BY DEF Take
<1> HIDE DEF r
<1>3. /\ tasks'[r] = Tail(tasks[r]) /\ handled'[r] = Append(handled[r], Head(tasks[r]))
      /\ \A q \in Runs \ {r} : tasks'[q] = tasks[q] /\ handled'[q] = handled[q]
  BY <1>1, <1>2 DEF TypeOK
<1>4. tasks[r] \in Seq(Tasks) /\ pushed[r] \in Seq(Tasks) /\ handled[r] \in Seq(Tasks)
  BY <1>1 DEF TypeOK
<1>5. /\ Begins(handled[r], tasks[r], pushed[r])
      /\ stop = "no" => IsAll(handled[r], tasks[r], pushed[r])
  BY <1>1 DEF Mailbox
<1>6. /\ Begins(handled'[r], tasks'[r], pushed'[r])
      /\ stop' = "no" => IsAll(handled'[r], tasks'[r], pushed'[r])
  BY <1>1, <1>2, <1>3, <1>4, <1>5, BeginsMove
<1> QED BY <1>2, <1>3, <1>6 DEF Mailbox

\* A worker leaves an empty mailbox behind, or stop has been called.
LEMMA RetireKeepsMailbox ==
  ASSUME TypeOK, Mailbox, NEW w \in Workers, worker[w].pc # "none", Retire(w),
         tasks[worker[w].run] = <<>> \/ stop # "no"
  PROVE  Mailbox'
<1> DEFINE r == worker[w].run
<1>1. r \in Runs
  BY BusyFacts
<1>2. UNCHANGED <<stop, pushed, handled>> /\ tasks' = [tasks EXCEPT ![r] = <<>>]
  BY DEF Retire
<1>3. tasks[r] = <<>> \/ stop # "no"
  OBVIOUS
<1> HIDE DEF r
<1>4. tasks'[r] = <<>> /\ \A q \in Runs \ {r} : tasks'[q] = tasks[q]
  BY <1>1, <1>2 DEF TypeOK
<1>5. tasks[r] \in Seq(Tasks) /\ pushed[r] \in Seq(Tasks) /\ handled[r] \in Seq(Tasks)
  BY <1>1 DEF TypeOK
<1>6. /\ Begins(handled[r], tasks[r], pushed[r])
      /\ stop = "no" => IsAll(handled[r], tasks[r], pushed[r])
  BY <1>1 DEF Mailbox
<1>7. /\ Begins(handled'[r], tasks'[r], pushed'[r])
      /\ stop' = "no" => IsAll(handled'[r], tasks'[r], pushed'[r])
  BY <1>2, <1>3, <1>4, <1>5, <1>6, BeginsDrop
<1> QED BY <1>2, <1>4, <1>7 DEF Mailbox

LEMMA MailboxStep == TypeOK /\ Mailbox /\ [Next]_vars => Mailbox'
<1> SUFFICES ASSUME TypeOK, Mailbox, [Next]_vars PROVE Mailbox'
  OBVIOUS
<1>1. CASE \E p \in Producers : Dispatch(p)
  BY <1>1, DispatchKeepsMailbox
<1>2. CASE \E w \in Workers : Take(w)
  BY <1>2, TakeKeepsMailbox
<1>3. CASE \E w \in Workers : ReleaseIfEmpty(w)
  <2> PICK w \in Workers : ReleaseIfEmpty(w)
    BY <1>3
  <2>1. CASE KeepsTask(worker[w].run)
    BY <2>1 DEF ReleaseIfEmpty, Mailbox
  <2>2. CASE ~ KeepsTask(worker[w].run)
    BY <2>2, RetireKeepsMailbox DEF ReleaseIfEmpty, At, KeepsTask
  <2> QED BY <2>1, <2>2
<1>4. CASE \E w \in Workers : Release(w)
  BY <1>4, RetireKeepsMailbox DEF Release, At
<1>5. CASE SetStopped \/ CloseDone \/ StopReturns
  <2>1. UNCHANGED <<tasks, handled, pushed>> /\ stop' # "no"
    BY <1>5 DEF SetStopped, CloseDone, StopReturns
  <2> QED BY <2>1 DEF Mailbox
<1>6. CASE \/ \E p \in Producers : Refuse(p) \/ GiveUp(p)
           \/ \E w \in Workers : HandlerReturns(w) \/ ReadLength(w)
           \/ UNCHANGED vars
  <2>1. UNCHANGED <<tasks, handled, pushed, stop>>
    BY <1>6 DEF Refuse, GiveUp, HandlerReturns, ReadLength, vars
  <2> QED BY <2>1 DEF Mailbox
<1> QED BY <1>1, <1>2, <1>3, <1>4, <1>5, <1>6 DEF Next, ServeStep

-----------------------------------------------------------------------------
(* The theorems *)

LEMMA InitIInv == Init => IInv
<1> SUFFICES ASSUME Init PROVE IInv
  OBVIOUS
<1>1. TypeOK
  BY InitType
<1>2. BusyIsActive /\ OneWorkerPerRun
  BY DEF Init, BusyIsActive, OneWorkerPerRun, Busy
<1>3. \A r \in Runs : tasks[r] = <<>> /\ handled[r] = <<>> /\ pushed[r] = <<>>
  BY DEF Init
<1>4. Begins(<<>>, <<>>, <<>>) /\ IsAll(<<>>, <<>>, <<>>)
  BY DEF Begins, IsAll
<1>5. Mailbox
  BY <1>3, <1>4 DEF Mailbox
<1> QED BY <1>1, <1>2, <1>5 DEF IInv

LEMMA StepIInv == IInv /\ [Next]_vars => IInv'
BY TypeStep, WorkersStep, MailboxStep DEF IInv

LEMMA MailboxInOrder ==
  ASSUME TypeOK, Mailbox
  PROVE  HandledInOrder
<1>1. \A r \in Runs : /\ handled[r] \in Seq(Tasks) /\ pushed[r] \in Seq(Tasks) /\ tasks[r] \in Seq(Tasks)
                      /\ Begins(handled[r], tasks[r], pushed[r])
  BY DEF TypeOK, Mailbox
<1> QED BY <1>1, BeginsPrefix DEF HandledInOrder

\* The dispatcher is well typed: no mailbox beyond its capacity, whatever the
\* producers dispatch.
THEOREM TypeCorrect == Spec => []TypeOK
<1>1. IInv => TypeOK
  BY DEF IInv
<1> QED BY <1>1, InitIInv, StepIInv, PTL DEF Spec

\* dispatch and releaseIfEmpty never leave a run with two worker goroutines,
\* so two handlers of one run never overlap.
THEOREM OneWorker == Spec => []OneWorkerPerRun
<1>1. IInv => OneWorkerPerRun
  BY DEF IInv
<1> QED BY <1>1, InitIInv, StepIInv, PTL DEF Spec

\* The handlers of a run are called for its tasks in the order dispatch accepted
\* them, none skipped and none repeated, over any number of workers that come
\* and go.
THEOREM InOrder == Spec => []HandledInOrder
<1>1. IInv => HandledInOrder
  BY MailboxInOrder DEF IInv
<1> QED BY <1>1, InitIInv, StepIInv, PTL DEF Spec

-----------------------------------------------------------------------------
(* The consumers of a group *)

B == INSTANCE StreamConsumer

Settled(e) == Done(e) \/ DeadLetter(e)

\* What a loop or a worker is about to acknowledge is settled, and the duplicate guard
\* knows only what is done.
DeadIsWritten ==
  \A c \in Consumers, l \in B!Loops :
    dead[c][l] => /\ todo[c][l] # <<>> /\ B!Undeliverable(Head(todo[c][l]))
                  /\ DeadLetter(Head(todo[c][l]).id)

AckedIsSettled ==
  \A c \in Consumers, r \in B!Runs : phase[c][r] = "ack" => Settled(B!Task(c, r).id)

SeenIsDone == \A c \in Consumers : \A e \in seen[c] : Done(e)

\* A claim pass starts when the last one is dispatched.
PassIsDone == \A c \in Consumers : scanned[c] => todo[c]["claim"] = <<>>

KeptInv == B!TypeOK /\ DeadIsWritten /\ AckedIsSettled /\ SeenIsDone /\ PassIsDone /\ NoEntryLost

\* A table of tables with one cell replaced.
Put(f, a, i, v) == [f EXCEPT ![a][i] = v]

\* What a loop hands to a worker is a task of a run.
LEMMA FetchedTask ==
  ASSUME B!TypeOK, NEW c \in Consumers, NEW l \in B!Loops, todo[c][l] # <<>>
  PROVE  /\ Head(todo[c][l]) \in B!Tasks /\ Head(todo[c][l]).id \in Entries
         /\ RunOf[Head(todo[c][l]).id] \in B!Runs
         /\ Tail(todo[c][l]) \in Seq(B!Tasks)
<1>1. todo[c][l] \in Seq(B!Tasks)
  BY DEF B!TypeOK
<1>2. Head(todo[c][l]) \in B!Tasks /\ Tail(todo[c][l]) \in Seq(B!Tasks)
  BY <1>1
<1> QED BY <1>2 DEF B!Tasks, B!Runs, B!Entries, Entries

\* A worker that is busy has the task at the head of its mailbox in hand.
LEMMA TaskInHand ==
  ASSUME B!TypeOK, NEW c \in Consumers, NEW r \in B!Runs, queue[c][r] # <<>>
  PROVE  /\ B!Task(c, r) \in B!Tasks /\ B!Task(c, r).id \in Entries
         /\ Tail(queue[c][r]) \in Seq(B!Tasks)
<1>1. queue[c][r] \in Seq(B!Tasks)
  BY DEF B!TypeOK
<1>2. Head(queue[c][r]) \in B!Tasks /\ Tail(queue[c][r]) \in Seq(B!Tasks)
  BY <1>1
<1> QED BY <1>2 DEF B!Task, B!Tasks, B!Entries, Entries

LEMMA BusyHasTask ==
  ASSUME B!TypeOK, NEW c \in Consumers, NEW r \in B!Runs, phase[c][r] # "none"
  PROVE  queue[c][r] # <<>>
BY DEF B!TypeOK

\* The type invariant in three parts.
RedisTypes ==
  /\ malformed \subseteq Garbled
  /\ last \in 0..Len(RunOf)
  /\ pel \in [Entries -> [count : Nat, idle : BOOLEAN]]
  /\ calls \in [Entries -> Nat]
  /\ effects \in Seq(Entries)
  /\ dlq \subseteq B!Tasks
  /\ faults \in [{"crash", "call"} -> Nat]
  /\ \A k \in {"crash", "call"} : faults[k] \in 0..MaxFaults[k]

LoopTypes ==
  /\ todo \in [Consumers -> [B!Loops -> Seq(B!Tasks)]]
  /\ dead \in [Consumers -> [B!Loops -> BOOLEAN]]
  /\ scanned \in [Consumers -> BOOLEAN]
  /\ snap \in [Consumers -> [Entries -> Nat]]

WorkTypes ==
  /\ queue \in [Consumers -> [B!Runs -> Seq(B!Tasks)]]
  /\ phase \in [Consumers -> [B!Runs -> B!Phases]]
  /\ \A c \in Consumers, r \in B!Runs : phase[c][r] # "none" => queue[c][r] # <<>>
  /\ seen \in [Consumers -> SUBSET Entries]

LEMMA TypeParts == B!TypeOK <=> RedisTypes /\ LoopTypes /\ WorkTypes
BY DEF B!TypeOK, RedisTypes, LoopTypes, WorkTypes, B!Entries, Entries

LEMMA TypePartsNext == B!TypeOK' <=> RedisTypes' /\ LoopTypes' /\ WorkTypes'
BY DEF B!TypeOK, RedisTypes, LoopTypes, WorkTypes, B!Entries, Entries

\* The actions of a consumer, by what they write.
Fetches(c) == B!Read(c) \/ B!Scan(c) \/ B!Claim(c)

Loop(c, l) == B!Dispatch(c, l) \/ B!LoopWritesDlq(c, l) \/ B!LoopAcks(c, l) \/ B!LoopCallFails(c, l)

Works(c, r) ==
  \/ B!Begin(c, r) \/ B!HandlerCommits(c, r) \/ B!HandlerFails(c, r)
  \/ B!WriteDlq(c, r) \/ B!Ack(c, r) \/ B!WorkerCallFails(c, r)

LEMMA Steps ==
  ASSUME [B!Next]_(B!vars)
  PROVE  \/ \E c \in Consumers :
              \/ Fetches(c) \/ B!Crash(c)
              \/ \E l \in B!Loops : Loop(c, l)
              \/ \E r \in B!Runs : Works(c, r)
         \/ \E e \in Entries : B!GoesIdle(e)
         \/ UNCHANGED B!vars
BY DEF B!Next, Fetches, Loop, Works, B!LoopStep, B!WorkerStep, B!Entries, Entries

LEMMA SameCardinality == \A S : B!Cardinality(S) = Cardinality(S)
BY DEF B!Cardinality, Cardinality

\* The listing of some entries is a finite sequence of them, in id order.
LEMMA ListingOfEntries ==
  ASSUME NEW S \in SUBSET Entries, NEW s \in B!Listings(S)
  PROVE  /\ s \in Seq(S) /\ DOMAIN s = 1..Len(s)
         /\ \A j, k \in DOMAIN s : s[j] = s[k] => j = k
<1>1. IsFiniteSet(Entries)
  BY RunAssumption, FS_Interval DEF Entries
<1>2. Cardinality(S) \in Nat
  BY <1>1, FS_Subset, FS_CardinalityType
<1>3. s \in [1..Cardinality(S) -> S] /\ \A j, k \in DOMAIN s : j < k => s[j] < s[k]
  BY SameCardinality DEF B!Listings
<1>4. s \in Seq(S)
  BY <1>2, <1>3, IsASeq
<1>5. DOMAIN s = 1..Len(s) /\ Len(s) \in Nat
  BY <1>4, LenProperties
<1>6. ASSUME NEW j \in DOMAIN s, NEW k \in DOMAIN s, s[j] = s[k] PROVE j = k
  <2>1. s[j] \in Entries /\ s[k] \in Entries
    BY <1>3
  <2>2. s[j] \in Int /\ s[k] \in Int
    BY <2>1, RunAssumption DEF Entries
  <2>3. j \in Int /\ k \in Int
    BY <1>5
  <2> QED BY <1>3, <1>6, <2>2, <2>3
<1> QED BY <1>4, <1>5, <1>6

LEMMA RedisStep == B!TypeOK /\ [B!Next]_(B!vars) => RedisTypes'
<1> SUFFICES ASSUME B!TypeOK, [B!Next]_(B!vars) PROVE RedisTypes'
  OBVIOUS
<1>0. RedisTypes
  BY TypeParts
<1>a. ASSUME NEW e \in Entries, pel' = B!Acked(e) PROVE pel' \in [Entries -> [count : Nat, idle : BOOLEAN]]
  BY <1>0, <1>a DEF B!Acked, RedisTypes, B!NotPending
<1>b. ASSUME NEW k \in {"crash", "call"}, B!Fault(k)
      PROVE  faults' \in [{"crash", "call"} -> Nat] /\ \A j \in {"crash", "call"} : faults'[j] \in 0..MaxFaults[j]
  BY <1>0, <1>b, FaultAssumption DEF B!Fault, RedisTypes
<1>1. CASE UNCHANGED B!vars
  BY <1>0, <1>1 DEF RedisTypes, B!vars
<1>2. ASSUME NEW e \in Entries, B!GoesIdle(e) PROVE RedisTypes'
  BY <1>0, <1>2 DEF B!GoesIdle, RedisTypes, B!workVars
<1>3. ASSUME NEW c \in Consumers, B!Read(c) PROVE RedisTypes'
  BY <1>0, <1>3, RunAssumption DEF B!Read, RedisTypes, B!workVars, Entries
<1>4. ASSUME NEW c \in Consumers, B!Scan(c) PROVE RedisTypes'
  BY <1>0, <1>4 DEF B!Scan, RedisTypes, B!workVars, B!redisVars
<1>5. ASSUME NEW c \in Consumers, B!Claim(c) PROVE RedisTypes'
  BY <1>0, <1>5 DEF B!Claim, RedisTypes, B!workVars, B!Entries, Entries
<1>6. ASSUME NEW c \in Consumers, B!Crash(c) PROVE RedisTypes'
  BY <1>0, <1>6, <1>b DEF B!Crash, RedisTypes, B!redisVars
<1>7. ASSUME NEW c \in Consumers, NEW l \in B!Loops, Loop(c, l) PROVE RedisTypes'
  <2>1. CASE B!Dispatch(c, l)
    BY <1>0, <2>1 DEF B!Dispatch, RedisTypes, B!redisVars
  <2>2. CASE B!LoopWritesDlq(c, l)
    <3>1. Head(todo[c][l]) \in B!Tasks
      BY <2>2, FetchedTask DEF B!LoopWritesDlq
    <3>2. [id |-> Head(todo[c][l]).id, attempt |-> Head(todo[c][l]).attempt] \in B!Tasks
      BY <3>1 DEF B!Tasks
    <3> QED BY <1>0, <2>2, <3>2 DEF B!LoopWritesDlq, RedisTypes, B!workVars
  <2>3. CASE B!LoopAcks(c, l)
    <3>1. pel' = B!Acked(Head(todo[c][l]).id)
      BY <2>3 DEF B!LoopAcks
    <3>2. pel' \in [Entries -> [count : Nat, idle : BOOLEAN]]
      BY <1>0, <3>1 DEF B!Acked, RedisTypes, B!NotPending
    <3> QED BY <1>0, <2>3, <3>2 DEF B!LoopAcks, RedisTypes, B!workVars
  <2>4. CASE B!LoopCallFails(c, l)
    BY <1>0, <1>b, <2>4 DEF B!LoopCallFails, RedisTypes, B!workVars, B!redisVars
  <2> QED BY <1>7, <2>1, <2>2, <2>3, <2>4 DEF Loop
<1>8. ASSUME NEW c \in Consumers, NEW r \in B!Runs, Works(c, r) PROVE RedisTypes'
  <2>1. CASE B!Begin(c, r)
    BY <1>0, <2>1, TaskInHand DEF B!Begin, RedisTypes, B!redisVars
  <2>2. CASE B!HandlerCommits(c, r)
    <3>1. B!Task(c, r).id \in Entries
      BY <2>2, BusyHasTask, TaskInHand DEF B!HandlerCommits
    <3>2. effects' \in Seq(Entries)
      BY <1>0, <2>2, <3>1, AppendProperties DEF B!HandlerCommits, RedisTypes
    <3> QED BY <1>0, <2>2, <3>2 DEF B!HandlerCommits, RedisTypes, B!redisVars
  <2>3. CASE B!HandlerFails(c, r)
    BY <1>0, <2>3 DEF B!HandlerFails, RedisTypes, B!redisVars
  <2>4. CASE B!WriteDlq(c, r)
    BY <1>0, <2>4, BusyHasTask, TaskInHand DEF B!WriteDlq, RedisTypes
  <2>5. CASE B!Ack(c, r)
    <3>1. pel' \in [Entries -> [count : Nat, idle : BOOLEAN]]
      BY <1>0, <2>5 DEF B!Ack, B!Acked, RedisTypes, B!NotPending
    <3> QED BY <1>0, <2>5, <3>1 DEF B!Ack, RedisTypes
  <2>6. CASE B!WorkerCallFails(c, r)
    BY <1>0, <1>b, <2>6 DEF B!WorkerCallFails, RedisTypes, B!redisVars
  <2> QED BY <1>8, <2>1, <2>2, <2>3, <2>4, <2>5, <2>6 DEF Works
<1> QED BY <1>1, <1>2, <1>3, <1>4, <1>5, <1>6, <1>7, <1>8, Steps DEF Fetches

\* Replacing what a loop has fetched, or a mailbox, keeps the types.
LEMMA LoopCell ==
  ASSUME B!TypeOK, NEW c \in Consumers, NEW l \in B!Loops, NEW s \in Seq(B!Tasks),
         todo' = Put(todo, c, l, s)
  PROVE  /\ todo' \in [Consumers -> [B!Loops -> Seq(B!Tasks)]] /\ todo'[c][l] = s
         /\ \A d \in Consumers, k \in B!Loops : d # c \/ k # l => todo'[d][k] = todo[d][k]
<1> DEFINE S == Seq(B!Tasks)
<1>1. todo \in [Consumers -> [B!Loops -> S]]
  BY DEF B!TypeOK
<1>2. s \in S
  OBVIOUS
<1> HIDE DEF S
<1>3. /\ Put(todo, c, l, s) \in [Consumers -> [B!Loops -> S]] /\ Put(todo, c, l, s)[c][l] = s
      /\ \A d \in Consumers, k \in B!Loops : d # c \/ k # l => Put(todo, c, l, s)[d][k] = todo[d][k]
  BY <1>1, <1>2 DEF Put
<1> QED BY <1>3 DEF S

LEMMA DeadCell ==
  ASSUME B!TypeOK, NEW c \in Consumers, NEW l \in B!Loops, NEW b \in BOOLEAN,
         dead' = Put(dead, c, l, b)
  PROVE  /\ dead' \in [Consumers -> [B!Loops -> BOOLEAN]] /\ dead'[c][l] = b
         /\ \A d \in Consumers, k \in B!Loops : d # c \/ k # l => dead'[d][k] = dead[d][k]
<1>1. dead \in [Consumers -> [B!Loops -> BOOLEAN]]
  BY DEF B!TypeOK
<1>2. /\ Put(dead, c, l, b) \in [Consumers -> [B!Loops -> BOOLEAN]] /\ Put(dead, c, l, b)[c][l] = b
      /\ \A d \in Consumers, k \in B!Loops : d # c \/ k # l => Put(dead, c, l, b)[d][k] = dead[d][k]
  BY <1>1 DEF Put
<1> QED BY <1>2

LEMMA MailCell ==
  ASSUME B!TypeOK, NEW c \in Consumers, NEW r \in B!Runs, NEW s \in Seq(B!Tasks),
         queue' = Put(queue, c, r, s)
  PROVE  /\ queue' \in [Consumers -> [B!Runs -> Seq(B!Tasks)]] /\ queue'[c][r] = s
         /\ \A d \in Consumers, k \in B!Runs : d # c \/ k # r => queue'[d][k] = queue[d][k]
<1> DEFINE S == Seq(B!Tasks)
<1>1. queue \in [Consumers -> [B!Runs -> S]]
  BY DEF B!TypeOK
<1>2. s \in S
  OBVIOUS
<1> HIDE DEF S
<1>3. /\ Put(queue, c, r, s) \in [Consumers -> [B!Runs -> S]] /\ Put(queue, c, r, s)[c][r] = s
      /\ \A d \in Consumers, k \in B!Runs : d # c \/ k # r => Put(queue, c, r, s)[d][k] = queue[d][k]
  BY <1>1, <1>2 DEF Put
<1> QED BY <1>3 DEF S

LEMMA PhaseCell ==
  ASSUME B!TypeOK, NEW c \in Consumers, NEW r \in B!Runs, NEW p \in B!Phases,
         phase' = Put(phase, c, r, p)
  PROVE  /\ phase' \in [Consumers -> [B!Runs -> B!Phases]] /\ phase'[c][r] = p
         /\ \A d \in Consumers, k \in B!Runs : d # c \/ k # r => phase'[d][k] = phase[d][k]
<1>1. phase \in [Consumers -> [B!Runs -> B!Phases]]
  BY DEF B!TypeOK
<1>2. /\ Put(phase, c, r, p) \in [Consumers -> [B!Runs -> B!Phases]] /\ Put(phase, c, r, p)[c][r] = p
      /\ \A d \in Consumers, k \in B!Runs : d # c \/ k # r => Put(phase, c, r, p)[d][k] = phase[d][k]
  BY <1>1 DEF Put
<1> QED BY <1>2

\* What the steps do to a loop: they take an entry, hand over the first one or
\* drop it, list a page, or start again.
LEMMA ReadEffect ==
  ASSUME B!TypeOK, NEW c \in Consumers, B!Read(c)
  PROVE  /\ last' = last + 1 /\ last' \in Entries /\ todo[c]["read"] = <<>>
         /\ [id |-> last', attempt |-> 1] \in B!Tasks
         /\ todo' \in [Consumers -> [B!Loops -> Seq(B!Tasks)]]
         /\ todo'[c]["read"] = <<[id |-> last', attempt |-> 1]>>
         /\ \A d \in Consumers, k \in B!Loops : d # c \/ k # "read" => todo'[d][k] = todo[d][k]
         /\ UNCHANGED <<dead, scanned, snap, queue, phase, seen, calls, effects, dlq, faults>>
<1>1. last' = last + 1 /\ last' \in Entries
  BY RunAssumption DEF B!Read, B!TypeOK
<1>2. [id |-> last', attempt |-> 1] \in B!Tasks
  BY <1>1 DEF B!Tasks, B!Entries, Entries
<1>3. <<[id |-> last', attempt |-> 1]>> \in Seq(B!Tasks)
  BY <1>2
<1>4. todo' = Put(todo, c, "read", <<[id |-> last', attempt |-> 1]>>)
  BY <1>1 DEF B!Read, Put
<1>5. "read" \in B!Loops
  BY DEF B!Loops
<1> HIDE DEF B!Tasks
<1>6. /\ todo' \in [Consumers -> [B!Loops -> Seq(B!Tasks)]]
      /\ todo'[c]["read"] = <<[id |-> last', attempt |-> 1]>>
      /\ \A d \in Consumers, k \in B!Loops : d # c \/ k # "read" => todo'[d][k] = todo[d][k]
  BY <1>3, <1>4, <1>5, LoopCell
<1>7. UNCHANGED <<dead, scanned, snap, queue, phase, seen, calls, effects, dlq, faults>> /\ todo[c]["read"] = <<>>
  BY DEF B!Read, B!workVars
<1> QED BY <1>1, <1>2, <1>6, <1>7

\* What a claim takes: a page of idle pending entries, each once.
Claimed == B!Page({e \in Entries : B!Claimable(e)})

LEMMA ClaimEffect ==
  ASSUME B!TypeOK, NEW c \in Consumers, B!Claim(c)
  PROVE  /\ todo' \in [Consumers -> [B!Loops -> Seq(B!Tasks)]]
         /\ \A d \in Consumers, k \in B!Loops : d # c \/ k # "claim" => todo'[d][k] = todo[d][k]
         /\ \E s \in Seq(Claimed) :
              /\ \A j, k \in DOMAIN s : s[j] = s[k] => j = k
              /\ DOMAIN todo'[c]["claim"] = DOMAIN s
              /\ \A k \in DOMAIN s : todo'[c]["claim"][k] = [id |-> s[k], attempt |-> B!Attempt(c, s[k])]
         /\ \A e \in Claimed : e \in Entries /\ pel[e].count > 0 /\ B!Attempt(c, e) \in Nat
         /\ \A e \in Entries : pel'[e] = IF e \in Claimed THEN [count |-> pel[e].count + 1, idle |-> FALSE] ELSE pel[e]
         /\ scanned[c] /\ scanned' = [scanned EXCEPT ![c] = FALSE]
         /\ snap' = [snap EXCEPT ![c] = [e \in Entries |-> 0]]
         /\ UNCHANGED <<last, dead, queue, phase, seen, calls, effects, dlq, faults>>
<1>1. Claimed \subseteq {e \in Entries : B!Claimable(e)}
  BY DEF Claimed, B!Page
<1>2. ASSUME NEW e \in Claimed PROVE e \in Entries /\ pel[e].count > 0 /\ B!Attempt(c, e) \in Nat
  <2>1. e \in Entries /\ B!Claimable(e)
    BY <1>1
  <2>2. snap[c][e] \in Nat
    BY <2>1 DEF B!TypeOK, B!Entries, Entries
  <2> QED BY <2>1, <2>2 DEF B!Claimable, B!IsPending, B!Attempt
<1>3. B!Entries = Entries
  BY DEF B!Entries, Entries
<1>4. PICK s \in B!Listings(Claimed) :
        todo' = [todo EXCEPT ![c]["claim"] =
                   [k \in DOMAIN s |-> [id |-> s[k], attempt |-> B!Attempt(c, s[k])]]]
  BY <1>3 DEF B!Claim, Claimed
<1>5. Claimed \in SUBSET Entries
  BY <1>1
<1>6. s \in Seq(Claimed) /\ DOMAIN s = 1..Len(s) /\ \A j, k \in DOMAIN s : s[j] = s[k] => j = k
  BY <1>4, <1>5, ListingOfEntries
<1> DEFINE q == [k \in DOMAIN s |-> [id |-> s[k], attempt |-> B!Attempt(c, s[k])]]
<1>7. ASSUME NEW k \in 1..Len(s) PROVE [id |-> s[k], attempt |-> B!Attempt(c, s[k])] \in B!Tasks
  <2>1. s[k] \in Claimed
    BY <1>6, ElementOfSeq
  <2> QED BY <1>2, <1>3, <2>1 DEF B!Tasks
<1>8. q \in Seq(B!Tasks)
  <2> DEFINE G(k) == [id |-> s[k], attempt |-> B!Attempt(c, s[k])]
  <2>1. q = [k \in 1..Len(s) |-> G(k)] /\ Len(s) \in Nat
    BY <1>6, LenProperties
  <2>2. \A k \in 1..Len(s) : G(k) \in B!Tasks
    BY <1>7
  <2> HIDE DEF G, q
  <2> QED BY <2>1, <2>2, IsASeq
<1>9. DOMAIN q = DOMAIN s /\ \A k \in DOMAIN s : q[k] = [id |-> s[k], attempt |-> B!Attempt(c, s[k])]
  OBVIOUS
<1>10. todo' = Put(todo, c, "claim", q)
  BY <1>4 DEF Put
<1> HIDE DEF q
<1>11. "claim" \in B!Loops
  BY DEF B!Loops
<1>12. /\ todo' \in [Consumers -> [B!Loops -> Seq(B!Tasks)]] /\ todo'[c]["claim"] = q
       /\ \A d \in Consumers, k \in B!Loops : d # c \/ k # "claim" => todo'[d][k] = todo[d][k]
  BY <1>8, <1>10, <1>11, LoopCell
<1>13. /\ \A e \in Entries : pel'[e] = IF e \in Claimed THEN [count |-> pel[e].count + 1, idle |-> FALSE] ELSE pel[e]
       /\ scanned[c] /\ scanned' = [scanned EXCEPT ![c] = FALSE]
       /\ snap' = [snap EXCEPT ![c] = [e \in Entries |-> 0]]
       /\ UNCHANGED <<last, dead, queue, phase, seen, calls, effects, dlq, faults>>
  BY <1>3 DEF B!Claim, Claimed, B!workVars, B!NotListed
<1>14. \E u \in Seq(Claimed) :
          /\ \A j, k \in DOMAIN u : u[j] = u[k] => j = k
          /\ DOMAIN todo'[c]["claim"] = DOMAIN u
          /\ \A k \in DOMAIN u : todo'[c]["claim"][k] = [id |-> u[k], attempt |-> B!Attempt(c, u[k])]
  BY <1>6, <1>9, <1>12
<1> QED BY <1>2, <1>12, <1>13, <1>14

LEMMA LoopTypesStep == B!TypeOK /\ DeadIsWritten /\ [B!Next]_(B!vars) => LoopTypes'
<1> SUFFICES ASSUME B!TypeOK, DeadIsWritten, [B!Next]_(B!vars) PROVE LoopTypes'
  OBVIOUS
<1>0. LoopTypes
  BY TypeParts
<1>1. CASE UNCHANGED <<todo, dead, scanned, snap>>
  BY <1>0, <1>1 DEF LoopTypes
<1>2. ASSUME NEW c \in Consumers, B!Read(c) PROVE LoopTypes'
  BY <1>0, <1>2, ReadEffect DEF LoopTypes
<1>3. ASSUME NEW c \in Consumers, B!Scan(c) PROVE LoopTypes'
  <2>1. B!Entries = Entries
    BY DEF B!Entries, Entries
  <2>2. DEFINE row == [e \in Entries |-> IF e \in B!Page({f \in Entries : B!IsPending(f)})
                                           THEN pel[e].count ELSE B!NotListed]
  <2>3. snap' = [snap EXCEPT ![c] = row] /\ scanned' = [scanned EXCEPT ![c] = TRUE] /\ UNCHANGED <<todo, dead>>
    BY <1>3, <2>1 DEF B!Scan
  <2>4. row \in [Entries -> Nat]
    BY TypeParts DEF RedisTypes, B!NotListed
  <2> HIDE DEF row
  <2> QED BY <1>0, <2>3, <2>4 DEF LoopTypes
<1>4. ASSUME NEW c \in Consumers, B!Claim(c) PROVE LoopTypes'
  <2>1. /\ todo' \in [Consumers -> [B!Loops -> Seq(B!Tasks)]]
        /\ scanned' = [scanned EXCEPT ![c] = FALSE] /\ snap' = [snap EXCEPT ![c] = [e \in Entries |-> 0]]
        /\ UNCHANGED dead
    BY <1>4, ClaimEffect
  <2> QED BY <1>0, <2>1 DEF LoopTypes
<1>5. ASSUME NEW c \in Consumers, B!Crash(c) PROVE LoopTypes'
  <2>1. B!Entries = Entries
    BY DEF B!Entries, Entries
  <2>2. [l \in B!Loops |-> <<>>] \in [B!Loops -> Seq(B!Tasks)] /\ [l \in B!Loops |-> FALSE] \in [B!Loops -> BOOLEAN]
    OBVIOUS
  <2>3. [e \in Entries |-> B!NotListed] \in [Entries -> Nat]
    BY DEF B!NotListed
  <2>4. /\ todo' = [todo EXCEPT ![c] = [l \in B!Loops |-> <<>>]]
        /\ dead' = [dead EXCEPT ![c] = [l \in B!Loops |-> FALSE]]
        /\ scanned' = [scanned EXCEPT ![c] = FALSE]
        /\ snap' = [snap EXCEPT ![c] = [e \in Entries |-> B!NotListed]]
    BY <1>5, <2>1 DEF B!Crash
  <2> QED BY <1>0, <2>2, <2>3, <2>4 DEF LoopTypes
<1>6. ASSUME NEW c \in Consumers, NEW l \in B!Loops, Loop(c, l) PROVE LoopTypes'
  <2>1. todo[c][l] # <<>> => Tail(todo[c][l]) \in Seq(B!Tasks)
    BY FetchedTask
  <2>2. dead[c][l] => todo[c][l] # <<>>
    BY DEF DeadIsWritten
  <2>3. CASE B!Dispatch(c, l)
    <3>1. todo[c][l] # <<>> /\ todo' = Put(todo, c, l, Tail(todo[c][l])) /\ UNCHANGED <<dead, scanned, snap>>
      BY <1>0, <2>3 DEF B!Dispatch, LoopTypes, Put
    <3> QED BY <1>0, <2>1, <3>1, LoopCell DEF LoopTypes
  <2>4. CASE B!LoopWritesDlq(c, l)
    BY <1>0, <2>4, DeadCell DEF LoopTypes, B!LoopWritesDlq, Put
  <2>5. CASE B!LoopAcks(c, l)
    <3>0. todo[c][l] # <<>>
      BY <2>2, <2>5 DEF B!LoopAcks
    <3>1. /\ todo' = Put(todo, c, l, Tail(todo[c][l])) /\ dead' = Put(dead, c, l, FALSE)
          /\ UNCHANGED <<scanned, snap>>
      BY <1>0, <2>5 DEF B!LoopAcks, LoopTypes, Put
    <3> QED BY <1>0, <2>1, <3>0, <3>1, LoopCell, DeadCell DEF LoopTypes
  <2>6. CASE B!LoopCallFails(c, l)
    <3>1. PICK s \in Seq(B!Tasks) : todo' = Put(todo, c, l, s)
      <4>1. <<>> \in Seq(B!Tasks)
        OBVIOUS
      <4>2. todo[c][l] # <<>>
        BY <2>6 DEF B!LoopCallFails
      <4> HIDE DEF B!Tasks
      <4> QED BY <1>0, <2>1, <2>6, <4>1, <4>2 DEF B!LoopCallFails, LoopTypes, Put
    <3>2. dead' = Put(dead, c, l, FALSE) /\ UNCHANGED <<scanned, snap>>
      BY <2>6 DEF B!LoopCallFails, Put
    <3> QED BY <1>0, <3>1, <3>2, LoopCell, DeadCell DEF LoopTypes
  <2> QED BY <1>6, <2>3, <2>4, <2>5, <2>6 DEF Loop
<1>7. ASSUME NEW c \in Consumers, NEW r \in B!Runs, Works(c, r) PROVE LoopTypes'
  <2>1. UNCHANGED <<todo, dead, scanned, snap>>
    BY <1>7 DEF Works, B!Begin, B!HandlerCommits, B!HandlerFails, B!WriteDlq, B!Ack, B!WorkerCallFails, B!loopVars
  <2> QED BY <1>1, <2>1
<1>8. ASSUME NEW e \in Entries, B!GoesIdle(e) PROVE LoopTypes'
  BY <1>1, <1>8 DEF B!GoesIdle, B!loopVars
<1>9. CASE UNCHANGED B!vars
  BY <1>1, <1>9 DEF B!vars
<1> QED BY <1>2, <1>3, <1>4, <1>5, <1>6, <1>7, <1>8, <1>9, Steps DEF Fetches

\* What the steps of a worker do: take up the head of the mailbox, go on with it,
\* or put it away.
LEMMA WorkEffect ==
  ASSUME B!TypeOK, NEW c \in Consumers, NEW r \in B!Runs, Works(c, r)
  PROVE  /\ queue[c][r] # <<>> /\ phase' \in [Consumers -> [B!Runs -> B!Phases]]
         /\ queue' \in [Consumers -> [B!Runs -> Seq(B!Tasks)]]
         /\ \A d \in Consumers, k \in B!Runs :
              d # c \/ k # r => phase'[d][k] = phase[d][k] /\ queue'[d][k] = queue[d][k]
         /\ \/ /\ phase[c][r] = "none" /\ B!Begin(c, r) /\ phase'[c][r] \in {"ack", "handling"}
               /\ UNCHANGED <<pel, queue, seen, effects, dlq, faults>>
            \/ /\ phase[c][r] # "none" /\ phase'[c][r] # "none"
               /\ UNCHANGED <<pel, queue, calls, faults>>
            \/ /\ phase[c][r] # "none" /\ phase'[c][r] = "none"
               /\ queue'[c][r] = Tail(queue[c][r])
               /\ UNCHANGED <<calls, seen, effects, dlq>>
         /\ UNCHANGED <<last, todo, dead, scanned, snap>>
<1>0. /\ queue \in [Consumers -> [B!Runs -> Seq(B!Tasks)]] /\ phase \in [Consumers -> [B!Runs -> B!Phases]]
  BY DEF B!TypeOK
<1>1. queue[c][r] # <<>>
  BY BusyHasTask DEF Works, B!Begin, B!HandlerCommits, B!HandlerFails, B!WriteDlq, B!Ack, B!WorkerCallFails
<1>2. Tail(queue[c][r]) \in Seq(B!Tasks)
  BY <1>1, TaskInHand
<1>3. UNCHANGED <<last, todo, dead, scanned, snap>>
  BY DEF Works, B!Begin, B!HandlerCommits, B!HandlerFails, B!WriteDlq, B!Ack, B!WorkerCallFails,
         B!redisVars, B!loopVars
<1>4. {"none", "handling", "dlq", "ack"} = B!Phases
  BY DEF B!Phases
<1>5. CASE B!Begin(c, r)
  <2>1. PICK p \in {"ack", "handling"} : phase' = Put(phase, c, r, p)
    BY <1>5 DEF B!Begin, Put
  <2>2. phase[c][r] = "none" /\ UNCHANGED <<pel, queue, seen, effects, dlq, faults>>
    BY <1>5 DEF B!Begin, B!redisVars
  <2> QED BY <1>0, <1>1, <1>3, <1>4, <1>5, <2>1, <2>2, PhaseCell
<1>6. ASSUME phase[c][r] # "none", NEW p \in {"ack", "dlq"}, phase' = Put(phase, c, r, p),
             UNCHANGED <<pel, queue, calls, faults>>
      PROVE  /\ phase'[c][r] # "none" /\ phase' \in [Consumers -> [B!Runs -> B!Phases]]
             /\ queue' \in [Consumers -> [B!Runs -> Seq(B!Tasks)]]
             /\ \A d \in Consumers, k \in B!Runs :
                  d # c \/ k # r => phase'[d][k] = phase[d][k] /\ queue'[d][k] = queue[d][k]
  BY <1>0, <1>4, <1>6, PhaseCell
<1>7. ASSUME B!Finished(c, r)
      PROVE  /\ phase'[c][r] = "none" /\ phase' \in [Consumers -> [B!Runs -> B!Phases]]
             /\ queue'[c][r] = Tail(queue[c][r])
             /\ queue' \in [Consumers -> [B!Runs -> Seq(B!Tasks)]]
             /\ \A d \in Consumers, k \in B!Runs :
                  d # c \/ k # r => phase'[d][k] = phase[d][k] /\ queue'[d][k] = queue[d][k]
  <2>1. queue' = Put(queue, c, r, Tail(queue[c][r]))
    BY <1>0, <1>7 DEF B!Finished, Put
  <2>2. phase' = Put(phase, c, r, "none")
    BY <1>7 DEF B!Finished, Put
  <2>3. /\ queue'[c][r] = Tail(queue[c][r]) /\ queue' \in [Consumers -> [B!Runs -> Seq(B!Tasks)]]
        /\ \A d \in Consumers, k \in B!Runs : d # c \/ k # r => queue'[d][k] = queue[d][k]
    BY <1>2, <2>1, MailCell
  <2>4. /\ phase'[c][r] = "none" /\ phase' \in [Consumers -> [B!Runs -> B!Phases]]
        /\ \A d \in Consumers, k \in B!Runs : d # c \/ k # r => phase'[d][k] = phase[d][k]
    BY <1>4, <2>2, PhaseCell
  <2> QED BY <2>3, <2>4
<1>8. CASE B!HandlerCommits(c, r)
  BY <1>1, <1>3, <1>6, <1>8 DEF B!HandlerCommits, B!redisVars, Put
<1>9. CASE B!HandlerFails(c, r)
  <2>1. CASE B!Spent(B!Task(c, r))
    BY <1>1, <1>3, <1>6, <1>9, <2>1 DEF B!HandlerFails, B!redisVars, Put
  <2>2. CASE ~ B!Spent(B!Task(c, r))
    BY <1>1, <1>3, <1>7, <1>9, <2>2 DEF B!HandlerFails, B!redisVars
  <2> QED BY <2>1, <2>2
<1>10. CASE B!WriteDlq(c, r)
  BY <1>1, <1>3, <1>6, <1>10 DEF B!WriteDlq, Put
<1>11. CASE B!Ack(c, r)
  BY <1>1, <1>3, <1>7, <1>11 DEF B!Ack
<1>12. CASE B!WorkerCallFails(c, r)
  BY <1>1, <1>3, <1>7, <1>12 DEF B!WorkerCallFails, B!redisVars
<1> QED BY <1>5, <1>8, <1>9, <1>10, <1>11, <1>12 DEF Works

\* The first entry of a loop is put last into the mailbox of its run.
Handed(c, l) == queue' = [queue EXCEPT ![c][RunOf[Head(todo[c][l]).id]] = Append(@, Head(todo[c][l]))]

\* A loop hands its first entry to the worker of the entry's run, or drops entries.
LoopOutcome(c, l) ==
  \/ /\ todo'[c][l] = Tail(todo[c][l]) /\ ~ B!Undeliverable(Head(todo[c][l]))
     /\ Handed(c, l)
     /\ UNCHANGED <<pel, dead, dlq, faults>>
  \/ /\ todo' = todo /\ dead'[c][l] = TRUE /\ DeadLetter(Head(todo[c][l]).id)'
     /\ B!Undeliverable(Head(todo[c][l]))
     /\ UNCHANGED <<pel, queue, faults>>
  \/ /\ todo'[c][l] \in {Tail(todo[c][l]), <<>>} /\ dead'[c][l] = FALSE /\ UNCHANGED <<queue, dlq>>
     /\ pel' = pel \/ (dead[c][l] /\ pel' = B!Acked(Head(todo[c][l]).id) /\ faults' = faults)

LEMMA LoopEffect ==
  ASSUME B!TypeOK, DeadIsWritten, NEW c \in Consumers, NEW l \in B!Loops, Loop(c, l)
  PROVE  /\ todo[c][l] # <<>>
         /\ \A d \in Consumers, k \in B!Loops : d # c \/ k # l => todo'[d][k] = todo[d][k] /\ dead'[d][k] = dead[d][k]
         /\ LoopOutcome(c, l)
         /\ UNCHANGED <<malformed, last, scanned, snap, phase, seen, calls, effects>>
<1>0. /\ todo \in [Consumers -> [B!Loops -> Seq(B!Tasks)]] /\ dead \in [Consumers -> [B!Loops -> BOOLEAN]]
  BY DEF B!TypeOK
<1>1. todo[c][l] # <<>>
  BY DEF Loop, DeadIsWritten, B!Dispatch, B!LoopWritesDlq, B!LoopAcks, B!LoopCallFails
<1>2. Tail(todo[c][l]) \in Seq(B!Tasks) /\ <<>> \in Seq(B!Tasks)
  BY <1>1, FetchedTask
<1>3. UNCHANGED <<malformed, last, scanned, snap, phase, seen, calls, effects>>
  BY DEF Loop, B!Dispatch, B!LoopWritesDlq, B!LoopAcks, B!LoopCallFails, B!redisVars, B!workVars
<1>4. CASE B!Dispatch(c, l)
  <2>1. todo' = Put(todo, c, l, Tail(todo[c][l]))
    BY <1>0, <1>4 DEF B!Dispatch, Put
  <2>2. /\ ~ B!Undeliverable(Head(todo[c][l]))
        /\ Handed(c, l)
        /\ UNCHANGED <<pel, dead, dlq, faults>>
    BY <1>4 DEF B!Dispatch, B!redisVars, Handed
  <2>3. /\ todo'[c][l] = Tail(todo[c][l])
        /\ \A d \in Consumers, k \in B!Loops : d # c \/ k # l => todo'[d][k] = todo[d][k]
    BY <1>2, <2>1, LoopCell
  <2> QED BY <1>1, <1>3, <2>2, <2>3 DEF LoopOutcome
<1>5. CASE B!LoopWritesDlq(c, l)
  <2>2. /\ dead' = Put(dead, c, l, TRUE) /\ UNCHANGED <<todo, pel, queue, faults>>
        /\ B!Undeliverable(Head(todo[c][l]))
    BY <1>5 DEF B!LoopWritesDlq, B!workVars, Put
  <2>3. dlq' = dlq \union {[id |-> Head(todo[c][l]).id, attempt |-> Head(todo[c][l]).attempt]}
    BY <1>5 DEF B!LoopWritesDlq
  <2>4. [id |-> Head(todo[c][l]).id, attempt |-> Head(todo[c][l]).attempt].id = Head(todo[c][l]).id
    OBVIOUS
  <2>5. \E d \in dlq' : d.id = Head(todo[c][l]).id
    BY <2>3, <2>4
  <2>1. DeadLetter(Head(todo[c][l]).id)'
    BY <2>2, <2>5 DEF DeadLetter
  <2>6. /\ dead'[c][l] = TRUE
        /\ \A d \in Consumers, k \in B!Loops : d # c \/ k # l => dead'[d][k] = dead[d][k]
    BY <2>2, DeadCell
  <2> QED BY <1>1, <1>3, <2>1, <2>2, <2>6 DEF LoopOutcome
<1>6. CASE B!LoopAcks(c, l)
  <2>1. /\ todo' = Put(todo, c, l, Tail(todo[c][l])) /\ dead' = Put(dead, c, l, FALSE)
        /\ dead[c][l] /\ pel' = B!Acked(Head(todo[c][l]).id) /\ UNCHANGED <<queue, dlq, faults>>
    BY <1>0, <1>6 DEF B!LoopAcks, B!workVars, Put
  <2>2. /\ todo'[c][l] = Tail(todo[c][l])
        /\ \A d \in Consumers, k \in B!Loops : d # c \/ k # l => todo'[d][k] = todo[d][k]
    BY <1>2, <2>1, LoopCell
  <2>3. /\ dead'[c][l] = FALSE
        /\ \A d \in Consumers, k \in B!Loops : d # c \/ k # l => dead'[d][k] = dead[d][k]
    BY <2>1, DeadCell
  <2> QED BY <1>1, <1>3, <2>1, <2>2, <2>3 DEF LoopOutcome
<1>7. CASE B!LoopCallFails(c, l)
  <2>1. PICK s \in {Tail(todo[c][l]), <<>>} : todo' = Put(todo, c, l, s)
    BY <1>0, <1>7 DEF B!LoopCallFails, Put
  <2>2. dead' = Put(dead, c, l, FALSE) /\ UNCHANGED <<queue, dlq, pel>>
    BY <1>7 DEF B!LoopCallFails, B!workVars, B!redisVars, Put
  <2>3. s \in Seq(B!Tasks)
    BY <1>2, <2>1
  <2>4. /\ todo'[c][l] = s
        /\ \A d \in Consumers, k \in B!Loops : d # c \/ k # l => todo'[d][k] = todo[d][k]
    BY <2>1, <2>3, LoopCell
  <2>5. /\ dead'[c][l] = FALSE
        /\ \A d \in Consumers, k \in B!Loops : d # c \/ k # l => dead'[d][k] = dead[d][k]
    BY <2>2, DeadCell
  <2> QED BY <1>1, <1>3, <2>1, <2>2, <2>4, <2>5 DEF LoopOutcome
<1> QED BY <1>4, <1>5, <1>6, <1>7 DEF Loop

LEMMA LoopFrame ==
  ASSUME B!TypeOK, DeadIsWritten, NEW c \in Consumers, NEW l \in B!Loops, Loop(c, l),
         NEW d \in Consumers, NEW k \in B!Loops, d # c \/ k # l
  PROVE  todo'[d][k] = todo[d][k] /\ dead'[d][k] = dead[d][k]
BY LoopEffect

\* What a loop hands over comes last in the mailbox of its run.
LEMMA HandOver ==
  ASSUME B!TypeOK, NEW c \in Consumers, NEW l \in B!Loops, todo[c][l] # <<>>,
         Handed(c, l)
  PROVE  LET t == Head(todo[c][l]) IN
         /\ queue' \in [Consumers -> [B!Runs -> Seq(B!Tasks)]]
         /\ t \in B!Tasks /\ RunOf[t.id] \in B!Runs
         /\ queue'[c][RunOf[t.id]] = Append(queue[c][RunOf[t.id]], t) /\ queue'[c][RunOf[t.id]] # <<>>
         /\ \A d \in Consumers, k \in B!Runs : d # c \/ k # RunOf[t.id] => queue'[d][k] = queue[d][k]
<1> DEFINE t == Head(todo[c][l])
           r == RunOf[t.id]
<1>1. t \in B!Tasks /\ r \in B!Runs
  BY FetchedTask
<1>2. queue[c][r] \in Seq(B!Tasks) /\ queue \in [Consumers -> [B!Runs -> Seq(B!Tasks)]]
  BY <1>1 DEF B!TypeOK
<1> HIDE DEF t, r
<1>3. Append(queue[c][r], t) \in Seq(B!Tasks) /\ Append(queue[c][r], t) # <<>>
  BY <1>1, <1>2, AppendProperties
<1>4. queue' = Put(queue, c, r, Append(queue[c][r], t))
  BY <1>1, <1>2 DEF t, r, Put, Handed
<1>5. /\ queue' \in [Consumers -> [B!Runs -> Seq(B!Tasks)]] /\ queue'[c][r] = Append(queue[c][r], t)
      /\ \A d \in Consumers, k \in B!Runs : d # c \/ k # r => queue'[d][k] = queue[d][k]
  BY <1>1, <1>3, <1>4, MailCell
<1> QED BY <1>1, <1>3, <1>5 DEF t, r

LEMMA WorkTypesStep == B!TypeOK /\ DeadIsWritten /\ [B!Next]_(B!vars) => WorkTypes'
<1> SUFFICES ASSUME B!TypeOK, DeadIsWritten, [B!Next]_(B!vars) PROVE WorkTypes'
  OBVIOUS
<1>0. WorkTypes
  BY TypeParts
<1>1. CASE UNCHANGED <<queue, phase, seen>>
  BY <1>0, <1>1 DEF WorkTypes
<1>2. ASSUME NEW c \in Consumers, Fetches(c) PROVE WorkTypes'
  <2>1. UNCHANGED <<queue, phase, seen>>
    BY <1>2 DEF Fetches, B!Read, B!Scan, B!Claim, B!workVars
  <2> QED BY <1>1, <2>1
<1>3. ASSUME NEW c \in Consumers, B!Crash(c) PROVE WorkTypes'
  <2>1. /\ queue' = [queue EXCEPT ![c] = [r \in B!Runs |-> <<>>]]
        /\ phase' = [phase EXCEPT ![c] = [r \in B!Runs |-> "none"]]
        /\ seen' = [seen EXCEPT ![c] = {}]
    BY <1>3 DEF B!Crash
  <2>2. [r \in B!Runs |-> <<>>] \in [B!Runs -> Seq(B!Tasks)] /\ [r \in B!Runs |-> "none"] \in [B!Runs -> B!Phases]
    BY DEF B!Phases
  <2>3. \A d \in Consumers, r \in B!Runs : phase'[d][r] # "none" => queue'[d][r] = queue[d][r] /\ phase[d][r] # "none"
    BY <1>0, <2>1 DEF WorkTypes
  <2> QED BY <1>0, <2>1, <2>2, <2>3 DEF WorkTypes
<1>4. ASSUME NEW c \in Consumers, NEW l \in B!Loops, Loop(c, l) PROVE WorkTypes'
  <2>1. UNCHANGED <<phase, seen>> /\ todo[c][l] # <<>>
    BY <1>4, LoopEffect
  <2>2. \/ UNCHANGED queue
        \/ Handed(c, l)
    BY <1>4, LoopEffect DEF LoopOutcome
  <2>3. CASE Handed(c, l)
    <3>1. queue' \in [Consumers -> [B!Runs -> Seq(B!Tasks)]]
      BY <2>1, <2>3, HandOver
    <3>2. \A d \in Consumers, r \in B!Runs : queue'[d][r] = queue[d][r] \/ queue'[d][r] # <<>>
      BY <2>1, <2>3, HandOver
    <3> QED BY <1>0, <2>1, <3>1, <3>2 DEF WorkTypes
  <2> QED BY <1>1, <2>1, <2>2, <2>3
<1>5. ASSUME NEW c \in Consumers, NEW r \in B!Runs, Works(c, r) PROVE WorkTypes'
  <2>1. /\ phase' \in [Consumers -> [B!Runs -> B!Phases]]
        /\ queue' \in [Consumers -> [B!Runs -> Seq(B!Tasks)]]
        /\ \A d \in Consumers, k \in B!Runs :
             d # c \/ k # r => phase'[d][k] = phase[d][k] /\ queue'[d][k] = queue[d][k]
    BY <1>5, WorkEffect
  <2>3. phase'[c][r] = "none" \/ queue' = queue
    BY <1>5, WorkEffect
  <2>4. phase'[c][r] # "none" => queue'[c][r] # <<>>
    BY <1>5, <2>3, WorkEffect
  <2>2. seen' \in [Consumers -> SUBSET Entries]
    <3>1. B!Task(c, r).id \in Entries
      BY <1>5, WorkEffect, TaskInHand
    <3>2. PICK n \in Entries : n = B!Task(c, r).id
      BY <3>1
    <3>3. seen' = seen \/ seen' = [seen EXCEPT ![c] = @ \union {n}]
      BY <1>5, <3>2 DEF Works, B!Begin, B!HandlerCommits, B!HandlerFails, B!WriteDlq, B!Ack, B!WorkerCallFails
    <3>4. seen \in [Consumers -> SUBSET Entries]
      BY <1>0 DEF WorkTypes
    <3> QED BY <3>3, <3>4
  <2>5. ASSUME NEW d \in Consumers, NEW k \in B!Runs, phase'[d][k] # "none" PROVE queue'[d][k] # <<>>
    <3>1. CASE d = c /\ k = r
      BY <2>4, <2>5, <3>1
    <3>2. CASE d # c \/ k # r
      <4>1. phase'[d][k] = phase[d][k] /\ queue'[d][k] = queue[d][k]
        BY <2>1, <3>2
      <4> QED BY <1>0, <2>5, <4>1 DEF WorkTypes
    <3> QED BY <3>1, <3>2
  <2> QED BY <2>1, <2>2, <2>5 DEF WorkTypes
<1>6. ASSUME NEW e \in Entries, B!GoesIdle(e) PROVE WorkTypes'
  BY <1>1, <1>6 DEF B!GoesIdle, B!workVars
<1>7. CASE UNCHANGED B!vars
  BY <1>1, <1>7 DEF B!vars
<1> QED BY <1>2, <1>3, <1>4, <1>5, <1>6, <1>7, Steps

LEMMA ConsumerTypes == B!TypeOK /\ DeadIsWritten /\ [B!Next]_(B!vars) => B!TypeOK'
BY RedisStep, LoopTypesStep, WorkTypesStep, TypePartsNext

-----------------------------------------------------------------------------
(* No entry is lost *)

LEMMA SettledStays ==
  ASSUME B!TypeOK, DeadIsWritten, [B!Next]_(B!vars)
  PROVE  \A e : (Done(e) => Done(e)') /\ (DeadLetter(e) => DeadLetter(e)')
<1>1. effects' = effects \/ \E x \in Entries : effects' = Append(effects, x)
  <2>1. ASSUME NEW c \in Consumers, NEW r \in B!Runs, Works(c, r)
        PROVE  effects' = effects \/ \E x \in Entries : effects' = Append(effects, x)
    <3>1. B!Task(c, r).id \in Entries
      BY <2>1, WorkEffect, TaskInHand
    <3> QED BY <2>1, <3>1 DEF Works, B!Begin, B!HandlerCommits, B!HandlerFails, B!WriteDlq, B!Ack, B!WorkerCallFails
  <2>2. ASSUME NEW c \in Consumers, Fetches(c) \/ B!Crash(c) PROVE effects' = effects
    BY <2>2 DEF Fetches, B!Read, B!Scan, B!Claim, B!Crash, B!workVars
  <2>3. ASSUME NEW c \in Consumers, NEW l \in B!Loops, Loop(c, l) PROVE effects' = effects
    BY <2>3, LoopEffect
  <2>4. ASSUME NEW e \in Entries, B!GoesIdle(e) PROVE effects' = effects
    BY <2>4 DEF B!GoesIdle, B!workVars
  <2> QED BY <2>1, <2>2, <2>3, <2>4, Steps DEF B!vars
<1>2. dlq \subseteq dlq'
  <2>1. ASSUME NEW c \in Consumers, NEW r \in B!Runs, Works(c, r) PROVE dlq \subseteq dlq'
    BY <2>1 DEF Works, B!Begin, B!HandlerCommits, B!HandlerFails, B!WriteDlq, B!Ack, B!WorkerCallFails, B!redisVars
  <2>2. ASSUME NEW c \in Consumers, Fetches(c) \/ B!Crash(c) PROVE dlq \subseteq dlq'
    BY <2>2 DEF Fetches, B!Read, B!Scan, B!Claim, B!Crash, B!redisVars
  <2>3. ASSUME NEW c \in Consumers, NEW l \in B!Loops, Loop(c, l) PROVE dlq \subseteq dlq'
    BY <2>3 DEF Loop, B!Dispatch, B!LoopWritesDlq, B!LoopAcks, B!LoopCallFails, B!redisVars
  <2>4. ASSUME NEW e \in Entries, B!GoesIdle(e) PROVE dlq \subseteq dlq'
    BY <2>4 DEF B!GoesIdle
  <2> QED BY <2>1, <2>2, <2>3, <2>4, Steps DEF B!vars
<1>3. ASSUME NEW e, Done(e) PROVE Done(e)'
  <2>1. effects \in Seq(Entries)
    BY TypeParts DEF RedisTypes
  <2>2. PICK k \in DOMAIN effects : effects[k] = e
    BY <1>3 DEF Done
  <2>3. k \in 1..Len(effects) /\ Len(effects) \in Nat
    BY <2>1, <2>2, LenProperties
  <2>4. ASSUME NEW x \in Entries, effects' = Append(effects, x)
        PROVE  k \in DOMAIN effects' /\ effects'[k] = e
    <3>1. DOMAIN effects' = 1..(Len(effects) + 1) /\ effects'[k] = effects[k]
      BY <2>1, <2>3, <2>4, AppendProperties
    <3> QED BY <2>2, <2>3, <3>1
  <2> QED BY <1>1, <2>2, <2>4 DEF Done
<1>4. ASSUME NEW e, DeadLetter(e) PROVE DeadLetter(e)'
  BY <1>2, <1>4 DEF DeadLetter
<1> QED BY <1>3, <1>4

\* Only a worker's own steps move it, and only they or a crash take its task.
LEMMA TaskStays ==
  ASSUME B!TypeOK, DeadIsWritten, [B!Next]_(B!vars), NEW c \in Consumers, NEW r \in B!Runs,
         phase'[c][r] # "none"
  PROVE  Works(c, r) \/ (phase'[c][r] = phase[c][r] /\ B!Task(c, r)' = B!Task(c, r))
<1>1. ASSUME UNCHANGED <<phase, queue>> PROVE phase'[c][r] = phase[c][r] /\ B!Task(c, r)' = B!Task(c, r)
  BY <1>1 DEF B!Task
<1>2. ASSUME NEW d \in Consumers, Fetches(d) PROVE UNCHANGED <<phase, queue>>
  BY <1>2 DEF Fetches, B!Read, B!Scan, B!Claim, B!workVars
<1>3. ASSUME NEW d \in Consumers, B!Crash(d) PROVE phase'[c][r] = phase[c][r] /\ B!Task(c, r)' = B!Task(c, r)
  <2>1. /\ queue' = [queue EXCEPT ![d] = [k \in B!Runs |-> <<>>]]
        /\ phase' = [phase EXCEPT ![d] = [k \in B!Runs |-> "none"]]
    BY <1>3 DEF B!Crash
  <2>2. d # c
    BY <2>1 DEF B!TypeOK
  <2> QED BY <2>1, <2>2 DEF B!TypeOK, B!Task
<1>4. ASSUME NEW d \in Consumers, NEW l \in B!Loops, Loop(d, l)
      PROVE  phase'[c][r] = phase[c][r] /\ B!Task(c, r)' = B!Task(c, r)
  <2>0. UNCHANGED phase /\ todo[d][l] # <<>>
    BY <1>4, LoopEffect
  <2>1. UNCHANGED phase /\ todo[d][l] # <<>> /\ queue[c][r] # <<>>
    BY <2>0, BusyHasTask
  <2>2. CASE UNCHANGED queue
    BY <1>1, <2>1, <2>2
  <2>3. CASE Handed(d, l)
    <3>1. CASE d = c /\ RunOf[Head(todo[d][l]).id] = r
      <4>0. /\ queue'[d][RunOf[Head(todo[d][l]).id]]
                 = Append(queue[d][RunOf[Head(todo[d][l]).id]], Head(todo[d][l]))
            /\ Head(todo[d][l]) \in B!Tasks
        BY <2>1, <2>3, HandOver
      <4>1. queue'[c][r] = Append(queue[c][r], Head(todo[d][l])) /\ Head(todo[d][l]) \in B!Tasks
        BY <3>1, <4>0
      <4>2. queue[c][r] \in Seq(B!Tasks)
        BY DEF B!TypeOK
      <4>3. Head(queue'[c][r]) = Head(queue[c][r])
        BY <2>1, <4>1, <4>2, AppendProperties, LenProperties, EmptySeq
      <4> QED BY <2>1, <4>3 DEF B!Task
    <3>2. CASE ~ (d = c /\ RunOf[Head(todo[d][l]).id] = r)
      <4>0. \A a \in Consumers, k \in B!Runs :
              a # d \/ k # RunOf[Head(todo[d][l]).id] => queue'[a][k] = queue[a][k]
        BY <2>1, <2>3, HandOver
      <4>1. queue'[c][r] = queue[c][r]
        BY ONLY <3>2, <4>0, c \in Consumers, r \in B!Runs
      <4> QED BY <2>1, <4>1 DEF B!Task
    <3> QED BY <3>1, <3>2
  <2> QED BY <1>4, <2>2, <2>3, LoopEffect DEF LoopOutcome
<1>5. ASSUME NEW d \in Consumers, NEW k \in B!Runs, Works(d, k), d # c \/ k # r
      PROVE  phase'[c][r] = phase[c][r] /\ B!Task(c, r)' = B!Task(c, r)
  <2>1. phase'[c][r] = phase[c][r] /\ queue'[c][r] = queue[c][r]
    BY <1>5, WorkEffect
  <2> QED BY <2>1 DEF B!Task
<1>6. ASSUME NEW e \in Entries, B!GoesIdle(e) PROVE UNCHANGED <<phase, queue>>
  BY <1>6 DEF B!GoesIdle, B!workVars
<1>7. CASE UNCHANGED B!vars
  BY <1>1, <1>7 DEF B!vars
<1> QED BY <1>1, <1>2, <1>3, <1>4, <1>5, <1>6, <1>7, Steps

\* A worker comes to its acknowledgement by the guard, the effect or the dead letter.
LEMMA AckReached ==
  ASSUME KeptInv, NEW c \in Consumers, NEW r \in B!Runs, Works(c, r), phase'[c][r] = "ack"
  PROVE  B!Task(c, r)' = B!Task(c, r) /\ Settled(B!Task(c, r).id)'
<1>0. B!TypeOK /\ DeadIsWritten
  BY DEF KeptInv
<1>1. queue' = queue /\ B!Task(c, r)' = B!Task(c, r)
  BY <1>0, WorkEffect DEF B!Task
<1>2. B!Task(c, r).id \in Entries
  BY <1>0, WorkEffect, TaskInHand
<1>3. phase \in [Consumers -> [B!Runs -> B!Phases]] /\ effects \in Seq(Entries)
  BY <1>0, TypeParts DEF WorkTypes, RedisTypes
<1>4. CASE B!Begin(c, r)
  <2>1. B!Duplicate(c, r) /\ UNCHANGED effects
    BY <1>3, <1>4 DEF B!Begin
  <2>2. Done(B!Task(c, r).id)
    BY <2>1 DEF B!Duplicate, KeptInv, SeenIsDone
  <2> QED BY <1>1, <2>1, <2>2 DEF Settled, Done
<1>5. CASE B!HandlerCommits(c, r)
  <2>1. effects' = Append(effects, B!Task(c, r).id)
    BY <1>5 DEF B!HandlerCommits
  <2>2. Len(effects) + 1 \in DOMAIN effects' /\ effects'[Len(effects) + 1] = B!Task(c, r).id
    BY <1>2, <1>3, <2>1, AppendProperties, LenProperties
  <2> QED BY <1>1, <2>2 DEF Settled, Done
<1>6. CASE B!WriteDlq(c, r)
  <2>1. B!Task(c, r) \in dlq'
    BY <1>6 DEF B!WriteDlq
  <2> QED BY <1>1, <2>1 DEF Settled, DeadLetter
<1>7. CASE B!HandlerFails(c, r)
  <2>1. phase'[c][r] \in {"dlq", "none"}
    BY <1>3, <1>7 DEF B!HandlerFails, B!Finished
  <2> QED BY <2>1
<1>8. CASE B!Ack(c, r) \/ B!WorkerCallFails(c, r)
  <2>1. phase'[c][r] = "none"
    BY <1>3, <1>8 DEF B!Ack, B!WorkerCallFails, B!Finished
  <2> QED BY <2>1
<1> QED BY <1>4, <1>5, <1>6, <1>7, <1>8 DEF Works

LEMMA AckedStep == KeptInv /\ [B!Next]_(B!vars) => AckedIsSettled'
<1> SUFFICES ASSUME KeptInv, [B!Next]_(B!vars), NEW c \in Consumers, NEW r \in B!Runs, phase'[c][r] = "ack"
             PROVE  Settled(B!Task(c, r).id)'
  BY DEF AckedIsSettled
<1>1. CASE phase'[c][r] = phase[c][r] /\ B!Task(c, r)' = B!Task(c, r)
  <2>1. Settled(B!Task(c, r).id)
    BY <1>1 DEF KeptInv, AckedIsSettled
  <2>2. \A e : Settled(e) => Done(e)' \/ DeadLetter(e)'
    BY SettledStays DEF KeptInv, Settled
  <2> QED BY <1>1, <2>1, <2>2 DEF Settled, Done, DeadLetter
<1>2. CASE Works(c, r)
  BY <1>2, AckReached
<1> QED BY <1>1, <1>2, TaskStays DEF KeptInv

LEMMA MalformedStays == [B!Next]_(B!vars) => malformed' = malformed
<1> SUFFICES ASSUME [B!Next]_(B!vars) PROVE malformed' = malformed
  OBVIOUS
<1>1. ASSUME NEW c \in Consumers, Fetches(c) \/ B!Crash(c) PROVE malformed' = malformed
  BY <1>1 DEF Fetches, B!Read, B!Scan, B!Claim, B!Crash, B!redisVars
<1>2. ASSUME NEW c \in Consumers, NEW l \in B!Loops, Loop(c, l) PROVE malformed' = malformed
  BY <1>2 DEF Loop, B!Dispatch, B!LoopWritesDlq, B!LoopAcks, B!LoopCallFails, B!redisVars
<1>3. ASSUME NEW c \in Consumers, NEW r \in B!Runs, Works(c, r) PROVE malformed' = malformed
  BY <1>3 DEF Works, B!Begin, B!HandlerCommits, B!HandlerFails, B!WriteDlq, B!Ack, B!WorkerCallFails, B!redisVars
<1>4. ASSUME NEW e \in Entries, B!GoesIdle(e) PROVE malformed' = malformed
  BY <1>4 DEF B!GoesIdle
<1> QED BY <1>1, <1>2, <1>3, <1>4, Steps DEF B!vars

LEMMA DeadStep == KeptInv /\ [B!Next]_(B!vars) => DeadIsWritten'
<1> SUFFICES ASSUME KeptInv, [B!Next]_(B!vars), NEW c \in Consumers, NEW l \in B!Loops, dead'[c][l]
             PROVE  todo'[c][l] # <<>> /\ B!Undeliverable(Head(todo[c][l]))' /\ DeadLetter(Head(todo[c][l]).id)'
  BY DEF DeadIsWritten
<1>0. B!TypeOK /\ DeadIsWritten
  BY DEF KeptInv
<1>1. dead \in [Consumers -> [B!Loops -> BOOLEAN]]
  BY <1>0 DEF B!TypeOK
<1>2. ASSUME dead[c][l], todo'[c][l] = todo[c][l]
      PROVE  todo'[c][l] # <<>> /\ B!Undeliverable(Head(todo[c][l]))' /\ DeadLetter(Head(todo[c][l]).id)'
  <2>1. todo[c][l] # <<>> /\ B!Undeliverable(Head(todo[c][l])) /\ DeadLetter(Head(todo[c][l]).id)
    BY <1>0, <1>2 DEF DeadIsWritten
  <2>2. \E d \in dlq' : d.id = Head(todo[c][l]).id
    BY <1>0, <2>1, SettledStays DEF DeadLetter
  <2> QED BY <1>2, <2>1, <2>2, MalformedStays DEF DeadLetter, B!Undeliverable
<1>3. ASSUME NEW d \in Consumers, B!Read(d) PROVE dead[c][l] /\ todo'[c][l] = todo[c][l]
  <2>1. /\ UNCHANGED dead /\ todo[d]["read"] = <<>>
        /\ \A x \in Consumers, k \in B!Loops : x # d \/ k # "read" => todo'[x][k] = todo[x][k]
    BY <1>0, <1>3, ReadEffect
  <2> QED BY <1>0, <2>1 DEF DeadIsWritten
<1>4. ASSUME NEW d \in Consumers, B!Scan(d) PROVE dead[c][l] /\ todo'[c][l] = todo[c][l]
  BY <1>4 DEF B!Scan
<1>5. ASSUME NEW d \in Consumers, B!Claim(d) PROVE dead[c][l] /\ todo'[c][l] = todo[c][l]
  <2>1. /\ UNCHANGED dead /\ scanned[d]
        /\ \A x \in Consumers, k \in B!Loops : x # d \/ k # "claim" => todo'[x][k] = todo[x][k]
    BY <1>0, <1>5, ClaimEffect
  <2>2. todo[d]["claim"] = <<>>
    BY <2>1 DEF KeptInv, PassIsDone
  <2> QED BY <1>0, <2>1, <2>2 DEF DeadIsWritten
<1>6. ASSUME NEW d \in Consumers, B!Crash(d) PROVE dead[c][l] /\ todo'[c][l] = todo[c][l]
  <2>1. /\ todo' = [todo EXCEPT ![d] = [k \in B!Loops |-> <<>>]]
        /\ dead' = [dead EXCEPT ![d] = [k \in B!Loops |-> FALSE]]
    BY <1>6 DEF B!Crash
  <2>2. todo \in [Consumers -> [B!Loops -> Seq(B!Tasks)]]
    BY <1>0 DEF B!TypeOK
  <2>3. d # c
    BY <1>1, <2>1
  <2> QED BY <1>1, <2>1, <2>2, <2>3
<1>7. ASSUME NEW d \in Consumers, NEW k \in B!Loops, Loop(d, k), d # c \/ k # l
      PROVE  dead[c][l] /\ todo'[c][l] = todo[c][l]
  <2>1. todo'[c][l] = todo[c][l] /\ dead'[c][l] = dead[c][l]
    BY <1>0, <1>7, LoopFrame
  <2> QED BY <2>1
<1>8. ASSUME Loop(c, l)
      PROVE  todo'[c][l] # <<>> /\ B!Undeliverable(Head(todo[c][l]))' /\ DeadLetter(Head(todo[c][l]).id)'
  <2>1. todo[c][l] # <<>> /\ UNCHANGED malformed
    BY <1>0, <1>8, LoopEffect
  <2>2. \/ ~ B!Undeliverable(Head(todo[c][l])) /\ dead' = dead
        \/ todo' = todo /\ DeadLetter(Head(todo[c][l]).id)' /\ B!Undeliverable(Head(todo[c][l]))
        \/ dead'[c][l] = FALSE
    BY <1>0, <1>8, LoopEffect DEF LoopOutcome
  <2>3. CASE todo' = todo /\ DeadLetter(Head(todo[c][l]).id)' /\ B!Undeliverable(Head(todo[c][l]))
    BY <2>1, <2>3 DEF B!Undeliverable
  <2>4. CASE ~ B!Undeliverable(Head(todo[c][l])) /\ dead' = dead
    BY <1>0, <2>4 DEF DeadIsWritten
  <2> QED BY <2>2, <2>3, <2>4
<1>9. ASSUME NEW d \in Consumers, NEW r \in B!Runs, Works(d, r) PROVE dead[c][l] /\ todo'[c][l] = todo[c][l]
  BY <1>0, <1>9, WorkEffect
<1>10. ASSUME NEW e \in Entries, B!GoesIdle(e) PROVE dead[c][l] /\ todo'[c][l] = todo[c][l]
  BY <1>10 DEF B!GoesIdle, B!loopVars
<1>11. CASE UNCHANGED B!vars
  BY <1>2, <1>11 DEF B!vars
<1> QED BY <1>2, <1>3, <1>4, <1>5, <1>6, <1>7, <1>8, <1>9, <1>10, <1>11, Steps DEF Fetches

LEMMA SeenStep == KeptInv /\ [B!Next]_(B!vars) => SeenIsDone'
<1> SUFFICES ASSUME KeptInv, [B!Next]_(B!vars), NEW c \in Consumers, NEW e \in seen'[c] PROVE Done(e)'
  BY DEF SeenIsDone
<1>0. B!TypeOK /\ DeadIsWritten /\ seen \in [Consumers -> SUBSET Entries] /\ effects \in Seq(Entries)
  BY TypeParts DEF KeptInv, WorkTypes, RedisTypes
<1>1. ASSUME seen'[c] \subseteq seen[c] PROVE Done(e)'
  BY <1>0, <1>1, SettledStays DEF KeptInv, SeenIsDone
<1>2. ASSUME NEW d \in Consumers, Fetches(d) PROVE seen' = seen
  BY <1>2 DEF Fetches, B!Read, B!Scan, B!Claim, B!workVars
<1>3. ASSUME NEW d \in Consumers, B!Crash(d) PROVE seen'[c] \subseteq seen[c]
  BY <1>0, <1>3 DEF B!Crash
<1>4. ASSUME NEW d \in Consumers, NEW l \in B!Loops, Loop(d, l) PROVE seen' = seen
  BY <1>0, <1>4, LoopEffect
<1>5. ASSUME NEW d \in Consumers, NEW r \in B!Runs, Works(d, r) PROVE Done(e)'
  <2>1. CASE seen' = seen
    BY <1>1, <2>1
  <2>2. CASE B!HandlerCommits(d, r)
    <3>1. /\ effects' = Append(effects, B!Task(d, r).id)
          /\ seen' = [seen EXCEPT ![d] = @ \union {B!Task(d, r).id}]
      BY <2>2 DEF B!HandlerCommits
    <3>2. B!Task(d, r).id \in Entries
      BY <1>0, <1>5, WorkEffect, TaskInHand
    <3>3. Len(effects) + 1 \in DOMAIN effects' /\ effects'[Len(effects) + 1] = B!Task(d, r).id
      BY <1>0, <3>1, <3>2, AppendProperties, LenProperties
    <3>4. CASE e \in seen[c]
      BY <1>0, <3>4, SettledStays DEF KeptInv, SeenIsDone
    <3>5. CASE e = B!Task(d, r).id
      BY <3>3, <3>5 DEF Done
    <3>6. seen'[c] \subseteq seen[c] \union {B!Task(d, r).id}
      BY <1>0, <3>1
    <3> QED BY <3>4, <3>5, <3>6
  <2> QED BY <1>5, <2>1, <2>2 DEF Works, B!Begin, B!HandlerFails, B!WriteDlq, B!Ack, B!WorkerCallFails
<1>6. ASSUME NEW x \in Entries, B!GoesIdle(x) PROVE seen' = seen
  BY <1>6 DEF B!GoesIdle, B!workVars
<1> QED BY <1>1, <1>2, <1>3, <1>4, <1>5, <1>6, Steps DEF B!vars

LEMMA PassStep == KeptInv /\ [B!Next]_(B!vars) => PassIsDone'
<1> SUFFICES ASSUME KeptInv, [B!Next]_(B!vars), NEW c \in Consumers, scanned'[c] PROVE todo'[c]["claim"] = <<>>
  BY DEF PassIsDone
<1>0. B!TypeOK /\ DeadIsWritten /\ scanned \in [Consumers -> BOOLEAN] /\ "claim" \in B!Loops
      /\ (scanned[c] => todo[c]["claim"] = <<>>)
  BY TypeParts DEF KeptInv, LoopTypes, B!Loops, PassIsDone
<1>1. ASSUME NEW d \in Consumers, B!Read(d) PROVE todo'[c]["claim"] = <<>>
  <2>1. /\ UNCHANGED scanned
        /\ \A x \in Consumers, k \in B!Loops : x # d \/ k # "read" => todo'[x][k] = todo[x][k]
    BY <1>0, <1>1, ReadEffect
  <2> QED BY <1>0, <2>1
<1>2. ASSUME NEW d \in Consumers, B!Scan(d) PROVE todo'[c]["claim"] = <<>>
  BY <1>0, <1>2 DEF B!Scan
<1>3. ASSUME NEW d \in Consumers, B!Claim(d) PROVE todo'[c]["claim"] = <<>>
  <2>1. /\ scanned' = [scanned EXCEPT ![d] = FALSE]
        /\ \A x \in Consumers, k \in B!Loops : x # d \/ k # "claim" => todo'[x][k] = todo[x][k]
    BY <1>0, <1>3, ClaimEffect
  <2>2. c # d /\ scanned[c]
    BY <1>0, <2>1
  <2> QED BY <1>0, <2>1, <2>2
<1>4. ASSUME NEW d \in Consumers, B!Crash(d) PROVE todo'[c]["claim"] = <<>>
  <2>1. todo \in [Consumers -> [B!Loops -> Seq(B!Tasks)]]
    BY <1>0 DEF B!TypeOK
  <2> QED BY <1>0, <1>4, <2>1 DEF B!Crash
<1>5. ASSUME NEW d \in Consumers, NEW l \in B!Loops, Loop(d, l) PROVE todo'[c]["claim"] = <<>>
  <2>1. UNCHANGED scanned /\ todo[d][l] # <<>>
    BY <1>0, <1>5, LoopEffect
  <2>2. \A x \in Consumers, k \in B!Loops : x # d \/ k # l => todo'[x][k] = todo[x][k]
    BY <1>0, <1>5, LoopFrame
  <2> QED BY <1>0, <2>1, <2>2
<1>6. ASSUME NEW d \in Consumers, NEW r \in B!Runs, Works(d, r) PROVE todo'[c]["claim"] = <<>>
  BY <1>0, <1>6, WorkEffect
<1>7. ASSUME NEW x \in Entries, B!GoesIdle(x) PROVE todo'[c]["claim"] = <<>>
  BY <1>0, <1>7 DEF B!GoesIdle, B!loopVars
<1>8. CASE UNCHANGED B!vars
  BY <1>0, <1>8 DEF B!vars
<1> QED BY <1>1, <1>2, <1>3, <1>4, <1>5, <1>6, <1>7, <1>8, Steps DEF Fetches

\* An entry stays pending until it is settled.
LEMMA PendingStays ==
  ASSUME KeptInv, [B!Next]_(B!vars), NEW e \in Entries, pel[e].count > 0
  PROVE  pel'[e].count > 0 \/ Settled(e)
<1>0. B!TypeOK /\ DeadIsWritten /\ pel \in [Entries -> [count : Nat, idle : BOOLEAN]]
  BY TypeParts DEF KeptInv, RedisTypes
<1>1. ASSUME NEW x, pel' = B!Acked(x), Settled(x) PROVE pel'[e].count > 0 \/ Settled(e)
  BY <1>0, <1>1 DEF B!Acked
<1>2. ASSUME NEW c \in Consumers, B!Read(c) PROVE pel'[e].count > 0
  BY <1>0, <1>2 DEF B!Read
<1>3. ASSUME NEW c \in Consumers, B!Claim(c) PROVE pel'[e].count > 0
  <2>1. pel'[e] = [count |-> pel[e].count + 1, idle |-> FALSE] \/ pel'[e] = pel[e]
    BY <1>0, <1>3, ClaimEffect
  <2>2. pel[e].count \in Nat
    BY <1>0
  <2> QED BY <2>1, <2>2
<1>4. ASSUME NEW c \in Consumers, B!Scan(c) \/ B!Crash(c) PROVE pel' = pel
  BY <1>4 DEF B!Scan, B!Crash, B!redisVars
<1>5. ASSUME NEW c \in Consumers, NEW l \in B!Loops, Loop(c, l) PROVE pel'[e].count > 0 \/ Settled(e)
  <2>1. pel' = pel \/ (dead[c][l] /\ pel' = B!Acked(Head(todo[c][l]).id))
    BY <1>0, <1>5, LoopEffect DEF LoopOutcome
  <2>2. dead[c][l] => Settled(Head(todo[c][l]).id)
    BY <1>0 DEF DeadIsWritten, Settled
  <2> QED BY <1>1, <2>1, <2>2
<1>6. ASSUME NEW c \in Consumers, NEW r \in B!Runs, Works(c, r) PROVE pel'[e].count > 0 \/ Settled(e)
  <2>1. pel' = pel \/ B!Ack(c, r)
    BY <1>6 DEF Works, B!Begin, B!HandlerCommits, B!HandlerFails, B!WriteDlq, B!WorkerCallFails, B!redisVars
  <2>2. CASE B!Ack(c, r)
    <3>1. pel' = B!Acked(B!Task(c, r).id) /\ phase[c][r] = "ack"
      BY <2>2 DEF B!Ack
    <3>2. Settled(B!Task(c, r).id)
      BY <3>1 DEF KeptInv, AckedIsSettled
    <3> QED BY <1>1, <3>1, <3>2
  <2> QED BY <2>1, <2>2
<1>7. ASSUME NEW x \in Entries, B!GoesIdle(x) PROVE pel'[e].count > 0
  <2>1. pel' = [pel EXCEPT ![x].idle = TRUE]
    BY <1>7 DEF B!GoesIdle
  <2>2. pel'[e].count = pel[e].count
    BY <1>0, <2>1
  <2> QED BY <2>2
<1> QED BY <1>2, <1>3, <1>4, <1>5, <1>6, <1>7, Steps DEF Fetches, B!vars

LEMMA LastGrows ==
  ASSUME B!TypeOK, DeadIsWritten, [B!Next]_(B!vars)
  PROVE  last' = last \/ \E c \in Consumers : B!Read(c)
<1>1. ASSUME NEW c \in Consumers, B!Scan(c) \/ B!Claim(c) \/ B!Crash(c) PROVE last' = last
  BY <1>1 DEF B!Scan, B!Claim, B!Crash, B!redisVars
<1>2. ASSUME NEW c \in Consumers, NEW l \in B!Loops, Loop(c, l) PROVE last' = last
  BY <1>2, LoopEffect
<1>3. ASSUME NEW c \in Consumers, NEW r \in B!Runs, Works(c, r) PROVE last' = last
  BY <1>3, WorkEffect
<1>4. ASSUME NEW e \in Entries, B!GoesIdle(e) PROVE last' = last
  BY <1>4 DEF B!GoesIdle
<1> QED BY <1>1, <1>2, <1>3, <1>4, Steps DEF Fetches, B!vars

LEMMA KeptStep == KeptInv /\ [B!Next]_(B!vars) => NoEntryLost'
<1> SUFFICES ASSUME KeptInv, [B!Next]_(B!vars), NEW e \in 1..last'
             PROVE  pel'[e].count > 0 \/ Settled(e)'
  BY DEF NoEntryLost, IsPending, Settled
<1>0. B!TypeOK /\ DeadIsWritten /\ last \in 0..Len(RunOf) /\ pel \in [Entries -> [count : Nat, idle : BOOLEAN]]
  BY TypeParts DEF KeptInv, RedisTypes
<1>1. CASE e \in 1..last
  <2>1. e \in Entries
    BY <1>0, <1>1, RunAssumption
  <2>2. pel[e].count > 0 \/ Settled(e)
    BY <1>1 DEF KeptInv, NoEntryLost, IsPending, Settled
  <2>3. Settled(e) => Settled(e)'
    BY <1>0, SettledStays DEF Settled
  <2> QED BY <2>1, <2>2, <2>3, PendingStays
<1>2. CASE e \notin 1..last
  <2>1. PICK c \in Consumers : B!Read(c)
    BY <1>0, <1>2, LastGrows
  <2>2. last' = last + 1 /\ e = last'
    BY <1>0, <1>2, <2>1, ReadEffect
  <2>3. pel' = [pel EXCEPT ![last + 1] = [count |-> 1, idle |-> FALSE]] /\ last + 1 \in Entries
    BY <1>0, <2>1, ReadEffect DEF B!Read
  <2> QED BY <1>0, <2>2, <2>3
<1> QED BY <1>1, <1>2

LEMMA KeptInit == B!Init => KeptInv
<1> SUFFICES ASSUME B!Init PROVE KeptInv
  OBVIOUS
<1>1. B!Entries = Entries /\ "none" \in B!Phases
  BY DEF B!Entries, Entries, B!Phases
<1>2. RedisTypes
  BY <1>1, RunAssumption, FaultAssumption DEF B!Init, RedisTypes, B!NotPending
<1>3. LoopTypes
  BY <1>1 DEF B!Init, LoopTypes, B!NotListed
<1>4. WorkTypes
  <2>1. queue \in [Consumers -> [B!Runs -> Seq(B!Tasks)]] /\ phase \in [Consumers -> [B!Runs -> B!Phases]]
    BY <1>1 DEF B!Init
  <2>2. \A c \in Consumers, r \in B!Runs : phase[c][r] = "none"
    BY DEF B!Init
  <2> QED BY <2>1, <2>2 DEF B!Init, WorkTypes
<1>5. AckedIsSettled
  BY DEF B!Init, AckedIsSettled
<1> QED BY <1>2, <1>3, <1>4, <1>5, TypeParts DEF B!Init, KeptInv, DeadIsWritten, SeenIsDone, PassIsDone, NoEntryLost

LEMMA KeptInductive == KeptInv /\ [B!Next]_(B!vars) => KeptInv'
BY ConsumerTypes, DeadStep, AckedStep, SeenStep, PassStep, KeptStep DEF KeptInv

LEMMA KeptAlways == B!Spec => []KeptInv
<1> QED BY KeptInit, KeptInductive, PTL DEF B!Spec

\* No entry of the stream leaves the pending list before it took effect or is a dead
\* letter, whatever processes die, calls fail and entries are claimed twice.
THEOREM EntriesKept == B!Spec => []NoEntryLost
<1>1. KeptInv => NoEntryLost
  BY DEF KeptInv
<1> QED BY <1>1, KeptAlways, PTL

-----------------------------------------------------------------------------
(* One effect, unless the process dies *)

Among(t, s) == \E i \in 1..Len(s) : s[i] = t

NoRepeat(s) == \A i, j \in 1..Len(s) : s[i] = s[j] => i = j

LEMMA AmongTail ==
  ASSUME NEW S, NEW s \in Seq(S), s # <<>>
  PROVE  /\ \A t : Among(t, s) <=> t = Head(s) \/ Among(t, Tail(s))
         /\ NoRepeat(s) => NoRepeat(Tail(s)) /\ ~ Among(Head(s), Tail(s))
<1>1. /\ Len(s) \in Nat \ {0} /\ Len(Tail(s)) = Len(s) - 1 /\ Head(s) = s[1]
      /\ \A i \in 1..Len(Tail(s)) : Tail(s)[i] = s[i + 1]
  BY HeadTailProperties, EmptySeq, LenProperties
<1>2. ASSUME NEW t, Among(t, s), t # Head(s) PROVE Among(t, Tail(s))
  <2>1. PICK i \in 1..Len(s) : s[i] = t
    BY <1>2 DEF Among
  <2>2. i - 1 \in 1..Len(Tail(s)) /\ (i - 1) + 1 = i
    BY <1>1, <1>2, <2>1
  <2> QED BY <1>1, <2>1, <2>2 DEF Among
<1>3. ASSUME NEW t, Among(t, Tail(s)) PROVE Among(t, s)
  <2>1. PICK i \in 1..Len(Tail(s)) : Tail(s)[i] = t
    BY <1>3 DEF Among
  <2>2. i + 1 \in 1..Len(s)
    BY <1>1, <2>1
  <2> QED BY <1>1, <2>1, <2>2 DEF Among
<1>4. Among(Head(s), s)
  BY <1>1 DEF Among
<1>5. ASSUME NoRepeat(s) PROVE NoRepeat(Tail(s))
  <2> SUFFICES ASSUME NEW i \in 1..Len(Tail(s)), NEW j \in 1..Len(Tail(s)), Tail(s)[i] = Tail(s)[j] PROVE i = j
    BY DEF NoRepeat
  <2>1. i + 1 \in 1..Len(s) /\ j + 1 \in 1..Len(s) /\ s[i + 1] = s[j + 1]
    BY <1>1
  <2>2. i + 1 = j + 1
    BY <1>5, <2>1 DEF NoRepeat
  <2> QED BY <2>2
<1>6. ASSUME NoRepeat(s), Among(Head(s), Tail(s)) PROVE FALSE
  <2>1. PICK i \in 1..Len(Tail(s)) : Tail(s)[i] = Head(s)
    BY <1>6 DEF Among
  <2>2. i + 1 \in 1..Len(s) /\ 1 \in 1..Len(s) /\ s[i + 1] = s[1]
    BY <1>1, <2>1
  <2>3. i + 1 = 1
    BY <1>6, <2>2 DEF NoRepeat
  <2> QED BY <2>3
<1> QED BY <1>2, <1>3, <1>4, <1>5, <1>6

LEMMA AmongAppend ==
  ASSUME NEW S, NEW s \in Seq(S), NEW x \in S
  PROVE  /\ \A t : Among(t, Append(s, x)) <=> t = x \/ Among(t, s)
         /\ NoRepeat(s) /\ ~ Among(x, s) => NoRepeat(Append(s, x))
<1>1. /\ Len(s) \in Nat /\ Len(Append(s, x)) = Len(s) + 1 /\ Append(s, x)[Len(s) + 1] = x
      /\ \A i \in 1..Len(s) : Append(s, x)[i] = s[i]
  BY AppendProperties, LenProperties
<1>2. ASSUME NEW t, Among(t, Append(s, x)), t # x PROVE Among(t, s)
  <2>1. PICK i \in 1..Len(Append(s, x)) : Append(s, x)[i] = t
    BY <1>2 DEF Among
  <2>2. i \in 1..Len(s)
    BY <1>1, <1>2, <2>1
  <2> QED BY <1>1, <2>1, <2>2 DEF Among
<1>3. ASSUME NEW t, Among(t, s) PROVE Among(t, Append(s, x))
  BY <1>1, <1>3 DEF Among
<1>4. Among(x, Append(s, x))
  BY <1>1 DEF Among
<1>5. ASSUME NoRepeat(s), ~ Among(x, s), NEW i \in 1..Len(Append(s, x)), NEW j \in 1..Len(Append(s, x)),
             Append(s, x)[i] = Append(s, x)[j]
      PROVE  i = j
  <2>1. i \in 1..Len(s) \/ i = Len(s) + 1
    BY <1>1
  <2>2. j \in 1..Len(s) \/ j = Len(s) + 1
    BY <1>1
  <2>3. CASE i \in 1..Len(s) /\ j \in 1..Len(s)
    BY <1>1, <1>5, <2>3 DEF NoRepeat
  <2>4. CASE i \in 1..Len(s) /\ j = Len(s) + 1
    BY <1>1, <1>5, <2>4 DEF Among
  <2>5. CASE i = Len(s) + 1 /\ j \in 1..Len(s)
    BY <1>1, <1>5, <2>5 DEF Among
  <2> QED BY <2>1, <2>2, <2>3, <2>4, <2>5
<1> QED BY <1>2, <1>3, <1>4, <1>5 DEF NoRepeat

\* Two processes of a group may handle one entry at the same time.
OneConsumer == \E c : Consumers = {c}

\* A mailbox has the tasks of its run only.
TasksOfRun == \A c \in Consumers, r \in B!Runs : \A t : Among(t, queue[c][r]) => RunOf[t.id] = r

\* What a worker handles is not done yet: the guard of the process knows all that is.
GuardKnows == faults["crash"] = 0 => \A c \in Consumers, e \in Entries : Done(e) => e \in seen[c]

HandledIsNew ==
  \A c \in Consumers, r \in B!Runs : phase[c][r] = "handling" => B!Task(c, r).id \notin seen[c]

OnceInv == TasksOfRun /\ GuardKnows /\ HandledIsNew /\ EffectOnceUnlessCrash

LEMMA TasksOfRunStep == KeptInv /\ TasksOfRun /\ [B!Next]_(B!vars) => TasksOfRun'
<1> SUFFICES ASSUME KeptInv, TasksOfRun, [B!Next]_(B!vars), NEW c \in Consumers, NEW r \in B!Runs,
                    NEW t, Among(t, queue'[c][r]), ~ Among(t, queue[c][r])
             PROVE  RunOf[t.id] = r
  BY Zenon DEF TasksOfRun
<1>0. B!TypeOK /\ DeadIsWritten /\ queue[c][r] \in Seq(B!Tasks)
  BY DEF KeptInv, B!TypeOK
<1>1. queue'[c][r] # queue[c][r]
  OBVIOUS
<1>2. ASSUME NEW d \in Consumers, Fetches(d) PROVE UNCHANGED queue
  BY <1>2 DEF Fetches, B!Read, B!Scan, B!Claim, B!workVars
<1>3. ASSUME NEW d \in Consumers, B!Crash(d) PROVE queue'[c][r] = queue[c][r] \/ queue'[c][r] = <<>>
  BY <1>0, <1>3 DEF B!Crash, B!TypeOK
<1>4. ASSUME NEW d \in Consumers, NEW l \in B!Loops, Loop(d, l) PROVE RunOf[t.id] = r
  <2>1. todo[d][l] # <<>> /\ Handed(d, l)
    BY <1>0, <1>1, <1>4, LoopEffect DEF LoopOutcome
  <2>2. Head(todo[d][l]) \in B!Tasks
    BY <1>0, <2>1, HandOver
  <2>3. queue'[d][RunOf[Head(todo[d][l]).id]] = Append(queue[d][RunOf[Head(todo[d][l]).id]], Head(todo[d][l]))
    BY <1>0, <2>1, HandOver
  <2>4. d = c /\ RunOf[Head(todo[d][l]).id] = r
    <3>1. \A a \in Consumers, k \in B!Runs :
            a # d \/ k # RunOf[Head(todo[d][l]).id] => queue'[a][k] = queue[a][k]
      BY <1>0, <2>1, HandOver
    <3> QED BY ONLY <1>1, <3>1, c \in Consumers, r \in B!Runs
  <2>5. queue'[c][r] = Append(queue[c][r], Head(todo[d][l]))
    BY <2>3, <2>4
  <2>6. \A u : Among(u, queue'[c][r]) <=> u = Head(todo[d][l]) \/ Among(u, queue[c][r])
    BY <1>0, <2>2, <2>5, AmongAppend
  <2>7. t = Head(todo[d][l])
    BY <2>6
  <2> QED BY <2>4, <2>7
<1>5. ASSUME NEW d \in Consumers, NEW k \in B!Runs, Works(d, k) PROVE FALSE
  <2>1. d = c /\ k = r
    BY <1>0, <1>1, <1>5, WorkEffect
  <2>2. queue[c][r] # <<>> /\ queue'[c][r] = Tail(queue[c][r])
    BY <1>0, <1>1, <1>5, <2>1, WorkEffect
  <2> QED BY <1>0, <2>2, AmongTail
<1>6. ASSUME NEW e \in Entries, B!GoesIdle(e) PROVE UNCHANGED queue
  BY <1>6 DEF B!GoesIdle, B!workVars
<1>7. ~ Among(t, <<>>)
  BY DEF Among
<1> QED BY <1>1, <1>2, <1>3, <1>4, <1>5, <1>6, <1>7, Steps DEF B!vars

\* What a process does to its effects, to its guard and to the number of deaths.
LEMMA EffectStep ==
  ASSUME KeptInv, [B!Next]_(B!vars)
  PROVE  \/ effects' = effects /\ seen' = seen /\ faults'["crash"] = faults["crash"]
         \/ \E c \in Consumers, r \in B!Runs :
              /\ phase[c][r] = "handling" /\ phase'[c][r] = "ack" /\ B!Task(c, r).id \in Entries
              /\ effects' = Append(effects, B!Task(c, r).id)
              /\ seen' = [seen EXCEPT ![c] = @ \union {B!Task(c, r).id}]
              /\ faults'["crash"] = faults["crash"]
         \/ \E c \in Consumers :
              /\ effects' = effects /\ seen' = [seen EXCEPT ![c] = {}]
              /\ phase' = [phase EXCEPT ![c] = [r \in B!Runs |-> "none"]] /\ faults'["crash"] # 0
<1>0. /\ B!TypeOK /\ DeadIsWritten /\ faults \in [{"crash", "call"} -> Nat]
      /\ phase \in [Consumers -> [B!Runs -> B!Phases]]
  BY DEF KeptInv, B!TypeOK
<1>1. ASSUME B!Fault("call") PROVE faults'["crash"] = faults["crash"]
  BY <1>0, <1>1 DEF B!Fault
<1>2. ASSUME NEW c \in Consumers, Fetches(c)
      PROVE  effects' = effects /\ seen' = seen /\ faults'["crash"] = faults["crash"]
  BY <1>2 DEF Fetches, B!Read, B!Scan, B!Claim, B!workVars
<1>3. ASSUME NEW c \in Consumers, B!Crash(c)
      PROVE  /\ effects' = effects /\ seen' = [seen EXCEPT ![c] = {}]
             /\ phase' = [phase EXCEPT ![c] = [r \in B!Runs |-> "none"]] /\ faults'["crash"] # 0
  <2>1. B!Fault("crash") /\ effects' = effects /\ seen' = [seen EXCEPT ![c] = {}]
        /\ phase' = [phase EXCEPT ![c] = [r \in B!Runs |-> "none"]]
    BY <1>3 DEF B!Crash
  <2>2. faults'["crash"] = faults["crash"] + 1 /\ faults["crash"] \in Nat
    BY <1>0, <2>1 DEF B!Fault
  <2> QED BY <2>1, <2>2
<1>4. ASSUME NEW c \in Consumers, NEW l \in B!Loops, Loop(c, l)
      PROVE  effects' = effects /\ seen' = seen /\ faults'["crash"] = faults["crash"]
  <2>1. effects' = effects /\ seen' = seen
    BY <1>0, <1>4, LoopEffect
  <2>2. faults' = faults \/ B!Fault("call")
    BY <1>4 DEF Loop, B!Dispatch, B!LoopWritesDlq, B!LoopAcks, B!LoopCallFails
  <2> QED BY <1>1, <2>1, <2>2
<1>5. ASSUME NEW c \in Consumers, NEW r \in B!Runs, Works(c, r), ~ B!HandlerCommits(c, r)
      PROVE  effects' = effects /\ seen' = seen /\ faults'["crash"] = faults["crash"]
  <2>1. effects' = effects /\ seen' = seen /\ (faults' = faults \/ B!Fault("call"))
    BY <1>5 DEF Works, B!Begin, B!HandlerFails, B!WriteDlq, B!Ack, B!WorkerCallFails
  <2> QED BY <1>1, <2>1
<1>6. ASSUME NEW c \in Consumers, NEW r \in B!Runs, B!HandlerCommits(c, r)
      PROVE  /\ phase[c][r] = "handling" /\ phase'[c][r] = "ack" /\ B!Task(c, r).id \in Entries
             /\ effects' = Append(effects, B!Task(c, r).id)
             /\ seen' = [seen EXCEPT ![c] = @ \union {B!Task(c, r).id}]
             /\ faults'["crash"] = faults["crash"]
  <2>1. phase[c][r] = "handling" /\ phase' = [phase EXCEPT ![c][r] = "ack"] /\ faults' = faults
        /\ effects' = Append(effects, B!Task(c, r).id)
        /\ seen' = [seen EXCEPT ![c] = @ \union {B!Task(c, r).id}]
    BY <1>6 DEF B!HandlerCommits
  <2>2. B!Task(c, r).id \in Entries
    BY <1>0, <2>1, BusyHasTask, TaskInHand
  <2> QED BY <1>0, <2>1, <2>2
<1>7. ASSUME NEW e \in Entries, B!GoesIdle(e)
      PROVE  effects' = effects /\ seen' = seen /\ faults'["crash"] = faults["crash"]
  BY <1>7 DEF B!GoesIdle, B!workVars
<1>8. CASE UNCHANGED B!vars
  BY <1>8 DEF B!vars
<1> QED BY <1>2, <1>3, <1>4, <1>5, <1>6, <1>7, <1>8, Steps

LEMMA GuardStep == KeptInv /\ GuardKnows /\ OneConsumer /\ [B!Next]_(B!vars) => GuardKnows'
<1> SUFFICES ASSUME KeptInv, GuardKnows, OneConsumer, [B!Next]_(B!vars), faults'["crash"] = 0,
                    NEW c \in Consumers, NEW e \in Entries, Done(e)'
             PROVE  e \in seen'[c]
  BY DEF GuardKnows
<1>0. seen \in [Consumers -> SUBSET Entries] /\ effects \in Seq(Entries)
  BY TypeParts DEF KeptInv, WorkTypes, RedisTypes
<1>1. CASE effects' = effects /\ seen' = seen /\ faults'["crash"] = faults["crash"]
  BY <1>1 DEF GuardKnows, Done
<1>2. ASSUME NEW d \in Consumers, NEW r \in B!Runs, B!Task(d, r).id \in Entries,
             effects' = Append(effects, B!Task(d, r).id),
             seen' = [seen EXCEPT ![d] = @ \union {B!Task(d, r).id}], faults'["crash"] = faults["crash"]
      PROVE  e \in seen'[c]
  <2>1. d = c
    BY DEF OneConsumer
  <2>2. seen'[c] = seen[c] \union {B!Task(d, r).id}
    BY <1>0, <1>2, <2>1
  <2>3. Done(e) \/ e = B!Task(d, r).id
    <3>1. PICK k \in DOMAIN effects' : effects'[k] = e
      BY DEF Done
    <3>2. /\ DOMAIN effects = 1..Len(effects) /\ DOMAIN effects' = 1..(Len(effects) + 1) /\ Len(effects) \in Nat
          /\ effects'[Len(effects) + 1] = B!Task(d, r).id
          /\ \A i \in 1..Len(effects) : effects'[i] = effects[i]
      BY <1>0, <1>2, AppendProperties, LenProperties
    <3>3. k \in 1..Len(effects) \/ k = Len(effects) + 1
      BY <3>1, <3>2
    <3> QED BY <3>1, <3>2, <3>3 DEF Done
  <2>4. Done(e) => e \in seen[c]
    BY <1>2 DEF GuardKnows
  <2> QED BY <2>2, <2>3, <2>4
<1> QED BY <1>1, <1>2, EffectStep

LEMMA HandledStep == KeptInv /\ TasksOfRun /\ HandledIsNew /\ [B!Next]_(B!vars) => HandledIsNew'
<1> SUFFICES ASSUME KeptInv, TasksOfRun, HandledIsNew, [B!Next]_(B!vars), NEW c \in Consumers, NEW r \in B!Runs,
                    phase'[c][r] = "handling"
             PROVE  (B!Task(c, r).id)' \notin seen'[c]
  BY DEF HandledIsNew
<1>0. /\ B!TypeOK /\ DeadIsWritten /\ seen \in [Consumers -> SUBSET Entries]
      /\ phase \in [Consumers -> [B!Runs -> B!Phases]]
  BY TypeParts DEF KeptInv, WorkTypes
<1>1. ASSUME Works(c, r) PROVE (B!Task(c, r).id)' \notin seen'[c]
  <2>1. B!Begin(c, r) /\ UNCHANGED <<queue, seen>>
    BY <1>0, <1>1 DEF Works, B!Begin, B!HandlerCommits, B!HandlerFails, B!WriteDlq, B!Ack, B!WorkerCallFails, B!Finished
  <2>2. ~ B!Duplicate(c, r)
    BY <1>0, <2>1 DEF B!Begin
  <2> QED BY <2>1, <2>2 DEF B!Duplicate, B!Task
<1>2. ASSUME phase[c][r] = "handling", B!Task(c, r)' = B!Task(c, r) PROVE (B!Task(c, r).id)' \notin seen'[c]
  <2>1. B!Task(c, r).id \notin seen[c]
    BY <1>2 DEF HandledIsNew
  <2>2. ASSUME NEW d \in Consumers, NEW k \in B!Runs, phase[d][k] = "handling", phase'[d][k] = "ack",
               seen' = [seen EXCEPT ![d] = @ \union {B!Task(d, k).id}]
        PROVE  B!Task(c, r).id \notin seen'[c]
    <3>1. CASE d # c
      BY <1>0, <2>1, <2>2, <3>1
    <3>2. CASE d = c
      <4>1. k # r
        BY <2>2, <3>2
      <4>2. Among(B!Task(c, r), queue[c][r]) /\ Among(B!Task(c, k), queue[c][k])
        <5>1. \A j \in B!Runs : queue[c][j] \in Seq(B!Tasks)
          BY <1>0 DEF B!TypeOK
        <5>2. queue[c][r] # <<>> /\ queue[c][k] # <<>>
          BY <1>0, <1>2, <2>2, <3>2, BusyHasTask
        <5>3. \A j \in B!Runs : queue[c][j] # <<>> => Among(Head(queue[c][j]), queue[c][j])
          BY <5>1, AmongTail
        <5> QED BY <5>2, <5>3 DEF B!Task
      <4>3. RunOf[B!Task(c, r).id] = r /\ RunOf[B!Task(c, k).id] = k
        BY <4>2 DEF TasksOfRun
      <4>4. B!Task(c, r).id # B!Task(c, k).id
        BY <4>1, <4>3
      <4>5. seen'[c] = seen[c] \union {B!Task(c, k).id}
        BY <1>0, <2>2, <3>2
      <4> QED BY <2>1, <4>4, <4>5
    <3> QED BY <3>1, <3>2
  <2>3. ASSUME NEW d \in Consumers, seen' = [seen EXCEPT ![d] = {}] PROVE B!Task(c, r).id \notin seen'[c]
    BY <1>0, <2>1, <2>3
  <2>4. B!Task(c, r).id \notin seen'[c]
    BY <2>1, <2>2, <2>3, EffectStep
  <2> QED BY <1>2, <2>4
<1> QED BY <1>0, <1>1, <1>2, TaskStays

LEMMA OnceStep ==
  KeptInv /\ GuardKnows /\ HandledIsNew /\ EffectOnceUnlessCrash /\ OneConsumer /\ [B!Next]_(B!vars)
    => EffectOnceUnlessCrash'
<1> SUFFICES ASSUME KeptInv, GuardKnows, HandledIsNew, EffectOnceUnlessCrash, OneConsumer, [B!Next]_(B!vars),
                    faults'["crash"] = 0, NEW j \in DOMAIN effects', NEW k \in DOMAIN effects',
                    effects'[j] = effects'[k]
             PROVE  j = k
  BY DEF EffectOnceUnlessCrash
<1>0. effects \in Seq(Entries)
  BY TypeParts DEF KeptInv, RedisTypes
<1>1. CASE effects' = effects /\ faults'["crash"] = faults["crash"]
  BY <1>1 DEF EffectOnceUnlessCrash
<1>2. ASSUME NEW c \in Consumers, NEW r \in B!Runs, phase[c][r] = "handling", B!Task(c, r).id \in Entries,
             effects' = Append(effects, B!Task(c, r).id), faults'["crash"] = faults["crash"]
      PROVE  j = k
  <2>1. ~ Done(B!Task(c, r).id)
    BY <1>2 DEF GuardKnows, HandledIsNew
  <2>2. /\ DOMAIN effects = 1..Len(effects) /\ DOMAIN effects' = 1..(Len(effects) + 1) /\ Len(effects) \in Nat
        /\ effects'[Len(effects) + 1] = B!Task(c, r).id
        /\ \A i \in 1..Len(effects) : effects'[i] = effects[i]
    BY <1>0, <1>2, AppendProperties, LenProperties
  <2>3. \A i \in 1..Len(effects) : effects'[i] # B!Task(c, r).id
    BY <2>1, <2>2 DEF Done
  <2>4. (j \in 1..Len(effects) \/ j = Len(effects) + 1) /\ (k \in 1..Len(effects) \/ k = Len(effects) + 1)
    BY <2>2
  <2>5. CASE j \in 1..Len(effects) /\ k \in 1..Len(effects)
    BY <1>2, <2>2, <2>5 DEF EffectOnceUnlessCrash
  <2> QED BY <2>2, <2>3, <2>4, <2>5
<1> QED BY <1>1, <1>2, EffectStep

LEMMA OnceInit == B!Init => OnceInv
BY DEF B!Init, OnceInv, TasksOfRun, GuardKnows, HandledIsNew, EffectOnceUnlessCrash, Done, Among

LEMMA OnceInductive == OneConsumer /\ KeptInv /\ OnceInv /\ [B!Next]_(B!vars) => OnceInv'
BY TasksOfRunStep, GuardStep, HandledStep, OnceStep DEF OnceInv

\* Until its process dies, a single consumer commits the effect of an entry once: the
\* duplicate guard stops a second delivery, however often the entry is claimed.
THEOREM EffectOnce ==
  ASSUME OneConsumer
  PROVE  B!Spec => []EffectOnceUnlessCrash
<1>1. KeptInv /\ OnceInv /\ [B!Next]_(B!vars) => OnceInv'
  BY OnceInductive
<1>2. OnceInv => EffectOnceUnlessCrash
  BY DEF OnceInv
<1> QED BY <1>1, <1>2, OnceInit, KeptAlways, KeptInductive, KeptInit, PTL DEF B!Spec

-----------------------------------------------------------------------------
(* The handler's budget *)

\* One page of XPENDING lists every pending entry.
PageShowsAll == Count >= Len(RunOf)

\* The tasks in a mailbox whose handler was not called for.
Mail(c, r) == IF phase[c][r] = "none" THEN queue[c][r] ELSE Tail(queue[c][r])

Waits(c, t) ==
  \/ \E l \in B!Loops : Among(t, todo[c][l])
  \/ \E r \in B!Runs : Among(t, Mail(c, r))

\* No delivery of an entry is in two places.
Apart(c) ==
  /\ \A l \in B!Loops : NoRepeat(todo[c][l])
  /\ \A r \in B!Runs : NoRepeat(Mail(c, r))
  /\ \A k, l \in B!Loops : k # l => \A t : ~ (Among(t, todo[c][k]) /\ Among(t, todo[c][l]))
  /\ \A l \in B!Loops, r \in B!Runs : \A t : ~ (Among(t, todo[c][l]) /\ Among(t, Mail(c, r)))

NoneTwice == \A c \in Consumers : Apart(c)

\* What waits was delivered, and as one of the deliveries that Redis has counted.
Known ==
  \A c \in Consumers : \A t :
    Waits(c, t) => /\ t \in B!Tasks /\ t.attempt >= 1 /\ t.id <= last
                   /\ pel[t.id].count > 0 => t.attempt <= pel[t.id].count

MailInBudget == \A c \in Consumers, r \in B!Runs : \A t : Among(t, Mail(c, r)) => t.attempt <= MaxAttempts

\* Nothing is known of an entry before it is delivered.
Beyond ==
  \A c \in Consumers, e \in Entries : e > last => pel[e].count = 0 /\ calls[e] = 0 /\ snap[c][e] = 0

\* Between its two calls a claim pass has the count of each pending entry, but for those
\* that were delivered in between.
Listed ==
  \A c \in Consumers, e \in Entries :
    scanned[c] /\ pel[e].count > 0 => snap[c][e] = pel[e].count \/ (snap[c][e] = 0 /\ pel[e].count = 1)

\* The attempts at an entry that may still be calls, and what they add up to with the
\* calls there were.
Due(c, e) == {n \in 1..MaxAttempts : Waits(c, [id |-> e, attempt |-> n])}

Budget ==
  \A c \in Consumers, e \in Entries :
    /\ calls[e] + Cardinality(Due(c, e)) <= MaxAttempts
    /\ pel[e].count > 0 => calls[e] + Cardinality(Due(c, e)) <= pel[e].count

BudgetInv == TasksOfRun /\ NoneTwice /\ Known /\ MailInBudget /\ Beyond /\ Listed /\ Budget

\* The steps of the only process, by what they do to the tasks that wait.
TodoShrinks(c) ==
  \A l \in B!Loops :
    todo'[c][l] = todo[c][l] \/ todo'[c][l] = <<>> \/ (todo[c][l] # <<>> /\ todo'[c][l] = Tail(todo[c][l]))

Drops(c) ==
  /\ TodoShrinks(c) /\ calls' = calls /\ last' = last
  /\ \A r \in B!Runs : Mail(c, r)' = Mail(c, r)

HandsOver(c, l, r, t) ==
  /\ calls' = calls /\ last' = last /\ pel' = pel
  /\ todo[c][l] # <<>> /\ t = Head(todo[c][l]) /\ todo'[c][l] = Tail(todo[c][l])
  /\ ~ B!Undeliverable(t) /\ t \in B!Tasks /\ r = RunOf[t.id]
  /\ \A k \in B!Loops : k # l => todo'[c][k] = todo[c][k]
  /\ Mail(c, r)' = Append(Mail(c, r), t)
  /\ \A k \in B!Runs : k # r => Mail(c, k)' = Mail(c, k)

Starts(c, r, t) ==
  /\ last' = last /\ pel' = pel /\ todo' = todo
  /\ Mail(c, r) # <<>> /\ t = Head(Mail(c, r)) /\ Mail(c, r)' = Tail(Mail(c, r))
  /\ \A k \in B!Runs : k # r => Mail(c, k)' = Mail(c, k)
  /\ calls' = calls \/ calls' = [calls EXCEPT ![t.id] = @ + 1]

Forgets(c) ==
  /\ calls' = calls /\ last' = last /\ pel' = pel
  /\ \A l \in B!Loops : todo'[c][l] = <<>>
  /\ \A r \in B!Runs : Mail(c, r)' = <<>>

Fetched(c) ==
  /\ calls' = calls
  /\ \A r \in B!Runs : Mail(c, r)' = Mail(c, r)

LEMMA MailIsSeq ==
  ASSUME B!TypeOK, NEW c \in Consumers, NEW r \in B!Runs
  PROVE  /\ Mail(c, r) \in Seq(B!Tasks)
         /\ \A t : Among(t, Mail(c, r)) => Among(t, queue[c][r]) /\ t \in B!Tasks
<1>1. queue[c][r] \in Seq(B!Tasks) /\ (phase[c][r] # "none" => queue[c][r] # <<>>)
  BY DEF B!TypeOK
<1>2. queue[c][r] # <<>> => Tail(queue[c][r]) \in Seq(B!Tasks)
  BY <1>1
<1> DEFINE S == B!Tasks
<1> HIDE DEF S
<1>3. \A s \in Seq(S) : \A t : Among(t, s) => t \in S
  BY ElementOfSeq DEF Among
<1>4. queue[c][r] \in Seq(S)
  BY <1>1 DEF S
<1>5. \A t : Among(t, queue[c][r]) => t \in S
  BY <1>3, <1>4
<1>6. queue[c][r] # <<>> => \A t : Among(t, Tail(queue[c][r])) => Among(t, queue[c][r])
  BY <1>4, AmongTail
<1>7. \A t : Among(t, Mail(c, r)) => Among(t, queue[c][r])
  BY <1>1, <1>6 DEF Mail
<1> QED BY <1>1, <1>2, <1>5, <1>7 DEF Mail, S

LEMMA MailSame ==
  ASSUME NEW c \in Consumers, NEW r \in B!Runs, phase'[c][r] = phase[c][r], queue'[c][r] = queue[c][r]
  PROVE  Mail(c, r)' = Mail(c, r)
BY DEF Mail

LEMMA FetchedEffect ==
  ASSUME B!TypeOK, NEW c \in Consumers, Fetches(c)
  PROVE  Fetched(c) /\ UNCHANGED <<phase, queue>>
<1>1. UNCHANGED <<phase, queue, calls>>
  BY DEF Fetches, B!Read, B!Scan, B!Claim, B!workVars
<1> QED BY <1>1 DEF Fetched, Mail

LEMMA HandsOverEffect ==
  ASSUME B!TypeOK, DeadIsWritten, NEW c \in Consumers, NEW l \in B!Loops, Loop(c, l)
  PROVE  Drops(c) \/ \E r \in B!Runs : \E t : HandsOver(c, l, r, t)
<1>1. /\ UNCHANGED <<last, phase, calls>> /\ todo[c][l] # <<>>
      /\ \A k \in B!Loops : k # l => todo'[c][k] = todo[c][k]
  <2>1. UNCHANGED <<last, phase, calls>> /\ todo[c][l] # <<>>
    BY LoopEffect
  <2> QED BY <2>1, LoopFrame
<1>2. CASE /\ todo'[c][l] = Tail(todo[c][l]) /\ ~ B!Undeliverable(Head(todo[c][l])) /\ pel' = pel
           /\ Handed(c, l)
  <2>0. Handed(c, l)
    BY <1>2
  <2>a. Head(todo[c][l]) \in B!Tasks /\ RunOf[Head(todo[c][l]).id] \in B!Runs
    BY <1>1, FetchedTask
  <2>b. PICK t \in B!Tasks, r \in B!Runs : t = Head(todo[c][l]) /\ r = RunOf[t.id]
    BY <2>a
  <2>1. /\ queue'[c][r] = Append(queue[c][r], t)
        /\ \A k \in B!Runs : k # r => queue'[c][k] = queue[c][k]
    <3>1. todo[c][l] # <<>>
      BY <1>1
    <3>2. /\ queue'[c][RunOf[Head(todo[c][l]).id]] = Append(queue[c][RunOf[Head(todo[c][l]).id]], Head(todo[c][l]))
          /\ \A d \in Consumers, k \in B!Runs :
               d # c \/ k # RunOf[Head(todo[c][l]).id] => queue'[d][k] = queue[d][k]
      BY <2>0, <3>1, HandOver
    <3>3. RunOf[Head(todo[c][l]).id] = r
      BY <2>b
    <3> QED BY <2>b, <3>2, <3>3
  <2>2. queue[c][r] \in Seq(B!Tasks) /\ (phase[c][r] # "none" => queue[c][r] # <<>>)
    BY <2>1 DEF B!TypeOK
  <2>3. queue[c][r] # <<>> => Tail(Append(queue[c][r], t)) = Append(Tail(queue[c][r]), t)
    BY <2>1, <2>2, HeadTailAppend
  <2>4. Mail(c, r)' = Append(Mail(c, r), t)
    <3>1. phase'[c][r] = phase[c][r]
      BY <1>1
    <3>2. CASE phase[c][r] = "none"
      BY <2>1, <3>1, <3>2 DEF Mail
    <3>3. CASE phase[c][r] # "none"
      <4>1. Mail(c, r)' = Tail(queue'[c][r]) /\ Mail(c, r) = Tail(queue[c][r])
        BY <3>1, <3>3 DEF Mail
      <4> QED BY <2>1, <2>2, <2>3, <3>3, <4>1
    <3> QED BY <3>2, <3>3
  <2>5. \A k \in B!Runs : k # r => Mail(c, k)' = Mail(c, k)
    BY <1>1, <2>1 DEF Mail
  <2>6. HandsOver(c, l, r, t)
    BY <1>1, <1>2, <2>a, <2>b, <2>4, <2>5 DEF HandsOver
  <2> QED BY <2>6
<1>3. CASE queue' = queue /\ todo'[c][l] \in {todo[c][l], Tail(todo[c][l]), <<>>}
  <2>1. TodoShrinks(c)
    BY <1>1, <1>3 DEF TodoShrinks
  <2> QED BY <1>1, <1>3, <2>1 DEF Drops, Mail
<1> QED BY <1>2, <1>3, LoopEffect DEF LoopOutcome

LEMMA StartsEffect ==
  ASSUME KeptInv, NEW c \in Consumers, NEW r \in B!Runs, Works(c, r)
  PROVE  Drops(c) \/ \E t : Starts(c, r, t)
<1>0. B!TypeOK
  BY DEF KeptInv
<1>1. /\ queue[c][r] # <<>> /\ UNCHANGED <<last, todo>>
      /\ \A k \in B!Runs : k # r => phase'[c][k] = phase[c][k] /\ queue'[c][k] = queue[c][k]
  BY <1>0, WorkEffect
<1>2. TodoShrinks(c) /\ \A k \in B!Runs : k # r => Mail(c, k)' = Mail(c, k)
  BY <1>1 DEF TodoShrinks, Mail
<1>3. CASE phase[c][r] = "none" /\ B!Begin(c, r)
  <2>1. /\ phase'[c][r] # "none" /\ UNCHANGED <<pel, queue>>
    BY <1>0, <1>3, WorkEffect
  <2>2. Mail(c, r) = queue[c][r] /\ Mail(c, r)' = Tail(queue[c][r])
    BY <1>3, <2>1 DEF Mail
  <2>3. calls' = calls \/ calls' = [calls EXCEPT ![B!Task(c, r).id] = @ + 1]
    BY <1>3 DEF B!Begin
  <2>4. PICK t : t = Head(queue[c][r])
    OBVIOUS
  <2>5. calls' = calls \/ calls' = [calls EXCEPT ![t.id] = @ + 1]
    BY <2>3, <2>4 DEF B!Task
  <2> QED BY <1>1, <1>2, <2>1, <2>2, <2>4, <2>5 DEF Starts
<1>4. CASE phase[c][r] # "none" /\ phase'[c][r] # "none" /\ UNCHANGED <<queue, calls>>
  <2>1. Mail(c, r)' = Mail(c, r)
    BY <1>4 DEF Mail
  <2> QED BY <1>1, <1>2, <1>4, <2>1 DEF Drops
<1>5. CASE phase[c][r] # "none" /\ phase'[c][r] = "none" /\ queue'[c][r] = Tail(queue[c][r]) /\ calls' = calls
  <2>1. Mail(c, r)' = Mail(c, r)
    BY <1>5 DEF Mail
  <2> QED BY <1>1, <1>2, <1>5, <2>1 DEF Drops
<1> QED BY <1>0, <1>3, <1>4, <1>5, WorkEffect

\* The steps of the only process.
LEMMA ProcessSteps ==
  ASSUME KeptInv, OneConsumer, NEW c \in Consumers, [B!Next]_(B!vars)
  PROVE  \/ B!Read(c) \/ B!Claim(c) \/ Drops(c) \/ Forgets(c)
         \/ \E l \in B!Loops, r \in B!Runs : \E t : HandsOver(c, l, r, t)
         \/ \E r \in B!Runs : \E t : Starts(c, r, t)
<1>0. B!TypeOK /\ DeadIsWritten
  BY DEF KeptInv
<1>1. \A d \in Consumers : d = c
  BY DEF OneConsumer
<1>2. CASE UNCHANGED <<last, todo, queue, phase, calls>>
  <2>1. TodoShrinks(c) /\ \A r \in B!Runs : Mail(c, r)' = Mail(c, r)
    BY <1>2 DEF TodoShrinks, Mail
  <2> QED BY <1>2, <2>1 DEF Drops
<1>3. CASE B!Scan(c)
  BY <1>2, <1>3 DEF B!Scan, B!redisVars, B!workVars
<1>4. CASE B!Crash(c)
  <2>1. /\ \A l \in B!Loops : todo'[c][l] = <<>>
        /\ \A r \in B!Runs : queue'[c][r] = <<>> /\ phase'[c][r] = "none"
        /\ UNCHANGED <<last, pel, calls>>
    BY <1>0, <1>4 DEF B!Crash, B!TypeOK, B!redisVars
  <2>2. \A r \in B!Runs : Mail(c, r)' = <<>>
    BY <2>1 DEF Mail
  <2> QED BY <2>1, <2>2 DEF Forgets
<1>5. ASSUME NEW l \in B!Loops, Loop(c, l)
      PROVE  Drops(c) \/ \E r \in B!Runs : \E t : HandsOver(c, l, r, t)
  BY <1>0, <1>5, HandsOverEffect
<1>6. ASSUME NEW r \in B!Runs, Works(c, r) PROVE Drops(c) \/ \E t : Starts(c, r, t)
  BY <1>6, StartsEffect
<1>7. ASSUME NEW e \in Entries, B!GoesIdle(e) PROVE UNCHANGED <<last, todo, queue, phase, calls>>
  BY <1>7 DEF B!GoesIdle, B!loopVars, B!workVars
<1>8. CASE UNCHANGED B!vars
  BY <1>2, <1>8 DEF B!vars
<1> QED BY <1>1, <1>2, <1>3, <1>4, <1>5, <1>6, <1>7, <1>8, Steps DEF Fetches

\* Redis counts a delivery of an entry at each fetch of it, and no other.
LEMMA CountSteps ==
  ASSUME KeptInv, [B!Next]_(B!vars), \A c \in Consumers : ~ B!Read(c) /\ ~ B!Claim(c), NEW e \in Entries
  PROVE  pel'[e].count = pel[e].count \/ pel'[e].count = 0
<1>0. B!TypeOK /\ DeadIsWritten /\ pel \in [Entries -> [count : Nat, idle : BOOLEAN]]
  BY TypeParts DEF KeptInv, RedisTypes
<1>1. ASSUME NEW x, pel' = B!Acked(x) PROVE pel'[e].count = pel[e].count \/ pel'[e].count = 0
  BY <1>0, <1>1 DEF B!Acked, B!NotPending
<1>2. ASSUME NEW c \in Consumers, B!Scan(c) \/ B!Crash(c) PROVE pel' = pel
  BY <1>2 DEF B!Scan, B!Crash, B!redisVars
<1>3. ASSUME NEW c \in Consumers, NEW l \in B!Loops, Loop(c, l) PROVE pel' = pel \/ \E x : pel' = B!Acked(x)
  BY <1>0, <1>3, LoopEffect DEF LoopOutcome
<1>4. ASSUME NEW c \in Consumers, NEW r \in B!Runs, Works(c, r) PROVE pel' = pel \/ \E x : pel' = B!Acked(x)
  BY <1>4 DEF Works, B!Begin, B!HandlerCommits, B!HandlerFails, B!WriteDlq, B!Ack, B!WorkerCallFails, B!redisVars
<1>5. ASSUME NEW x \in Entries, B!GoesIdle(x) PROVE pel'[e].count = pel[e].count
  <2>1. pel' = [pel EXCEPT ![x].idle = TRUE]
    BY <1>5 DEF B!GoesIdle
  <2> QED BY <1>0, <2>1
<1>6. CASE UNCHANGED B!vars
  BY <1>6 DEF B!vars
<1> QED BY <1>1, <1>2, <1>3, <1>4, <1>5, <1>6, Steps DEF Fetches

LEMMA AmongNone == NoRepeat(<<>>) /\ \A t : ~ Among(t, <<>>)
BY DEF NoRepeat, Among

LEMMA FetchedIsSeq ==
  ASSUME B!TypeOK, NEW c \in Consumers, NEW l \in B!Loops
  PROVE  todo[c][l] \in Seq(B!Tasks) /\ \A t : Among(t, todo[c][l]) => t \in B!Tasks
<1>1. todo[c][l] \in Seq(B!Tasks)
  BY DEF B!TypeOK
<1>2. ASSUME NEW t, Among(t, todo[c][l]) PROVE t \in B!Tasks
  <2> DEFINE S == B!Tasks
  <2>1. todo[c][l] \in Seq(S)
    BY <1>1
  <2> HIDE DEF S
  <2>2. t \in S
    BY <1>2, <2>1, ElementOfSeq DEF Among
  <2> QED BY <2>2 DEF S
<1> QED BY <1>1, <1>2

LEMMA DropsWaits ==
  ASSUME KeptInv, NEW c \in Consumers, Apart(c), Drops(c)
  PROVE  Apart(c)' /\ \A t : Waits(c, t)' => Waits(c, t)
<1>1. ASSUME NEW l \in B!Loops
      PROVE  /\ \A t : Among(t, todo'[c][l]) => Among(t, todo[c][l])
             /\ NoRepeat(todo[c][l]) => NoRepeat(todo'[c][l])
  <2>1. todo[c][l] \in Seq(B!Tasks)
    BY FetchedIsSeq DEF KeptInv
  <2>2. CASE todo'[c][l] = todo[c][l]
    BY <2>2
  <2>3. CASE todo'[c][l] = <<>>
    BY <2>3, AmongNone
  <2>4. CASE todo[c][l] # <<>> /\ todo'[c][l] = Tail(todo[c][l])
    BY <2>1, <2>4, AmongTail
  <2> QED BY <2>2, <2>3, <2>4 DEF Drops, TodoShrinks
<1>2. \A r \in B!Runs : Mail(c, r)' = Mail(c, r)
  BY DEF Drops
<1>3. \A r \in B!Runs : \A t : Among(t, Mail(c, r))' <=> Among(t, Mail(c, r))
  BY <1>2 DEF Among
<1>4. \A r \in B!Runs : NoRepeat(Mail(c, r))' <=> NoRepeat(Mail(c, r))
  BY <1>2 DEF NoRepeat
<1>5. Apart(c)'
  BY <1>1, <1>3, <1>4 DEF Apart
<1>6. \A t : Waits(c, t)' => Waits(c, t)
  BY <1>1, <1>3 DEF Waits
<1> QED BY <1>5, <1>6

LEMMA HandsOverWaits ==
  ASSUME KeptInv, NEW c \in Consumers, NEW l \in B!Loops, NEW r \in B!Runs, NEW t,
         Apart(c), HandsOver(c, l, r, t)
  PROVE  Apart(c)' /\ \A u : Waits(c, u)' => Waits(c, u)
<1>1. /\ todo[c][l] # <<>> /\ t = Head(todo[c][l]) /\ todo'[c][l] = Tail(todo[c][l]) /\ t \in B!Tasks
      /\ \A k \in B!Loops : k # l => todo'[c][k] = todo[c][k]
      /\ Mail(c, r)' = Append(Mail(c, r), t)
      /\ \A k \in B!Runs : k # r => Mail(c, k)' = Mail(c, k)
  BY DEF HandsOver
<1>2. todo[c][l] \in Seq(B!Tasks) /\ Mail(c, r) \in Seq(B!Tasks)
  BY FetchedIsSeq, MailIsSeq DEF KeptInv
<1>3. /\ \A u : Among(u, todo[c][l]) <=> u = t \/ Among(u, todo'[c][l])
      /\ NoRepeat(todo'[c][l]) /\ ~ Among(t, todo'[c][l])
  <2>1. NoRepeat(todo[c][l])
    BY DEF Apart
  <2> QED BY <1>1, <1>2, <2>1, AmongTail
<1>4. ~ Among(t, Mail(c, r))
  BY <1>3 DEF Apart
<1>5. /\ \A u : Among(u, Mail(c, r))' <=> u = t \/ Among(u, Mail(c, r))
      /\ NoRepeat(Mail(c, r))'
  <2>1. NoRepeat(Mail(c, r))
    BY DEF Apart
  <2>2. /\ \A u : Among(u, Append(Mail(c, r), t)) <=> u = t \/ Among(u, Mail(c, r))
        /\ NoRepeat(Append(Mail(c, r), t))
    BY <1>1, <1>2, <1>4, <2>1, AmongAppend
  <2> DEFINE m == Mail(c, r)
             n == Append(m, t)
  <2>3. m' = n
    BY <1>1
  <2>4. \A u : Among(u, m') <=> Among(u, n)
    BY <2>3
  <2>5. NoRepeat(m') <=> NoRepeat(n)
    BY <2>3
  <2>6. (\A u : Among(u, m)' <=> Among(u, m')) /\ (NoRepeat(m)' <=> NoRepeat(m'))
    BY DEF Among, NoRepeat
  <2> QED BY <2>2, <2>4, <2>5, <2>6
<1>6. \A k \in B!Runs : k # r => \A u : Among(u, Mail(c, k))' <=> Among(u, Mail(c, k))
  BY <1>1 DEF Among
<1>7. \A k \in B!Runs : k # r => (NoRepeat(Mail(c, k))' <=> NoRepeat(Mail(c, k)))
  BY <1>1 DEF NoRepeat
<1>8. \A k \in B!Loops : k # l => todo'[c][k] = todo[c][k]
  BY <1>1
<1>9. /\ \A k \in B!Loops : NoRepeat(todo'[c][k])
      /\ \A k \in B!Loops : \A u : Among(u, todo'[c][k]) => Among(u, todo[c][k])
  <2>1. ASSUME NEW k \in B!Loops
        PROVE  NoRepeat(todo'[c][k]) /\ \A u : Among(u, todo'[c][k]) => Among(u, todo[c][k])
    <3>1. CASE k = l
      BY <1>3, <3>1
    <3>2. CASE k # l
      BY <1>8, <3>2 DEF Apart
    <3> QED BY <3>1, <3>2
  <2> QED BY <2>1
<1>10. Apart(c)'
  <2>1. \A k \in B!Runs : NoRepeat(Mail(c, k))'
    BY <1>5, <1>7 DEF Apart
  <2>2. ASSUME NEW j \in B!Loops, NEW k \in B!Loops, j # k, NEW u, Among(u, todo'[c][j]), Among(u, todo'[c][k])
        PROVE  FALSE
    BY <1>9, <2>2 DEF Apart
  <2>3. ASSUME NEW j \in B!Loops, NEW k \in B!Runs, NEW u, Among(u, todo'[c][j]), Among(u, Mail(c, k))'
        PROVE  FALSE
    <3>1. Among(u, todo[c][j])
      BY <1>9, <2>3
    <3>2. u = t /\ k = r
      BY <1>5, <1>6, <2>3, <3>1 DEF Apart
    <3>3. Among(t, todo[c][l])
      BY <1>3
    <3>4. j = l
      BY <3>1, <3>2, <3>3 DEF Apart
    <3> QED BY <1>3, <2>3, <3>2, <3>4
  <2> QED BY <1>9, <2>1, <2>2, <2>3 DEF Apart
<1>11. ASSUME NEW u, Waits(c, u)' PROVE Waits(c, u)
  <2>1. Among(t, todo[c][l])
    BY <1>3
  <2>2. (\E k \in B!Loops : Among(u, todo'[c][k])) \/ (\E k \in B!Runs : Among(u, Mail(c, k))')
    BY <1>11 DEF Waits
  <2> QED BY <1>5, <1>6, <1>9, <2>1, <2>2 DEF Waits
<1> QED BY <1>10, <1>11

LEMMA StartsWaits ==
  ASSUME KeptInv, TasksOfRun, NEW c \in Consumers, NEW r \in B!Runs, NEW t, Apart(c), Starts(c, r, t)
  PROVE  /\ Apart(c)' /\ Waits(c, t) /\ Among(t, Mail(c, r)) /\ t \in B!Tasks
         /\ \A u : Waits(c, u)' => Waits(c, u) /\ u # t
<1>1. /\ Mail(c, r) # <<>> /\ t = Head(Mail(c, r)) /\ Mail(c, r)' = Tail(Mail(c, r)) /\ todo' = todo
      /\ \A k \in B!Runs : k # r => Mail(c, k)' = Mail(c, k)
  BY DEF Starts
<1>2. Mail(c, r) \in Seq(B!Tasks) /\ NoRepeat(Mail(c, r))
  BY MailIsSeq DEF KeptInv, Apart
<1>3. /\ \A u : Among(u, Mail(c, r)) <=> u = t \/ Among(u, Mail(c, r))'
      /\ NoRepeat(Mail(c, r))' /\ ~ Among(t, Mail(c, r))'
  <2> DEFINE m == Mail(c, r)
             n == Tail(m)
  <2>1. (\A u : Among(u, m) <=> u = t \/ Among(u, n)) /\ NoRepeat(n) /\ ~ Among(t, n)
    BY <1>1, <1>2, AmongTail
  <2>2. m' = n
    BY <1>1
  <2>3. (\A u : Among(u, m') <=> Among(u, n)) /\ (NoRepeat(m') <=> NoRepeat(n))
    BY <2>2
  <2>4. (\A u : Among(u, m)' <=> Among(u, m')) /\ (NoRepeat(m)' <=> NoRepeat(m'))
    BY DEF Among, NoRepeat
  <2> QED BY <2>1, <2>3, <2>4
<1>4. \A k \in B!Runs : k # r => \A u : Among(u, Mail(c, k))' <=> Among(u, Mail(c, k))
  BY <1>1 DEF Among
<1>5. \A k \in B!Runs : k # r => (NoRepeat(Mail(c, k))' <=> NoRepeat(Mail(c, k)))
  BY <1>1 DEF NoRepeat
<1>6. \A k \in B!Runs : \A u : Among(u, Mail(c, k))' => Among(u, Mail(c, k))
  BY <1>3, <1>4
<1>7. Apart(c)'
  BY <1>1, <1>3, <1>5, <1>6 DEF Apart
<1>8. Among(t, Mail(c, r)) /\ t \in B!Tasks /\ Waits(c, t)
  BY <1>3, MailIsSeq DEF KeptInv, Waits
<1>9. ASSUME NEW u, Waits(c, u)' PROVE Waits(c, u) /\ u # t
  <2>1. CASE \E l \in B!Loops : Among(u, todo'[c][l])
    BY <1>1, <1>8, <2>1 DEF Apart, Waits
  <2>2. CASE \E k \in B!Runs : Among(u, Mail(c, k))'
    <3>1. PICK k \in B!Runs : Among(u, Mail(c, k))'
      BY <2>2
    <3>2. Waits(c, u) /\ Among(u, Mail(c, k))
      BY <1>6, <3>1 DEF Waits
    <3>3. CASE k = r
      BY <1>3, <3>1, <3>2, <3>3
    <3>4. CASE k # r
      <4>1. Among(u, queue[c][k]) /\ Among(t, queue[c][r])
        BY <1>8, <3>2, MailIsSeq DEF KeptInv
      <4>2. RunOf[u.id] = k /\ RunOf[t.id] = r
        BY <4>1 DEF TasksOfRun
      <4> QED BY <3>2, <3>4, <4>2
    <3> QED BY <3>3, <3>4
  <2> QED BY <1>9, <2>1, <2>2 DEF Waits
<1> QED BY <1>7, <1>8, <1>9

LEMMA ForgetsWaits ==
  ASSUME NEW c \in Consumers, Forgets(c)
  PROVE  Apart(c)' /\ \A t : ~ Waits(c, t)'
<1>1. \A r \in B!Runs : Mail(c, r)' = <<>>
  BY DEF Forgets
<1>2. \A r \in B!Runs : \A t : ~ Among(t, Mail(c, r))'
  BY <1>1 DEF Among
<1>3. \A r \in B!Runs : NoRepeat(Mail(c, r))'
  BY <1>1 DEF NoRepeat
<1>4. \A l \in B!Loops : NoRepeat(todo'[c][l]) /\ \A t : ~ Among(t, todo'[c][l])
  BY AmongNone DEF Forgets
<1> QED BY <1>2, <1>3, <1>4 DEF Apart, Waits

\* A fetch by a loop that has nothing left: what it fetches is all that it has.
LEMMA FetchWaits ==
  ASSUME KeptInv, NEW c \in Consumers, NEW l \in B!Loops, Apart(c), Fetched(c),
         \A k \in B!Loops : k # l => todo'[c][k] = todo[c][k],
         NoRepeat(todo'[c][l]), \A t : Among(t, todo'[c][l]) => ~ Waits(c, t)
  PROVE  Apart(c)' /\ \A t : Waits(c, t)' => Waits(c, t) \/ Among(t, todo'[c][l])
<1>1. \A r \in B!Runs : Mail(c, r)' = Mail(c, r)
  BY DEF Fetched
<1>2. \A r \in B!Runs : \A t : Among(t, Mail(c, r))' <=> Among(t, Mail(c, r))
  BY <1>1 DEF Among
<1>3. \A r \in B!Runs : NoRepeat(Mail(c, r))' <=> NoRepeat(Mail(c, r))
  BY <1>1 DEF NoRepeat
<1>4. \A k \in B!Loops : NoRepeat(todo'[c][k])
  BY DEF Apart
<1>5. \A k \in B!Loops : k # l => \A t : Among(t, todo'[c][k]) <=> Among(t, todo[c][k])
  OBVIOUS
<1>6. \A t : Among(t, todo'[c][l]) =>
        /\ \A k \in B!Loops : ~ Among(t, todo[c][k])
        /\ \A r \in B!Runs : ~ Among(t, Mail(c, r))
  BY DEF Waits
<1>7. ASSUME NEW j \in B!Loops, NEW k \in B!Loops, j # k, NEW t, Among(t, todo'[c][j]), Among(t, todo'[c][k])
      PROVE  FALSE
  BY <1>5, <1>6, <1>7 DEF Apart
<1>8. ASSUME NEW j \in B!Loops, NEW r \in B!Runs, NEW t, Among(t, todo'[c][j]), Among(t, Mail(c, r))'
      PROVE  FALSE
  BY <1>2, <1>5, <1>6, <1>8 DEF Apart
<1>9. Apart(c)'
  BY <1>3, <1>4, <1>7, <1>8 DEF Apart
<1>10. ASSUME NEW t, Waits(c, t)' PROVE Waits(c, t) \/ Among(t, todo'[c][l])
  BY <1>2, <1>5, <1>10 DEF Waits
<1> QED BY <1>9, <1>10

LEMMA ReadWaits ==
  ASSUME KeptInv, Known, NEW c \in Consumers, Apart(c), B!Read(c)
  PROVE  /\ Apart(c)' /\ \A t : Waits(c, t)' => Waits(c, t) \/ t = [id |-> last + 1, attempt |-> 1]
         /\ \A t : Waits(c, t) => t.id # last + 1
         /\ last' = last + 1 /\ last + 1 \in Entries
         /\ \A e \in Entries : pel'[e] = IF e = last + 1 THEN [count |-> 1, idle |-> FALSE] ELSE pel[e]
<1>0. B!TypeOK
  BY DEF KeptInv
<1>1. /\ last' = last + 1 /\ last' \in Entries
      /\ todo'[c]["read"] = <<[id |-> last', attempt |-> 1]>>
      /\ \A k \in B!Loops : k # "read" => todo'[c][k] = todo[c][k]
  BY <1>0, ReadEffect
<1>2. pel' = [pel EXCEPT ![last + 1] = [count |-> 1, idle |-> FALSE]] /\ pel \in [Entries -> [count : Nat, idle : BOOLEAN]]
  BY <1>0, TypeParts DEF B!Read, RedisTypes
<1>3. \A t : Waits(c, t) => t.id # last + 1
  <2>1. last \in Nat
    BY <1>0, RunAssumption DEF B!TypeOK
  <2>2. \A t : Waits(c, t) => t.id \in Entries /\ t.id <= last
    BY DEF Known, B!Tasks, B!Entries, Entries
  <2>3. \A n \in Entries : n <= last => n # last + 1
    BY <2>1, RunAssumption
  <2> QED BY <2>2, <2>3
<1>4. /\ NoRepeat(todo'[c]["read"])
      /\ \A t : Among(t, todo'[c]["read"]) <=> t = [id |-> last + 1, attempt |-> 1]
  BY <1>1 DEF NoRepeat, Among
<1>5. \A t : Among(t, todo'[c]["read"]) => ~ Waits(c, t)
  BY <1>3, <1>4
<1>6. "read" \in B!Loops /\ Fetched(c)
  BY <1>0, FetchedEffect DEF B!Loops, Fetches
<1>7. Apart(c)' /\ \A t : Waits(c, t)' => Waits(c, t) \/ Among(t, todo'[c]["read"])
  BY <1>1, <1>4, <1>5, <1>6, FetchWaits
<1> QED BY <1>1, <1>2, <1>3, <1>4, <1>7

\* The attempt that a claim gives to an entry is the delivery that Redis counts.
LEMMA AttemptIsNext ==
  ASSUME KeptInv, Listed, NEW c \in Consumers, B!Claim(c), NEW e \in Claimed
  PROVE  e \in Entries /\ pel[e].count \in Nat \ {0} /\ B!Attempt(c, e) = pel[e].count + 1
<1>0. B!TypeOK /\ pel \in [Entries -> [count : Nat, idle : BOOLEAN]] /\ snap \in [Consumers -> [Entries -> Nat]]
  BY TypeParts DEF KeptInv, RedisTypes, LoopTypes
<1>1. e \in Entries /\ pel[e].count > 0 /\ scanned[c]
  BY <1>0, ClaimEffect
<1>2. pel[e].count \in Nat \ {0}
  BY <1>0, <1>1
<1>3. snap[c][e] = pel[e].count \/ (snap[c][e] = 0 /\ pel[e].count = 1)
  BY <1>1 DEF Listed
<1> QED BY <1>1, <1>2, <1>3 DEF B!Attempt

LEMMA ClaimWaits ==
  ASSUME KeptInv, Known, Listed, NEW c \in Consumers, Apart(c), B!Claim(c)
  PROVE  /\ Apart(c)'
         /\ \A t : Waits(c, t)' => Waits(c, t) \/ \E e \in Claimed : t = [id |-> e, attempt |-> pel[e].count + 1]
         /\ \A e \in Claimed : e \in Entries /\ pel[e].count \in Nat \ {0}
<1>0. B!TypeOK
  BY DEF KeptInv
<1>1. /\ \A k \in B!Loops : k # "claim" => todo'[c][k] = todo[c][k]
      /\ todo'[c]["claim"] \in Seq(B!Tasks)
  <2>1. "claim" \in B!Loops
    BY DEF B!Loops
  <2> QED BY <1>0, <2>1, ClaimEffect
<1>2. PICK s \in Seq(Claimed) :
        /\ \A j, k \in DOMAIN s : s[j] = s[k] => j = k
        /\ DOMAIN todo'[c]["claim"] = DOMAIN s
        /\ \A k \in DOMAIN s : todo'[c]["claim"][k] = [id |-> s[k], attempt |-> B!Attempt(c, s[k])]
  BY <1>0, ClaimEffect
<1>3. DOMAIN s = 1..Len(s) /\ DOMAIN todo'[c]["claim"] = 1..Len(todo'[c]["claim"])
  BY <1>1, <1>2, LenProperties
<1>4. \A k \in DOMAIN s : s[k] \in Claimed
  BY <1>2, <1>3, ElementOfSeq
<1>5. \A e \in Claimed : e \in Entries /\ pel[e].count \in Nat \ {0} /\ B!Attempt(c, e) = pel[e].count + 1
  BY AttemptIsNext
<1>6. NoRepeat(todo'[c]["claim"])
  <2> SUFFICES ASSUME NEW i \in DOMAIN s, NEW j \in DOMAIN s, todo'[c]["claim"][i] = todo'[c]["claim"][j] PROVE i = j
    BY <1>2, <1>3 DEF NoRepeat
  <2>1. /\ todo'[c]["claim"][i] = [id |-> s[i], attempt |-> B!Attempt(c, s[i])]
        /\ todo'[c]["claim"][j] = [id |-> s[j], attempt |-> B!Attempt(c, s[j])]
    BY <1>2
  <2>2. [id |-> s[i], attempt |-> B!Attempt(c, s[i])] = [id |-> s[j], attempt |-> B!Attempt(c, s[j])]
    BY <2>1
  <2>3. s[i] = s[j]
    BY ONLY <2>2
  <2> QED BY <1>2, <2>3
<1>7. \A t : Among(t, todo'[c]["claim"]) => \E e \in Claimed : t = [id |-> e, attempt |-> pel[e].count + 1]
  <2> SUFFICES ASSUME NEW t, NEW k \in DOMAIN s, todo'[c]["claim"][k] = t
               PROVE  \E e \in Claimed : t = [id |-> e, attempt |-> pel[e].count + 1]
    BY <1>2, <1>3 DEF Among
  <2>1. t = [id |-> s[k], attempt |-> pel[s[k]].count + 1] /\ s[k] \in Claimed
    BY <1>2, <1>4, <1>5
  <2> QED BY <2>1
<1>8. \A t : Among(t, todo'[c]["claim"]) => ~ Waits(c, t)
  <2> SUFFICES ASSUME NEW e \in Claimed, Waits(c, [id |-> e, attempt |-> pel[e].count + 1]) PROVE FALSE
    BY <1>7
  <2>1. pel[e].count \in Nat \ {0}
    BY <1>5
  <2>2. pel[e].count + 1 <= pel[e].count
    BY <2>1 DEF Known
  <2> QED BY <2>1, <2>2
<1>9. "claim" \in B!Loops /\ Fetched(c)
  BY <1>0, FetchedEffect DEF B!Loops, Fetches
<1>10. Apart(c)' /\ \A t : Waits(c, t)' => Waits(c, t) \/ Among(t, todo'[c]["claim"])
  BY <1>1, <1>6, <1>8, <1>9, FetchWaits
<1> QED BY <1>5, <1>7, <1>10

LEMMA MailStep ==
  ASSUME KeptInv, OneConsumer, BudgetInv, [B!Next]_(B!vars)
  PROVE  MailInBudget'
<1> SUFFICES ASSUME NEW c \in Consumers, NEW r \in B!Runs, NEW t, Among(t, Mail(c, r))' PROVE t.attempt <= MaxAttempts
  BY DEF MailInBudget
<1>0. \A u : Among(u, Mail(c, r)) => u.attempt <= MaxAttempts
  BY DEF BudgetInv, MailInBudget
<1>a. Mail(c, r) \in Seq(B!Tasks)
  BY MailIsSeq DEF KeptInv
<1>b. \A k \in B!Runs : Mail(c, k)' = Mail(c, k) => \A u : Among(u, Mail(c, k))' => Among(u, Mail(c, k))
  BY DEF Among
<1>c. ASSUME Mail(c, r)' = Mail(c, r) PROVE t.attempt <= MaxAttempts
  BY <1>0, <1>b, <1>c
<1>1. CASE B!Read(c) \/ B!Claim(c)
  <2>1. Fetched(c)
    BY <1>1, FetchedEffect DEF KeptInv, Fetches
  <2> QED BY <1>c, <2>1 DEF Fetched
<1>2. CASE Drops(c)
  BY <1>c, <1>2 DEF Drops
<1>3. CASE Forgets(c)
  <2>1. Mail(c, r)' = <<>>
    BY <1>3 DEF Forgets
  <2>2. ~ Among(t, Mail(c, r))'
    BY <2>1 DEF Among
  <2> QED BY <2>2
<1>4. ASSUME NEW l \in B!Loops, NEW k \in B!Runs, NEW u, HandsOver(c, l, k, u) PROVE t.attempt <= MaxAttempts
  <2>1. CASE k # r
    BY <1>4, <1>c, <2>1 DEF HandsOver
  <2>2. CASE k = r
    <3>1. Mail(c, r)' = Append(Mail(c, r), u) /\ u \in B!Tasks /\ ~ B!Undeliverable(u)
      BY <1>4, <2>2 DEF HandsOver
    <3>2. Among(t, Append(Mail(c, r), u))
      BY <3>1 DEF Among
    <3>3. t = u \/ Among(t, Mail(c, r))
      BY <1>a, <3>1, <3>2, AmongAppend
    <3>4. u.attempt <= MaxAttempts
      BY <3>1, LimitAssumption DEF B!Undeliverable, B!Tasks
    <3> QED BY <1>0, <3>3, <3>4
  <2> QED BY <2>1, <2>2
<1>5. ASSUME NEW k \in B!Runs, NEW u, Starts(c, k, u) PROVE t.attempt <= MaxAttempts
  <2>1. CASE k # r
    BY <1>5, <1>c, <2>1 DEF Starts
  <2>2. CASE k = r
    <3>1. Mail(c, r) # <<>> /\ Mail(c, r)' = Tail(Mail(c, r))
      BY <1>5, <2>2 DEF Starts
    <3>2. Among(t, Tail(Mail(c, r)))
      BY <3>1 DEF Among
    <3> QED BY <1>0, <1>a, <3>1, <3>2, AmongTail
  <2> QED BY <2>1, <2>2
<1> QED BY <1>1, <1>2, <1>3, <1>4, <1>5, ProcessSteps

\* What a step does to the tasks that wait and to the calls, if it fetches nothing.
WaitsLess(c) ==
  /\ last' = last /\ \A t : Waits(c, t)' => Waits(c, t)
  /\ \/ calls' = calls
     \/ \E t \in B!Tasks : /\ Waits(c, t) /\ ~ Waits(c, t)' /\ t.attempt <= MaxAttempts
                           /\ calls' = [calls EXCEPT ![t.id] = @ + 1]

LEMMA WaitSteps ==
  ASSUME KeptInv, OneConsumer, BudgetInv, NEW c \in Consumers, [B!Next]_(B!vars)
  PROVE  Apart(c)' /\ (B!Read(c) \/ B!Claim(c) \/ WaitsLess(c))
<1>0. TasksOfRun /\ Apart(c) /\ Known /\ Listed /\ MailInBudget
  BY DEF BudgetInv, NoneTwice
<1>1. CASE B!Read(c)
  BY <1>0, <1>1, ReadWaits
<1>2. CASE B!Claim(c)
  BY <1>0, <1>2, ClaimWaits
<1>3. CASE Drops(c)
  <2>1. Apart(c)' /\ \A t : Waits(c, t)' => Waits(c, t)
    BY <1>0, <1>3, DropsWaits
  <2> QED BY <1>3, <2>1 DEF Drops, WaitsLess
<1>4. CASE Forgets(c)
  <2>1. Apart(c)' /\ \A t : Waits(c, t)' => Waits(c, t)
    BY <1>4, ForgetsWaits
  <2> QED BY <1>4, <2>1 DEF Forgets, WaitsLess
<1>5. ASSUME NEW l \in B!Loops, NEW r \in B!Runs, NEW t, HandsOver(c, l, r, t) PROVE Apart(c)' /\ WaitsLess(c)
  <2>1. Apart(c)' /\ \A u : Waits(c, u)' => Waits(c, u)
    BY <1>0, <1>5, HandsOverWaits
  <2> QED BY <1>5, <2>1 DEF HandsOver, WaitsLess
<1>6. ASSUME NEW r \in B!Runs, NEW t, Starts(c, r, t) PROVE Apart(c)' /\ WaitsLess(c)
  <2>1. /\ Apart(c)' /\ Waits(c, t) /\ Among(t, Mail(c, r)) /\ t \in B!Tasks
        /\ \A u : Waits(c, u)' => Waits(c, u) /\ u # t
    BY <1>0, <1>6, StartsWaits
  <2>2. t.attempt <= MaxAttempts
    BY <1>0, <2>1 DEF MailInBudget
  <2>3. ~ Waits(c, t)'
    BY <2>1
  <2> QED BY <1>6, <2>1, <2>2, <2>3 DEF Starts, WaitsLess
<1> QED BY <1>1, <1>2, <1>3, <1>4, <1>5, <1>6, ProcessSteps

LEMMA NoneTwiceStep == KeptInv /\ OneConsumer /\ BudgetInv /\ [B!Next]_(B!vars) => NoneTwice'
BY WaitSteps DEF NoneTwice

LEMMA KnownStep == KeptInv /\ OneConsumer /\ BudgetInv /\ [B!Next]_(B!vars) => Known'
<1> SUFFICES ASSUME KeptInv, OneConsumer, BudgetInv, [B!Next]_(B!vars), NEW c \in Consumers, NEW t, Waits(c, t)'
             PROVE  /\ t \in B!Tasks /\ t.attempt >= 1 /\ t.id <= last'
                    /\ pel'[t.id].count > 0 => t.attempt <= pel'[t.id].count
  BY DEF Known
<1>0. /\ B!TypeOK /\ pel \in [Entries -> [count : Nat, idle : BOOLEAN]] /\ last \in Nat
      /\ Known /\ Listed /\ Apart(c)
  BY TypeParts DEF KeptInv, RedisTypes, BudgetInv, NoneTwice
<1>a. Waits(c, t) => t \in B!Tasks /\ t.id \in Entries /\ t.attempt \in Nat \ {0} /\ t.id <= last
                     /\ (pel[t.id].count > 0 => t.attempt <= pel[t.id].count)
  <2>1. Waits(c, t) => t \in B!Tasks /\ t.attempt >= 1 /\ t.id <= last
                       /\ (pel[t.id].count > 0 => t.attempt <= pel[t.id].count)
    BY <1>0 DEF Known
  <2>2. t \in B!Tasks => t.id \in Entries /\ t.attempt \in Nat
    BY DEF B!Tasks, B!Entries, Entries
  <2> QED BY <2>1, <2>2
<1>b. \A e \in Entries : e \in Nat /\ pel[e].count \in Nat
  BY <1>0, RunAssumption
<1>1. CASE B!Read(c)
  <2>1. /\ Waits(c, t) \/ t = [id |-> last + 1, attempt |-> 1]
        /\ Waits(c, t) => t.id # last + 1
        /\ last' = last + 1 /\ last + 1 \in Entries
        /\ \A e \in Entries : pel'[e] = IF e = last + 1 THEN [count |-> 1, idle |-> FALSE] ELSE pel[e]
    BY <1>0, <1>1, ReadWaits
  <2>2. CASE Waits(c, t)
    BY <1>0, <1>a, <1>b, <2>1, <2>2
  <2>3. CASE t = [id |-> last + 1, attempt |-> 1]
    <3>1. t \in B!Tasks
      BY <2>1, <2>3 DEF B!Tasks, B!Entries, Entries
    <3> QED BY <1>0, <2>1, <2>3, <3>1
  <2> QED BY <2>1, <2>2, <2>3
<1>2. CASE B!Claim(c)
  <2>1. /\ Waits(c, t) \/ \E e \in Claimed : t = [id |-> e, attempt |-> pel[e].count + 1]
        /\ \A e \in Claimed : e \in Entries /\ pel[e].count \in Nat \ {0}
    BY <1>0, <1>2, ClaimWaits
  <2>2. /\ last' = last
        /\ \A e \in Entries : pel'[e] = IF e \in Claimed THEN [count |-> pel[e].count + 1, idle |-> FALSE] ELSE pel[e]
    BY <1>0, <1>2, ClaimEffect
  <2>a. \A e \in Claimed : e \in Entries /\ pel[e].count \in Nat \ {0} /\ pel'[e].count = pel[e].count + 1
    <3> SUFFICES ASSUME NEW e \in Claimed
                 PROVE  e \in Entries /\ pel[e].count \in Nat \ {0} /\ pel'[e].count = pel[e].count + 1
      OBVIOUS
    <3>1. e \in Entries /\ pel[e].count \in Nat \ {0}
      BY <2>1
    <3>2. pel'[e] = [count |-> pel[e].count + 1, idle |-> FALSE]
      BY <2>2, <3>1
    <3> QED BY <3>1, <3>2
  <2>b. \A e \in Entries : e \notin Claimed => pel'[e] = pel[e]
    BY <2>2
  <2>3. CASE Waits(c, t)
    <3>1. CASE t.id \in Claimed
      <4>1. pel'[t.id].count = pel[t.id].count + 1 /\ pel[t.id].count \in Nat \ {0}
        BY <2>a, <3>1
      <4> QED BY <1>a, <2>2, <2>3, <4>1
    <3>2. CASE t.id \notin Claimed
      BY <1>a, <2>2, <2>3, <2>b, <3>2
    <3> QED BY <3>1, <3>2
  <2>4. ASSUME NEW e \in Claimed, t = [id |-> e, attempt |-> pel[e].count + 1]
        PROVE  /\ t \in B!Tasks /\ t.attempt >= 1 /\ t.id <= last
               /\ pel'[t.id].count > 0 => t.attempt <= pel'[t.id].count
    <3>1. e \in Entries /\ pel[e].count \in Nat \ {0} /\ pel'[e].count = pel[e].count + 1
      BY <2>a
    <3>2. t \in B!Tasks
      BY <2>4, <3>1 DEF B!Tasks, B!Entries, Entries
    <3>3. e <= last
      BY <1>0, <1>b, <3>1 DEF BudgetInv, Beyond
    <3> QED BY <2>4, <3>1, <3>2, <3>3
  <2> QED BY <2>1, <2>2, <2>3, <2>4
<1>3. CASE ~ B!Read(c) /\ ~ B!Claim(c)
  <2>1. Waits(c, t) /\ last' = last
    BY <1>3, WaitSteps DEF WaitsLess
  <2>2. \A d \in Consumers : ~ B!Read(d) /\ ~ B!Claim(d)
    BY <1>3 DEF OneConsumer
  <2>3. pel'[t.id].count = pel[t.id].count \/ pel'[t.id].count = 0
    BY <1>a, <2>1, <2>2, CountSteps
  <2> QED BY <1>a, <1>b, <2>1, <2>3
<1> QED BY <1>1, <1>2, <1>3

\* The pass of the only process starts with the listing and ends with the claim.
LEMMA PassSteps ==
  ASSUME KeptInv, OneConsumer, NEW c \in Consumers, [B!Next]_(B!vars)
  PROVE  \/ UNCHANGED <<scanned, snap>> \/ B!Scan(c)
         \/ scanned'[c] = FALSE /\ \A e \in Entries : snap'[c][e] = 0
<1>0. B!TypeOK /\ DeadIsWritten
  BY DEF KeptInv
<1>1. \A d \in Consumers : d = c
  BY DEF OneConsumer
<1>2. scanned \in [Consumers -> BOOLEAN] /\ snap \in [Consumers -> [Entries -> Nat]] /\ B!Entries = Entries
  BY <1>0, TypeParts DEF LoopTypes, B!Entries, Entries
<1>3. CASE B!Read(c)
  BY <1>3 DEF B!Read
<1>4. CASE B!Claim(c)
  <2>1. scanned' = [scanned EXCEPT ![c] = FALSE] /\ snap' = [snap EXCEPT ![c] = [e \in Entries |-> 0]]
    BY <1>0, <1>4, ClaimEffect
  <2> QED BY <1>2, <2>1
<1>5. CASE B!Crash(c)
  <2>1. scanned' = [scanned EXCEPT ![c] = FALSE] /\ snap' = [snap EXCEPT ![c] = [e \in Entries |-> 0]]
    BY <1>2, <1>5 DEF B!Crash, B!NotListed
  <2> QED BY <1>2, <2>1
<1>6. ASSUME NEW l \in B!Loops, Loop(c, l) PROVE UNCHANGED <<scanned, snap>>
  BY <1>0, <1>6, LoopEffect
<1>7. ASSUME NEW r \in B!Runs, Works(c, r) PROVE UNCHANGED <<scanned, snap>>
  BY <1>0, <1>7, WorkEffect
<1>8. ASSUME NEW e \in Entries, B!GoesIdle(e) PROVE UNCHANGED <<scanned, snap>>
  BY <1>8 DEF B!GoesIdle, B!loopVars
<1>9. CASE UNCHANGED B!vars
  BY <1>9 DEF B!vars
<1> QED BY <1>1, <1>3, <1>4, <1>5, <1>6, <1>7, <1>8, <1>9, Steps DEF Fetches

LEMMA PageIsAll ==
  ASSUME PageShowsAll, NEW S \in SUBSET Entries
  PROVE  B!Page(S) = S
<1> SUFFICES ASSUME NEW e \in S PROVE B!Cardinality({f \in S : f < e}) < Count
  BY DEF B!Page
<1> DEFINE D == {f \in S : f < e}
<1>1. e \in 1..Len(RunOf) /\ Len(RunOf) \in Nat /\ Count \in Nat
  BY RunAssumption, LimitAssumption DEF Entries
<1>2. D \subseteq 1..(e - 1)
  BY <1>1, RunAssumption DEF Entries
<1>3. IsFiniteSet(1..(e - 1)) /\ Cardinality(1..(e - 1)) = e - 1
  <2>1. e - 1 \in Int /\ 1 \in Int /\ (1 > e - 1 => e - 1 = 0) /\ (e - 1) - 1 + 1 = e - 1
    BY <1>1
  <2>2. IsFiniteSet(1..(e - 1)) /\ Cardinality(1..(e - 1)) = IF 1 > e - 1 THEN 0 ELSE (e - 1) - 1 + 1
    BY <2>1, FS_Interval
  <2> QED BY <2>1, <2>2
<1> HIDE DEF D
<1>4. IsFiniteSet(D) /\ Cardinality(D) <= e - 1
  <2> DEFINE I == 1..(e - 1)
  <2>1. IsFiniteSet(I) /\ Cardinality(I) = e - 1 /\ D \in SUBSET I
    BY <1>2, <1>3
  <2> HIDE DEF I
  <2>2. IsFiniteSet(D) /\ Cardinality(D) <= Cardinality(I)
    BY <2>1, FS_Subset
  <2> QED BY <2>1, <2>2
<1>5. Cardinality(D) \in Nat
  BY <1>4, FS_CardinalityType
<1>6. Cardinality(D) < Count
  BY <1>1, <1>4, <1>5 DEF PageShowsAll
<1> QED BY <1>6, SameCardinality DEF D

LEMMA ScanEffect ==
  ASSUME KeptInv, PageShowsAll, NEW c \in Consumers, B!Scan(c)
  PROVE  UNCHANGED <<pel, last, calls>> /\ \A e \in Entries : snap'[c][e] = pel[e].count
<1>1. B!Entries = Entries /\ snap \in [Consumers -> [Entries -> Nat]] /\ pel \in [Entries -> [count : Nat, idle : BOOLEAN]]
  BY TypeParts DEF KeptInv, LoopTypes, RedisTypes, B!Entries, Entries
<1> DEFINE P == {f \in Entries : B!IsPending(f)}
<1>2. B!Page(P) = P
  BY PageIsAll
<1>3. snap' = [snap EXCEPT ![c] = [e \in Entries |-> IF e \in B!Page(P) THEN pel[e].count ELSE 0]]
  BY <1>1 DEF B!Scan, B!NotListed
<1>4. \A e \in Entries : snap'[c][e] = IF e \in P THEN pel[e].count ELSE 0
  BY <1>1, <1>2, <1>3
<1>5. \A e \in Entries : e \notin P => pel[e].count = 0
  BY <1>1 DEF B!IsPending
<1>6. UNCHANGED <<pel, last, calls>>
  BY DEF B!Scan, B!redisVars, B!workVars
<1> QED BY <1>4, <1>5, <1>6

LEMMA ListedStep == KeptInv /\ OneConsumer /\ PageShowsAll /\ BudgetInv /\ [B!Next]_(B!vars) => Listed'
<1> SUFFICES ASSUME KeptInv, OneConsumer, PageShowsAll, BudgetInv, [B!Next]_(B!vars), NEW c \in Consumers,
                    NEW e \in Entries, scanned'[c], pel'[e].count > 0
             PROVE  snap'[c][e] = pel'[e].count \/ (snap'[c][e] = 0 /\ pel'[e].count = 1)
  BY DEF Listed
<1>0. B!TypeOK /\ Listed /\ Beyond /\ Known /\ Apart(c) /\ pel[e].count \in Nat
  BY TypeParts DEF BudgetInv, NoneTwice, KeptInv, RedisTypes
<1>1. CASE B!Scan(c)
  BY <1>1, ScanEffect
<1>2. CASE B!Read(c)
  <2>1. pel'[e] = (IF e = last + 1 THEN [count |-> 1, idle |-> FALSE] ELSE pel[e]) /\ UNCHANGED <<scanned, snap>>
    BY <1>0, <1>2, ReadWaits, ReadEffect
  <2>2. CASE e = last + 1
    <3>1. last \in Nat
      BY <1>0, RunAssumption DEF B!TypeOK
    <3>2. snap[c][e] = 0
      BY <1>0, <2>2, <3>1 DEF Beyond
    <3> QED BY <2>1, <2>2, <3>2
  <2>3. CASE e # last + 1
    BY <1>0, <2>1, <2>3 DEF Listed
  <2> QED BY <2>2, <2>3
<1>3. CASE B!Claim(c)
  <2>1. scanned' = [scanned EXCEPT ![c] = FALSE]
    BY <1>0, <1>3, ClaimEffect
  <2> QED BY <1>0, <2>1, TypeParts DEF LoopTypes
<1>4. CASE ~ B!Scan(c) /\ ~ B!Read(c) /\ ~ B!Claim(c)
  <2>1. UNCHANGED <<scanned, snap>>
    BY <1>4, PassSteps
  <2>2. \A d \in Consumers : ~ B!Read(d) /\ ~ B!Claim(d)
    BY <1>4 DEF OneConsumer
  <2>3. pel'[e].count = pel[e].count
    BY <2>2, CountSteps
  <2> QED BY <1>0, <2>1, <2>3 DEF Listed
<1> QED BY <1>1, <1>2, <1>3, <1>4

LEMMA BeyondStep == KeptInv /\ OneConsumer /\ PageShowsAll /\ BudgetInv /\ [B!Next]_(B!vars) => Beyond'
<1> SUFFICES ASSUME KeptInv, OneConsumer, PageShowsAll, BudgetInv, [B!Next]_(B!vars), NEW c \in Consumers,
                    NEW e \in Entries, e > last'
             PROVE  pel'[e].count = 0 /\ calls'[e] = 0 /\ snap'[c][e] = 0
  BY DEF Beyond
<1>0. /\ B!TypeOK /\ Listed /\ Known /\ Apart(c) /\ pel[e].count \in Nat /\ calls \in [Entries -> Nat]
      /\ last \in Nat /\ e \in Nat
  BY TypeParts, RunAssumption DEF BudgetInv, NoneTwice, KeptInv, RedisTypes, Entries
<1>1. e > last
  <2>1. last' = last \/ last' = last + 1
    <3>1. (\E d \in Consumers : B!Read(d)) => last' = last + 1
      BY DEF B!Read
    <3> QED BY <1>0, <3>1, LastGrows DEF KeptInv
  <2> QED BY <1>0, <2>1
<1>2. pel[e].count = 0 /\ calls[e] = 0 /\ snap[c][e] = 0
  BY <1>1 DEF BudgetInv, Beyond
<1>3. snap'[c][e] = 0
  <2>1. B!Scan(c) => snap'[c][e] = 0
    BY <1>2, ScanEffect
  <2> QED BY <1>2, <2>1, PassSteps
<1>4. pel'[e].count = 0
  <2>1. CASE B!Read(c)
    <3>1. pel'[e] = (IF e = last + 1 THEN [count |-> 1, idle |-> FALSE] ELSE pel[e]) /\ last' = last + 1
      BY <1>0, <2>1, ReadWaits
    <3> QED BY <1>0, <1>2, <3>1
  <2>2. CASE B!Claim(c)
    <3>1. e \notin Claimed
      BY <1>0, <1>2, <2>2, ClaimEffect
    <3>2. pel'[e] = pel[e]
      BY <1>0, <2>2, <3>1, ClaimEffect
    <3> QED BY <1>2, <3>2
  <2>3. CASE ~ B!Read(c) /\ ~ B!Claim(c)
    <3>1. \A d \in Consumers : ~ B!Read(d) /\ ~ B!Claim(d)
      BY <2>3 DEF OneConsumer
    <3> QED BY <1>2, <3>1, CountSteps
  <2> QED BY <2>1, <2>2, <2>3
<1>5. calls'[e] = 0
  <2>1. CASE B!Read(c) \/ B!Claim(c)
    BY <1>0, <1>2, <2>1, FetchedEffect DEF Fetches, Fetched
  <2>2. CASE WaitsLess(c)
    <3>1. \A t \in B!Tasks : Waits(c, t) => t.id <= last
      BY <1>0 DEF Known
    <3>2. ASSUME NEW t \in B!Tasks, Waits(c, t), calls' = [calls EXCEPT ![t.id] = @ + 1] PROVE calls'[e] = 0
      <4>1. t.id # e
        BY <1>0, <1>1, <3>1, <3>2
      <4> QED BY <1>0, <1>2, <3>2, <4>1
    <3> QED BY <1>2, <2>2, <3>2 DEF WaitsLess
  <2> QED BY <2>1, <2>2, WaitSteps
<1> QED BY <1>3, <1>4, <1>5

\* The calls still due at an entry, as a step changes them.
LEMMA DueIsFinite ==
  ASSUME NEW c, NEW e
  PROVE  IsFiniteSet(Due(c, e)) /\ Cardinality(Due(c, e)) \in Nat
<1>1. IsFiniteSet(1..MaxAttempts)
  BY LimitAssumption, FS_Interval
<1>2. Due(c, e) \subseteq 1..MaxAttempts
  BY DEF Due
<1> QED BY <1>1, <1>2, FS_Subset, FS_CardinalityType

LEMMA DueShrinks ==
  ASSUME NEW c, NEW e, \A n \in 1..MaxAttempts : Waits(c, [id |-> e, attempt |-> n])' => Waits(c, [id |-> e, attempt |-> n])
  PROVE  Cardinality(Due(c, e)') <= Cardinality(Due(c, e)) /\ Cardinality(Due(c, e)') \in Nat
<1>1. Due(c, e)' \subseteq Due(c, e)
  BY DEF Due
<1> QED BY <1>1, DueIsFinite, FS_Subset, FS_CardinalityType

LEMMA DueLoses ==
  ASSUME NEW c, NEW e, NEW m \in 1..MaxAttempts,
         \A n \in 1..MaxAttempts : Waits(c, [id |-> e, attempt |-> n])' => Waits(c, [id |-> e, attempt |-> n]),
         Waits(c, [id |-> e, attempt |-> m]), ~ Waits(c, [id |-> e, attempt |-> m])'
  PROVE  Cardinality(Due(c, e)') + 1 <= Cardinality(Due(c, e)) /\ Cardinality(Due(c, e)') \in Nat
<1>1. Due(c, e)' \subseteq Due(c, e) \ {m} /\ m \in Due(c, e)
  BY DEF Due
<1>2. /\ IsFiniteSet(Due(c, e) \ {m}) /\ Cardinality(Due(c, e) \ {m}) = Cardinality(Due(c, e)) - 1
      /\ Cardinality(Due(c, e)) \in Nat
  BY <1>1, DueIsFinite, FS_RemoveElement
<1>3. Cardinality(Due(c, e)') <= Cardinality(Due(c, e) \ {m}) /\ Cardinality(Due(c, e)') \in Nat
  BY <1>1, <1>2, FS_Subset, FS_CardinalityType
<1> QED BY <1>2, <1>3

LEMMA DueGains ==
  ASSUME NEW c, NEW e, NEW m,
         \A n \in 1..MaxAttempts :
           Waits(c, [id |-> e, attempt |-> n])' => Waits(c, [id |-> e, attempt |-> n]) \/ n = m
  PROVE  Cardinality(Due(c, e)') <= Cardinality(Due(c, e)) + 1 /\ Cardinality(Due(c, e)') \in Nat
<1>1. Due(c, e)' \subseteq Due(c, e) \union {m}
  BY DEF Due
<1>2. /\ IsFiniteSet(Due(c, e) \union {m}) /\ Cardinality(Due(c, e) \union {m}) <= Cardinality(Due(c, e)) + 1
      /\ Cardinality(Due(c, e)) \in Nat /\ Cardinality(Due(c, e) \union {m}) \in Nat
  <2>1. IsFiniteSet(Due(c, e)) /\ Cardinality(Due(c, e)) \in Nat
    BY DueIsFinite
  <2>2. /\ IsFiniteSet(Due(c, e) \union {m})
        /\ Cardinality(Due(c, e) \union {m}) = IF m \in Due(c, e) THEN Cardinality(Due(c, e)) ELSE Cardinality(Due(c, e)) + 1
    BY <2>1, FS_AddElement
  <2> QED BY <2>1, <2>2
<1>3. Cardinality(Due(c, e)') <= Cardinality(Due(c, e) \union {m}) /\ Cardinality(Due(c, e)') \in Nat
  BY <1>1, <1>2, FS_Subset, FS_CardinalityType
<1> QED BY <1>2, <1>3

LEMMA BudgetStep == KeptInv /\ OneConsumer /\ BudgetInv /\ [B!Next]_(B!vars) => Budget'
<1> SUFFICES ASSUME KeptInv, OneConsumer, BudgetInv, [B!Next]_(B!vars), NEW c \in Consumers, NEW e \in Entries
             PROVE  /\ calls'[e] + Cardinality(Due(c, e)') <= MaxAttempts
                    /\ pel'[e].count > 0 => calls'[e] + Cardinality(Due(c, e)') <= pel'[e].count
  <2>1. \A c \in Consumers, e \in Entries : Cardinality(Due(c, e))' = Cardinality(Due(c, e)')
    OBVIOUS
  <2> QED BY <2>1 DEF Budget
<1> DEFINE N  == Cardinality(Due(c, e))
           N1 == Cardinality(Due(c, e)')
           w(n) == [id |-> e, attempt |-> n]
<1>0. /\ B!TypeOK /\ Listed /\ Known /\ Apart(c) /\ pel[e].count \in Nat /\ calls \in [Entries -> Nat]
      /\ last \in Nat /\ e \in Nat /\ MaxAttempts \in Nat \ {0} /\ calls[e] \in Nat
  BY TypeParts, RunAssumption, LimitAssumption DEF BudgetInv, NoneTwice, KeptInv, RedisTypes, Entries
<1>1. calls[e] + N <= MaxAttempts /\ (pel[e].count > 0 => calls[e] + N <= pel[e].count) /\ N \in Nat
  BY DueIsFinite DEF BudgetInv, Budget
<1>2. ASSUME \A n \in 1..MaxAttempts : Waits(c, w(n))' => Waits(c, w(n)) PROVE N1 <= N /\ N1 \in Nat
  BY <1>2, DueShrinks
<1>3. CASE B!Read(c)
  <2>1. /\ \A n \in 1..MaxAttempts : Waits(c, w(n))' => Waits(c, w(n)) \/ (e = last + 1 /\ n = 1)
        /\ e = last + 1 => \A n \in 1..MaxAttempts : ~ Waits(c, w(n))
        /\ pel'[e] = (IF e = last + 1 THEN [count |-> 1, idle |-> FALSE] ELSE pel[e])
    <3>1. /\ \A t : Waits(c, t)' => Waits(c, t) \/ t = [id |-> last + 1, attempt |-> 1]
          /\ \A t : Waits(c, t) => t.id # last + 1
          /\ pel'[e] = (IF e = last + 1 THEN [count |-> 1, idle |-> FALSE] ELSE pel[e])
      BY <1>0, <1>3, ReadWaits
    <3>2. ASSUME NEW n \in 1..MaxAttempts, Waits(c, w(n))', ~ Waits(c, w(n)) PROVE e = last + 1 /\ n = 1
      <4>1. w(n) = [id |-> last + 1, attempt |-> 1]
        BY <3>1, <3>2
      <4> QED BY ONLY <4>1
    <3>3. ASSUME NEW n \in 1..MaxAttempts, Waits(c, w(n)) PROVE e # last + 1
      <4>1. w(n).id # last + 1
        BY <3>1, <3>3
      <4> QED BY ONLY <4>1
    <3> QED BY <3>1, <3>2, <3>3
  <2>2. calls' = calls
    BY <1>0, <1>3, FetchedEffect DEF Fetches, Fetched
  <2>3. CASE e = last + 1
    <3>1. calls[e] = 0
      BY <1>0, <2>3 DEF BudgetInv, Beyond
    <3>2. N = 0
      <4>1. Due(c, e) = {}
        BY <2>1, <2>3 DEF Due
      <4> QED BY <4>1, FS_EmptySet
    <3>3. N1 <= N + 1 /\ N1 \in Nat
      <4>1. \A n \in 1..MaxAttempts : Waits(c, w(n))' => Waits(c, w(n)) \/ n = 1
        BY <2>1
      <4> QED BY <4>1, DueGains
    <3>4. pel'[e].count = 1
      BY <2>1, <2>3
    <3> QED BY <1>0, <2>2, <3>1, <3>2, <3>3, <3>4
  <2>4. CASE e # last + 1
    <3>1. N1 <= N /\ N1 \in Nat
      BY <1>2, <2>1, <2>4
    <3> QED BY <1>0, <1>1, <2>1, <2>2, <2>4, <3>1
  <2> QED BY <2>3, <2>4
<1>4. CASE B!Claim(c)
  <2>1. /\ \A n \in 1..MaxAttempts : Waits(c, w(n))' => Waits(c, w(n)) \/ (e \in Claimed /\ n = pel[e].count + 1)
        /\ e \in Claimed => pel[e].count \in Nat \ {0}
    <3>1. /\ \A t : Waits(c, t)' => Waits(c, t) \/ \E f \in Claimed : t = [id |-> f, attempt |-> pel[f].count + 1]
          /\ \A f \in Claimed : f \in Entries /\ pel[f].count \in Nat \ {0}
      BY <1>0, <1>4, ClaimWaits
    <3>2. ASSUME NEW n \in 1..MaxAttempts, Waits(c, w(n))', ~ Waits(c, w(n)) PROVE e \in Claimed /\ n = pel[e].count + 1
      <4>1. PICK f \in Claimed : w(n) = [id |-> f, attempt |-> pel[f].count + 1]
        BY <3>1, <3>2
      <4>2. e = f /\ n = pel[f].count + 1
        BY ONLY <4>1
      <4> QED BY <4>2
    <3> QED BY <3>1, <3>2
  <2>2. calls' = calls
    BY <1>0, <1>4, FetchedEffect DEF Fetches, Fetched
  <2>3. pel'[e] = IF e \in Claimed THEN [count |-> pel[e].count + 1, idle |-> FALSE] ELSE pel[e]
    BY <1>0, <1>4, ClaimEffect
  <2>4. CASE e \notin Claimed
    <3>1. N1 <= N /\ N1 \in Nat
      BY <1>2, <2>1, <2>4
    <3> QED BY <1>0, <1>1, <2>2, <2>3, <2>4, <3>1
  <2>5. CASE e \in Claimed /\ pel[e].count + 1 <= MaxAttempts
    <3>1. N1 <= N + 1 /\ N1 \in Nat
      <4>1. PICK m \in Nat : m = pel[e].count + 1
        BY <1>0
      <4>2. \A n \in 1..MaxAttempts : Waits(c, w(n))' => Waits(c, w(n)) \/ n = m
        BY <2>1, <4>1
      <4> QED BY <4>2, DueGains
    <3>2. pel'[e].count = pel[e].count + 1
      BY <2>3, <2>5
    <3> QED BY <1>0, <1>1, <2>1, <2>2, <2>5, <3>1, <3>2
  <2>6. CASE e \in Claimed /\ ~ (pel[e].count + 1 <= MaxAttempts)
    <3>1. N1 <= N /\ N1 \in Nat
      BY <1>0, <1>2, <2>1, <2>6
    <3>2. pel'[e].count = pel[e].count + 1
      BY <2>3, <2>6
    <3> QED BY <1>0, <1>1, <2>1, <2>2, <2>6, <3>1, <3>2
  <2> QED BY <2>4, <2>5, <2>6
<1>5. CASE ~ B!Read(c) /\ ~ B!Claim(c)
  <2>1. pel'[e].count = pel[e].count \/ pel'[e].count = 0
    <3>1. \A d \in Consumers : ~ B!Read(d) /\ ~ B!Claim(d)
      BY <1>5 DEF OneConsumer
    <3> QED BY <3>1, CountSteps
  <2>2. WaitsLess(c)
    BY <1>5, WaitSteps
  <2>3. \A n \in 1..MaxAttempts : Waits(c, w(n))' => Waits(c, w(n))
    BY <2>2 DEF WaitsLess
  <2>4. N1 <= N /\ N1 \in Nat
    BY <1>2, <2>3
  <2>5. ASSUME NEW t \in B!Tasks, Waits(c, t), ~ Waits(c, t)', t.attempt <= MaxAttempts,
               calls' = [calls EXCEPT ![t.id] = @ + 1]
        PROVE  calls'[e] + N1 <= calls[e] + N
    <3>1. CASE t.id # e
      <4>1. calls'[e] = calls[e]
        BY <1>0, <2>5, <3>1
      <4> QED BY <1>0, <1>1, <2>4, <4>1
    <3>2. CASE t.id = e
      <4>1. t.attempt \in 1..MaxAttempts
        <5>1. t.attempt >= 1
          BY <1>0, <2>5 DEF Known
        <5> QED BY <1>0, <2>5, <5>1 DEF B!Tasks
      <4>2. t = w(t.attempt)
        BY <3>2 DEF B!Tasks
      <4>3. PICK m \in 1..MaxAttempts : t = w(m)
        BY <4>1, <4>2
      <4>4. N1 + 1 <= N
        BY <2>3, <2>5, <4>3, DueLoses
      <4>5. calls'[e] = calls[e] + 1
        BY <1>0, <2>5, <3>2
      <4> QED BY <1>0, <1>1, <2>4, <4>4, <4>5
    <3> QED BY <3>1, <3>2
  <2>6. calls'[e] + N1 <= calls[e] + N /\ calls'[e] \in Nat
    <3>1. calls' \in [Entries -> Nat]
      BY ConsumerTypes, TypePartsNext DEF KeptInv, RedisTypes
    <3>2. calls' = calls => calls'[e] + N1 <= calls[e] + N
      BY <1>0, <1>1, <2>4
    <3> QED BY <2>2, <2>5, <3>1, <3>2 DEF WaitsLess
  <2> QED BY <1>0, <1>1, <2>1, <2>4, <2>6
<1> QED BY <1>3, <1>4, <1>5

LEMMA BudgetInit == B!Init => BudgetInv
<1> SUFFICES ASSUME B!Init PROVE BudgetInv
  OBVIOUS
<1>1. /\ \A c \in Consumers, l \in B!Loops : todo[c][l] = <<>>
      /\ \A c \in Consumers, r \in B!Runs : queue[c][r] = <<>> /\ phase[c][r] = "none"
      /\ \A c \in Consumers : scanned[c] = FALSE /\ \A e \in Entries : snap[c][e] = 0
      /\ \A e \in Entries : calls[e] = 0 /\ pel[e].count = 0
  BY DEF B!Init, B!NotListed, B!NotPending, B!Entries, Entries
<1>2. \A c \in Consumers, r \in B!Runs : Mail(c, r) = <<>>
  BY <1>1 DEF Mail
<1>3. \A c \in Consumers : \A t : ~ Waits(c, t)
  BY <1>1, <1>2, AmongNone DEF Waits
<1>4. NoneTwice /\ TasksOfRun /\ MailInBudget
  BY <1>1, <1>2, AmongNone DEF NoneTwice, Apart, TasksOfRun, MailInBudget
<1>5. Known /\ Beyond /\ Listed
  BY <1>1, <1>3 DEF Known, Beyond, Listed
<1>6. Budget
  <2>1. \A c \in Consumers, e \in Entries : Due(c, e) = {}
    BY <1>3 DEF Due
  <2>2. \A c \in Consumers, e \in Entries : Cardinality(Due(c, e)) = 0
    BY <2>1, FS_EmptySet
  <2> QED BY <1>1, <2>2, LimitAssumption DEF Budget
<1> QED BY <1>4, <1>5, <1>6 DEF BudgetInv

LEMMA BudgetInductive ==
  OneConsumer /\ PageShowsAll /\ KeptInv /\ BudgetInv /\ [B!Next]_(B!vars) => BudgetInv'
BY TasksOfRunStep, NoneTwiceStep, KnownStep, MailStep, BeyondStep, ListedStep, BudgetStep DEF BudgetInv

LEMMA BudgetKept == OneConsumer /\ KeptInv /\ BudgetInv => CallsWithinBudget
<1> SUFFICES ASSUME OneConsumer, KeptInv, BudgetInv, NEW e \in Entries PROVE calls[e] <= MaxAttempts
  BY DEF CallsWithinBudget
<1>1. PICK c \in Consumers : TRUE
  BY DEF OneConsumer
<1>2. calls[e] + Cardinality(Due(c, e)) <= MaxAttempts /\ Cardinality(Due(c, e)) \in Nat
  BY DueIsFinite DEF BudgetInv, Budget
<1>3. calls[e] \in Nat /\ MaxAttempts \in Nat
  BY TypeParts, LimitAssumption DEF KeptInv, RedisTypes
<1> QED BY <1>2, <1>3

\* With one process and a page that shows the whole pending list, the handler is called
\* at most MaxAttempts times for an entry, through deaths of the process and failing calls.
THEOREM CallsInBudget ==
  ASSUME OneConsumer, PageShowsAll
  PROVE  B!Spec => []CallsWithinBudget
<1>1. KeptInv /\ BudgetInv /\ [B!Next]_(B!vars) => BudgetInv'
  BY BudgetInductive
<1>2. KeptInv /\ BudgetInv => CallsWithinBudget
  BY BudgetKept
<1> QED BY <1>1, <1>2, BudgetInit, KeptAlways, KeptInductive, KeptInit, PTL DEF B!Spec
=============================================================================
