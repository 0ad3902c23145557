--------------------------- MODULE RunDispatcher ---------------------------
(***************************************************************************)
(* The per-run serial dispatcher shared by the event bus consumers         *)
(* (pkg/runtime/eventbus/dispatch.go): producers (the read loop and the    *)
(* claim loop) put tasks into the mailbox of a run, a worker goroutine is  *)
(* spawned when the run is idle and retires when its mailbox is empty, and *)
(* stop refuses new tasks and waits for the workers.                       *)
(*                                                                         *)
(* Everything done under d.mu is one step; the unlocked read of the queue  *)
(* length, the handler call and the two halves of stop are steps of their  *)
(* own.                                                                    *)
(***************************************************************************)
EXTENDS Integers, Sequences, FiniteSets

CONSTANTS
  Producers,
  Work,      \* what each producer dispatches, in order: a sequence of runs
  QueueSize,
  Workers    \* goroutine names; enough of them for every spawn at once

ASSUME WorkAssumption ==
  \A p \in Producers : Len(Work[p]) \in Nat /\ DOMAIN Work[p] = 1..Len(Work[p])
ASSUME SizeAssumption == QueueSize \in Nat \ {0} /\ Workers \subseteq Nat

Runs  == UNION {{Work[p][k] : k \in DOMAIN Work[p]} : p \in Producers}
\* A task is the k-th dispatch of a producer.
Tasks == UNION {{p} \X (1..Len(Work[p])) : p \in Producers}
RunOfTask(t) == Work[t[1]][t[2]]

VARIABLES
  sent,     \* how many tasks a producer has dispatched
  refused,  \* producers that got ErrClosedBus or the end of their context
  queues,   \* the runs in the map d.queues
  tasks,    \* the buffered channel of a run's queue
  active,   \* queue.active
  worker,   \* goroutines running serve: [pc, run, task]
  handled,  \* tasks of a run whose handler was called, in order
  pushed,   \* tasks of a run that were accepted, in order
  stop      \* "no", "stopped" (flag set), "closed" (done closed), "returned"

vars == <<sent, refused, queues, tasks, active, worker, handled, pushed, stop>>

NoTask == <<>>
Idle   == [pc |-> "none", run |-> NoTask, task |-> NoTask]

Init ==
  /\ sent = [p \in Producers |-> 0]
  /\ refused = {}
  /\ queues = {}
  /\ tasks = [r \in Runs |-> <<>>]
  /\ active = [r \in Runs |-> FALSE]
  /\ worker = [w \in Workers |-> Idle]
  /\ handled = [r \in Runs |-> <<>>]
  /\ pushed = [r \in Runs |-> <<>>]
  /\ stop = "no"

NextTask(p) == <<p, sent[p] + 1>>
Pending(p)  == sent[p] < Len(Work[p]) /\ p \notin refused

(* dispatch under the lock: the queue is created when missing, an idle one   *)
(* gets a worker, and the task is pushed unless the channel is full.  A full *)
(* channel is tried again a millisecond later.                               *)
NewWorker(r) ==
  \E w \in Workers :
    /\ worker[w] = Idle
    /\ \A v \in Workers : v < w => worker[v] # Idle
    /\ worker' = [worker EXCEPT ![w] = [pc |-> "select", run |-> r, task |-> NoTask]]

\* Mutant: every task gets a worker.
SpawnAlways(r) == NewWorker(r)

Spawn(r) == IF active[r] THEN UNCHANGED worker ELSE NewWorker(r)

Accepting == stop = "no"

HasRoom(r) == Len(tasks[r]) < QueueSize

Dispatch(p) ==
  LET r == Work[p][sent[p] + 1] IN
  /\ Pending(p)
  /\ Accepting
  /\ HasRoom(r)
  /\ queues' = queues \union {r}
  /\ Spawn(r)
  /\ active' = [active EXCEPT ![r] = TRUE]
  /\ tasks' = [tasks EXCEPT ![r] = Append(@, NextTask(p))]
  /\ sent' = [sent EXCEPT ![p] = @ + 1]
  /\ pushed' = [pushed EXCEPT ![r] = Append(@, NextTask(p))]
  /\ UNCHANGED <<refused, handled, stop>>

Refuse(p) ==
  /\ Pending(p)
  /\ stop # "no"
  /\ refused' = refused \union {p}
  /\ UNCHANGED <<sent, queues, tasks, active, worker, handled, pushed, stop>>

\* The context of the caller ends, before an attempt or between two of them.
GiveUp(p) ==
  /\ Pending(p)
  /\ refused' = refused \union {p}
  /\ UNCHANGED <<sent, queues, tasks, active, worker, handled, pushed, stop>>

-----------------------------------------------------------------------------
(* serve.  When done is closed and a task is there the select takes either.  *)
At(w, l)      == worker[w].pc = l
Goes(w, l, t) == worker' = [worker EXCEPT ![w] = [pc |-> l, run |-> worker[w].run, task |-> t]]

Take(w) ==
  LET r == worker[w].run IN
  /\ At(w, "select") /\ tasks[r] # <<>>
  /\ tasks' = [tasks EXCEPT ![r] = Tail(@)]
  /\ Goes(w, "handling", Head(tasks[r]))
  /\ handled' = [handled EXCEPT ![r] = Append(@, Head(tasks[r]))]
  /\ UNCHANGED <<sent, refused, queues, active, pushed, stop>>

HandlerReturns(w) ==
  /\ At(w, "handling")
  /\ Goes(w, "length", NoTask)
  /\ UNCHANGED <<sent, refused, queues, tasks, active, handled, pushed, stop>>

\* Mutant: the worker trusts the unlocked read and leaves.
ReadLengthAndLeave(w) ==
  /\ At(w, "length")
  /\ worker' = [worker EXCEPT ![w] =
                  IF tasks[worker[w].run] = <<>> THEN Idle ELSE [@ EXCEPT !.pc = "select"]]
  /\ UNCHANGED <<sent, refused, queues, tasks, active, handled, pushed, stop>>

\* The queue length is read without the lock.
ReadLength(w) ==
  /\ At(w, "length")
  /\ Goes(w, IF tasks[worker[w].run] = <<>> THEN "release" ELSE "select", NoTask)
  /\ UNCHANGED <<sent, refused, queues, tasks, active, handled, pushed, stop>>

QueuesWithout(r) == queues \ {r}

Retire(w) ==
  LET r == worker[w].run IN
  /\ queues' = QueuesWithout(r)
  /\ tasks' = [tasks EXCEPT ![r] = <<>>]
  /\ active' = [active EXCEPT ![r] = FALSE]
  /\ worker' = [worker EXCEPT ![w] = Idle]
  /\ UNCHANGED <<sent, refused, handled, pushed, stop>>

\* Mutant: the length is not read again.
KeepsNoTask(r) == FALSE

\* releaseIfEmpty reads it again under the lock.
KeepsTask(r) == tasks[r] # <<>> /\ stop = "no"

\* Mutant: stop holds the lock while it waits for the workers.
ReleaseIfEmptyUnlessStopping(w) ==
  /\ At(w, "release") /\ stop \notin {"stopped", "closed"}
  /\ ~ KeepsTask(worker[w].run)
  /\ Retire(w)

ReleaseIfEmpty(w) ==
  /\ At(w, "release")
  /\ IF KeepsTask(worker[w].run)
       THEN /\ Goes(w, "select", NoTask)
            /\ UNCHANGED <<sent, refused, queues, tasks, active, handled, pushed, stop>>
       ELSE Retire(w)

Release(w) ==
  /\ At(w, "select")
  /\ stop \in {"closed", "returned"}
  /\ Retire(w)

-----------------------------------------------------------------------------
(* stop: the flag, then close(done), then wg.Wait.                           *)
SetStopped ==
  /\ stop = "no"
  /\ stop' = "stopped"
  /\ UNCHANGED <<sent, refused, queues, tasks, active, worker, handled, pushed>>

CloseDone ==
  /\ stop = "stopped"
  /\ stop' = "closed"
  /\ UNCHANGED <<sent, refused, queues, tasks, active, worker, handled, pushed>>

StopReturns ==
  /\ stop = "closed"
  /\ \A w \in Workers : worker[w] = Idle
  /\ stop' = "returned"
  /\ UNCHANGED <<sent, refused, queues, tasks, active, worker, handled, pushed>>

ServeStep(w) ==
  Take(w) \/ HandlerReturns(w) \/ ReadLength(w) \/ ReleaseIfEmpty(w) \/ Release(w)

Next ==
  \/ \E p \in Producers : Dispatch(p) \/ Refuse(p) \/ GiveUp(p)
  \/ \E w \in Workers : ServeStep(w)
  \/ SetStopped \/ CloseDone \/ StopReturns

(* Fairness: goroutines run, handlers return, a producer retries.  Closing   *)
(* is not required to happen but does not stall half-way.                    *)
Fairness ==
  /\ \A p \in Producers : WF_vars(Dispatch(p)) /\ WF_vars(Refuse(p))
  /\ \A w \in Workers : WF_vars(ServeStep(w))
  /\ WF_vars(CloseDone) /\ WF_vars(StopReturns)

Spec == Init /\ [][Next]_vars /\ Fairness

-----------------------------------------------------------------------------
(* Type invariant: mailboxes within their capacity, workers in serve.        *)
TypeOK ==
  /\ sent \in [Producers -> Nat]
  /\ refused \subseteq Producers
  /\ queues \subseteq Runs
  /\ tasks \in [Runs -> Seq(Tasks)]
  /\ \A r \in Runs : Len(tasks[r]) <= QueueSize
  /\ active \in [Runs -> BOOLEAN]
  /\ worker \in [Workers -> [pc   : {"none", "select", "handling", "length", "release"},
                             run  : Runs \union {NoTask},
                             task : Tasks \union {NoTask}]]
  /\ \A w \in Workers : worker[w] # Idle => worker[w].pc # "none" /\ worker[w].run \in Runs
  /\ handled \in [Runs -> Seq(Tasks)] /\ pushed \in [Runs -> Seq(Tasks)]
  /\ stop \in {"no", "stopped", "closed", "returned"}

(* EB-ORD-01: two workers never serve one run ("never both at once"); the    *)
(* retiring worker and the next one do not overlap.                          *)
OneWorkerPerRun ==
  \A v, w \in Workers :
    worker[v] # Idle /\ worker[w] # Idle /\ worker[v].run = worker[w].run => v = w

(* The handlers of a run are called in the order its tasks were accepted,    *)
(* none skipped and none repeated.                                           *)
HandledInOrder ==
  \A r \in Runs :
    /\ Len(handled[r]) <= Len(pushed[r])
    /\ handled[r] = SubSeq(pushed[r], 1, Len(handled[r]))

\* s has the element t.
IsIn(s, t) == \E k \in DOMAIN s : s[k] = t

(* Every task is handled unless stop drops it or its producer gave up before *)
(* it was accepted: a push that races the retirement of a worker keeps that  *)
(* worker or spawns another one.                                             *)
EveryTaskHandled ==
  \A t \in Tasks :
    LET r == RunOfTask(t) IN
    <>(\/ stop # "no"
       \/ t[1] \in refused /\ ~ IsIn(pushed[r], t)
       \/ IsIn(handled[r], t))

(* stop waits for every worker and still returns: blocked producers and idle *)
(* workers see the closed channel.                                           *)
StopTerminates == (stop = "stopped") ~> (stop = "returned")
=============================================================================
