---------------------------- MODULE RecoveryBacklog ----------------------------
(***************************************************************************)
(* The recovery worker of the Gateway over all its runs.  A pass lists the *)
(* runs whose public journal is ahead of their projection offset, those    *)
(* with the oldest event beyond it first and at most runLimit of them, and *)
(* recovers each.                                                          *)
(*                                                                         *)
(* GatewayProjection has the transactions of one run; here recovering a    *)
(* run is one step, and an event is what it closes: "turn" is text with    *)
(* its AGENT_TURN_FINISHED, "text" is text that only RUN_FINISHED ("end")  *)
(* closes.                                                                 *)
(***************************************************************************)
EXTENDS Integers, Sequences, FiniteSets, SequencesExt

CONSTANTS
  Script,    \* the public events of each run: a sequence of "turn", "text" and "end"
  RunLimit,  \* runs of one pass
  MaxDeaths  \* bound: handlers that die

Runs == DOMAIN Script

VARIABLES
  journal,  \* events of a run in run_public_events
  offset,   \* event_projection_offsets.last_seq of a run, 0 without a row
  due,      \* the handler of the run has a finished turn to project
  alive,    \* the handler of the run lives
  written,  \* the journal events of all runs as they were stored: <<run, seq>>
  pass      \* the runs left in this recovery pass

vars == <<journal, offset, due, alive, written, pass>>

Init ==
  /\ journal = [r \in Runs |-> 0]
  /\ offset = [r \in Runs |-> 0]
  /\ due = [r \in Runs |-> FALSE]
  /\ alive = [r \in Runs |-> TRUE]
  /\ written = <<>>
  /\ pass = <<>>

\* The events that close a turn with text.
Ends(r) == {n \in 1..Len(Script[r]) :
  \/ Script[r][n] = "turn"
  \/ Script[r][n] = "end" /\ \E m \in 1..n : Script[r][m] = "text"}

-----------------------------------------------------------------------------
(* The handler that streams the run.                                         *)
Journal(r) ==
  LET n == journal[r] + 1 IN
  /\ alive[r] /\ ~ due[r] /\ n <= Len(Script[r])
  /\ journal' = [journal EXCEPT ![r] = n]
  /\ due' = [due EXCEPT ![r] = n \in Ends(r)]
  /\ written' = Append(written, <<r, n>>)
  /\ UNCHANGED <<offset, alive, pass>>

Project(r) ==
  /\ alive[r] /\ due[r]
  /\ offset' = [offset EXCEPT ![r] = journal[r]]
  /\ due' = [due EXCEPT ![r] = FALSE]
  /\ UNCHANGED <<journal, alive, written, pass>>

Dies(r) ==
  /\ alive[r] /\ (due[r] \/ journal[r] < Len(Script[r]))
  /\ Cardinality({s \in Runs : ~ alive[s]}) < MaxDeaths
  /\ alive' = [alive EXCEPT ![r] = FALSE]
  /\ due' = [due EXCEPT ![r] = FALSE]
  /\ UNCHANGED <<journal, offset, written, pass>>

-----------------------------------------------------------------------------
(* ListRunsWithUnprojectedEvents.                                            *)
Ahead(r) == journal[r] > offset[r]

\* MIN(created_at) over the events of a run beyond its offset.
Oldest(r) == CHOOSE p \in DOMAIN written : written[p] = <<r, offset[r] + 1>>

AheadRuns == SetToSortSeq({r \in Runs : Ahead(r)}, LAMBDA r, s : Oldest(r) < Oldest(s))

FirstRuns(s) == SubSeq(s, 1, IF Len(s) < RunLimit THEN Len(s) ELSE RunLimit)

ListRuns ==
  /\ pass = <<>>
  /\ pass' = FirstRuns(AheadRuns)
  /\ pass' # <<>>
  /\ UNCHANGED <<journal, offset, due, alive, written>>

\* RecoverRun: every closed turn after the offset; the offset ends at the last
\* of them, short of the events behind it.
RecoverRun ==
  LET r      == Head(pass)
      closed == {n \in Ends(r) : offset[r] < n /\ n <= journal[r]}
  IN
  /\ pass # <<>>
  /\ offset' = IF closed = {} THEN offset
               ELSE [offset EXCEPT ![r] = CHOOSE n \in closed : \A m \in closed : m <= n]
  /\ pass' = Tail(pass)
  /\ UNCHANGED <<journal, due, alive, written>>

HandlerStep(r) == Journal(r) \/ Project(r)

Next ==
  \/ \E r \in Runs : HandlerStep(r) \/ Dies(r)
  \/ ListRuns \/ RecoverRun

(* Fairness: a live handler goes on, the ticker of the worker keeps firing.  *)
Fairness ==
  /\ \A r \in Runs : WF_vars(HandlerStep(r))
  /\ WF_vars(ListRuns) /\ WF_vars(RecoverRun)

Spec == Init /\ [][Next]_vars /\ Fairness

-----------------------------------------------------------------------------
(* Types; a pass is bounded by runLimit and visits a run once.               *)
TypeOK ==
  /\ \A r \in Runs : journal[r] \in 0..Len(Script[r]) /\ offset[r] \in 0..journal[r]
  /\ due \in [Runs -> BOOLEAN] /\ alive \in [Runs -> BOOLEAN]
  /\ written \in Seq(Runs \X (Nat \ {0})) /\ pass \in Seq(Runs)
  /\ Len(pass) <= RunLimit
  /\ \A i, j \in DOMAIN pass : i # j => pass[i] # pass[j]

(* worker.go:88, "RecoverOnce processes every run that has unprojected       *)
(* journal events": every closed turn in the journal becomes a message,      *)
(* whoever dies.  It holds while fewer than runLimit runs keep events that   *)
(* no turn will ever project, and fails once there are as many.              *)
EveryTurnRecovered ==
  \A r \in Runs : \A n \in Ends(r) : (journal[r] >= n) ~> (offset[r] >= n)
=============================================================================
