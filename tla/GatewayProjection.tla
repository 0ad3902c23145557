------------------------- MODULE GatewayProjection -------------------------
(***************************************************************************)
(* How the Gateway turns the public events of one run into the assistant   *)
(* messages of its conversation.  The handler of POST /chat journals every *)
(* event and projects a turn when it finishes; recovery passes (a ticker   *)
(* and an event bus consumer in every Gateway process) rebuild turns from  *)
(* the journal.  They meet at the projection offset of the run.            *)
(*                                                                         *)
(* Every SQL statement or transaction is one step.                         *)
(***************************************************************************)
EXTENDS GatewayProjectionState, SequencesExt

liveVars   == <<handler, seq, open, finished, projected>>
workerVars == <<turns, from, pass, listed>>
vars == <<script, journal, offset, messages, handler, seq, open, finished, projected,
          turns, from, pass, listed, failures>>

Init ==
  /\ script \in Scripts
  /\ journal = {}
  /\ offset = 0
  /\ messages = <<>>
  /\ handler = "next" /\ seq = 0
  /\ open = <<>> /\ finished = <<>>
  /\ projected = 0
  /\ turns = [w \in Workers |-> <<>>]
  /\ from = [w \in Workers |-> 0]
  /\ pass = [w \in Workers |-> "idle"]
  /\ listed \in BOOLEAN
  /\ failures = [k \in FailureKinds |-> 0]

Fails(k) ==
  /\ failures[k] < MaxFailures[k]
  /\ failures' = [failures EXCEPT ![k] = @ + 1]

\* ProjectAssistantMessage: the row of the offset is locked; a seq that is not
\* behind the offset is skipped without an error, else message and offset are
\* written together.
\* Mutant: a seq equal to the offset is inserted again.
ProjectAtOffset(text, n) ==
  IF offset > n
    THEN UNCHANGED <<offset, messages>>
    ELSE /\ messages' = Append(messages, [text |-> text, seq |-> n])
         /\ offset' = n

ProjectAssistantMessage(text, n) ==
  IF offset >= n
    THEN UNCHANGED <<offset, messages>>
    ELSE /\ messages' = Append(messages, [text |-> text, seq |-> n])
         /\ offset' = n

-----------------------------------------------------------------------------
(* The handler: accumulate, journal, project the turn that finished.         *)
IsOpen(t)    == \E i \in DOMAIN open : open[i].turn = t
Place(t)     == CHOOSE i \in DOMAIN open : open[i].turn = t
OpenTurn(t)  == IF IsOpen(t) THEN <<open[Place(t)]>> ELSE <<>>
Others(t)    == IF IsOpen(t) THEN RemoveAt(open, Place(t)) ELSE open

Ensured(t)    == IF IsOpen(t) THEN open ELSE Append(open, [turn |-> t, text |-> {}])

\* Mutant: a chunk replaces what was there.
WithLastChunk(t, n) ==
  LET o == Ensured(t) IN
  [i \in DOMAIN o |-> IF o[i].turn = t THEN [o[i] EXCEPT !.text = {n}] ELSE o[i]]

WithText(t, n) == LET o == Ensured(t) IN
  [i \in DOMAIN o |-> IF o[i].turn = t THEN [o[i] EXCEPT !.text = @ \union {n}] ELSE o[i]]

Receive ==
  LET n == seq + 1 IN
  /\ handler = "next" /\ n <= Len(script)
  /\ seq' = n
  /\ open' = CASE Event(n).type = "started"      -> Ensured(Event(n).turn)
               [] Event(n).type = "content"      -> WithText(Event(n).turn, n)
               [] Event(n).type = "turnFinished" -> Others(Event(n).turn)
               [] OTHER                          -> open
  /\ finished' = IF Event(n).type = "turnFinished" THEN OpenTurn(Event(n).turn) ELSE <<>>
  /\ handler' = "journal"
  /\ UNCHANGED <<script, journal, offset, messages, projected, workerVars, failures>>

\* After RUN_ERROR the handler returns without closing the open turns.
AfterJournal ==
  handler' = IF finished # <<>> THEN "project"
        ELSE IF Event(seq).type = "runError" THEN "done" ELSE "next"

JournalEvent ==
  /\ handler = "journal"
  /\ journal' = journal \union {seq}
  /\ AfterJournal
  /\ UNCHANGED <<script, offset, messages, seq, open, finished, projected, workerVars, failures>>

\* AppendPublicEvent is best effort.
JournalFails ==
  /\ handler = "journal"
  /\ Fails("journal")
  /\ AfterJournal
  /\ UNCHANGED <<script, journal, offset, messages, seq, open, finished, projected, workerVars>>

\* projectTurn: an empty turn is no message but counts as projected.
ProjectTurn(turn) ==
  /\ IF turn.text = {} THEN UNCHANGED <<offset, messages>>
     ELSE ProjectAssistantMessage(turn.text, seq)
  /\ projected' = projected + 1

ProjectFinished ==
  /\ handler = "project"
  /\ ProjectTurn(Head(finished))
  /\ finished' = <<>> /\ handler' = "next"
  /\ UNCHANGED <<script, journal, seq, open, workerVars, failures>>

ProjectFinishedFails ==
  /\ handler = "project" /\ Head(finished).text # {}
  /\ Fails("project")
  /\ finished' = <<>> /\ handler' = "next"
  /\ UNCHANGED <<script, journal, offset, messages, seq, open, projected, workerVars>>

(* The stream ends: the turns still open are projected one after the other,  *)
(* all with the last publicSeq.                                              *)
DrainTurn ==
  /\ handler = "next" /\ seq = Len(script) /\ open # <<>>
  /\ ProjectTurn(Head(open))
  /\ open' = Tail(open)
  /\ UNCHANGED <<script, journal, handler, seq, finished, workerVars, failures>>

DrainTurnFails ==
  /\ handler = "next" /\ seq = Len(script) /\ open # <<>>
  /\ Head(open).text # {}
  /\ Fails("project")
  /\ open' = Tail(open)
  /\ UNCHANGED <<script, journal, offset, messages, handler, seq, finished, projected, workerVars>>

(* Nothing was projected: the merged text of the whole run is.               *)
MergedText == {n \in 1..seq : Event(n).type = "content"}

Finish ==
  /\ handler = "next" /\ seq = Len(script) /\ open = <<>>
  /\ IF projected = 0 /\ MergedText # {}
       THEN ProjectAssistantMessage(MergedText, seq)
       ELSE UNCHANGED <<offset, messages>>
  /\ handler' = "done"
  /\ UNCHANGED <<script, journal, seq, open, finished, projected, workerVars, failures>>

\* The Gateway process of the handler dies, or the stream from the orchestrator
\* breaks: the handler returns without closing the open turns.
Crash ==
  /\ \/ handler \notin {"done", "dead"} /\ Fails("crash")
     \/ handler = "next" /\ Fails("stream")
  /\ handler' = "dead"
  /\ UNCHANGED <<script, journal, offset, messages, seq, open, finished, projected, workerVars>>

-----------------------------------------------------------------------------
(* A ticker recovers the runs that are ahead of their offsets, oldest first  *)
(* and no more than runLimit: what other runs have in front of this one      *)
(* comes and goes, and may stay.                                             *)
ListingChanges ==
  /\ listed' = ~ listed
  /\ UNCHANGED <<script, journal, offset, messages, liveVars, turns, from, pass, failures>>

(* RecoverRun of one recovery pass: offset, journal, then turn by turn.      *)
ReadOffset(w) ==
  /\ pass[w] = "idle"
  /\ w \in Tickers => listed
  /\ \E n \in journal : n > offset
  /\ from' = [from EXCEPT ![w] = offset]
  /\ pass' = [pass EXCEPT ![w] = "read"]
  /\ UNCHANGED <<script, journal, offset, messages, liveVars, turns, listed, failures>>

\* collectTurns over the journal after the offset: a turn ends at the first
\* AGENT_TURN_FINISHED for it, else at RUN_FINISHED; text that comes later is
\* still added to it.
After(w)         == {n \in journal : n > from[w]}

\* Mutant: a turn need not have ended.
EndsOfOpen(S, t) == TextOf(S, t)

\* Mutant: only the end of the run ends a turn.
EndsOfRun(S, t) == {n \in S : Event(n).type = "runFinished"}

EndsOf(S, t)     == {n \in S :
  /\ \/ Event(n).type = "turnFinished" /\ Event(n).turn = t
     \/ Event(n).type = "runFinished"
  /\ \E m \in TextOf(S, t) : m < n}
Completed(S)     == {[text |-> TextOf(S, t), seq |-> Min(EndsOf(S, t))] :
                       t \in {u \in TurnsIn(S) : EndsOf(S, u) # {}}}

\* By end, and turns of one end by first appearance.
Before(a, b) == a.seq < b.seq \/ (a.seq = b.seq /\ Min(a.text) < Min(b.text))

\* sort.SliceStable: the listings of a set of turns in that order.
Sorted(S) == {s \in [1..Cardinality(S) -> S] :
  Range(s) = S /\ \A j, k \in DOMAIN s : j < k => Before(s[j], s[k])}

ReadJournal(w) ==
  /\ pass[w] = "read"
  /\ \E s \in Sorted(Completed(After(w))) : turns' = [turns EXCEPT ![w] = s]
  /\ pass' = [pass EXCEPT ![w] = IF Completed(After(w)) = {} THEN "idle" ELSE "project"]
  /\ UNCHANGED <<script, journal, offset, messages, liveVars, from, listed, failures>>

Recover(w) ==
  /\ pass[w] = "project"
  /\ ProjectAssistantMessage(Head(turns[w]).text, Head(turns[w]).seq)
  /\ turns' = [turns EXCEPT ![w] = Tail(@)]
  /\ pass' = [pass EXCEPT ![w] = IF Len(turns[w]) = 1 THEN "idle" ELSE "project"]
  /\ UNCHANGED <<script, journal, liveVars, from, listed, failures>>

\* A failed transaction, or the end of its process, ends the pass.
RecoverFails(w) ==
  /\ pass[w] # "idle"
  /\ Fails("recovery")
  /\ turns' = [turns EXCEPT ![w] = <<>>]
  /\ pass' = [pass EXCEPT ![w] = "idle"]
  /\ UNCHANGED <<script, journal, offset, messages, liveVars, from, listed>>

HandlerStep == Receive \/ JournalEvent \/ ProjectFinished \/ DrainTurn \/ Finish
RecoveryStep(w) == ReadOffset(w) \/ ReadJournal(w) \/ Recover(w)

Next ==
  \/ HandlerStep
  \/ JournalFails \/ ProjectFinishedFails \/ DrainTurnFails \/ Crash
  \/ ListingChanges \/ \E w \in Workers : RecoveryStep(w) \/ RecoverFails(w)

(* Fairness: a live handler goes on (its stores answer or time out) and      *)
(* tickers keep firing.  Nothing is promised of hints, which are off unless  *)
(* EVENTBUS_PROJECTION is set, nor of the place of this run in the listing.  *)
Fairness == WF_vars(HandlerStep) /\ \A w \in Tickers : WF_vars(RecoveryStep(w))

Spec == Init /\ [][Next]_vars /\ Fairness

-----------------------------------------------------------------------------
(* Type invariant: the journal of a run, its offset row, and where the       *)
(* handler and the recovery passes are.                                      *)
Turned   == [turn : {Event(n).turn : n \in 1..seq}, text : SUBSET (1..seq)]
Received == [text : (SUBSET (1..seq)) \ {{}}, seq : 1..seq]

TypeOK ==
  /\ script \in Scripts
  /\ seq \in 0..Len(script)
  /\ journal \subseteq 1..seq
  /\ offset \in 0..seq
  /\ messages \in Seq(Received)
  /\ handler \in {"next", "journal", "project", "done", "dead"}
  /\ open \in Seq(Turned)
  /\ finished \in Seq(Turned)
  /\ Len(finished) <= 1 /\ (handler = "project" => finished # <<>>)
  /\ handler = "journal" => seq > 0
  /\ handler \in {"next", "done"} => finished = <<>>
  /\ projected \in Nat
  /\ turns \in [Workers -> Seq(Received)]
  /\ from \in [Workers -> Nat]
  /\ pass \in [Workers -> {"idle", "read", "project"}]
  /\ \A w \in Workers : /\ (pass[w] = "project") <=> (turns[w] # <<>>)
                        /\ from[w] <= offset
  /\ listed \in BOOLEAN
  /\ failures \in [FailureKinds -> Nat]
  /\ \A k \in FailureKinds : failures[k] <= MaxFailures[k]

(* The messages of a run are stored in the order in which its turns began.   *)
InTurnOrder ==
  LiveWritesSucceed =>
    \A i, j \in DOMAIN messages : i < j => Min(messages[i].text) < Min(messages[j].text)

(* event-replay.md section 8: a turn whose end is in the journal is in the   *)
(* conversation in the end, wherever its Gateway died and whichever recovery *)
(* pass failed, provided that its run comes to stay among the runLimit       *)
(* oldest that a ticker lists.  A run behind as many runs that never catch   *)
(* up with their journals gets no promise (RecoveryBacklog has such runs).   *)
FinishedTurnRecovered ==
  <>[]listed => <>[](LiveWritesSucceed =>
         \A n \in {m \in journal : Event(m).type = "turnFinished"} :
           Content(Event(n).turn) = {}
             \/ \E i \in DOMAIN messages : messages[i].text = Content(Event(n).turn))
=============================================================================
