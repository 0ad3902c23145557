----------------------- MODULE GatewayProjectionState -----------------------
(***************************************************************************)
(* What the Gateway knows of one run while it turns the public events into *)
(* assistant messages, and what the messages are promised to be.           *)
(* GatewayProjection has the steps.                                        *)
(*                                                                         *)
(* A text is the set of the content events it was made of; a turn stands   *)
(* for the key both sides group by (turnIndex or messageId).  The stream   *)
(* of public events is external: what the orchestrator's executors emit,   *)
(* up to RUN_ERROR, where the handler stops reading.                       *)
(***************************************************************************)
EXTENDS Integers, Sequences, FiniteSets, FiniteSetsExt

CONSTANTS
  Scripts,      \* event streams an executor can emit: [type, turn] in order
  Workers,      \* recovery passes that may run at the same time
  Tickers,      \* those of a ticker; the others follow hints of the event bus
  MaxFailures   \* bound: how often a failure of each kind happens

ASSUME TickerAssumption == Tickers \subseteq Workers

EventKinds == {"started", "content", "turnFinished", "runFinished", "runError"}

ASSUME ScriptAssumption ==
  \A s \in Scripts : /\ Len(s) \in Nat /\ DOMAIN s = 1..Len(s)
                     /\ \A n \in 1..Len(s) : s[n].type \in EventKinds

FailureKinds == {"crash", "stream", "journal", "project", "recovery"}

ASSUME FailureAssumption == MaxFailures \in [FailureKinds -> Nat]

VARIABLES
  script,    \* the events of this run
  journal,   \* run_public_events: the seqs that were stored
  offset,    \* event_projection_offsets.last_seq
  messages,  \* assistant messages in insertion order: [text, seq]
  handler,   \* where the handler of POST /chat is
  seq,       \* publicSeq
  open,      \* turnAccumulator, in order of first appearance: [turn, text]
  finished,  \* the turn closed by the current event, if any
  projected, \* projectedTurns
  turns,     \* per recovery pass: turns still to project: [text, seq]
  from,      \* per recovery pass: the offset it read
  pass,      \* where a recovery pass is
  listed,    \* fewer than runLimit older runs are ahead of their offsets
  failures   \* how many failures of each kind happened

Event(n)     == script[n]
TextOf(S, t) == {n \in S : Event(n).type = "content" /\ Event(n).turn = t}
TurnsIn(S)   == {Event(n).turn : n \in {m \in S : Event(m).type = "content"}}

Seqs       == 1..Len(script)
Content(t) == TextOf(Seqs, t)
Turns      == TurnsIn(Seqs)

\* Every event was journaled, every projection the handler tried succeeded.
LiveWritesSucceed == failures["journal"] = 0 /\ failures["project"] = 0

(* event-replay.md section 9: no text is shown twice, whoever projects it:   *)
(* the handler, two recovery passes with stale reads, or both.  It holds     *)
(* unless a live projection failed: the handler then still merges the whole  *)
(* text, which a recovery pass may have projected.                           *)
TextOnce ==
  LiveWritesSucceed =>
    \A i, j \in DOMAIN messages :
      i # j => messages[i].text \intersect messages[j].text = {}

(* A message is the whole text of one turn: a recovery pass that reads a     *)
(* journal still being written never stores half a turn or two in one.       *)
WholeTurns ==
  LiveWritesSucceed =>
    \A i \in DOMAIN messages : \E t \in Turns : messages[i].text = Content(t)

(* event-replay.md section 9: a run whose agents answer turn by turn leaves  *)
(* one message per turn once its handler has come to the end of the stream.  *)
EveryTurnKept ==
  LiveWritesSucceed /\ handler = "done" /\ Event(Len(script)).type = "runFinished" =>
    \A t \in Turns : \E i \in DOMAIN messages : messages[i].text = Content(t)
=============================================================================
