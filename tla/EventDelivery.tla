---------------------------- MODULE EventDelivery ----------------------------
(***************************************************************************)
(* How the events of one run reach its readers.  The orchestrator's        *)
(* pipeline writes them to a response; over gRPC consumeSSE copies that    *)
(* into orchestrator_public_events and SubscribeRun tails the table.  The  *)
(* handler of POST /chat in the Gateway numbers what it receives, journals *)
(* it in run_public_events and writes it to its browser.  A browser that   *)
(* lost its stream polls that journal (recoverRun); the endpoint           *)
(* events/stream tails it.                                                 *)
(*                                                                         *)
(* One request, sent by every browser; an event is its place in the        *)
(* pipeline's script, and one internal event makes one public event.       *)
(***************************************************************************)
EXTENDS Integers, Sequences, FiniteSets, SequencesExt

CONSTANTS
  Scripts,     \* what the pipeline may emit: sequences of internal event types
  Transports,  \* how the Gateway is configured: subset of {"http", "grpc"}
  Browsers,    \* senders of the same requestId
  MaxPolls,    \* bound: polls that bring nothing before a reader gives up
  MaxFaults    \* bound: kinds of faults that happen, each once

FaultKinds == {"consume", "outcome", "orchestrator", "journal", "gateway", "socket"}

ASSUME ScriptAssumption == Scripts \subseteq Seq(STRING)
ASSUME BrowserAssumption == Browsers # {}
ASSUME TransportAssumption == Transports \subseteq {"http", "grpc"}
ASSUME PollAssumption == MaxPolls \in Nat \ {0}
ASSUME FaultAssumption == MaxFaults \in 0..Cardinality(FaultKinds)

VARIABLES
  transport, script,
  emitted, body, execution, \* the pipeline: events written, its response, executions.status
  consumed, stored, sub,    \* gRPC server: events consumeSSE read, those in SQL, SubscribeRun
  sent,                     \* what SubscribeRun sent to the Gateway
  request, userRows, owner, \* chat_requests.status, user messages, the browser being served
  pc, received, journal,    \* handler of POST /chat: its events by publicSeq; run_public_events
  browser, tail,            \* the readers: [pc, seen, polls]
  faults       \* the faults that happened

pipelineVars == <<emitted, body, execution>>
grpcVars     == <<consumed, stored, sub, sent>>
requestVars  == <<request, userRows, owner>>
handlerVars  == <<pc, received, journal>>
readerVars   == <<browser, tail>>
vars == <<transport, script, emitted, body, execution, consumed, stored, sub, sent,
          request, userRows, owner, pc, received, journal, browser, tail, faults>>

Reader(l) == [pc |-> l, seen |-> <<>>, polls |-> 0]

Init ==
  /\ transport \in Transports /\ script \in Scripts
  /\ emitted = 0 /\ body = "open" /\ execution = "executing"
  /\ consumed = 0 /\ stored = {} /\ sub = [pc |-> "list", cursor |-> 0] /\ sent = <<>>
  /\ request = "none" /\ userRows = 0 /\ owner = CHOOSE b \in Browsers : TRUE
  /\ pc = "idle" /\ received = <<>> /\ journal = {}
  /\ browser = [b \in Browsers |-> Reader("start")] /\ tail = Reader("start")
  /\ faults = {}

Fault(k) ==
  /\ k \notin faults /\ Cardinality(faults) < MaxFaults
  /\ faults' = faults \union {k}

\* translator.go: the public type of an internal event.
Public(t) == CASE t = "run_finished" -> "RUN_FINISHED"
               [] t = "run_error"    -> "RUN_ERROR"
               [] OTHER              -> "TEXT"

EndsRun(type) == type \in {"RUN_FINISHED", "RUN_ERROR"}

TopOf(s) == IF s = <<>> THEN 0 ELSE Last(s)

-----------------------------------------------------------------------------
(* The pipeline (PlanExecution, RunLifecycle): events, then the outcome in   *)
(* the ledger, then the end of the response.                                 *)
Started == pc # "idle"
Reading == pc \in {"stream", "journal", "write"}

Emit ==
  /\ Started /\ body = "open" /\ emitted < Len(script)
  /\ emitted' = emitted + 1
  /\ UNCHANGED <<transport, script, body, execution, grpcVars, requestVars, handlerVars, readerVars, faults>>

RecordOutcome ==
  /\ body = "open" /\ emitted = Len(script)
  /\ body' = "recorded" /\ execution' = "terminal"
  /\ UNCHANGED <<transport, script, emitted, grpcVars, requestVars, handlerVars, readerVars, faults>>

\* The write of the outcome fails and is only logged.
OutcomeLost ==
  /\ body = "open" /\ emitted = Len(script)
  /\ Fault("outcome")
  /\ body' = "recorded"
  /\ UNCHANGED <<transport, script, emitted, execution, grpcVars, requestVars, handlerVars, readerVars>>

CloseBody ==
  /\ body = "recorded"
  /\ body' = "closed"
  /\ UNCHANGED <<transport, script, emitted, execution, grpcVars, requestVars, handlerVars, readerVars, faults>>

\* Over HTTP the Gateway's connection is the run's client: without it the run
\* is cut off and paused.
CutOff ==
  /\ transport = "http" /\ Started /\ ~ Reading /\ body = "open"
  /\ body' = "cut" /\ execution' = "paused"
  /\ UNCHANGED <<transport, script, emitted, grpcVars, requestVars, handlerVars, readerVars, faults>>

OrchestratorDies ==
  /\ Started /\ body \in {"open", "recorded"}
  /\ Fault("orchestrator")
  /\ body' = "cut"
  /\ sub' = IF sub.pc = "ended" THEN sub ELSE [sub EXCEPT !.pc = "broken"]
  /\ UNCHANGED <<transport, script, emitted, execution, consumed, stored, sent,
                 requestVars, handlerVars, readerVars>>

\* handleRunResume passes the events of the resumed run through to whoever
\* asked, and journals none of them.
ResumeRun ==
  /\ body = "cut" /\ execution # "terminal"
  /\ execution' = "terminal"
  /\ UNCHANGED <<transport, script, emitted, body, grpcVars, requestVars, handlerVars, readerVars, faults>>

-----------------------------------------------------------------------------
(* gRPC server: consumeSSE numbers the events whether or not the insert      *)
(* succeeds; SubscribeRun lists what is behind its cursor, sends it, and     *)
(* only then reads the status of the run.                                    *)
Consumes ==
  /\ transport = "grpc" /\ body # "cut" /\ consumed < emitted
  /\ consumed' = consumed + 1

StoreEvent ==
  /\ Consumes
  /\ stored' = stored \union {consumed + 1}
  /\ UNCHANGED <<transport, script, pipelineVars, sub, sent, requestVars, handlerVars, readerVars, faults>>

StoreFails ==
  /\ Consumes
  /\ Fault("consume")
  /\ UNCHANGED <<transport, script, pipelineVars, stored, sub, sent, requestVars, handlerVars, readerVars>>

\* ORDER BY seq: the i-th row is the one that has i rows up to itself.
Rank(S, n) == Cardinality({m \in S : m <= n})
InOrder(S) == [i \in 1..Cardinality(S) |-> CHOOSE n \in S : Rank(S, n) = i]

\* Mutant: the cursor's own event is listed again.
FromCursor(S, cursor) == {n \in S : n >= cursor}

\* ListPublicEvents and ListPublicEventsAfter: WHERE seq > cursor ORDER BY seq.
After(S, cursor) == {n \in S : n > cursor}

\* The table has the pipeline's own, internal event types.
SubscribeList ==
  LET batch == InOrder(After(stored, sub.cursor)) IN
  /\ transport = "grpc" /\ Started /\ sub.pc = "list"
  /\ sent' = sent \o batch
  /\ sub' = [cursor |-> IF batch = <<>> THEN sub.cursor ELSE Last(batch),
             pc |-> IF \E i \in DOMAIN batch : EndsRun(script[batch[i]]) THEN "ended" ELSE "check"]
  /\ UNCHANGED <<transport, script, pipelineVars, consumed, stored, requestVars, handlerVars, readerVars, faults>>

SubscribeCheck ==
  /\ sub.pc = "check"
  /\ sub' = [sub EXCEPT !.pc = IF execution = "terminal" THEN "ended" ELSE "list"]
  /\ UNCHANGED <<transport, script, pipelineVars, consumed, stored, sent, requestVars, handlerVars, readerVars, faults>>

-----------------------------------------------------------------------------
(* POST /chat.                                                               *)

\* RecordChatRequest: user message and request row in one transaction, or the
\* row of the first request and a 409.
Post(b) ==
  /\ browser[b].pc = "start"
  /\ IF request = "none"
       THEN /\ request' = "accepted" /\ userRows' = userRows + 1
            /\ owner' = b /\ pc' = "stream"
            /\ browser' = [browser EXCEPT ![b].pc = "live"]
       ELSE /\ browser' = [browser EXCEPT ![b].pc = "refused"]
            /\ UNCHANGED <<requestVars, pc>>
  /\ UNCHANGED <<transport, script, pipelineVars, grpcVars, received, journal, tail, faults>>

\* What the run service yields.
Incoming == IF transport = "http" THEN [n \in 1..emitted |-> n] ELSE sent

AllReceived == Len(received) = Len(Incoming)

Receive ==
  /\ pc = "stream" /\ ~ AllReceived
  /\ received' = Append(received, Incoming[Len(received) + 1])
  /\ pc' = "journal"
  /\ UNCHANGED <<transport, script, pipelineVars, grpcVars, requestVars, journal, readerVars, faults>>

JournalEvent ==
  /\ pc = "journal" /\ pc' = "write"
  /\ journal' = journal \union {Len(received)}
  /\ UNCHANGED <<transport, script, pipelineVars, grpcVars, requestVars, received, readerVars, faults>>

JournalFails ==
  /\ pc = "journal" /\ pc' = "write"
  /\ Fault("journal")
  /\ UNCHANGED <<transport, script, pipelineVars, grpcVars, requestVars, received, journal, readerVars>>

TypeAt(n) == Public(script[received[n]])

\* Mutant: the handler reads on behind RUN_ERROR.
NeverFails(n) == FALSE

RunFailed(n) == TypeAt(n) = "RUN_ERROR"

\* A write to a socket that is gone changes nothing.
WriteEvent ==
  LET n == Len(received) IN
  /\ pc = "write"
  /\ browser' = IF browser[owner].pc = "live" THEN [browser EXCEPT ![owner].seen = Append(@, n)]
                ELSE browser
  /\ pc' = IF RunFailed(n) THEN "failed" ELSE "stream"
  /\ UNCHANGED <<transport, script, pipelineVars, grpcVars, requestVars, received, journal, tail, faults>>

SourceEnded  == IF transport = "http" THEN body = "closed" ELSE sub.pc = "ended"
SourceBroken == IF transport = "http" THEN body = "cut" ELSE sub.pc = "broken"

StreamEnds ==
  /\ pc = "stream" /\ AllReceived /\ SourceEnded
  /\ pc' = "completed"
  /\ UNCHANGED <<transport, script, pipelineVars, grpcVars, requestVars, received, journal, readerVars, faults>>

\* Mutant: a broken stream is taken for its end.
BrokenIsComplete == "completed"

BrokenStream == "failed"

\* The error of the stream goes to the browser alone, unnumbered.
StreamBreaks ==
  /\ pc = "stream" /\ AllReceived /\ SourceBroken
  /\ pc' = BrokenStream
  /\ UNCHANGED <<transport, script, pipelineVars, grpcVars, requestVars, received, journal, readerVars, faults>>

\* The deferred UpdateChatRequestStatus, whose error is dropped, then the end of the
\* response.
Return ==
  /\ pc \in {"completed", "failed"}
  /\ request' \in {request, pc} /\ pc' = "done"
  /\ browser' = IF browser[owner].pc = "live" THEN [browser EXCEPT ![owner].pc = "done"] ELSE browser
  /\ UNCHANGED <<transport, script, pipelineVars, grpcVars, userRows, owner, received, journal, tail, faults>>

\* The browser recovers a run of which it saw an event, else reports the error.
LoseStream(b) ==
  browser' = IF browser[b].pc # "live" THEN browser
             ELSE [browser EXCEPT ![b].pc = IF browser[b].seen # <<>> THEN "poll" ELSE "error"]

GatewayDies ==
  /\ pc \notin {"idle", "done", "dead"}
  /\ Fault("gateway")
  /\ pc' = "dead" /\ LoseStream(owner)
  /\ UNCHANGED <<transport, script, pipelineVars, grpcVars, requestVars, received, journal, tail>>

SocketBreaks ==
  /\ browser[owner].pc = "live"
  /\ Fault("socket")
  /\ LoseStream(owner)
  /\ UNCHANGED <<transport, script, pipelineVars, grpcVars, requestVars, handlerVars, tail>>

-----------------------------------------------------------------------------
(* Readers of run_public_events.                                             *)
NextPage(r) == InOrder(After(journal, TopOf(r.seen)))

Terminal(page) == \E i \in DOMAIN page : EndsRun(TypeAt(page[i]))

\* recoverRun: events behind the cursor, then the status of the run.
Poll(b) ==
  LET page == NextPage(browser[b]) IN
  /\ browser[b].pc = "poll"
  /\ browser' = [browser EXCEPT ![b].seen = @ \o page,
                                ![b].pc = IF Terminal(page) THEN "done" ELSE "status"]
  /\ UNCHANGED <<transport, script, pipelineVars, grpcVars, requestVars, handlerVars, tail, faults>>

AskStatus(b) ==
  LET polls == browser[b].polls + 1 IN
  /\ browser[b].pc = "status"
  /\ browser' = [browser EXCEPT
       ![b].polls = polls,
       ![b].pc = CASE execution = "terminal" -> "done"
                   [] polls = MaxPolls       -> "error"
                   [] OTHER                  -> "poll"]
  /\ UNCHANGED <<transport, script, pipelineVars, grpcVars, requestVars, handlerVars, tail, faults>>

OpenTail ==
  /\ tail.pc = "start" /\ Started
  /\ tail' = [tail EXCEPT !.pc = "tail", !.polls = 0]
  /\ UNCHANGED <<transport, script, pipelineVars, grpcVars, requestVars, handlerVars, browser, faults>>

\* The events up to the first one that ends the run.
UpToEnd(page) ==
  LET ends == {i \in DOMAIN page : EndsRun(TypeAt(page[i]))} IN
  IF ends = {} THEN page ELSE SubSeq(page, 1, CHOOSE i \in ends : \A j \in ends : i <= j)

\* Mutant: the idle count starts anew with every poll.
IdleForgotten == 0

IdleCount == tail.polls + 1

TailPoll ==
  LET page == NextPage(tail) IN
  /\ tail.pc = "tail"
  /\ tail' = IF page # <<>>
               THEN [pc |-> IF Terminal(page) THEN "done" ELSE "tail",
                     seen |-> tail.seen \o UpToEnd(page), polls |-> 0]
               ELSE [tail EXCEPT !.polls = IdleCount,
                                 !.pc = IF IdleCount = MaxPolls THEN "idle" ELSE "tail"]
  /\ UNCHANGED <<transport, script, pipelineVars, grpcVars, requestVars, handlerVars, browser, faults>>

\* The subscriber goes and comes back with its cursor.
TailBreaks ==
  /\ tail.pc = "tail"
  /\ Fault("socket")
  /\ tail' = [tail EXCEPT !.pc = "start"]
  /\ UNCHANGED <<transport, script, pipelineVars, grpcVars, requestVars, handlerVars, browser>>

-----------------------------------------------------------------------------
Pipeline   == Emit \/ RecordOutcome \/ OutcomeLost \/ CloseBody \/ CutOff
GrpcServer == SubscribeList \/ SubscribeCheck
Handler    == \/ Receive \/ JournalEvent \/ JournalFails \/ WriteEvent
              \/ StreamEnds \/ StreamBreaks \/ Return
Recovers(b) == Poll(b) \/ AskStatus(b)

Next ==
  \/ Pipeline \/ OrchestratorDies \/ ResumeRun
  \/ StoreEvent \/ StoreFails \/ GrpcServer
  \/ Handler \/ GatewayDies \/ SocketBreaks
  \/ \E b \in Browsers : Post(b) \/ Recovers(b)
  \/ OpenTail \/ TailPoll \/ TailBreaks

(* Fairness: the pipeline, the goroutines of both servers and the polling    *)
(* readers go on; nobody has to post, subscribe or resume.                   *)
Fairness ==
  /\ WF_vars(Pipeline) /\ WF_vars(StoreEvent \/ StoreFails) /\ WF_vars(GrpcServer)
  /\ WF_vars(Handler) /\ WF_vars(TailPoll)
  /\ \A b \in Browsers : WF_vars(Recovers(b))

Spec == Init /\ [][Next]_vars /\ Fairness
-----------------------------------------------------------------------------
Progress == {"start", "live", "poll", "status", "done", "refused", "error", "tail", "idle"}

ReaderOf(events) == [pc : Progress, seen : Seq(events), polls : Nat]

Views == {browser[b].seen : b \in Browsers} \union {tail.seen}

Rising(s) == \A i, j \in DOMAIN s : i < j => s[i] < s[j]

\* s is in order, without repetition, and skips nothing of S.
Follows(s, S) == Rising(s) /\ \A n \in S : n <= TopOf(s) => n \in ToSet(s)

(* Types; the journals hold what was read, and nothing else.                 *)
TypeOK ==
  /\ transport \in Transports /\ script \in Scripts
  /\ emitted \in 0..Len(script) /\ body \in {"open", "recorded", "closed", "cut"}
  /\ execution \in {"executing", "paused", "terminal"}
  /\ consumed \in 0..emitted /\ stored \subseteq 1..consumed /\ sent \in Seq(stored)
  /\ sub \in [pc : {"list", "check", "ended", "broken"}, cursor : 0..consumed]
  /\ request \in {"none", "accepted", "completed", "failed"}
  /\ userRows = (IF request = "none" THEN 0 ELSE 1)
  /\ owner \in Browsers
  /\ pc \in {"idle", "stream", "journal", "write", "completed", "failed", "done", "dead"}
  /\ received \in Seq(1..emitted) /\ Len(received) <= Len(Incoming)
  /\ journal \subseteq DOMAIN received
  /\ browser \in [Browsers -> ReaderOf(DOMAIN received)]
  /\ tail \in ReaderOf(DOMAIN received)
  /\ faults \subseteq FaultKinds

(* event-replay.md section 6, "reconnect continues from the cursor": a       *)
(* reader that lost its stream, whatever stage it switches to (live socket,  *)
(* replay, tail), sees no event twice, none out of order, and skips none     *)
(* that its journal holds; the Gateway itself is such a reader over gRPC.    *)
NothingSkippedNorRepeated ==
  /\ \A s \in Views : Follows(s, journal)
  /\ Follows(received, IF transport = "http" THEN 1..emitted ELSE stored)

(* server.go:1159, "no further events should be sent" after RUN_ERROR: a     *)
(* reader that stops at the end of the run misses nothing that is journaled  *)
(* later, although branches of the run may still be emitting.                *)
NothingBehindTheEnd ==
  \A s \in Views : Terminal(s) => \A n \in journal : n <= Last(s)

(* chat_requests says completed only of a stream that was read to its clean  *)
(* end and had no RUN_ERROR; over HTTP that is everything the run emitted.   *)
CompletedIsWhole ==
  request = "completed" =>
    /\ \A n \in DOMAIN received : TypeAt(n) # "RUN_ERROR"
    /\ transport = "http" => received = [n \in DOMAIN script |-> n]

(* Every chat handler returns and every reader is let go, after lost         *)
(* sockets, dead servers and runs that never end; except that a lost outcome *)
(* keeps SubscribeRun, and the handler behind it, polling for ever.          *)
Unended == transport = "grpc" /\ "outcome" \in faults

LetGo ==
  /\ tail.pc # "tail"
  /\ \/ Unended
     \/ /\ pc \in {"idle", "done", "dead"}
        /\ \A b \in Browsers : browser[b].pc \notin {"live", "poll", "status"}

EveryReaderLetGo == []<>LetGo

(* chat_idempotency_test.go, "request status not updated", with a stream of  *)
(* events that ends in run_finished: completed means that the end of the run *)
(* was received.  Over gRPC it need not be: SubscribeRun lists events before *)
(* it reads the status, and drops what was stored in between.                *)
CompletedSawTheEnd ==
  request = "completed" => received # <<>> /\ EndsRun(TypeAt(Len(received)))

(* recoverRun, "Replays missing public events after a disconnect": a browser *)
(* that is told of completion has the end of the run.  It need not: events   *)
(* are read before the status, and the journal lags behind the run.          *)
RecoveredSawTheEnd ==
  \A b \in Browsers : browser[b].pc = "done" /\ browser[b].polls > 0 => Terminal(browser[b].seen)
=============================================================================
