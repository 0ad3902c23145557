----------------------------- MODULE AgentSession -----------------------------
(***************************************************************************)
(* The turns of one conversation at one child agent: Runner.Run with its   *)
(* tool loop over a session service.  Requests of a conversation overlap   *)
(* when a plan gives the agent two tasks, or a new message follows a       *)
(* dispatch that was cut.  RemoteTasks has the requests around the turns,  *)
(* ToolDispatch what a tool call does.                                     *)
(***************************************************************************)
EXTENDS Integers, Sequences, FiniteSets

CONSTANTS
  Turns,          \* requests that reach the agent
  Service,        \* "memory" (every child agent) or "sql" (SQLSessionService)
  MaxIterations   \* of the tool loop

VARIABLES
  exists, history,  \* the session and its events
  pc,               \* where Run is
  prompt,           \* contents of the next model call
  round,            \* iterations of the tool loop
  cut,              \* turns whose context was cancelled
  announced         \* events a turn has yielded

vars == <<exists, history, pc, prompt, round, cut, announced>>

Ended == {"done", "failed"}

Event(t, kind) == [turn |-> t, kind |-> kind, round |-> round[t]]
AppendTo(h, t, kind) == Append(h, Event(t, kind))

Init ==
  /\ exists = FALSE /\ history = <<>>
  /\ pc = [t \in Turns |-> "new"] /\ prompt = [t \in Turns |-> <<>>]
  /\ round = [t \in Turns |-> 0] /\ cut = {} /\ announced = {}

Goes(t, place) == pc' = [pc EXCEPT ![t] = place]

\* The context is looked at by Run, and by every call of the SQL service.
Watched(t) == pc[t] \in {"new", "asking", "tools"} \/ (Service = "sql" /\ pc[t] \notin Ended \cup {"generating"})

-----------------------------------------------------------------------------
(* GetOrCreate: a copy of the session, or a new one.                         *)
Get(t) ==
  /\ pc[t] = "new" /\ t \notin cut
  /\ IF exists THEN Goes(t, "opened") /\ prompt' = [prompt EXCEPT ![t] = history]
               ELSE Goes(t, "missing") /\ UNCHANGED prompt
  /\ UNCHANGED <<exists, history, round, cut, announced>>

\* In memory the new session takes the place of one created in between; in SQL the
\* insert is a duplicate then, and the session is read again.
CreateSession(t) ==
  /\ pc[t] = "missing"
  /\ exists' = TRUE
  /\ history' = IF exists /\ Service = "sql" THEN history ELSE <<>>
  /\ prompt' = [prompt EXCEPT ![t] = history']
  /\ Goes(t, "opened")
  /\ UNCHANGED <<round, cut, announced>>

AppendQuestion(t) ==
  /\ pc[t] = "opened"
  /\ history' = AppendTo(history, t, "question")
  /\ prompt' = [prompt EXCEPT ![t] = AppendTo(@, t, "question")]
  /\ Goes(t, "asking")
  /\ UNCHANGED <<exists, round, cut, announced>>

-----------------------------------------------------------------------------
(* The loop of model and tool calls.                                         *)
Ask(t) ==
  /\ pc[t] = "asking" /\ t \notin cut
  /\ round[t] < MaxIterations
  /\ round' = [round EXCEPT ![t] = @ + 1]
  /\ Goes(t, "generating")
  /\ UNCHANGED <<exists, history, prompt, cut, announced>>

OutOfIterations(t) ==
  /\ pc[t] = "asking" /\ round[t] = MaxIterations
  /\ Goes(t, "failed")
  /\ UNCHANGED <<exists, history, prompt, round, cut, announced>>

\* The model wants tools: the call is yielded, then the tools are executed.
Reply(t) ==
  /\ pc[t] = "generating" /\ t \notin cut
  /\ \/ announced' = announced \cup {Event(t, "call")} /\ Goes(t, "tools")
     \/ announced' = announced \cup {Event(t, "answer")} /\ Goes(t, "answered")
  /\ UNCHANGED <<exists, history, prompt, round, cut>>

\* A tool that fails, is unknown or not allowed has a result too.
ExecuteTools(t) ==
  /\ pc[t] = "tools" /\ t \notin cut
  /\ announced' = announced \cup {Event(t, "result")}
  /\ Goes(t, "executed")
  /\ UNCHANGED <<exists, history, prompt, round, cut>>

AppendCall(t) ==
  /\ pc[t] = "executed"
  /\ history' = AppendTo(history, t, "call")
  /\ Goes(t, "half")
  /\ UNCHANGED <<exists, prompt, round, cut, announced>>

AppendResult(t) ==
  /\ pc[t] = "half"
  /\ history' = AppendTo(history, t, "result")
  /\ prompt' = [prompt EXCEPT ![t] = AppendTo(AppendTo(@, t, "call"), t, "result")]
  /\ Goes(t, "asking")
  /\ UNCHANGED <<exists, round, cut, announced>>

AppendAnswer(t) ==
  /\ pc[t] = "answered"
  /\ history' = AppendTo(history, t, "answer")
  /\ Goes(t, "done")
  /\ UNCHANGED <<exists, prompt, round, cut, announced>>

\* The model, a plugin or a call of the SQL service fails, or the context is met cut.
Fails(t) ==
  /\ pc[t] = "generating" \/ (t \in cut /\ Watched(t))
  /\ Goes(t, "failed")
  /\ UNCHANGED <<exists, history, prompt, round, cut, announced>>

Cut(t) ==
  /\ t \notin cut /\ pc[t] \notin Ended
  /\ cut' = cut \cup {t}
  /\ UNCHANGED <<exists, history, pc, prompt, round, announced>>

\* A SQL call refuses a context that is cut; one in memory does not look.
Step(t) ==
  \/ Get(t) \/ Ask(t) \/ OutOfIterations(t) \/ Reply(t) \/ ExecuteTools(t)
  \/ /\ Service = "memory" \/ t \notin cut
     /\ CreateSession(t) \/ AppendQuestion(t) \/ AppendCall(t) \/ AppendResult(t) \/ AppendAnswer(t)

Next == \E t \in Turns : Step(t) \/ Fails(t) \/ Cut(t)

Spec == Init /\ [][Next]_vars /\ \A t \in Turns : WF_vars(Step(t) \/ Fails(t))

-----------------------------------------------------------------------------
Events == [turn : Turns, kind : {"question", "call", "result", "answer"}, round : 0 .. MaxIterations]

TypeOK ==
  /\ exists \in BOOLEAN /\ history \in Seq(Events)
  /\ pc \in [Turns -> Ended \cup {"new", "missing", "opened", "asking", "generating",
                                  "tools", "executed", "half", "answered"}]
  /\ prompt \in [Turns -> Seq(Events)]
  /\ round \in [Turns -> 0 .. MaxIterations]
  /\ cut \subseteq Turns /\ announced \subseteq Events

Holds(h, e) == \E n \in DOMAIN h : h[n] = e

Count(h, t, kind) == Cardinality({n \in DOMAIN h : h[n].turn = t /\ h[n].kind = kind})

\* session_memory.go:25: a turn that is done is in the session, whole.  Violated in
\* memory by two first turns.
NothingForgotten ==
  \A t \in Turns : pc[t] = "done" =>
    /\ Holds(history, [turn |-> t, kind |-> "question", round |-> 0])
    /\ \A e \in announced : e.turn = t => Holds(history, e)

\* runner.go:171: what the model is shown of a turn is what the session keeps of it: its
\* question, then each call with its result, for as long as the turn goes on.
PromptKeepsTurn ==
  \A t \in Turns : pc[t] = "generating" =>
    LET own == SelectSeq(prompt[t], LAMBDA e : e.turn = t)
    IN  /\ own = SelectSeq(history, LAMBDA e : e.turn = t)
        /\ Count(prompt[t], t, "call") = Count(prompt[t], t, "result")

\* docs/contracts/adk-runtime.md:62: a result is persisted before it is announced.
\* Violated: the Runner yields first.
AnnouncedIsStored == \A e \in announced : e.kind = "call" \/ Holds(history, e)
=============================================================================
