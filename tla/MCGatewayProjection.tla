------------------------ MODULE MCGatewayProjection ------------------------
(***************************************************************************)
(* Event streams of the executors, two recovery passes.                    *)
(***************************************************************************)
EXTENDS GatewayProjection, TLC

S(t) == [type |-> "started", turn |-> t]
C(t) == [type |-> "content", turn |-> t]
F(t) == [type |-> "turnFinished", turn |-> t]
RunFinished == [type |-> "runFinished", turn |-> "none"]
RunError    == [type |-> "runError", turn |-> "none"]

\* ordered_parallel and serial executors: turn by turn, then a summary that
\* is a plain text message; a failing agent; one agent only.  Behind
\* RUN_ERROR nothing is read.
TurnByTurnScripts == {<<S("a"), C("a"), C("a"), F("a"), S("b"), C("b"), F("b"), C("sum"), RunFinished>>,
                      <<S("a"), C("a"), F("a"), S("b"), C("b"), RunError>>,
                      <<S("a"), C("a"), F("a"), S("b"), F("b"), C("sum"), RunFinished>>,
                      <<C("a"), C("a"), RunFinished>>,
                      <<S("a"), C("a"), C("a"), F("a"), RunFinished>>}

\* A cancel that comes late adds a second end.
CancelledLate == {<<C("a"), C("a"), RunFinished, RunFinished>>}

OneOfEach == [k \in FailureKinds |-> 1]
=============================================================================
