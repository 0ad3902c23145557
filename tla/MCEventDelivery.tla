--------------------------- MODULE MCEventDelivery ---------------------------
(***************************************************************************)
(* A run of an agent that answers, and one of two agents of which one      *)
(* fails while the other still writes.                                     *)
(***************************************************************************)
EXTENDS EventDelivery

Answers     == <<"message_delta", "run_finished">>
OneFails    == <<"message_delta", "run_error", "message_delta">>
AnswersOrFails == {Answers, OneFails}

\* A cancellation lands between the executor's last event and the handler's look
\* at the registry.
CancelledLate  == {<<"run_finished", "state_update", "run_finished">>}
=============================================================================
