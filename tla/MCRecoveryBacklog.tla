--------------------------- MODULE MCRecoveryBacklog ---------------------------
(* Instances of RecoveryBacklog: runs of one agent turn, which always keep   *)
(* their RUN_FINISHED ahead of the offset, and runs closed by RUN_FINISHED.  *)
EXTENDS RecoveryBacklog

OneTail  == <<<<"turn", "turn", "end">>, <<"text", "end">>, <<"text", "end">>>>
AllTails == <<<<"turn", "end">>, <<"turn", "end">>, <<"turn", "end">>>>
=============================================================================
