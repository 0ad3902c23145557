----------------------------- MODULE MCRemoteTasks -----------------------------
(* Two tasks of a round and one request to cancel their run. *)
EXTENDS RemoteTasks

Two == {1, 2}
One == {1}
==============================================================================
