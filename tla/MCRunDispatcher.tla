-------------------------- MODULE MCRunDispatcher --------------------------
(***************************************************************************)
(* The read loop and the claim loop of one consumer, two runs.             *)
(***************************************************************************)
EXTENDS RunDispatcher, TLC

CONSTANTS a, b

ThreeAndTwo == "read" :> <<a, a, b>> @@ "claim" :> <<a, b>>
=============================================================================
