-------------------------- MODULE MCStreamConsumer --------------------------
(***************************************************************************)
(* One or two consumer processes and two stream entries.                   *)
(***************************************************************************)
EXTENDS StreamConsumer, TLC

CONSTANTS c1, c2

OneEntry  == <<"a">>
SameRun   == <<"a", "a">>
OneOfEach == [crash |-> 1, call |-> 1]
Symmetry  == Permutations({c1, c2})
=============================================================================
