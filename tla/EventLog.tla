------------------------------ MODULE EventLog ------------------------------
(***************************************************************************)
(* What the execution ledger promises its readers: one log per run that    *)
(* only grows at its end, one entry per step, and never after a terminal   *)
(* entry.                                                                  *)
(***************************************************************************)
EXTENDS Sequences, Integers

CONSTANTS Runs, TerminalStatuses, Statuses

VARIABLE log

Closed(r) == log[r] # <<>> /\ log[r][Len(log[r])] \in TerminalStatuses

Init == log = [r \in Runs |-> <<>>]

Grow(r, s) ==
  /\ ~ Closed(r)
  /\ log' = [log EXCEPT ![r] = Append(@, s)]

Next == \E r \in Runs, s \in Statuses : Grow(r, s)

Spec == Init /\ [][Next]_log
=============================================================================
