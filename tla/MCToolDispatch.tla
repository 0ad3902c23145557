--------------------------- MODULE MCToolDispatch ---------------------------
(* Instances of ToolDispatch: two retries of a write w, one of them of an    *)
(* agent, another write v and a read r.                                      *)
EXTENDS ToolDispatch, TLC

Requests == "w1" :> "w" @@ "w2" :> "w" @@ "v1" :> "v" @@ "r1" :> "r"
Senders == [a \in DOMAIN Requests |-> IF a = "w1" THEN "local" ELSE "remote"]
Consented == "p1" :> "w" @@ "p2" :> "w" @@ "q1" :> "v"
=============================================================================
