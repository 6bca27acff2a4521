------------------------------ MODULE MCSession ------------------------------
(* Instances of Session for TLC: the engine reads and writes, and the      *)
(* command setup reads.                                                    *)
EXTENDS Session

MCRequests == {"read", "write", "look"}
MCOwner == [r \in MCRequests |-> IF r = "look" THEN "command" ELSE "engine"]
MCIdempotent == {"read", "look"}

=============================================================================
