----------------------------- MODULE MCInstance -----------------------------
(* Instances of Instance for TLC: two processes, and two pairs that differ *)
(* in one root or in both.                                                 *)
EXTENDS Instance

MCFirstPair == [local |-> "home", remote |-> "mine"]

=============================================================================
