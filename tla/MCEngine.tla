------------------------------ MODULE MCEngine ------------------------------
(***************************************************************************)
(* A small instance of Engine for model checking.                          *)
(***************************************************************************)
EXTENDS Engine

CONSTANTS edited, deleted, trashed
=============================================================================
