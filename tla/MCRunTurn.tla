----------------------------- MODULE MCRunTurn -----------------------------
(* A small instance of RunTurn: two execs that may share an id or not. *)
EXTENDS RunTurn
=============================================================================
