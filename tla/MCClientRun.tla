---------------------------- MODULE MCClientRun ----------------------------
(* A small instance of ClientRun. *)
EXTENDS ClientRun
=============================================================================
