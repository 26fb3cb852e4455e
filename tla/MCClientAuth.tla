---------------------------- MODULE MCClientAuth ----------------------------
(* A small instance of ClientAuth: two calls and two exchanges. *)
EXTENDS ClientAuth
=============================================================================
