---------------------------- MODULE MCAsyncQueue ----------------------------
(* A small instance of AsyncQueue: two generators over one queue. *)
EXTENDS AsyncQueue
=============================================================================
