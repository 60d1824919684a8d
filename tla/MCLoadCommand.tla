---------------------------- MODULE MCLoadCommand ----------------------------
(***************************************************************************)
(* One connection: with one slot and a window of one request, the second   *)
(* request waits for both; with two of each, it is frameChan that is full. *)
(***************************************************************************)
EXTENDS LoadCommand

MCSettings == {[quota |-> k, window |-> k] : k \in 1..2}
=============================================================================
