---------------------------- MODULE MCCondQueue ----------------------------
(* A small number of workers and messages. *)
EXTENDS CondQueue

=============================================================================
