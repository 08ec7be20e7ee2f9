------------------------------- MODULE MCStartup -------------------------------
(* A .cfg has no negative numbers. *)
EXTENDS Startup

MCTimes == -1 .. 1
=============================================================================
