---------------------------- MODULE MCSimulatorUse -----------------------------
(* SimulatorUse on a few EventImpl objects. *)
EXTENDS SimulatorUse, TLC

ImplSymmetry == Permutations(Impl)
=============================================================================
