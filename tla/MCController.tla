---------------------------- MODULE MCController ----------------------------
(* Instances of Controller for TLC.  Calls are interchangeable; keys are   *)
(* not, because start_pending picks the smallest.                          *)
EXTENDS Controller, TLC

MCSymmetry == Permutations(Requests)
=============================================================================
