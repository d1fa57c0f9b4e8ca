---------------------------- MODULE MCExecutions ----------------------------
(* Instances of GuestExecutions for TLC.                                   *)
EXTENDS GuestExecutions, TLC

\* The caller sets the certificate variable, or leaves it to the runtime.
TheCa ==
    {[call |-> FALSE, agent |-> FALSE, intercepts |-> TRUE],
     [call |-> TRUE, agent |-> FALSE, intercepts |-> TRUE]}
CallSymmetry == Permutations(ExecCalls)
=============================================================================
