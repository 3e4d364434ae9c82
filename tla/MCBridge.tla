------------------------------ MODULE MCBridge ------------------------------
(* Bridge and the ToolBroker it implements, with symmetry. *)
EXTENDS BridgeBroker, TLC

\* Requests (all streaming or none) and calls are interchangeable.
Symmetry == Permutations(Requests) \cup Permutations(Calls)

=============================================================================
