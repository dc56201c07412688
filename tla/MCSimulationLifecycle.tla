------------------------ MODULE MCSimulationLifecycle ------------------------
EXTENDS SimulationLifecycle, TLC

(* Slots are interchangeable, and so are teachers. *)
Symmetry == Permutations(Slots) \cup Permutations(Teachers)
=============================================================================
