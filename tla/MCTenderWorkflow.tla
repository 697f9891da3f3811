------------------------- MODULE MCTenderWorkflow -------------------------
(* Model values and symmetry for the runs of TenderWorkflow.               *)
EXTENDS TenderWorkflow, TLC

CONSTANTS s1, s2, a, b, h1, h2

Symmetry ==
  Permutations(Suppliers) \cup Permutations(Calls) \cup Permutations(Weights)
=============================================================================
