------------------------ MODULE MCSupplierDiscovery ------------------------
(* Model values and symmetry for the runs of SupplierDiscovery.             *)
EXTENDS SupplierDiscovery, TLC

CONSTANTS c1, c2, s1, s2, s3, q1, q2, w1, w2, r1, r2

Symmetry ==
  Permutations(Candidates) \cup Permutations(Rows) \cup Permutations(Requests)
    \cup Permutations(Workers) \cup Permutations(Reviewers)
=============================================================================
