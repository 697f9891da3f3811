------------------------ MODULE MCCatalogExtraction ------------------------
(***************************************************************************)
(* Instances of CatalogExtraction for TLC.                                 *)
(***************************************************************************)
EXTENDS CatalogExtraction, TLC

CONSTANTS d1, d2, i1, i2, f1, f2, t1, t2, q1, q2, w1, w2, r1, r2

\* Nothing orders documents, items, fields, values, requests, workers or reviewers.
Symmetry ==
  Permutations(Documents) \cup Permutations(Items) \cup Permutations(Fields)
    \cup Permutations(Values) \cup Permutations(Requests) \cup Permutations(Workers) \cup Permutations(Reviewers)
=============================================================================
