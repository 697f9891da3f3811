--------------------------- MODULE MCRfqDelivery ---------------------------
(***************************************************************************)
(* Instances of RfqDelivery for TLC.                                       *)
(***************************************************************************)
EXTENDS RfqDelivery, TLC

CONSTANTS t1, t2, w1, w2

\* Nothing orders the tasks or the workers.
Symmetry == Permutations(Tasks) \cup Permutations(Workers)
=============================================================================
