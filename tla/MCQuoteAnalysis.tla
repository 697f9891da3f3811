-------------------------- MODULE MCQuoteAnalysis --------------------------
(***************************************************************************)
(* Instances of QuoteAnalysis for TLC.                                     *)
(***************************************************************************)
EXTENDS QuoteAnalysis, TLC

CONSTANTS t1, t2, t3

\* Tasks are interchangeable: nothing orders them.
Symmetry == Permutations(Tasks)
=============================================================================
