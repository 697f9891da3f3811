------------------------- MODULE MCDocumentPipeline -------------------------
(***************************************************************************)
(* Instances of DocumentPipeline for TLC.                                  *)
(***************************************************************************)
EXTENDS DocumentPipeline, TLC

CONSTANTS p1, p2, w1, w2
=============================================================================
