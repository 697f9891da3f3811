------------------------------- MODULE Missing -------------------------------
(***************************************************************************)
(* What the code writes as None: a field without a value, an answer that   *)
(* was not given.                                                          *)
(***************************************************************************)
CONSTANT None
=============================================================================
