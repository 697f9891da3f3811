----------------------------- MODULE HumanGate -----------------------------
(***************************************************************************)
(* What the quote component promises to the comparison of a tender.        *)
(*                                                                         *)
(* Extractions of a quote are presented for review one at a time, each at  *)
(* most once.  A person approves the extraction that is under review, or   *)
(* the review is reopened and another extraction takes its place.  Once    *)
(* approved, an extraction is the one that is compared: nothing replaces   *)
(* it and nothing withdraws the approval.                                  *)
(*                                                                         *)
(* Tasks, retries, documents and failures do not exist at this level.      *)
(***************************************************************************)
CONSTANT NoExtraction

VARIABLES
  phase,        \* "open", "review", "approved" or "compared"
  extraction,   \* the extraction whose items are in force
  presented     \* the extractions that have been under review

vars == <<phase, extraction, presented>>

Init ==
  /\ phase = "open"
  /\ extraction = NoExtraction
  /\ presented = {}

\* A new extraction replaces the one in force, and waits for a person.
Present ==
  /\ phase = "open"
  /\ phase' = "review"
  /\ extraction' \notin presented \cup {NoExtraction}
  /\ presented' = presented \cup {extraction'}

\* The review ends without approval: it was rejected, restarted, or failed.
Reopen ==
  /\ phase = "review"
  /\ phase' = "open"
  /\ UNCHANGED <<extraction, presented>>

\* A person approves what is under review.
Approve ==
  /\ phase = "review"
  /\ phase' = "approved"
  /\ UNCHANGED <<extraction, presented>>

Compare ==
  /\ phase = "approved"
  /\ phase' = "compared"
  /\ UNCHANGED <<extraction, presented>>

Next == Present \/ Reopen \/ Approve \/ Compare

Spec == Init /\ [][Next]_vars
=============================================================================
