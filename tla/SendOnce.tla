------------------------------ MODULE SendOnce ------------------------------
(***************************************************************************)
(* What the RFQ component promises to a supplier.                          *)
(*                                                                         *)
(* A request for quotation is drafted and revised until a person approves  *)
(* one version of it.  That version is received by the supplier at most    *)
(* once, and no other ever is.  A request may be withdrawn until it is     *)
(* known to have been received; nothing is received after that.            *)
(*                                                                         *)
(* Queues, workers, attempts and provider errors do not exist here.        *)
(***************************************************************************)
EXTENDS Naturals, Sequences

VARIABLES
  decision,   \* "drafting", "approved" or "withdrawn"
  version,    \* the version in force
  received,   \* the versions the supplier got, in order
  settled     \* the request is known to have been received

vars == <<decision, version, received, settled>>

Init ==
  /\ decision = "drafting"
  /\ version = 1
  /\ received = <<>>
  /\ settled = FALSE

Revise ==
  /\ decision = "drafting"
  /\ version' \in Nat /\ version' > version
  /\ UNCHANGED <<decision, received, settled>>

Approve ==
  /\ decision = "drafting"
  /\ decision' = "approved"
  /\ UNCHANGED <<version, received, settled>>

Deliver ==
  /\ decision = "approved"
  /\ received = <<>>
  /\ received' = <<version>>
  /\ UNCHANGED <<decision, version, settled>>

Settle ==
  /\ decision = "approved"
  /\ received = <<version>>
  /\ settled' = TRUE
  /\ UNCHANGED <<decision, version, received>>

Withdraw ==
  /\ decision \in {"drafting", "approved"}
  /\ ~settled
  /\ decision' = "withdrawn"
  /\ UNCHANGED <<version, received, settled>>

Next == Revise \/ Approve \/ Deliver \/ Settle \/ Withdraw

Spec == Init /\ [][Next]_vars
=============================================================================
