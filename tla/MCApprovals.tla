----------------------------- MODULE MCApprovals -----------------------------
(* The ledger of approvals, with an email in it to start from. *)
EXTENDS Approvals

CONSTANTS e1, e2

OneWaits == <<e1>>
==============================================================================
