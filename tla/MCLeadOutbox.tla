---------------------------- MODULE MCLeadOutbox ----------------------------
(* Two leads and two overlapping runs of one notification each. *)
EXTENDS LeadOutbox

CONSTANTS l1, l2, w1, w2
=============================================================================
