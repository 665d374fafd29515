-------------------------- MODULE MCCampaignKeeper --------------------------
(* Three days of two ticks, a term that ends in the second. *)
EXTENDS CampaignKeeper

DaemonAlone == {"daemon"}
DaemonAndStatus == {"daemon", "status"}
=============================================================================
