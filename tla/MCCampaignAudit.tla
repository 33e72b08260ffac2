--------------------------- MODULE MCCampaignAudit ---------------------------
(* One scheduler, and one reader that comes when it likes.                 *)
EXTENDS CampaignAudit

CONSTANT w1

=============================================================================
