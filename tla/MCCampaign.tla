------------------------------ MODULE MCCampaign ------------------------------
(***************************************************************************)
(* Small instances of the campaign: two or three slots (the first session  *)
(* and the start of the second), orders of two lots so that fills may be   *)
(* partial, one poll per phase.                                            *)
(***************************************************************************)
EXTENDS Campaign, TLC

CONSTANTS w1, w2

Schedulers == Permutations({w1, w2})

(* A scheduler looks for the state file while no other one is about to     *)
(* write it.                                                               *)
ActivatedByOne == OneActivates'

=============================================================================
