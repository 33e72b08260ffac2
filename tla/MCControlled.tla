----------------------------- MODULE MCControlled -----------------------------
(***************************************************************************)
(* Two runners of one account, one long and one short signal, orders of    *)
(* two lots so that fills may be partial, one refresh per phase.  The      *)
(* second session may retry the signal of the first, find its orders or    *)
(* its bundle, or run beside it.                                           *)
(***************************************************************************)
EXTENDS ControlledExecution

CONSTANTS r1, r2, up, down

=============================================================================
