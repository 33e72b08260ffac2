--------------------------- MODULE OperationalGate ---------------------------
(***************************************************************************)
(* evaluate_operational_gate: the gate before any order is the health of   *)
(* the stream and the reconciliation of one snapshot of the account.  The  *)
(* monitor keeps a state; the snapshot is an argument, any of those that   *)
(* ReconciliationInput accepts.                                            *)
(***************************************************************************)
EXTENDS StreamMonitor, Reconciliation

CONSTANT Snapshots  \* what the broker and the local book may say

ASSUME SnapshotAssumption == \A in \in Snapshots : IsSnapshot(in)

\* The snapshots that pass although the books do not agree.
Misjudged == {in \in Snapshots : ReconciliationPassed(in) /\ ~BooksAgree(in)}

\* When the operational gate passes, the local book and the broker's records
\* agree: every order is listed by both in the same state at prices within the
\* tolerance, the positions are those the local orders explain, and the cash
\* drifts from theirs by no more than the tolerances allow, although the
\* function compares positions, prices and cash with the fills, which may be
\* repeated, contradictory or of orders nobody placed.
GateOpensOnlyOnAgreement ==
  \A in \in Misjudged : ~OperationalGatePasses(ReconciliationPassed(in))

=============================================================================
