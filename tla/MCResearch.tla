------------------------------ MODULE MCResearch ------------------------------
(***************************************************************************)
(* The research side of the repository: what a study computes and how its  *)
(* evidence is kept.  The components share no state, so a behaviour        *)
(* exercises one of them while the others are in their first state.        *)
(***************************************************************************)
EXTENDS MCWalkForward, MCEvidence

ResearchVars == <<AllVars, evidenceVars>>

ComputingIdle == StudyIdle /\ MachineIdle /\ SamplingIdle

KeepingIdle == StoreIdle /\ WritersIdle /\ ChainIdle

ResearchInit ==
  /\ MCInit
  /\ EvidenceInit
  /\ ComputingIdle \/ KeepingIdle

ResearchNext ==
  \/ MCNext /\ KeepingIdle /\ UNCHANGED evidenceVars
  \/ EvidenceNext /\ ComputingIdle /\ UNCHANGED AllVars

ResearchSpec == ResearchInit /\ [][ResearchNext]_ResearchVars

=============================================================================
