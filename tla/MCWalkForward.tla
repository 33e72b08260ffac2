----------------------------- MODULE MCWalkForward -----------------------------
(***************************************************************************)
(* Years of two days of three bars, one training year and two test years.  *)
(* The calendars have a session in every year, as the study requires: full *)
(* and early-closing sessions, a missing day, a session whose last bar     *)
(* ends with its year, and one that begins with it.                        *)
(*                                                                         *)
(* Beside the study, two sessions of the strategies with a state, and a    *)
(* few trades to build bars of.  The three share nothing: a behaviour      *)
(* exercises one of them.                                                  *)
(***************************************************************************)
EXTENDS NextOpenStudy, PositionMachines, BarSampling

SmallCalendars ==
  {{0, 1, 3, 6, 7, 8, 9, 12, 13, 15},  \* early closes, 3 + 1 bars in a year
   {4, 5, 9, 10, 11, 12, 13, 17},      \* ends and begins with a year
   {1, 7, 8, 10, 16}}                  \* single bars, a missing day

SmallReturns == {-1, 1, 4}

\* A session that outlasts the holding limit, and one that does not.
SmallPlans == {<<1, 1, 1, 1, 2>>, <<1, 1, 1, 2, 2>>}

AllVars == <<vars, machineVars, samplingVars>>

\* One state of each, from which the others are exercised.
StudyFixed == calendar = {1, 7, 8, 10, 16}
MachineFixed == machine = "reversion" /\ resets = {} /\ plan = <<1, 1, 1, 2, 2>>

MCInit ==
  /\ Init
  /\ MachineInit
  /\ SamplingInit
  /\ StudyFixed \/ MachineFixed

StudyIdle == StudyFixed /\ fold = FirstTest /\ phase = "map"
MachineIdle == MachineFixed /\ held = <<>>
SamplingIdle == trades = <<>>

StudyNext == MachineIdle /\ SamplingIdle /\ Next /\ UNCHANGED <<machineVars, samplingVars>>
StrategyNext == StudyIdle /\ SamplingIdle /\ MachineNext /\ UNCHANGED <<vars, samplingVars>>
SamplingNext == StudyIdle /\ MachineIdle /\ ReceiveTrade /\ UNCHANGED <<vars, machineVars>>

MCNext == StudyNext \/ StrategyNext \/ SamplingNext

MCSpec == MCInit /\ [][MCNext]_AllVars

=============================================================================
