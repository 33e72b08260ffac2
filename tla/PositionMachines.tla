---------------------------- MODULE PositionMachines ----------------------------
(***************************************************************************)
(* The strategies that keep a state from bar to bar: the OU/VWAP reversion *)
(* (ou_vwap_reversion.py), its Phase II cost-margin gate and the Phase II  *)
(* trend hysteresis (phase2_profitability.py).  Each turns the indicators  *)
(* of a completed bar into a target and a count: bars held, or bars        *)
(* confirmed.                                                              *)
(*                                                                         *)
(* The indicators are numerics and are not modelled: a bar has the band    *)
(* its score lies in.  -2 and 2 are beyond the entry band, -1 and 1        *)
(* between the bands, 0 within the exit band; the hysteresis knows 0, 1    *)
(* and 2 only.  `open' is regime_eligible or signal_available, `worth' the *)
(* comparison of the expected convergence with the cost.                   *)
(***************************************************************************)
EXTENDS NextOpenExecution

CONSTANTS
  Plans,    \* the sessions of the bars, one of these columns
  MaxHold,  \* maximum_holding_bars
  Confirm   \* TREND_CONFIRMATION_BARS

ASSUME MachineAssumption ==
  /\ MaxHold \in Nat \ {0} /\ Confirm \in Nat \ {0}
  /\ Plans \subseteq Seq(Nat)

VARIABLES
  machine,  \* which of the three strategies
  plan,     \* the session of every bar
  resets,   \* the bars at which a test window begins
  seen,     \* the indicators of the bars so far
  held      \* target and count of each of them

machineVars == <<machine, plan, resets, seen, held>>

Flat == [target |-> 0, count |-> 0]

Now == Len(held) + 1

\* What a bar starts from: the state of the bar before, unless it is reset.
Carry == IF held = <<>> \/ Now \in resets THEN Flat ELSE held[Now - 1]

-----------------------------------------------------------------------------
(* The indicators of a bar *)

Unusable == [score |-> 0, open |-> FALSE, worth |-> FALSE]
Reversions == {Unusable} \cup {[score |-> s, open |-> TRUE, worth |-> TRUE] : s \in -2..2}
Gates == Reversions \cup {[score |-> s, open |-> TRUE, worth |-> FALSE] : s \in {-2, 2}}
Ratios == {Unusable} \cup {[score |-> s, open |-> TRUE, worth |-> TRUE] : s \in 0..2}

\* investable_bars_remaining: the bars that follow in the session, capped.
Smaller(a, b) == IF a <= b THEN a ELSE b
Investable(t) ==
  Smaller(MaxHold, Cardinality({u \in DOMAIN plan : u > t /\ plan[u] = plan[t]}))

\* entry_gate
EntryAllowed(bar) ==
  bar.open /\ (machine = "gated" => bar.worth /\ Investable(Now) >= 1)

-----------------------------------------------------------------------------
(* One bar *)

EntrySide(score) == IF score = -2 THEN 1 ELSE IF score = 2 THEN -1 ELSE 0

ExitForMean(target, score) == target * score >= 0

(* Faulty: the bar that enters counts from the next one only. *)
StillHeldOneMore(st, bar) ==
  bar.open /\ ~ExitForMean(st.target, bar.score) /\ st.count + 1 <= MaxHold
StillHeld(st, bar) ==
  bar.open /\ ~ExitForMean(st.target, bar.score) /\ st.count + 1 < MaxHold

(* Faulty: a position may be kept over the close. *)
RevertOvernight(st, bar) ==
  IF st.target = 0
  THEN [Flat EXCEPT !.target = IF EntryAllowed(bar) THEN EntrySide(bar.score) ELSE 0]
  ELSE IF StillHeld(st, bar) THEN [st EXCEPT !.count = @ + 1] ELSE Flat
\* _target_state, and the loop of apply_ou_cost_margin_gate
Revert(st, bar) ==
  IF ClosesSession(plan, Now) THEN Flat
  ELSE IF st.target = 0
  THEN [Flat EXCEPT !.target = IF EntryAllowed(bar) THEN EntrySide(bar.score) ELSE 0]
  ELSE IF StillHeld(st, bar) THEN [st EXCEPT !.count = @ + 1] ELSE Flat

(* Faulty: a bar below the entry band does not start the count again. *)
ConfirmGapped(st, bar) ==
  IF ~bar.open THEN Flat
  ELSE IF st.target = 1 THEN IF bar.score = 0 THEN Flat ELSE st
  ELSE IF bar.score < 2 THEN st
  ELSE [target |-> IF st.count + 1 >= Confirm THEN 1 ELSE 0, count |-> st.count + 1]
\* build_persistent_hysteresis_signal
ConfirmTrend(st, bar) ==
  IF ~bar.open THEN Flat
  ELSE IF st.target = 1 THEN IF bar.score = 0 THEN Flat ELSE st
  ELSE IF bar.score < 2 THEN Flat
  ELSE [target |-> IF st.count + 1 >= Confirm THEN 1 ELSE 0, count |-> st.count + 1]

-----------------------------------------------------------------------------
\* Test windows begin at the first bar of a session; the hysteresis has none.
MachineInit ==
  /\ machine \in {"reversion", "gated", "hysteresis"}
  /\ plan \in Plans
  /\ resets \in IF machine = "hysteresis" THEN {{}}
                ELSE {{}, {t \in DOMAIN plan : t > 1 /\ OpensSession(plan, t)}}
  /\ seen = <<>> /\ held = <<>>

Take(bar, st) ==
  /\ seen' = Append(seen, bar)
  /\ held' = Append(held, st)
  /\ UNCHANGED <<machine, plan, resets>>

ReversionBar ==
  /\ machine = "reversion" /\ Now <= Len(plan)
  /\ \E bar \in Reversions : Take(bar, Revert(Carry, bar))

GatedBar ==
  /\ machine = "gated" /\ Now <= Len(plan)
  /\ \E bar \in Gates : Take(bar, Revert(Carry, bar))

HysteresisBar ==
  /\ machine = "hysteresis" /\ Now <= Len(plan)
  /\ \E bar \in Ratios : Take(bar, ConfirmTrend(Carry, bar))

MachineNext == ReversionBar \/ GatedBar \/ HysteresisBar

MachineSpec == MachineInit /\ [][MachineNext]_machineVars

-----------------------------------------------------------------------------
(* The accounts of a finished run *)

Signalled == [t \in 1..Len(held) |->
                [target |-> held[t].target, available |-> seen[t].open]]

\* build_ou_vwap_reversion_strategy: the earlier, lagged convention.
LaggedPosition(t) == IF t = 1 \/ t \in resets THEN 0 ELSE held[t - 1].target
LaggedTurnover(t) ==
  IF t \in resets THEN 0
  ELSE Gap(LaggedPosition(t), IF t = 1 THEN 0 ELSE LaggedPosition(t - 1))

Reverting == machine \in {"reversion", "gated"}

(* Properties *)

\* A reversion position is entered beyond the entry band in an open regime,
\* is held for at most MaxHold bars while the regime stays open and the score
\* has not come back, never turns round without a flat bar, is never held at
\* a close, and in the gated strategy never outlasts the bars for which its
\* entry was found worth its cost.  And no flat bar passes an entry over.
HeldWithinHorizon ==
  Reverting =>
    /\ \A t \in DOMAIN held : held[t].target # 0 =>
         /\ ~ClosesSession(plan, t)
         /\ \E e \in 1..t :
              /\ t - e < MaxHold
              /\ \A u \in e..t :
                   /\ plan[u] = plan[t] /\ seen[u].open
                   /\ held[u].target = held[t].target
                   /\ u > e => seen[u].score * held[t].target < 0
              /\ seen[e].score = -2 * held[t].target
              /\ e = 1 \/ held[e - 1].target = 0
              /\ machine = "gated" => seen[e].worth /\ t - e + 1 <= Investable(e)
    /\ \A t \in DOMAIN held :
         /\ ~ClosesSession(plan, t)
         /\ t = 1 \/ held[t - 1].target = 0
         /\ seen[t].score \in {-2, 2} /\ seen[t].open /\ seen[t].worth
         => held[t].target = -(seen[t].score \div 2)

\* The lagged and the next-open accounts of a reversion run hold the same
\* positions and trade the same amounts; only the liquidation at a close is
\* booked one bar later by the lagged one, which loses it where a test window
\* begins.
AccountsAgree ==
  (Reverting /\ Now > Len(plan)) =>
    LET rows == NextOpenRows(Signalled, plan)
    IN \A t \in DOMAIN plan :
         /\ rows[t].position = LaggedPosition(t)
         /\ LaggedTurnover(t) =
              IF t = 1 \/ ~OpensSession(plan, t) THEN rows[t].openTurnover
              ELSE IF t \in resets THEN 0 ELSE rows[t - 1].closeTurnover

\* The hysteresis is long exactly when Confirm consecutive bars were above the
\* entry band, all of them with a score, and every bar since has had one and
\* has stayed above the exit band.
LongOnlyWhenConfirmed ==
  machine = "hysteresis" =>
    \A t \in DOMAIN held :
      (held[t].target = 1) <=>
        \E c \in Confirm..t :
          /\ \A u \in (c - Confirm + 1)..c : seen[u].open /\ seen[u].score = 2
          /\ \A u \in c..t : seen[u].open /\ seen[u].score > 0

=============================================================================
