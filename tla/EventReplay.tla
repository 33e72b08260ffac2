------------------------------ MODULE EventReplay ------------------------------
(***************************************************************************)
(* The Day 12 event replay of one evaluation window: bar by bar it fills   *)
(* the order that is due, accounts for the bar, records the signal of the  *)
(* completed bar and submits the order that the next bar executes.  The    *)
(* state between two bars is _ReplayState.                                 *)
(*                                                                         *)
(* Returns and costs are whole multiples of 1/Scale, and the equity after  *)
(* n bars is a whole multiple of 1/Scale^n, so the ledger is exact; the    *)
(* tolerances of the code's float comparisons are not modelled.            *)
(***************************************************************************)
EXTENDS Integers, Sequences

CONSTANTS
  Returns,  \* asset returns of a bar, in units of 1/Scale, above -Scale
  Cost,     \* cost_bps_per_turnover, in the same units
  Scale

ASSUME ReplayAssumption ==
  /\ Scale \in Nat \ {0} /\ Cost \in Nat
  /\ Returns \subseteq {r \in Int : r > -Scale}

VARIABLES
  phase,   \* where the run is; "replay" while a window is replayed
  size,    \* bars of the evaluation window
  state,   \* _ReplayState: position, pending target and order, equity
  events,  \* the event log of the window
  ledger   \* its observations

replayVars == <<phase, size, state, events, ledger>>

Positions == {-1, 0, 1}
Distance(p, q) == IF p >= q THEN p - q ELSE q - p

\* What _validate_replay_core_inputs lets through.
Signals == {s \in [target : Positions, available : BOOLEAN] :
              ~s.available => s.target = 0}

NoOrder == [submitted |-> 0]
OrderAt(i, current, target) ==
  [submitted |-> i, execute |-> i + 1, current |-> current, target |-> target]

NeutralState == [executed |-> 0, target |-> 0, available |-> FALSE,
                 order |-> NoOrder, equity |-> 1]

Bar == Len(ledger) + 1
Replaying == phase = "replay" /\ Bar <= size

-----------------------------------------------------------------------------
(* One bar *)

Change(st) == st.target - st.executed

\* The fill of a bar must be that of an order submitted one bar earlier, and
\* an order must fill.
TimingBroken(st, i) ==
  IF Change(st) # 0 THEN st.order = NoOrder \/ st.order.execute # i
  ELSE st.order # NoOrder

\* _ReplayState.__post_init__
Inconsistent(st) ==
  \/ ~st.available /\ st.target # 0
  \/ (Change(st) # 0) # (st.order # NoOrder)
  \/ /\ st.order # NoOrder
     /\ \/ st.order.current # st.executed \/ st.order.target # st.target
        \/ st.order.execute # st.order.submitted + 1

Observation(st, signal, return) ==
  LET turnover == Distance(st.target, st.executed)
      cost == turnover * Cost
      gross == st.target * return
  IN [target |-> signal.target,
      available |-> signal.available,
      eligible |-> st.available,
      previous |-> st.executed,
      executed |-> st.target,
      turnover |-> turnover,
      gross |-> gross,
      cost |-> cost,
      net |-> gross - cost,
      opening |-> st.equity,
      cash |-> st.equity * (Scale * (1 - st.target) - cost),
      holdings |-> st.target * st.equity * (Scale + return),
      ending |-> st.equity * (Scale + gross - cost)]

(* Faulty: the last bar of the window places an order too. *)
OrdersTerminal(i, position, signal) ==
  IF signal.target # position THEN OrderAt(i, position, signal.target)
  ELSE NoOrder
(* Faulty: a reversal of the position places no order. *)
OrdersNoReversal(i, position, signal) ==
  IF i < size /\ signal.target # position /\ signal.target # -position
  THEN OrderAt(i, position, signal.target)
  ELSE NoOrder
\* The terminal signal is kept, its unexecutable order is not placed.
OrderFor(i, position, signal) ==
  IF i < size /\ signal.target # position
  THEN OrderAt(i, position, signal.target)
  ELSE NoOrder

\* The events of a bar, in the order they are dispatched.
Dispatched(i, st, row, order) ==
  <<[type |-> "market", bar |-> i]>>
  \o (IF Change(st) # 0
      THEN <<[type |-> "fill", bar |-> i, submitted |-> st.order.submitted,
              from |-> st.executed, to |-> st.target]>>
      ELSE <<>>)
  \o <<[type |-> "portfolio", bar |-> i, position |-> row.executed],
       [type |-> "signal", bar |-> i, target |-> row.target]>>
  \o (IF order # NoOrder
      THEN <<[type |-> "order", bar |-> i, from |-> order.current,
              to |-> order.target]>>
      ELSE <<>>)

(* Faulty: the availability of the signal is not carried over. *)
StateAlwaysEligible(st, row, order) ==
  [st EXCEPT !.executed = row.executed, !.target = row.target,
             !.available = TRUE, !.order = order, !.equity = row.ending]
StateAfter(st, row, order) ==
  [st EXCEPT !.executed = row.executed, !.target = row.target,
             !.available = row.available, !.order = order,
             !.equity = row.ending]

Fault(reason) ==
  /\ phase' = reason
  /\ UNCHANGED <<size, state, events, ledger>>

ReplayBar ==
  /\ Replaying
  /\ \E signal \in Signals, return \in Returns :
       LET row == Observation(state, signal, return)
           order == OrderFor(Bar, row.executed, signal)
           next == StateAfter(state, row, order)
       IN IF TimingBroken(state, Bar) THEN Fault("timing")
          ELSE IF row.ending <= 0 THEN Fault("ruin")
          ELSE IF Bar < size /\ Inconsistent(next) THEN Fault("state")
          ELSE /\ events' = events \o Dispatched(Bar, state, row, order)
               /\ ledger' = Append(ledger, row)
               /\ state' = IF Bar < size THEN next ELSE state
               /\ UNCHANGED <<phase, size>>

\* run_trend_family_event_replay: every window starts from the neutral state.
OpenWindow(n) ==
  /\ size' = n
  /\ state' = NeutralState
  /\ events' = <<>> /\ ledger' = <<>>

-----------------------------------------------------------------------------
(* What the ledger is compared with *)

\* The columns that PARITY_MAPPINGS compares.
Projected ==
  [i \in 1..Len(ledger) |->
     [target |-> ledger[i].target, available |-> ledger[i].available,
      position |-> ledger[i].executed, eligible |-> ledger[i].eligible,
      turnover |-> ledger[i].turnover, gross |-> ledger[i].gross,
      cost |-> ledger[i].cost, net |-> ledger[i].net]]

Fills == {k \in DOMAIN events : events[k].type = "fill"}
Orders == {k \in DOMAIN events : events[k].type = "order"}

=============================================================================
