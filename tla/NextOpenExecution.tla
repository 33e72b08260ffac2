--------------------------- MODULE NextOpenExecution ---------------------------
(***************************************************************************)
(* The model-independent timing accounts of causal_bar_execution.py: the   *)
(* signal of a bar is executed at the open of the next one, every bar      *)
(* earns the return from its open to the next open, and a session's last   *)
(* bar earns its open-to-close return and liquidates at that close.        *)
(*                                                                         *)
(* `signals' and `days' are the columns of one symbol, in time order.      *)
(* Prices are not modelled: a row names the two prices its return is made  *)
(* of, the open (2t) and the close (2t + 1) of bar t.                      *)
(***************************************************************************)
EXTENDS Integers, Sequences, SequencesExt

Gap(p, q) == IF p >= q THEN p - q ELSE q - p

OpensSession(days, t) == t = 1 \/ days[t] # days[t - 1]
ClosesSession(days, t) == t = Len(days) \/ days[t] # days[t + 1]

OpenOf(t) == 2 * t
CloseOf(t) == 2 * t + 1

PositionAt(signals, t) == IF t = 1 THEN 0 ELSE signals[t - 1].target
EligibleAt(signals, t) == t > 1 /\ signals[t - 1].available

(* Faulty: the overnight liquidation is not accounted for at the next open. *)
CarriedIgnoringSessions(signals, days, t) ==
  IF t = 1 THEN 0 ELSE PositionAt(signals, t - 1)
\* previous_end: nothing is carried into a session.
Carried(signals, days, t) ==
  IF t = 1 \/ OpensSession(days, t) THEN 0 ELSE PositionAt(signals, t - 1)

\* apply_causal_next_open_overnight_flat
NextOpenRows(signals, days) ==
  [t \in 1..Len(days) |->
     LET position == PositionAt(signals, t)
         closing == ClosesSession(days, t)
     IN [position |-> position,
         eligible |-> EligibleAt(signals, t),
         ending |-> IF closing THEN 0 ELSE position,
         openTurnover |-> Gap(position, Carried(signals, days, t)),
         closeTurnover |-> IF closing THEN Gap(position, 0) ELSE 0,
         from |-> OpenOf(t),
         to |-> IF closing THEN CloseOf(t) ELSE OpenOf(t + 1)]]

(* Faulty: the session of the bar before is not remembered. *)
PriorEndAcrossSessions(rows, days, t) ==
  IF t = 1 THEN 0 ELSE Last(rows).position
\* prior_end, from the target and the session of the bar before.
PriorEnd(rows, days, t) ==
  IF t = 1 \/ days[t] # days[t - 1] THEN 0 ELSE Last(rows).position

\* sequential_next_open_replay: the same convention, one bar at a time.
SequentialRows(signals, days) ==
  LET Step(rows, t) ==
        LET position == IF t = 1 THEN 0 ELSE signals[t - 1].target
            closing == t = Len(days) \/ days[t + 1] # days[t]
            exit == IF closing THEN Gap(position, 0) ELSE 0
        IN Append(rows,
             [position |-> position,
              ending |-> IF closing THEN 0 ELSE position,
              turnover |-> Gap(position, PriorEnd(rows, days, t)) + exit,
              from |-> OpenOf(t),
              to |-> IF closing THEN CloseOf(t) ELSE OpenOf(t + 1)])
  IN FoldLeft(Step, <<>>, [t \in 1..Len(days) |-> t])

=============================================================================
