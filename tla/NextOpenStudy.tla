---------------------------- MODULE NextOpenStudy ----------------------------
(***************************************************************************)
(* The signals of a walk-forward fold, executed at the open of the next    *)
(* bar: causal_bar_execution.py over the sessions of a replayed window.    *)
(***************************************************************************)
EXTENDS WalkForward, NextOpenExecution

\* The next-open accounts of the same signals and sessions: a position is
\* bought or sold exactly once for every change, the liquidation at a close
\* included (turnover is the distance to what the row before ended with, and
\* from there to what this row ends with); a bar earns no price of another
\* session, and none from before its signal was complete; nothing is held
\* overnight.  The sequential replay of the same signals gives the same rows,
\* as the study's parity check requires.
NextOpenTradesAddUp ==
  (phase = "replay" /\ Bar > size) =>
    LET days == [i \in 1..size |-> Day(window[i])]
        rows == NextOpenRows(ledger, days)
    IN \A t \in 1..size :
         /\ SequentialRows(ledger, days)[t] =
              [position |-> rows[t].position, ending |-> rows[t].ending,
               turnover |-> rows[t].openTurnover + rows[t].closeTurnover,
               from |-> rows[t].from, to |-> rows[t].to]
         /\ rows[t].openTurnover =
              Gap(rows[t].position, IF t = 1 THEN 0 ELSE rows[t - 1].ending)
         /\ rows[t].closeTurnover = Gap(rows[t].position, rows[t].ending)
         /\ rows[t].position # 0 =>
              /\ rows[t].eligible
              /\ rows[t].from > CloseOf(t - 1)
              /\ days[rows[t].to \div 2] = days[t]
         /\ (t = size \/ days[t + 1] # days[t]) => rows[t].ending = 0

=============================================================================
