------------------------------ MODULE VectorLedger ------------------------------
(***************************************************************************)
(* What a causal backtest promises: the independent vectorised reference   *)
(* of the Day 11 walk-forward study.  It knows no orders and no pending    *)
(* state; each row of a fold follows from the signals alone.  The position *)
(* of a row is the signal of the row before it, nothing is held in the     *)
(* first row of a fold, and turnover is what the position changed by.      *)
(* Returns and costs are whole multiples of one small unit, so that the    *)
(* arithmetic is exact.                                                    *)
(***************************************************************************)
EXTENDS Integers, Sequences

CONSTANTS
  Returns,  \* simple returns a bar may have
  Cost      \* cost per unit of turnover

VARIABLE rows

Positions == {-1, 0, 1}
Distance(p, q) == IF p >= q THEN p - q ELSE q - p

\* Signals the frozen builders emit: an unavailable one is neutral.
Signals == {s \in [target : Positions, available : BOOLEAN] :
              ~s.available => s.target = 0}

Before(fold) ==
  IF fold = <<>> THEN [target |-> 0, available |-> FALSE, position |-> 0]
  ELSE fold[Len(fold)]

\* _reset_test_execution, one row at a time.
NextRow(fold, signal, return) ==
  LET last == Before(fold)
      turnover == Distance(last.target, last.position)
  IN [target |-> signal.target,
      available |-> signal.available,
      position |-> last.target,
      eligible |-> last.available,
      turnover |-> turnover,
      gross |-> last.target * return,
      cost |-> turnover * Cost,
      net |-> last.target * return - turnover * Cost]

Init == rows = <<>>

Extend == \E signal \in Signals, return \in Returns :
            rows' = Append(rows, NextRow(rows, signal, return))
NewFold == rows' = <<>>

Next == Extend \/ NewFold

Spec == Init /\ [][Next]_rows

=============================================================================
