---------------------------- MODULE MCOrderState ----------------------------
(***************************************************************************)
(* One order that the broker talks about (with contradictory versions of   *)
(* the same three events), and a second one registered later that the      *)
(* broker mentions too early.                                              *)
(***************************************************************************)
EXTENDS OrderState

CONSTANTS o1, o2, e1, e2, e3, b1, b2, p1, p2

MCIntents ==
  {[client |-> o1, terms |-> "original", quantity |-> 2, submittedAt |-> 1],
   [client |-> o1, terms |-> "altered", quantity |-> 2, submittedAt |-> 1],
   [client |-> o2, terms |-> "original", quantity |-> 1, submittedAt |-> 3]}

Message(e, seq, st, f, p) ==
  [event |-> e, client |-> o1, seq |-> seq, broker |-> b1, status |-> st,
   quantity |-> 2, filled |-> f, price |-> p, at |-> 1, replacement |-> None]

Acknowledgments ==
  {Message(e1, 1, "new", 0, None),
   Message(e1, 2, "canceled", 1, p1),
   [Message(e1, 1, "replaced", 1, p1) EXCEPT !.replacement = b2],
   [Message(e1, 1, "new", 0, None) EXCEPT !.client = o2, !.quantity = 1,
                                          !.at = 3]}

Progress ==
  {Message(e2, 2, "partially_filled", 1, p1),
   Message(e2, 2, "accepted", 1, p1),
   Message(e2, 1, "filled", 2, p2),
   [Message(e2, 2, "replaced", 1, p1) EXCEPT !.replacement = b1],
   [Message(e2, 2, "filled", 2, p1) EXCEPT !.broker = b2, !.quantity = 1]}

Endings ==
  {Message(e3, 3, "canceled", 2, p2),
   Message(e3, 3, "partially_filled", 2, p1),
   Message(e3, 3, "done_for_day", 0, None),
   [Message(e3, 2, "filled", 2, p1) EXCEPT !.at = 3],
   [Message(e3, 1, "filled", 1, p2) EXCEPT !.client = o2, !.broker = b2,
                                           !.quantity = 1]}

MCUpdates == Acknowledgments \cup Progress \cup Endings

=============================================================================
