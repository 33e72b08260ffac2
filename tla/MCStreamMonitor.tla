--------------------------- MODULE MCStreamMonitor ---------------------------
(***************************************************************************)
(* A scaled monitor: staleness after one instant, three attempts with the  *)
(* backoffs 1, 1, 2.  A repeated reconnect fits into the instants 0..5.    *)
(* Beside it the reconciliation that is the other half of the operational  *)
(* gate, over a book of up to two orders in one symbol, with prices that   *)
(* differ by less than, exactly and more than the tolerance of 1.          *)
(***************************************************************************)
EXTENDS OperationalGate, TLC

CONSTANTS m1, m2

MCBackoff == <<1, 1, 2>>

Events == Permutations({m1, m2})

-----------------------------------------------------------------------------

Order(client, side, quantity, filled, price) ==
  [client |-> client, broker |-> client, symbol |-> "SPY", side |-> side,
   status |-> IF filled = quantity THEN "filled" ELSE "new",
   quantity |-> quantity, filled |-> filled, price |-> price,
   recovery |-> FALSE, age |-> 0]

\* The two fills of the buy order average to 8, that of the sale to 6.
Purchases ==
  {Order("c1", "buy", 3, 0, 0)} \cup
  {Order("c1", "buy", 3, 1, p) : p \in 4 .. 6} \cup
  {Order("c1", "buy", 3, 3, p) : p \in 6 .. 8}

Sale == Order("c2", "sell", 1, 1, 6)

Books == {{b} : b \in Purchases} \cup {{b, Sale} : b \in Purchases}

Aged(orders) == {[o EXCEPT !.age = 2] : o \in orders}

\* The same orders at prices that differ by d.
Repriced(orders, d) ==
  {[o EXCEPT !.price = IF @ = 0 THEN 0 ELSE @ + d] : o \in orders}

Fill(id, client, side, quantity, price) ==
  [id |-> id, client |-> client, broker |-> client, symbol |-> "SPY",
   side |-> side, quantity |-> quantity, price |-> price]

BrokerFills ==
  <<Fill("x1", "c1", "buy", 1, 4), Fill("x2", "c1", "buy", 2, 10),
    Fill("x1", "c1", "buy", 1, 5), Fill("x3", "c2", "sell", 1, 6),
    Fill("x4", "c3", "buy", 1, 4)>>

FillLists ==
  {<<>>} \cup {<<BrokerFills[1], BrokerFills[j]>> : j \in {1, 2, 3, 5}}
         \cup {<<BrokerFills[1], BrokerFills[2], BrokerFills[4]>>}

Positions ==
  {<<>>} \cup {("SPY" :> [quantity |-> n, mark |-> 1, age |-> 0]) : n \in 1 .. 3}

\* Every list of fills with every local book; the broker lists the same
\* orders, the same ones in an old snapshot, or the same at other prices.
\* The cash is that of a list of fills, or one unit off.
MCSnapshots ==
  UNION {
    {[local |-> book, orders |-> orders, fills |-> fills,
      positions |-> positions, opening |-> opening, openingCash |-> 30,
      cash |-> cash, cashAge |-> 0] :
        orders \in {book, Aged(book), Repriced(book, 1), Repriced(book, 2)},
        fills \in FillLists, positions \in Positions,
        opening \in {<<>>, ("SPY" :> 1)}, cash \in {5, 6, 12, 26}}
    : book \in Books}

=============================================================================
