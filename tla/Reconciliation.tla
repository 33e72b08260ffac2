--------------------------- MODULE Reconciliation ---------------------------
(***************************************************************************)
(* reconcile_snapshot: the local order book against one broker snapshot.   *)
(* The function is pure; its answer is the set of reasons to block, and it *)
(* passes when there is none.                                              *)
(*                                                                         *)
(* Amounts are whole numbers of their smallest units.  A price of 0 stands *)
(* for no price (None): the code accepts positive prices only.  A weighted *)
(* average is compared without dividing, with both sides multiplied by the *)
(* shares.  Times are ages relative to as_of.  The diagnostics' texts and  *)
(* their numbering are left out.                                           *)
(***************************************************************************)
EXTENDS Integers, Sequences, FiniteSets, Functions

CONSTANTS
  Symbols,
  TerminalStatuses,
  SnapshotStaleAfter,   \* a record older than this is stale
  CashTolerance, PriceTolerance,
  MaxSingleOrder, MaxSymbolPosition, MaxGrossNotional, MaxOpenOrders

ASSUME ReconciliationAssumption ==
  CashTolerance \in Nat /\ PriceTolerance \in Nat

Sign(side) == IF side = "buy" THEN 1 ELSE -1

Magnitude(n) == IF n < 0 THEN -n ELSE n

(***************************************************************************)
(* What ReconciliationInput and its parts accept: both books have a client *)
(* identifier once, and what is filled has a price.                        *)
(***************************************************************************)
OncePerClient(orders) == \A o, q \in orders : o.client = q.client => o = q

IsSnapshot(in) ==
  /\ IsFiniteSet(in.local) /\ OncePerClient(in.local)
  /\ \A l \in in.local :
       l.side \in {"buy", "sell"} /\ l.filled \in Nat /\ l.price \in Nat
  /\ OncePerClient(in.orders)
  /\ \A o \in in.orders :
       o.price \in Nat /\ (o.filled = 0 <=> o.price = 0)
  /\ in.fills \in Seq(Range(in.fills))
  /\ \A i \in DOMAIN in.fills :
       /\ in.fills[i].side \in {"buy", "sell"}
       /\ in.fills[i].quantity \in Nat \ {0} /\ in.fills[i].price \in Nat \ {0}
  /\ \A s \in DOMAIN in.opening : in.opening[s] \in Int
  /\ \A s \in DOMAIN in.positions : in.positions[s].quantity \in Int
  /\ in.openingCash \in Int /\ in.cash \in Int

HoldingOf(book, symbol) == IF symbol \in DOMAIN book THEN book[symbol] ELSE 0

PriceMatches(a, b) ==
  IF a = 0 \/ b = 0 THEN a = b ELSE Magnitude(a - b) <= PriceTolerance

(***************************************************************************)
(* Orders.  Client identifiers are unique on both sides.                   *)
(***************************************************************************)
OrderOf(orders, client) == CHOOSE o \in orders : o.client = client

ClientsOf(orders) == {o.client : o \in orders}

OrderReasons(local, broker) ==
  UNION {
    IF local.broker # broker.broker THEN {"broker_order_id_mismatch"} ELSE {},
    IF local.status # broker.status THEN {"order_status_mismatch"} ELSE {},
    IF local.quantity # broker.quantity
      THEN {"requested_quantity_mismatch"} ELSE {},
    IF local.filled # broker.filled THEN {"cumulative_fill_mismatch"} ELSE {},
    IF <<local.symbol, local.side>> # <<broker.symbol, broker.side>>
      THEN {"fill_symbol_side_mismatch"} ELSE {},
    IF PriceMatches(local.price, broker.price)
      THEN {} ELSE {"weighted_average_price_mismatch"}}

BookReasons(in) ==
  UNION {
    IF \E l \in in.local : l.recovery THEN {"local_recovery_required"} ELSE {},
    IF ClientsOf(in.local) \subseteq ClientsOf(in.orders)
      THEN {} ELSE {"local_order_missing_at_broker"},
    IF ClientsOf(in.orders) \subseteq ClientsOf(in.local)
      THEN {} ELSE {"unknown_broker_order"},
    IF \E o, q \in in.orders : o.client # q.client /\ o.broker = q.broker
      THEN {"duplicate_broker_order_id"} ELSE {},
    UNION {OrderReasons(l, OrderOf(in.orders, l.client)) :
             l \in {m \in in.local : m.client \in ClientsOf(in.orders)}}}

(***************************************************************************)
(* Fills.  The first fill under an identifier counts; the same one again   *)
(* is ignored, a different one under its identifier is a conflict.         *)
(***************************************************************************)
IsRepeated(in, i) == \E j \in 1 .. i - 1 : in.fills[j].id = in.fills[i].id

UniqueFills(in) ==
  {in.fills[i] : i \in {j \in DOMAIN in.fills : ~IsRepeated(in, j)}}

Conflicting(in) ==
  \E i, j \in DOMAIN in.fills :
    in.fills[i].id = in.fills[j].id /\ in.fills[i] # in.fills[j]

FillsOf(in, client) == {f \in UniqueFills(in) : f.client = client}

Shares(fills) == SumFunction([f \in fills |-> f.quantity])

Value(fills) == SumFunction([f \in fills |-> f.quantity * f.price])

\* Faulty: the plain average of the fills' prices, whatever their quantities.
PlainAverageMatches(price, fills) ==
  IF fills = {} \/ price = 0
  THEN fills = {} /\ price = 0
  ELSE Magnitude(price * Cardinality(fills)
                   - SumFunction([f \in fills |-> f.price]))
         <= PriceTolerance * Cardinality(fills)

\* The price against the average of the fills, Value over Shares.
WeightedMatches(price, fills) ==
  IF Shares(fills) = 0 \/ price = 0
  THEN Shares(fills) = 0 /\ price = 0
  ELSE Magnitude(price * Shares(fills) - Value(fills))
         <= PriceTolerance * Shares(fills)

UnknownFills(in) ==
  {f \in UniqueFills(in) : f.client \notin ClientsOf(in.local)}

FillReasons(in) ==
  LET known == {f \in UniqueFills(in) : f.client \in ClientsOf(in.local)}
      Local(f) == OrderOf(in.local, f.client)
  IN UNION {
       IF Conflicting(in) THEN {"duplicate_fill_conflict"} ELSE {},
       IF UnknownFills(in) # {} THEN {"unknown_order_fill"} ELSE {},
       IF \E f \in known : f.broker # Local(f).broker
         THEN {"fill_broker_order_id_mismatch"} ELSE {},
       IF \E f \in known :
            <<f.symbol, f.side>> # <<Local(f).symbol, Local(f).side>>
         THEN {"fill_symbol_side_mismatch"} ELSE {},
       IF \E l \in in.local : Shares(FillsOf(in, l.client)) # l.filled
         THEN {"fill_quantity_mismatch"} ELSE {},
       IF \E l \in in.local : ~WeightedMatches(l.price, FillsOf(in, l.client))
         THEN {"weighted_average_price_mismatch"} ELSE {}}

(***************************************************************************)
(* Positions and cash, rolled forward from the opening by the fills.       *)
(***************************************************************************)
Flow(in, symbol) ==
  SumFunction([f \in {g \in UniqueFills(in) : g.symbol = symbol} |->
                 Sign(f.side) * f.quantity])

ExpectedPosition(in, symbol) == HoldingOf(in.opening, symbol) + Flow(in, symbol)

(* Symbols the local side knows of: opened or traded. *)
ExpectedSymbols(in) ==
  DOMAIN in.opening \cup {f.symbol : f \in UniqueFills(in)}

PositionReasons(in) ==
  UNION {
    LET expected == ExpectedPosition(in, s)
        held == s \in DOMAIN in.positions
    IN IF ~held
       THEN IF expected # 0 THEN {"broker_position_missing"} ELSE {}
       ELSE IF in.positions[s].quantity = expected THEN {}
            ELSE IF s \in ExpectedSymbols(in)
                 THEN {"position_quantity_mismatch"}
                 ELSE {"unexpected_broker_position"}
    : s \in ExpectedSymbols(in) \cup DOMAIN in.positions}

ExpectedCash(in) ==
  in.openingCash -
    SumFunction([f \in UniqueFills(in) |-> Sign(f.side) * (f.quantity * f.price)])

CashReasons(in) ==
  IF \/ Magnitude(in.cash - ExpectedCash(in)) > CashTolerance
     \/ ExpectedCash(in) < 0
     \/ in.cash < 0
  THEN {"cash_balance_mismatch"} ELSE {}

(***************************************************************************)
(* Age of each broker record, and the limits.                              *)
(***************************************************************************)
Ages(in) ==
  {o.age : o \in in.orders} \cup {in.cashAge}
    \cup {in.positions[s].age : s \in DOMAIN in.positions}

StaleReasons(in) ==
  IF \E age \in Ages(in) : age > SnapshotStaleAfter
  THEN {"snapshot_stale"} ELSE {}

GrossNotional(in) ==
  SumFunction([s \in DOMAIN in.positions |->
                 Magnitude(in.positions[s].quantity) * in.positions[s].mark])

LimitReasons(in) ==
  UNION {
    IF \E l \in in.local : l.quantity > MaxSingleOrder
      THEN {"single_order_limit_exceeded"} ELSE {},
    IF Cardinality({l \in in.local : l.status \notin TerminalStatuses})
         > MaxOpenOrders
      THEN {"open_order_limit_exceeded"} ELSE {},
    IF \E s \in DOMAIN in.positions :
         Magnitude(in.positions[s].quantity) > MaxSymbolPosition
      THEN {"symbol_position_limit_exceeded"} ELSE {},
    IF GrossNotional(in) > MaxGrossNotional
      THEN {"gross_notional_limit_exceeded"} ELSE {}}

CoreReconciliationPassed(in) ==
  /\ StaleReasons(in) = {}
  /\ BookReasons(in) = {}
  /\ FillReasons(in) = {}
  /\ PositionReasons(in) = {}
  /\ CashReasons(in) = {}

LimitsPassed(in) == LimitReasons(in) = {}

ReconciliationPassed(in) == CoreReconciliationPassed(in) /\ LimitsPassed(in)

-----------------------------------------------------------------------------
(***************************************************************************)
(* What a pass is meant to establish, said of the local book and the       *)
(* broker's records alone, without the fills the function goes through:    *)
(* both books list the same orders in the same state at prices within the  *)
(* tolerance, the broker's positions are those the local orders explain,   *)
(* and its cash is the one they explain up to the tolerance of the cash    *)
(* and, for every share filled, that of the price.                         *)
(***************************************************************************)
Explained(in, symbol) ==
  HoldingOf(in.opening, symbol) +
    SumFunction([l \in {m \in in.local : m.symbol = symbol} |->
                   Sign(l.side) * l.filled])

ExplainedCash(in) ==
  in.openingCash -
    SumFunction([l \in in.local |-> Sign(l.side) * (l.price * l.filled)])

PriceSlack(in) ==
  SumFunction([l \in in.local |-> PriceTolerance * l.filled])

SameOrder(l, o) ==
  /\ \A field \in {"client", "broker", "symbol", "side", "status", "quantity",
                   "filled"} : l[field] = o[field]
  /\ l.price = 0 <=> o.price = 0
  /\ Magnitude(l.price - o.price) <= PriceTolerance

BooksAgree(in) ==
  /\ \A l \in in.local : ~l.recovery /\ \E o \in in.orders : SameOrder(l, o)
  /\ \A o \in in.orders : \E l \in in.local : SameOrder(l, o)
  /\ \A s \in Symbols :
       (IF s \in DOMAIN in.positions THEN in.positions[s].quantity ELSE 0)
         = Explained(in, s)
  /\ Magnitude(in.cash - ExplainedCash(in)) <= CashTolerance + PriceSlack(in)

=============================================================================
