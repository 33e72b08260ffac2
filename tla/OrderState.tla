------------------------------ MODULE OrderState ------------------------------
(***************************************************************************)
(* The local order-state machine of broker/order_state.py (class           *)
(* OrderStateMachine).  It turns intents, broker messages and explicit     *)
(* timeout checks, delivered in any order and any number of times, into    *)
(* one local state per client order, and latches a recovery flag whenever  *)
(* it refuses something.                                                   *)
(*                                                                         *)
(* The audit trail is kept as one ledger of applied messages per order:    *)
(* the rows of refused and ignored messages carry nothing beyond the       *)
(* message itself, which `seen' retains, and the recovery flag.  Reason    *)
(* codes only word a refusal and are left out.                             *)
(***************************************************************************)
EXTENDS Integers, Sequences

CONSTANTS
  Clients,        \* client_order_ids
  EventIds,       \* event_ids chosen by the broker
  BrokerIds,      \* broker_order_ids, replacement ids included
  Prices,         \* average fill prices
  Intents,        \* the intents a caller may register
  Updates,        \* the normalised broker messages that may be delivered
  Instants,       \* the instants a caller may supply
  AckTimeout,     \* ACKNOWLEDGMENT_TIMEOUT
  UpdateTimeout,  \* UPDATE_TIMEOUT
  StaleAfter,     \* EVENT_STALE_AFTER
  FutureSkew,     \* MAX_FUTURE_SKEW
  None            \* Python's None

Never == -1       \* None for an instant or a provider sequence

TerminalStatuses == {"filled", "canceled", "expired", "replaced", "rejected"}

NoFillStatuses == {"pending_review", "pending_new", "held", "accepted",
                   "accepted_for_bidding", "rejected"}

ProviderStatuses ==
  NoFillStatuses \cup TerminalStatuses \cup
  {"new", "partially_filled", "pending_cancel", "pending_replace",
   "done_for_day", "stopped", "suspended", "calculated"}

LegalTransitions ==
  [ intent_created       |-> ProviderStatuses,
    pending_review       |-> {"held", "pending_new", "accepted", "new",
                              "rejected", "canceled", "expired"},
    pending_new          |-> {"held", "accepted", "new", "rejected",
                              "canceled", "expired"},
    held                 |-> {"pending_new", "accepted", "new", "rejected",
                              "canceled", "expired"},
    accepted             |-> {"accepted_for_bidding", "new", "partially_filled",
                              "filled", "pending_cancel", "pending_replace",
                              "canceled", "expired", "rejected", "held"},
    accepted_for_bidding |-> {"new", "partially_filled", "filled",
                              "pending_cancel", "canceled", "expired", "rejected"},
    new                  |-> {"partially_filled", "filled", "pending_cancel",
                              "pending_replace", "done_for_day", "canceled",
                              "expired", "rejected", "stopped", "suspended",
                              "calculated"},
    partially_filled     |-> {"filled", "pending_cancel", "pending_replace",
                              "done_for_day", "canceled", "expired", "replaced",
                              "stopped", "suspended", "calculated"},
    pending_cancel       |-> {"new", "partially_filled", "filled", "canceled",
                              "done_for_day", "expired"},
    pending_replace      |-> {"new", "partially_filled", "filled", "replaced",
                              "canceled", "expired"},
    done_for_day         |-> {"new", "partially_filled", "filled",
                              "pending_cancel", "pending_replace", "canceled",
                              "expired"},
    stopped              |-> {"new", "partially_filled", "filled", "canceled",
                              "expired", "rejected"},
    suspended            |-> {"new", "partially_filled", "filled", "canceled",
                              "expired", "rejected"},
    calculated           |-> {"filled", "canceled", "expired"},
    filled |-> {}, canceled |-> {}, expired |-> {}, replaced |-> {},
    rejected |-> {} ]

IsTransitionAllowed(from, to) == from = to \/ to \in LegalTransitions[from]

Statuses == ProviderStatuses \cup {"intent_created"}

Intent == [client : Clients, terms : {"original", "altered"},
           quantity : Nat \ {0}, submittedAt : Nat]

\* received_at is transport metadata and is no part of a message.
Update == [event : EventIds, client : Clients, seq : Nat, broker : BrokerIds,
           status : ProviderStatuses, quantity : Nat \ {0}, filled : Nat,
           price : Prices \cup {None}, at : Nat,
           replacement : BrokerIds \cup {None}]

Row == [event : EventIds, seq : Nat, from : Statuses, to : ProviderStatuses,
        inc : Nat, cum : Nat]

Order == [terms : {"original", "altered"}, quantity : Nat, submittedAt : Nat,
          broker : BrokerIds \cup {None}, status : Statuses \cup {"absent"},
          filled : Nat, price : Prices \cup {None}, seq : Nat \cup {Never},
          eventAt : Nat \cup {Never}, receivedAt : Nat \cup {Never},
          replacement : BrokerIds \cup {None}, recovery : BOOLEAN]

ASSUME ConstantsAssumption ==
  /\ Intents \subseteq Intent
  /\ Updates \subseteq Update
  /\ Instants \subseteq Nat
  /\ AckTimeout \in Nat /\ UpdateTimeout \in Nat
  /\ StaleAfter \in Nat /\ FutureSkew \in Nat
  /\ None \notin Prices /\ None \notin BrokerIds

VARIABLES
  orders,           \* _states, with an "absent" record for an unknown client
  book,             \* the insertion order of _states
  seen,             \* _event_fingerprints: the first message of each event id
  ledger,           \* the applied rows of _audit_entries, per order
  timeoutKeys,      \* _timeout_keys, one per timeout diagnostic
  globalRecovery    \* _global_recovery_required

vars == <<orders, book, seen, ledger, timeoutKeys, globalRecovery>>

Absent == [terms |-> "original", quantity |-> 0, submittedAt |-> 0,
           broker |-> None, status |-> "absent", filled |-> 0, price |-> None,
           seq |-> Never, eventAt |-> Never, receivedAt |-> Never,
           replacement |-> None, recovery |-> FALSE]

Known(c) == orders[c].status # "absent"
Terminal(c) == orders[c].status \in TerminalStatuses

Init ==
  /\ orders = [c \in Clients |-> Absent]
  /\ book = <<>>
  /\ seen = {}
  /\ ledger = [c \in Clients |-> <<>>]
  /\ timeoutKeys = {}
  /\ globalRecovery = FALSE

-----------------------------------------------------------------------------
(* Intents *)

NewOrder(i) ==
  [Absent EXCEPT !.terms = i.terms, !.quantity = i.quantity,
                 !.submittedAt = i.submittedAt, !.status = "intent_created"]

SameTerms(o, i) == /\ o.terms = i.terms
                   /\ o.quantity = i.quantity
                   /\ o.submittedAt = i.submittedAt

\* A refusal about order c: it latches the order, or the whole machine when
\* the order is unknown.
Latch(c) ==
  IF Known(c)
  THEN /\ orders' = [orders EXCEPT ![c].recovery = TRUE]
       /\ UNCHANGED globalRecovery
  ELSE /\ globalRecovery' = TRUE
       /\ UNCHANGED orders

RegisterNewIntent(i) ==
  /\ ~Known(i.client)
  /\ orders' = [orders EXCEPT ![i.client] = NewOrder(i)]
  /\ book' = Append(book, i.client)
  /\ UNCHANGED <<seen, ledger, timeoutKeys, globalRecovery>>

RepeatIntent(i) ==
  /\ Known(i.client)
  /\ SameTerms(orders[i.client], i)
  /\ UNCHANGED vars

ConflictingIntent(i) ==
  /\ Known(i.client)
  /\ ~SameTerms(orders[i.client], i)
  /\ Latch(i.client)
  /\ UNCHANGED <<book, seen, ledger, timeoutKeys>>

-----------------------------------------------------------------------------
(* Broker messages *)

EventSeen(e) == \E f \in seen : f.event = e

SameIdentity(o, u) ==
  /\ o.broker \in {None, u.broker}
  /\ u.quantity = o.quantity

\* Faulty: an equal provider sequence counts as newer.
InOrderOrEqual(o, u) == u.seq >= o.seq /\ u.at >= o.eventAt

InOrder(o, u) == u.seq > o.seq /\ u.at >= o.eventAt

Timely(u, received) ==
  /\ u.at - received <= FutureSkew
  /\ received - u.at <= StaleAfter

\* Faulty: no check against a decreasing cumulative fill.
FillsMayDecrease(o, u) ==
  /\ u.filled <= o.quantity
  /\ u.status = "partially_filled" => 0 < u.filled /\ u.filled < o.quantity
  /\ u.status = "filled" => u.filled = o.quantity
  /\ (u.filled = 0) <=> (u.price = None)

\* Faulty: a fill reported with a status that cannot have one is believed.
FillsInAnyStatus(o, u) ==
  /\ o.filled <= u.filled /\ u.filled <= o.quantity
  /\ u.status = "partially_filled" => 0 < u.filled /\ u.filled < o.quantity
  /\ u.status = "filled" => u.filled = o.quantity
  /\ (u.filled = 0) <=> (u.price = None)
  /\ u.filled = o.filled => u.price = o.price

\* Faulty: a repeated terminal status may raise the cumulative fill.
FillsAfterTheEnd(o, u) ==
  /\ o.filled <= u.filled /\ u.filled <= o.quantity
  /\ u.status = "partially_filled" => 0 < u.filled /\ u.filled < o.quantity
  /\ u.status = "filled" => u.filled = o.quantity
  /\ u.status \in NoFillStatuses => u.filled = 0
  /\ (u.filled = 0) <=> (u.price = None)
  /\ u.filled = o.filled => u.price = o.price
  /\ u.status = "replaced" => u.replacement \notin {None, u.broker}

FillsConsistent(o, u) ==
  /\ o.filled <= u.filled /\ u.filled <= o.quantity
  /\ o.status \in TerminalStatuses /\ u.status = o.status
       => u.filled = o.filled /\ u.replacement = o.replacement
  /\ u.status = "partially_filled" => 0 < u.filled /\ u.filled < o.quantity
  /\ u.status = "filled" => u.filled = o.quantity
  /\ u.status \in NoFillStatuses => u.filled = 0
  /\ (u.filled = 0) <=> (u.price = None)
  /\ u.filled = o.filled => u.price = o.price
  /\ u.status = "replaced" => u.replacement \notin {None, u.broker}

\* _validate_update returns instead of raising.
Valid(o, u, received) ==
  /\ SameIdentity(o, u)
  /\ InOrder(o, u)
  /\ Timely(u, received)
  /\ IsTransitionAllowed(o.status, u.status)
  /\ FillsConsistent(o, u)

\* The first accepted message binds the broker id.
BoundBroker(o, u) == IF o.broker = None THEN u.broker ELSE o.broker

\* Faulty: an accepted message clears the recovery flag.
AfterForgiving(o, u, received) ==
  [o EXCEPT !.broker = BoundBroker(o, u),
            !.status = u.status, !.filled = u.filled, !.price = u.price,
            !.seq = u.seq, !.eventAt = u.at, !.receivedAt = received,
            !.replacement = u.replacement, !.recovery = FALSE]

After(o, u, received) ==
  [o EXCEPT !.broker = BoundBroker(o, u),
            !.status = u.status, !.filled = u.filled, !.price = u.price,
            !.seq = u.seq, !.eventAt = u.at, !.receivedAt = received,
            !.replacement = u.replacement]

RowOf(o, u) == [event |-> u.event, seq |-> u.seq, from |-> o.status,
                to |-> u.status, inc |-> u.filled - o.filled, cum |-> u.filled]

\* Faulty: only refused messages leave a fingerprint.
ApplyWithoutFingerprint(u, received) ==
  LET o == orders[u.client]
  IN  /\ ~EventSeen(u.event)
      /\ Known(u.client)
      /\ Valid(o, u, received)
      /\ orders' = [orders EXCEPT ![u.client] = After(o, u, received)]
      /\ ledger' = [ledger EXCEPT ![u.client] = Append(@, RowOf(o, u))]
      /\ UNCHANGED <<book, seen, timeoutKeys, globalRecovery>>

ApplyUpdate(u, received) ==
  LET o == orders[u.client]
  IN  /\ ~EventSeen(u.event)
      /\ Known(u.client)
      /\ Valid(o, u, received)
      /\ seen' = seen \cup {u}
      /\ orders' = [orders EXCEPT ![u.client] = After(o, u, received)]
      /\ ledger' = [ledger EXCEPT ![u.client] = Append(@, RowOf(o, u))]
      /\ UNCHANGED <<book, timeoutKeys, globalRecovery>>

\* The fingerprint is stored before validation, so it outlives a refusal.
RejectUpdate(u, received) ==
  /\ ~EventSeen(u.event)
  /\ Known(u.client) => ~Valid(orders[u.client], u, received)
  /\ seen' = seen \cup {u}
  /\ Latch(u.client)
  /\ UNCHANGED <<book, ledger, timeoutKeys>>

IgnoreDuplicate(u) ==
  /\ u \in seen
  /\ UNCHANGED vars

ConflictingEvent(u) ==
  /\ EventSeen(u.event)
  /\ u \notin seen
  /\ Latch(u.client)
  /\ UNCHANGED <<book, seen, ledger, timeoutKeys>>

-----------------------------------------------------------------------------
(* Messages an adapter could not normalise: record_invalid_event *)

InvalidMessage(c, e) == [event |-> e, client |-> c, invalid |-> TRUE]

RecordInvalidEvent(c, e) ==
  /\ ~EventSeen(e)
  /\ seen' = seen \cup {InvalidMessage(c, e)}
  /\ Latch(c)
  /\ UNCHANGED <<book, ledger, timeoutKeys>>

IgnoreInvalidDuplicate(c, e) ==
  /\ InvalidMessage(c, e) \in seen
  /\ UNCHANGED vars

ConflictingInvalidEvent(c, e) ==
  /\ EventSeen(e)
  /\ InvalidMessage(c, e) \notin seen
  /\ Latch(c)
  /\ UNCHANGED <<book, seen, ledger, timeoutKeys>>

-----------------------------------------------------------------------------
(* Timeout checks *)

Awaiting(c) == Known(c) /\ ~Terminal(c)

Reference(c) == IF orders[c].status = "intent_created"
                THEN orders[c].submittedAt
                ELSE orders[c].receivedAt

Threshold(c) == IF orders[c].status = "intent_created"
                THEN AckTimeout
                ELSE UpdateTimeout

Overdue(c, asOf) == Awaiting(c) /\ asOf - Reference(c) > Threshold(c)

\* The loop raises at an order whose reference lies after as_of.
Blocks(c, asOf) == Awaiting(c) /\ asOf < Reference(c)

\* The loop reaches c: nothing at or before c in insertion order blocks it.
Reached(c, asOf) ==
  \E n \in DOMAIN book : /\ book[n] = c
                         /\ \A k \in 1..n : ~Blocks(book[k], asOf)

TimeoutKey(c) ==
  [client |-> c, acknowledged |-> orders[c].status # "intent_created",
   seq |-> orders[c].seq]

Expiring(asOf) ==
  {c \in Clients : /\ Overdue(c, asOf)
                   /\ Reached(c, asOf)
                   /\ TimeoutKey(c) \notin timeoutKeys}

\* Faulty: the flags are set after the loop, where a raise does not come.
CheckTimeoutsFlagLast(asOf) ==
  /\ timeoutKeys' = timeoutKeys \cup {TimeoutKey(c) : c \in Expiring(asOf)}
  /\ orders' = [c \in Clients |->
                 IF c \in Expiring(asOf) /\ \A d \in Clients : ~Blocks(d, asOf)
                 THEN [orders[c] EXCEPT !.recovery = TRUE]
                 ELSE orders[c]]
  /\ UNCHANGED <<book, seen, ledger, globalRecovery>>

\* One pass.  When a later order raises, the flags already set stay set.
CheckTimeouts(asOf) ==
  /\ timeoutKeys' = timeoutKeys \cup {TimeoutKey(c) : c \in Expiring(asOf)}
  /\ orders' = [c \in Clients |->
                 IF c \in Expiring(asOf)
                 THEN [orders[c] EXCEPT !.recovery = TRUE]
                 ELSE orders[c]]
  /\ UNCHANGED <<book, seen, ledger, globalRecovery>>

-----------------------------------------------------------------------------
RegisterIntent(i) ==
  RegisterNewIntent(i) \/ RepeatIntent(i) \/ ConflictingIntent(i)

Deliver(u) ==
  \/ \E received \in Instants : ApplyUpdate(u, received) \/ RejectUpdate(u, received)
  \/ IgnoreDuplicate(u)
  \/ ConflictingEvent(u)

DeliverInvalid(c, e) ==
  \/ RecordInvalidEvent(c, e)
  \/ IgnoreInvalidDuplicate(c, e)
  \/ ConflictingInvalidEvent(c, e)

Next ==
  \/ \E i \in Intents : RegisterIntent(i)
  \/ \E u \in Updates : Deliver(u)
  \/ \E c \in Clients, e \in EventIds : DeliverInvalid(c, e)
  \/ \E asOf \in Instants : CheckTimeouts(asOf)

Spec == Init /\ [][Next]_vars

-----------------------------------------------------------------------------
(* Properties *)

\* The variables keep their types.
TypeOK ==
  /\ orders \in [Clients -> Order]
  /\ book \in Seq(Clients)
  /\ seen \subseteq Update \cup {InvalidMessage(c, e) : c \in Clients, e \in EventIds}
  /\ ledger \in [Clients -> Seq(Row)]
  /\ timeoutKeys \subseteq [client : Clients, acknowledged : BOOLEAN,
                            seq : Nat \cup {Never}]
  /\ globalRecovery \in BOOLEAN

\* No message is lost in silence: whatever redeliveries and refusals occurred,
\* an event id the machine has retained was either applied to its order or has
\* left a recovery flag behind (section 10 of the Day 19 specification).
Applied(f) == \E n \in DOMAIN ledger[f.client] : ledger[f.client][n].event = f.event

NoSilentLoss ==
  \A f \in seen : Applied(f) \/ orders[f.client].recovery \/ globalRecovery

\* An event id is booked at most once over all orders, however often and with
\* whatever content the broker repeats it.
AppliedAtMostOnce ==
  \A c, d \in Clients : \A m \in DOMAIN ledger[c], n \in DOMAIN ledger[d] :
    ledger[c][m].event = ledger[d][n].event => c = d /\ m = n

\* The audit trail explains the order: consecutive applied rows chain by
\* status, cumulative fill and increasing sequence along legal transitions, and
\* the last of them is the order's present state, so the incremental fills
\* of the trail add up to the cumulative fill.
RowFollows(from, cum, seq, row) ==
  /\ row.from = from
  /\ IsTransitionAllowed(from, row.to)
  /\ row.seq > seq
  /\ row.cum = cum + row.inc

LedgerChains(rows) ==
  \A n \in DOMAIN rows :
    IF n = 1
    THEN RowFollows("intent_created", 0, Never, rows[1])
    ELSE RowFollows(rows[n-1].to, rows[n-1].cum, rows[n-1].seq, rows[n])

LedgerEndsAt(rows, o) ==
  IF rows = <<>>
  THEN o.status \in {"absent", "intent_created"} /\ o.filled = 0 /\ o.seq = Never
  ELSE LET row == rows[Len(rows)]
       IN  o.status = row.to /\ o.filled = row.cum /\ o.seq = row.seq

LedgerExplainsOrder ==
  \A c \in Clients : LedgerChains(ledger[c]) /\ LedgerEndsAt(ledger[c], orders[c])

\* Section 7 of the Day 19 specification, over every path to a status: the
\* cumulative fill agrees with the status, the order size and the price, and
\* the broker id is bound exactly when the broker has spoken.
FillMatchesStatus ==
  \A c \in Clients : LET o == orders[c] IN
    /\ o.filled <= o.quantity
    /\ o.status = "filled" => o.filled = o.quantity
    /\ o.status = "partially_filled" => 0 < o.filled /\ o.filled < o.quantity
    /\ o.status \in NoFillStatuses => o.filled = 0
    /\ (o.filled = 0) <=> (o.price = None)
    /\ (o.broker = None) <=> (o.status \in {"absent", "intent_created"})
    /\ o.status = "replaced" => o.replacement \notin {None, o.broker}

\* What is over stays over: no later message, in or out of order, changes the
\* status, the fill, the price, the identity or the replacement of a terminal
\* order, and no message rebinds an order to another broker id.
TerminalFrozen ==
  [][\A c \in Clients :
      /\ Terminal(c) =>
           /\ orders'[c].status = orders[c].status
           /\ orders'[c].filled = orders[c].filled
           /\ orders'[c].price = orders[c].price
           /\ orders'[c].replacement = orders[c].replacement
      /\ orders[c].broker # None => orders'[c].broker = orders[c].broker]_vars

\* A timeout check has flagged every overdue order that it came to, the ones its
\* idempotency keys suppress included, even when it then raised at an order whose
\* reference lies after as_of: a check that raises takes no flag back, and the
\* keys it leaves behind hide no unflagged order from a later check.
BlockedBefore(c, asOf) ==
  \E k, n \in DOMAIN book : k <= n /\ book[n] = c /\ Blocks(book[k], asOf)

OverdueIsFlagged ==
  [][\A asOf \in Instants : CheckTimeouts(asOf) =>
       \A c \in Clients : Overdue(c, asOf) /\ ~BlockedBefore(c, asOf)
                            => orders'[c].recovery]_vars

=============================================================================
