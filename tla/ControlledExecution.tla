--------------------------- MODULE ControlledExecution ---------------------------
(***************************************************************************)
(* The Day 21 controlled paper execution: one session reads the account,   *)
(* evaluates its startup gates, submits at most one entry, polls it,       *)
(* cancels it at the timeout, flattens what was filled, reads the account  *)
(* again and writes one evidence bundle.  Nothing is locked and nothing is *)
(* persisted before the end, so another runner of the same account (a      *)
(* second session, or a Day 22 leg, which trades in the same steps) may    *)
(* act between any two of its calls, and a call that raises ends the       *)
(* session where it stands.                                                *)
(*                                                                         *)
(* The client order ids are those of the signal, so the orders of the      *)
(* broker are indexed by signal and leg.  The gates that depend on nothing *)
(* modelled (authorization, preflight, market hours, signal freshness,     *)
(* notional, Day 20 prerequisite) are a free choice.                       *)
(***************************************************************************)
EXTENDS Integers, FiniteSets, FiniteSetsExt

CONSTANTS
  Runners,      \* processes that trade the account
  Signals,      \* bar starts of the signals a session may act on
  Longs,        \* the signals whose position is +1
  Qty,          \* DAY21_QUANTITY, in the broker's smallest lots
  MaxPolls,     \* MAX_POLLS_PER_PHASE
  Overwrite,    \* the --overwrite flag of the sessions
  MaxSessions   \* bound on the sessions that are started

ASSUME ControlledAssumption ==
  /\ IsFiniteSet(Signals) /\ Signals # {} /\ Longs \subseteq Signals
  /\ Overwrite \in BOOLEAN
  /\ Qty \in Nat \ {0} /\ MaxPolls \in Nat /\ MaxSessions \in Nat

Legs == {"entry", "flatten"}

VARIABLES
  orders,    \* broker: the order of each signal and leg
  session,   \* the local variables of each runner's session
  bundle,    \* the evidence bundle in the artifact directory
  started    \* sessions started so far

vars == <<orders, session, bundle, started>>

-----------------------------------------------------------------------------
(* The broker *)

Order == [state : {"none", "sent", "open", "closing", "done"},
          quantity : 0..Qty, filled : 0..Qty]
NoOrder == [state |-> "none", quantity |-> 0, filled |-> 0]

Known(o) == o.state \in {"open", "closing", "done"}
Working(o) == o.state \in {"open", "closing"}
OpenOrders == {k \in Signals \X Legs : Working(orders[k[1]][k[2]])}

Exposure(s) == orders[s]["entry"].filled - orders[s]["flatten"].filled
Net(s) == IF s \in Longs THEN Exposure(s) ELSE -Exposure(s)
Position == MapThenSumSet(Net, Signals)

Live(s) == \E leg \in Legs : orders[s][leg].state \in {"sent", "open", "closing"}
AtRisk(s) == Live(s) \/ Exposure(s) # 0

-----------------------------------------------------------------------------
(* A session *)

Steps == {"idle", "open", "position", "history", "entry", "entryPoll",
          "cancel", "cancelPoll", "flatten", "flattenPoll", "finalOpen",
          "finalPosition", "write"}

Snapshot == [terminal : BOOLEAN, filled : 0..Qty]
NoSnapshot == [terminal |-> TRUE, filled |-> 0]

Result == [signal : Signals, submitted : BOOLEAN, reconciled : BOOLEAN]
NoResult == [submitted |-> FALSE]

Session == [step : Steps, signal : Signals, clear : BOOLEAN,
            polls : 0..MaxPolls, entry : Snapshot, flatten : Snapshot,
            result : Result \cup {NoResult}]

Beginning(s) == [step |-> "open", signal |-> s, clear |-> TRUE, polls |-> 0,
                 entry |-> NoSnapshot, flatten |-> NoSnapshot,
                 result |-> NoResult]

Idle == [Beginning(CHOOSE s \in Signals : TRUE) EXCEPT !.step = "idle"]

At(r, step) == session[r].step = step
Put(r, j) == session' = [session EXCEPT ![r] = j]
TheOrder(r, leg) == orders[session[r].signal][leg]
PutOrder(r, leg, o) ==
  orders' = [orders EXCEPT ![session[r].signal] = [@ EXCEPT ![leg] = o]]

Seen(o) == [terminal |-> o.state = "done", filled |-> o.filled]

\* _poll_order: is another refresh due?
Awaiting(j, snap) == ~snap.terminal /\ j.polls < MaxPolls

\* After the entry: a flatten is sent only for a confirmed fill.
Settled(j) == [j EXCEPT !.step = IF j.entry.filled > 0 THEN "flatten"
                                 ELSE "finalOpen",
                        !.polls = 0]

AfterEntry(j) ==
  IF Awaiting(j, j.entry) THEN [j EXCEPT !.step = "entryPoll"]
  ELSE IF ~j.entry.terminal THEN [j EXCEPT !.step = "cancel", !.polls = 0]
  ELSE Settled(j)

AfterCancel(j) ==
  IF Awaiting(j, j.entry) THEN [j EXCEPT !.step = "cancelPoll"] ELSE Settled(j)

(* Faulty: the refresh of the flatten does not count its polls. *)
AfterFlattenUncounted(j) ==
  IF ~j.flatten.terminal THEN [j EXCEPT !.step = "flattenPoll", !.polls = 0]
  ELSE [j EXCEPT !.step = "finalOpen"]
AfterFlatten(j) ==
  IF Awaiting(j, j.flatten) THEN [j EXCEPT !.step = "flattenPoll"]
  ELSE [j EXCEPT !.step = "finalOpen"]

-----------------------------------------------------------------------------
(* Startup: three reads of the account, one after the other, then the gates *)

Start(r, s) ==
  /\ At(r, "idle") /\ started < MaxSessions
  /\ started' = started + 1
  /\ Put(r, Beginning(s))
  /\ UNCHANGED <<orders, bundle>>

ReadOpenOrders(r) ==
  /\ At(r, "open")
  /\ Put(r, [session[r] EXCEPT !.step = "position", !.clear = OpenOrders = {}])
  /\ UNCHANGED <<orders, bundle, started>>

ReadPosition(r) ==
  /\ At(r, "position")
  /\ Put(r, [session[r] EXCEPT !.step = "history",
                               !.clear = @ /\ Position = 0])
  /\ UNCHANGED <<orders, bundle, started>>

\* The order history is the last read; the gates follow without another one.
\* A failed gate leaves a result that says nothing was submitted.
EvaluateGates(r) ==
  /\ At(r, "history")
  /\ LET j == session[r]
         new == ~Known(TheOrder(r, "entry"))
     IN \/ /\ j.clear /\ new
           /\ Put(r, [j EXCEPT !.step = "entry"])
        \/ Put(r, [Beginning(j.signal) EXCEPT
                     !.step = "write",
                     !.result = [signal |-> j.signal, submitted |-> FALSE,
                                 reconciled |-> j.clear]])
  /\ UNCHANGED <<orders, bundle, started>>

-----------------------------------------------------------------------------
(* The round trip *)

\* A new client order id is accepted or rejected; a used one raises.
Accepted(q) == [state |-> "open", quantity |-> q, filled |-> 0]
Rejected(q) == [state |-> "done", quantity |-> q, filled |-> 0]

SubmitEntry(r) ==
  /\ At(r, "entry") /\ TheOrder(r, "entry").state = "none"
  /\ \E o \in {Accepted(Qty), Rejected(Qty)} :
       /\ PutOrder(r, "entry", o)
       /\ Put(r, AfterEntry([session[r] EXCEPT !.entry = Seen(o)]))
  /\ UNCHANGED <<bundle, started>>

PollEntry(r) ==
  /\ At(r, "entryPoll")
  /\ Put(r, AfterEntry([session[r] EXCEPT !.polls = @ + 1,
                                          !.entry = Seen(TheOrder(r, "entry"))]))
  /\ UNCHANGED <<orders, bundle, started>>

\* Only an order that is still working can be cancelled; see Refused.
CancelEntry(r) ==
  /\ At(r, "cancel") /\ Working(TheOrder(r, "entry"))
  /\ PutOrder(r, "entry", [TheOrder(r, "entry") EXCEPT !.state = "closing"])
  /\ Put(r, AfterCancel(session[r]))
  /\ UNCHANGED <<bundle, started>>

PollCancelled(r) ==
  /\ At(r, "cancelPoll")
  /\ Put(r, AfterCancel([session[r] EXCEPT !.polls = @ + 1,
                                           !.entry = Seen(TheOrder(r, "entry"))]))
  /\ UNCHANGED <<orders, bundle, started>>

(* Faulty: the flatten takes the entry quantity instead of its fill. *)
FlattenQuantityFull(j) == Qty
FlattenQuantity(j) == j.entry.filled

SubmitFlatten(r) ==
  /\ At(r, "flatten") /\ TheOrder(r, "flatten").state = "none"
  /\ \E o \in {Accepted(FlattenQuantity(session[r])),
               Rejected(FlattenQuantity(session[r]))} :
       /\ PutOrder(r, "flatten", o)
       /\ Put(r, AfterFlatten([session[r] EXCEPT !.flatten = Seen(o)]))
  /\ UNCHANGED <<bundle, started>>

PollFlatten(r) ==
  /\ At(r, "flattenPoll")
  /\ Put(r, AfterFlatten([session[r] EXCEPT !.polls = @ + 1,
                            !.flatten = Seen(TheOrder(r, "flatten"))]))
  /\ UNCHANGED <<orders, bundle, started>>

-----------------------------------------------------------------------------
(* Shutdown *)

ReadFinalOrders(r) ==
  /\ At(r, "finalOpen")
  /\ Put(r, [session[r] EXCEPT !.step = "finalPosition", !.polls = 0,
                               !.clear = OpenOrders = {}])
  /\ UNCHANGED <<orders, bundle, started>>

(* Faulty: success is judged from the fills that were seen. *)
ShutdownFromFills(j, flat) == j.clear /\ j.entry.filled = j.flatten.filled
ShutdownReconciled(j, flat) ==
  flat /\ j.clear /\ j.entry.filled = j.flatten.filled

ReadFinalPosition(r) ==
  /\ At(r, "finalPosition")
  /\ LET j == session[r] IN
       Put(r, [Beginning(j.signal) EXCEPT
                 !.step = "write",
                 !.result = [signal |-> j.signal, submitted |-> TRUE,
                             reconciled |->
                               ShutdownReconciled(j, Position = 0)]])
  /\ UNCHANGED <<orders, bundle, started>>

\* write_day21_artifacts refuses an existing directory unless told otherwise.
WriteEvidence(r) ==
  /\ At(r, "write")
  /\ bundle = NoResult \/ Overwrite
  /\ bundle' = session[r].result
  /\ Put(r, Idle)
  /\ UNCHANGED <<orders, started>>

\* The calls that the account or the disk refuses: a client order id that is
\* used, an order that works no longer, a directory that exists.
Refused(r) ==
  \/ At(r, "entry") /\ TheOrder(r, "entry").state # "none"
  \/ At(r, "cancel") /\ ~Working(TheOrder(r, "entry"))
  \/ At(r, "flatten") /\ TheOrder(r, "flatten").state # "none"
  \/ At(r, "write") /\ bundle # NoResult /\ ~Overwrite

\* No handler catches what a call raises: the session ends without a bundle.
Raise(r) ==
  /\ Refused(r)
  /\ Put(r, Idle)
  /\ UNCHANGED <<orders, bundle, started>>

\* Any call may raise for a reason of its own (a timeout, an HTTP error, a
\* payload that is refused), and the process may die.  A submission that
\* raises may nevertheless have left the process.
Fail(r) ==
  /\ ~At(r, "idle")
  /\ Put(r, Idle)
  /\ \/ UNCHANGED orders
     \/ /\ At(r, "entry") /\ TheOrder(r, "entry").state = "none"
        /\ PutOrder(r, "entry", [Accepted(Qty) EXCEPT !.state = "sent"])
     \/ /\ At(r, "flatten") /\ TheOrder(r, "flatten").state = "none"
        /\ PutOrder(r, "flatten",
             [Accepted(FlattenQuantity(session[r])) EXCEPT !.state = "sent"])
  /\ UNCHANGED <<bundle, started>>

-----------------------------------------------------------------------------
(* The broker's own steps *)

SetOrder(s, leg, o) == orders' = [orders EXCEPT ![s] = [@ EXCEPT ![leg] = o]]

Arrive(s, leg) ==
  /\ orders[s][leg].state = "sent"
  /\ SetOrder(s, leg, [orders[s][leg] EXCEPT !.state = "open"])
  /\ UNCHANGED <<session, bundle, started>>

Fill(s, leg) ==
  LET o == orders[s][leg] IN
  /\ Working(o) /\ o.filled < o.quantity
  /\ SetOrder(s, leg, [o EXCEPT !.filled = @ + 1,
                                !.state = IF o.filled + 1 = o.quantity
                                          THEN "done" ELSE @])
  /\ UNCHANGED <<session, bundle, started>>

\* Canceled, expired or rejected after all.
Close(s, leg) ==
  /\ Working(orders[s][leg])
  /\ SetOrder(s, leg, [orders[s][leg] EXCEPT !.state = "done"])
  /\ UNCHANGED <<session, bundle, started>>

-----------------------------------------------------------------------------
Init ==
  /\ orders = [s \in Signals |-> [leg \in Legs |-> NoOrder]]
  /\ session = [r \in Runners |-> Idle]
  /\ bundle = NoResult
  /\ started = 0

RunnerStep(r) ==
  \/ ReadOpenOrders(r) \/ ReadPosition(r) \/ EvaluateGates(r)
  \/ SubmitEntry(r) \/ PollEntry(r) \/ CancelEntry(r) \/ PollCancelled(r)
  \/ SubmitFlatten(r) \/ PollFlatten(r)
  \/ ReadFinalOrders(r) \/ ReadFinalPosition(r) \/ WriteEvidence(r)
  \/ Raise(r)

BrokerStep ==
  \E s \in Signals, leg \in Legs :
    Arrive(s, leg) \/ Fill(s, leg) \/ Close(s, leg)

Next ==
  \/ \E r \in Runners :
       RunnerStep(r) \/ Fail(r) \/ \E s \in Signals : Start(r, s)
  \/ BrokerStep

\* A session that runs takes its next step, since every call returns or raises.
\* Nothing obliges it to fail, and the broker owes nothing.
Spec == Init /\ [][Next]_vars /\ \A r \in Runners : WF_vars(RunnerStep(r))

-----------------------------------------------------------------------------
(* Properties *)

\* Every variable keeps to the values the code can give it.
TypeOK ==
  /\ orders \in [Signals -> [Legs -> Order]]
  /\ session \in [Runners -> Session]
  /\ bundle \in Result \cup {NoResult}
  /\ started \in Nat

\* A session never sells more than its own entry bought, whatever it read and
\* whenever it failed: neither an order still being cancelled nor a fill that
\* arrives after the last refresh lets the flatten reverse the position
\* (docs: "flattens only the confirmed filled quantity").
FlattenWithinFill ==
  \A s \in Signals :
    /\ orders[s]["flatten"].quantity <= orders[s]["entry"].filled
    /\ orders[s]["flatten"].filled <= orders[s]["flatten"].quantity

\* The report of a session is true of the account: when it concludes that the
\* round trip reconciled, no order of its own is still working, although
\* nothing cancels a flatten that timed out; and if no other session is at
\* risk at that moment, its own fills balance.  The last refresh of an order
\* may be stale by then, the fills since then included.
ReconciledIsTrue ==
  [][\A r \in Runners :
       LET own == session[r].signal IN
       (/\ At(r, "finalPosition") /\ session'[r].step = "write"
        /\ session'[r].result.reconciled)
       => /\ ~Live(own)
          /\ (\A s \in Signals \ {own} : ~AtRisk(s)) => ~AtRisk(own)]_vars

\* Every session ends: no broker can keep one polling.
SessionEnds ==
  \A r \in Runners : ~At(r, "idle") ~> At(r, "idle")

\* What the Day 21 specification says of the evidence: "Any residual exposure
\* or uncertainty is recorded as manual_recovery_required".
ResidualIsRecorded ==
  \A s \in Signals :
    (AtRisk(s) /\ \A r \in Runners : At(r, "idle"))
    => (bundle # NoResult /\ bundle.signal = s
        /\ bundle.submitted /\ ~bundle.reconciled)

=============================================================================
