-------------------------- MODULE ControlledProofs --------------------------
(***************************************************************************)
(* Proofs about ControlledExecution for every set of runners and signals,  *)
(* every quantity and every number of polls and sessions, and about the    *)
(* boundary its sessions pass first, for every market.                     *)
(***************************************************************************)
EXTENDS ControlledExecution, PaperBoundary, Folds, FiniteSetTheorems,
        SequenceTheorems, WellFoundedInduction, TLAPS

\* A session that polls has a poll left: without this the count of polls does
\* not keep its type.
PollsLeft ==
  \A r \in Runners :
    session[r].step \in {"entryPoll", "cancelPoll", "flattenPoll"} =>
      session[r].polls < MaxPolls

\* What a session has seen of its entry is not more than the broker filled, and
\* an order that was never sent has no fill.
SeenIsFilled ==
  /\ \A r \in Runners :
       session[r].entry.filled <= orders[session[r].signal]["entry"].filled
  /\ \A s \in Signals, leg \in Legs :
       orders[s][leg].state = "none" => orders[s][leg].filled = 0

\* The steps of a session whose entry has been answered.
AfterTheEntry == {"entryPoll", "cancel", "cancelPoll", "flatten", "flattenPoll",
                  "finalOpen", "finalPosition"}
Owns(r) == session[r].step \in AfterTheEntry

\* One session at most has had the entry of a signal answered; while it runs
\* neither leg is on its way, and what it read as done at the end stays so.
OneOwner ==
  /\ \A r \in Runners : Owns(r) =>
       /\ Known(orders[session[r].signal]["entry"])
       /\ orders[session[r].signal]["flatten"].state # "sent"
       /\ \A q \in Runners :
            Owns(q) /\ session[q].signal = session[r].signal => q = r
       /\ session[r].step = "finalPosition" /\ session[r].clear =>
            ~Live(session[r].signal)
  /\ \A s \in Signals :
       orders[s]["entry"].state = "none" => orders[s]["flatten"].state = "none"

-----------------------------------------------------------------------------
(* The local variables of a session *)

LEMMA SeenSnapshot ==
  ASSUME NEW o \in Order
  PROVE  Seen(o) \in Snapshot /\ Seen(o).filled = o.filled
BY DEF Seen, Snapshot, Order

LEMMA BeginningSession ==
  ASSUME NEW s \in Signals
  PROVE  /\ Beginning(s) \in Session /\ Beginning(s).step = "open"
         /\ Beginning(s).signal = s /\ Beginning(s).entry.filled = 0
<1>1. NoSnapshot \in Snapshot /\ NoSnapshot.filled = 0
  BY ControlledAssumption DEF NoSnapshot, Snapshot
<1>2. QED
  BY <1>1, ControlledAssumption DEF Beginning, Session, Steps

LEMMA IdleSession == Idle \in Session /\ Idle.step = "idle" /\ Idle.entry.filled = 0
<1> DEFINE some == CHOOSE s \in Signals : TRUE
<1>1. some \in Signals
  BY ControlledAssumption
<1> HIDE DEF some
<1>2. Beginning(some) \in Session /\ Beginning(some).entry.filled = 0
  BY <1>1, BeginningSession
<1>3. Idle = [Beginning(some) EXCEPT !.step = "idle"]
  BY DEF Idle, some
<1> DEFINE j == Beginning(some)
<1> HIDE DEF j
<1>4. j \in Session /\ j.entry.filled = 0 /\ Idle = [j EXCEPT !.step = "idle"]
  BY <1>2, <1>3 DEF j
<1>5. QED
  BY <1>4 DEF Session, Steps

\* A phase of polling keeps the signal and the snapshots, and asks again only
\* while it has a poll left.
LEMMA AfterTheAnswer ==
  ASSUME NEW j \in Session
  PROVE  /\ AfterEntry(j) \in Session /\ AfterCancel(j) \in Session
         /\ AfterFlatten(j) \in Session
         /\ \A k \in {AfterEntry(j), AfterCancel(j), AfterFlatten(j)} :
              /\ k.signal = j.signal /\ k.entry = j.entry
              /\ k.step \in AfterTheEntry \ {"finalPosition"}
              /\ k.step \in {"entryPoll", "cancelPoll", "flattenPoll"} =>
                   k.polls < MaxPolls
<1>1. /\ MaxPolls \in Nat /\ j.polls \in 0..MaxPolls
      /\ 0 \in 0..MaxPolls
  BY ControlledAssumption DEF Session
<1>2. ASSUME NEW step \in AfterTheEntry, NEW polls \in 0..MaxPolls
      PROVE  /\ [j EXCEPT !.step = step, !.polls = polls] \in Session
             /\ [j EXCEPT !.step = step] \in Session
  BY DEF Session, AfterTheEntry, Steps
<1>3. /\ Settled(j) \in Session /\ Settled(j).signal = j.signal
      /\ Settled(j).entry = j.entry /\ Settled(j).step \in {"flatten", "finalOpen"}
  BY <1>1, <1>2 DEF Settled, AfterTheEntry, Session
<1>4. /\ AfterEntry(j) \in Session /\ AfterEntry(j).signal = j.signal
      /\ AfterEntry(j).entry = j.entry
      /\ AfterEntry(j).step \in {"entryPoll", "cancel", "flatten", "finalOpen"}
      /\ AfterEntry(j).step = "entryPoll" => AfterEntry(j).polls < MaxPolls
  BY <1>1, <1>2, <1>3 DEF AfterEntry, Awaiting, AfterTheEntry, Session
<1>5. /\ AfterCancel(j) \in Session /\ AfterCancel(j).signal = j.signal
      /\ AfterCancel(j).entry = j.entry
      /\ AfterCancel(j).step \in {"cancelPoll", "flatten", "finalOpen"}
      /\ AfterCancel(j).step = "cancelPoll" => AfterCancel(j).polls < MaxPolls
  BY <1>1, <1>2, <1>3 DEF AfterCancel, Awaiting, AfterTheEntry, Session
<1>6. /\ AfterFlatten(j) \in Session /\ AfterFlatten(j).signal = j.signal
      /\ AfterFlatten(j).entry = j.entry
      /\ AfterFlatten(j).step \in {"flattenPoll", "finalOpen"}
      /\ AfterFlatten(j).step = "flattenPoll" => AfterFlatten(j).polls < MaxPolls
  BY <1>1, <1>2 DEF AfterFlatten, Awaiting, AfterTheEntry, Session
<1>7. QED
  BY <1>4, <1>5, <1>6 DEF AfterTheEntry

-----------------------------------------------------------------------------
(* Fills *)

FillInv == TypeOK /\ PollsLeft /\ SeenIsFilled /\ FlattenWithinFill

\* A step of one order: its fill does not shrink, and a flatten asks for no
\* more than the entry has.
LEMMA OrderMoves ==
  ASSUME FillInv, NEW s \in Signals, NEW leg \in Legs, NEW o \in Order,
         SetOrder(s, leg, o), o.filled >= orders[s][leg].filled,
         o.state = "none" => o.filled = 0,
         leg = "flatten" => o.quantity <= orders[s]["entry"].filled /\ o.filled <= o.quantity
  PROVE  /\ orders' \in [Signals -> [Legs -> Order]] /\ FlattenWithinFill'
         /\ \A t \in Signals : orders'[t]["entry"].filled >= orders[t]["entry"].filled
         /\ \A t \in Signals, l \in Legs :
              orders'[t][l].state = "none" => orders'[t][l].filled = 0
<1>1. /\ orders \in [Signals -> [Legs -> Order]]
      /\ orders' = [orders EXCEPT ![s] = [orders[s] EXCEPT ![leg] = o]]
  BY DEF FillInv, TypeOK, SetOrder
<1>2. orders' \in [Signals -> [Legs -> Order]]
  BY <1>1
<1>3. /\ orders'[s][leg] = o
      /\ \A l \in Legs : l # leg => orders'[s][l] = orders[s][l]
      /\ \A t \in Signals : t # s => orders'[t] = orders[t]
  BY <1>1
<1>4. \A t \in Signals, l \in Legs : orders[t][l] \in Order /\ orders[t][l].filled \in Nat
                                     /\ orders[t][l].quantity \in Nat
  BY <1>1, ControlledAssumption DEF Order
<1>5. "entry" \in Legs /\ "flatten" \in Legs /\ \A l \in Legs : l \in {"entry", "flatten"}
  BY DEF Legs
<1>6. ASSUME NEW t \in Signals
      PROVE  /\ orders'[t]["entry"].filled >= orders[t]["entry"].filled
             /\ orders'[t]["flatten"].quantity <= orders'[t]["entry"].filled
             /\ orders'[t]["flatten"].filled <= orders'[t]["flatten"].quantity
  <2>1. /\ orders[t]["flatten"].quantity <= orders[t]["entry"].filled
        /\ orders[t]["flatten"].filled <= orders[t]["flatten"].quantity
    BY DEF FillInv, FlattenWithinFill
  <2>2. CASE t # s
    BY <1>3, <1>4, <1>5, <2>1, <2>2
  <2>3. CASE t = s /\ leg = "entry"
    <3>1. orders'[t]["entry"] = o /\ orders'[t]["flatten"] = orders[t]["flatten"]
      BY <1>3, <1>5, <2>3
    <3>2. o.filled \in Nat
      BY ControlledAssumption DEF Order
    <3>3. QED
      BY <1>4, <1>5, <2>1, <2>3, <3>1, <3>2
  <2>4. CASE t = s /\ leg = "flatten"
    <3>1. orders'[t]["flatten"] = o /\ orders'[t]["entry"] = orders[t]["entry"]
      BY <1>3, <1>5, <2>4
    <3>2. QED
      BY <1>4, <1>5, <2>4, <3>1
  <2>5. QED
    BY <1>5, <2>2, <2>3, <2>4
<1>7. ASSUME NEW t \in Signals, NEW l \in Legs, orders'[t][l].state = "none"
      PROVE  orders'[t][l].filled = 0
  BY <1>3, <1>7 DEF FillInv, SeenIsFilled
<1>8. QED
  BY <1>2, <1>6, <1>7 DEF FlattenWithinFill

\* A step of one session over orders that only grow.
LEMMA SessionMoves ==
  ASSUME FillInv, NEW r \in Runners, NEW j \in Session, Put(r, j),
         orders' \in [Signals -> [Legs -> Order]], FlattenWithinFill',
         \A t \in Signals : orders'[t]["entry"].filled >= orders[t]["entry"].filled,
         \A t \in Signals, l \in Legs :
           orders'[t][l].state = "none" => orders'[t][l].filled = 0,
         j.entry.filled <= orders'[j.signal]["entry"].filled,
         j.step \in {"entryPoll", "cancelPoll", "flattenPoll"} => j.polls < MaxPolls,
         bundle' \in Result \cup {NoResult}, started' \in Nat
  PROVE  FillInv'
<1>1. /\ session \in [Runners -> Session] /\ session' \in [Runners -> Session]
      /\ session'[r] = j /\ \A q \in Runners : q # r => session'[q] = session[q]
  BY DEF FillInv, TypeOK, Put
<1>2. TypeOK'
  BY <1>1 DEF TypeOK
<1>3. PollsLeft'
  BY <1>1 DEF FillInv, PollsLeft
<1>4. ASSUME NEW q \in Runners
      PROVE  session'[q].entry.filled <= orders'[session'[q].signal]["entry"].filled
  <2>1. CASE q = r
    BY <1>1, <2>1
  <2>2. CASE q # r
    <3> DEFINE t == session[q].signal
    <3>1. session'[q] = session[q] /\ t \in Signals /\ session[q].entry.filled \in Nat
      BY <1>1, <2>2, ControlledAssumption DEF Session, Snapshot
    <3>2. session[q].entry.filled <= orders[t]["entry"].filled
      BY DEF FillInv, SeenIsFilled
    <3>3. orders[t]["entry"].filled \in Nat /\ orders'[t]["entry"].filled \in Nat
      BY <3>1, ControlledAssumption DEF FillInv, TypeOK, Order, Legs
    <3>4. orders'[t]["entry"].filled >= orders[t]["entry"].filled
      BY <3>1
    <3> HIDE DEF t
    <3>5. session[q].entry.filled <= orders'[t]["entry"].filled
      BY <3>1, <3>2, <3>3, <3>4
    <3>6. QED
      BY <3>1, <3>5 DEF t
  <2>3. QED
    BY <2>1, <2>2
<1>5. SeenIsFilled'
  BY <1>4 DEF SeenIsFilled
<1>6. QED
  BY <1>2, <1>3, <1>5 DEF FillInv

\* The case of a step that touches no order.
LEMMA SessionReads ==
  ASSUME FillInv, NEW r \in Runners, NEW j \in Session, Put(r, j), UNCHANGED orders,
         j.entry.filled <= orders[j.signal]["entry"].filled,
         j.step \in {"entryPoll", "cancelPoll", "flattenPoll"} => j.polls < MaxPolls,
         bundle' \in Result \cup {NoResult}, started' \in Nat
  PROVE  FillInv'
<1>1. \A t \in Signals : orders[t]["entry"].filled \in Nat
  BY ControlledAssumption DEF FillInv, TypeOK, Order, Legs
<1>2. /\ orders' \in [Signals -> [Legs -> Order]] /\ FlattenWithinFill'
      /\ \A t \in Signals : orders'[t]["entry"].filled >= orders[t]["entry"].filled
      /\ \A t \in Signals, l \in Legs :
           orders'[t][l].state = "none" => orders'[t][l].filled = 0
  BY <1>1 DEF FillInv, TypeOK, FlattenWithinFill, SeenIsFilled
<1>3. j.entry.filled <= orders'[j.signal]["entry"].filled
  OBVIOUS
<1>4. QED
  BY <1>2, <1>3, SessionMoves

\* What every step of a session may assume of its own variables.
LEMMA OwnVariables ==
  ASSUME FillInv, NEW r \in Runners
  PROVE  /\ session[r] \in Session /\ session[r].signal \in Signals
         /\ session[r].entry.filled \in 0..Qty
         /\ session[r].polls \in 0..MaxPolls /\ session[r].polls + 1 \in Nat
         /\ session[r].entry.filled <= orders[session[r].signal]["entry"].filled
         /\ \A leg \in Legs :
              /\ TheOrder(r, leg) \in Order /\ TheOrder(r, leg).filled \in 0..Qty
              /\ TheOrder(r, leg).quantity \in 0..Qty
              /\ TheOrder(r, leg).state = "none" => TheOrder(r, leg).filled = 0
         /\ bundle \in Result \cup {NoResult} /\ started \in Nat
         /\ MaxPolls \in Nat /\ Qty \in Nat
<1>1. session[r] \in Session /\ session[r].signal \in Signals
  BY DEF FillInv, TypeOK, Session
<1>2. \A leg \in Legs : TheOrder(r, leg) \in Order /\ TheOrder(r, leg).filled \in 0..Qty
                        /\ TheOrder(r, leg).quantity \in 0..Qty
  BY <1>1 DEF FillInv, TypeOK, TheOrder, Order
<1>3. \A leg \in Legs :
        TheOrder(r, leg).state = "none" => TheOrder(r, leg).filled = 0
  BY <1>1 DEF FillInv, SeenIsFilled, TheOrder
<1>4. session[r].entry.filled \in 0..Qty /\ session[r].polls \in 0..MaxPolls
  BY <1>1 DEF Session, Snapshot
<1>5. session[r].entry.filled <= orders[session[r].signal]["entry"].filled
  BY DEF FillInv, SeenIsFilled
<1>6. bundle \in Result \cup {NoResult} /\ started \in Nat
  BY DEF FillInv, TypeOK
<1>7. QED
  BY <1>1, <1>2, <1>3, <1>4, <1>5, <1>6, ControlledAssumption

LEMMA StartupKeeps ==
  ASSUME FillInv, NEW r \in Runners,
         \/ \E s \in Signals : Start(r, s)
         \/ ReadOpenOrders(r) \/ ReadPosition(r) \/ EvaluateGates(r)
  PROVE  FillInv'
<1> DEFINE own == session[r]
<1>1. /\ own \in Session /\ own.signal \in Signals
      /\ own.entry.filled <= orders[own.signal]["entry"].filled
      /\ bundle \in Result \cup {NoResult} /\ started \in Nat
      /\ \A t \in Signals : 0 <= orders[t]["entry"].filled
  <2>1. \A t \in Signals : orders[t]["entry"].filled \in Nat
    BY ControlledAssumption DEF FillInv, TypeOK, Order, Legs
  <2>2. QED
    BY <2>1, OwnVariables
<1>2. ASSUME NEW s \in Signals, Start(r, s)
      PROVE  FillInv'
  <2>1. Beginning(s) \in Session /\ Beginning(s).step = "open"
        /\ Beginning(s).signal = s /\ Beginning(s).entry.filled = 0
    BY BeginningSession
  <2>2. started' \in Nat /\ bundle' \in Result \cup {NoResult} /\ UNCHANGED orders
        /\ Put(r, Beginning(s))
    BY <1>1, <1>2 DEF Start
  <2>3. QED
    BY <1>1, <2>1, <2>2, SessionReads
<1>3. CASE ReadOpenOrders(r)
  <2> DEFINE j == [own EXCEPT !.step = "position", !.clear = OpenOrders = {}]
  <2>1. j \in Session /\ j.signal = own.signal /\ j.entry = own.entry /\ j.step = "position"
    BY <1>1 DEF Session, Steps
  <2>2. Put(r, j) /\ UNCHANGED <<orders, bundle, started>>
    BY <1>3 DEF ReadOpenOrders
  <2> HIDE DEF j
  <2>3. QED
    BY <1>1, <2>1, <2>2, SessionReads
<1>4. CASE ReadPosition(r)
  <2> DEFINE j == [own EXCEPT !.step = "history", !.clear = @ /\ Position = 0]
  <2>1. j \in Session /\ j.signal = own.signal /\ j.entry = own.entry /\ j.step = "history"
    BY <1>1 DEF Session, Steps
  <2>2. Put(r, j) /\ UNCHANGED <<orders, bundle, started>>
    BY <1>4 DEF ReadPosition
  <2> HIDE DEF j
  <2>3. QED
    BY <1>1, <2>1, <2>2, SessionReads
<1>5. CASE EvaluateGates(r)
  <2>1. UNCHANGED <<orders, bundle, started>>
    BY <1>5 DEF EvaluateGates
  <2>2. CASE Put(r, [own EXCEPT !.step = "entry"])
    <3> DEFINE j == [own EXCEPT !.step = "entry"]
    <3>1. j \in Session /\ j.signal = own.signal /\ j.entry = own.entry /\ j.step = "entry"
      BY <1>1 DEF Session, Steps
    <3>2. Put(r, j)
      BY <2>2
    <3> HIDE DEF j
    <3>3. QED
      BY <1>1, <2>1, <3>1, <3>2, SessionReads
  <2>3. CASE Put(r, [Beginning(own.signal) EXCEPT !.step = "write",
                       !.result = [signal |-> own.signal, submitted |-> FALSE,
                                   reconciled |-> own.clear]])
    <3> DEFINE b == Beginning(own.signal)
               report == [signal |-> own.signal, submitted |-> FALSE,
                          reconciled |-> own.clear]
               j == [b EXCEPT !.step = "write", !.result = report]
    <3>1. b \in Session /\ b.signal = own.signal /\ b.entry.filled = 0
      BY <1>1, BeginningSession
    <3>2. report \in Result
      BY <1>1 DEF Session, Result
    <3>3. Put(r, j)
      BY <2>3
    <3> HIDE DEF b, report
    <3>4. j \in Session /\ j.signal = own.signal /\ j.entry.filled = 0 /\ j.step = "write"
      BY <3>1, <3>2 DEF Session, Steps
    <3> HIDE DEF j
    <3>5. QED
      BY <1>1, <2>1, <3>3, <3>4, SessionReads
  <2>4. QED
    BY <1>5, <2>2, <2>3 DEF EvaluateGates
<1>6. QED
  BY <1>2, <1>3, <1>4, <1>5

\* An order that is sent for the first time.
LEMMA NewOrder ==
  ASSUME NEW q \in 0..Qty
  PROVE  /\ \A o \in {Accepted(q), Rejected(q)} :
              /\ o \in Order /\ o.state \in {"open", "done"}
              /\ o.filled = 0 /\ o.quantity = q
         /\ LET o == [Accepted(q) EXCEPT !.state = "sent"]
            IN  o \in Order /\ o.state = "sent" /\ o.filled = 0 /\ o.quantity = q
BY ControlledAssumption DEF Accepted, Rejected, Order

LEMMA EntryKeeps ==
  ASSUME FillInv, NEW r \in Runners,
         SubmitEntry(r) \/ PollEntry(r) \/ CancelEntry(r) \/ PollCancelled(r)
  PROVE  FillInv'
<1> DEFINE own == session[r]
           s == own.signal
           o == TheOrder(r, "entry")
<1>1. /\ own \in Session /\ s \in Signals /\ own.entry.filled <= orders[s]["entry"].filled
      /\ bundle \in Result \cup {NoResult} /\ started \in Nat
      /\ o = orders[s]["entry"] /\ o \in Order /\ o.filled \in 0..Qty
      /\ o.state = "none" => o.filled = 0
      /\ own.polls \in 0..MaxPolls /\ MaxPolls \in Nat /\ Qty \in Nat /\ "entry" \in Legs
      /\ own.entry.filled \in 0..Qty
  BY OwnVariables DEF TheOrder, Legs
<1>2. ASSUME NEW snap \in Snapshot
      PROVE  /\ \A polls \in 0..MaxPolls :
                  LET k == [own EXCEPT !.polls = polls, !.entry = snap]
                  IN  k \in Session /\ k.signal = s /\ k.entry = snap
             /\ LET k == [own EXCEPT !.entry = snap]
                IN  k \in Session /\ k.signal = s /\ k.entry = snap
  BY <1>1 DEF Session
<1>3. CASE SubmitEntry(r)
  <2>1. PICK new \in {Accepted(Qty), Rejected(Qty)} :
          /\ PutOrder(r, "entry", new)
          /\ Put(r, AfterEntry([own EXCEPT !.entry = Seen(new)]))
    BY <1>3 DEF SubmitEntry
  <2>2. new \in Order /\ new.state # "none" /\ new.filled = 0
    <3>1. Qty \in 0..Qty
      BY <1>1
    <3>2. \A p \in {Accepted(Qty), Rejected(Qty)} :
            /\ p \in Order /\ p.state \in {"open", "done"}
            /\ p.filled = 0 /\ p.quantity = Qty
      BY <3>1, NewOrder
    <3>3. QED
      BY <3>2
  <2>3. Seen(new) \in Snapshot /\ Seen(new).filled = 0
    BY <2>2, SeenSnapshot
  <2> DEFINE k == [own EXCEPT !.entry = Seen(new)]
             j == AfterEntry(k)
  <2>4. k \in Session /\ k.signal = s /\ k.entry.filled = 0
    BY <1>2, <2>3
  <2> HIDE DEF k
  <2>5. /\ j \in Session /\ j.signal = s /\ j.entry.filled = 0
        /\ j.step \in {"entryPoll", "cancelPoll", "flattenPoll"} => j.polls < MaxPolls
    BY <2>4, AfterTheAnswer
  <2>6. Put(r, j) /\ SetOrder(s, "entry", new) /\ o.state = "none"
    BY <1>3, <2>1 DEF SubmitEntry, PutOrder, SetOrder, k
  <2>7. new.filled >= orders[s]["entry"].filled
    BY <1>1, <2>2, <2>6
  <2>8. /\ orders' \in [Signals -> [Legs -> Order]] /\ FlattenWithinFill'
        /\ \A t \in Signals : orders'[t]["entry"].filled >= orders[t]["entry"].filled
        /\ \A t \in Signals, l \in Legs :
             orders'[t][l].state = "none" => orders'[t][l].filled = 0
    BY <1>1, <2>2, <2>6, <2>7, OrderMoves
  <2>9. j.entry.filled <= orders'[j.signal]["entry"].filled
    BY <1>1, <2>5, <2>8 DEF Order
  <2>10. bundle' \in Result \cup {NoResult} /\ started' \in Nat
    BY <1>1, <1>3 DEF SubmitEntry
  <2> HIDE DEF j
  <2>11. QED
    BY <2>5, <2>6, <2>8, <2>9, <2>10, SessionMoves
<1>4. ASSUME NEW j, PollEntry(r) \/ PollCancelled(r),
             LET k == [own EXCEPT !.polls = @ + 1, !.entry = Seen(o)]
             IN  j \in {AfterEntry(k), AfterCancel(k)},
             Put(r, j)
      PROVE  FillInv'
  <2> DEFINE k == [own EXCEPT !.polls = own.polls + 1, !.entry = Seen(o)]
  <2>1. own.polls + 1 \in 0..MaxPolls
    BY <1>1, <1>4 DEF FillInv, PollsLeft, PollEntry, PollCancelled, At
  <2>2. Seen(o) \in Snapshot /\ Seen(o).filled = o.filled
    BY <1>1, SeenSnapshot
  <2>3. k \in Session /\ k.signal = s /\ k.entry.filled = o.filled
    BY <1>2, <2>1, <2>2
  <2>4. j \in {AfterEntry(k), AfterCancel(k)}
    BY <1>4
  <2> HIDE DEF k
  <2>5. /\ j \in Session /\ j.signal = s /\ j.entry.filled = o.filled
        /\ j.step \in {"entryPoll", "cancelPoll", "flattenPoll"} => j.polls < MaxPolls
    BY <2>3, <2>4, AfterTheAnswer
  <2>6. UNCHANGED <<orders, bundle, started>>
    BY <1>4 DEF PollEntry, PollCancelled
  <2>7. QED
    BY <1>1, <1>4, <2>5, <2>6, SessionReads
<1>5. CASE PollEntry(r)
  BY <1>4, <1>5 DEF PollEntry
<1>6. CASE PollCancelled(r)
  BY <1>4, <1>6 DEF PollCancelled
<1>7. CASE CancelEntry(r)
  <2> DEFINE new == [o EXCEPT !.state = "closing"]
             j == AfterCancel(own)
  <2>1. /\ new \in Order /\ new.state = "closing" /\ new.filled = o.filled
        /\ new.filled >= orders[s]["entry"].filled
    BY <1>1 DEF Order
  <2>2. Put(r, j) /\ SetOrder(s, "entry", new)
    BY <1>7 DEF CancelEntry, PutOrder, SetOrder
  <2>3. /\ j \in Session /\ j.signal = s /\ j.entry = own.entry
        /\ j.step \in {"entryPoll", "cancelPoll", "flattenPoll"} => j.polls < MaxPolls
    BY <1>1, AfterTheAnswer
  <2> HIDE DEF new, j
  <2>4. /\ orders' \in [Signals -> [Legs -> Order]] /\ FlattenWithinFill'
        /\ \A t \in Signals : orders'[t]["entry"].filled >= orders[t]["entry"].filled
        /\ \A t \in Signals, l \in Legs :
             orders'[t][l].state = "none" => orders'[t][l].filled = 0
    BY <1>1, <2>1, <2>2, OrderMoves
  <2>5. j.entry.filled <= orders'[j.signal]["entry"].filled
    <3>1. /\ orders'[s]["entry"].filled >= orders[s]["entry"].filled
          /\ orders'[s]["entry"].filled \in Nat
      BY <1>1, <2>4 DEF Order
    <3>2. QED
      BY <1>1, <2>3, <3>1
  <2>6. bundle' \in Result \cup {NoResult} /\ started' \in Nat
    BY <1>1, <1>7 DEF CancelEntry
  <2>7. QED
    BY <2>2, <2>3, <2>4, <2>5, <2>6, SessionMoves
<1>8. QED
  BY <1>3, <1>5, <1>6, <1>7

LEMMA FlattenKeeps ==
  ASSUME FillInv, NEW r \in Runners,
         \/ SubmitFlatten(r) \/ PollFlatten(r)
         \/ ReadFinalOrders(r) \/ ReadFinalPosition(r)
  PROVE  FillInv'
<1> DEFINE own == session[r]
           s == own.signal
           o == TheOrder(r, "flatten")
<1>1. /\ own \in Session /\ s \in Signals /\ own.entry.filled <= orders[s]["entry"].filled
      /\ bundle \in Result \cup {NoResult} /\ started \in Nat
      /\ o = orders[s]["flatten"] /\ o \in Order /\ o.filled \in 0..Qty
      /\ o.state = "none" => o.filled = 0
      /\ own.polls \in 0..MaxPolls /\ MaxPolls \in Nat /\ Qty \in Nat /\ "flatten" \in Legs
      /\ own.entry.filled \in 0..Qty /\ 0 \in 0..MaxPolls
      /\ 0 <= orders[s]["entry"].filled
  <2>1. orders[s]["entry"].filled \in 0..Qty
    BY OwnVariables DEF TheOrder, Legs
  <2>2. QED
    BY <2>1, OwnVariables DEF TheOrder, Legs
<1>2. ASSUME NEW snap \in Snapshot
      PROVE  /\ \A polls \in 0..MaxPolls :
                  LET k == [own EXCEPT !.polls = polls, !.flatten = snap]
                  IN  k \in Session /\ k.signal = s /\ k.entry = own.entry
             /\ LET k == [own EXCEPT !.flatten = snap]
                IN  k \in Session /\ k.signal = s /\ k.entry = own.entry
  BY <1>1 DEF Session
<1>3. CASE SubmitFlatten(r)
  <2>1. PICK new \in {Accepted(own.entry.filled), Rejected(own.entry.filled)} :
          /\ PutOrder(r, "flatten", new)
          /\ Put(r, AfterFlatten([own EXCEPT !.flatten = Seen(new)]))
    BY <1>3 DEF SubmitFlatten, FlattenQuantity
  <2>2. /\ new \in Order /\ new.state # "none" /\ new.filled = 0
        /\ new.quantity = own.entry.filled
    <3>1. own.entry.filled \in 0..Qty
      BY <1>1
    <3>2. \A p \in {Accepted(own.entry.filled), Rejected(own.entry.filled)} :
            /\ p \in Order /\ p.state \in {"open", "done"}
            /\ p.filled = 0 /\ p.quantity = own.entry.filled
      BY <3>1, NewOrder
    <3>3. QED
      BY <3>2
  <2>3. Seen(new) \in Snapshot
    BY <2>2, SeenSnapshot
  <2> DEFINE k == [own EXCEPT !.flatten = Seen(new)]
             j == AfterFlatten(k)
  <2>4. k \in Session /\ k.signal = s /\ k.entry = own.entry
    BY <1>2, <2>3
  <2> HIDE DEF k
  <2>5. /\ j \in Session /\ j.signal = s /\ j.entry = own.entry
        /\ j.step \in {"entryPoll", "cancelPoll", "flattenPoll"} => j.polls < MaxPolls
    BY <2>4, AfterTheAnswer
  <2>6. Put(r, j) /\ SetOrder(s, "flatten", new) /\ o.state = "none"
    BY <1>3, <2>1 DEF SubmitFlatten, PutOrder, SetOrder, k
  <2>7. /\ new.filled >= orders[s]["flatten"].filled
        /\ new.quantity <= orders[s]["entry"].filled /\ new.filled <= new.quantity
    BY <1>1, <2>2, <2>6
  <2>8. /\ orders' \in [Signals -> [Legs -> Order]] /\ FlattenWithinFill'
        /\ \A t \in Signals : orders'[t]["entry"].filled >= orders[t]["entry"].filled
        /\ \A t \in Signals, l \in Legs :
             orders'[t][l].state = "none" => orders'[t][l].filled = 0
    BY <1>1, <2>2, <2>6, <2>7, OrderMoves
  <2>9. orders'[s]["entry"] = orders[s]["entry"]
    BY <1>1, <2>6 DEF FillInv, TypeOK, SetOrder, Legs
  <2>10. j.entry.filled <= orders'[j.signal]["entry"].filled
    BY <1>1, <2>5, <2>9
  <2>11. bundle' \in Result \cup {NoResult} /\ started' \in Nat
    BY <1>1, <1>3 DEF SubmitFlatten
  <2> HIDE DEF j
  <2>12. QED
    BY <2>5, <2>6, <2>8, <2>10, <2>11, SessionMoves
<1>4. CASE PollFlatten(r)
  <2> DEFINE k == [own EXCEPT !.polls = own.polls + 1, !.flatten = Seen(o)]
             j == AfterFlatten(k)
  <2>1. own.polls + 1 \in 0..MaxPolls
    BY <1>1, <1>4 DEF FillInv, PollsLeft, PollFlatten, At
  <2>2. Seen(o) \in Snapshot
    BY <1>1, SeenSnapshot
  <2>3. k \in Session /\ k.signal = s /\ k.entry = own.entry
    BY <1>2, <2>1, <2>2
  <2>4. Put(r, j) /\ UNCHANGED <<orders, bundle, started>>
    BY <1>4 DEF PollFlatten
  <2> HIDE DEF k
  <2>5. /\ j \in Session /\ j.signal = s /\ j.entry = own.entry
        /\ j.step \in {"entryPoll", "cancelPoll", "flattenPoll"} => j.polls < MaxPolls
    BY <2>3, AfterTheAnswer
  <2> HIDE DEF j
  <2>6. QED
    BY <1>1, <2>4, <2>5, SessionReads
<1>5. CASE ReadFinalOrders(r)
  <2> DEFINE j == [own EXCEPT !.step = "finalPosition", !.polls = 0,
                              !.clear = OpenOrders = {}]
  <2>1. j \in Session /\ j.signal = s /\ j.entry = own.entry /\ j.step = "finalPosition"
    BY <1>1 DEF Session, Steps
  <2>2. Put(r, j) /\ UNCHANGED <<orders, bundle, started>>
    BY <1>5 DEF ReadFinalOrders
  <2> HIDE DEF j
  <2>3. QED
    BY <1>1, <2>1, <2>2, SessionReads
<1>6. CASE ReadFinalPosition(r)
  <2> DEFINE b == Beginning(s)
             report == [signal |-> s, submitted |-> TRUE,
                        reconciled |-> ShutdownReconciled(own, Position = 0)]
             j == [b EXCEPT !.step = "write", !.result = report]
  <2>1. b \in Session /\ b.signal = s /\ b.entry.filled = 0
    BY <1>1, BeginningSession
  <2>2. report \in Result
    BY <1>1 DEF Session, Result, ShutdownReconciled
  <2>3. Put(r, j) /\ UNCHANGED <<orders, bundle, started>>
    BY <1>6 DEF ReadFinalPosition
  <2> HIDE DEF b, report
  <2>4. j \in Session /\ j.signal = s /\ j.entry.filled = 0 /\ j.step = "write"
    BY <2>1, <2>2 DEF Session, Steps
  <2> HIDE DEF j
  <2>5. QED
    BY <1>1, <2>3, <2>4, SessionReads
<1>7. QED
  BY <1>3, <1>4, <1>5, <1>6

\* The ends of a session, with its bundle or without.
LEMMA EndKeeps ==
  ASSUME FillInv, NEW r \in Runners, WriteEvidence(r) \/ Raise(r) \/ Fail(r)
  PROVE  FillInv'
<1> DEFINE own == session[r]
           s == own.signal
<1>1. /\ own \in Session /\ s \in Signals /\ own.entry.filled <= orders[s]["entry"].filled
      /\ bundle \in Result \cup {NoResult} /\ started \in Nat
      /\ \A leg \in Legs :
           /\ orders[s][leg].filled \in 0..Qty
           /\ orders[s][leg].state = "none" => orders[s][leg].filled = 0
      /\ own.entry.filled \in 0..Qty /\ Qty \in Nat
      /\ "entry" \in Legs /\ "flatten" \in Legs
  BY OwnVariables DEF TheOrder, Legs
<1>2. \A t \in Signals, l \in Legs : orders[t][l].filled \in Nat
  BY ControlledAssumption DEF FillInv, TypeOK, Order
<1>3. Idle \in Session /\ Idle.step = "idle" /\ Idle.entry.filled = 0
  BY IdleSession
<1>4. Idle.signal \in Signals
  BY <1>3 DEF Session
<1>5. /\ Put(r, Idle) /\ started' \in Nat /\ bundle' \in Result \cup {NoResult}
  <2>1. own.result \in Result \cup {NoResult}
    BY <1>1 DEF Session
  <2>2. QED
    BY <1>1, <2>1 DEF WriteEvidence, Raise, Fail
<1>6. CASE UNCHANGED orders
  <2>1. Idle.entry.filled <= orders[Idle.signal]["entry"].filled
    BY <1>1, <1>2, <1>3, <1>4
  <2>2. QED
    BY <1>3, <1>5, <1>6, <2>1, SessionReads
<1>7. ASSUME NEW leg \in Legs, NEW q \in 0..Qty, orders[s][leg].state = "none",
             PutOrder(r, leg, [Accepted(q) EXCEPT !.state = "sent"]),
             leg = "flatten" => q = own.entry.filled
      PROVE  FillInv'
  <2> DEFINE new == [Accepted(q) EXCEPT !.state = "sent"]
  <2>1. /\ new \in Order /\ new.state = "sent" /\ new.filled = 0 /\ new.quantity = q
    BY NewOrder
  <2>2. SetOrder(s, leg, new)
    BY <1>7 DEF PutOrder, SetOrder
  <2> HIDE DEF new
  <2>3. /\ new.filled >= orders[s][leg].filled
        /\ leg = "flatten" => new.quantity <= orders[s]["entry"].filled
                              /\ new.filled <= new.quantity
    BY <1>1, <1>7, <2>1
  <2>4. /\ orders' \in [Signals -> [Legs -> Order]] /\ FlattenWithinFill'
        /\ \A t \in Signals : orders'[t]["entry"].filled >= orders[t]["entry"].filled
        /\ \A t \in Signals, l \in Legs :
             orders'[t][l].state = "none" => orders'[t][l].filled = 0
    BY <1>1, <2>1, <2>2, <2>3, OrderMoves
  <2>5. Idle.entry.filled <= orders'[Idle.signal]["entry"].filled
    <3>1. orders'[Idle.signal]["entry"].filled \in 0..Qty
      BY <1>1, <1>4, <2>4 DEF Order
    <3>2. QED
      BY <1>1, <1>3, <3>1
  <2>6. QED
    BY <1>3, <1>5, <2>4, <2>5, SessionMoves
<1>8. Qty \in 0..Qty
  BY <1>1
<1>9. CASE WriteEvidence(r) \/ Raise(r)
  BY <1>6, <1>9 DEF WriteEvidence, Raise
<1>10. CASE Fail(r)
  <2>1. \/ UNCHANGED orders
        \/ /\ orders[s]["entry"].state = "none"
           /\ PutOrder(r, "entry", [Accepted(Qty) EXCEPT !.state = "sent"])
        \/ /\ orders[s]["flatten"].state = "none"
           /\ PutOrder(r, "flatten", [Accepted(own.entry.filled) EXCEPT !.state = "sent"])
    BY <1>10 DEF Fail, TheOrder, FlattenQuantity
  <2>2. QED
    BY <1>1, <1>6, <1>7, <1>8, <2>1
<1>11. QED
  BY <1>9, <1>10

LEMMA BrokerKeeps ==
  ASSUME FillInv, NEW s \in Signals, NEW leg \in Legs,
         Arrive(s, leg) \/ Fill(s, leg) \/ Close(s, leg)
  PROVE  FillInv'
<1> DEFINE o == orders[s][leg]
<1>1. /\ o \in Order /\ o.filled \in 0..Qty /\ o.quantity \in 0..Qty /\ Qty \in Nat
      /\ leg = "flatten" => /\ o.quantity <= orders[s]["entry"].filled
                            /\ o.filled <= o.quantity
  BY ControlledAssumption DEF FillInv, TypeOK, Order, FlattenWithinFill
<1>2. PICK new \in Order :
        /\ SetOrder(s, leg, new) /\ new.state # "none" /\ new.quantity = o.quantity
        /\ new.filled >= o.filled
        /\ o.filled <= o.quantity => new.filled <= o.quantity
  <2>1. CASE Arrive(s, leg)
    BY <1>1, <2>1 DEF Arrive, Order
  <2>2. CASE Close(s, leg)
    BY <1>1, <2>2 DEF Close, Order
  <2>3. CASE Fill(s, leg)
    <3> DEFINE new == [o EXCEPT !.filled = o.filled + 1,
                                !.state = IF o.filled + 1 = o.quantity
                                          THEN "done" ELSE o.state]
    <3>1. SetOrder(s, leg, new) /\ o.state \in {"open", "closing"} /\ o.filled < o.quantity
      BY <2>3 DEF Fill, Working
    <3>2. o.filled + 1 \in 0..Qty /\ o.filled + 1 <= o.quantity /\ o.filled + 1 >= o.filled
      BY <1>1, <3>1
    <3>3. /\ new \in Order /\ new.state # "none" /\ new.quantity = o.quantity
          /\ new.filled = o.filled + 1
      BY <1>1, <3>1, <3>2 DEF Order
    <3> HIDE DEF new
    <3>4. QED
      BY <3>1, <3>2, <3>3
  <2>4. QED
    BY <2>1, <2>2, <2>3
<1>3. /\ leg = "flatten" => new.quantity <= orders[s]["entry"].filled
                            /\ new.filled <= new.quantity
  BY <1>1, <1>2
<1>4. /\ orders' \in [Signals -> [Legs -> Order]] /\ FlattenWithinFill'
      /\ \A t \in Signals : orders'[t]["entry"].filled >= orders[t]["entry"].filled
      /\ \A t \in Signals, l \in Legs :
           orders'[t][l].state = "none" => orders'[t][l].filled = 0
  BY <1>2, <1>3, OrderMoves
<1>5. UNCHANGED <<session, bundle, started>>
  BY DEF Arrive, Fill, Close
<1>6. TypeOK' /\ PollsLeft'
  BY <1>4, <1>5 DEF FillInv, TypeOK, PollsLeft
<1>7. ASSUME NEW q \in Runners
      PROVE  session[q].entry.filled <= orders'[session[q].signal]["entry"].filled
  <2> DEFINE t == session[q].signal
             old == orders[t]["entry"].filled
             newer == orders'[t]["entry"].filled
             seen == session[q].entry.filled
  <2>1. t \in Signals /\ seen \in 0..Qty /\ seen <= old
    BY <1>7, OwnVariables
  <2>2. old \in 0..Qty /\ newer \in 0..Qty /\ newer >= old
    BY <1>4, <2>1 DEF FillInv, TypeOK, Order, Legs
  <2> HIDE DEF old, newer, seen
  <2>3. seen <= newer
    BY <1>1, <2>1, <2>2
  <2>4. QED
    BY <2>3 DEF seen, newer
<1>8. SeenIsFilled'
  BY <1>4, <1>5, <1>7 DEF SeenIsFilled
<1>9. QED
  BY <1>4, <1>6, <1>8 DEF FillInv

LEMMA FillInvariance == FillInv /\ [Next]_vars => FillInv'
<1> SUFFICES ASSUME FillInv, [Next]_vars
             PROVE  FillInv'
  OBVIOUS
<1>1. ASSUME NEW r \in Runners, RunnerStep(r) \/ Fail(r) \/ \E s \in Signals : Start(r, s)
      PROVE  FillInv'
  BY <1>1, StartupKeeps, EntryKeeps, FlattenKeeps, EndKeeps DEF RunnerStep
<1>2. CASE BrokerStep
  BY <1>2, BrokerKeeps DEF BrokerStep
<1>3. CASE UNCHANGED vars
  BY <1>3 DEF vars, FillInv, TypeOK, PollsLeft, SeenIsFilled, FlattenWithinFill
<1>4. QED
  BY <1>1, <1>2, <1>3 DEF Next

LEMMA FillStart == Init => FillInv
<1> SUFFICES ASSUME Init
             PROVE  FillInv
  OBVIOUS
<1>1. /\ Idle \in Session /\ Idle.step = "idle" /\ Idle.entry.filled = 0
      /\ Idle.signal \in Signals
  BY IdleSession DEF Session
<1>2. NoOrder \in Order /\ NoOrder.filled = 0 /\ NoOrder.quantity = 0
  BY ControlledAssumption DEF NoOrder, Order
<1>3. \A s \in Signals, leg \in Legs : orders[s][leg] = NoOrder
  BY DEF Init
<1>4. \A r \in Runners : session[r] = Idle
  BY DEF Init
<1>5. TypeOK
  BY <1>1, <1>2 DEF Init, TypeOK
<1>6. PollsLeft
  BY <1>1, <1>4 DEF PollsLeft
<1>7. SeenIsFilled /\ FlattenWithinFill
  BY <1>1, <1>2, <1>3, <1>4 DEF SeenIsFilled, FlattenWithinFill, Legs
<1>8. QED
  BY <1>5, <1>6, <1>7 DEF FillInv

\* Every call of a session, and every step of the broker, leaves the types.
THEOREM ControlledTypes == Spec => []TypeOK
<1>1. FillInv => TypeOK
  BY DEF FillInv
<1>2. QED
  BY <1>1, FillStart, FillInvariance, PTL DEF Spec

\* A session never sells more than its own entry bought: for every number of
\* runners that trade the signals at once, and wherever a session failed.
THEOREM FlattenIsBounded == Spec => []FlattenWithinFill
<1>1. FillInv => FlattenWithinFill
  BY DEF FillInv
<1>2. QED
  BY <1>1, FillStart, FillInvariance, PTL DEF Spec

-----------------------------------------------------------------------------
(* Who owns the orders of a signal *)

\* A step of one session over the orders as they are.
LEMMA OwnerReads ==
  ASSUME TypeOK, OneOwner, NEW r \in Runners, NEW j \in Session, Put(r, j),
         UNCHANGED orders,
         j.step \in AfterTheEntry => Owns(r) /\ j.signal = session[r].signal,
         j.step = "finalPosition" /\ j.clear => ~Live(j.signal)
  PROVE  OneOwner'
<1>1. /\ session'[r] = j /\ \A q \in Runners : q # r => session'[q] = session[q]
  BY DEF TypeOK, Put
<1>2. \A q \in Runners : Owns(q)' => Owns(q) /\ session'[q].signal = session[q].signal
  BY <1>1 DEF Owns
<1>3. ASSUME NEW q \in Runners, Owns(q)'
      PROVE  /\ Known(orders[session'[q].signal]["entry"])
             /\ orders[session'[q].signal]["flatten"].state # "sent"
             /\ session'[q].step = "finalPosition" /\ session'[q].clear =>
                  ~Live(session'[q].signal)
  BY <1>1, <1>2, <1>3 DEF OneOwner
<1>4. ASSUME NEW q \in Runners, Owns(q)', NEW p \in Runners, Owns(p)',
             session'[p].signal = session'[q].signal
      PROVE  p = q
  BY <1>2, <1>4 DEF OneOwner
<1>5. QED
  BY <1>3, <1>4 DEF OneOwner, Live

\* A step of one session that moves an order no other session owns.
LEMMA OwnerMoves ==
  ASSUME TypeOK, OneOwner, NEW r \in Runners, NEW j \in Session, Put(r, j),
         NEW s \in Signals, NEW leg \in Legs, NEW o, SetOrder(s, leg, o),
         \A q \in Runners : Owns(q) /\ session[q].signal = s => q = r,
         j.step \in AfterTheEntry =>
           /\ j.signal = s /\ j.step # "finalPosition"
           /\ Known(orders'[s]["entry"]) /\ orders'[s]["flatten"].state # "sent",
         orders'[s]["entry"].state = "none" => orders'[s]["flatten"].state = "none"
  PROVE  OneOwner'
<1>1. /\ session'[r] = j /\ \A q \in Runners : q # r => session'[q] = session[q]
  BY DEF TypeOK, Put
<1>2. \A t \in Signals : t # s => orders'[t] = orders[t]
  BY DEF TypeOK, SetOrder
<1>3. ASSUME NEW q \in Runners, Owns(q)', q # r
      PROVE  /\ Owns(q) /\ session'[q] = session[q] /\ session[q].signal # s
             /\ session[q].signal \in Signals
             /\ orders'[session[q].signal] = orders[session[q].signal]
  <2>1. Owns(q) /\ session'[q] = session[q]
    BY <1>1, <1>3 DEF Owns
  <2>2. session[q].signal \in Signals
    BY DEF TypeOK, Session
  <2>3. QED
    BY <1>2, <1>3, <2>1, <2>2
<1>4. ASSUME NEW q \in Runners, Owns(q)'
      PROVE  /\ Known(orders'[session'[q].signal]["entry"])
             /\ orders'[session'[q].signal]["flatten"].state # "sent"
             /\ session'[q].step = "finalPosition" /\ session'[q].clear =>
                  ~\E l \in Legs : orders'[session'[q].signal][l].state
                                     \in {"sent", "open", "closing"}
  <2>1. CASE q = r
    BY <1>1, <1>4, <2>1 DEF Owns
  <2>2. CASE q # r
    <3> DEFINE t == session[q].signal
    <3>1. Owns(q) /\ session'[q] = session[q] /\ orders'[t] = orders[t]
      BY <1>3, <1>4, <2>2
    <3>2. /\ Known(orders[t]["entry"]) /\ orders[t]["flatten"].state # "sent"
          /\ session[q].step = "finalPosition" /\ session[q].clear => ~Live(t)
      BY <3>1 DEF OneOwner
    <3>3. QED
      BY <3>1, <3>2 DEF Live
  <2>3. QED
    BY <2>1, <2>2
<1>5. ASSUME NEW q \in Runners, Owns(q)', NEW p \in Runners, Owns(p)',
             session'[p].signal = session'[q].signal, p # q
      PROVE  FALSE
  <2>1. CASE p = r
    BY <1>1, <1>3, <1>5, <2>1 DEF Owns
  <2>2. CASE q = r
    BY <1>1, <1>3, <1>5, <2>2 DEF Owns
  <2>3. CASE p # r /\ q # r
    BY <1>3, <1>5, <2>3 DEF OneOwner
  <2>4. QED
    BY <2>1, <2>2, <2>3
<1>6. \A t \in Signals : orders'[t]["entry"].state = "none" =>
                           orders'[t]["flatten"].state = "none"
  BY <1>2 DEF OneOwner
<1>7. QED
  BY <1>4, <1>5, <1>6 DEF OneOwner, Live

\* Reads and ends: the session owns after them only what it owned before, and
\* the last read of the open orders sees its own.
LEMMA OwnerReadsOn ==
  ASSUME FillInv, OneOwner, NEW r \in Runners,
         \/ \E s \in Signals : Start(r, s)
         \/ ReadOpenOrders(r) \/ ReadPosition(r) \/ EvaluateGates(r)
         \/ PollEntry(r) \/ PollCancelled(r) \/ PollFlatten(r)
         \/ ReadFinalOrders(r) \/ ReadFinalPosition(r)
         \/ WriteEvidence(r) \/ Raise(r) \/ (Fail(r) /\ UNCHANGED orders)
  PROVE  OneOwner'
<1> DEFINE own == session[r]
<1>1. /\ TypeOK /\ TypeOK' /\ own \in Session /\ own.signal \in Signals
      /\ UNCHANGED orders
  <2>1. FillInv'
    BY StartupKeeps, EntryKeeps, FlattenKeeps, EndKeeps
  <2>2. UNCHANGED orders
    BY DEF Start, ReadOpenOrders, ReadPosition, EvaluateGates, PollEntry,
           PollCancelled, PollFlatten, ReadFinalOrders, ReadFinalPosition,
           WriteEvidence, Raise
  <2>3. QED
    BY <2>1, <2>2, OwnVariables DEF FillInv
<1> DEFINE j == session'[r]
<1>2. j \in Session
  BY <1>1 DEF TypeOK
<1>3. /\ Put(r, j)
      /\ j.step \in AfterTheEntry => Owns(r) /\ j.signal = own.signal
      /\ j.step = "finalPosition" /\ j.clear => OpenOrders = {} /\ Owns(r)
  <2>1. ASSUME NEW k \in Session, Put(r, k)
        PROVE  j = k /\ Put(r, j)
    BY <1>1, <2>1 DEF Put, TypeOK
  <2>2. ASSUME NEW s \in Signals, Start(r, s)
        PROVE  Put(r, j) /\ j.step \notin AfterTheEntry
    <3>1. Beginning(s) \in Session /\ Beginning(s).step = "open" /\ Put(r, Beginning(s))
      BY <2>2, BeginningSession DEF Start
    <3>2. QED
      BY <2>1, <3>1 DEF AfterTheEntry
  <2>3. CASE ReadOpenOrders(r) \/ ReadPosition(r) \/ EvaluateGates(r)
    <3>1. PICK k : Put(r, k) /\ k.step \in {"position", "history", "entry", "write"}
      <4>1. CASE ReadOpenOrders(r)
        <5> DEFINE k == [own EXCEPT !.step = "position", !.clear = OpenOrders = {}]
        <5>1. Put(r, k)
          BY <4>1 DEF ReadOpenOrders
        <5>2. k.step = "position"
          BY <1>1 DEF Session
        <5>3. QED
          BY <5>1, <5>2
      <4>2. CASE ReadPosition(r)
        <5> DEFINE k == [own EXCEPT !.step = "history", !.clear = @ /\ Position = 0]
        <5>1. Put(r, k)
          BY <4>2 DEF ReadPosition
        <5>2. k.step = "history"
          BY <1>1 DEF Session
        <5>3. QED
          BY <5>1, <5>2
      <4>3. CASE EvaluateGates(r)
        <5> DEFINE b == Beginning(own.signal)
                   report == [signal |-> own.signal, submitted |-> FALSE,
                              reconciled |-> own.clear]
        <5>1. \/ Put(r, [own EXCEPT !.step = "entry"])
              \/ Put(r, [b EXCEPT !.step = "write", !.result = report])
          BY <4>3 DEF EvaluateGates
        <5>2. own \in Session /\ b \in Session
          BY <1>1, BeginningSession
        <5> HIDE DEF b, report
        <5>3. /\ [own EXCEPT !.step = "entry"].step = "entry"
              /\ [b EXCEPT !.step = "write", !.result = report].step = "write"
          BY <5>2 DEF Session
        <5>4. QED
          BY <5>1, <5>3
      <4>4. QED
        BY <2>3, <4>1, <4>2, <4>3
    <3>2. j = k
      BY <1>1, <3>1 DEF Put, TypeOK
    <3>3. QED
      BY <3>1, <3>2 DEF AfterTheEntry
  <2>4. CASE PollEntry(r) \/ PollCancelled(r) \/ PollFlatten(r)
    <3>1. PICK k \in Session :
            /\ k.signal = own.signal
            /\ \E m \in {AfterEntry(k), AfterCancel(k), AfterFlatten(k)} : Put(r, m)
      <4>1. /\ own.polls + 1 \in 0..MaxPolls
            /\ Seen(TheOrder(r, "entry")) \in Snapshot
            /\ Seen(TheOrder(r, "flatten")) \in Snapshot
        <5>1. own.polls < MaxPolls
          BY <2>4 DEF FillInv, PollsLeft, PollEntry, PollCancelled, PollFlatten, At
        <5>2. QED
          BY <5>1, OwnVariables, SeenSnapshot DEF Legs
      <4>2. ASSUME NEW snap \in Snapshot, NEW polls \in 0..MaxPolls
            PROVE  /\ [own EXCEPT !.polls = polls, !.entry = snap] \in Session
                   /\ [own EXCEPT !.polls = polls, !.flatten = snap] \in Session
                   /\ [own EXCEPT !.polls = polls, !.entry = snap].signal = own.signal
                   /\ [own EXCEPT !.polls = polls, !.flatten = snap].signal = own.signal
        BY <1>1 DEF Session
      <4>3. CASE PollEntry(r) \/ PollCancelled(r)
        <5> DEFINE k == [own EXCEPT !.polls = own.polls + 1,
                                    !.entry = Seen(TheOrder(r, "entry"))]
        <5>1. k \in Session /\ k.signal = own.signal
          BY <4>1, <4>2
        <5>2. Put(r, AfterEntry(k)) \/ Put(r, AfterCancel(k))
          BY <4>3 DEF PollEntry, PollCancelled
        <5> HIDE DEF k
        <5>3. QED
          BY <5>1, <5>2
      <4>4. CASE PollFlatten(r)
        <5> DEFINE k == [own EXCEPT !.polls = own.polls + 1,
                                    !.flatten = Seen(TheOrder(r, "flatten"))]
        <5>1. k \in Session /\ k.signal = own.signal
          BY <4>1, <4>2
        <5>2. Put(r, AfterFlatten(k))
          BY <4>4 DEF PollFlatten
        <5> HIDE DEF k
        <5>3. QED
          BY <5>1, <5>2
      <4>5. QED
        BY <2>4, <4>3, <4>4
    <3>2. PICK m \in {AfterEntry(k), AfterCancel(k), AfterFlatten(k)} : Put(r, m)
      BY <3>1
    <3>3. m \in Session /\ m.signal = own.signal /\ m.step # "finalPosition"
      BY <3>1, AfterTheAnswer
    <3>4. j = m /\ Put(r, j)
      BY <2>1, <3>2, <3>3
    <3>5. Owns(r)
      BY <2>4 DEF PollEntry, PollCancelled, PollFlatten, At, Owns, AfterTheEntry
    <3>6. QED
      BY <3>3, <3>4, <3>5
  <2>5. CASE ReadFinalOrders(r)
    <3> DEFINE k == [own EXCEPT !.step = "finalPosition", !.polls = 0,
                                !.clear = OpenOrders = {}]
    <3>1. k \in Session /\ k.signal = own.signal /\ (k.clear => OpenOrders = {})
      <4>1. 0 \in 0..MaxPolls /\ (OpenOrders = {}) \in BOOLEAN
        BY ControlledAssumption
      <4>2. QED
        BY <1>1, <4>1 DEF Session, Steps
    <3>2. Put(r, k) /\ Owns(r)
      BY <2>5 DEF ReadFinalOrders, At, Owns, AfterTheEntry
    <3> HIDE DEF k
    <3>3. j = k /\ Put(r, j)
      BY <2>1, <3>1, <3>2
    <3>4. QED
      BY <3>1, <3>2, <3>3
  <2>6. CASE ReadFinalPosition(r)
    <3>1. PICK k : Put(r, k) /\ k.step = "write"
      <4> DEFINE b == Beginning(own.signal)
                 report == [signal |-> own.signal, submitted |-> TRUE,
                            reconciled |-> ShutdownReconciled(own, Position = 0)]
      <4>1. Put(r, [b EXCEPT !.step = "write", !.result = report])
        BY <2>6 DEF ReadFinalPosition
      <4>2. b \in Session
        BY <1>1, BeginningSession
      <4> HIDE DEF b, report
      <4>3. [b EXCEPT !.step = "write", !.result = report].step = "write"
        BY <4>2 DEF Session
      <4>4. QED
        BY <4>1, <4>3
    <3>2. j = k
      BY <1>1, <3>1 DEF Put, TypeOK
    <3>3. QED
      BY <3>1, <3>2 DEF AfterTheEntry
  <2>7. CASE WriteEvidence(r) \/ Raise(r) \/ Fail(r)
    <3>1. Put(r, Idle) /\ Idle \in Session /\ Idle.step = "idle"
      BY <2>7, IdleSession DEF WriteEvidence, Raise, Fail
    <3>2. QED
      BY <2>1, <3>1 DEF AfterTheEntry
  <2>8. QED
    BY <2>2, <2>3, <2>4, <2>5, <2>6, <2>7 DEF AfterTheEntry
<1>4. ASSUME OpenOrders = {}, Owns(r)
      PROVE  ~Live(own.signal)
  <2> DEFINE s == own.signal
  <2>1. ASSUME NEW leg \in Legs PROVE ~Working(orders[s][leg])
    <3>1. <<s, leg>> \in Signals \X Legs
      BY <1>1
    <3>2. Working(orders[s][leg]) => <<s, leg>> \in OpenOrders
      BY <3>1 DEF OpenOrders
    <3>3. QED
      BY <1>4, <3>2
  <2>2. Known(orders[s]["entry"]) /\ orders[s]["flatten"].state # "sent"
    BY <1>4 DEF OneOwner
  <2>3. QED
    BY <2>1, <2>2 DEF Live, Working, Known, Legs
<1>5. j.step = "finalPosition" /\ j.clear => ~Live(j.signal)
  BY <1>3, <1>4 DEF AfterTheEntry
<1> HIDE DEF j
<1>6. QED
  BY <1>1, <1>2, <1>3, <1>5, OwnerReads

\* The calls that reach the broker: each moves an order that nobody else owns.
LEMMA OwnerSubmits ==
  ASSUME FillInv, OneOwner, NEW r \in Runners,
         \/ SubmitEntry(r) \/ CancelEntry(r) \/ SubmitFlatten(r) \/ Fail(r)
  PROVE  OneOwner'
<1> DEFINE own == session[r]
           s == own.signal
           j == session'[r]
<1>1. /\ TypeOK /\ TypeOK' /\ own \in Session /\ s \in Signals
      /\ "entry" \in Legs /\ "flatten" \in Legs
  <2>1. FillInv'
    BY EntryKeeps, FlattenKeeps, EndKeeps
  <2>2. QED
    BY <2>1, OwnVariables DEF FillInv, Legs
<1>2. j \in Session
  BY <1>1 DEF TypeOK
<1>3. ASSUME NEW leg \in Legs, NEW o, PutOrder(r, leg, o)
      PROVE  /\ SetOrder(s, leg, o) /\ orders'[s][leg] = o
             /\ \A l \in Legs : l # leg => orders'[s][l] = orders[s][l]
  BY <1>1, <1>3 DEF PutOrder, SetOrder, TypeOK
<1>4. ASSUME NEW k \in Session, Put(r, k)
      PROVE  j = k /\ Put(r, j)
  BY <1>1, <1>4 DEF Put, TypeOK
<1>5. ASSUME NEW k \in Session, k.signal = s,
             \/ Put(r, AfterEntry(k)) \/ Put(r, AfterCancel(k))
             \/ Put(r, AfterFlatten(k))
      PROVE  Put(r, j) /\ j.signal = s /\ j.step # "finalPosition"
  BY <1>4, <1>5, AfterTheAnswer
<1>6. ASSUME orders[s]["entry"].state = "none"
      PROVE  /\ orders[s]["flatten"].state = "none"
             /\ \A q \in Runners : Owns(q) /\ session[q].signal = s => q = r
  BY <1>1, <1>6 DEF OneOwner, Known
<1>7. ASSUME Owns(r)
      PROVE  /\ Known(orders[s]["entry"]) /\ orders[s]["flatten"].state # "sent"
             /\ \A q \in Runners : Owns(q) /\ session[q].signal = s => q = r
  BY <1>7 DEF OneOwner
<1>8. Qty \in 0..Qty /\ own.entry.filled \in 0..Qty
  BY OwnVariables
<1>9. CASE SubmitEntry(r)
  <2>1. PICK o \in {Accepted(Qty), Rejected(Qty)} :
          /\ PutOrder(r, "entry", o)
          /\ Put(r, AfterEntry([own EXCEPT !.entry = Seen(o)]))
    BY <1>9 DEF SubmitEntry
  <2>2. o \in Order /\ o.state \in {"open", "done"}
    <3>1. \A p \in {Accepted(Qty), Rejected(Qty)} :
            p \in Order /\ p.state \in {"open", "done"}
      BY <1>8, NewOrder
    <3>2. QED
      BY <3>1
  <2>3. Put(r, j) /\ j.signal = s /\ j.step # "finalPosition"
    <3> DEFINE k == [own EXCEPT !.entry = Seen(o)]
    <3>1. k \in Session /\ k.signal = s
      BY <1>1, <2>2, SeenSnapshot DEF Session
    <3>2. Put(r, AfterEntry(k))
      BY <2>1
    <3> HIDE DEF k
    <3>3. QED
      BY <1>5, <3>1, <3>2
  <2>4. orders[s]["entry"].state = "none"
    BY <1>9 DEF SubmitEntry, TheOrder
  <2>5. /\ Known(orders'[s]["entry"]) /\ orders'[s]["flatten"].state = "none"
    BY <1>1, <1>3, <1>6, <2>1, <2>2, <2>4 DEF Known
  <2> HIDE DEF j
  <2>6. QED
    BY <1>1, <1>2, <1>3, <1>6, <2>1, <2>3, <2>4, <2>5, OwnerMoves
<1>10. CASE CancelEntry(r)
  <2> DEFINE o == [TheOrder(r, "entry") EXCEPT !.state = "closing"]
  <2>1. PutOrder(r, "entry", o) /\ Put(r, AfterCancel(own)) /\ Owns(r)
    BY <1>10 DEF CancelEntry, At, Owns, AfterTheEntry
  <2>2. o.state = "closing"
    <3>1. TheOrder(r, "entry") \in Order
      BY <1>1, OwnVariables
    <3>2. QED
      BY <3>1 DEF Order
  <2>3. Put(r, j) /\ j.signal = s /\ j.step # "finalPosition"
    BY <1>1, <1>5, <2>1
  <2> HIDE DEF j, o
  <2>4. /\ Known(orders'[s]["entry"]) /\ orders'[s]["flatten"].state # "sent"
    BY <1>1, <1>3, <1>7, <2>1, <2>2 DEF Known
  <2>5. orders'[s]["entry"].state # "none"
    BY <2>4 DEF Known
  <2>6. QED
    BY <1>1, <1>2, <1>3, <1>7, <2>1, <2>3, <2>4, <2>5, OwnerMoves
<1>11. CASE SubmitFlatten(r)
  <2>1. PICK o \in {Accepted(own.entry.filled), Rejected(own.entry.filled)} :
          /\ PutOrder(r, "flatten", o)
          /\ Put(r, AfterFlatten([own EXCEPT !.flatten = Seen(o)]))
    BY <1>11 DEF SubmitFlatten, FlattenQuantity
  <2>2. o \in Order /\ o.state \in {"open", "done"}
    <3>1. \A p \in {Accepted(own.entry.filled), Rejected(own.entry.filled)} :
            p \in Order /\ p.state \in {"open", "done"}
      BY <1>8, NewOrder
    <3>2. QED
      BY <3>1
  <2>3. Put(r, j) /\ j.signal = s /\ j.step # "finalPosition"
    <3> DEFINE k == [own EXCEPT !.flatten = Seen(o)]
    <3>1. k \in Session /\ k.signal = s
      BY <1>1, <2>2, SeenSnapshot DEF Session
    <3>2. Put(r, AfterFlatten(k))
      BY <2>1
    <3> HIDE DEF k
    <3>3. QED
      BY <1>5, <3>1, <3>2
  <2>4. Owns(r)
    BY <1>11 DEF SubmitFlatten, At, Owns, AfterTheEntry
  <2>5. /\ Known(orders'[s]["entry"]) /\ orders'[s]["flatten"].state # "sent"
        /\ orders'[s]["entry"].state # "none"
    BY <1>1, <1>3, <1>7, <2>1, <2>2, <2>4 DEF Known
  <2> HIDE DEF j
  <2>6. QED
    BY <1>1, <1>2, <1>3, <1>7, <2>1, <2>3, <2>4, <2>5, OwnerMoves
<1>12. CASE Fail(r)
  <2>1. Put(r, j) /\ j.step \notin AfterTheEntry
    <3>1. Put(r, Idle) /\ Idle \in Session /\ Idle.step = "idle"
      BY <1>12, IdleSession DEF Fail
    <3>2. QED
      BY <1>4, <3>1 DEF AfterTheEntry
  <2>2. CASE UNCHANGED orders
    BY <1>12, <2>2, OwnerReadsOn
  <2>3. ASSUME NEW leg \in Legs, NEW q \in 0..Qty,
               PutOrder(r, leg, [Accepted(q) EXCEPT !.state = "sent"]),
               \A p \in Runners : Owns(p) /\ session[p].signal = s => p = r,
               leg = "flatten" => orders[s]["entry"].state # "none"
        PROVE  OneOwner'
    <3> DEFINE o == [Accepted(q) EXCEPT !.state = "sent"]
    <3>1. o.state = "sent" /\ PutOrder(r, leg, o)
      BY <2>3, NewOrder
    <3> HIDE DEF o
    <3>2. orders'[s]["entry"].state # "none"
      <4>1. leg \in {"entry", "flatten"}
        BY DEF Legs
      <4>2. QED
        BY <1>1, <1>3, <2>3, <3>1, <4>1
    <3> HIDE DEF j
    <3>3. QED
      BY <1>1, <1>2, <1>3, <2>1, <2>3, <3>1, <3>2, OwnerMoves
  <2>4. \/ UNCHANGED orders
        \/ /\ orders[s]["entry"].state = "none"
           /\ PutOrder(r, "entry", [Accepted(Qty) EXCEPT !.state = "sent"])
        \/ /\ Owns(r)
           /\ PutOrder(r, "flatten", [Accepted(own.entry.filled) EXCEPT !.state = "sent"])
    BY <1>12 DEF Fail, TheOrder, FlattenQuantity, At, Owns, AfterTheEntry
  <2>5. Owns(r) => orders[s]["entry"].state # "none"
    BY <1>7 DEF Known
  <2>6. QED
    BY <1>1, <1>6, <1>7, <1>8, <2>2, <2>3, <2>4, <2>5
<1>13. QED
  BY <1>9, <1>10, <1>11, <1>12

\* The broker moves no order that a session has read as done.
LEMMA OwnerWaits ==
  ASSUME FillInv, OneOwner, NEW s \in Signals, NEW leg \in Legs,
         Arrive(s, leg) \/ Fill(s, leg) \/ Close(s, leg)
  PROVE  OneOwner'
<1>1. /\ orders \in [Signals -> [Legs -> Order]] /\ session \in [Runners -> Session]
      /\ UNCHANGED session /\ "entry" \in Legs /\ "flatten" \in Legs
  BY DEF FillInv, TypeOK, Arrive, Fill, Close, Legs
<1>2. PICK o : /\ SetOrder(s, leg, o) /\ o.state \in {"open", "closing", "done"}
               /\ orders[s][leg].state \in {"sent", "open", "closing"}
  <2>1. orders[s][leg] \in Order
    BY <1>1
  <2>2. CASE Arrive(s, leg)
    BY <2>1, <2>2 DEF Arrive, Order
  <2>3. CASE Close(s, leg)
    BY <2>1, <2>3 DEF Close, Working, Order
  <2>4. CASE Fill(s, leg)
    <3> DEFINE old == orders[s][leg]
               new == [old EXCEPT !.filled = old.filled + 1,
                                  !.state = IF old.filled + 1 = old.quantity
                                            THEN "done" ELSE old.state]
    <3>1. SetOrder(s, leg, new) /\ old.state \in {"open", "closing"}
      BY <2>4 DEF Fill, Working
    <3>2. new.state \in {"open", "closing", "done"}
      BY <2>1, <3>1 DEF Order
    <3> HIDE DEF new
    <3>3. QED
      BY <3>1, <3>2
  <2>5. QED
    BY <2>2, <2>3, <2>4
<1>3. /\ orders'[s][leg] = o
      /\ \A l \in Legs : l # leg => orders'[s][l] = orders[s][l]
      /\ \A t \in Signals : t # s => orders'[t] = orders[t]
  BY <1>1, <1>2 DEF SetOrder
<1>4. ASSUME NEW q \in Runners, Owns(q)
      PROVE  /\ Known(orders'[session[q].signal]["entry"])
             /\ orders'[session[q].signal]["flatten"].state # "sent"
             /\ session[q].step = "finalPosition" /\ session[q].clear =>
                  ~\E l \in Legs : orders'[session[q].signal][l].state
                                     \in {"sent", "open", "closing"}
  <2> DEFINE t == session[q].signal
  <2>1. /\ t \in Signals /\ Known(orders[t]["entry"])
        /\ orders[t]["flatten"].state # "sent"
        /\ session[q].step = "finalPosition" /\ session[q].clear => ~Live(t)
    BY <1>1, <1>4 DEF OneOwner, Session
  <2>2. CASE t # s
    BY <1>3, <2>1, <2>2 DEF Live
  <2>3. CASE t = s
    <3>1. Live(s)
      BY <1>2 DEF Live
    <3>2. ~(session[q].step = "finalPosition" /\ session[q].clear)
      BY <2>1, <2>3, <3>1
    <3>3. Known(orders'[s]["entry"]) /\ orders'[s]["flatten"].state # "sent"
      <4>1. leg \in {"entry", "flatten"}
        BY DEF Legs
      <4>2. QED
        BY <1>1, <1>2, <1>3, <2>1, <2>3, <4>1 DEF Known
    <3>4. QED
      BY <2>3, <3>2, <3>3
  <2>4. QED
    BY <2>2, <2>3
<1>5. ASSUME NEW t \in Signals, orders'[t]["entry"].state = "none"
      PROVE  orders'[t]["flatten"].state = "none"
  <2>1. CASE t # s
    BY <1>3, <1>5, <2>1 DEF OneOwner
  <2>2. CASE t = s
    <3>1. leg \in {"entry", "flatten"}
      BY DEF Legs
    <3>2. orders[s]["entry"].state = "none" => orders[s]["flatten"].state = "none"
      BY DEF OneOwner
    <3>3. QED
      BY <1>1, <1>2, <1>3, <1>5, <2>2, <3>1, <3>2
  <2>3. QED
    BY <2>1, <2>2
<1>6. QED
  BY <1>1, <1>4, <1>5 DEF OneOwner, Owns, Live

LEMMA OwnerInvariance == FillInv /\ OneOwner /\ [Next]_vars => OneOwner'
<1> SUFFICES ASSUME FillInv, OneOwner, [Next]_vars
             PROVE  OneOwner'
  OBVIOUS
<1>1. ASSUME NEW r \in Runners, RunnerStep(r) \/ Fail(r) \/ \E s \in Signals : Start(r, s)
      PROVE  OneOwner'
  BY <1>1, OwnerReadsOn, OwnerSubmits DEF RunnerStep
<1>2. CASE BrokerStep
  BY <1>2, OwnerWaits DEF BrokerStep
<1>3. CASE UNCHANGED vars
  BY <1>3 DEF vars, OneOwner, Owns, Live
<1>4. QED
  BY <1>1, <1>2, <1>3 DEF Next

-----------------------------------------------------------------------------
(* The account's position *)

\* When one signal alone is exposed, the position of the account is its net
\* exposure.  The fold takes the signals out of the set in an order of its own:
\* a function that satisfies its recursion exists, and by well-founded induction
\* over the subsets, as a least counterexample, there is no other.
LEMMA PositionOfOne ==
  ASSUME NEW own \in Signals, Net(own) \in Int,
         \A s \in Signals \ {own} : Net(s) = 0
  PROVE  Position = Net(own)
<1> DEFINE first(S) == CHOOSE x \in S : TRUE
           Fold(h) == [S \in SUBSET Signals |->
                         IF S = {} THEN 0
                         ELSE Net(first(S)) + h[S \ {first(S)}]]
           g == [S \in SUBSET Signals |-> IF own \in S THEN Net(own) ELSE 0]
<1>1. Position = (CHOOSE h : h = Fold(h))[Signals]
  BY DEF Position, MapThenSumSet, MapThenFoldSet
<1>2. \A S \in SUBSET Signals : S # {} =>
        first(S) \in S /\ S \ {first(S)} \in SUBSET Signals
  OBVIOUS
<1> HIDE DEF first
<1>3. g = Fold(g)
  <2>1. ASSUME NEW S \in SUBSET Signals
        PROVE  g[S] = IF S = {} THEN 0 ELSE Net(first(S)) + g[S \ {first(S)}]
    <3>1. CASE S = {}
      BY <3>1
    <3>2. CASE S # {} /\ first(S) = own
      BY <1>2, <3>2
    <3>3. CASE S # {} /\ first(S) # own
      <4>1. Net(first(S)) = 0 /\ (own \in S \ {first(S)} <=> own \in S)
        BY <1>2, <3>3
      <4>2. g[S \ {first(S)}] = g[S] /\ g[S] \in Int
        BY <1>2, <3>3, <4>1
      <4>3. QED
        BY <3>3, <4>1, <4>2
    <3>4. QED
      BY <3>1, <3>2, <3>3
  <2>2. QED
    BY <2>1
<1>4. ASSUME NEW h, h = Fold(h)
      PROVE  h[Signals] = Net(own)
  <2> DEFINE Bad == {S \in SUBSET Signals : h[S] # g[S]}
  <2>1. /\ \A S \in SUBSET Signals : h[S] = IF S = {} THEN 0
                                      ELSE Net(first(S)) + h[S \ {first(S)}]
        /\ \A S \in SUBSET Signals : g[S] = IF S = {} THEN 0
                                      ELSE Net(first(S)) + g[S \ {first(S)}]
    <3> HIDE DEF g
    <3>1. QED
      BY <1>3, <1>4
  <2>2. IsWellFoundedOn(StrictSubsetOrdering(Signals), SUBSET Signals)
    BY FS_StrictSubsetOrderingWellFounded, FS_FiniteSubsetsOfFinite,
       ControlledAssumption
  <2> HIDE DEF g
  <2>3. ASSUME Bad # {}
        PROVE  FALSE
    <3>1. Bad \subseteq SUBSET Signals
      OBVIOUS
    <3>2. PICK S \in Bad : \A T \in Bad : ~(<<T, S>> \in StrictSubsetOrdering(Signals))
      <4> HIDE DEF Bad
      <4>1. QED
        BY <2>2, <2>3, <3>1, WFMin
    <3>3. S # {}
      BY <2>1, <3>2
    <3>4. /\ first(S) \in S /\ S \ {first(S)} \in SUBSET Signals
          /\ S \ {first(S)} \subseteq S /\ S \ {first(S)} # S
      BY <1>2, <3>1, <3>2, <3>3
    <3>5. <<S \ {first(S)}, S>> \in StrictSubsetOrdering(Signals)
      BY <3>1, <3>2, <3>4 DEF StrictSubsetOrdering
    <3>6. S \ {first(S)} \notin Bad
      BY <3>2, <3>5
    <3>7. h[S \ {first(S)}] = g[S \ {first(S)}]
      BY <3>4, <3>6
    <3>8. QED
      BY <2>1, <3>2, <3>3, <3>7
  <2>4. h[Signals] = g[Signals]
    BY <2>3
  <2>5. QED
    BY <2>4 DEF g
<1>5. QED
  <2> DEFINE h == CHOOSE h : h = Fold(h)
  <2>1. h = Fold(h)
    BY <1>3
  <2> HIDE DEF h, g
  <2>2. h[Signals] = Net(own)
    BY <1>4, <2>1
  <2>3. QED
    BY <1>1, <2>2 DEF h

\* When a session reports a reconciled round trip, its own orders have come to
\* rest, whatever else trades the account; and if nothing else is at risk, its
\* fills balance, however stale its last refresh of them.
THEOREM ReconciledHolds == Spec => ReconciledIsTrue
<1>1. ASSUME FillInv, OneOwner, Next, NEW r \in Runners,
             At(r, "finalPosition"), session'[r].step = "write",
             session'[r].result.reconciled
      PROVE  LET own == session[r].signal IN
               /\ ~Live(own)
               /\ (\A s \in Signals \ {own} : ~AtRisk(s)) => ~AtRisk(own)
  <2> DEFINE own == session[r].signal
  <2>1. /\ session \in [Runners -> Session] /\ own \in Signals
        /\ session[r] \in Session
    BY <1>1, OwnVariables DEF FillInv, TypeOK
  <2>2. ReadFinalPosition(r)
    <3>1. ASSUME NEW q \in Runners, q # r,
                 RunnerStep(q) \/ Fail(q) \/ \E s \in Signals : Start(q, s)
          PROVE  session'[r] = session[r]
      BY <2>1, <3>1 DEF RunnerStep, Start, ReadOpenOrders, ReadPosition, EvaluateGates,
           SubmitEntry, PollEntry, CancelEntry, PollCancelled, SubmitFlatten,
           PollFlatten, ReadFinalOrders, ReadFinalPosition, WriteEvidence, Raise,
           Fail, Put
    <3>2. BrokerStep => UNCHANGED session
      BY DEF BrokerStep, Arrive, Fill, Close
    <3>3. RunnerStep(r) \/ Fail(r) \/ \E s \in Signals : Start(r, s)
      BY <1>1, <3>1, <3>2 DEF Next, At
    <3>4. ~Fail(r)
      <4>1. Put(r, Idle) => session'[r] = Idle
        BY <2>1 DEF Put
      <4>2. QED
        BY <1>1, <4>1, IdleSession DEF Fail
    <3>5. ~Raise(r)
      BY <1>1 DEF Raise, Refused, At
    <3>6. QED
      BY <1>1, <3>3, <3>4, <3>5 DEF RunnerStep, Start, ReadOpenOrders, ReadPosition,
           EvaluateGates, SubmitEntry, PollEntry, CancelEntry, PollCancelled,
           SubmitFlatten, PollFlatten, ReadFinalOrders, WriteEvidence, At
  <2>3. session[r].clear /\ Position = 0
    <3> DEFINE b == Beginning(own)
               report == [signal |-> own, submitted |-> TRUE,
                          reconciled |-> ShutdownReconciled(session[r], Position = 0)]
               j == [b EXCEPT !.step = "write", !.result = report]
    <3>1. Put(r, j) /\ b \in Session
      BY <2>1, <2>2, BeginningSession DEF ReadFinalPosition
    <3>2. report.reconciled = ShutdownReconciled(session[r], Position = 0)
      OBVIOUS
    <3> HIDE DEF b, report
    <3>3. j.result = report
      BY <3>1 DEF Session
    <3> HIDE DEF j
    <3>4. session'[r] = j
      BY <2>1, <3>1 DEF Put
    <3>5. ShutdownReconciled(session[r], Position = 0)
      BY <1>1, <3>2, <3>3, <3>4
    <3>6. QED
      BY <3>5 DEF ShutdownReconciled
  <2>4. ~Live(own)
    BY <1>1, <2>3 DEF OneOwner, Owns, At, AfterTheEntry
  <2>5. ASSUME \A s \in Signals \ {own} : ~AtRisk(s)
        PROVE  ~AtRisk(own)
    <3>1. \A s \in Signals : Exposure(s) \in Int
      <4>1. \A s \in Signals, leg \in Legs : orders[s][leg].filled \in Nat
        BY <1>1, ControlledAssumption DEF FillInv, TypeOK, Order
      <4>2. QED
        BY <4>1 DEF Exposure, Legs
    <3>2. \A s \in Signals \ {own} : Net(s) = 0
      BY <2>5 DEF AtRisk, Net
    <3>3. Net(own) \in Int
      BY <2>1, <3>1 DEF Net
    <3>4. Position = Net(own)
      BY <2>1, <3>2, <3>3, PositionOfOne
    <3>5. Exposure(own) = 0
      BY <2>1, <2>3, <3>1, <3>4 DEF Net
    <3>6. QED
      BY <2>4, <3>5 DEF AtRisk
  <2>6. QED
    BY <2>4, <2>5
<1>2. FillInv /\ OneOwner /\ [Next]_vars =>
        [\A r \in Runners :
           LET own == session[r].signal IN
           (/\ At(r, "finalPosition") /\ session'[r].step = "write"
            /\ session'[r].result.reconciled)
           => /\ ~Live(own)
              /\ (\A s \in Signals \ {own} : ~AtRisk(s)) => ~AtRisk(own)]_vars
  BY <1>1
<1>3. Init => OneOwner
  <2>1. ASSUME Init, NEW r \in Runners PROVE ~Owns(r)
    BY <2>1, IdleSession DEF Init, Owns, AfterTheEntry
  <2>2. ASSUME Init, NEW s \in Signals PROVE orders[s]["flatten"].state = "none"
    BY <2>2 DEF Init, NoOrder, Legs
  <2>3. QED
    BY <2>1, <2>2 DEF OneOwner
<1>4. QED
  BY <1>2, <1>3, FillStart, FillInvariance, OwnerInvariance, PTL
     DEF Spec, ReconciledIsTrue

-----------------------------------------------------------------------------
(* The preflight and the market window *)

\* Sessions of a market follow each other, one begins after the last instant,
\* and no symbol is called like one of the other calls.
RegularMarket ==
  /\ Horizon \in Nat
  /\ Openings \in Seq(Nat) /\ Closings \in Seq(Nat) /\ Len(Openings) = Len(Closings)
  /\ \A d \in DOMAIN Openings : Openings[d] < Closings[d]
  /\ \A d, e \in DOMAIN Openings : d < e => Closings[d] <= Openings[e]
  /\ \E d \in DOMAIN Openings : Openings[d] > Horizon
  /\ Symbols \in Seq(STRING)
  /\ \A i \in DOMAIN Symbols : Symbols[i] # "market clock"

Less == {r \in Nat \X Nat : r[1] < r[2]}

\* What follows an instant is the least of those after it.
LEMMA FollowingIsLeast ==
  ASSUME NEW instants \in Seq(Nat), NEW t \in Nat,
         \E d \in DOMAIN instants : instants[d] > t
  PROVE  /\ \E d \in DOMAIN instants : Following(instants, t) = instants[d]
         /\ Following(instants, t) > t
         /\ \A d \in DOMAIN instants : instants[d] > t => Following(instants, t) <= instants[d]
<1> DEFINE After == {e \in {instants[d] : d \in DOMAIN instants} : e > t}
<1>1. After \subseteq Nat /\ After # {}
  OBVIOUS
<1>2. IsWellFoundedOn(Less, Nat)
  BY NatLessThanWellFounded, Zenon DEF OpToRel, Less
<1>3. PICK x \in After : \A y \in After : ~(<<y, x>> \in Less)
  <2> HIDE DEF After
  <2>1. QED
    BY <1>1, <1>2, WFMin
<1>4. ASSUME NEW d \in DOMAIN instants, instants[d] > t
      PROVE  x <= instants[d]
  <2>1. instants[d] \in After /\ x \in Nat /\ instants[d] \in Nat
    BY <1>1, <1>4
  <2>2. instants[d] < x => <<instants[d], x>> \in Less
    BY <2>1 DEF Less
  <2>3. QED
    BY <1>3, <2>1, <2>2
<1>5. /\ x \in {instants[d] : d \in DOMAIN instants} /\ x > t
      /\ \A d \in DOMAIN instants : instants[d] > t => x <= instants[d]
  BY <1>3, <1>4
<1>6. QED
  BY <1>5 DEF Following

\* While the market is open it closes before it opens again, so that the
\* boundary refuses the clock.
LEMMA OpenClockRefused ==
  ASSUME RegularMarket, now \in 0 .. Horizon, IsOpen(now)
  PROVE  ~ClockIsValid
<1>0. /\ Openings \in Seq(Nat) /\ Closings \in Seq(Nat) /\ Horizon \in Nat
      /\ Len(Openings) = Len(Closings)
  BY DEF RegularMarket
<1>1. /\ now \in Nat /\ now <= Horizon /\ DOMAIN Openings = DOMAIN Closings
      /\ \A d \in DOMAIN Openings : d \in Nat /\ Openings[d] \in Nat /\ Closings[d] \in Nat
  BY <1>0
<1>2. PICK d \in DOMAIN Openings : Openings[d] <= now /\ now < Closings[d]
  BY DEF IsOpen
<1>3. \E c \in DOMAIN Openings : Openings[c] > now
  <2>1. PICK c \in DOMAIN Openings : Openings[c] > Horizon
    BY DEF RegularMarket
  <2>2. Openings[c] > now
    BY <1>0, <1>1, <2>1
  <2>3. QED
    BY <2>2
<1>4. PICK e \in DOMAIN Openings : NextOpen(now) = Openings[e] /\ Openings[e] > now
  <2>1. Openings \in Seq(Nat)
    BY DEF RegularMarket
  <2>2. QED
    BY <1>1, <1>3, <2>1, FollowingIsLeast DEF NextOpen
<1>5. NextClose(now) <= Closings[d] /\ NextClose(now) \in Nat
  <2>1. Closings \in Seq(Nat) /\ d \in DOMAIN Closings /\ Closings[d] > now
    BY <1>1, <1>2 DEF RegularMarket
  <2>2. QED
    BY <1>1, <2>1, FollowingIsLeast DEF NextClose
<1>6. d < e
  <2>1. Openings[e] < Closings[e] /\ (e < d => Closings[e] <= Openings[d])
    BY DEF RegularMarket
  <2>2. /\ Openings[e] \in Nat /\ Openings[d] \in Nat /\ Closings[e] \in Nat /\ now \in Nat
        /\ Openings[e] > now /\ Openings[d] <= now /\ d \in Nat /\ e \in Nat
    BY <1>1, <1>2, <1>4
  <2>3. ~(e < d) /\ d # e
    BY <2>1, <2>2
  <2>4. QED
    BY <2>2, <2>3
<1>7. Closings[d] <= Openings[e]
  BY <1>6 DEF RegularMarket
<1>8. QED
  BY <1>1, <1>4, <1>5, <1>7 DEF ClockIsValid

\* The last call is the second reading of the clock.
LEMMA LastCall ==
  ASSUME RegularMarket, outcome = "none", Call, outcome' = "eligible"
  PROVE  ReadsClock /\ ClockIsValid /\ WindowIsOpen
<1>1. Calls[Len(Calls)] = "market clock"
  <2> DEFINE first == <<"construct", "account", "clock">>
             before == first \o Symbols
             S == {"construct", "account", "clock", "market clock"} \cup STRING
  <2>1. first \in Seq(S) /\ "market clock" \in S
    OBVIOUS
  <2>2. Symbols \in Seq(S)
    <3>1. Symbols \in Seq(STRING)
      BY DEF RegularMarket
    <3>2. STRING \subseteq S
      OBVIOUS
    <3> HIDE DEF S
    <3>3. QED
      BY <3>1, <3>2, SeqMonotonic
  <2>3. Calls = before \o <<"market clock">>
    BY DEF Calls
  <2> HIDE DEF first, before, S
  <2>4. before \in Seq(S)
    BY <2>1, <2>2, ConcatProperties DEF before
  <2>5. Calls = Append(before, "market clock")
    BY <2>1, <2>3, <2>4, AppendIsConcat
  <2>6. Len(Calls) = Len(before) + 1 /\ Calls[Len(before) + 1] = "market clock"
    BY <2>1, <2>4, <2>5, AppendProperties
  <2>7. QED
    BY <2>6
<1>2. ~Raises
  BY DEF Raises, Ends
<1>3. ASSUME NEW good, Goes(good)
      PROVE  Calls[next] = "market clock" /\ passed' = (passed /\ good) /\ passed'
  BY <1>1, <1>3 DEF Goes
<1>4. ~Constructs
  BY <1>3 DEF Constructs
<1>5. ~ReadsState
  BY <1>3 DEF ReadsState, RegularMarket
<1>6. ReadsClock
  BY <1>2, <1>4, <1>5 DEF Call
<1>7. ClockIsValid /\ Goes(Calls[next] = "market clock" => WindowIsOpen)
  BY <1>6 DEF ReadsClock, Ends
<1>8. QED
  BY <1>3, <1>6, <1>7

\* No session ever becomes eligible to trade, in whatever market: an entry
\* needs an open market, and get_market_clock_snapshot of paper_boundary.py
\* accepts the clock of a closed one only.
THEOREM NoSessionIsEligible ==
  ASSUME RegularMarket
  PROVE  PreflightSpec => [](outcome # "eligible")
<1> DEFINE Turned == now \in 0 .. Horizon /\ outcome # "eligible"
<1>1. PreflightInit => Turned
  BY DEF PreflightInit
<1>2. Turned /\ [PreflightNext]_preflightVars => Turned'
  <2> SUFFICES ASSUME Turned, [PreflightNext]_preflightVars
               PROVE  Turned'
    OBVIOUS
  <2>1. CASE Call
    <3>1. outcome = "none" /\ now' = now
      BY <2>1 DEF Call
    <3>2. WindowIsOpen => ~ClockIsValid
      BY OpenClockRefused DEF WindowIsOpen
    <3>3. outcome' # "eligible"
      BY <2>1, <3>1, <3>2, LastCall
    <3>4. QED
      BY <3>1, <3>3
  <2>2. CASE TimePasses
    <3>1. now \in 0 .. Horizon /\ now < Horizon /\ now' = now + 1 /\ outcome' = outcome
      BY <2>2 DEF TimePasses
    <3>2. Horizon \in Nat
      BY DEF RegularMarket
    <3>3. QED
      BY <3>1, <3>2
  <2>3. CASE UNCHANGED preflightVars
    BY <2>3 DEF preflightVars
  <2>4. QED
    BY <2>1, <2>2, <2>3 DEF PreflightNext
<1>3. QED
  BY <1>1, <1>2, PTL DEF PreflightSpec

=============================================================================
