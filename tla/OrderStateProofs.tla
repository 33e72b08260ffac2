--------------------------- MODULE OrderStateProofs ---------------------------
(***************************************************************************)
(* Proofs about OrderState for every set of clients, messages, intents     *)
(* and instants.                                                           *)
(***************************************************************************)
EXTENDS OrderState, TLAPS

\* Setting the flag of an order touches nothing else.
LEMMA FlaggedOrder ==
  ASSUME NEW o \in Order
  PROVE  [o EXCEPT !.recovery = TRUE] \in Order
BY DEF Order

\* What one latched refusal does to the two places a flag can live in.
LEMMA LatchEffect ==
  ASSUME TypeOK, NEW c \in Clients, Latch(c)
  PROVE  /\ orders' \in [Clients -> Order]
         /\ globalRecovery' \in BOOLEAN
         /\ \A d \in Clients :
              /\ orders'[d] = [orders[d] EXCEPT !.recovery = orders'[d].recovery]
              /\ orders[d].recovery => orders'[d].recovery
              /\ ~Known(d) => orders'[d] = orders[d]
         /\ globalRecovery => globalRecovery'
         /\ orders'[c].recovery \/ globalRecovery'
<1> USE DEF TypeOK
<1>1. CASE Known(c)
  <2>1. orders' = [orders EXCEPT ![c] = [orders[c] EXCEPT !.recovery = TRUE]]
    BY <1>1 DEF Latch
  <2>2. [orders[c] EXCEPT !.recovery = TRUE] \in Order
    BY FlaggedOrder
  <2>3. globalRecovery' = globalRecovery
    BY <1>1 DEF Latch
  <2>4. ASSUME NEW d \in Clients
        PROVE  /\ orders'[d] = [orders[d] EXCEPT !.recovery = orders'[d].recovery]
               /\ orders[d].recovery => orders'[d].recovery
               /\ ~Known(d) => orders'[d] = orders[d]
    <3>1. orders[d] \in Order
      OBVIOUS
    <3>2. CASE d = c
      BY <1>1, <2>1, <3>1, <3>2 DEF Order
    <3>3. CASE d # c
      BY <2>1, <3>1, <3>3 DEF Order
    <3>4. QED
      BY <3>2, <3>3
  <2>5. orders'[c].recovery
    BY <2>1 DEF Order
  <2>6. orders' \in [Clients -> Order]
    BY <2>1, <2>2
  <2>7. globalRecovery' \in BOOLEAN /\ (globalRecovery => globalRecovery')
    BY <2>3
  <2>8. QED
    BY <2>4, <2>5, <2>6, <2>7
<1>2. CASE ~Known(c)
  <2>1. orders' = orders /\ globalRecovery' = TRUE
    BY <1>2 DEF Latch
  <2>2. \A d \in Clients : orders[d] = [orders[d] EXCEPT !.recovery = orders[d].recovery]
    BY DEF Order
  <2>3. QED
    BY <2>1, <2>2
<1>3. QED
  BY <1>1, <1>2

\* A new order, and an order after an accepted message, are orders again.
LEMMA OrderTypes ==
  ASSUME ConstantsAssumption
  PROVE  /\ Absent \in Order
         /\ \A i \in Intents : i.client \in Clients /\ NewOrder(i) \in Order
         /\ \A o \in Order, u \in Updates, r \in Instants :
              /\ u.client \in Clients
              /\ After(o, u, r) \in Order
<1>1. Absent \in Order
  BY DEF Absent, Order, Never, Statuses
<1>2. ASSUME NEW i \in Intents
      PROVE  i.client \in Clients /\ NewOrder(i) \in Order
  <2>1. i \in Intent
    BY ConstantsAssumption DEF ConstantsAssumption
  <2>2. QED
    BY <2>1 DEF Intent, NewOrder, Absent, Order, Never, Statuses
<1>3. ASSUME NEW o \in Order, NEW u \in Updates, NEW r \in Instants
      PROVE  u.client \in Clients /\ After(o, u, r) \in Order
  <2>1. u \in Update /\ r \in Nat
    BY ConstantsAssumption DEF ConstantsAssumption
  <2> DEFINE o1 == [o EXCEPT !.broker = BoundBroker(o, u), !.status = u.status,
                             !.filled = u.filled, !.price = u.price]
             o2 == [o1 EXCEPT !.seq = u.seq, !.eventAt = u.at,
                              !.receivedAt = r, !.replacement = u.replacement]
  <2>2. BoundBroker(o, u) \in BrokerIds \cup {None}
    <3>1. u.broker \in BrokerIds
      BY <2>1 DEF Update
    <3>2. o.broker \in BrokerIds \cup {None}
      BY DEF Order
    <3>3. QED
      BY <3>1, <3>2 DEF BoundBroker
  <2>3. /\ u.status \in Statuses \cup {"absent"}
        /\ u.client \in Clients
        /\ u.filled \in Nat /\ u.price \in Prices \cup {None}
        /\ u.seq \in Nat \cup {Never} /\ u.at \in Nat \cup {Never}
        /\ u.replacement \in BrokerIds \cup {None}
    BY <2>1 DEF Update, Statuses
  <2>4. o1 \in Order
    BY <2>2, <2>3 DEF Order
  <2> HIDE DEF o1
  <2>5. o2 \in Order
    BY <2>1, <2>3, <2>4 DEF Order
  <2>6. After(o, u, r) = o2
    BY DEF After, o1
  <2>7. QED
    BY <2>3, <2>5, <2>6
<1>4. QED
  BY <1>1, <1>2, <1>3

\* A row booked from a valid message is a row: fills never run backwards.
LEMMA RowType ==
  ASSUME ConstantsAssumption, NEW o \in Order, o.status # "absent",
         NEW u \in Updates, FillsConsistent(o, u)
  PROVE  RowOf(o, u) \in Row
<1>1. u \in Update
  BY ConstantsAssumption DEF ConstantsAssumption
<1>2. u.filled - o.filled \in Nat
  BY <1>1 DEF FillsConsistent, Update, Order
<1>3. QED
  BY <1>1, <1>2 DEF RowOf, Row, Update, Order

\* The step of every handler keeps the types.
LEMMA TypeStep ==
  ASSUME TypeOK, [Next]_vars
  PROVE  TypeOK'
<1> USE ConstantsAssumption
<1>1. ASSUME NEW i \in Intents, RegisterIntent(i)
      PROVE  TypeOK'
  <2>0. i.client \in Clients /\ NewOrder(i) \in Order
    BY OrderTypes
  <2>1. CASE RegisterNewIntent(i)
    <3>1. orders' \in [Clients -> Order]
      BY <2>0, <2>1 DEF RegisterNewIntent, TypeOK
    <3>2. book' \in Seq(Clients)
      BY <2>0, <2>1 DEF RegisterNewIntent, TypeOK
    <3>3. QED
      BY <2>1, <3>1, <3>2 DEF RegisterNewIntent, TypeOK
  <2>2. CASE RepeatIntent(i)
    BY <2>2 DEF RepeatIntent, TypeOK, vars
  <2>3. CASE ConflictingIntent(i)
    <3>1. Latch(i.client) /\ UNCHANGED <<book, seen, ledger, timeoutKeys>>
      BY <2>3 DEF ConflictingIntent
    <3>2. QED
      BY <2>0, <3>1, LatchEffect DEF TypeOK
  <2>4. QED
    BY <1>1, <2>1, <2>2, <2>3 DEF RegisterIntent
<1>2. ASSUME NEW u \in Updates, NEW r \in Instants, ApplyUpdate(u, r)
      PROVE  TypeOK'
  <2>1. /\ u.client \in Clients /\ u \in Update
        /\ orders[u.client] \in Order
        /\ orders[u.client].status # "absent"
        /\ FillsConsistent(orders[u.client], u)
    BY <1>2, OrderTypes DEF ApplyUpdate, Valid, Known, TypeOK, ConstantsAssumption
  <2>2. orders' \in [Clients -> Order]
    <3>1. After(orders[u.client], u, r) \in Order
      BY <2>1, OrderTypes
    <3>2. orders' = [orders EXCEPT ![u.client] = After(orders[u.client], u, r)]
      BY <1>2 DEF ApplyUpdate
    <3>3. QED
      BY <3>1, <3>2, <2>1 DEF TypeOK
  <2>3. ledger' \in [Clients -> Seq(Row)]
    <3>1. RowOf(orders[u.client], u) \in Row
      BY <2>1, RowType
    <3>2. ledger' = [ledger EXCEPT ![u.client] =
                       Append(ledger[u.client], RowOf(orders[u.client], u))]
      BY <1>2 DEF ApplyUpdate
    <3>3. Append(ledger[u.client], RowOf(orders[u.client], u)) \in Seq(Row)
      BY <3>1, <2>1 DEF TypeOK
    <3>4. QED
      BY <3>2, <3>3, <2>1 DEF TypeOK
  <2>4. seen' = seen \cup {u} /\ UNCHANGED <<book, timeoutKeys, globalRecovery>>
    BY <1>2 DEF ApplyUpdate
  <2>5. QED
    BY <2>1, <2>2, <2>3, <2>4 DEF TypeOK
<1>3. ASSUME NEW u \in Updates, NEW r \in Instants, RejectUpdate(u, r)
      PROVE  TypeOK'
  <2>1. u.client \in Clients /\ u \in Update
    BY OrderTypes DEF ConstantsAssumption
  <2>2. Latch(u.client) /\ seen' = seen \cup {u} /\ UNCHANGED <<book, ledger, timeoutKeys>>
    BY <1>3 DEF RejectUpdate
  <2>3. QED
    BY <2>1, <2>2, LatchEffect DEF TypeOK
<1>4. ASSUME NEW u \in Updates, ConflictingEvent(u)
      PROVE  TypeOK'
  <2>1. u.client \in Clients
    BY ConstantsAssumption DEF ConstantsAssumption, Update
  <2>2. Latch(u.client) /\ UNCHANGED <<book, seen, ledger, timeoutKeys>>
    BY <1>4 DEF ConflictingEvent
  <2>3. QED
    BY <2>1, <2>2, LatchEffect DEF TypeOK
<1>5. ASSUME NEW c \in Clients, NEW e \in EventIds, RecordInvalidEvent(c, e)
      PROVE  TypeOK'
  <2>1. Latch(c) /\ seen' = seen \cup {InvalidMessage(c, e)}
          /\ UNCHANGED <<book, ledger, timeoutKeys>>
    BY <1>5 DEF RecordInvalidEvent
  <2>2. QED
    BY <2>1, LatchEffect DEF TypeOK
<1>6. ASSUME NEW c \in Clients, NEW e \in EventIds, ConflictingInvalidEvent(c, e)
      PROVE  TypeOK'
  <2>1. Latch(c) /\ UNCHANGED <<book, seen, ledger, timeoutKeys>>
    BY <1>6 DEF ConflictingInvalidEvent
  <2>2. QED
    BY <2>1, LatchEffect DEF TypeOK
<1>7. ASSUME NEW t \in Instants, CheckTimeouts(t)
      PROVE  TypeOK'
  <2>1. ASSUME NEW c \in Clients
        PROVE  TimeoutKey(c) \in [client : Clients, acknowledged : BOOLEAN,
                                  seq : Nat \cup {Never}]
    BY <2>1 DEF TimeoutKey, TypeOK, Order
  <2>2. timeoutKeys' \subseteq [client : Clients, acknowledged : BOOLEAN,
                                seq : Nat \cup {Never}]
    BY <1>7, <2>1 DEF CheckTimeouts, TypeOK, Expiring
  <2>3. ASSUME NEW c \in Clients
        PROVE  [orders[c] EXCEPT !.recovery = TRUE] \in Order
    BY FlaggedOrder DEF TypeOK
  <2>4. orders' \in [Clients -> Order]
    BY <1>7, <2>3 DEF CheckTimeouts, TypeOK
  <2>5. QED
    BY <1>7, <2>2, <2>4 DEF CheckTimeouts, TypeOK
<1>8. CASE UNCHANGED vars
  BY <1>8 DEF vars, TypeOK
<1>9. QED
  <2>1. ASSUME NEW u \in Updates, Deliver(u)
        PROVE  TypeOK'
    BY <2>1, <1>2, <1>3, <1>4, <1>8 DEF Deliver, IgnoreDuplicate
  <2>2. ASSUME NEW c \in Clients, NEW e \in EventIds, DeliverInvalid(c, e)
        PROVE  TypeOK'
    BY <2>2, <1>5, <1>6, <1>8 DEF DeliverInvalid, IgnoreInvalidDuplicate
  <2>3. QED
    BY <1>1, <1>7, <1>8, <2>1, <2>2 DEF Next

\* The first state is well typed.
LEMMA InitTypes == Init => TypeOK
<1>1. Absent \in Order
  BY ConstantsAssumption, OrderTypes
<1>2. ASSUME Init
      PROVE  /\ orders \in [Clients -> Order]
             /\ book \in Seq(Clients)
             /\ ledger \in [Clients -> Seq(Row)]
  BY <1>1, <1>2 DEF Init
<1>3. Init => seen = {} /\ timeoutKeys = {} /\ globalRecovery \in BOOLEAN
  BY DEF Init
<1>4. QED
  BY <1>2, <1>3 DEF TypeOK

\* The variables of the machine keep their types, for every input.
THEOREM TypeCorrect == Spec => []TypeOK
<1>1. Init => TypeOK
  BY InitTypes
<1>2. TypeOK /\ [Next]_vars => TypeOK'
  BY TypeStep
<1>3. QED
  BY <1>1, <1>2, PTL DEF Spec


-----------------------------------------------------------------------------
(* Every step books a message, registers an order, or changes no more than  *)
(* recovery flags and the set of retained messages.                         *)

Retains(f) == /\ ~EventSeen(f.event)
              /\ seen' = seen \cup {f}
              /\ f.client \in Clients
              /\ orders'[f.client].recovery \/ globalRecovery'

OnlyFlags ==
  /\ orders' \in [Clients -> Order]
  /\ \A c \in Clients :
       /\ orders'[c] = [orders[c] EXCEPT !.recovery = orders'[c].recovery]
       /\ orders[c].recovery => orders'[c].recovery
       /\ ~Known(c) => orders'[c] = orders[c]
  /\ globalRecovery => globalRecovery'
  /\ ledger' = ledger
  /\ seen' = seen \/ \E f : Retains(f)

\* An unchanged order is one whose flag was set to what it was.
LEMMA SameOrder ==
  ASSUME NEW o \in Order
  PROVE  o = [o EXCEPT !.recovery = o.recovery]
BY DEF Order

\* A step that changes nothing the properties look at only sets flags.
LEMMA NothingOnlyFlags ==
  ASSUME TypeOK, UNCHANGED <<orders, seen, ledger, globalRecovery>>
  PROVE  OnlyFlags
<1>1. \A c \in Clients : orders[c] = [orders[c] EXCEPT !.recovery = orders[c].recovery]
  BY SameOrder DEF TypeOK
<1>2. QED
  BY <1>1 DEF OnlyFlags, TypeOK

\* A latched refusal, with or without a newly retained message, only sets flags.
LEMMA LatchOnlyFlags ==
  ASSUME TypeOK, NEW c \in Clients, Latch(c), ledger' = ledger,
         \/ seen' = seen
         \/ \E f : f.client = c /\ ~EventSeen(f.event) /\ seen' = seen \cup {f}
  PROVE  OnlyFlags
<1>1. /\ orders' \in [Clients -> Order]
      /\ \A d \in Clients :
           /\ orders'[d] = [orders[d] EXCEPT !.recovery = orders'[d].recovery]
           /\ orders[d].recovery => orders'[d].recovery
           /\ ~Known(d) => orders'[d] = orders[d]
      /\ globalRecovery => globalRecovery'
      /\ orders'[c].recovery \/ globalRecovery'
  BY LatchEffect
<1>2. QED
  BY <1>1 DEF OnlyFlags, Retains

\* A timeout check only sets flags.
LEMMA TimeoutOnlyFlags ==
  ASSUME TypeOK, NEW t \in Instants, CheckTimeouts(t)
  PROVE  OnlyFlags
<1>1. ASSUME NEW c \in Clients
      PROVE  /\ orders'[c] = [orders[c] EXCEPT !.recovery = orders'[c].recovery]
             /\ orders[c].recovery => orders'[c].recovery
             /\ ~Known(c) => orders'[c] = orders[c]
  <2>1. orders[c] \in Order
    BY DEF TypeOK
  <2>2. CASE c \in Expiring(t)
    <3>1. orders'[c] = [orders[c] EXCEPT !.recovery = TRUE]
      BY <2>2 DEF CheckTimeouts
    <3>2. orders'[c].recovery = TRUE
      BY <2>1, <3>1 DEF Order
    <3>3. Known(c)
      BY <2>2 DEF Expiring, Overdue, Awaiting
    <3>4. QED
      BY <3>1, <3>2, <3>3
  <2>3. CASE c \notin Expiring(t)
    <3>1. orders'[c] = orders[c]
      BY <2>3 DEF CheckTimeouts
    <3>2. QED
      BY <2>1, <3>1, SameOrder
  <2>4. QED
    BY <2>2, <2>3
<1>2. orders' \in [Clients -> Order]
  <2>1. TypeOK'
    BY TypeStep DEF Next
  <2>2. QED
    BY <2>1 DEF TypeOK
<1>3. QED
  BY <1>1, <1>2 DEF OnlyFlags, CheckTimeouts

\* The three kinds of steps.
LEMMA StepKinds ==
  ASSUME TypeOK, [Next]_vars
  PROVE  \/ \E i \in Intents : RegisterNewIntent(i)
         \/ \E u \in Updates, r \in Instants : ApplyUpdate(u, r)
         \/ OnlyFlags
<1> USE ConstantsAssumption
<1>1. ASSUME NEW i \in Intents, RegisterIntent(i), ~RegisterNewIntent(i)
      PROVE  OnlyFlags
  <2>1. i.client \in Clients
    BY OrderTypes
  <2>2. QED
    BY <1>1, <2>1, LatchOnlyFlags, NothingOnlyFlags
       DEF RegisterIntent, RepeatIntent, ConflictingIntent, vars
<1>2. ASSUME NEW u \in Updates, Deliver(u),
             ~\E r \in Instants : ApplyUpdate(u, r)
      PROVE  OnlyFlags
  <2>1. u.client \in Clients
    BY DEF ConstantsAssumption, Update
  <2>2. ASSUME NEW r \in Instants, RejectUpdate(u, r)
        PROVE  OnlyFlags
    BY <2>1, <2>2, LatchOnlyFlags DEF RejectUpdate
  <2>3. CASE IgnoreDuplicate(u)
    BY <2>3, NothingOnlyFlags DEF IgnoreDuplicate, vars
  <2>4. CASE ConflictingEvent(u)
    BY <2>1, <2>4, LatchOnlyFlags DEF ConflictingEvent
  <2>5. QED
    BY <1>2, <2>2, <2>3, <2>4 DEF Deliver
<1>3. ASSUME NEW c \in Clients, NEW e \in EventIds, DeliverInvalid(c, e)
      PROVE  OnlyFlags
  <2>1. CASE RecordInvalidEvent(c, e)
    <3>1. InvalidMessage(c, e).client = c /\ InvalidMessage(c, e).event = e
      BY DEF InvalidMessage
    <3>2. QED
      BY <2>1, <3>1, LatchOnlyFlags DEF RecordInvalidEvent
  <2>2. CASE IgnoreInvalidDuplicate(c, e)
    BY <2>2, NothingOnlyFlags DEF IgnoreInvalidDuplicate, vars
  <2>3. CASE ConflictingInvalidEvent(c, e)
    BY <2>3, LatchOnlyFlags DEF ConflictingInvalidEvent
  <2>4. QED
    BY <1>3, <2>1, <2>2, <2>3 DEF DeliverInvalid
<1>4. CASE UNCHANGED vars
  BY <1>4, NothingOnlyFlags DEF vars
<1>5. QED
  BY <1>1, <1>2, <1>3, <1>4, TimeoutOnlyFlags DEF Next

-----------------------------------------------------------------------------
(* No message is lost in silence.  A registration resets the flag of the    *)
(* order it creates, so the invariant needs that an unknown client never    *)
(* carries a flag of its own.                                               *)

UnknownIsBlank == \A c \in Clients : ~Known(c) => orders[c] = Absent

SilentLossInv == UnknownIsBlank /\ NoSilentLoss

\* The effect of booking message u, as the invariants below use it.
LEMMA ApplyEffect ==
  ASSUME TypeOK, NEW u \in Updates, NEW r \in Instants, ApplyUpdate(u, r)
  PROVE  /\ u \in Update /\ u.client \in Clients
         /\ orders[u.client] \in Order /\ orders[u.client].status # "absent"
         /\ Valid(orders[u.client], u, r)
         /\ \A c \in Clients : c # u.client => /\ orders'[c] = orders[c]
                                               /\ ledger'[c] = ledger[c]
         /\ orders'[u.client] = After(orders[u.client], u, r)
         /\ ledger'[u.client] = Append(ledger[u.client], RowOf(orders[u.client], u))
         /\ ledger[u.client] \in Seq(Row)
         /\ seen' = seen \cup {u} /\ ~EventSeen(u.event)
         /\ globalRecovery' = globalRecovery
<1>1. u \in Update /\ u.client \in Clients
  BY ConstantsAssumption DEF ConstantsAssumption, Update
<1>2. QED
  BY <1>1 DEF ApplyUpdate, TypeOK, Known

\* The fields of an order after a message.
LEMMA AfterFields ==
  ASSUME NEW o \in Order, NEW u \in Update, NEW r
  PROVE  LET a == After(o, u, r) IN
         /\ a.status = u.status /\ a.filled = u.filled /\ a.price = u.price
         /\ a.seq = u.seq /\ a.replacement = u.replacement
         /\ a.broker = BoundBroker(o, u)
         /\ a.recovery = o.recovery /\ a.quantity = o.quantity
BY DEF After, Order

\* Every step keeps what a retained message stands for: flags and booked rows
\* are never withdrawn, and what is newly retained is booked or flagged.
LEMMA SilentLossStep ==
  ASSUME TypeOK, SilentLossInv, [Next]_vars
  PROVE  SilentLossInv'
<1> USE ConstantsAssumption
<1>0. \A f \in seen : f.client \in Clients
  BY DEF TypeOK, Update, InvalidMessage
<1>1. ASSUME NEW i \in Intents, RegisterNewIntent(i)
      PROVE  SilentLossInv'
  <2>1. /\ i.client \in Clients
        /\ orders[i.client] = Absent
        /\ orders' = [orders EXCEPT ![i.client] = NewOrder(i)]
        /\ UNCHANGED <<seen, ledger, globalRecovery>>
    BY <1>1, OrderTypes DEF RegisterNewIntent, SilentLossInv, UnknownIsBlank
  <2>2. UnknownIsBlank'
    <3>1. NewOrder(i).status # "absent"
      BY DEF NewOrder, Absent
    <3>2. QED
      BY <2>1, <3>1 DEF UnknownIsBlank, SilentLossInv, Known, TypeOK
  <2>3. ASSUME NEW f \in seen
        PROVE  (Applied(f) \/ orders[f.client].recovery \/ globalRecovery)'
    <3>1. Applied(f)' <=> Applied(f)
      BY <2>1 DEF Applied
    <3>2. Absent.recovery = FALSE
      BY DEF Absent
    <3>3. CASE f.client = i.client
      BY <2>1, <3>1, <3>2, <3>3 DEF SilentLossInv, NoSilentLoss
    <3>4. CASE f.client # i.client
      BY <1>0, <2>1, <3>1, <3>4 DEF SilentLossInv, NoSilentLoss, TypeOK
    <3>5. QED
      BY <3>3, <3>4
  <2>4. QED
    BY <2>1, <2>2, <2>3 DEF SilentLossInv, NoSilentLoss
<1>2. ASSUME NEW u \in Updates, NEW r \in Instants, ApplyUpdate(u, r)
      PROVE  SilentLossInv'
  <2>1. UnknownIsBlank'
    <3>1. ASSUME NEW c \in Clients, (~Known(c))'
          PROVE  orders'[c] = Absent
      <4>1. After(orders[u.client], u, r).status # "absent"
        BY <1>2, ApplyEffect, AfterFields DEF Update, ProviderStatuses,
           NoFillStatuses, TerminalStatuses
      <4>2. c # u.client
        BY <3>1, <4>1, <1>2, ApplyEffect DEF Known
      <4>3. QED
        BY <3>1, <4>2, <1>2, ApplyEffect DEF Known, SilentLossInv, UnknownIsBlank
    <3>2. QED
      BY <3>1 DEF UnknownIsBlank
  <2>2. ASSUME NEW f \in seen'
        PROVE  (Applied(f) \/ orders[f.client].recovery \/ globalRecovery)'
    <3>1. CASE f = u
      <4> DEFINE rows == ledger[u.client]
                 row == RowOf(orders[u.client], u)
      <4>1. ledger'[u.client] = Append(rows, row) /\ rows \in Seq(Row)
        BY <1>2, ApplyEffect
      <4>2. row.event = u.event
        BY DEF RowOf
      <4>3. Len(rows) + 1 \in DOMAIN Append(rows, row)
              /\ Append(rows, row)[Len(rows) + 1] = row
        BY <4>1
      <4>4. QED
        BY <3>1, <4>1, <4>2, <4>3 DEF Applied
    <3>2. CASE f \in seen
      <4>1. f.client \in Clients
        BY <1>0, <3>2
      <4>2. Applied(f) => Applied(f)'
        <5>1. CASE f.client # u.client
          BY <4>1, <5>1, <1>2, ApplyEffect DEF Applied
        <5>2. CASE f.client = u.client
          <6> DEFINE rows == ledger[u.client]
                     row == RowOf(orders[u.client], u)
          <6>1. ledger'[u.client] = Append(rows, row) /\ rows \in Seq(Row)
            BY <1>2, ApplyEffect
          <6>2. \A n \in DOMAIN rows : /\ n \in DOMAIN Append(rows, row)
                                       /\ Append(rows, row)[n] = rows[n]
            BY <6>1
          <6>3. QED
            BY <5>2, <6>1, <6>2 DEF Applied
        <5>3. QED
          BY <5>1, <5>2
      <4>3. orders'[f.client].recovery = orders[f.client].recovery
        BY <4>1, <1>2, ApplyEffect, AfterFields
      <4>4. QED
        BY <3>2, <4>2, <4>3, <1>2, ApplyEffect DEF SilentLossInv, NoSilentLoss
    <3>3. QED
      BY <3>1, <3>2, <1>2, ApplyEffect
  <2>3. QED
    BY <2>1, <2>2 DEF SilentLossInv, NoSilentLoss
<1>3. CASE OnlyFlags
  <2>1. UnknownIsBlank'
    <3>1. ASSUME NEW c \in Clients, (~Known(c))'
          PROVE  ~Known(c)
      <4>1. orders'[c].status = orders[c].status
        BY <1>3 DEF OnlyFlags, TypeOK, Order
      <4>2. QED
        BY <3>1, <4>1 DEF Known
    <3>2. QED
      BY <3>1, <1>3 DEF OnlyFlags, SilentLossInv, UnknownIsBlank
  <2>2. \A f \in seen : Applied(f)' = Applied(f)
    BY <1>3 DEF OnlyFlags, Applied
  <2>3. ASSUME NEW f \in seen'
        PROVE  (Applied(f) \/ orders[f.client].recovery \/ globalRecovery)'
    <3>1. CASE f \in seen
      BY <3>1, <2>2, <1>0, <1>3 DEF OnlyFlags, SilentLossInv, NoSilentLoss
    <3>2. CASE f \notin seen
      BY <3>2, <1>3 DEF OnlyFlags, Retains
    <3>3. QED
      BY <3>1, <3>2
  <2>4. QED
    BY <2>1, <2>3 DEF SilentLossInv, NoSilentLoss
<1>4. QED
  BY <1>1, <1>2, <1>3, StepKinds

\* A message the machine has retained was applied, or a recovery flag tells.
THEOREM SilentLossFree == Spec => []NoSilentLoss
<1>1. Init => SilentLossInv
  BY DEF Init, SilentLossInv, UnknownIsBlank, NoSilentLoss
<1>2. TypeOK /\ SilentLossInv /\ [Next]_vars => SilentLossInv'
  BY SilentLossStep
<1>3. SilentLossInv => NoSilentLoss
  BY DEF SilentLossInv
<1>4. QED
  BY <1>1, <1>2, <1>3, TypeCorrect, PTL DEF Spec

-----------------------------------------------------------------------------
(* An event id is booked at most once.  Every booked event is a retained    *)
(* one, and only a message with a fresh event id is booked.                 *)

BookedIsSeen ==
  \A c \in Clients : \A n \in DOMAIN ledger[c] : EventSeen(ledger[c][n].event)

OnceInv == BookedIsSeen /\ AppliedAtMostOnce

\* Every step keeps booked events among the retained ones, so that a message
\* whose event is new to the machine is new to every order's trail.
LEMMA OnceStep ==
  ASSUME TypeOK, OnceInv, [Next]_vars
  PROVE  OnceInv'
<1>1. ASSUME ledger' = ledger, seen \subseteq seen'
      PROVE  OnceInv'
  BY <1>1 DEF OnceInv, BookedIsSeen, AppliedAtMostOnce, EventSeen
<1>2. ASSUME NEW i \in Intents, RegisterNewIntent(i)
      PROVE  OnceInv'
  BY <1>1, <1>2 DEF RegisterNewIntent
<1>3. CASE OnlyFlags
  BY <1>1, <1>3 DEF OnlyFlags, Retains
<1>4. ASSUME NEW u \in Updates, NEW r \in Instants, ApplyUpdate(u, r)
      PROVE  OnceInv'
  <2> DEFINE rows == ledger[u.client]
             row == RowOf(orders[u.client], u)
             last == Len(rows) + 1
  <2>1. /\ ledger'[u.client] = Append(rows, row) /\ rows \in Seq(Row)
        /\ \A c \in Clients : c # u.client => ledger'[c] = ledger[c]
        /\ seen' = seen \cup {u} /\ ~EventSeen(u.event)
        /\ row.event = u.event /\ u.client \in Clients
    BY <1>4, ApplyEffect DEF RowOf
  <2>2. /\ DOMAIN Append(rows, row) = DOMAIN rows \cup {last}
        /\ last \notin DOMAIN rows
        /\ Append(rows, row)[last] = row
        /\ \A n \in DOMAIN rows : Append(rows, row)[n] = rows[n]
    BY <2>1
  <2> HIDE DEF rows, row, last
  <2>3. ASSUME NEW c \in Clients, NEW n \in DOMAIN ledger'[c]
        PROVE  \/ n \in DOMAIN ledger[c] /\ ledger'[c][n] = ledger[c][n]
               \/ c = u.client /\ n = last /\ ledger'[c][n].event = u.event
    BY <2>1, <2>2, <2>3 DEF rows
  <2>4. BookedIsSeen'
    <3>1. \A e : EventSeen(e) => EventSeen(e)'
      BY <2>1 DEF EventSeen
    <3>2. EventSeen(u.event)'
      BY <2>1 DEF EventSeen
    <3>3. QED
      BY <2>3, <3>1, <3>2 DEF OnceInv, BookedIsSeen
  <2>5. AppliedAtMostOnce'
    <3>1. ASSUME NEW c \in Clients, NEW d \in Clients,
                 NEW m \in DOMAIN ledger'[c], NEW n \in DOMAIN ledger'[d],
                 ledger'[c][m].event = ledger'[d][n].event
          PROVE  c = d /\ m = n
      <4>1. \A x \in Clients : \A k \in DOMAIN ledger[x] :
              ledger[x][k].event # u.event
        BY <2>1 DEF OnceInv, BookedIsSeen
      <4>2. QED
        BY <2>3, <3>1, <4>1 DEF OnceInv, AppliedAtMostOnce
    <3>2. QED
      BY <3>1 DEF AppliedAtMostOnce
  <2>6. QED
    BY <2>4, <2>5 DEF OnceInv
<1>5. QED
  BY <1>2, <1>3, <1>4, StepKinds

\* Whatever the broker repeats, an event id is booked at most once.
THEOREM BookedOnce == Spec => []AppliedAtMostOnce
<1>1. Init => OnceInv
  BY DEF Init, OnceInv, BookedIsSeen, AppliedAtMostOnce
<1>2. TypeOK /\ OnceInv /\ [Next]_vars => OnceInv'
  BY OnceStep
<1>3. OnceInv => AppliedAtMostOnce
  BY DEF OnceInv
<1>4. QED
  BY <1>1, <1>2, <1>3, TypeCorrect, PTL DEF Spec

-----------------------------------------------------------------------------
(* The audit trail explains the order. *)

\* What a trail is after one more row.
LEMMA Appended ==
  ASSUME NEW S, NEW rows \in Seq(S), NEW row
  PROVE  /\ Len(rows) \in Nat /\ DOMAIN rows = 1..Len(rows)
         /\ Len(Append(rows, row)) = Len(rows) + 1
         /\ DOMAIN Append(rows, row) = 1..(Len(rows) + 1)
         /\ Append(rows, row)[Len(rows) + 1] = row
         /\ \A n \in 1..Len(rows) : Append(rows, row)[n] = rows[n]
OBVIOUS

\* Every step keeps the trails chained: a flag touches neither the trail nor
\* what its last row says, and a booked row starts where the last one ended.
LEMMA LedgerStep ==
  ASSUME TypeOK, LedgerExplainsOrder, [Next]_vars
  PROVE  LedgerExplainsOrder'
<1> USE ConstantsAssumption
<1>1. ASSUME NEW i \in Intents, RegisterNewIntent(i), NEW c \in Clients
      PROVE  LedgerChains(ledger'[c]) /\ LedgerEndsAt(ledger'[c], orders'[c])
  <2>1. /\ i.client \in Clients /\ ledger' = ledger
        /\ orders[i.client].status = "absent"
        /\ orders' = [orders EXCEPT ![i.client] = NewOrder(i)]
    BY <1>1, OrderTypes DEF RegisterNewIntent, Known
  <2>2. CASE c = i.client
    <3>1. ledger[c] = <<>>
      <4>1. ledger[c] # <<>> => ledger[c][Len(ledger[c])] \in Row
        BY DEF TypeOK
      <4>2. \A row \in Row : row.to # "absent"
        BY DEF Row, ProviderStatuses, NoFillStatuses, TerminalStatuses
      <4>3. QED
        BY <2>1, <2>2, <4>1, <4>2 DEF LedgerExplainsOrder, LedgerEndsAt
    <3>2. NewOrder(i).status = "intent_created" /\ NewOrder(i).filled = 0
            /\ NewOrder(i).seq = Never
      BY DEF NewOrder, Absent
    <3>3. QED
      BY <2>1, <2>2, <3>1, <3>2 DEF LedgerExplainsOrder, LedgerEndsAt, TypeOK
  <2>3. CASE c # i.client
    BY <2>1, <2>3 DEF LedgerExplainsOrder, TypeOK
  <2>4. QED
    BY <2>2, <2>3
<1>2. ASSUME NEW u \in Updates, NEW r \in Instants, ApplyUpdate(u, r),
             NEW c \in Clients
      PROVE  LedgerChains(ledger'[c]) /\ LedgerEndsAt(ledger'[c], orders'[c])
  <2> DEFINE o == orders[u.client]
             rows == ledger[u.client]
             row == RowOf(o, u)
  <2>1. /\ ledger'[u.client] = Append(rows, row) /\ rows \in Seq(Row)
        /\ orders'[u.client] = After(o, u, r)
        /\ o \in Order /\ u \in Update /\ o.status # "absent"
        /\ Valid(o, u, r) /\ u.client \in Clients
        /\ (c # u.client => ledger'[c] = ledger[c] /\ orders'[c] = orders[c])
    BY <1>2, ApplyEffect
  <2>2. CASE c # u.client
    BY <2>1, <2>2 DEF LedgerExplainsOrder
  <2>3. CASE c = u.client
    <3>1. /\ row.from = o.status /\ row.to = u.status /\ row.seq = u.seq
          /\ row.cum = u.filled /\ row.cum = o.filled + row.inc
          /\ row.seq > o.seq /\ IsTransitionAllowed(row.from, row.to)
      BY <2>1 DEF RowOf, Valid, InOrder, Update, Order
    <3>2. LedgerEndsAt(Append(rows, row), After(o, u, r))
      <4>1. Len(Append(rows, row)) = Len(rows) + 1
              /\ Append(rows, row)[Len(rows) + 1] = row
              /\ Append(rows, row) # <<>>
        <5> HIDE DEF row, rows, o
        <5>1. QED
          BY <2>1, Appended
      <4> HIDE DEF row, rows, o
      <4>2. /\ After(o, u, r).status = row.to
            /\ After(o, u, r).filled = row.cum
            /\ After(o, u, r).seq = row.seq
        <5>1. /\ After(o, u, r).status = u.status
              /\ After(o, u, r).filled = u.filled
              /\ After(o, u, r).seq = u.seq
          BY <2>1, AfterFields
        <5>2. QED
          BY <3>1, <5>1
      <4>3. QED
        BY <4>1, <4>2 DEF LedgerEndsAt
    <3>3. LedgerChains(Append(rows, row))
      <4>1. LedgerChains(rows) /\ LedgerEndsAt(rows, o)
        BY <2>1 DEF LedgerExplainsOrder
      <4> HIDE DEF rows, row, o
      <4>2. ASSUME NEW n \in DOMAIN rows
            PROVE  IF n = 1
                   THEN RowFollows("intent_created", 0, Never, Append(rows, row)[1])
                   ELSE RowFollows(Append(rows, row)[n-1].to, Append(rows, row)[n-1].cum,
                                   Append(rows, row)[n-1].seq, Append(rows, row)[n])
        <5>1. Append(rows, row)[n] = rows[n]
                /\ (n # 1 => Append(rows, row)[n-1] = rows[n-1])
          BY <2>1
        <5>2. QED
          BY <4>1, <5>1 DEF LedgerChains
      <4>3. CASE rows = <<>>
        <5>1. Append(rows, row) = <<row>>
          BY <4>3
        <5>2. RowFollows("intent_created", 0, Never, row)
          BY <2>1, <3>1, <4>1, <4>3 DEF LedgerEndsAt, RowFollows
        <5>3. QED
          BY <5>1, <5>2 DEF LedgerChains
      <4>4. CASE rows # <<>>
        <5> DEFINE k == Len(rows)
        <5>1. /\ k \in Nat \ {0} /\ DOMAIN Append(rows, row) = 1..(k + 1)
              /\ Append(rows, row)[k + 1] = row /\ Append(rows, row)[k] = rows[k]
              /\ DOMAIN rows = 1..k
          BY <2>1, <4>4
        <5>2. RowFollows(rows[k].to, rows[k].cum, rows[k].seq, row)
          BY <2>1, <3>1, <4>1, <4>4 DEF LedgerEndsAt, RowFollows
        <5> DEFINE new == Append(rows, row)
        <5>3. \A n \in 1..k :
                IF n = 1
                THEN RowFollows("intent_created", 0, Never, new[1])
                ELSE RowFollows(new[n-1].to, new[n-1].cum, new[n-1].seq, new[n])
          BY <4>2, <5>1
        <5>4. RowFollows(new[k].to, new[k].cum, new[k].seq, new[k + 1])
          BY <5>1, <5>2
        <5> HIDE DEF new, k
        <5>5. \A n \in 1..(k + 1) :
                IF n = 1
                THEN RowFollows("intent_created", 0, Never, new[1])
                ELSE RowFollows(new[n-1].to, new[n-1].cum, new[n-1].seq, new[n])
          <6>1. ASSUME NEW n \in 1..(k + 1), n \notin 1..k
                PROVE  n = k + 1 /\ n # 1 /\ n - 1 = k
            BY <5>1, <6>1
          <6>2. QED
            BY <5>3, <5>4, <6>1
        <5>6. QED
          BY <5>1, <5>5 DEF LedgerChains, new
      <4>5. QED
        BY <4>3, <4>4
    <3>4. QED
      BY <2>1, <2>3, <3>2, <3>3
  <2>4. QED
    BY <2>2, <2>3
<1>3. ASSUME OnlyFlags, NEW c \in Clients
      PROVE  LedgerChains(ledger'[c]) /\ LedgerEndsAt(ledger'[c], orders'[c])
  <2>1. /\ ledger'[c] = ledger[c]
        /\ orders'[c].status = orders[c].status
        /\ orders'[c].filled = orders[c].filled
        /\ orders'[c].seq = orders[c].seq
    BY <1>3 DEF OnlyFlags, TypeOK, Order
  <2>2. QED
    BY <2>1 DEF LedgerExplainsOrder, LedgerEndsAt
<1>4. QED
  BY <1>1, <1>2, <1>3, StepKinds DEF LedgerExplainsOrder

\* The applied rows of an order chain from its intent to its present state.
THEOREM LedgerSound == Spec => []LedgerExplainsOrder
<1>1. Init => LedgerExplainsOrder
  <2>1. ASSUME Init, NEW c \in Clients
        PROVE  LedgerChains(ledger[c]) /\ LedgerEndsAt(ledger[c], orders[c])
    <3>1. ledger[c] = <<>> /\ orders[c] = Absent
      BY <2>1 DEF Init
    <3>2. LedgerChains(<<>>)
      BY DEF LedgerChains
    <3>3. LedgerEndsAt(<<>>, Absent)
      BY DEF LedgerEndsAt, Absent
    <3>4. QED
      BY <3>1, <3>2, <3>3
  <2>2. QED
    BY <2>1 DEF LedgerExplainsOrder
<1>2. TypeOK /\ LedgerExplainsOrder /\ [Next]_vars => LedgerExplainsOrder'
  BY LedgerStep
<1>3. QED
  BY <1>1, <1>2, TypeCorrect, PTL DEF Spec

-----------------------------------------------------------------------------
(* Fills agree with statuses, and what is over stays over. *)

FillOK(o) ==
  /\ o.filled <= o.quantity
  /\ o.status = "filled" => o.filled = o.quantity
  /\ o.status = "partially_filled" => 0 < o.filled /\ o.filled < o.quantity
  /\ o.status \in NoFillStatuses => o.filled = 0
  /\ (o.filled = 0) <=> (o.price = None)
  /\ (o.broker = None) <=> (o.status \in {"absent", "intent_created"})
  /\ o.status = "replaced" => o.replacement \notin {None, o.broker}

\* A valid message leaves an order whose fill agrees with its status.
LEMMA ValidKeepsFill ==
  ASSUME ConstantsAssumption, NEW o \in Order, NEW u \in Update, NEW r,
         Valid(o, u, r)
  PROVE  FillOK(After(o, u, r))
<1> DEFINE a == After(o, u, r)
<1>1. /\ a.status = u.status /\ a.filled = u.filled /\ a.price = u.price
      /\ a.replacement = u.replacement /\ a.broker = BoundBroker(o, u)
      /\ a.quantity = o.quantity
  BY AfterFields
<1> HIDE DEF a
<1>2. BoundBroker(o, u) = u.broker /\ u.broker # None
  BY DEF Valid, SameIdentity, BoundBroker, Update, ConstantsAssumption
<1>3. u.status \notin {"absent", "intent_created"}
  BY DEF Update, ProviderStatuses, NoFillStatuses, TerminalStatuses
<1>4. FillsConsistent(o, u)
  BY DEF Valid
<1>5. FillOK(a)
  BY <1>1, <1>2, <1>3, <1>4 DEF FillOK, FillsConsistent
<1>6. QED
  BY <1>5 DEF a

\* Every step keeps the agreement of fill, status and price: flags touch none
\* of them, a new order is blank, and a booked message was validated.
LEMMA FillStep ==
  ASSUME TypeOK, FillMatchesStatus, [Next]_vars
  PROVE  FillMatchesStatus'
<1> USE ConstantsAssumption
<1>0. \A c \in Clients : FillOK(orders[c])
  BY DEF FillMatchesStatus, FillOK
<1>1. ASSUME NEW i \in Intents, RegisterNewIntent(i), NEW c \in Clients
      PROVE  FillOK(orders'[c])
  <2>1. /\ i \in Intent /\ i.client \in Clients
        /\ orders' = [orders EXCEPT ![i.client] = NewOrder(i)]
    BY <1>1, OrderTypes DEF RegisterNewIntent, ConstantsAssumption
  <2>2. FillOK(NewOrder(i))
    BY <2>1 DEF FillOK, NewOrder, Absent, Intent, NoFillStatuses
  <2>3. QED
    BY <1>0, <2>1, <2>2 DEF TypeOK
<1>2. ASSUME NEW u \in Updates, NEW r \in Instants, ApplyUpdate(u, r), NEW c \in Clients
      PROVE  FillOK(orders'[c])
  <2>1. FillOK(After(orders[u.client], u, r))
    BY <1>2, ApplyEffect, ValidKeepsFill
  <2>2. QED
    BY <1>0, <1>2, <2>1, ApplyEffect
<1>3. ASSUME OnlyFlags, NEW c \in Clients
      PROVE  FillOK(orders'[c])
  <2>1. /\ orders'[c].status = orders[c].status
        /\ orders'[c].filled = orders[c].filled
        /\ orders'[c].price = orders[c].price
        /\ orders'[c].quantity = orders[c].quantity
        /\ orders'[c].broker = orders[c].broker
        /\ orders'[c].replacement = orders[c].replacement
    BY <1>3 DEF OnlyFlags, TypeOK, Order
  <2>2. QED
    BY <1>0, <2>1 DEF FillOK
<1>4. \A c \in Clients : FillOK(orders'[c])
  BY <1>1, <1>2, <1>3, StepKinds
<1>5. QED
  BY <1>4 DEF FillMatchesStatus, FillOK

\* In every reachable state the fill agrees with the status, size and price.
THEOREM FillsSound == Spec => []FillMatchesStatus
<1>1. Init => FillMatchesStatus
  <2>1. FillOK(Absent)
    BY DEF FillOK, Absent, NoFillStatuses
  <2>2. QED
    BY <2>1 DEF Init, FillMatchesStatus, FillOK
<1>2. TypeOK /\ FillMatchesStatus /\ [Next]_vars => FillMatchesStatus'
  BY FillStep
<1>3. QED
  BY <1>1, <1>2, TypeCorrect, PTL DEF Spec

Frozen(c) ==
  /\ Terminal(c) =>
       /\ orders'[c].status = orders[c].status
       /\ orders'[c].filled = orders[c].filled
       /\ orders'[c].price = orders[c].price
       /\ orders'[c].replacement = orders[c].replacement
  /\ orders[c].broker # None => orders'[c].broker = orders[c].broker

\* No legal transition leaves a terminal status.
LEMMA NoWayOut ==
  ASSUME NEW s \in TerminalStatuses, NEW t, IsTransitionAllowed(s, t)
  PROVE  t = s
BY DEF TerminalStatuses, IsTransitionAllowed, LegalTransitions

\* No step changes a terminal order: a message validated against it repeats
\* its status, fill and replacement.
LEMMA FrozenStep ==
  ASSUME TypeOK, FillMatchesStatus, [Next]_vars, NEW c \in Clients
  PROVE  Frozen(c)
<1> USE ConstantsAssumption
<1>1. ASSUME NEW i \in Intents, RegisterNewIntent(i)
      PROVE  Frozen(c)
  <2>1. /\ i.client \in Clients /\ orders[i.client].status = "absent"
        /\ orders' = [orders EXCEPT ![i.client] = NewOrder(i)]
    BY <1>1, OrderTypes DEF RegisterNewIntent, Known
  <2>2. CASE c = i.client
    <3>1. ~Terminal(c) /\ orders[c].broker = None
      BY <2>1, <2>2 DEF Terminal, TerminalStatuses, FillMatchesStatus
    <3>2. QED
      BY <3>1 DEF Frozen
  <2>3. CASE c # i.client
    BY <2>1, <2>3 DEF Frozen, TypeOK
  <2>4. QED
    BY <2>2, <2>3
<1>2. ASSUME NEW u \in Updates, NEW r \in Instants, ApplyUpdate(u, r)
      PROVE  Frozen(c)
  <2>1. CASE c # u.client
    BY <1>2, <2>1, ApplyEffect DEF Frozen
  <2>2. CASE c = u.client
    <3>1. /\ orders[c] \in Order /\ u \in Update /\ Valid(orders[c], u, r)
          /\ orders'[c] = After(orders[c], u, r)
      BY <1>2, <2>2, ApplyEffect
    <3>2. /\ orders'[c].status = u.status /\ orders'[c].filled = u.filled
          /\ orders'[c].price = u.price /\ orders'[c].replacement = u.replacement
          /\ orders'[c].broker = BoundBroker(orders[c], u)
      BY <3>1, AfterFields
    <3>3. Terminal(c) => u.status = orders[c].status
      BY <3>1, NoWayOut DEF Terminal, Valid
    <3>4. QED
      BY <3>1, <3>2, <3>3 DEF Frozen, Terminal, Valid, FillsConsistent, BoundBroker
  <2>3. QED
    BY <2>1, <2>2
<1>3. CASE OnlyFlags
  BY <1>3 DEF OnlyFlags, Frozen, TypeOK, Order
<1>4. QED
  BY <1>1, <1>2, <1>3, StepKinds

\* Terminal orders never change again and a bound broker id is never rebound.
THEOREM WhatIsOverStaysOver == Spec => TerminalFrozen
<1>1. TypeOK /\ FillMatchesStatus /\ [Next]_vars =>
        [\A c \in Clients :
          /\ Terminal(c) =>
               /\ orders'[c].status = orders[c].status
               /\ orders'[c].filled = orders[c].filled
               /\ orders'[c].price = orders[c].price
               /\ orders'[c].replacement = orders[c].replacement
          /\ orders[c].broker # None => orders'[c].broker = orders[c].broker]_vars
  BY FrozenStep DEF Frozen
<1>2. QED
  BY <1>1, TypeCorrect, FillsSound, PTL DEF Spec, TerminalFrozen

-----------------------------------------------------------------------------
(* A timeout check flags every overdue order.  Its key suppresses a second  *)
(* diagnostic, so the invariant says that a key is only ever kept for an    *)
(* order that is flagged, and that the loop knows every order there is.     *)

KeysAreFlagged ==
  \A k \in timeoutKeys :
    k.client \in Clients /\ Known(k.client) /\ orders[k.client].recovery

KnownAreBooked == \A c \in Clients : Known(c) => \E n \in DOMAIN book : book[n] = c

TimeoutInv == TypeOK /\ KeysAreFlagged /\ KnownAreBooked

\* What a timeout check adds to the keys, and what it flags.
LEMMA CheckedKeys ==
  ASSUME TypeOK, NEW t \in Instants, CheckTimeouts(t)
  PROVE  /\ \A c \in Clients : c \in Expiring(t) => orders'[c].recovery
         /\ \A k \in timeoutKeys' :
              k \in timeoutKeys \/ \E c \in Expiring(t) : k.client = c
<1>1. ASSUME NEW c \in Expiring(t)
      PROVE  orders'[c].recovery
  <2>1. c \in Clients /\ orders[c] \in Order
    BY DEF Expiring, TypeOK
  <2>2. orders'[c] = [orders[c] EXCEPT !.recovery = TRUE]
    BY <2>1 DEF CheckTimeouts
  <2>3. QED
    BY <2>1, <2>2 DEF Order
<1>2. \A c \in Expiring(t) : TimeoutKey(c).client = c
  BY DEF TimeoutKey
<1>3. QED
  BY <1>1, <1>2 DEF CheckTimeouts

\* No step takes back the flag of an order that a key is kept for, and every
\* order enters the book when it is registered.
LEMMA TimeoutStep ==
  ASSUME TimeoutInv, [Next]_vars
  PROVE  TimeoutInv'
<1> USE ConstantsAssumption
<1>1. TypeOK /\ KeysAreFlagged /\ KnownAreBooked /\ TypeOK'
  BY TypeStep DEF TimeoutInv
<1>2. SUFFICES KeysAreFlagged' /\ KnownAreBooked'
  BY <1>1 DEF TimeoutInv
<1>3. ASSUME NEW i \in Intents, RegisterNewIntent(i)
      PROVE  KeysAreFlagged' /\ KnownAreBooked'
  <2>1. /\ i.client \in Clients /\ ~Known(i.client) /\ timeoutKeys' = timeoutKeys
        /\ \A c \in Clients \ {i.client} : orders'[c] = orders[c]
        /\ book' = Append(book, i.client) /\ book \in Seq(Clients)
    BY <1>1, <1>3, OrderTypes DEF RegisterNewIntent, TypeOK
  <2>2. KeysAreFlagged'
    BY <1>1, <2>1 DEF KeysAreFlagged, Known
  <2>3. /\ Len(book) + 1 \in DOMAIN book' /\ book'[Len(book) + 1] = i.client
        /\ \A n \in DOMAIN book : n \in DOMAIN book' /\ book'[n] = book[n]
    BY <2>1
  <2>4. KnownAreBooked'
    BY <1>1, <2>1, <2>3 DEF KnownAreBooked, Known
  <2>5. QED
    BY <2>2, <2>4
<1>4. ASSUME NEW u \in Updates, NEW r \in Instants, ApplyUpdate(u, r)
      PROVE  KeysAreFlagged' /\ KnownAreBooked'
  <2>1. \A c \in Clients :
          /\ orders[c].recovery => orders'[c].recovery
          /\ Known(c)' <=> Known(c)
    <3>1. /\ orders'[u.client].recovery = orders[u.client].recovery
          /\ orders'[u.client].status = u.status
      BY <1>1, <1>4, ApplyEffect, AfterFields
    <3>2. u.status # "absent" /\ Known(u.client)
      BY <1>4 DEF ApplyUpdate, ConstantsAssumption, Update, ProviderStatuses,
                  NoFillStatuses, TerminalStatuses
    <3>3. QED
      BY <1>1, <1>4, <3>1, <3>2, ApplyEffect DEF Known
  <2>2. timeoutKeys' = timeoutKeys /\ book' = book
    BY <1>4 DEF ApplyUpdate
  <2>3. QED
    BY <1>1, <2>1, <2>2 DEF KeysAreFlagged, KnownAreBooked
<1>5. ASSUME OnlyFlags, ~\E i \in Intents : RegisterNewIntent(i)
      PROVE  KeysAreFlagged' /\ KnownAreBooked'
  <2>1. \A c \in Clients :
          /\ orders[c].recovery => orders'[c].recovery
          /\ Known(c)' <=> Known(c)
    BY <1>1, <1>5 DEF OnlyFlags, Known, TypeOK, Order
  <2>2. book' = book
    BY <1>5
    DEF Next, vars, RegisterIntent, RepeatIntent, ConflictingIntent, Deliver, ApplyUpdate,
        RejectUpdate, IgnoreDuplicate, ConflictingEvent, DeliverInvalid,
        RecordInvalidEvent, IgnoreInvalidDuplicate, ConflictingInvalidEvent, CheckTimeouts
  <2>3. CASE timeoutKeys' = timeoutKeys
    BY <1>1, <2>1, <2>2, <2>3 DEF KeysAreFlagged, KnownAreBooked
  <2>4. ASSUME NEW t \in Instants, CheckTimeouts(t)
        PROVE  KeysAreFlagged' /\ KnownAreBooked'
    <3>1. \A c \in Expiring(t) : c \in Clients /\ Known(c)
      BY DEF Expiring, Overdue, Awaiting
    <3>2. QED
      BY <1>1, <2>1, <2>2, <2>4, <3>1, CheckedKeys DEF KeysAreFlagged, KnownAreBooked
  <2>5. timeoutKeys' = timeoutKeys \/ \E t \in Instants : CheckTimeouts(t)
    BY <1>5
    DEF Next, vars, RegisterIntent, RepeatIntent, ConflictingIntent, Deliver, ApplyUpdate,
        RejectUpdate, IgnoreDuplicate, ConflictingEvent, DeliverInvalid,
        RecordInvalidEvent, IgnoreInvalidDuplicate, ConflictingInvalidEvent
  <2>6. QED
    BY <2>3, <2>4, <2>5
<1>6. QED
  BY <1>1, <1>3, <1>4, <1>5, StepKinds

\* A timeout check leaves no overdue order that it came to without its recovery
\* flag, whether it returns or raises further on, and whether it made the
\* diagnostic of the order itself or found the key of an earlier one.
THEOREM OverdueFlagged == Spec => OverdueIsFlagged
<1>1. Init => TimeoutInv
  <2>1. Init => KeysAreFlagged /\ KnownAreBooked
    BY DEF Init, KeysAreFlagged, KnownAreBooked, Known, Absent
  <2>2. Init => TypeOK
    BY InitTypes
  <2>3. QED
    BY <2>1, <2>2 DEF TimeoutInv
<1>2. TimeoutInv /\ [Next]_vars => TimeoutInv'
  BY TimeoutStep
<1>3. TimeoutInv =>
        [\A asOf \in Instants : CheckTimeouts(asOf) =>
           \A c \in Clients : Overdue(c, asOf) /\ ~BlockedBefore(c, asOf)
                                => orders'[c].recovery]_vars
  <2>1. SUFFICES ASSUME TimeoutInv, NEW t \in Instants, CheckTimeouts(t),
                        NEW c \in Clients, Overdue(c, t), ~BlockedBefore(c, t)
                 PROVE  orders'[c].recovery
    OBVIOUS
  <2>2. TypeOK /\ KeysAreFlagged /\ KnownAreBooked
    BY <2>1 DEF TimeoutInv
  <2>3. Reached(c, t)
    <3>1. PICK n \in DOMAIN book : book[n] = c
      BY <2>1, <2>2 DEF KnownAreBooked, Overdue, Awaiting
    <3>2. \A k \in 1..n : k \in DOMAIN book /\ k <= n
      BY <2>2, <3>1 DEF TypeOK
    <3>3. \A k \in 1..n : ~Blocks(book[k], t)
      BY <2>1, <3>1, <3>2 DEF BlockedBefore
    <3>4. QED
      BY <3>1, <3>3 DEF Reached
  <2>4. CASE TimeoutKey(c) \in timeoutKeys
    <3>1. TimeoutKey(c).client = c
      BY DEF TimeoutKey
    <3>2. orders[c].recovery
      BY <2>2, <2>4, <3>1 DEF KeysAreFlagged
    <3>3. QED
      BY <2>1, <2>2, <3>2, TimeoutOnlyFlags DEF OnlyFlags
  <2>5. CASE TimeoutKey(c) \notin timeoutKeys
    <3>1. c \in Expiring(t)
      BY <2>1, <2>3, <2>5 DEF Expiring
    <3>2. QED
      BY <2>1, <2>2, <3>1, CheckedKeys
  <2>6. QED
    BY <2>4, <2>5
<1>4. QED
  BY <1>1, <1>2, <1>3, PTL DEF Spec, OverdueIsFlagged

=============================================================================
