------------------------- MODULE StreamMonitorProofs -------------------------
(***************************************************************************)
(* Proofs about StreamMonitor for every set of events and instants, every  *)
(* threshold, every backoff schedule and every depth of the audit trail,   *)
(* and about the operational gate for every set of snapshots.              *)
(***************************************************************************)
EXTENDS OperationalGate, FoldLemmas, SequenceTheorems, TLAPS

(***************************************************************************)
(* The audit trail.  A step appends one row and may lose the oldest one;   *)
(* `dropped' rows are lost, and the others keep their order.               *)
(***************************************************************************)
Extends(row, dropped) ==
  /\ dropped <= Len(audit)
  /\ Len(audit') = Len(audit) + 1 - dropped
  /\ \A i \in 1..Len(audit) : i > dropped => audit'[i - dropped] = audit[i]
  /\ audit'[Len(audit')] = row

\* Appending keeps the trail a trail of bounded length, and moves its rows
\* together.
LEMMA AuditedRow ==
  ASSUME TypeOK, NEW action, NEW at, Audited(action, at),
         [action |-> action, from |-> state, to |-> state', at |-> at] \in Row
  PROVE  /\ audit' \in Seq(Row) /\ Len(audit') <= AuditDepth
         /\ \E dropped \in {0, 1} :
              Extends([action |-> action, from |-> state, to |-> state',
                       at |-> at], dropped)
<1> DEFINE row == [action |-> action, from |-> state, to |-> state', at |-> at]
           longer == Append(audit, row)
<1>1. audit \in Seq(Row) /\ row \in Row /\ Len(audit) \in Nat
  BY LenProperties DEF TypeOK
<1>2. /\ longer \in Seq(Row) /\ longer # <<>> /\ Len(longer) = Len(audit) + 1
      /\ \A i \in 1..Len(audit) : longer[i] = audit[i]
      /\ longer[Len(audit) + 1] = row
  <2> HIDE DEF row
  <2>1. QED
    BY <1>1, AppendProperties
<1>3. audit' = IF Len(longer) > AuditDepth THEN Tail(longer) ELSE longer
  BY DEF Audited
<1>4. AuditDepth \in Nat \ {0} /\ Len(audit) <= AuditDepth
  BY MonitorAssumption DEF TypeOK
<1> HIDE DEF row, longer
<1>5. CASE Len(longer) > AuditDepth
  <2>1. audit' = Tail(longer)
    BY <1>3, <1>5
  <2>2. /\ audit' \in Seq(Row) /\ Len(audit') = Len(audit)
        /\ \A i \in 1..Len(audit) : audit'[i] = longer[i + 1]
    BY <1>1, <1>2, <2>1, HeadTailProperties
  <2>3. Len(audit) >= 1
    BY <1>1, <1>2, <1>4, <1>5
  <2>4. audit'[Len(audit')] = row
    BY <1>1, <1>2, <2>2, <2>3
  <2>5. ASSUME NEW i \in 1..Len(audit), i > 1
        PROVE  audit'[i - 1] = audit[i]
    <3>1. i - 1 \in 1..Len(audit) /\ (i - 1) + 1 = i
      BY <1>1, <2>5
    <3>2. audit'[i - 1] = longer[(i - 1) + 1]
      BY <2>2, <3>1
    <3>3. QED
      BY <1>2, <3>1, <3>2
  <2>6. Extends(row, 1)
    BY <1>1, <2>2, <2>3, <2>4, <2>5 DEF Extends
  <2>7. QED
    BY <1>4, <2>2, <2>6 DEF row
<1>6. CASE ~(Len(longer) > AuditDepth)
  <2>1. audit' = longer
    BY <1>3, <1>6
  <2>2. Extends(row, 0)
    BY <1>1, <1>2, <2>1 DEF Extends
  <2>3. Len(audit') <= AuditDepth
    BY <1>1, <1>2, <1>4, <1>6, <2>1
  <2>4. QED
    BY <1>2, <2>1, <2>2, <2>3 DEF row
<1>7. QED
  BY <1>5, <1>6

\* The count of failures reaches its maximum only where it ends: without this
\* the type of the count does not survive the next failure.
AttemptsLeft == state = "reconnecting" => attempts < MaxAttempts

TypeInv == TypeOK /\ AttemptsLeft

LEMMA TypeInvariance == TypeInv /\ [Next]_vars => TypeInv'
<1> SUFFICES ASSUME TypeOK, AttemptsLeft, [Next]_vars
             PROVE  TypeOK' /\ AttemptsLeft'
  BY DEF TypeInv
<1> USE DEF States, ReasonCodes
<1>1. /\ Instants \subseteq Nat /\ Started \in Instants /\ None \notin Nat
      /\ Len(Backoff) \in Nat /\ Len(Backoff) >= 1
      /\ \A i \in 1..Len(Backoff) : Backoff[i] \in Nat
  <2>1. Backoff \in Seq(Nat \ {0}) /\ Backoff # <<>>
    BY MonitorAssumption
  <2>2. Len(Backoff) \in Nat /\ \A i \in 1..Len(Backoff) : Backoff[i] \in Nat \ {0}
    BY <2>1, LenProperties, ElementOfSeq
  <2>3. Len(Backoff) >= 1
    BY <2>1, <2>2, EmptySeq
  <2>4. QED
    BY <2>2, <2>3, MonitorAssumption
<1>2. ASSUME NEW action, NEW at \in Instants, Audited(action, at),
             state' \in States,
             action \in {"message_received", "stream_stale", "reconnect_scheduled",
                         "circuit_opened", "reconnect_failed", "reconnected",
                         "kill_switch_latched"}
      PROVE  audit' \in Seq(Row) /\ Len(audit') <= AuditDepth
  <2>1. [action |-> action, from |-> state, to |-> state', at |-> at] \in Row
    BY <1>2 DEF Row, TypeOK
  <2>2. QED
    BY <1>2, <2>1, AuditedRow
<1>3. ASSUME NEW e \in EventIds, NEW eventAt \in Instants,
             NEW receivedAt \in Instants, RecordMessage(e, eventAt, receivedAt)
      PROVE  TypeOK' /\ AttemptsLeft'
  <2>1. audit' \in Seq(Row) /\ Len(audit') <= AuditDepth
    BY <1>2, <1>3 DEF RecordMessage
  <2>2. QED
    BY <1>1, <1>3, <2>1 DEF RecordMessage, TypeOK, MaxAttempts, AttemptsLeft
<1>4. ASSUME NEW at \in Instants, Evaluate(at)
      PROVE  TypeOK' /\ AttemptsLeft'
  <2>1. audit' \in Seq(Row) /\ Len(audit') <= AuditDepth
    BY <1>2, <1>4 DEF Evaluate, TypeOK
  <2>2. state' \in States /\ reasons' \subseteq ReasonCodes
    BY <1>4 DEF Evaluate, TypeOK
  <2>3. checked' \in Instants \cup {None}
    BY <1>4 DEF Evaluate, TypeOK, Later
  <2>4. QED
    BY <1>4, <2>1, <2>2, <2>3 DEF Evaluate, TypeOK, messages, MaxAttempts, AttemptsLeft
<1>5. ASSUME NEW at \in Instants, BeginReconnect(at)
      PROVE  TypeOK' /\ AttemptsLeft'
  <2>1. audit' \in Seq(Row) /\ Len(audit') <= AuditDepth
    BY <1>2, <1>5 DEF BeginReconnect
  <2>2. QED
    BY <1>1, <1>5, <2>1 DEF BeginReconnect, TypeOK, messages, MaxAttempts, AttemptsLeft
<1>6. ASSUME NEW at \in Instants, RetryLater(at)
      PROVE  TypeOK' /\ AttemptsLeft'
  <2>1. audit' \in Seq(Row) /\ Len(audit') <= AuditDepth
    BY <1>2, <1>6 DEF RetryLater, TypeOK
  <2>2. attempts' \in 0..MaxAttempts /\ attempts + 2 \in 1..Len(Backoff)
    BY <1>1, <1>6 DEF RetryLater, TypeOK, MaxAttempts, AttemptsLeft
  <2>3. QED
    BY <1>1, <1>6, <2>1, <2>2 DEF RetryLater, TypeOK, messages, MaxAttempts, AttemptsLeft
<1>7. ASSUME NEW at \in Instants, OpenCircuit(at)
      PROVE  TypeOK' /\ AttemptsLeft'
  <2>1. audit' \in Seq(Row) /\ Len(audit') <= AuditDepth
    BY <1>2, <1>7 DEF OpenCircuit
  <2>2. attempts' \in 0..MaxAttempts
    BY <1>1, <1>7 DEF OpenCircuit, RetryDue, TypeOK, MaxAttempts, AttemptsLeft
  <2>3. QED
    BY <1>1, <1>7, <2>1, <2>2 DEF OpenCircuit, TypeOK, messages, AttemptsLeft
<1>8. ASSUME NEW at \in Instants, ReconnectSuccess(at)
      PROVE  TypeOK' /\ AttemptsLeft'
  <2>1. audit' \in Seq(Row) /\ Len(audit') <= AuditDepth
    BY <1>2, <1>8 DEF ReconnectSuccess
  <2>2. QED
    BY <1>1, <1>8, <2>1 DEF ReconnectSuccess, TypeOK, messages, MaxAttempts, AttemptsLeft
<1>9. ASSUME NEW at \in Instants, EngageKillSwitch(at)
      PROVE  TypeOK' /\ AttemptsLeft'
  <2>1. audit' \in Seq(Row) /\ Len(audit') <= AuditDepth
    BY <1>2, <1>9 DEF EngageKillSwitch
  <2>2. QED
    BY <1>1, <1>9, <2>1 DEF EngageKillSwitch, TypeOK, messages, MaxAttempts, AttemptsLeft
<1>10. CASE UNCHANGED vars
  BY <1>1, <1>10 DEF vars, TypeOK, MaxAttempts, AttemptsLeft
<1>11. QED
  BY <1>3, <1>4, <1>5, <1>6, <1>7, <1>8, <1>9, <1>10 DEF Next

LEMMA TypeStart == Init => TypeInv
<1> SUFFICES ASSUME Init
             PROVE  TypeInv
  OBVIOUS
<1>1. MaxAttempts \in Nat /\ audit \in Seq(Row) /\ Len(audit) = 0
  BY MonitorAssumption, LenProperties DEF MaxAttempts, Init
<1>2. AuditDepth >= 0 /\ state \in States /\ reasons \subseteq ReasonCodes
  BY MonitorAssumption DEF Init, States, ReasonCodes
<1>3. QED
  BY <1>1, <1>2 DEF Init, TypeInv, TypeOK, AttemptsLeft

\* The type invariant of the monitor: every call leaves every field of
\* StreamHealthMonitor in its type.
THEOREM TypeCorrect == Spec => []TypeOK
<1>1. Init => TypeInv
  BY TypeStart
<1>2. TypeInv /\ [Next]_vars => TypeInv'
  BY TypeInvariance
<1>3. TypeInv => TypeOK
  BY DEF TypeInv
<1>4. QED
  BY <1>1, <1>2, <1>3, PTL DEF Spec

-----------------------------------------------------------------------------
(* Reasons, freshness, latches *)

\* What each state says of the reasons: the equivalence of ReasonsExplainState
\* does not by itself survive a breaker that opens on other reasons.
ReasonsFollow ==
  /\ state = "healthy" => reasons = {}
  /\ state \in {"stale", "reconnecting"} => reasons = {"stream_stale"}
  /\ state = "circuit_open" => reasons = {"stream_stale", "reconnect_exhausted"}
  /\ "kill_switch_latched" \in reasons <=> state = "killed"

\* A healthy stream has had a message, and no check since has found it old.
HealthIsRecent ==
  state = "healthy" =>
    /\ lastReceived # None
    /\ checked # None => checked - lastReceived <= StaleAfter

LEMMA ReasonsInvariance == TypeOK /\ ReasonsFollow /\ [Next]_vars => ReasonsFollow'
<1> SUFFICES ASSUME TypeOK, ReasonsFollow, [Next]_vars
             PROVE  ReasonsFollow'
  OBVIOUS
<1> USE DEF TypeOK, States, ReasonsFollow
<1>1. ASSUME NEW e \in EventIds, NEW eventAt \in Instants,
             NEW receivedAt \in Instants, RecordMessage(e, eventAt, receivedAt)
      PROVE  ReasonsFollow'
  BY <1>1 DEF RecordMessage, Refuses, RefusesTimes, Terminal
<1>2. ASSUME NEW at \in Instants, Evaluate(at)
      PROVE  ReasonsFollow'
  BY <1>2 DEF Evaluate, Terminal
<1>3. ASSUME NEW at \in Instants,
             BeginReconnect(at) \/ RetryLater(at) \/ OpenCircuit(at)
      PROVE  ReasonsFollow'
  BY <1>3 DEF BeginReconnect, RetryLater, OpenCircuit, RetryDue
<1>4. ASSUME NEW at \in Instants, ReconnectSuccess(at) \/ EngageKillSwitch(at)
      PROVE  ReasonsFollow'
  BY <1>4 DEF ReconnectSuccess, RetryDue, EngageKillSwitch
<1>5. CASE UNCHANGED vars
  BY <1>5 DEF vars
<1>6. QED
  BY <1>1, <1>2, <1>3, <1>4, <1>5 DEF Next

LEMMA RecencyInvariance == TypeOK /\ HealthIsRecent /\ [Next]_vars => HealthIsRecent'
<1> SUFFICES ASSUME TypeOK, HealthIsRecent, [Next]_vars
             PROVE  HealthIsRecent'
  OBVIOUS
<1>a. Instants \subseteq Nat /\ Started \in Instants /\ None \notin Nat /\ StaleAfter \in Nat
  BY MonitorAssumption
<1> USE DEF TypeOK, HealthIsRecent
<1>1. ASSUME NEW e \in EventIds, NEW eventAt \in Instants,
             NEW receivedAt \in Instants, RecordMessage(e, eventAt, receivedAt)
      PROVE  HealthIsRecent'
  BY <1>a, <1>1 DEF RecordMessage
<1>2. ASSUME NEW at \in Instants, Evaluate(at)
      PROVE  HealthIsRecent'
  <2>1. lastReceived' = lastReceived /\ checked' = Later(at, checked)
    BY <1>2 DEF Evaluate, messages
  <2>2. state' = "healthy" => state = "healthy" /\ at - Reference <= StaleAfter
    BY <1>2 DEF Evaluate, States
  <2>3. SUFFICES ASSUME state' = "healthy", checked' # None
                 PROVE  checked' - lastReceived <= StaleAfter
    BY <2>1, <2>2
  <2>4. Reference = lastReceived /\ lastReceived \in Instants
    BY <2>2, <2>3 DEF Reference
  <2>5. QED
    BY <1>a, <2>1, <2>2, <2>3, <2>4 DEF Later
<1>3. ASSUME NEW at \in Instants,
             \/ BeginReconnect(at) \/ RetryLater(at) \/ OpenCircuit(at)
             \/ ReconnectSuccess(at) \/ EngageKillSwitch(at)
      PROVE  HealthIsRecent'
  <2>1. state' # "healthy"
    BY <1>3 DEF BeginReconnect, RetryLater, RetryDue, OpenCircuit,
                ReconnectSuccess, EngageKillSwitch
  <2>2. QED
    BY <2>1
<1>4. CASE UNCHANGED vars
  BY <1>4 DEF vars
<1>5. QED
  BY <1>1, <1>2, <1>3, <1>4 DEF Next

\* The gate can pass exactly when no reason is active, and a latched breaker or
\* kill switch names its reason.
THEOREM ReasonsSound == Spec => []ReasonsExplainState
<1>1. Init => ReasonsFollow
  BY DEF Init, ReasonsFollow
<1>2. TypeOK /\ ReasonsFollow /\ [Next]_vars => ReasonsFollow'
  BY ReasonsInvariance
<1>3. TypeOK /\ ReasonsFollow => ReasonsExplainState
  BY DEF TypeOK, States, ReasonsFollow, ReasonsExplainState, OperationalGatePasses
<1>4. QED
  BY <1>1, <1>2, <1>3, TypeCorrect, PTL DEF Spec

\* A checked stream that is silent does not pass the gate, although the gate
\* reads a cached state and no clock.
THEOREM GateFresh == Spec => []CheckedGateIsFresh
<1>1. Init => HealthIsRecent
  BY DEF Init, HealthIsRecent
<1>2. TypeOK /\ HealthIsRecent /\ [Next]_vars => HealthIsRecent'
  BY RecencyInvariance
<1>3. HealthIsRecent => CheckedGateIsFresh
  BY DEF HealthIsRecent, CheckedGateIsFresh, OperationalGatePasses
<1>4. QED
  BY <1>1, <1>2, <1>3, TypeCorrect, PTL DEF Spec

\* An open circuit is left by the kill switch only, a killed monitor by
\* nothing, and neither takes a message.
THEOREM LatchesHold == Spec => TerminalIsLatched
<1>1. TypeOK /\ [Next]_vars =>
        [Terminal => state' \in {state, "killed"} /\ messages' = messages]_vars
  <2> SUFFICES ASSUME TypeOK, [Next]_vars, Terminal
               PROVE  state' \in {state, "killed"} /\ messages' = messages
    OBVIOUS
  <2>1. ASSUME NEW e \in EventIds, NEW eventAt \in Instants,
               NEW receivedAt \in Instants, RecordMessage(e, eventAt, receivedAt)
        PROVE  FALSE
    BY <2>1 DEF RecordMessage, Refuses, RefusesTimes
  <2>2. ASSUME NEW at \in Instants, \/ Evaluate(at) \/ BeginReconnect(at)
               \/ RetryLater(at) \/ OpenCircuit(at) \/ ReconnectSuccess(at)
        PROVE  FALSE
    BY <2>2 DEF Evaluate, BeginReconnect, RetryLater, OpenCircuit,
                ReconnectSuccess, RetryDue, Terminal
  <2>3. ASSUME NEW at \in Instants, EngageKillSwitch(at)
        PROVE  state' = "killed" /\ messages' = messages
    BY <2>3 DEF EngageKillSwitch
  <2>4. CASE UNCHANGED vars
    BY <2>4 DEF vars, messages
  <2>5. QED
    BY <2>1, <2>2, <2>3, <2>4 DEF Next
<1>2. QED
  BY <1>1, TypeCorrect, PTL DEF Spec, TerminalIsLatched

-----------------------------------------------------------------------------
(* The audit trail *)

\* While a reconnect runs, the trail ends with its schedule and its failures,
\* each a backoff after the row before it, as far back as rows are kept; and
\* the next retry is one backoff after the last of them.
ReconnectTrail ==
  state = "reconnecting" =>
    /\ nextRetry = audit[Len(audit)].at + Backoff[attempts + 1]
    /\ audit # <<>>
    /\ \A k \in 0..attempts : k < Len(audit) =>
         /\ audit[Len(audit) - k].action =
              IF k = attempts THEN "reconnect_scheduled" ELSE "reconnect_failed"
         /\ k > 0 => audit[Len(audit) - k + 1].at - audit[Len(audit) - k].at
                       >= Backoff[attempts - k + 1]

TrailInv == AuditReplays /\ CircuitAfterFullBackoff /\ ReconnectTrail

\* The facts about the trail that every step needs: its length is a number,
\* the kept rows of Extends are rows of the new trail, and the last one is new.
LEMMA RowsMove ==
  ASSUME TypeOK, TypeOK', NEW row, NEW dropped \in {0, 1}, Extends(row, dropped)
  PROVE  /\ Len(audit) \in Nat /\ Len(audit') \in Nat
         /\ DOMAIN audit = 1..Len(audit) /\ DOMAIN audit' = 1..Len(audit')
         /\ Len(audit') = Len(audit) + 1 - dropped
         /\ audit'[Len(audit')] = row /\ Len(audit') >= 1
         /\ \A i \in 1..Len(audit') : i # Len(audit') =>
              i + dropped \in 1..Len(audit) /\ audit'[i] = audit[i + dropped]
<1>1. /\ Len(audit) \in Nat /\ Len(audit') \in Nat
      /\ DOMAIN audit = 1..Len(audit) /\ DOMAIN audit' = 1..Len(audit')
  BY LenProperties DEF TypeOK
<1>2. /\ Len(audit') = Len(audit) + 1 - dropped /\ dropped <= Len(audit)
      /\ audit'[Len(audit')] = row
      /\ \A i \in 1..Len(audit) : i > dropped => audit'[i - dropped] = audit[i]
  BY DEF Extends
<1>3. ASSUME NEW i \in 1..Len(audit'), i # Len(audit')
      PROVE  i + dropped \in 1..Len(audit) /\ audit'[i] = audit[i + dropped]
  <2>1. i + dropped \in 1..Len(audit) /\ i + dropped > dropped
    BY <1>1, <1>2, <1>3
  <2>2. audit'[(i + dropped) - dropped] = audit[i + dropped]
    BY <1>2, <2>1
  <2>3. (i + dropped) - dropped = i
    BY <1>1
  <2>4. QED
    BY <2>1, <2>2, <2>3
<1>4. QED
  BY <1>1, <1>2, <1>3

\* A row that leads from the old state to the new one keeps the chain.
LEMMA ChainKept ==
  ASSUME TypeOK, TypeOK', AuditReplays, NEW row, NEW dropped \in {0, 1},
         Extends(row, dropped), row.from = state, row.to = state'
  PROVE  AuditReplays'
<1>1. /\ Len(audit) \in Nat /\ Len(audit') \in Nat
      /\ DOMAIN audit = 1..Len(audit) /\ DOMAIN audit' = 1..Len(audit')
      /\ Len(audit') = Len(audit) + 1 - dropped
      /\ audit'[Len(audit')] = row /\ Len(audit') >= 1
      /\ \A i \in 1..Len(audit') : i # Len(audit') =>
           i + dropped \in 1..Len(audit) /\ audit'[i] = audit[i + dropped]
  BY RowsMove
<1>2. SUFFICES ASSUME NEW i \in 1..Len(audit')
               PROVE  audit'[i].to = IF i = Len(audit') THEN state'
                                     ELSE audit'[i + 1].from
  BY <1>1 DEF AuditReplays
<1>4. CASE i = Len(audit')
  BY <1>1, <1>4
<1>5. CASE i # Len(audit')
  <2>1. i + dropped \in 1..Len(audit) /\ audit'[i] = audit[i + dropped]
    BY <1>1, <1>5
  <2>2. audit[i + dropped].to = IF i + dropped = Len(audit) THEN state
                                ELSE audit[i + dropped + 1].from
    BY <1>1, <2>1 DEF AuditReplays
  <2>3. CASE i + dropped = Len(audit)
    <3>1. i + 1 = Len(audit')
      BY <1>1, <2>3
    <3>2. audit'[i + 1].from = state
      BY <1>1, <3>1
    <3>3. QED
      BY <1>5, <2>1, <2>2, <2>3, <3>2
  <2>4. CASE i + dropped # Len(audit)
    <3>1. i + 1 \in 1..Len(audit') /\ i + 1 # Len(audit')
      <4>1. Len(audit) \in Nat /\ Len(audit') = Len(audit) + 1 - dropped /\ i \in Nat
        BY <1>1
      <4>2. i + dropped <= Len(audit) /\ i >= 1
        BY <1>1, <2>1
      <4>3. QED
        BY <4>1, <4>2, <2>4
    <3>2. audit'[i + 1] = audit[(i + 1) + dropped]
      BY <1>1, <3>1
    <3>3. (i + 1) + dropped = i + dropped + 1
      BY <1>1, <2>1
    <3>4. QED
      BY <1>5, <2>1, <2>2, <2>4, <3>2, <3>3
  <2>5. QED
    BY <2>3, <2>4
<1>6. QED
  BY <1>4, <1>5

\* What a row of the trail says of an opened circuit, if it says so.
FullBackoff(trail, i) ==
  trail[i].action = "circuit_opened" =>
    \A k \in 1..MaxAttempts : i > k =>
      /\ trail[i - k].action =
           IF k = MaxAttempts THEN "reconnect_scheduled" ELSE "reconnect_failed"
      /\ trail[i - k + 1].at - trail[i - k].at >= Backoff[MaxAttempts - k + 1]

\* The rows that were there keep what they say; only the new one is in question.
LEMMA CircuitKept ==
  ASSUME TypeOK, TypeOK', CircuitAfterFullBackoff, NEW row, NEW dropped \in {0, 1},
         Extends(row, dropped), FullBackoff(audit', Len(audit'))
  PROVE  CircuitAfterFullBackoff'
<1>1. /\ Len(audit) \in Nat /\ Len(audit') \in Nat
      /\ DOMAIN audit = 1..Len(audit) /\ DOMAIN audit' = 1..Len(audit')
      /\ Len(audit') = Len(audit) + 1 - dropped
      /\ \A i \in 1..Len(audit') : i # Len(audit') =>
           i + dropped \in 1..Len(audit) /\ audit'[i] = audit[i + dropped]
  BY RowsMove
<1>2. MaxAttempts \in Nat
  BY MonitorAssumption, LenProperties DEF MaxAttempts
<1>3. SUFFICES ASSUME NEW i \in 1..Len(audit'), i # Len(audit'),
                      audit'[i].action = "circuit_opened",
                      NEW k \in 1..MaxAttempts, i > k
               PROVE  /\ audit'[i - k].action = IF k = MaxAttempts
                           THEN "reconnect_scheduled" ELSE "reconnect_failed"
                      /\ audit'[i - k + 1].at - audit'[i - k].at
                           >= Backoff[MaxAttempts - k + 1]
  BY <1>1 DEF CircuitAfterFullBackoff, FullBackoff
<1>4. i + dropped \in 1..Len(audit) /\ audit'[i] = audit[i + dropped]
  BY <1>1, <1>3
<1>5. /\ audit[(i + dropped) - k].action = IF k = MaxAttempts
            THEN "reconnect_scheduled" ELSE "reconnect_failed"
      /\ audit[(i + dropped) - k + 1].at - audit[(i + dropped) - k].at
            >= Backoff[MaxAttempts - k + 1]
  <2>1. audit[i + dropped].action = "circuit_opened" /\ i + dropped > k
    BY <1>1, <1>2, <1>3, <1>4
  <2>2. i + dropped \in DOMAIN audit
    BY <1>1, <1>4
  <2>3. QED
    BY <1>3, <2>1, <2>2 DEF CircuitAfterFullBackoff
<1>6. /\ i - k \in 1..Len(audit') /\ i - k # Len(audit')
      /\ i - k + 1 \in 1..Len(audit') /\ i - k + 1 # Len(audit')
      /\ (i - k) + dropped = (i + dropped) - k
      /\ (i - k + 1) + dropped = (i + dropped) - k + 1
  BY <1>1, <1>2, <1>3
<1>7. /\ audit'[i - k] = audit[(i + dropped) - k]
      /\ audit'[i - k + 1] = audit[(i + dropped) - k + 1]
  <2>1. \A j \in 1..Len(audit') :
          j # Len(audit') => audit'[j] = audit[j + dropped]
    BY <1>1
  <2>2. QED
    BY <1>6, <2>1
<1>8. QED
  BY <1>5, <1>7

\* A step that appends a row of another kind keeps chain and circuit.
LEMMA PlainRow ==
  ASSUME TypeOK, TypeOK', AuditReplays, CircuitAfterFullBackoff,
         NEW action, NEW at, Audited(action, at), action # "circuit_opened",
         [action |-> action, from |-> state, to |-> state', at |-> at] \in Row
  PROVE  AuditReplays' /\ CircuitAfterFullBackoff'
<1> DEFINE row == [action |-> action, from |-> state, to |-> state', at |-> at]
<1>1. PICK dropped \in {0, 1} : Extends(row, dropped)
  BY AuditedRow
<1>2. row.from = state /\ row.to = state' /\ row.action # "circuit_opened"
  OBVIOUS
<1> HIDE DEF row
<1>3. AuditReplays'
  BY <1>1, <1>2, ChainKept
<1>4. FullBackoff(audit', Len(audit'))
  BY <1>1, <1>2 DEF Extends, FullBackoff
<1>5. QED
  BY <1>1, <1>3, <1>4, CircuitKept

\* The row of a due retry, and one of the failures it counts.
RetryRow(at, row, dropped, k) ==
  /\ RetryDue(at) /\ row.at = at /\ Extends(row, dropped)
  /\ at \in Instants /\ dropped \in {0, 1} /\ k \in 1..(attempts + 1) /\ k < Len(audit')

\* The row k rows before the last one is the schedule or the failure it has to
\* be, and the row after it came no sooner than its backoff.
RowBehind(k) ==
  /\ audit'[Len(audit') - k].action =
       IF k = attempts + 1 THEN "reconnect_scheduled" ELSE "reconnect_failed"
  /\ audit'[Len(audit') - k + 1].at - audit'[Len(audit') - k].at
       >= Backoff[attempts + 1 - k + 1]

\* A due retry finds the failures so far behind it, each a backoff after the
\* row before it: what RetryLater hands on and OpenCircuit concludes from.
LEMMA RetryRows ==
  ASSUME TypeInv, TypeOK', ReconnectTrail,
         NEW at, NEW row, NEW dropped, NEW k, RetryRow(at, row, dropped, k)
  PROVE  RowBehind(k)
<1> USE DEF RetryRow, RowBehind
<1>0. TypeOK /\ AttemptsLeft
  BY DEF TypeInv
<1> DEFINE n == Len(audit)
           m == Len(audit')
<1>1. /\ n \in Nat /\ m \in Nat /\ m = n + 1 - dropped
      /\ \A i \in 1..m : i # m => i + dropped \in 1..n /\ audit'[i] = audit[i + dropped]
  BY <1>0, RowsMove
<1>2. audit'[m] = row
  BY DEF Extends
<1>3. /\ attempts \in Nat /\ at \in Nat /\ nextRetry \in Nat /\ at >= nextRetry
      /\ nextRetry = audit[n].at + Backoff[attempts + 1]
  BY <1>0, MonitorAssumption DEF RetryDue, ReconnectTrail, TypeOK
<1>4. /\ k - 1 \in 0..attempts /\ k - 1 < n
      /\ m - k \in 1..m /\ m - k # m /\ (m - k) + dropped = n - (k - 1)
  BY <1>1, <1>3
<1>5. audit'[m - k] = audit[n - (k - 1)]
  BY <1>1, <1>4
<1>6. /\ audit[n - (k - 1)].action =
           IF k - 1 = attempts THEN "reconnect_scheduled" ELSE "reconnect_failed"
      /\ k - 1 > 0 => audit[n - (k - 1) + 1].at - audit[n - (k - 1)].at
                        >= Backoff[attempts - (k - 1) + 1]
  BY <1>4 DEF RetryDue, ReconnectTrail
<1>7. audit'[m - k].action =
        IF k = attempts + 1 THEN "reconnect_scheduled" ELSE "reconnect_failed"
  BY <1>3, <1>5, <1>6
<1>8. CASE k = 1
  <2>1. m - k + 1 = m /\ n - (k - 1) = n /\ attempts + 1 - k + 1 = attempts + 1
    BY <1>1, <1>3, <1>8
  <2>2. audit[n] \in Row /\ audit[n].at \in Nat
    <3>1. n \in 1..Len(audit)
      BY <1>1, <1>4
    <3>2. audit[n] \in Row
      BY <1>0, <3>1, ElementOfSeq DEF TypeOK
    <3>3. QED
      BY <3>2, MonitorAssumption DEF Row
  <2>3. Backoff[attempts + 1] \in Nat
    <3>1. attempts + 1 \in 1..Len(Backoff)
      BY <1>0, <1>3, MonitorAssumption, LenProperties
         DEF RetryDue, AttemptsLeft, MaxAttempts
    <3>2. QED
      BY <3>1, MonitorAssumption, ElementOfSeq
  <2>4. at - audit[n].at >= Backoff[attempts + 1]
    BY <1>3, <2>2, <2>3
  <2>5. QED
    BY <1>2, <1>5, <1>7, <2>1, <2>4
<1>9. CASE k # 1
  <2>0. /\ n \in Nat /\ m \in Nat /\ m = n + 1 - dropped
        /\ attempts \in Nat /\ k \in Nat /\ k >= 1 /\ k < m
    BY <1>1, <1>3
  <2> HIDE DEF n, m
  <2>1. /\ k - 1 > 0 /\ m - k + 1 \in 1..m /\ m - k + 1 # m
        /\ (m - k + 1) + dropped = n - (k - 1) + 1
        /\ attempts - (k - 1) + 1 = attempts + 1 - k + 1
    BY <2>0, <1>9
  <2>2. audit'[m - k + 1] = audit[n - (k - 1) + 1]
    BY <1>1, <2>1
  <2>3. audit'[m - k + 1].at - audit'[m - k].at >= Backoff[attempts + 1 - k + 1]
    BY <1>5, <1>6, <2>1, <2>2
  <2>4. QED
    BY <1>7, <2>3 DEF n, m
<1>10. QED
  BY <1>8, <1>9

\* A failed retry that is not the last extends the trail of its reconnect.
LEMMA RetryKept ==
  ASSUME TypeInv, TypeOK', ReconnectTrail, NEW at \in Instants, RetryLater(at)
  PROVE  ReconnectTrail'
<1> DEFINE row == [action |-> "reconnect_failed", from |-> state, to |-> state',
                   at |-> at]
<1>1. TypeOK /\ Audited("reconnect_failed", at) /\ RetryDue(at)
  BY DEF TypeInv, RetryLater
<1>2. row \in Row /\ row.action = "reconnect_failed" /\ row.at = at
  BY <1>1 DEF Row, TypeOK
<1>3. PICK dropped \in {0, 1} : Extends(row, dropped)
  BY <1>1, <1>2, AuditedRow
<1> HIDE DEF row
<1>4. /\ Len(audit) \in Nat /\ Len(audit') \in Nat
      /\ audit'[Len(audit')] = row /\ Len(audit') >= 1
  BY <1>1, <1>3, RowsMove
<1>5. /\ attempts \in Nat /\ attempts' = attempts + 1
      /\ nextRetry' = at + Backoff[attempts + 2]
  BY <1>1 DEF RetryLater, TypeOK
<1>7. audit' # <<>>
  BY <1>4, EmptySeq
<1>8. ASSUME NEW k \in 0..attempts', k < Len(audit')
      PROVE  /\ audit'[Len(audit') - k].action =
                  IF k = attempts' THEN "reconnect_scheduled" ELSE "reconnect_failed"
             /\ k > 0 => audit'[Len(audit') - k + 1].at - audit'[Len(audit') - k].at
                           >= Backoff[attempts' - k + 1]
  <2>1. CASE k = 0
    BY <1>2, <1>4, <1>5, <2>1
  <2>2. CASE k # 0
    <3>1. k \in 1..(attempts + 1)
      BY <1>5, <1>8, <2>2
    <3>2. /\ audit'[Len(audit') - k].action =
               IF k = attempts + 1 THEN "reconnect_scheduled" ELSE "reconnect_failed"
          /\ audit'[Len(audit') - k + 1].at - audit'[Len(audit') - k].at
               >= Backoff[attempts + 1 - k + 1]
      <4>1. RetryRow(at, row, dropped, k)
        BY <1>1, <1>2, <1>3, <1>8, <3>1 DEF RetryRow
      <4>2. RowBehind(k)
        BY <4>1, RetryRows
      <4>3. QED
        BY <4>2 DEF RowBehind
    <3>3. attempts' = attempts + 1 /\ attempts \in Nat /\ k \in Nat
      BY <1>5, <3>1
    <3>4. QED
      BY <3>2, <3>3
  <2>3. QED
    BY <2>1, <2>2
<1>9. nextRetry' = audit'[Len(audit')].at + Backoff[attempts' + 1]
  <2>1. attempts' + 1 = attempts + 2
    BY <1>5
  <2>2. QED
    BY <1>2, <1>4, <1>5, <2>1
<1>10. QED
  BY <1>7, <1>8, <1>9 DEF ReconnectTrail

\* The circuit opens only behind a reconnect whose every retry has failed in
\* its time.
LEMMA CircuitOpened ==
  ASSUME TypeInv, TypeOK', TrailInv, NEW at \in Instants, OpenCircuit(at)
  PROVE  TrailInv'
<1> DEFINE row == [action |-> "circuit_opened", from |-> state, to |-> state',
                   at |-> at]
<1>1. /\ TypeOK /\ AttemptsLeft /\ Audited("circuit_opened", at) /\ RetryDue(at)
      /\ AuditReplays /\ CircuitAfterFullBackoff /\ ReconnectTrail
  BY DEF TypeInv, TrailInv, OpenCircuit
<1>2. /\ row \in Row /\ row.action = "circuit_opened" /\ row.at = at
      /\ row.from = state /\ row.to = state'
  BY <1>1 DEF Row, TypeOK
<1>3. PICK dropped \in {0, 1} : Extends(row, dropped)
  BY <1>1, <1>2, AuditedRow
<1> HIDE DEF row
<1>4. AuditReplays'
  BY <1>1, <1>2, <1>3, ChainKept
<1>5. MaxAttempts = attempts + 1 /\ attempts \in Nat
  BY <1>1, MonitorAssumption, LenProperties
     DEF OpenCircuit, RetryDue, AttemptsLeft, TypeOK, MaxAttempts
<1>6. FullBackoff(audit', Len(audit'))
  <2>1. SUFFICES ASSUME NEW k \in 1..MaxAttempts, Len(audit') > k
                 PROVE  /\ audit'[Len(audit') - k].action = IF k = MaxAttempts
                             THEN "reconnect_scheduled" ELSE "reconnect_failed"
                        /\ audit'[Len(audit') - k + 1].at - audit'[Len(audit') - k].at
                             >= Backoff[MaxAttempts - k + 1]
    BY DEF FullBackoff
  <2>2. k \in 1..(attempts + 1) /\ k < Len(audit')
    BY <1>1, <1>3, <1>5, <2>1, RowsMove
  <2>3. RetryRow(at, row, dropped, k)
    BY <1>1, <1>2, <1>3, <2>2 DEF RetryRow
  <2>4. RowBehind(k)
    BY <1>1, <2>3, RetryRows
  <2>5. MaxAttempts - k + 1 = attempts + 1 - k + 1 /\ (k = MaxAttempts <=> k = attempts + 1)
    BY <1>5
  <2>6. QED
    BY <2>4, <2>5, Zenon DEF RowBehind
<1>7. CircuitAfterFullBackoff'
  BY <1>1, <1>3, <1>6, CircuitKept
<1>8. ReconnectTrail'
  BY DEF OpenCircuit, ReconnectTrail
<1>9. QED
  BY <1>4, <1>7, <1>8 DEF TrailInv

LEMMA TrailInvariance == TypeInv /\ TrailInv /\ [Next]_vars => TrailInv'
<1> SUFFICES ASSUME TypeInv, TrailInv, [Next]_vars
             PROVE  TrailInv'
  OBVIOUS
<1>1. /\ TypeOK /\ AttemptsLeft /\ TypeOK'
      /\ AuditReplays /\ CircuitAfterFullBackoff /\ ReconnectTrail
  BY TypeInvariance DEF TypeInv, TrailInv
<1>2. ASSUME NEW action, NEW at \in Instants, Audited(action, at),
             action \in {"message_received", "stream_stale", "reconnect_scheduled",
                         "reconnect_failed", "reconnected", "kill_switch_latched"}
      PROVE  AuditReplays' /\ CircuitAfterFullBackoff'
  <2>1. [action |-> action, from |-> state, to |-> state', at |-> at] \in Row
    BY <1>1, <1>2 DEF Row, TypeOK
  <2>2. QED
    BY <1>1, <1>2, <2>1, PlainRow
<1>3. ASSUME NEW e \in EventIds, NEW eventAt \in Instants,
             NEW receivedAt \in Instants, RecordMessage(e, eventAt, receivedAt)
      PROVE  TrailInv'
  <2>1. AuditReplays' /\ CircuitAfterFullBackoff'
    BY <1>2, <1>3 DEF RecordMessage
  <2>2. QED
    BY <1>3, <2>1 DEF RecordMessage, TrailInv, ReconnectTrail
<1>4. ASSUME NEW at \in Instants, Evaluate(at)
      PROVE  TrailInv'
  <2>1. \/ UNCHANGED <<state, audit, attempts, nextRetry>>
        \/ state' = "stale" /\ Audited("stream_stale", at)
    BY <1>4 DEF Evaluate
  <2>2. CASE UNCHANGED <<state, audit, attempts, nextRetry>>
    BY <1>1, <2>2 DEF TrailInv, AuditReplays, CircuitAfterFullBackoff, ReconnectTrail
  <2>3. CASE state' = "stale" /\ Audited("stream_stale", at)
    <3>1. AuditReplays' /\ CircuitAfterFullBackoff'
      BY <1>2, <2>3
    <3>2. QED
      BY <2>3, <3>1 DEF TrailInv, ReconnectTrail
  <2>4. QED
    BY <2>1, <2>2, <2>3
<1>5. ASSUME NEW at \in Instants, BeginReconnect(at)
      PROVE  TrailInv'
  <2>1. AuditReplays' /\ CircuitAfterFullBackoff'
    BY <1>2, <1>5 DEF BeginReconnect
  <2> DEFINE row == [action |-> "reconnect_scheduled", from |-> state, to |-> state',
                     at |-> at]
  <2>2. row \in Row /\ row.action = "reconnect_scheduled" /\ row.at = at
    BY <1>1 DEF Row, TypeOK
  <2>3. PICK dropped \in {0, 1} : Extends(row, dropped)
    BY <1>1, <1>5, <2>2, AuditedRow DEF BeginReconnect
  <2> HIDE DEF row
  <2>4. /\ Len(audit') \in Nat /\ Len(audit') >= 1
        /\ audit'[Len(audit')] = row
    BY <1>1, <2>3, RowsMove
  <2>5. audit' # <<>>
    BY <2>4, EmptySeq
  <2>6. attempts' = 0 /\ nextRetry' = at + Backoff[1]
    BY <1>5 DEF BeginReconnect
  <2>7. ReconnectTrail'
    BY <2>2, <2>4, <2>5, <2>6 DEF ReconnectTrail
  <2>8. QED
    BY <2>1, <2>7 DEF TrailInv
<1>6. ASSUME NEW at \in Instants, RetryLater(at)
      PROVE  TrailInv'
  <2>1. AuditReplays' /\ CircuitAfterFullBackoff'
    BY <1>2, <1>6 DEF RetryLater
  <2>2. QED
    BY <1>1, <1>6, <2>1, RetryKept DEF TrailInv
<1>7. ASSUME NEW at \in Instants, OpenCircuit(at)
      PROVE  TrailInv'
  BY <1>1, <1>7, CircuitOpened
<1>8. ASSUME NEW at \in Instants, ReconnectSuccess(at)
      PROVE  TrailInv'
  <2>1. AuditReplays' /\ CircuitAfterFullBackoff'
    BY <1>2, <1>8 DEF ReconnectSuccess
  <2>2. QED
    BY <1>8, <2>1 DEF ReconnectSuccess, TrailInv, ReconnectTrail
<1>9. ASSUME NEW at \in Instants, EngageKillSwitch(at)
      PROVE  TrailInv'
  <2>1. AuditReplays' /\ CircuitAfterFullBackoff'
    BY <1>2, <1>9 DEF EngageKillSwitch
  <2>2. QED
    BY <1>9, <2>1 DEF EngageKillSwitch, TrailInv, ReconnectTrail
<1>10. CASE UNCHANGED vars
  BY <1>1, <1>10 DEF vars, TrailInv, AuditReplays, CircuitAfterFullBackoff, ReconnectTrail
<1>11. QED
  BY <1>3, <1>4, <1>5, <1>6, <1>7, <1>8, <1>9, <1>10 DEF Next

LEMMA TrailAlways == Spec => []TrailInv
<1>1. Init => TypeInv /\ TrailInv
  <2>1. ASSUME Init PROVE DOMAIN audit = {} /\ state = "stale"
    <3>1. audit = <<>> /\ state = "stale"
      BY <2>1 DEF Init
    <3>2. QED
      BY <3>1
  <2>2. QED
    BY <2>1, TypeStart DEF TrailInv, AuditReplays, CircuitAfterFullBackoff, ReconnectTrail
<1>2. TypeInv /\ [Next]_vars => TypeInv'
  BY TypeInvariance
<1>3. TypeInv /\ TrailInv /\ [Next]_vars => TrailInv'
  BY TrailInvariance
<1>4. QED
  BY <1>1, <1>2, <1>3, PTL DEF Spec

\* The circuit breaker opens only on the last of MaxAttempts consecutive
\* failures of one reconnect, each no sooner than its backoff allows: for every
\* schedule of backoffs, and however often reconnects began and succeeded before.
THEOREM CircuitSound == Spec => []CircuitAfterFullBackoff
<1>1. TrailInv => CircuitAfterFullBackoff
  BY DEF TrailInv
<1>2. QED
  BY <1>1, TrailAlways, PTL

\* The audit trail replays the state machine, whatever part of it is kept.
THEOREM TrailReplays == Spec => []AuditReplays
<1>1. TrailInv => AuditReplays
  BY DEF TrailInv
<1>2. QED
  BY <1>1, TrailAlways, PTL

-----------------------------------------------------------------------------
(* What a passed reconciliation establishes *)

\* The fills of a snapshot are finitely many, and amounts of whole units.
LEMMA SnapshotFills ==
  ASSUME NEW in, IsSnapshot(in)
  PROVE  /\ IsFiniteSet(UniqueFills(in))
         /\ \A f \in UniqueFills(in) :
              /\ f.side \in {"buy", "sell"}
              /\ f.quantity \in Nat /\ f.price \in Nat
              /\ f.quantity * f.price \in Nat
<1>1. in.fills \in Seq(Range(in.fills))
  BY DEF IsSnapshot
<1>2. IsFiniteSet(Range(in.fills))
  <2> DEFINE s == in.fills
             R == Range(s)
  <2>1. s \in Seq(R) /\ DOMAIN s = 1 .. Len(s)
    BY <1>1, LenProperties
  <2>2. \A y \in R : \E n \in 1 .. Len(s) : s[n] = y
    BY <2>1 DEF Range
  <2> HIDE DEF s, R
  <2>3. IsFiniteSet(R)
    BY <2>1, <2>2 DEF IsFiniteSet
  <2>4. QED
    BY <2>3 DEF s, R
<1>3. UniqueFills(in) \subseteq Range(in.fills)
  BY DEF UniqueFills, Range
<1>4. ASSUME NEW f \in UniqueFills(in)
      PROVE  /\ f.side \in {"buy", "sell"}
             /\ f.quantity \in Nat /\ f.price \in Nat
  <2>1. PICK i \in DOMAIN in.fills : f = in.fills[i]
    BY <1>4 DEF UniqueFills
  <2>2. QED
    BY <2>1 DEF IsSnapshot
<1>5. \A a, b \in Nat : a * b \in Nat
  OBVIOUS
<1>6. QED
  BY <1>2, <1>3, <1>4, <1>5, FS_Subset

\* Fills F that belong to orders L, their signed amounts and the orders' totals.
Attributed(F, L, own, amount, total, w, v) ==
  /\ IsFiniteSet(F) /\ IsFiniteSet(L) /\ own \in [F -> L]
  /\ \A f \in F : amount[f] \in Int /\ f.side = own[f].side
  /\ \A l \in L : l.side \in {"buy", "sell"}
  /\ \A l \in L : total[l] = SumFunctionOnSet(amount, Owned(F, own, l))
  /\ \A f \in F : w[f] = Sign(f.side) * amount[f]
  /\ \A l \in L : v[l] = Sign(l.side) * total[l]

\* A sum of signed amounts over the fills is the sum of their owners' signed
\* totals, when a fill has the side of its owner.
LEMMA SignedByOwner ==
  ASSUME NEW F, NEW L, NEW own, NEW amount, NEW total, NEW w, NEW v,
         Attributed(F, L, own, amount, total, w, v)
  PROVE  SumFunctionOnSet(w, F) = SumFunctionOnSet(v, L)
<1> USE DEF Attributed
<1> DEFINE Of(l) == Owned(F, own, l)
<1>1. \A l \in L : Sign(l.side) \in {1, -1}
  BY DEF Sign
<1>2. Summands(w, F)
  <2>1. ASSUME NEW f \in F
        PROVE  w[f] \in Int
    <3>1. own[f] \in L /\ f.side = own[f].side /\ amount[f] \in Int
      OBVIOUS
    <3>2. Sign(f.side) \in {1, -1}
      BY <1>1, <3>1
    <3>3. QED
      BY <3>1, <3>2
  <2>2. QED
    BY <2>1 DEF Summands
<1>3. ASSUME NEW l \in L
      PROVE  v[l] = SumFunctionOnSet(w, Of(l))
  <2>1. IsFiniteSet(Of(l)) /\ Summands(amount, Of(l))
    BY FS_Subset DEF Summands, Owned
  <2>2. \A f \in Of(l) : w[f] = Sign(l.side) * amount[f]
    BY DEF Owned
  <2> DEFINE k == Sign(l.side)
             S == Of(l)
  <2>3. k \in {1, -1} /\ v[l] = k * SumFunctionOnSet(amount, S)
    BY <1>1
  <2> HIDE DEF k, S
  <2>4. SumFunctionOnSet(w, S) = k * SumFunctionOnSet(amount, S)
    BY <2>1, <2>2, <2>3, SumScaled DEF k, S
  <2>5. QED
    BY <2>3, <2>4 DEF S
<1>4. QED
  BY <1>2, <1>3, SumByGroups

\* When no reason is found in the fills, each of them is of a local order, of
\* the same symbol and side, and the fills of an order make up what it holds.
LEMMA FillsBelong ==
  ASSUME NEW in, IsSnapshot(in), FillReasons(in) = {}
  PROVE  /\ \A f \in UniqueFills(in) :
              LET l == OrderOf(in.local, f.client)
              IN  /\ l \in in.local /\ l.client = f.client
                  /\ l.symbol = f.symbol /\ l.side = f.side
         /\ \A l \in in.local :
              /\ OrderOf(in.local, l.client) = l
              /\ Shares(FillsOf(in, l.client)) = l.filled
              /\ WeightedMatches(l.price, FillsOf(in, l.client))
<1>1. /\ UnknownFills(in) = {}
      /\ ~\E l \in in.local : Shares(FillsOf(in, l.client)) # l.filled
      /\ ~\E l \in in.local : ~WeightedMatches(l.price, FillsOf(in, l.client))
      /\ ~\E f \in {g \in UniqueFills(in) : g.client \in ClientsOf(in.local)} :
            <<f.symbol, f.side>> #
              <<OrderOf(in.local, f.client).symbol, OrderOf(in.local, f.client).side>>
  BY DEF FillReasons
<1>2. \A f \in UniqueFills(in) : f.client \in ClientsOf(in.local)
  BY <1>1 DEF UnknownFills
<1>3. ASSUME NEW c \in ClientsOf(in.local)
      PROVE  OrderOf(in.local, c) \in in.local /\ OrderOf(in.local, c).client = c
  <2>1. \E o \in in.local : o.client = c
    BY <1>3 DEF ClientsOf
  <2>2. QED
    BY <2>1 DEF OrderOf
<1>4. ASSUME NEW l \in in.local
      PROVE  OrderOf(in.local, l.client) = l
  <2>1. l.client \in ClientsOf(in.local)
    BY DEF ClientsOf
  <2>2. QED
    BY <1>3, <2>1 DEF IsSnapshot, OncePerClient
<1>5. QED
  BY <1>1, <1>2, <1>3, <1>4

\* The shares of a passed snapshot's fills in a symbol are those of its orders.
LEMMA FlowExplained ==
  ASSUME NEW in, IsSnapshot(in), FillReasons(in) = {}, NEW s
  PROVE  /\ Flow(in, s) \in Int
         /\ HoldingOf(in.opening, s) \in Int
         /\ ExpectedPosition(in, s) = Explained(in, s)
<1> DEFINE F == {g \in UniqueFills(in) : g.symbol = s}
           L == {m \in in.local : m.symbol = s}
           own == [f \in F |-> OrderOf(in.local, f.client)]
           amount == [f \in F |-> f.quantity]
           total == [l \in L |-> l.filled]
<1>1. IsFiniteSet(F) /\ IsFiniteSet(L)
  BY SnapshotFills, FS_Subset DEF IsSnapshot
<1>2. own \in [F -> L]
  BY FillsBelong
<1>3. \A f \in F : amount[f] \in Int /\ f.side = own[f].side
  BY FillsBelong, SnapshotFills
<1>4. \A l \in L : l.side \in {"buy", "sell"}
  BY DEF IsSnapshot
<1>5. ASSUME NEW l \in L
      PROVE  total[l] = SumFunctionOnSet(amount, Owned(F, own, l))
  <2> DEFINE S == FillsOf(in, l.client)
             q == [f \in S |-> f.quantity]
  <2>1. S = Owned(F, own, l)
    <3>1. ASSUME NEW f \in S PROVE f \in F /\ own[f] = l
      <4>1. f \in UniqueFills(in) /\ f.client = l.client
        BY DEF FillsOf
      <4>2. f.symbol = l.symbol /\ OrderOf(in.local, f.client) = l
        BY <4>1, FillsBelong
      <4>3. QED
        BY <4>1, <4>2
    <3>2. ASSUME NEW f \in F, own[f] = l PROVE f \in S
      BY <3>2, FillsBelong DEF FillsOf
    <3>3. QED
      BY <3>1, <3>2 DEF Owned
  <2>2. IsFiniteSet(S) /\ S \subseteq F
    BY <1>1, <2>1, FS_Subset DEF Owned
  <2>3. Summands(amount, S) /\ \A f \in S : q[f] = amount[f]
    BY <1>3, <2>2 DEF Summands
  <2>4. Shares(S) = SumFunctionOnSet(q, S)
    BY DEF Shares, SumFunction
  <2>5. total[l] = Shares(S)
    BY FillsBelong
  <2> HIDE DEF S, q, amount, F, own, total
  <2>6. SumFunctionOnSet(q, S) = SumFunctionOnSet(amount, S)
    BY <2>2, <2>3, SumCongruent
  <2>7. QED
    BY <2>1, <2>4, <2>5, <2>6
<1> DEFINE w == [f \in F |-> Sign(f.side) * amount[f]]
           v == [l \in L |-> Sign(l.side) * total[l]]
<1>6. SumFunctionOnSet(w, F) = SumFunctionOnSet(v, L)
  <2>1. /\ \A f \in F : w[f] = Sign(f.side) * amount[f]
        /\ \A l \in L : v[l] = Sign(l.side) * total[l]
    OBVIOUS
  <2>2. \A l \in L : total[l] = SumFunctionOnSet(amount, Owned(F, own, l))
    BY <1>5
  <2> HIDE DEF F, L, own, amount, total, w, v
  <2>3. Attributed(F, L, own, amount, total, w, v)
    BY <1>1, <1>2, <1>3, <1>4, <2>1, <2>2 DEF Attributed
  <2>4. QED
    BY <2>3, SignedByOwner
<1>7. w = [f \in F |-> Sign(f.side) * f.quantity] /\ v = [l \in L |-> Sign(l.side) * l.filled]
  OBVIOUS
<1>8. Flow(in, s) = SumFunctionOnSet(w, F)
  BY <1>7 DEF Flow, SumFunction
<1>9. Explained(in, s) = HoldingOf(in.opening, s) + SumFunctionOnSet(v, L)
  BY <1>7 DEF Explained, SumFunction
<1>10. SumFunctionOnSet(w, F) \in Int
  <2>1. \A f \in F : w[f] \in Int
    <3>1. \A f \in F : w[f] = Sign(f.side) * amount[f] /\ Sign(f.side) \in {1, -1}
      BY DEF Sign
    <3> HIDE DEF w, F, amount
    <3>2. QED
      BY <1>3, <3>1
  <2> HIDE DEF w, F
  <2>2. Summands(w, F)
    BY <2>1 DEF Summands
  <2>3. QED
    BY <1>1, <2>2, SumIsFold
<1>11. HoldingOf(in.opening, s) \in Int
  BY DEF HoldingOf, IsSnapshot
<1>12. QED
  BY <1>6, <1>8, <1>9, <1>10, <1>11 DEF ExpectedPosition

\* The value of fills: a sum of whole numbers, and nothing when they have no
\* shares, since every fill has some.
LEMMA FillsValue ==
  ASSUME NEW in, IsSnapshot(in), NEW S, S \subseteq UniqueFills(in)
  PROVE  /\ Value(S) \in Int /\ Shares(S) \in Int
         /\ Shares(S) = 0 => Value(S) = 0
<1> DEFINE q == [f \in S |-> f.quantity]
           p == [f \in S |-> f.quantity * f.price]
           z == [f \in S |-> 0]
<1>1. IsFiniteSet(S)
  BY SnapshotFills, FS_Subset
<1>2. ASSUME NEW f \in S
      PROVE  q[f] \in Nat \ {0} /\ p[f] \in Int
  <2>1. f.quantity \in Nat \ {0} /\ f.quantity * f.price \in Int
    <3>1. PICK i \in DOMAIN in.fills : f = in.fills[i]
      BY DEF UniqueFills
    <3>2. f.quantity \in Nat \ {0} /\ f.price \in Nat
      BY <3>1 DEF IsSnapshot
    <3>3. \A a, b \in Nat : a * b \in Int
      OBVIOUS
    <3>4. QED
      BY <3>2, <3>3
  <2>2. QED
    BY <2>1
<1>3. Shares(S) = SumFunctionOnSet(q, S) /\ Value(S) = SumFunctionOnSet(p, S)
  BY DEF Shares, Value, SumFunction
<1>4. \A f \in S : z[f] = 0
  OBVIOUS
<1> HIDE DEF q, p, z
<1>5. /\ SumFunctionOnSet(q, S) \in Int /\ SumFunctionOnSet(p, S) \in Int
      /\ S = {} => SumFunctionOnSet(p, S) = 0
  <2>1. Summands(q, S) /\ Summands(p, S)
    BY <1>2 DEF Summands
  <2>2. QED
    BY <1>1, <2>1, SumIsFold
<1>6. ASSUME NEW f \in S
      PROVE  SumFunctionOnSet(q, S) # 0
  <2> DEFINE R == S \ {f}
  <2>1. IsFiniteSet(R) /\ Summands(q, S) /\ Summands(q, R)
    BY <1>1, <1>2, FS_Subset DEF Summands
  <2>2. Close(z, z, q, R) /\ Summands(z, R)
    BY <1>2, <1>4 DEF Close, Summands
  <2>3. SumFunctionOnSet(q, S) = q[f] + SumFunctionOnSet(q, R)
    BY <1>1, <2>1, SumTakeOut
  <2> HIDE DEF R
  <2>4. /\ SumFunctionOnSet(z, R) - SumFunctionOnSet(z, R) <= SumFunctionOnSet(q, R)
        /\ SumFunctionOnSet(z, R) \in Int /\ SumFunctionOnSet(q, R) \in Int
    BY <2>1, <2>2, SumsClose, SumIsFold
  <2>5. QED
    BY <1>2, <2>3, <2>4
<1>7. QED
  BY <1>3, <1>5, <1>6

\* An order whose price matches its fills has their value, up to the tolerance
\* for every share.
LEMMA ValueWithin ==
  ASSUME NEW price \in Nat, NEW fills, WeightedMatches(price, fills),
         Value(fills) \in Int, Shares(fills) \in Nat,
         Shares(fills) = 0 => Value(fills) = 0
  PROVE  /\ price * Shares(fills) \in Int /\ PriceTolerance * Shares(fills) \in Int
         /\ price * Shares(fills) - Value(fills) <= PriceTolerance * Shares(fills)
         /\ Value(fills) - price * Shares(fills) <= PriceTolerance * Shares(fills)
<1> DEFINE n == Shares(fills)
           worth == price * n
           slack == PriceTolerance * n
           v == Value(fills)
<1>1. PriceTolerance \in Nat
  BY ReconciliationAssumption
<1>2. worth \in Int /\ slack \in Int /\ (n = 0 => worth = 0 /\ slack = 0)
  <2>1. \A a, b \in Nat : a * b \in Int /\ (b = 0 => a * b = 0)
    OBVIOUS
  <2> HIDE DEF n
  <2>2. QED
    BY <1>1, <2>1 DEF n
<1>3. \/ n = 0 /\ v = 0
      \/ Magnitude(worth - v) <= slack
  BY DEF WeightedMatches
<1> HIDE DEF n, worth, slack, v
<1>4. v \in Int
  BY DEF v
<1>5. worth - v <= slack /\ v - worth <= slack
  BY <1>2, <1>3, <1>4 DEF Magnitude
<1>6. QED
  BY <1>2, <1>5 DEF worth, slack, n, v

\* The cash the fills of a passed snapshot leave is the one its orders leave,
\* up to the tolerance of the price for every share filled.
LEMMA CashExplained ==
  ASSUME NEW in, IsSnapshot(in), FillReasons(in) = {}
  PROVE  /\ ExpectedCash(in) \in Int /\ ExplainedCash(in) \in Int
         /\ PriceSlack(in) \in Int
         /\ ExpectedCash(in) - ExplainedCash(in) <= PriceSlack(in)
         /\ ExplainedCash(in) - ExpectedCash(in) <= PriceSlack(in)
<1> DEFINE F == UniqueFills(in)
           L == in.local
           own == [f \in F |-> OrderOf(in.local, f.client)]
           amount == [f \in F |-> f.quantity * f.price]
           total == [l \in L |-> Value(FillsOf(in, l.client))]
<1>1. IsFiniteSet(F) /\ IsFiniteSet(L)
  BY SnapshotFills DEF IsSnapshot
<1>2. own \in [F -> L]
  BY FillsBelong
<1>3. \A f \in F : amount[f] \in Int /\ f.side = own[f].side
  BY FillsBelong, SnapshotFills
<1>4. \A l \in L : l.side \in {"buy", "sell"}
  BY DEF IsSnapshot
<1>5. ASSUME NEW l \in L
      PROVE  total[l] = SumFunctionOnSet(amount, Owned(F, own, l))
  <2> DEFINE S == FillsOf(in, l.client)
             q == [f \in S |-> f.quantity * f.price]
  <2>1. S = Owned(F, own, l)
    <3>1. ASSUME NEW f \in S PROVE f \in F /\ own[f] = l
      <4>1. f \in UniqueFills(in) /\ f.client = l.client
        BY DEF FillsOf
      <4>2. OrderOf(in.local, f.client) = l
        BY <4>1, FillsBelong
      <4>3. QED
        BY <4>1, <4>2
    <3>2. ASSUME NEW f \in F, own[f] = l PROVE f \in S
      BY <3>2, FillsBelong DEF FillsOf
    <3>3. QED
      BY <3>1, <3>2 DEF Owned
  <2>2. IsFiniteSet(S) /\ S \subseteq F
    BY <1>1, <2>1, FS_Subset DEF Owned
  <2>3. Summands(amount, S) /\ \A f \in S : q[f] = amount[f]
    BY <1>3, <2>2 DEF Summands
  <2>4. Value(S) = SumFunctionOnSet(q, S) /\ total[l] = Value(S)
    BY DEF Value, SumFunction
  <2> HIDE DEF S, q, amount, F, own, total
  <2>5. SumFunctionOnSet(q, S) = SumFunctionOnSet(amount, S)
    BY <2>2, <2>3, SumCongruent
  <2>6. QED
    BY <2>1, <2>4, <2>5
<1> DEFINE w == [f \in F |-> Sign(f.side) * amount[f]]
           v == [l \in L |-> Sign(l.side) * total[l]]
           u == [l \in L |-> Sign(l.side) * (l.price * l.filled)]
           slack == [l \in L |-> PriceTolerance * l.filled]
<1>6. SumFunctionOnSet(w, F) = SumFunctionOnSet(v, L)
  <2>1. /\ \A f \in F : w[f] = Sign(f.side) * amount[f]
        /\ \A l \in L : v[l] = Sign(l.side) * total[l]
    OBVIOUS
  <2>2. \A l \in L : total[l] = SumFunctionOnSet(amount, Owned(F, own, l))
    BY <1>5
  <2> HIDE DEF F, L, own, amount, total, w, v, u, slack
  <2>3. Attributed(F, L, own, amount, total, w, v)
    BY <1>1, <1>2, <1>3, <1>4, <2>1, <2>2 DEF Attributed
  <2>4. QED
    BY <2>3, SignedByOwner
<1>7. Close(v, u, slack, L)
  <2>1. ASSUME NEW l \in L
        PROVE  /\ v[l] \in Int /\ u[l] \in Int /\ slack[l] \in Int
               /\ v[l] - u[l] <= slack[l] /\ u[l] - v[l] <= slack[l]
    <3> DEFINE S == FillsOf(in, l.client)
    <3>1. /\ l.filled \in Nat /\ l.price \in Nat
          /\ Shares(S) = l.filled /\ WeightedMatches(l.price, S)
      BY FillsBelong DEF IsSnapshot
    <3>2. Value(S) \in Int /\ (Shares(S) = 0 => Value(S) = 0)
      <4>1. S \subseteq UniqueFills(in)
        BY DEF FillsOf
      <4>2. QED
        BY <4>1, FillsValue
    <3> DEFINE worth == l.price * l.filled
               most == PriceTolerance * l.filled
               value == Value(S)
               k == Sign(l.side)
    <3>3. v[l] = k * value /\ u[l] = k * worth /\ slack[l] = most
      OBVIOUS
    <3>4. k \in {1, -1}
      BY DEF Sign
    <3> HIDE DEF S, k, v, u, slack
    <3>5. /\ worth \in Int /\ most \in Int /\ value \in Int
          /\ worth - value <= most /\ value - worth <= most
      BY <3>1, <3>2, ValueWithin
    <3> HIDE DEF worth, most, value
    <3>6. CASE k = 1
      <4>1. v[l] = value /\ u[l] = worth
        BY <3>3, <3>5, <3>6
      <4>2. QED
        BY <3>3, <3>5, <4>1
    <3>7. CASE k = -1
      <4>1. v[l] = -value /\ u[l] = -worth
        BY <3>3, <3>5, <3>7
      <4>2. QED
        BY <3>3, <3>5, <4>1
    <3>8. QED
      BY <3>4, <3>6, <3>7
  <2> HIDE DEF L, v, u, slack
  <2>2. QED
    BY <2>1 DEF Close, Summands
<1>8. w = [f \in F |-> Sign(f.side) * (f.quantity * f.price)]
  OBVIOUS
<1>9. ExpectedCash(in) = in.openingCash - SumFunctionOnSet(w, F)
  BY <1>8 DEF ExpectedCash, SumFunction
<1>10. /\ ExplainedCash(in) = in.openingCash - SumFunctionOnSet(u, L)
       /\ PriceSlack(in) = SumFunctionOnSet(slack, L)
  BY DEF ExplainedCash, PriceSlack, SumFunction
<1>11. in.openingCash \in Int
  BY DEF IsSnapshot
<1> HIDE DEF F, L, own, amount, total, w, v, u, slack
<1>12. /\ SumFunctionOnSet(v, L) \in Int /\ SumFunctionOnSet(u, L) \in Int
       /\ SumFunctionOnSet(slack, L) \in Int
       /\ SumFunctionOnSet(v, L) - SumFunctionOnSet(u, L) <= SumFunctionOnSet(slack, L)
       /\ SumFunctionOnSet(u, L) - SumFunctionOnSet(v, L) <= SumFunctionOnSet(slack, L)
  <2>1. Summands(v, L) /\ Summands(u, L) /\ Summands(slack, L)
    BY <1>7 DEF Close
  <2>2. QED
    BY <1>1, <1>7, <2>1, SumsClose, SumIsFold
<1>13. QED
  BY <1>6, <1>9, <1>10, <1>11, <1>12

\* When no reason is found in the books, each lists the orders of the other.
LEMMA OrdersAgree ==
  ASSUME NEW in, IsSnapshot(in), BookReasons(in) = {}
  PROVE  /\ \A l \in in.local : ~l.recovery /\ \E o \in in.orders : SameOrder(l, o)
         /\ \A o \in in.orders : \E l \in in.local : SameOrder(l, o)
<1>1. /\ ~\E l \in in.local : l.recovery
      /\ ClientsOf(in.local) \subseteq ClientsOf(in.orders)
      /\ ClientsOf(in.orders) \subseteq ClientsOf(in.local)
      /\ \A l \in {m \in in.local : m.client \in ClientsOf(in.orders)} :
           OrderReasons(l, OrderOf(in.orders, l.client)) = {}
  BY Zenon DEF BookReasons
<1>2. ASSUME NEW l \in in.local, NEW o \in in.orders, o.client = l.client,
             OrderReasons(l, o) = {}
      PROVE  SameOrder(l, o)
  <2>1. /\ l.broker = o.broker /\ l.status = o.status /\ l.quantity = o.quantity
        /\ l.filled = o.filled /\ PriceMatches(l.price, o.price)
        /\ <<l.symbol, l.side>> = <<o.symbol, o.side>>
    BY <1>2, Zenon DEF OrderReasons
  <2>2. l.price \in Nat /\ o.price \in Nat /\ PriceTolerance \in Nat
    BY ReconciliationAssumption DEF IsSnapshot
  <2>3. /\ l.price = 0 <=> o.price = 0
        /\ Magnitude(l.price - o.price) <= PriceTolerance
    BY <2>1, <2>2 DEF PriceMatches, Magnitude
  <2>4. QED
    BY <1>2, <2>1, <2>3 DEF SameOrder
<1>3. ASSUME NEW l \in in.local
      PROVE  /\ OrderOf(in.orders, l.client) \in in.orders
             /\ OrderOf(in.orders, l.client).client = l.client
             /\ SameOrder(l, OrderOf(in.orders, l.client))
  <2>1. l.client \in ClientsOf(in.orders)
    BY <1>1 DEF ClientsOf
  <2>2. \E o \in in.orders : o.client = l.client
    BY <2>1 DEF ClientsOf
  <2>3. /\ OrderOf(in.orders, l.client) \in in.orders
        /\ OrderOf(in.orders, l.client).client = l.client
    BY <2>2 DEF OrderOf
  <2>4. OrderReasons(l, OrderOf(in.orders, l.client)) = {}
    BY <1>1, <2>1
  <2>5. QED
    BY <1>2, <2>3, <2>4
<1>4. ASSUME NEW o \in in.orders
      PROVE  \E l \in in.local : SameOrder(l, o)
  <2>1. PICK l \in in.local : l.client = o.client
    BY <1>1 DEF ClientsOf
  <2>2. OrderOf(in.orders, l.client) = o
    BY <1>3, <2>1 DEF IsSnapshot, OncePerClient
  <2>3. QED
    BY <1>3, <2>2
<1>5. QED
  BY <1>1, <1>3, <1>4

\* A reconciliation that passes establishes that the books agree.
LEMMA PassedMeansAgreed ==
  ASSUME NEW in, IsSnapshot(in), ReconciliationPassed(in)
  PROVE  BooksAgree(in)
<1>1. /\ BookReasons(in) = {} /\ FillReasons(in) = {}
      /\ PositionReasons(in) = {} /\ CashReasons(in) = {}
  BY DEF ReconciliationPassed, CoreReconciliationPassed
<1>2. ASSUME NEW s
      PROVE  (IF s \in DOMAIN in.positions THEN in.positions[s].quantity ELSE 0)
               = Explained(in, s)
  <2>1. ExpectedPosition(in, s) = Explained(in, s)
    BY <1>1, FlowExplained
  <2>2. CASE s \in DOMAIN in.positions
    <3>1. in.positions[s].quantity = ExpectedPosition(in, s)
      BY <1>1, <2>2, Zenon DEF PositionReasons
    <3>2. QED
      BY <2>1, <2>2, <3>1
  <2>3. CASE s \notin DOMAIN in.positions /\ s \in ExpectedSymbols(in)
    <3>1. ExpectedPosition(in, s) = 0
      BY <1>1, <2>3, Zenon DEF PositionReasons
    <3>2. QED
      BY <2>1, <2>3, <3>1
  <2>4. CASE s \notin DOMAIN in.positions /\ s \notin ExpectedSymbols(in)
    <3>1. /\ s \notin DOMAIN in.opening
          /\ {g \in UniqueFills(in) : g.symbol = s} = {}
      BY <2>4 DEF ExpectedSymbols
    <3> DEFINE w == [f \in {} |-> Sign(f.side) * f.quantity]
    <3>2. Flow(in, s) = SumFunctionOnSet(w, {})
      BY <3>1 DEF Flow, SumFunction
    <3>3. SumFunctionOnSet(w, {}) = 0
      <4> HIDE DEF w
      <4>1. IsFiniteSet({}) /\ Summands(w, {})
        BY FS_EmptySet DEF Summands
      <4>2. QED
        BY <4>1, SumIsFold
    <3>4. ExpectedPosition(in, s) = 0
      BY <3>1, <3>2, <3>3 DEF ExpectedPosition, HoldingOf
    <3>5. QED
      BY <2>1, <2>4, <3>4
  <2>5. QED
    BY <2>2, <2>3, <2>4
<1>3. Magnitude(in.cash - ExplainedCash(in)) <= CashTolerance + PriceSlack(in)
  <2>1. ~(Magnitude(in.cash - ExpectedCash(in)) > CashTolerance)
    BY <1>1, Zenon DEF CashReasons
  <2>2. in.cash \in Int /\ CashTolerance \in Nat
    BY ReconciliationAssumption DEF IsSnapshot
  <2> DEFINE expected == ExpectedCash(in)
             explained == ExplainedCash(in)
             slack == PriceSlack(in)
             cash == in.cash
  <2>3. /\ expected \in Int /\ explained \in Int /\ slack \in Int
        /\ expected - explained <= slack /\ explained - expected <= slack
    BY <1>1, CashExplained
  <2> HIDE DEF expected, explained, slack, cash
  <2>4. cash - expected <= CashTolerance /\ expected - cash <= CashTolerance
        /\ cash \in Int
    BY <2>1, <2>2, <2>3 DEF Magnitude, expected, cash
  <2>5. cash - explained <= CashTolerance + slack /\ explained - cash <= CashTolerance + slack
    BY <2>2, <2>3, <2>4
  <2>6. Magnitude(cash - explained) <= CashTolerance + slack
    BY <2>2, <2>3, <2>4, <2>5 DEF Magnitude
  <2>7. QED
    BY <2>6 DEF cash, explained, slack
<1>4. QED
  BY <1>1, <1>2, <1>3, OrdersAgree DEF BooksAgree

\* The operational gate opens only when the books agree, whatever snapshots
\* the broker and the local book may present: the order books, the fills, the
\* positions, the cash and both tolerances have any size.
THEOREM GateAgrees == Spec => []GateOpensOnlyOnAgreement
<1>1. Misjudged = {}
  BY SnapshotAssumption, PassedMeansAgreed DEF Misjudged
<1>2. GateOpensOnlyOnAgreement
  BY <1>1 DEF GateOpensOnlyOnAgreement
<1>3. QED
  BY <1>2, PTL

=============================================================================
