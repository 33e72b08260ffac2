---------------------------- MODULE StreamMonitor ----------------------------
(***************************************************************************)
(* The stream health monitor of broker/monitoring.py: a state machine with *)
(* an explicit clock, in which messages may be redelivered, reordered or   *)
(* reused with another content, and every call brings its own instant.  A  *)
(* call that raises changes nothing and is simply not enabled.             *)
(*                                                                         *)
(* Of the audit trail the last AuditDepth rows are kept: no property looks *)
(* further back.  The history variable `checked' is no part of the code.   *)
(***************************************************************************)
EXTENDS Integers, Sequences

CONSTANTS
  EventIds,    \* event_ids of the provider
  Instants,    \* event, receipt, check and retry times
  Started,     \* started_at
  StaleAfter,  \* STREAM_STALE_AFTER
  FutureSkew,  \* MAX_STREAM_FUTURE_SKEW
  Backoff,     \* RECONNECT_BACKOFF_SECONDS
  AuditDepth,  \* rows of the audit trail that are kept
  None         \* Python's None

\* MAX_RECONNECT_ATTEMPTS, one attempt per backoff step.
MaxAttempts == Len(Backoff)

ASSUME MonitorAssumption ==
  /\ Instants \subseteq Nat /\ Started \in Instants
  /\ StaleAfter \in Nat /\ FutureSkew \in Nat
  /\ Backoff \in Seq(Nat \ {0}) /\ Backoff # <<>>
  /\ AuditDepth \in Nat \ {0}
  /\ None \notin Nat

States == {"healthy", "stale", "reconnecting", "circuit_open", "killed"}
ReasonCodes == {"stream_stale", "reconnect_exhausted", "kill_switch_latched"}

VARIABLES
  state,         \* _state
  lastReceived,  \* _last_received_at
  lastEvent,     \* _last_event_at
  fingerprints,  \* _event_fingerprints: the event time of each known event_id
  attempts,      \* _reconnect_attempts
  nextRetry,     \* _next_retry_at
  reasons,       \* _active_reasons
  audit,         \* the tail of _audit_entries
  checked        \* history: the latest as_of evaluated since the last new message

vars == <<state, lastReceived, lastEvent, fingerprints, attempts, nextRetry,
          reasons, audit, checked>>
messages == <<lastReceived, lastEvent, fingerprints>>

Row == [action : {"message_received", "stream_stale", "reconnect_scheduled",
                  "circuit_opened", "reconnect_failed", "reconnected",
                  "kill_switch_latched"},
        from : States, to : States, at : Instants]

TypeOK ==
  /\ state \in States
  /\ lastReceived \in Instants \cup {None}
  /\ lastEvent \in Instants \cup {None}
  /\ fingerprints \in [EventIds -> Instants \cup {None}]
  /\ attempts \in 0..MaxAttempts
  /\ nextRetry \in Nat \cup {None}
  /\ reasons \subseteq ReasonCodes
  /\ audit \in Seq(Row) /\ Len(audit) <= AuditDepth
  /\ checked \in Instants \cup {None}

Terminal == state \in {"circuit_open", "killed"}
Known(e) == fingerprints[e] # None
Reference == IF lastReceived = None THEN Started ELSE lastReceived

Init ==
  /\ state = "stale"
  /\ lastReceived = None
  /\ lastEvent = None
  /\ fingerprints = [e \in EventIds |-> None]
  /\ attempts = 0
  /\ nextRetry = None
  /\ reasons = {"stream_stale"}
  /\ audit = <<>>
  /\ checked = None

\* _append: the row of a step from the current state to state'.
Audited(action, at) ==
  LET row == [action |-> action, from |-> state, to |-> state', at |-> at]
      longer == Append(audit, row)
  IN audit' = IF Len(longer) > AuditDepth THEN Tail(longer) ELSE longer

-----------------------------------------------------------------------------
(* Messages *)

(* Faulty: the terminal states are not checked. *)
RefusesRegressions(eventAt, receivedAt) ==
  \/ eventAt - receivedAt > FutureSkew
  \/ lastReceived # None /\ receivedAt < lastReceived
  \/ lastEvent # None /\ eventAt < lastEvent

\* The checks that precede the look-up of the event_id.
RefusesTimes(eventAt, receivedAt) ==
  \/ Terminal
  \/ eventAt - receivedAt > FutureSkew
  \/ lastReceived # None /\ receivedAt < lastReceived
  \/ lastEvent # None /\ eventAt < lastEvent

Refuses(e, eventAt, receivedAt) ==
  \/ RefusesTimes(eventAt, receivedAt)
  \/ Known(e) /\ fingerprints[e] # eventAt

\* A new message; the exact repetition of a known one changes nothing.
RecordMessage(e, eventAt, receivedAt) ==
  /\ ~Refuses(e, eventAt, receivedAt)
  /\ ~Known(e)
  /\ fingerprints' = [fingerprints EXCEPT ![e] = eventAt]
  /\ state' = "healthy"
  /\ lastEvent' = eventAt
  /\ lastReceived' = receivedAt
  /\ attempts' = 0
  /\ nextRetry' = None
  /\ reasons' = reasons \ {"stream_stale", "reconnect_exhausted"}
  /\ checked' = None
  /\ Audited("message_received", receivedAt)

-----------------------------------------------------------------------------
(* Staleness *)

Later(a, b) == IF b = None \/ a > b THEN a ELSE b

(* Faulty: staleness is judged against the previous check. *)
EvaluateSinceCheck(asOf) ==
  /\ asOf >= Reference
  /\ ~Terminal
  /\ checked' = Later(asOf, checked)
  /\ IF asOf - (IF checked = None THEN Reference ELSE checked) <= StaleAfter
     THEN UNCHANGED <<state, reasons, audit>>
     ELSE /\ reasons' = reasons \cup {"stream_stale"}
          /\ IF state = "healthy"
             THEN state' = "stale" /\ Audited("stream_stale", asOf)
             ELSE UNCHANGED <<state, audit>>
  /\ UNCHANGED <<messages, attempts, nextRetry>>

Evaluate(asOf) ==
  /\ asOf >= Reference
  /\ ~Terminal
  /\ checked' = Later(asOf, checked)
  /\ IF asOf - Reference <= StaleAfter THEN UNCHANGED <<state, reasons, audit>>
     ELSE /\ reasons' = reasons \cup {"stream_stale"}
          /\ IF state = "healthy"
             THEN state' = "stale" /\ Audited("stream_stale", asOf)
             ELSE UNCHANGED <<state, audit>>
  /\ UNCHANGED <<messages, attempts, nextRetry>>

-----------------------------------------------------------------------------
(* Reconnecting *)

(* Faulty: the failures of an earlier reconnect still count. *)
BeginKeepingAttempts(at) ==
  /\ state = "stale"
  /\ state' = "reconnecting"
  /\ nextRetry' = at + Backoff[1]
  /\ Audited("reconnect_scheduled", at)
  /\ UNCHANGED <<messages, attempts, reasons, checked>>

BeginReconnect(at) ==
  /\ state = "stale"
  /\ state' = "reconnecting"
  /\ attempts' = 0
  /\ nextRetry' = at + Backoff[1]
  /\ Audited("reconnect_scheduled", at)
  /\ UNCHANGED <<messages, reasons, checked>>

RetryDue(at) == state = "reconnecting" /\ nextRetry # None /\ at >= nextRetry

RetryLater(at) ==
  /\ RetryDue(at)
  /\ attempts + 1 < MaxAttempts
  /\ attempts' = attempts + 1
  /\ nextRetry' = at + Backoff[attempts + 2]
  /\ state' = state
  /\ Audited("reconnect_failed", at)
  /\ UNCHANGED <<messages, reasons, checked>>

OpenCircuit(at) ==
  /\ RetryDue(at)
  /\ attempts + 1 >= MaxAttempts
  /\ attempts' = attempts + 1
  /\ nextRetry' = None
  /\ state' = "circuit_open"
  /\ reasons' = reasons \cup {"reconnect_exhausted"}
  /\ Audited("circuit_opened", at)
  /\ UNCHANGED <<messages, checked>>

(* Faulty: a transport that is back is taken for a healthy stream. *)
TrustTransport(at) ==
  /\ RetryDue(at)
  /\ state' = "healthy"
  /\ nextRetry' = None
  /\ Audited("reconnected", at)
  /\ UNCHANGED <<messages, attempts, reasons, checked>>

\* The transport is back: the stream stays stale until a message arrives.
ReconnectSuccess(at) ==
  /\ RetryDue(at)
  /\ state' = "stale"
  /\ nextRetry' = None
  /\ reasons' = reasons \cup {"stream_stale"}
  /\ Audited("reconnected", at)
  /\ UNCHANGED <<messages, attempts, checked>>

-----------------------------------------------------------------------------
(* Faulty: the kill switch leaves no row. *)
KillUnaudited(at) ==
  /\ state # "killed"
  /\ state' = "killed"
  /\ nextRetry' = None
  /\ reasons' = reasons \cup {"kill_switch_latched"}
  /\ UNCHANGED <<messages, attempts, audit, checked>>

EngageKillSwitch(at) ==
  /\ state # "killed"
  /\ state' = "killed"
  /\ nextRetry' = None
  /\ reasons' = reasons \cup {"kill_switch_latched"}
  /\ Audited("kill_switch_latched", at)
  /\ UNCHANGED <<messages, attempts, checked>>

\* evaluate_operational_gate: it reads the cached state and no clock.
OperationalGatePasses(reconciled) == reconciled /\ state = "healthy"

Next ==
  \/ \E e \in EventIds, eventAt, receivedAt \in Instants :
       RecordMessage(e, eventAt, receivedAt)
  \/ \E at \in Instants :
       \/ Evaluate(at)
       \/ BeginReconnect(at) \/ RetryLater(at) \/ OpenCircuit(at)
       \/ ReconnectSuccess(at) \/ EngageKillSwitch(at)

Spec == Init /\ [][Next]_vars

-----------------------------------------------------------------------------
(* Properties *)

\* The gate can pass exactly when no reason code is active, and a latched
\* breaker or kill switch names its reason for as long as it is latched.
ReasonsExplainState ==
  /\ OperationalGatePasses(TRUE) <=> reasons = {}
  /\ state = "circuit_open" => {"stream_stale", "reconnect_exhausted"} = reasons
  /\ state = "killed" <=> "kill_switch_latched" \in reasons

\* A stream that was checked after its last message, at an instant more than
\* StaleAfter away from it, does not pass the gate, whatever reconnects and
\* repeated messages came since.
CheckedGateIsFresh ==
  OperationalGatePasses(TRUE) /\ checked # None =>
    checked - lastReceived <= StaleAfter

\* The circuit opens only on the last of MaxAttempts consecutive failures of
\* one reconnect, each of them at least its backoff after the previous row.
CircuitAfterFullBackoff ==
  \A i \in DOMAIN audit : audit[i].action = "circuit_opened" =>
    \A k \in 1..MaxAttempts : i > k =>
      /\ audit[i - k].action =
           IF k = MaxAttempts THEN "reconnect_scheduled" ELSE "reconnect_failed"
      /\ audit[i - k + 1].at - audit[i - k].at >= Backoff[MaxAttempts - k + 1]

\* The audit trail replays: rows chain, and the last one leads to the state.
AuditReplays ==
  \A i \in DOMAIN audit :
    audit[i].to = IF i = Len(audit) THEN state ELSE audit[i + 1].from

\* A latched breaker or kill switch is left by nothing but the kill switch.
TerminalIsLatched ==
  [][Terminal => state' \in {state, "killed"} /\ messages' = messages]_vars

=============================================================================
