\* Two events, six instants: every order of messages, checks and retries.
CONSTANTS
  m1 = m1
  m2 = m2
  None = None
  EventIds = {m1, m2}
  Instants = {0, 1, 2, 3, 4, 5}
  Started = 0
  StaleAfter = 1
  FutureSkew = 1
  Backoff <- MCBackoff
  AuditDepth = 4
  Symbols = {"SPY"}
  TerminalStatuses = {"filled"}
  SnapshotStaleAfter = 1
  CashTolerance = 0
  PriceTolerance = 1
  MaxSingleOrder = 3
  MaxSymbolPosition = 3
  MaxGrossNotional = 3
  MaxOpenOrders = 1
  Snapshots <- MCSnapshots
SYMMETRY Events
SPECIFICATION Spec
INVARIANTS
  ReasonsExplainState
  CheckedGateIsFresh
  CircuitAfterFullBackoff
  AuditReplays
  GateOpensOnlyOnAgreement
PROPERTIES
  TerminalIsLatched
CHECK_DEADLOCK FALSE
