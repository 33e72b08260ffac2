\* Messages of three events in contradictory versions, two orders, instants
\* on both sides of every threshold.
CONSTANTS
  o1 = o1
  o2 = o2
  e1 = e1
  e2 = e2
  e3 = e3
  b1 = b1
  b2 = b2
  p1 = p1
  p2 = p2
  None = None
  Clients = {o1, o2}
  EventIds = {e1, e2, e3}
  BrokerIds = {b1, b2}
  Prices = {p1, p2}
  Intents <- MCIntents
  Updates <- MCUpdates
  Instants = {1, 3, 5}
  AckTimeout = 1
  UpdateTimeout = 1
  StaleAfter = 2
  FutureSkew = 1
SPECIFICATION Spec
INVARIANTS
  TypeOK
  NoSilentLoss
  AppliedAtMostOnce
  LedgerExplainsOrder
  FillMatchesStatus
PROPERTIES
  TerminalFrozen
  OverdueIsFlagged
CHECK_DEADLOCK FALSE
