\* Two schedulers, two slots, crashes anywhere; one scheduler activates.
CONSTANTS
  w1 = w1
  w2 = w2
  Nobody = Nobody
  Procs = {w1, w2}
  N = 2
  Qty = 2
  MaxPolls = 1
  EntryCap = 10
  SessionCap = 2
  Activated = FALSE
SYMMETRY Schedulers
SPECIFICATION Spec
ACTION_CONSTRAINT ActivatedByOne
INVARIANTS
  ExposureIsLatched
  LedgerTellsTheTruth
  FlattenWithinFill
PROPERTIES
  LatchHolds
  ConsumedOnce
  TradedInTurn
  KeepsPromise
