\* One scheduler that may crash and be started again within a window.
CONSTANTS
  w1 = w1
  w2 = w2
  Nobody = Nobody
  Procs = {w1}
  N = 1
  Qty = 1
  MaxPolls = 1
  EntryCap = 10
  SessionCap = 2
  Activated = TRUE
SPECIFICATION Spec
INVARIANTS
  RecordedSkipNeverSubmits
