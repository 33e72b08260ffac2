\* Two schedulers that both activate the campaign, one slot.
CONSTANTS
  w1 = w1
  w2 = w2
  Nobody = Nobody
  Procs = {w1, w2}
  N = 1
  Qty = 1
  MaxPolls = 1
  EntryCap = 10
  SessionCap = 2
  Activated = FALSE
SPECIFICATION Spec
INVARIANTS
  ExposureIsLatched
