\* Two sessions of the account, side by side or one after the other.
CONSTANTS
  r1 = r1
  r2 = r2
  up = up
  down = down
  Runners = {r1, r2}
  Signals = {up, down}
  Longs = {up}
  Qty = 2
  MaxPolls = 1
  Overwrite = FALSE
  MaxSessions = 2
SPECIFICATION Spec
CHECK_DEADLOCK FALSE
INVARIANT
  FlattenWithinFill
PROPERTIES
  ReconciledIsTrue
  SessionEnds
