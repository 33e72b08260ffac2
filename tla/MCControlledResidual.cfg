\* One session at a time, and still a position may be left that no bundle
\* reports.
CONSTANTS
  r1 = r1
  r2 = r2
  up = up
  down = down
  Runners = {r1}
  Signals = {up, down}
  Longs = {up}
  Qty = 2
  MaxPolls = 1
  Overwrite = FALSE
  MaxSessions = 2
SPECIFICATION Spec
CHECK_DEADLOCK FALSE
INVARIANT ResidualIsRecorded
