\* Two sessions of the market, instants before, in and after the first.
CONSTANTS
  Openings <- MCOpenings
  Closings <- MCClosings
  MinimumTimeToClose = 1
  Symbols <- MCSymbols
  Horizon = 5
SPECIFICATION PreflightSpec
INVARIANT RefusesForAReason
CHECK_DEADLOCK FALSE
