\* One watcher that activates the campaign itself, two slots, liveness, and a
\* reader of its directory.
CONSTANTS
  w1 = w1
  Nobody = Nobody
  Procs = {w1}
  N = 2
  Qty = 2
  MaxPolls = 1
  EntryCap = 10
  SessionCap = 2
  Activated = FALSE
SPECIFICATION AuditFairSpec
INVARIANTS
  LoadedIsTrue
  
PROPERTIES
  WatcherResolves
