SPECIFICATION Spec
CONSTANTS
  Procs = {p1}
  Requests <- SomeRequests
  FirstLog <- EarlierLog
  Chain = 1
  Holding = 1
  MaxStale = 0
  Limit = 10
  LastDay = 1
  MaxRuns = 2
  NSame = 1
  NCross = 1
  MaxEntries = 2
INVARIANTS GraphIsTheOneAsked AskedOnce NoLookahead OnePending
PROPERTIES PendingKept BoardIsHonest
\* The bounds on runs and on days end a behaviour.
CHECK_DEADLOCK FALSE
