SPECIFICATION FairSpec
CONSTANTS
  Procs = {p1, p2}
  OneShots = {p2}
  Events <- TwoReleases
  Curated <- CuratedFomc
  RefreshEvery = 1
  Env <- OldEnv
  Retries = 1
  Payloads <- SomePayloads
  Warn = 1
  DayLen = 3
  ReportHour = 0
  MaxTime = 1
  MaxMishaps = 1
INVARIANTS FlagsAreHonest CloseToldOnce QuietInBlackout
PROPERTIES EndFollows ReportComes
