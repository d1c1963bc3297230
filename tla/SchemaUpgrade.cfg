\* A web server and two daemons, one of them replaced under an older one.
CONSTANTS
    d1 = d1
    d2 = d2
    w1 = w1
    Procs = {d1, d2, w1}
    Restarted = {d1, d2}
    Files <- SomeFiles
    MaxSignals = 3
    MaxOlder = 1
    MaxMishaps = 2

SPECIFICATION FairSpec
PROPERTIES RowsKept EveryStartServes

\* The system may stop: all processes serve, are killed for good, and the
\* bound on signals is reached.
CHECK_DEADLOCK FALSE
