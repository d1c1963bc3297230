\* Two daemons, each on a symbol of its own, one event across the close of the
\* first candle, an hour of two clock units, three mishaps.  The breaker opens at
\* once, so that its half-open trial may fail as well.
CONSTANTS
    d1 = d1
    d2 = d2
    fomc = fomc
    Daemons = {d1, d2}
    HourLen = 2
    MaxTime = 3
    Events = {fomc}
    Window <- OneWindow
    BreakerN = 1
    Cooldown = 1
    ExpiryAge = 1
    Mishaps = {"error", "mark", "cancel", "lag", "crash"}
    MaxMishaps = 3

SYMMETRY Interchangeable
SPECIFICATION Spec
INVARIANTS CallsExplained BlackoutClears
PROPERTY BreakerPauses
