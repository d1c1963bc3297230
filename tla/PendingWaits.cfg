\* A pending entry, no mishap, a clock long enough for it to expire.
CONSTANTS
    d1 = d1
    d2 = d2
    fomc = fomc
    Daemons = {d1}
    HourLen = 1
    MaxTime = 4
    Events = {fomc}
    Window <- NoWindow
    BreakerN = 2
    Cooldown = 2
    ExpiryAge = 1
    Mishaps = {}
    MaxMishaps = 0

SPECIFICATION Spec

PROPERTY PendingExpires
