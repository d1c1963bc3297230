\* The instance of ControlPlane.cfg.
CONSTANTS
    d1 = d1
    r1 = r1
    r2 = r2
    btc = btc
    eth = eth
    Symbols = {btc, eth}
    Unset = Unset
    Daemons = {d1}
    EnvSymbol <- OneEnv
    Requests = {r1, r2}
    StoredFirst = {Unset}
    MaxSaves = 2
    MaxSignals = 1
    MaxTurns = 1

SPECIFICATION Spec
INVARIANT OpenIsMonitored
