\* A daemon, two requests, two saves of AI settings, one signal, and one symbol
\* save or kill of the daemon.
CONSTANTS
    d1 = d1
    r1 = r1
    r2 = r2
    btc = btc
    eth = eth
    Symbols = {btc, eth}
    Unset = Unset
    Daemons = {d1}
    EnvSymbol <- OneEnv
    Requests = {r1, r2}
    StoredFirst = {Unset}
    MaxSaves = 2
    MaxSignals = 1
    MaxTurns = 1

SPECIFICATION FairSpec
INVARIANTS TypeOK SecretFresh NoSaveLost
PROPERTIES LiveNeverRegresses StagedIsApplied KeyReachesDaemons
