\* One invocation of the supervisor, one symbol, two processes, none by hand.
CONSTANTS
    Symbols = {btc}
    Default = btc
    Pids = {1, 2}
    Supers = {v1}
    NoPid = 0
    MaxByHand = 0

SPECIFICATION FairSpec
PROPERTY StartedRuns
