\* A daemon and a one-shot on the same symbol, one web thread, one web crash.
CONSTANTS
    d1 = d1
    d2 = d2
    w1 = w1
    btc = btc
    Symbols = {btc}
    NoSymbol = NoSymbol
    Daemons = {d1, d2}
    OneShots = {d2}
    Web = {w1}
    SymbolOf <- SameSymbol
    MaxSignals = 2
    InitialBalance = 1
    NetPnls <- LossOnly
    ResetBalances = {1}
    Margin = 1
    MaxOpenPositions = 1
    MaxCrashes = 0
    MaxWebCrashes = 1

SPECIFICATION Spec
INVARIANTS OneActivePerSymbol TradeBacked
