\* One daemon and one web thread, with crashes of both processes.
CONSTANTS
    d1 = d1
    d2 = d2
    w1 = w1
    btc = btc
    Symbols = {btc}
    NoSymbol = NoSymbol
    Daemons = {d1}
    OneShots = {}
    Web = {w1}
    SymbolOf <- OneDaemon
    MaxSignals = 2
    InitialBalance = 1
    NetPnls <- WinOrLoss
    ResetBalances = {1}
    Margin = 1
    MaxOpenPositions = 1
    MaxCrashes = 1
    MaxWebCrashes = 1

SPECIFICATION FairSpec
INVARIANTS TypeOK OpenPositionBacked NothingStranded CapOvershootBounded
PROPERTIES CancelSparesOpen KeepsPromise BookingFinishes RestartSettles
