\* Three decision candles of two minutes each; a stop may cost more than the
\* balance, so that a run can fail and the live executor can refuse.  A page
\* shows two of up to three trades.
CONSTANTS
    None = None
    Margin = 30000
    Leverage = 4
    RiskPercent = 120
    FeeRate = 10
    Slippage = 100
    Candles <- SomeCandles
    Analyses <- SomeAnalyses
    Guards <- SomeGuards
    HourLength = 2
    Hours = 3
    Remainder = 2
    InitialBalance = 100000
    Stored <- SomeStored
    Shown = 2

SPECIFICATION Spec
INVARIANTS LiveTracksReplay LossCapped StatisticsAgree
