\* Three runs over three candles with one fault.
CONSTANTS
    Proposals <- SomeProposals
    Pipelines <- SomePipelines
    Bindings <- OneBinding
    Hours = 3
    Lasts <- SomeLasts
    Releases <- SomeReleases
    Market <- SomeMarket
    Wirings <- SomeWirings
    Guards <- SomeGuards
    MaxRuns = 3
    MaxFaults = 1

SPECIFICATION Spec
INVARIANTS FailureNeverTraded PaidOnce ReplayOnlyLoosens SummaryAddsUp
PROPERTY RecordsKept
