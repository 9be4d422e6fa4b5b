\* One job, two workers of which one dies, and one request to run it; the API
\* runs two backtests, dies twice and blocks raise; four signals of a backtest
\* with fees, slippage and all three size limits; two overlapping backfills of
\* four symbols, two at a time, one without a history.
CONSTANTS
    j1 = j1  w1 = w1  w2 = w2  q1 = q1
    r1 = r1  r2 = r2  api = api
    Jobs = {j1}
    Loops = {w1, w2}
    Requests = {q1}
    NoJob = NoJob  NoWorker = NoWorker
    MaxRetries = 2
    MaxCrashes = 1
    MaxRegistrations = 2
    Runs = {r1, r2}
    Processes = {api}
    API = api
    NoProcess = NoProcess
    MaxFaults = 2
    MaxDeaths = 2
    Modes = {"research", "semi_auto", "live"}
    Prices = {3, 5, 8}
    RequestedQuantity = 3
    MaxSignals = 4
    FeePct = 25
    Slip = 1
    MaxQuantity = 2
    MaxOrderValue = 12
    MaxLossPerTrade = 3
    MaxDailyLoss = 7
    StopPct = 40
    Universe <- FourSymbols
    Unknown = {"a"}
    Fillers = {w1, w2}
    Scheduled = w1
    MaxSymbols = 2
    MaxFillFaults = 2
    MaxFillDeaths = 1
SPECIFICATION AllSpec
INVARIANTS NoOverlap RetriesAreBounded RunsAreAccounted SummaryTellsTheFills OrdersKeepToPolicy
PROPERTIES DueJobsRun   BackfillCompletes
CHECK_DEADLOCK FALSE
