\* Two runs of two agents, two threads, one fault, two scoring rules; two
\* sweeps; two requests at a spec; strategies of every control over four bars.
CONSTANTS
    a1 = a1  a2 = a2  t1 = t1  t2 = t2  c1 = c1
    Agents = {a1, a2}
    Contests = {c1}
    Threads = {t1, t2}
    Outcomes = {"good", "failed"}
    MaxRule = 2
    Composite <- TwoRules
    Unranked = 0
    MaxRuns = 2
    MaxScores = 6
    MaxFaults = 1
    NoAgent = NoAgent
    NoContest = NoContest
    Sweepers = {t1, t2}
    SweptAgents <- OneSwept
    Datasets <- OneDataset
    Composites = {4, 5}
    NoComposite = NoComposite
    Market = "market"
    MaxHistory = 2
    MaxFindings = 2
    MaxSweepFaults = 1
    Specs = {"spec"}
    Editors = {t1, t2}
    FeatureSets = {"features"}
    NoSpec = NoSpec
    MaxWrites = 3
    BarPrices = {3, 4, 5}
    Percents = {25}
    NoControl = 0
    MaxBars = 4
SYMMETRY Symmetry
SPECIFICATION AllSpec
INVARIANTS ScoresAreSound RankedOnce  OnlySupportedSpecsRun SignalsHonourControls
CHECK_DEADLOCK FALSE
