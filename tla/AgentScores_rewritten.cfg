\* Two requests close one contest.
CONSTANTS
    a1 = a1  a2 = a2  t1 = t1  t2 = t2  c1 = c1
    Agents = {a1, a2}
    Contests = {c1}
    Threads = {t1, t2}
    Outcomes = {"good", "failed"}
    MaxRule = 2
    Composite <- TwoRules
    Unranked = 0
    MaxRuns = 2
    MaxScores = 6
    MaxFaults = 0
    NoAgent = NoAgent
    NoContest = NoContest
SPECIFICATION Spec
PROPERTY ClosedContestIsFinal
CHECK_DEADLOCK FALSE
