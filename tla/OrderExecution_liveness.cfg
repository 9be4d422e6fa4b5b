\* No thread dies: a claimed intent gets an outcome.
CONSTANTS
    i1 = i1  i2 = i2  d1 = d1  d2 = d2
    p1 = p1  p2 = p2  p3 = p3  b1 = b1  b2 = b2
    Intents = {i1}
    Decisions = {d1}
    Brokers = {b1, b2}
    Procs = {p1, p2}
    NoIntent = NoIntent  NoDecision = NoDecision  NoBroker = NoBroker
    Quantities = {1}
    ApprovedQty <- TwoApproved
    LiveDecisions = {}
    Configs <- PaperApproved
    Working = {"open", "pending"}
    Faults = {"lost", "garbled", "toggle"}
SPECIFICATION FairSpec
PROPERTY SubmittingResolves
