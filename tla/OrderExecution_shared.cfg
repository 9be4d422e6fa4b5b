\* Two intents of one risk decision, two request threads that may die.
CONSTANTS
    i1 = i1  i2 = i2  d1 = d1  d2 = d2
    p1 = p1  p2 = p2  p3 = p3  b1 = b1  b2 = b2
    Intents = {i1, i2}
    Decisions = {d1}
    Brokers = {b1, b2}
    Procs = {p1, p2}
    NoIntent = NoIntent  NoDecision = NoDecision  NoBroker = NoBroker
    Quantities = {1, 2}
    ApprovedQty <- TwoApproved
    LiveDecisions = {}
    Configs <- PaperApproved
    Working = {"open"}
    Faults = {"abandon", "lost"}
SYMMETRY Symmetry
SPECIFICATION Spec
INVARIANT OrdersAndFillsAreReal
PROPERTY ImplementsContract
