\* One intent, a paper or a live decision, three request threads, every fault,
\* restarts that change the configuration.
CONSTANTS
    i1 = i1  i2 = i2  d1 = d1  d2 = d2
    p1 = p1  p2 = p2  p3 = p3  b1 = b1  b2 = b2
    Intents = {i1}
    Decisions = {d1, d2}
    Brokers = {b1, b2}
    Procs = {p1, p2, p3}
    NoIntent = NoIntent  NoDecision = NoDecision  NoBroker = NoBroker
    Quantities = {1}
    ApprovedQty <- TwoApproved
    LiveDecisions = {d2}
    Configs <- AnyConfig
    Working = {"open"}
    Faults = {"abandon", "restart", "lost", "garbled", "toggle"}
SYMMETRY Symmetry
SPECIFICATION Spec
INVARIANTS OrdersAuthorised BooksAgree
PROPERTY OrdersStayFinal
