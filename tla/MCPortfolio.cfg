\* Three reservations on two symbols, fills at other prices and with fees; two
\* threads that evaluate alerts or tick the arena at one time.
CONSTANTS
    r1 = r1  r2 = r2  r3 = r3  r4 = r4  f1 = f1  f2 = f2  f3 = f3  f4 = f4  s1 = s1  s2 = s2
    p1 = p1  p2 = p2
    Reservations = {r1, r2, r3}
    References = {f1, f2}
    Symbols = {s1, s2}
    Quantities = {1, 3}
    Prices = {1, 2}
    Fees = {0, 1}
    StartingCash = 6
    MaxOrder = 4
    MaxGross = 5
    MaxSymbol = 4
    ConcentrationFrom = 5
    NoRef = NoRef
    AlertRules = {"tasks", "backup"}
    BackupRule = "backup"
    Evaluators = {p1, p2}
    WatchKeys = {"above", "below"}
    MaxListed = 2
    MaxAlerts = 3
    MaxRows = 3
    MaxShifts = 3
    Window = 2
    MaxFlags = 3
    MaxUnread = 1
    Entrants = {"bot"}
    Basket = {"lead", "other"}
    Lead = "lead"
    ArenaThreads = {p1, p2}
    LegReturns = {1, 3}
    NoReturn = NoReturn
    MaxDay = 2
    MaxArenaDeaths = 1
SYMMETRY SymmetryAll
SPECIFICATION AllSpec
INVARIANTS ReservationsAreCovered AlertsAreTrue DigestLeadsWithTheWorst ArenaIsFair
PROPERTIES NoFillWhileStopped NoticesOnlyMoveOn
CHECK_DEADLOCK FALSE
