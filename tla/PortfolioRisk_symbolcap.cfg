\* Two reservations of one symbol, each within its cap.
CONSTANTS
    r1 = r1  r2 = r2  r3 = r3  r4 = r4  f1 = f1  f2 = f2  f3 = f3  f4 = f4  s1 = s1  s2 = s2
    Reservations = {r1, r2}
    References = {f1}
    Symbols = {s1}
    Quantities = {1, 2}
    Prices = {1}
    Fees = {0}
    StartingCash = 9
    MaxOrder = 9
    MaxGross = 9
    MaxSymbol = 2
    ConcentrationFrom = 100
    NoRef = NoRef
SYMMETRY Symmetry
SPECIFICATION Spec
PROPERTY SymbolExposureCapped
