SPECIFICATION Spec
CONSTANTS
    Calls = {c1, c2}
    Students <- Pupils
    Owner <- OwnerOfFee
    Payments = {p1, p2}
    Fees <- FeesOwed
    Opening <- OpeningOfFee
    Debt <- DebtOfFee
    ClosedAtStart = {}
    MaxFaults = 1
    None = None
    Error = Error
    Empty = Empty
    s1 = s1
    s2 = s2
    f1 = f1
    f2 = f2
    f3 = f3
SYMMETRY Symmetry
INVARIANTS
    UiRefreshes
