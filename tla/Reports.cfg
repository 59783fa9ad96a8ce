SPECIFICATION Spec
CONSTANTS
    Payments = {p1, p2}
    Fees <- FeesOwed
    Refs = {r1, r2}
    Opening <- OpeningOfFee
    Debt <- DebtOfFee
    ClosedAtStart = {f2}
    Day = 2
    Zone = 1
    MaxTime = 3
    None = None
    Damaged = Damaged
    f1 = f1
    f2 = f2
SYMMETRY Symmetry
INVARIANTS
    NoneCountedTwice
    NoDebtDisappears
    CollectedIsSuccess
    ReceiptsAreOfPaid
    IInv
PROPERTIES
    ReceiptsStay
