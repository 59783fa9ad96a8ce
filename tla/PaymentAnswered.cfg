SPECIFICATION FairSpec
CONSTANTS
    Workers = {w1, w2}
    Invoices = {part, paid, void, free}
    Students = {s1}
    TxnIds = {t1, t2}
    Utrs = {u1, None}
    Modes = {"UPI_QR"}
    MaxAmount = 2
    Seed <- EveryKind
    None = None
    owed = owed
    part = part
    paid = paid
    void = void
    free = free
VIEW WithoutAnswer
INVARIANTS
    TypeOK
    SuccessImpliesPaid
    NothingIsPaidInPart
PROPERTIES
    EveryRequestIsAnswered
