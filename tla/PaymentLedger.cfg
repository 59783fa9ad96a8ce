SPECIFICATION Spec
CONSTANTS
    Workers = {w1, w2, w3}
    Invoices = {part}
    Students = {s1}
    TxnIds = {t1, t2}
    Utrs = {u1, None}
    Modes = {"NET_BANKING"}
    MaxAmount = 4
    Seed <- PartPaidFee
    None = None
    owed = owed
    part = part
    paid = paid
    void = void
    free = free
SYMMETRY Symmetric
INVARIANTS
    IInv
    EveryCreditIsBacked
    AnswersAreTrue
PROPERTIES
    ImplementsLedger
    AnswersStayTrue
