SPECIFICATION Spec
CONSTANTS
    Workers = {w1, w2}
    Invoices = {owed}
    Students = {s1}
    TxnIds = {t1, t2}
    Utrs = {None}
    Modes = {"NET_BANKING"}
    MaxAmount = 4
    Seed <- OneFee
    None = None
    owed = owed
    part = part
    paid = paid
    void = void
    free = free
SYMMETRY Symmetric
INVARIANTS
    NoDoubleCredit
