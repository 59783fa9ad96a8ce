SPECIFICATION TurnsSpec
CONSTANTS
    Workers = {w1, w2, w3}
    Invoices = {owed}
    Students = {s1}
    TxnIds = {t1, t2}
    Utrs = {u1, None}
    Modes = {"NET_BANKING"}
    MaxAmount = 4
    Seed <- OneFee
    None = None
    owed = owed
    part = part
    paid = paid
    void = void
    free = free
SYMMETRY Symmetric
INVARIANTS
    TurnsInv
    BalanceIsSumOfSuccesses
