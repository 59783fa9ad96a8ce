SPECIFICATION FairSpec
CONSTANTS
    Threads = {t1, t2, t3}
    Connections = {c1, c2}
    PoolSize = 1
    Transactions = {txn1, txn2}
    References = {ref}
    Invoices = {inv}
    None = None
INVARIANTS
    IInv
    WaitsEnd
    RestIsQuiet
PROPERTIES
    CommitsHoldTheirLocks
    SessionsEnd
