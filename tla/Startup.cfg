SPECIFICATION FairSpec
CONSTANTS
    Threads = {t1, t2, r1}
    Resetters = {r1}
    Engines = {e1, e2, e3}
    ConnectRetries = 2
    Pending = Pending
    Raised = Raised
    None = None
INVARIANTS
    CallersShareServices
    BuilderNeverWaits
    IInv
PROPERTIES
    ServicesAreNotReplaced
    OnePoolPerContext
    StartupLockIsReleased
    CallsReturnOnceWired
