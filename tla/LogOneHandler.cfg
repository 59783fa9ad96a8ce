SPECIFICATION Spec
CONSTANTS
    Loggers = {h1}
    Files = {f1, f2, f3, f4}
    MaxBytes = 3
    Backups = 2
    Lengths = {1, 2, 4}
    None = None
INVARIANTS
    EveryRecordReachesTheLog
