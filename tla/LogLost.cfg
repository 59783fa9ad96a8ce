SPECIFICATION Spec
CONSTANTS
    Loggers = {h1, h2, h3}
    Files = {f1, f2, f3, f4, f5}
    MaxBytes = 3
    Backups = 1
    Lengths = {1}
    None = None
INVARIANTS
    EveryRecordReachesTheLog
