SPECIFICATION Spec
CONSTANTS
    Loggers = {h1, h2}
    Files = {f1, f2, f3, f4, f5}
    MaxBytes = 3
    Backups = 2
    Lengths = {1, 2, 4}
    None = None
INVARIANTS
    LogInv
PROPERTIES
    OnlyTheOldestIsDropped
