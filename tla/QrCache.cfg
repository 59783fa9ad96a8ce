SPECIFICATION FairSpec
CONSTANTS
    Callers = {c1, c2}
    Uris = {u1}
    Styles = {s1}
    Logos = {l1}
    Ttls = {1, 3}
    DefaultTtl = 2
    CacheTtl = 2
    Pause = 1
    MaxTime = 4
    None = None
INVARIANTS
    CodeIsForRequest
    NotServedExpired
    CachedBriefly
PROPERTIES
    StaleEntriesGo
