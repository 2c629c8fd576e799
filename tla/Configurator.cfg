CONSTANTS
    Threads = {t1, t2}
    flag = flag
    alias = alias
    Fields = {flag, alias}
    Corrected = {flag}
    Values = {v1, v2, erased}
    v1 = v1
    Default <- MCDefault
    Erased = erased
    None = None
SPECIFICATION FairSpec
INVARIANTS
    TypeOK
    SavedSurvives
    RamIsSaved
PROPERTIES
    LockReleased
