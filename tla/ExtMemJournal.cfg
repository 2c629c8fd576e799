CONSTANTS
    PagesPerSubsector = 2
    Subsectors = 2
    a = a
    b = b
    Blank = b
    Content = {a, b}
    Patch <- MCPatch
    Threads = {t1, t2}
    NoCall = NoCall
    Nobody = Nobody
    Torn = Torn
    Unset = Unset
    Rejected = Rejected
SPECIFICATION FairSpec
INVARIANTS
    TypeOK
    NoHalfWriteVisible
    RecoverableAlways
PROPERTIES
    AtomicWrites
    CallsReturn
    RecoveryCompletes
