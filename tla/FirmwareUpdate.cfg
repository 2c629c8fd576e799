CONSTANTS
    A = A
    B = B
    Images = {A, B}
    Factory = A
    Broken = {B}
    Size <- MCSize
    N = 3
    F = 2
    Limit = 2
    None = None
    Blank = Blank
    Torn = Torn
    Env = {"power", "disconnect", "timeout", "settings", "backup"}
SPECIFICATION Spec
INVARIANTS
    TypeOK
    JumpOnlyToWhole
    ValidBufferIntact
    OnlyFirstLost
    FlashIsResumed
    FlashflagGuardsBuffer
PROPERTIES
    ErasedWhenBlank
    SpoiledOnlyWhenInvalid
