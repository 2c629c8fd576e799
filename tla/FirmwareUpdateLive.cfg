CONSTANTS
    A = A
    B = B
    Images = {A, B}
    Factory = A
    Broken = {B}
    Size <- MCSize
    N = 3
    F = 2
    Limit = 2
    None = None
    Blank = Blank
    Torn = Torn
    Env = {"settings", "backup"}
SPECIFICATION FairSpec
PROPERTIES
    DeviceComesBack
    EraseEnds
