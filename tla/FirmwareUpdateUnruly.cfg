CONSTANTS
    A = A
    B = B
    Images = {A, B}
    Factory = A
    Broken = {}
    Size <- MCSizeOver
    N = 2
    F = 1
    Limit = 3
    None = None
    Blank = Blank
    Torn = Torn
    Env = {"disconnect", "button", "unruly", "backup"}
SPECIFICATION Spec
PROPERTIES
    ErasedWhenBlank
    
