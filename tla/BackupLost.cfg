CONSTANTS
    A = A
    B = B
    Images = {A, B}
    Factory = A
    Broken = {}
    Size <- MCSize
    N = 3
    F = 2
    Limit = 2
    None = None
    Blank = Blank
    Torn = Torn
    Env = {"power"}
SPECIFICATION Spec
INVARIANTS
    ValidBackupIntact
