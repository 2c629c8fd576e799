CONSTANTS
    Threads = {t1}
    flag = flag
    alias = alias
    Fields = {flag, alias}
    Corrected = {flag}
    Values = {v1, v2, erased}
    v1 = v1
    Default <- MCDefault
    Erased = erased
    None = None
SPECIFICATION Spec
INVARIANTS
    AckedSurvives
