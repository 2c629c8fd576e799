CONSTANTS
    Users = {u1}
    MaxSec = 3
    MaxPostpone = 2
    MaxLate = 2
SPECIFICATION FairSpec
INVARIANTS
    TypeOK
    CountdownArmed
PROPERTIES
    ImplementsPendingRestart
    RestartHappens
    BusyIsTold
