CONSTANTS
    Clients = {c1, c2}
    RT = RT
    Free = Free
    Modes = {"Full", "Kid"}
    MaxUpdates = 3
SPECIFICATION FairSpec
INVARIANTS
    TypeOK
    AckConfirms
    LimitHolds
PROPERTIES
    RefinesSlot
    LatestUpdateWins
    ProcessReturns
