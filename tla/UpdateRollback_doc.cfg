SPECIFICATION Spec
CONSTANTS
    Files = {f1, f2}
    NoDir = NoDir
    MaxBackups = 1
    MaxUpdates = 2
    MaxTime = 1
    MaxFaults = 2
INVARIANT RollbackRevertsUpdate
