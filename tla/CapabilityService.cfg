SPECIFICATION FairSpec
CONSTANTS
    Threads = {t1, t2}
    Axes = {pitch, roll}
    Modes = {Full, Kid}
    Default = Full
    Free = Free
INVARIANTS TypeOK QuiescentAgreement
PROPERTIES CallsReturn
