SPECIFICATION FairSpec
CONSTANTS
    Sims = {x}
    Unknown = Unknown
    Aircraft = {a}
    Global = Global
    Editable = {Global}
    Phases = {p, q}
    None = None
    Missing = Missing
    TTL = 2
    Frames = 2
    MinPhase = 1
    MaxQueue = 2
    MaxEdits = 1
INVARIANT TypeOK
PROPERTIES InvalidationHolds EditsTakeEffect PhaseNeedsFrames PhaseAdopted
