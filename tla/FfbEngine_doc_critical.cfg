CONSTANTS
    InterlockRequired = TRUE
    CueErrorsAbort = TRUE
    RampTime = 2
    CueInterval = 2
    WedgeTime = 1
    StallLimit = 2
    MaxHistory = 1
    RaisedFaults = {"EncoderInvalid", "NanValue", "UserEmergencyStop", "PluginOverrun"}
    ChallengeTimeout = 1
    SatisfactionTimeout = 1
    TokenMod = 3
    IdMod = 2
    Period = 2
SPECIFICATION Spec
INVARIANTS
    CriticalBlocksHighTorque
