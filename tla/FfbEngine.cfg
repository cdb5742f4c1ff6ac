CONSTANTS
    InterlockRequired = TRUE
    CueErrorsAbort = TRUE
    RampTime = 2
    CueInterval = 2
    WedgeTime = 0
    StallLimit = 2
    MaxHistory = 1
    RaisedFaults = {"EncoderInvalid", "NanValue", "UserEmergencyStop", "PluginOverrun"}
    ChallengeTimeout = 0
    SatisfactionTimeout = 0
    TokenMod = 3
    IdMod = 2
    Period = 2
SPECIFICATION FairSpec
INVARIANTS
    TypeOK
    NoReplay
    FaultedIsExplained
PROPERTIES
    FreshAuthorization
    TorqueOnlyFalls
    RampStartsAtTorque
    SoftStopCompletes
    HealthFaultReasserts
