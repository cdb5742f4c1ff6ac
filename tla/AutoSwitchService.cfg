SPECIFICATION FairSpec
CONSTANTS
    TaskSims = {x}
    Streaming = {x}
    PlainSims = {}
    OtherSims = {}
    Aircraft = {a, b}
    None = None
    MaxQueue = 1
INVARIANTS TypeOK OwnedTasks AdapterIsAccounted
PROPERTIES OneTaskPerSim AdapterFollowsProcess StopCompletes AircraftFollows
