CONSTANTS
    Environments <- Track
    Routes <- OneDash
    Drives <- ByHand
    DefaultSpeed = 10
    Steep = 5
    Near = 10
    Throttle = 2
    MaxStats = 2
    MaxEnvs = 1
    MissionId = 9
    MaxEnergy = 0
    MaxIssued = 2
SPECIFICATION HSpec
PROPERTIES
    ReachedOnRoute
