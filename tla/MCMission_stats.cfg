CONSTANTS
    Environments <- Track
    Routes <- OneDash
    Drives <- NoDrive
    DefaultSpeed = 10
    Steep = 5
    Near = 10
    Throttle = 2
    MaxStats = 2
    MaxEnvs = 1
    MissionId = 9
    MaxEnergy = 9
    MaxIssued = 1
SPECIFICATION Spec
INVARIANTS
    NodeStatistics
