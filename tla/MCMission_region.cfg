CONSTANTS
    Environments <- Resurfaced
    Routes <- OneTour
    Drives <- NoDrive
    DefaultSpeed = 10
    Steep = 5
    Near = 10
    Throttle = 1
    MaxStats = 2
    MaxEnvs = 1
    MissionId = 9
    MaxEnergy = 0
    MaxIssued = 3
SPECIFICATION Spec
INVARIANTS
    SpeedOfARegion
