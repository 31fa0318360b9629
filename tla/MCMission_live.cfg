CONSTANTS
    Environments <- Track
    Routes <- Tours
    Drives <- NoDrive
    DefaultSpeed = 10
    Steep = 5
    Near = 10
    Throttle = 1
    MaxStats = 2
    MaxEnvs = 1
    MissionId = 9
    MaxEnergy = 0
    MaxIssued = 2
SPECIFICATION FairSpec
PROPERTIES
    Reacquires
