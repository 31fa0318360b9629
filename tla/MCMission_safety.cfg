CONSTANTS
    Environments <- Changing
    Routes <- AllRoutes
    Drives <- ByHand
    DefaultSpeed = 10
    Steep = 5
    Near = 10
    Throttle = 2
    MaxStats = 2
    MaxEnvs = 1
    MissionId = 9
    MaxEnergy = 1
    MaxIssued = 3
SPECIFICATION HSpec
INVARIANTS
    TypeOK
    MissionStops
PROPERTIES
    RouteFollowed
    ReachedOnTheWay
