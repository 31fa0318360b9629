CONSTANTS
    RxCommands <- PeerCommands
    AutoCommands <- MissionCommands
    TickOrder <- SilTickOrder
    StatusOrder <- SilStatusOrder
    kMaxSubCmds = 2
    kTickUs = 2
    MaxRpm = 5
    Wrap = 8
    MaxAccepts = 3
    RxIds = {}
    MaxDrain = 1
SPECIFICATION TFairSpec
INVARIANTS
    TypeOK
    StatusCached
    FinishedIsReported
PROPERTIES
    StepsLastTheirTime
    Executes
    EchoSettles
