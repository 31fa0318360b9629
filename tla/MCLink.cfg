CONSTANTS
    RxCommands <- OneSequence
    AutoCommands = {}
    TickOrder <- LinkTickOrder
    StatusOrder <- LinkStatusOrder
    EnvironmentData <- Data
    DataOrder <- SilDataOrder
    Buffer = 2
    MaxStrays = 1
    kMaxSubCmds = 2
    kTickUs = 2
    MaxRpm = 5
    Wrap = 4
    MaxAccepts = 1
    RxIds = {}
    MaxDrain = 1
SPECIFICATION LinkFairSpec
INVARIANTS
    AcceptedWasTaken
    StartedIsMoving
    CompletedIsFinished
    EnvironmentTakenOver
PROPERTIES
    AckedBeforeApplied
    PollingEnds
