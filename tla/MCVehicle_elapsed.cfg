CONSTANTS
    RxCommands <- PeerCommands
    AutoCommands = {}
    TickOrder <- SilTickOrder
    StatusOrder <- SilStatusOrder
    kMaxSubCmds = 2
    kTickUs = 2
    MaxRpm = 5
    Wrap = 100
    MaxAccepts = 2
    RxIds = {}
    MaxDrain = 1
SPECIFICATION TSpec
INVARIANTS
    ElapsedSinceStart
