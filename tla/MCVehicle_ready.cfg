CONSTANTS
    RxCommands <- OneSequence
    AutoCommands = {}
    TickOrder <- SilTickOrder
    StatusOrder <- SilStatusOrder
    kMaxSubCmds = 2
    kTickUs = 2
    MaxRpm = 5
    Wrap = 8
    MaxAccepts = 1
    RxIds = {}
    MaxDrain = 1
SPECIFICATION Spec
INVARIANTS
    ReadyIsStill
