SPECIFICATION Spec
CONSTANTS
    RxIds = {}
    MaxDrain = 1
INVARIANTS
    TypeOK
    DefinedBeforeUse
    PacksMemory
    UnpacksMemory
    TrafficDrawn
    SectionsStandAlone
    DocumentedWhereWritten
CHECK_DEADLOCK FALSE
