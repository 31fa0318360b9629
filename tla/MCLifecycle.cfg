SPECIFICATION Spec
CONSTANTS
    RxIds = {"MotorSequence", "EnvironmentData", "AutoDriveCommand"}
    MaxDrain = 1
    MaxLog <- MCMaxLog
INVARIANTS
    NoMissedWakeup
    ServedByTheLiving
    LastWords
PROPERTIES
    LogService
    Exits
