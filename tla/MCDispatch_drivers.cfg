CONSTANTS
    Thread = {"clock", "rx"}
    RxIds <- AllIds
    MaxDrain = 1
    Handler <- SilHandler
    Msg <- SilMsg
    Mutex <- SilMutex
    Recursive <- SilRecursive
    MutexOf <- SilMutexOf
    Subscribers <- SilSubscribers
    Paths <- SilPaths
    Root <- SilRoot
SPECIFICATION FairSpec
INVARIANTS
    NoCircularWait
    NoReentry
    DeclaredOrder
    StatusSerialised
PROPERTIES
    DispatchReturns
