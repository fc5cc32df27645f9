CONSTANTS
    Unknown = Unknown
    Stubs = 3
    MaxDistance = 1
    File <- MCFile
    Signs = {"process", "code", "flag", "port", "parent"}
    Armable = {"watchdog", "syscall"}
    SignsAtOnce = 1
    Hookings <- MCHookings
    Watched <- MCWatched
    QueryService = 1
    HideService = 2
    ContextService = 1
    SystemService = 3
    YieldService = 3
    MayStart <- MCMayStart
    Handles = {h1, h2}
    ClientHandles = 1

SPECIFICATION Spec
INVARIANTS TypeOK NoFalseAlarm SyscallIsMeant HandlesReturned ForeignCloseNeedsMatch
PROPERTIES WatchedIsDetected
