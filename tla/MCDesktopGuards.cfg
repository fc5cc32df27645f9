SPECIFICATION FairSpec
CONSTANTS
    None = None
    Copies = {c1, c2}
    Requested = {None, 0, 5}
    MinTimeout = 1
    MaxTimeout = 2
    DefaultTimeout = 2
    MaxTime = 2
INVARIANTS TypeOK SecretHasTimer
PROPERTIES SecretGoes GuardReturns ImagesGo
CHECK_DEADLOCK FALSE
