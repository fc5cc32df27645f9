CONSTANTS
    None = None
    MaxCopies = 3
    MaxFaults = 2
SPECIFICATION FairSpec
INVARIANTS TypeOK SecretIsGuarded
PROPERTIES WipedIfLoopRuns
CHECK_DEADLOCK FALSE
