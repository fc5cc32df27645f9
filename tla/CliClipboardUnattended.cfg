CONSTANTS
    None = None
    MaxCopies = 3
    MaxFaults = 0
SPECIFICATION FairSpec
PROPERTIES WipedUnattended
CHECK_DEADLOCK FALSE
