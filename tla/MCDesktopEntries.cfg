SPECIFICATION Spec
CONSTANTS
    None = None
    Services <- MCServices
    PageSize = 2
    Forms = {"jsonPass", "jsonLogin", "salted"}
    MaxEarlier = 2
    MaxRows = 4
    MaxVersions = 2
INVARIANTS TypeOK IdMeansContent EntriesOpen
PROPERTIES ListIsSnapshot
CHECK_DEADLOCK FALSE
