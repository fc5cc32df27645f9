SPECIFICATION Spec
CONSTANTS
    None = None
    Services <- MCServices
    PageSize = 2
    Forms = {}
    MaxEarlier = 0
    MaxRows = 1
    MaxVersions = 1

PROPERTY DeletedIsGone
CHECK_DEADLOCK FALSE
