CONSTANTS
    Users = {u1}
    Hashes = {h1}
    Tokens = {t1}
    Requests = {r1,r2}
    None = None
    Lifetime = 1
    MaxTime = 3
    MaxFaults = 1
SPECIFICATION FairSpec
INVARIANTS TypeOK AdmissionSound RevocationHolds
PROPERTIES OnlyLiveUseIsSeen ExpiredIsRevoked ImplementsAuthority
