CONSTANTS
    Users = {u1, u2}
    Hashes = {h1, h2}
    Tokens = {t1, t2}
    Requests = {r1}
    None = None
    Lifetime = 1
    MaxTime = 2
    MaxFaults = 1
SYMMETRY Symmetry
SPECIFICATION Spec
PROPERTIES RevokedByRight ImplementsAuthority
