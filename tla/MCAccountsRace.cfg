CONSTANTS
    Users = {u1, u2}
    RawNames <- MCRawNames
    Passwords = {p1, p2}
    Bundles = {k1, k2}
    Columns = {"crypt"}
    Choices = {"argon2id"}
    Default = "argon2id"
    Requests = {r1, r2}
    None = None
    MinRaw = 1
    MinName = 2
    MaxName = 2
    MaxFaults = 1
SPECIFICATION Spec
SYMMETRY Symmetry
INVARIANTS TypeOK NoTwins AnswerSignsIn SessionsAreUsable RegistrationIsWhole
PROPERTIES KeysChangeByOwner
