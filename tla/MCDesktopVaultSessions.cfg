SPECIFICATION Spec
CONSTANTS
    None = None
    Users = {u1}
    Backends = {b1, b2}
    DefaultBackend = b1
    Seeds = {s1}
    Offered = {"aes256gcm-argon2id"}
    Slots = {t1, t2}
    Commands = {"login", "register", "logout", "check", "list", "decrypt", "add", "delete", "backend", "endpoint", "probe", "request", "preference", "encryption"}
INVARIANTS SignedInMeans CacheOfSession TokenStaysHome 
SYMMETRY Symmetry
VIEW WithoutEntries
CHECK_DEADLOCK FALSE
