SPECIFICATION FairSpec
CONSTANTS
    None = None
    Users = {u1}
    Backends = {b1}
    DefaultBackend = b1
    Seeds = {s1, s2}
    Offered = {"aes256gcm-argon2id"}
    Slots = {t1, t2}
    Commands = {"login", "register", "logout", "add", "rotate", "store"}
INVARIANTS TypeOK PhraseOpensVault
PROPERTIES CommandsReturn LockTakesEffect
CHECK_DEADLOCK FALSE
