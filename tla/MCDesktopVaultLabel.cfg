SPECIFICATION Spec
CONSTANTS
    None = None
    Users = {u1}
    Backends = {b1}
    DefaultBackend = b1
    Seeds = {s1}
    Offered = {"aes256gcm-argon2id", "aes256gcm-sha256"}
    Slots = {t1}
    Commands = {"login", "register", "encryption", "add", "logout"}
INVARIANT PhraseOpensVault
CHECK_DEADLOCK FALSE
