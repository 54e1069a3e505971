\* A vault in password mode; writes of the vault file may fail.
SPECIFICATION Spec
CONSTANTS
    Items = {i1, i2}
    Passwords = {w1, w2}
    KeychainKeys = {}
    AutoLock = 3
    RateLimit = 1
    Tiers <- TwoTiers
    MayFail = {"vault file"}
SYMMETRY Symmetry
INVARIANTS WipedWhenLocked SavesDurable
PROPERTIES LockoutHonoured
