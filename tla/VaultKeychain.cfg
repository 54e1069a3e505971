\* Both key modes; the OS keychain and the lockout file may fail.
SPECIFICATION FairSpec
CONSTANTS
    Items = {i1}
    Passwords = {w1, w2}
    KeychainKeys = {k1, k2, k3}
    AutoLock = 2
    RateLimit = 1
    Tiers <- OneTier
    MayFail = {"keychain", "lockout file"}
INVARIANTS KeyAsAcknowledged
PROPERTIES IdleLocks
