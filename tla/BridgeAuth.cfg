\* One bridge process with restarts; writes succeed.
SPECIFICATION Spec
CONSTANTS
    Procs = {p1}
    Peers = {e1}
    SessionIds = {s1}
    Handles = {h1, h2}
    NoHandle = NoHandle
    CodeTTL = 1
    MaxAttempts = 1
    BackoffBase = 1
    Nonces = {n1, n2}
    Tokens = {t1, t2}
    ChallengeTTL = 1
    SessionTTL = 2
    MaxTime = 3
    MayLoseWrites = FALSE
SYMMETRY Symmetry
INVARIANTS RevocationTakesEffect
PROPERTIES RetiredOpensNothing
