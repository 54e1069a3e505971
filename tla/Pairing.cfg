\* One bridge process that may stop and start at any moment; writes succeed.
SPECIFICATION PSpec
CONSTANTS
    Procs = {p1}
    Peers = {e1}
    SessionIds = {s1, s2}
    Handles = {h1, h2}
    NoHandle = NoHandle
    CodeTTL = 8
    MaxAttempts = 3
    BackoffBase = 1
    MaxTime = 8
    MayLoseWrites = FALSE
SYMMETRY Symmetry
INVARIANTS AttemptsBounded RetiredStaysRetired RotationExclusive
PROPERTIES BackoffHonoured
