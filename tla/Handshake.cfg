\* One bridge process that may stop, crash in mid-verification and start again.
SPECIFICATION HSpec
CONSTANTS
    Procs = {p1}
    Nonces = {n1, n2, n3}
    Tokens = {t1, t2}
    ChallengeTTL = 2
    SessionTTL = 3
    MaxTime = 6
    MayLoseWrites = FALSE
SYMMETRY Symmetry
INVARIANTS NonceOpensOneSession LiveSessionsKnown SessionsExpire AnsweredInTime
