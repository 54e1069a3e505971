\* Two requests at a table for one nonce; two grants and two providers, no session.
SPECIFICATION Spec
CONSTANTS
    Nonces = {n1, n2}
    Ids = {g1, g2}
    Subjects = {x}
    Providers = {p, q}
    Models = {m}
    Every = Every
    Sessions = {}
    MaxLifetime = 1
    MaxSkew = 1
    MaxConsumed = 1
    MaxLeft = 1
SYMMETRY Symmetry
INVARIANTS PassesOnce
PROPERTIES OnlyLiveGrantsAllow
