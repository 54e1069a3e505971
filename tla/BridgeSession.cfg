\* A vault caller, a refresh and a chat; the bridge process may exit twice.
SPECIFICATION SFairSpec
CONSTANTS
    Vaults = {v1}
    Quiets = {q1}
    Chats = {c1}
    Proxy = Proxy
    NoOwner = NoOwner
    SessionTTL = 1
    MaxTime = 2
    MaxSessions = 3
    MaxPorts = 2
INVARIANTS NobodyForgotten TokensOfThisPort RetriedWithAnother
PROPERTIES EveryCallSettles
