\* Two origins share the storage and the popup; two attempts between them, one
\* with a time limit.
SPECIFICATION FairSpec
CONSTANTS
    Origins = {o1, o2}
    Attempts = {a1, a2}
    Unlimited = {a2}
    None = None
    MaxLeaving = 2
INVARIANTS RecordsAllowed SessionsAnswered ConnectedHasSession
PROPERTIES ConnectsSettle
CHECK_DEADLOCK FALSE
