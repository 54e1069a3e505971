\* One bridge process with restarts and crashes; writes succeed.
SPECIFICATION Spec
CONSTANTS
    Procs = {p1}
    Ids = {r1, r2}
    Prints = {f1, f2}
    TTL = 2
    MaxEntries = 1
    MaxRuns = 2
    MaxTime = 4
    MayLoseWrites = FALSE
INVARIANTS Restartable
PROPERTIES OncePromised ReplaysGenuine
