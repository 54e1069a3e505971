\* Three connections that end and come back with the process.
SPECIFICATION Spec
CONSTANTS
    Handles = {h1, h2, h3}
    None = None
SYMMETRY Symmetry
INVARIANTS RevokedForGood PromiseKept OkMeansSaved
