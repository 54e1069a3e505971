\* One stream; the page buffers two entries.
SPECIFICATION RFairSpec
CONSTANTS
    MaxChunks = 4
    MaxBuffered = 2
INVARIANTS RTypeOK DoneMeansAll AbandonedIsAborted
PROPERTIES ChunksInOrder StreamSettles WorkReleased
CHECK_DEADLOCK FALSE
