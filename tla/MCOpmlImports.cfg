SPECIFICATION Spec
CONSTANTS
    i1 = i1
    i2 = i2
    u1 = u1
    u2 = u2
    u3 = u3
    Imports = {i1, i2}
    Urls = {u1, u2, u3}
    BadUrl = BadUrl
    Hash <- CollidingHash
    Documents <- MixedDocuments
    Malformed = Malformed
    Tables <- OldTables
    MaxFeeds = 2
    Slots = {w1, w2}
    NoImport = NoImport
    Attempts <- TwoAttempts
    MaxStalls = 1
    Faults = {"slot_crash", "lock_lost", "db_error", "redis_error", "call_lost"}
    MaxFaults = 1
    MaxConfirms = 2
    MaxRegisters = 1
SYMMETRY Symmetry
PROPERTIES CompletedLeavesNothing PreviewStays
CHECK_DEADLOCK FALSE
