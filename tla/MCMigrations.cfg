\* Three containers with different images, three files.
SPECIFICATION FairSpec
CONSTANTS
    Runners = {"old", "new", "edited"}
    Files <- Images
    NoBody = NoBody
    Unhashed = Unhashed
    StartTables <- Tables
    NoRunner = NoRunner
    LockTries = 2
    Faults = {"crash", "lock_connection", "sql_error", "commit_unanswered"}
    MaxFaults = 3
INVARIANTS ExecutedOnceInOrder ServesItsSchema
PROPERTIES RunnersEnd
CHECK_DEADLOCK FALSE
