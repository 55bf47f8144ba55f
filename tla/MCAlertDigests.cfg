SPECIFICATION DigestFairSpec
CONSTANTS
    Alerts = {a1}
    Chats = {c1, c2}
    NoChat = NoChat
    Slots = {w1}
    NoAlert = NoAlert
    Configs <- DigestTenants
    Attempts = 2
    MaxStalls = 1
    DailyLimit = 0
    Faults = {"slot_crash", "scheduler_crash", "db_error", "unanswered"}
    MaxFaults = 1
    MaxSends = 1
    MaxCopies = 3
    MaxGroups = 1
    MaxAge = 1
INVARIANTS FlushedMeansReceived DigestCopiesNeedFaults
PROPERTIES DueItemsAreOffered FlushedConverges QueuedDeliveriesSettle
CHECK_DEADLOCK FALSE
