SPECIFICATION Spec
CONSTANTS
    Alerts = {a1, a2}
    Chats = {c1}
    Slots = {w1, w2}
    NoAlert = NoAlert
    Configs <- MixedTenants
    Attempts = 2
    MaxStalls = 1
    DailyLimit = 1
    Faults = {"lock_lost", "db_error", "slot_crash", "unanswered", "redis_error", "call_lost"}
    MaxFaults = 1
    MaxSends = 1
    MaxCopies = 3
SYMMETRY Symmetry
INVARIANTS SentMeansReceived CopiesNeedFaults QuotaHolds
PROPERTIES DeliveredStays
CHECK_DEADLOCK FALSE
