\* One feed under fairness, every kind of failure, and an API request: a change of
\* the feed, or a manual check that races the scheduler.
SPECIFICATION FairSpec
CONSTANTS
    Feeds = {f1}
    Schedulers = {s1}
    Workers = {w1, w2}
    ManualIds = {m1}
    NoJob = NoJob
    BatchSize = 1
    Attempts = 2
    MaxStalls = 1
    RetainFailed = 1
    DnsThreshold = 1
    BlockedThreshold = 1
    MaxErrors = 1
    Faults = {"scheduler_crash", "worker_crash", "lock_lost", "redis_flush", "redis_error", "db_error"}
    MaxFaults = 1
    MaxRequests = 1
INVARIANT FreshErrorCount
PROPERTIES DormantFeedsRest ClaimsEnd PolledFeedsFetched
