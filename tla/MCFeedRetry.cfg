\* One feed under fairness, with no failure but that of its fetches.
SPECIFICATION FairSpec
CONSTANTS
    Feeds = {f1}
    Schedulers = {s1}
    Workers = {w1}
    ManualIds = {}
    NoJob = NoJob
    BatchSize = 1
    Attempts = 2
    MaxStalls = 1
    RetainFailed = 1
    DnsThreshold = 1
    BlockedThreshold = 2
    MaxErrors = 2
    Faults = {}
    MaxFaults = 0
    MaxRequests = 0
PROPERTY ErroredFeedsRetried
