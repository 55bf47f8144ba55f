\* Two slots, a scheduled and a manual job of one feed and a job of another.
SPECIFICATION Spec
CONSTANTS
    RuleIds = {1, 2}
    Names = {"n1", "n2"}
    Phrases = {"storm", "flood", "sport", "snow"}
    NoRule = NoRule
    Unset = Unset
    Rows <- NewRows
    Batches <- NewBatches
    Patches = {}
    StartRules <- OneRule
    MaxRuleCalls = 1
    Feeds = {"f1", "f2"}
    Items = {"a1", "a2", "b1", "a3", "b9", "a9"}
    Publisher <- FeedOfItem
    Raw <- RawItems
    Documents <- Shared
    Tracking = {"utm"}
    Absent = Absent
    Jobs = {"j1", "j2", "j3"}
    JobFeed <- FeedOfJob
    NoJob = NoJob
    Configured = 3
    ConcurrencyCap = 2
    PoolMax = 7
    Attempts = 1
    Faults = {"worker_crash", "fetch_error", "db_error", "commit_unanswered", "enqueue_error"}
    MaxFaults = 1
INVARIANTS AlertsCoverEntries ValidatorsAreEarned UnaskedNeedsFault FailuresLeaveTrace NoGridlock
PROPERTIES ImplementsAlertBook
CHECK_DEADLOCK FALSE
