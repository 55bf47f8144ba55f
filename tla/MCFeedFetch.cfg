\* Two feed jobs of one domain, and a probe.
SPECIFICATION FairSpec
CONSTANTS
    Slots = {s1, s2}
    Probes = {q1}
    Urls = {"feed", "mirror", "intranet", "file"}
    Domain <- Hosts
    StartUrls = {"feed", "intranet"}
    BadScheme = {"file"}
    BlockedHosts = {"private"}
    AllowPrivate = FALSE
    NoUrl = NoUrl
    MaxRedirects = 2
    Interval = 2
    BaseBackoff = 1
    MaxBackoff = 3
    RetryAfters = {0, 2, 4}
    NoRetryAfter = NoRetryAfter
    MaxTimer = 3
    Timeout = 2
INVARIANT RequestsAreSafe
PROPERTIES SlotsArePaced BackoffIsHeeded FetchesEnd
CHECK_DEADLOCK FALSE
