\* Two processes, two master keys, a legacy token.
SPECIFICATION FairSpec
CONSTANTS
    Processes = {p1, p2}
    MasterKeys = {"k1", "k2"}
    NoKey = NoKey
    Tokens = {"a", "b"}
    NoToken = NoToken
    GlobalToken = "global"
    Nothing = "nothing"
    LegacyVersion = 1
    CurrentVersion = 2
    FutureVersions = {3}
    StartTokens <- Stored
    Faults = {"db_error", "reply_lost"}
    MaxFaults = 1
    MaxSaves = 2
    MaxRestarts = 1
INVARIANTS TokensStay BotsFollowSettings
PROPERTY LegacyIsUpgraded
