\* A worker whose master key is not the one the token is under.
SPECIFICATION Spec
CONSTANTS
    Processes = {p1, p2}
    MasterKeys = {"k1", "k2"}
    NoKey = NoKey
    Tokens = {"a", "b"}
    NoToken = NoToken
    GlobalToken = "global"
    Nothing = "nothing"
    LegacyVersion = 1
    CurrentVersion = 2
    FutureVersions = {3}
    StartTokens <- Stored
    Faults = {}
    MaxFaults = 0
    MaxSaves = 1
    MaxRestarts = 0
INVARIANT BotsAreTheTenants
