\* Two replicas, two requests at once, the bootstrap key.
SPECIFICATION FairSpec
CONSTANTS
    Replicas = {r1, r2}
    MaxRequests = 2
    Keys = {"boot"}
    BootKey = "boot"
    Tenants = {"t1"}
    KeyTenant <- OneTenant
    Peer = "peer"
    NoCredential = "none"
    Session = "session"
    SessionTenant = "t1"
    Providers = {"clerk_api_key"}
    Routes = {"default", "write"}
    Stores = {"redis", "memory"}
    Limits <- Budget
    Window = 2
    Faults = {"store_error", "reply_lost", "redis_loss", "restart"}
    MaxFaults = 1
INVARIANTS BudgetHolds RevokedKeysStayOut
PROPERTY PersistenceIsAdmitted
