SPECIFICATION FairSpec
CONSTANTS
    NoMemory = NoMemory
    Gain <- MCGain
    Loss <- MCLoss
    DecayPerAge = 1
    SnapshotRetention = 1
    MaxStrength = 2
    Retention = 1
    WeakLevel = 0
    StaleAge = 1
    MemoryId = {"a", "i"}
    MergeKey = {"ka", "ki"}
    SchemaKey = {}
    CreateInput <- MCCreate
    IntentResult <- MCIntent
    Idle = Idle
    Client = {c1, c2}
    Run = {r1, r2}
    Patch <- MCPatch
    MaxCalls = 3
    LinkedIds <- MCLinked
    CallerId = {"a", "i"}
    c1 = c1
    c2 = c2
    r1 = r1
    r2 = r2
INVARIANTS
    DiskLoads
PROPERTIES
    OnlyRacesLoseOrRevive
    EventuallyCompacted
CHECK_DEADLOCK FALSE
