SPECIFICATION Spec
CONSTANTS
    NoMemory = NoMemory
    Gain <- MCGain
    Loss <- MCLoss
    DecayPerAge = 1
    SnapshotRetention = 1
    MaxStrength = 2
    Retention = 1
    WeakLevel = 0
    StaleAge = 1
    MemoryId = {"a", "i"}
    MergeKey = {"ka", "ki"}
    SchemaKey = {}
    CreateInput <- MCCreate
    IntentResult <- MCIntent
    Idle = Idle
    Client = {c1}
    Run = {r1}
    Patch <- MCPatch
    MaxCalls = 4
    LinkedIds <- MCLinked
    CallerId = {"a", "i"}
    c1 = c1
    r1 = r1
PROPERTIES
    DaemonRemovesOnlyReclaimable
CHECK_DEADLOCK FALSE
