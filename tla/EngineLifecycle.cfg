SPECIFICATION Spec
CONSTANTS
    NoMemory = NoMemory
    Gain <- MCGain
    Loss <- MCLoss
    DecayPerAge = 1
    SnapshotRetention = 1
    MaxStrength = 2
    Retention = 1
    WeakLevel = 0
    StaleAge = 2
    MemoryId = {"a", "p", "v", "i", "j"}
    MergeKey = {"ka", "kp", "ki", "kj"}
    SchemaKey = {}
    CreateInput <- MCCreate
    AccommodateInput = {}
    PacketInput <- MCPacket
    SchemaInput = {}
    IntentResult = {}
    Patch <- MCPatch
    ReplacementId = {}
    GeneratedId = {}
    CallerRelation = {}
    CallerId = {"a", "p"}
    Evidence = {}
    MaxBirths = 3
INVARIANTS
    TypeOK
    RememberMergesAll
PROPERTIES
    RejectedAddsNothing
    OnlyDeletionLosesMemories
    OnlyEditRevivesForgotten
