SPECIFICATION Spec
CONSTANTS
    NoMemory = NoMemory
    Gain <- MCGain
    Loss <- MCLoss
    DecayPerAge = 1
    SnapshotRetention = 1
    MaxStrength = 2
    Retention = 1
    WeakLevel = 0
    StaleAge = 1
    MemoryId = {"a", "p", "s", "v", "i", "j"}
    MergeKey = {"ka", "ks", "kt", "kp", "ki", "kj"}
    SchemaKey = {"ks", "kt"}
    CreateInput = {}
    AccommodateInput = {}
    PacketInput = {}
    SchemaInput <- MCSlugCollision
    IntentResult = {}
    Patch = {}
    ReplacementId = {}
    GeneratedId = {"v"}
    CallerRelation = {"related"}
    CallerId = {"s", "v"}
    Evidence = {}
    MaxBirths = 3
\* And PROPERTY RememberKeepsLiveKeys in its place.
INVARIANT
    UniqueIds
