SPECIFICATION Spec
CONSTANTS
    NoMemory = NoMemory
    Gain <- MCGain
    Loss <- MCLoss
    DecayPerAge = 1
    SnapshotRetention = 1
    MaxStrength = 2
    Retention = 1
    WeakLevel = 0
    StaleAge = 1
    MemoryId = {"c", "s", "v", "i", "j"}
    MergeKey = {"ks", "ki", "kj"}
    SchemaKey = {"ks", "ki", "kj"}
    CreateInput = {}
    AccommodateInput <- MCAccommodate
    PacketInput = {}
    SchemaInput <- MCSchema
    IntentResult <- MCIntent
    Patch = {}
    ReplacementId = {}
    GeneratedId = {"v"}
    CallerRelation = {"related"}
    CallerId = {"c", "v"}
    Evidence <- MCEvidence
    MaxBirths = 3
INVARIANTS
    IdInvariant
    SupersessionMirrored
PROPERTIES
    RelationsStayClosed
