SPECIFICATION ExchangeSpec
CONSTANTS
    MemoryId = {"a", "s", "v"}
    NoMemory = ""
    MergeKey = {"ka", "ks"}
    SchemaKey = {"ks"}
    MaxStrength = 1
    Retention = 0
    WeakLevel = 0
    Gain <- MCGain
    Loss <- MCLoss
    StaleAge = 1
    DecayPerAge = 1
    SnapshotRetention = 1
    CreateInput <- MCCreate
    AccommodateInput = {}
    PacketInput = {}
    SchemaInput <- MCSchema
    IntentResult = {}
    Patch = {}
    ReplacementId = {}
    GeneratedId = {"v"}
    CallerRelation = {}
    CallerId = {"a"}
    Evidence = {"s"}
    MaxBirths = 3
    SearchScore <- MCSearchScore
    StrengthScore <- MCStrengthScore
    SchemaBonus = 10
    MinScore = 12
    Category = {"work"}
    CategoryOf <- MCCategoryOf
    NoCategory = ""
    Key = {k1, k2}
    k1 = k1
    k2 = k2
    Nothing = Nothing
SYMMETRY
    MCSymmetry
INVARIANTS
    UniqueIds
    RestoredIsClosed
    ContextIsBest
PROPERTIES
    RelationsStayClosed
    OnlyTakenMemoriesReturn
    ImportKeepsTheRest
    RetryKeepsMemories
