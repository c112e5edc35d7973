SPECIFICATION Spec
CONSTANTS
    NoMemory = NoMemory
    Gain <- MCGain
    Loss <- MCLoss
    DecayPerAge = 1
    SnapshotRetention = 1
    MaxStrength = 2
    Retention = 1
    WeakLevel = 0
    StaleAge = 1
    MemoryId = {"a", "p", "v"}
    MergeKey = {"ka", "kp"}
    SchemaKey = {}
    CreateInput <- MCWritten
    AccommodateInput = {}
    PacketInput <- MCPacket
    SchemaInput = {}
    IntentResult = {}
    Patch <- MCStatePatch
    ReplacementId = {}
    GeneratedId = {"v"}
    CallerRelation = {"related"}
    CallerId = {"a", "p"}
    Evidence = {"p"}
    MaxBirths = 3
\* Each of TaskHidesForgotten, BackupSkipsPending, ApprovedBackupRestores and
\* BackupDropsDanglingActions in turn.
INVARIANT
    ApprovedBackupRestores
