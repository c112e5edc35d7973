SPECIFICATION ReaderSpec
CONSTANTS
    MemoryId = {"a"}
    Label = {"daytime", "dad"}
    Strength = {1, 2}
    Query = {"day"}
    Score <- MCScore
    Threshold = {2}
    MaxObjects = 3
    MaxSnapshots = 2
    MaxLog = 2
    MaxEntries = 3
INVARIANTS
    AnswerIsStored
    SnapshotsAreIsolated
    JournalIsTail
PROPERTIES
    HeldArraysGrow
