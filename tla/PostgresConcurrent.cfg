SPECIFICATION FairSpec
CONSTANTS
    User = {"u"}
    MemoryId = {"a", "b"}
    Content = {"x", "y"}
    Saver = {"s1", "s2"}
    UserOf <- MCUserOf
    OwnId <- MCOwnId
    PoolSize = 2
    NoRow = NoRow
    Untouched = Untouched
    NoSaver = NoSaver
    NoId = NoId
PROPERTIES
    StoresSpec
    SavesEnd
