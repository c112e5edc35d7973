SPECIFICATION Spec
CONSTANTS
    MemoryId = {"a", "b", "c"}
    Field = {"meals", "goal", "raw"}
    App = {"x", "y"}
    Value = {"2", "3"}
    EntryType = {"declared", "observed"}
    Key = {k1, k2}
    Written <- MCNested
    MaxDay = 1
    Item = {"restrictions", "plan"}
    Category = {"food", "fitness"}
    FieldCategory <- MCFieldCategory
    Blocked = {"raw"}
    Matches <- MCMatches
    Text = {"2", "3", "undefined"}
    TextOf <- MCTextOf
    TextOrder <- MCTextOrder
    TypeWeight <- MCTypeWeight
    Freshness <- MCFreshness
    Request <- MCRequest
    NoPacket = NoPacket
INVARIANT
    QuotesAreShared
