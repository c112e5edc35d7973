SPECIFICATION Spec
CONSTANTS
    NoPacket = ""
    Memory <- MCMemory
    Exposure <- MCExposure
    Search <- MCSearch
    Claimed <- MCClaimed
    Thought = {0, 2}
    MaxInputs = 3
INVARIANTS
    TimelineIsExact
    PredatingIsAgreed
    PathsCiteTheTimeline
CHECK_DEADLOCK FALSE
