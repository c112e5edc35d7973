SPECIFICATION FileSpec
CONSTANTS
    Caller = {client, app, daemon}
    client = client
    app = app
    daemon = daemon
    MaxSaves = 3
    Chunk = {"short", "head", "tail", "top", "end"}
    NoChunk = "nul"
    JsonText <- MCJsonText
    StoreText <- MCStoreText
SYMMETRY
    MCSymmetry
INVARIANTS
    LoadsAreRecent
    CleanSaveIsStored
