SPECIFICATION LifecycleSpec
CONSTANTS
    ClaimId = {c1, c2}
    Text = {"t"}
    Category = {"", "  ", "work", "Health", " Health"}
    Health = {"Health", " Health"}
    Lowered = {"Health"}
    NoCategory = ""
    App = {"fit", "clinic"}
    NoApp = ""
    Spelling = {"Fit", "fit ", "Clinic", " "}
    AppName <- MCAppName
    NoEntry = NoEntry
    IndexKey = {"health", "work", "blank"}
    Blank = "blank"
    KeyOf <- MCKeyOf
    Reported <- MCAround
    Update <- MCUpdate
    Keep = "-"
    Origin = {"manual"}
    MaxRectified = 2
    MaxHeld = 2
    MaxListed = 2
\* And HealthNeedsTwoApps in its place.
INVARIANT
    HealthIsChecked
