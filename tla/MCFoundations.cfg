SPECIFICATION FoundationsSpec
CONSTANTS
    LogDep = {1}
    MaxLines = 3
    MaxLost = 1
    MaxBackups = 2
    Name = {"A", "B"}
    Scope <- MCScope
    Project = {}
    Env = {"prod"}
    Given <- MCGiven
    Flags <- MCFlags
    Dep = {1, 2, 3}
    MAX_ENTRIES = 2
    MAX_VARIABLES = 1
    MaxSkip = 1
    Simulated = FALSE
    MaxSaves = 2
    MaxDefs = 2
    MaxRuns = 2
    Texts = {"first", "edited", "rebased"}
    FirstText = "first"
    Requires <- MCRequires
    MaxFolder = 2
    MaxImages = 1
    RangeStart = 39998
    RangeEnd = 40000
    Need = 2
    MaxAttempts = 3
    MaxEvents = 2
INVARIANTS
    Replayable
    ReadsAcknowledged
    BackedUp
    PinsReadable
    NamedIsThere
    SameValues
    RunsWhatWasChecked
    SecretsSwept
    Attributed
    PortPromised
PROPERTY DurableSpec
CHECK_DEADLOCK FALSE
