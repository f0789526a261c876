SPECIFICATION FairSpec
CONSTANTS
    Commit = {"a"}
    Delivery = {"d"}
    Url = {1}
    Time = {1}
    MaxDep = 2
    Executor = {"watch", "run"}
    MaxVersion = 1
    MaxRetired = 0
    MaxCrash = 1
INVARIANTS OneRunning
PROPERTIES SettledForever HeldServed
