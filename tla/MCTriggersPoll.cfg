SPECIFICATION Spec
CONSTANTS
    Commit = {"a", "b"}
    Delivery = {}
    Url = {1, 2}
    Time = {1}
    MaxDep = 1
    Executor = {"watch"}
    MaxVersion = 2
    MaxRetired = 1
    MaxCrash = 0
INVARIANTS Readable
