SPECIFICATION Spec
CONSTANTS
    Commit = {"a"}
    Delivery = {"d", "e"}
    Url = {1}
    Time = {1, 2}
    MaxDep = 2
    Executor = {"run", "user"}
    MaxVersion = 1
    MaxRetired = 0
    MaxCrash = 1
INVARIANTS NewestWins
