SPECIFICATION Spec
CONSTANTS
    Commit = {"a"}
    Delivery = {"d"}
    Url = {1}
    Time = {1}
    MaxDep = 3
    Executor = {"run", "user"}
    MaxVersion = 1
    MaxRetired = 0
    MaxCrash = 0
PROPERTY PausedNotDeployed
