SPECIFICATION Spec
CONSTANTS
    Dep = {1}
    Key = {"image", "test", "pre", "port", "main", "restored"}
    ListFails = FALSE
CHECK_DEADLOCK FALSE
INVARIANTS Accounted
PROPERTIES NeverDropped
