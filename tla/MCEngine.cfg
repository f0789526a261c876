SPECIFICATION RecoveredSpec
CONSTANTS
    Dep = {1, 2}
    Port = {p1, p2, p3}
    NoDep = 0
    NoPort = noport
CHECK_DEADLOCK FALSE
INVARIANT OneAttempt
PROPERTY RunsSettle
