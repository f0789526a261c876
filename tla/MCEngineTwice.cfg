SPECIFICATION Spec
CONSTANTS
    Dep = {1, 2, 3}
    Port = {p1, p2}
    NoDep = 0
    NoPort = noport
SYMMETRY Ports
CHECK_DEADLOCK FALSE
INVARIANTS ServingIsUp PinServes
PROPERTIES Promise
