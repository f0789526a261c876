SPECIFICATION DesktopSpec
CONSTANTS
    Parts = {"router", "workers", "operations", "releases"}
    Apps = {"alpha", "alpha-2", "bravo"}
    HostOf <- MCHostOf
    AppPorts = {38000, 38001}
    OwnPort = 7480
    Conns = {1, 2}
    MaxOpen = 1
    TTL = 2
    MaxMoves = 3
    Shells = {"s1", "s2"}
    Pids = {1, 2}
    Fds = {1, 2}
    Calls = {1, 2, 3}
    MaxPolls = 1
    Roots = {"far", "inner"}
    Overlaps = {"inner"}
    MaxListed = 1
    MaxOps = 1
    MaxTurns = 1
    Budget = 2
    PipeSize = 1
    MaxEdits = 2
    Deps = {1, 2, 3, 4}
    HostPorts = {1, 2, 3, 4}
    MaxTeardowns = 1
    MaxMeddling = 1
    Loopbacks = {"127.0.0.1", "127.0.0.2"}
    Slots = {1}
    MaxSurprises = 0
INVARIANTS
    RefreshUnderControl
    RouteIsRecent
    DockerAsConfirmed
    RememberedIsGuarded
    OnlyTheRelease
    RunningIsLeased
    RecordsNameServed
CHECK_DEADLOCK FALSE
