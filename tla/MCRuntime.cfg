SPECIFICATION FairSpec
CONSTANTS
    MaxPid = 2
    MaxForeground = 1
    MaxFault = 1
CHECK_DEADLOCK FALSE
INVARIANTS OneMachine CleanExit
PROPERTIES StopHonoured CommandEnds
