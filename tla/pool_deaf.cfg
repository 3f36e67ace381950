SPECIFICATION Spec
CONSTANTS
    MaxSock = 3
    Backlogs = {1}
    Ports = {1}
    AnyPort = 1
    MaxOpen = 2
    Env = {}
INVARIANT SomeoneListens
CHECK_DEADLOCK FALSE
