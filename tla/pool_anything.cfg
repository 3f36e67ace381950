SPECIFICATION Spec
CONSTANTS
    MaxSock = 3
    Backlogs = {1, 2}
    Ports = {1, 2}
    AnyPort = 1
    MaxOpen = 1
    Env = {"createFails", "listenFails", "handshakeTimesOut", "datagram", "rebind", "relisten", "staleFds", "reconfigure"}
INVARIANT ClientListsOwn
CHECK_DEADLOCK FALSE
