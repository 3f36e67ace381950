SPECIFICATION Spec
CONSTANTS
    MaxSock = 4
    Backlogs = {1, 2}
    Ports = {1}
    AnyPort = 1
    MaxOpen = 2
    Env = {"createFails", "handshakeTimesOut"}
INVARIANTS NoFault BacklogAccounts
PROPERTIES DescriptorsKept AcceptGivesConnection
CHECK_DEADLOCK FALSE
