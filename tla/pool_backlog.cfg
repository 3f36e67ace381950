SPECIFICATION FairSpec
CONSTANTS
    MaxSock = 4
    Backlogs = {1, 2}
    Ports = {1}
    AnyPort = 1
    MaxOpen = 1
    Env = {}
INVARIANTS QueueHoldsUnaccepted OneListener
PROPERTY ConnectionServed
