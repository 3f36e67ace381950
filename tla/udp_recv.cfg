SPECIFICATION FairSpec
CONSTANTS
    r1 = r1
    p1 = p1
    p2 = p2
    Receivers <- OneReceiver
    Peers <- TwoPeers
    Sizes = {0, 2}
    Lens = {1, 3}
    Header = 2
    RxMax = 8
    MaxGrams = 3
    Unset = Unset
    Env = {"recvTimeout", "membership", "reopenFails"}
INVARIANTS ReadingAligned UnreadAccounted
PROPERTIES ImplementsQueue ArrivalWakes
