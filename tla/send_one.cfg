SPECIFICATION FairSpec
CONSTANTS
    Tcp = {t1}
    Udp = {u1}
    TxMax = 2
    Sizes = {1, 3}
INVARIANTS NothingOverwritten OneSendAtATime SentHasLeft
PROPERTY BusyEnds
