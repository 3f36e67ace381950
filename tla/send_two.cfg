SPECIFICATION Spec
CONSTANTS
    Tcp = {t1, t2}
    Udp = {}
    TxMax = 1
    Sizes = {1}
PROPERTY BusyIsTrue
