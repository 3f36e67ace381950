SPECIFICATION MCSpec
CONSTANTS
    r1 = r1
    r2 = r2
    First = r1
    Receivers = {r1, r2}
    Lens = {1, 2}
    RxMax = 2
    MaxSent = 2
    Env = {"reset", "recvTimeout"}
INVARIANTS BytesConserved EndIsTrueAlone
PROPERTY ReceiverWokenAlone
CHECK_DEADLOCK FALSE
