SPECIFICATION MCSpec
CONSTANTS
    Values = {"a"}
    First = "first"
    Sockets = {0, 1}
    MaxCalls = 2
    Env = {}
INVARIANTS AddressTakenOver ModeTakenOver TaskInvariant
PROPERTY LinkFollows
