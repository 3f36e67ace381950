SPECIFICATION MCSpec
CONSTANTS
    Mod = 24
    TicksPerSecond = 10
    MsPerSecond = 10
    MaxTimeout = 23
    h1 = h1
    h2 = h2
    e1 = e1
    e2 = e2
    e3 = e3
    Heads <- TwoHeads
    Entries <- ThreeEntries
    Null = Null
    t1 = t1
    t2 = t2
    Users <- TwoUsers
    Addrs = {0, 1}
    Contents = {0, 1}
    Lens = {2}
    Volatile = {1}
    Nobody = Nobody
    Base = 4
    Cap = 8
    Chunks = {3, 4}
    s1 = s1
    Fds <- OneFd
    MsPerS = 3
    UsPerMs = 2
    Word = 16
    Octet = 4
    Ints = {1, 6}
    Timevals <- TwoTimevals
    OptEnv = {"reopenFails"}
    c1 = c1
    c2 = c2
    Callers <- TwoCallers
    Hosts = {"h1", "h2"}
    LongHosts = {"long"}
    Blocks = {1, 2}
    Half = 2
    PingLens = {1, 2}
    PingWords = 1
    Times = {1}
INVARIANTS RemainIsLeft Linked VisitsOnce SizeIsTrue InOrder OptionsKept ResultsOwn ChecksumExact
PROPERTIES RemainNeverGrows ImplementsLists ImplementsRegisters PingEnds
