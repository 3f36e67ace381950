SPECIFICATION FairSpec
CONSTANTS
    Threads = {t1, t2}
    Hosts = {h1, h2}
    Slots = {s1}
    MaxRetry = 2
    MaxPackets = 1
    Env = {"createFails", "longNames", "duplicates"}
INVARIANTS AddressIsHosts SocketGivenBack
PROPERTY LookupEnds
