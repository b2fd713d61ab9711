CONSTANTS
    author = author
    hub = hub
    reader = reader
    c1 = c1
    c2 = c2
    k1 = k1
    k2 = k2
    k3 = k3
    Store = {author, hub, reader}
    Peer = {author}
    Caller = {c1}
    DeviceOf <- OneAuthor
    Slot = {k1, k2}
    MaxEntries = 3
    MaxAppends = 3
    Hub = hub
    MaxLogs = 1
    MaxLogBytes = 3
    MaxEntryBytes = 2
    ReadBatch = 2
    Size <- EntrySizes
    CatchUpBatchLimit = 2
    MaxAbandons = 1
    Socket = {"s1", "s2", "s3", "g1", "g2"}
    Scenario <- MCScenario
    Advert <- MCAdvert
    MaxVerifying = 2
SYMMETRY SlotSymmetry
SPECIFICATION HubSpec
INVARIANTS
    ReplicaIsPrefix
    
    WakesAsItSlept

    
