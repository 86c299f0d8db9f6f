SPECIFICATION FairSpec
CONSTANTS
    w = w
    v = v
    Namespaces = {w}
    Watched = {w}
    RetainRows = 3
    MaxRevision = 2
    MaxNamespaceID = 2
    Histories <- Fresh
    Clients = {c1}
    DispatchBatch = 1
    BufferCap = 1
    MaxReplay = 2
PROPERTIES EventuallyDelivered StaleStreamCloses
