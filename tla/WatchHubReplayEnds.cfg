SPECIFICATION FairSpec
CONSTANTS
    w = w
    v = v
    Namespaces = {w}
    Watched = {w}
    RetainRows = 1
    MaxRevision = 3
    MaxNamespaceID = 1
    Histories <- Fresh
    Clients = {c1}
    DispatchBatch = 1
    BufferCap = 1
    MaxReplay = 2
PROPERTY ReplayEnds
