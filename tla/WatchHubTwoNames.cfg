SPECIFICATION Spec
CONSTANTS
    w = w
    v = v
    Namespaces = {w, v}
    Watched = {w, v}
    RetainRows = 3
    MaxRevision = 2
    MaxNamespaceID = 3
    Histories <- Fresh
    Clients = {c1}
    DispatchBatch = 2
    BufferCap = 1
    MaxReplay = 2
INVARIANT ReconnectReceivesMissed
