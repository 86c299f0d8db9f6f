SPECIFICATION Spec
CONSTANTS
    w = w
    v = v
    Namespaces = {w}
    Watched = {w}
    RetainRows = 3
    MaxRevision = 4
    MaxNamespaceID = 2
    Histories <- Existing
    Clients = {c1}
    DispatchBatch = 2
    BufferCap = 2
    MaxReplay = 3
INVARIANTS TypeOK EventsInOrder NothingOvertaken LiveComplete ReplayExact ResumeComplete
