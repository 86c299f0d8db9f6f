\* A rollback that reads its labels while others activate.
SPECIFICATION Spec
CONSTANTS
    Params = {}
    Secrets = {}
    Sessions = {}
    AckStates = {"applied"}
    RetainVersions = 3
    EventRetention = 1
    MaxVersion = 3
    MaxRevision = 5
    MaxSequence = 0
    MaxConnections = 0
PROPERTY RollbackActivatesPrevious
