SPECIFICATION NodeSpec
CONSTANTS
    Params = {}
    Secrets = {}
    Sessions = {s1}
    Self = s1
    AckStates = {"received", "prepared", "applied", "rejected"}
    RetainVersions = 2
    EventRetention = 2
    MaxVersion = 2
    MaxRevision = 3
    MaxSequence = 9
    MaxConnections = 4
    MaxDisturbances = 3
    Divergent = {2}
    Cold = {2}

PROPERTY StartupErrorOnlyAtStartup
