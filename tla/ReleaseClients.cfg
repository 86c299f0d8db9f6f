\* Two disturbances of any kind, for a process of either SDK: does its loader keep
\* the contract on the way, and does the rollout come to its end?
SPECIFICATION FairClientSpec
CONSTANTS
    Params = {}
    Secrets = {}
    Sessions = {s1}
    Self = s1
    AckStates = {"received", "prepared", "applied", "rejected"}
    RetainVersions = 2
    EventRetention = 2
    MaxVersion = 2
    MaxRevision = 2
    MaxSequence = 8
    MaxConnections = 3
    MaxDisturbances = 2
    Divergent = {2}
    Cold = {2}
INVARIANTS OpenStreamIsConnected FailsOnlyWithoutSession NeverColdSwapped DivergenceReported
PROPERTIES KeepsContract RolloutConverges
