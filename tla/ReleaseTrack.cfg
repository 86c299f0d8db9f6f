\* Two releases of a parameter and a secret: resource versions come and go
\* between a release's creation, its activation, its pinning and its retention,
\* and acknowledgements come late and repeated, with a retention the sequences
\* outgrow.
SPECIFICATION Spec
CONSTANTS
    Params = {p1}
    Secrets = {k1}
    Sessions = {s1}
    AckStates = {"applied"}
    RetainVersions = 1
    EventRetention = 1
    MaxVersion = 2
    MaxRevision = 3
    MaxSequence = 2
    MaxConnections = 1
INVARIANTS
    TypeOK
    ReferencedReleasesIntact
    NewestReleaseKept
    RevisionNamesOneTarget
    CaughtUpMeansTarget
    EffectiveIsNewest
    OnePayloadPerSequence
PROPERTIES
    TargetMonotone
    TargetStaysAcknowledgeable
