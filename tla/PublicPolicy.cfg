\* Two processes, one generation after the one the page was rendered with.
SPECIFICATION FairSpec
CONSTANTS
    Replicas = {r1, r2}
    Stopped = {r1}
    MaxRevision = 2
    MaxRefreshes = 2
    MaxDisturbed = 1
INVARIANTS TypeOK ResourceClosedOnce RefreshingIsReal
PROPERTIES PolicyNeverBack CloseSettles SubmissionAccepted
