SPECIFICATION Spec
CONSTANTS
    Parameters = {1}
    Secrets = {2}
    MaxAttempts = 2
    MaxDisturbed = 2
INVARIANTS
    TypeOK
    ShippedAsShown
    RolloutIsOurs
    RefusedWroteNothing
    PreviewComing
PROPERTIES
    NothingReverted
