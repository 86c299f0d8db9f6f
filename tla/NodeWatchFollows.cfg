SPECIFICATION FairSpec
CONSTANTS
    Namespaces = {n}
    Keys = {k}
    Values = {a, b}
    Absent = Absent
    Default = Default
    Fields = {f}
    Defaulted = {f}
    Watchers = {w}
    MaxRevision = 2
    MaxDisturbed = 1
PROPERTIES FieldsFollow
CHECK_DEADLOCK FALSE
