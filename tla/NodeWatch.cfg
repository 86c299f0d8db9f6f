SPECIFICATION Spec
CONSTANTS
    Namespaces = {n1, n2}
    Keys = {k}
    Values = {a, b}
    Absent = Absent
    Fields = {f}
    Defaulted = {}
    Default = Default
    Watchers = {w}
    MaxRevision = 2
    MaxDisturbed = 1
INVARIANTS TypeOK NeverBehindStream CacheNotBehind NothingLeaks
CHECK_DEADLOCK FALSE
SYMMETRY Symmetry
